------------------------ MODULE DownloadQueue_proofs ------------------------
(***************************************************************************)
(* The download queue keeps its promises with any number of workers,       *)
(* requests and jobs: one worker at most has a job, what the user asked for*)
(* is saved, and a batch tells its start and its end once and truly.       *)
(***************************************************************************)
EXTENDS DownloadQueue, FiniteSetTheorems, SequenceTheorems, TLAPS

JobState ==
  [status : {"none", "queued", "downloading", "paused"} \cup Terminal, pause : BOOLEAN,
   cancel : BOOLEAN, later : BOOLEAN, art : BOOLEAN, batch : Batch \cup {NoBatch}]

BatchState ==
  [live : BOOLEAN, selected : Nat, recorded : SUBSET Job, counted : Nat,
   sealed : BOOLEAN, started : BOOLEAN, finished : BOOLEAN]

Lists == UNION {{<<Entry(id, "started")>>, <<Entry(id, "finished")>>,
                 <<Entry(id, "started"), Entry(id, "finished")>>} : id \in Batch}

LeftState ==
  [command : Nat, reconnect : Nat, crash : Nat, jobs : 0 .. MaxJob, size : Nat,
   workers : SUBSET Worker, requests : SUBSET Request, artwork : SUBSET BOOLEAN]

TypeInv ==
  /\ jobs \in [Job -> JobState] /\ stored \in [jobs : [Job -> JobState], paused : BOOLEAN]
  /\ created \in 0 .. MaxJob /\ event \subseteq Job /\ paused \in BOOLEAN
  /\ worker \in [Worker -> [pc : {"idle", "fetch", "settle", "report"}, job : 0 .. MaxJob, completed : BOOLEAN]]
  /\ request \in [Request -> {"idle", "open", "flushed", "done"}]
  /\ depth \in Nat /\ dirty \in BOOLEAN
  /\ batches \in [Batch -> BatchState] /\ outbox \subseteq Lists
  /\ bell \in [Batch -> Seq({"started", "finished"})]
  /\ left \in LeftState

\* A worker that has a job has one that was enqueued; slots are filled in order.
WorkerInv ==
  /\ OneWorkerPerJob
  /\ \A w \in Worker : worker[w].pc # "idle" => worker[w].job \in Job
  /\ \A j \in Job : j > created => jobs[j] = NoJob /\ stored.jobs[j] = NoJob

\* What is acknowledged is in the saved queue, unless the queue is marked dirty;
\* depth counts the requests that will write it.
Kept(js, stop, s) ==
  /\ stop = s.paused
  /\ \A j \in Job : /\ js[j].cancel => s.jobs[j].cancel
                    /\ js[j].status # "none" => s.jobs[j].status # "none"
                    /\ js[j].pause => s.jobs[j].pause

OpenBulk == {r \in Bulk : request[r] = "open"}

SaveInv ==
  /\ depth = 0 => ~dirty
  /\ ~dirty => Kept(jobs, paused, stored)
  /\ IsFiniteSet(OpenBulk) /\ depth = Cardinality(OpenBulk)

\* The jobs of a batch; a batch that nothing has been selected for yet, and one
\* that a crash has cut off: it is never told of again.
OfBatch(js, id) == {j \in Job : js[j].batch = id}
Ended(js, id) == {j \in OfBatch(js, id) : js[j].status \in Terminal}
Fresh(id) == (id \in Request => request[id] = "idle") /\ (id \in Job => id > created)
Over(id) == (id \in Request => request[id] = "done") /\ (id \in Job => id <= created)
CutOff(id) == ~batches[id].sealed /\ Over(id)

\* A batch that is `over` takes no more jobs.
BatchRight(b, js, id, over) ==
  /\ b.recorded \subseteq Ended(js, id) /\ b.counted = Cardinality(b.recorded)
  /\ b.selected = Cardinality(OfBatch(js, id)) \/ (~b.sealed /\ over)
  /\ b.sealed => over
  /\ b.started \/ b.finished => b.sealed
  /\ b.finished => OfBatch(js, id) \subseteq Ended(js, id)

BatchInv ==
  \A id \in Batch :
    /\ BatchRight(batches[id], jobs, id, Over(id))
    /\ Fresh(id) => OfBatch(jobs, id) = {} /\ OfBatch(stored.jobs, id) = {}

\* An entry is in the bell or on its way to it, and in one place only; what is
\* not told yet of a batch is in neither, unless the batch was cut off.
Says(list, id, what) == \E i \in DOMAIN list : list[i] = Entry(id, what)
Was(id, what) == IF what = "started" THEN batches[id].started ELSE batches[id].finished

TellInv ==
  \A id \in Batch : \A what \in {"started", "finished"} :
    /\ Count(bell[id], what) <= 1
    /\ \A list \in outbox : Says(list, id, what) =>
         /\ Count(bell[id], what) = 0
         /\ \A other \in outbox : Says(other, id, what) => other = list
    /\ Count(bell[id], what) > 0 \/ (\E list \in outbox : Says(list, id, what)) =>
         Was(id, what) \/ CutOff(id)

IInv == TypeInv /\ WorkerInv /\ SaveInv /\ BatchInv /\ TellInv

-----------------------------------------------------------------------------
(* Jobs and batches.                                                       *)

LEMMA JobTypes == NoJob \in JobState /\ \A art \in BOOLEAN, b \in Batch \cup {NoBatch} : NewJob(art, b) \in JobState
BY DEF NoJob, NewJob, JobState

LEMMA BatchTypes == NoneSelected \in BatchState /\ OpenBatch \in BatchState
<1>1. NoneSelected \in BatchState
  BY DEF NoneSelected, BatchState
<1>2. [NoneSelected EXCEPT !.live = TRUE] \in BatchState
  <2> HIDE DEF NoneSelected
  <2> QED BY <1>1 DEF BatchState
<1> QED BY <1>1, <1>2 DEF OpenBatch

LEMMA FiniteJobs == ASSUME NEW S \in SUBSET Job PROVE IsFiniteSet(S) /\ Cardinality(S) \in Nat
<1>1. IsFiniteSet(1 .. MaxJob)
  BY QueueAssumption, FS_Interval
<1>2. IsFiniteSet(S)
  BY <1>1, FS_Subset DEF Job
<1> QED BY <1>2, FS_CardinalityType

LEMMA EndedOfBatch ==
  ASSUME NEW js, NEW id
  PROVE  Ended(js, id) \in SUBSET OfBatch(js, id) /\ OfBatch(js, id) \in SUBSET Job
BY DEF Ended, OfBatch

\* A batch whose count has reached what was selected has ended.
LEMMA ToldRight ==
  ASSUME NEW id, NEW b \in BatchState, NEW js, NEW over \in BOOLEAN, BatchRight(b, js, id, over)
  PROVE  BatchRight(Told(b), js, id, over) /\ Told(b) \in BatchState
<1> DEFINE finish == DueFinish(b)
           t == [b EXCEPT !.started = TRUE, !.finished = @ \/ finish,
                          !.live = ~b.finished /\ ~finish /\ b.selected > 0]
<1>1. CASE ~b.sealed
  BY <1>1 DEF Told
<1>2. CASE b.sealed
  <2>1. Told(b) = t
    BY <1>2 DEF Told
  <2>2. finish \in BOOLEAN /\ (finish => b.counted >= b.selected)
    BY DEF DueFinish
  <2>3. finish => OfBatch(js, id) \subseteq Ended(js, id)
    <3> SUFFICES ASSUME finish PROVE OfBatch(js, id) \subseteq Ended(js, id)
      OBVIOUS
    <3>1. /\ b.recorded \in SUBSET OfBatch(js, id) /\ b.recorded \subseteq Ended(js, id)
          /\ b.counted = Cardinality(b.recorded) /\ b.selected = Cardinality(OfBatch(js, id))
      BY <1>2, EndedOfBatch DEF BatchRight
    <3>2. IsFiniteSet(OfBatch(js, id)) /\ Cardinality(OfBatch(js, id)) \in Nat
      BY EndedOfBatch, FiniteJobs
    <3>3. Cardinality(b.recorded) <= Cardinality(OfBatch(js, id)) /\ IsFiniteSet(b.recorded)
      BY <3>1, <3>2, FS_Subset
    <3>4. Cardinality(b.recorded) \in Nat
      BY <3>3, FS_CardinalityType
    <3>5. Cardinality(b.recorded) = Cardinality(OfBatch(js, id))
      BY <2>2, <3>1, <3>2, <3>3, <3>4
    <3>6. b.recorded = OfBatch(js, id)
      BY <3>1, <3>2, <3>5, FS_Subset
    <3> QED BY <3>1, <3>6
  <2> HIDE DEF finish
  <2>4. /\ t \in BatchState /\ t.recorded = b.recorded /\ t.counted = b.counted
        /\ t.selected = b.selected /\ t.sealed = b.sealed /\ (t.finished <=> b.finished \/ finish)
    BY <2>2 DEF BatchState
  <2> HIDE DEF t
  <2>5. BatchRight(t, js, id, over)
    BY <1>2, <2>3, <2>4 DEF BatchRight
  <2> QED BY <2>1, <2>4, <2>5
<1> QED BY <1>1, <1>2 DEF BatchState

\* A job is counted once.
LEMMA OutcomeRight ==
  ASSUME NEW id, NEW b \in BatchState, NEW js, NEW over, BatchRight(b, js, id, over),
         NEW S \in SUBSET Ended(js, id)
  PROVE  BatchRight(RecordOutcome(b, S), js, id, over) /\ RecordOutcome(b, S) \in BatchState
<1> DEFINE recorded == b.recorded \cup S
           counted == b.counted + Cardinality(S \ b.recorded)
           t == [b EXCEPT !.recorded = recorded, !.counted = counted]
<1>1. RecordOutcome(b, S) = t
  BY DEF RecordOutcome
<1>2. recorded \in SUBSET Job /\ recorded \subseteq Ended(js, id) /\ b.recorded \in SUBSET Job
      /\ S \ b.recorded \in SUBSET Job
  BY EndedOfBatch DEF BatchRight, BatchState
<1>3. counted = Cardinality(recorded) /\ counted \in Nat
  <2>1. /\ IsFiniteSet(b.recorded) /\ IsFiniteSet(S \ b.recorded)
        /\ Cardinality(b.recorded) \in Nat /\ Cardinality(S \ b.recorded) \in Nat
    BY <1>2, FiniteJobs
  <2> DEFINE new == S \ b.recorded
  <2>2. recorded = b.recorded \cup new /\ b.recorded \cap new = {}
    OBVIOUS
  <2>3. IsFiniteSet(new)
    BY <2>1
  <2> HIDE DEF new
  <2>4. Cardinality(recorded) = Cardinality(b.recorded) + Cardinality(new) - Cardinality(b.recorded \cap new)
    BY <2>1, <2>2, <2>3, FS_Union
  <2>5. Cardinality(recorded) = Cardinality(b.recorded) + Cardinality(new) - 0
    BY <2>2, <2>4, FS_EmptySet
  <2> QED BY <2>1, <2>5 DEF BatchRight, new
<1> HIDE DEF recorded, counted
<1>4. /\ t \in BatchState /\ t.recorded = recorded /\ t.counted = counted
      /\ t.selected = b.selected /\ t.sealed = b.sealed /\ t.started = b.started /\ t.finished = b.finished
  BY <1>2, <1>3 DEF BatchState
<1> HIDE DEF t
<1> QED BY <1>1, <1>2, <1>3, <1>4 DEF BatchRight

\* Jobs that keep their batch and stay ended when they are.
Continues(js, ks) ==
  \A j \in Job : ks[j].batch = js[j].batch /\ (js[j].status \in Terminal => ks[j].status \in Terminal)

LEMMA ContinuedBatch ==
  ASSUME NEW js, NEW ks, Continues(js, ks), NEW id
  PROVE  /\ OfBatch(ks, id) = OfBatch(js, id) /\ Ended(js, id) \subseteq Ended(ks, id)
         /\ \A b, over : BatchRight(b, js, id, over) => BatchRight(b, ks, id, over)
<1>1. OfBatch(ks, id) = OfBatch(js, id) /\ Ended(js, id) \subseteq Ended(ks, id)
  BY DEF Continues, OfBatch, Ended
<1> QED BY <1>1 DEF BatchRight

-----------------------------------------------------------------------------
(* The bell.                                                               *)

LEMMA CountAppend ==
  ASSUME NEW S, NEW s \in Seq(S), NEW x \in S, NEW y
  PROVE  Count(Append(s, x), y) = Count(s, y) + (IF x = y THEN 1 ELSE 0) /\ Count(s, y) \in Nat
<1> DEFINE At == {i \in DOMAIN s : s[i] = y}
           n == Len(s) + 1
           After == {i \in DOMAIN Append(s, x) : Append(s, x)[i] = y}
<1>1. Len(s) \in Nat /\ DOMAIN s = 1 .. Len(s)
  OBVIOUS
<1>2. IsFiniteSet(At) /\ Cardinality(At) \in Nat /\ n \notin At
  <2>1. IsFiniteSet(1 .. Len(s)) /\ At \in SUBSET (1 .. Len(s))
    BY <1>1, FS_Interval
  <2>2. IsFiniteSet(At)
    BY <2>1, FS_Subset
  <2> QED BY <1>1, <2>1, <2>2, FS_CardinalityType
<1>3. After = IF x = y THEN At \cup {n} ELSE At
  <2>1. /\ Append(s, x)[n] = x /\ \A i \in 1 .. Len(s) : Append(s, x)[i] = s[i]
        /\ DOMAIN Append(s, x) = (1 .. Len(s)) \cup {n}
    OBVIOUS
  <2> QED BY <1>1, <2>1
<1> HIDE DEF At, After
<1>4. Cardinality(After) = Cardinality(At) + (IF x = y THEN 1 ELSE 0)
  <2>1. Cardinality(At \cup {n}) = Cardinality(At) + 1
    BY <1>2, FS_AddElement
  <2> QED BY <1>2, <1>3, <2>1
<1> QED BY <1>2, <1>4 DEF Count, At, After

LEMMA SaysOne ==
  ASSUME NEW list, NEW entry, list = <<entry>>
  PROVE  \A id, what : Says(list, id, what) <=> entry = Entry(id, what)
BY DEF Says

LEMMA ListFacts ==
  ASSUME NEW list \in Lists
  PROVE  \E id \in Batch :
           /\ \A i, what : Says(list, i, what) => i = id
           /\ Head(list).batch = id /\ Head(list).what \in {"started", "finished"}
           /\ Says(list, id, Head(list).what)
           /\ Tail(list) = <<>> \/ Tail(list) \in Lists
           /\ \A what : Says(list, id, what) <=> what = Head(list).what \/ Says(Tail(list), id, what)
           /\ ~Says(Tail(list), id, Head(list).what)
           /\ \A i, what : Says(Tail(list), i, what) => i = id
<1>1. PICK id \in Batch : list \in {<<Entry(id, "started")>>, <<Entry(id, "finished")>>,
                                    <<Entry(id, "started"), Entry(id, "finished")>>}
  BY DEF Lists
<1>2. \A i, what, j, other : Entry(i, what) = Entry(j, other) => i = j /\ what = other
  BY DEF Entry
<1>3. ASSUME NEW w \in {"started", "finished"}, list = <<Entry(id, w)>>
      PROVE  /\ Head(list) = Entry(id, w) /\ Tail(list) = <<>>
             /\ \A i, what : Says(list, i, what) <=> i = id /\ what = w
             /\ \A i, what : ~Says(Tail(list), i, what)
  BY <1>2, <1>3 DEF Says
<1>4. CASE list = <<Entry(id, "started"), Entry(id, "finished")>>
  <2>1. Head(list) = Entry(id, "started") /\ Tail(list) = <<Entry(id, "finished")>>
    BY <1>4
  <2>2. \A i, what : Says(list, i, what) <=> i = id /\ what \in {"started", "finished"}
    BY <1>2, <1>4 DEF Says
  <2>3. \A i, what : Says(Tail(list), i, what) <=> i = id /\ what = "finished"
    <3> DEFINE tail == Tail(list)
    <3>1. tail = <<Entry(id, "finished")>>
      BY <2>1
    <3> HIDE DEF tail
    <3>2. \A i, what : Says(tail, i, what) <=> Entry(id, "finished") = Entry(i, what)
      BY <3>1, SaysOne
    <3>3. \A i, what : Says(tail, i, what) <=> i = id /\ what = "finished"
      BY <1>2, <3>2
    <3> QED BY <3>3 DEF tail
  <2>4. Tail(list) \in Lists
    BY <2>1 DEF Lists
  <2>5. Head(list).batch = id /\ Head(list).what = "started"
    BY <2>1 DEF Entry
  <2> QED BY <2>2, <2>3, <2>4, <2>5
<1>5. ASSUME NEW w \in {"started", "finished"}, list = <<Entry(id, w)>>
      PROVE  Head(list).batch = id /\ Head(list).what = w
  BY <1>3, <1>5 DEF Entry
<1> QED BY <1>1, <1>3, <1>4, <1>5

Due(b, what) == IF what = "started" THEN DueStart(b) ELSE DueFinish(b)
What == {"started", "finished"}

LEMMA Joined == ASSUME NEW a, NEW b PROVE <<a>> \o <<b>> = <<a, b>>
<1>1. <<a>> \in Seq({a, b}) /\ b \in {a, b}
  OBVIOUS
<1>2. Append(<<a>>, b) = <<a>> \o <<b>>
  BY <1>1, AppendIsConcat
<1>3. Append(<<a>>, b) = [i \in 1 .. 2 |-> IF i = 1 THEN a ELSE b]
  OBVIOUS
<1>4. <<a, b>> = [i \in 1 .. 2 |-> IF i = 1 THEN a ELSE b]
  OBVIOUS
<1> QED BY <1>2, <1>3, <1>4

\* What is due of a batch is one list, that says just that.
LEMMA EntriesFacts ==
  ASSUME NEW id \in Batch, NEW b \in BatchState
  PROVE  /\ Entries(id, b) # <<>> => Entries(id, b) \in Lists
         /\ \A i, what : what \in What =>
              (Says(Entries(id, b), i, what) <=> i = id /\ Due(b, what))
<1> DEFINE s == Entry(id, "started")
           f == Entry(id, "finished")
           list == Entries(id, b)
<1>1. \A i, what, j, other : Entry(i, what) = Entry(j, other) <=> i = j /\ what = other
  BY DEF Entry
<1>2. ASSUME NEW l, NEW S, \A i, what : Says(l, i, what) <=> Entry(i, what) \in S
      PROVE  /\ S = {s} => \A i, what : Says(l, i, what) <=> i = id /\ what = "started"
             /\ S = {f} => \A i, what : Says(l, i, what) <=> i = id /\ what = "finished"
             /\ S = {s, f} => \A i, what : Says(l, i, what) <=> i = id /\ what \in What
  BY <1>1, <1>2 DEF What
<1>3. CASE DueStart(b) /\ DueFinish(b)
  <2>0. list = <<s>> \o <<f>>
    BY <1>3 DEF Entries
  <2>1. list = <<s, f>>
    BY <2>0, Joined
  <2> HIDE DEF list, s, f
  <2>2. \A i, what : Says(list, i, what) <=> Entry(i, what) \in {s, f}
    BY <2>1 DEF Says
  <2>3. \A i, what : Says(list, i, what) <=> i = id /\ what \in What
    BY <1>2, <2>2
  <2> QED BY <1>3, <2>1, <2>3 DEF Lists, Due, What, list, s, f
<1>4. CASE DueStart(b) /\ ~DueFinish(b)
  <2>1. list = <<s>>
    BY <1>4 DEF Entries
  <2> HIDE DEF list, s, f
  <2>2. \A i, what : Says(list, i, what) <=> Entry(i, what) \in {s}
    BY <2>1 DEF Says
  <2>3. \A i, what : Says(list, i, what) <=> i = id /\ what = "started"
    BY <1>2, <2>2
  <2> QED BY <1>4, <2>1, <2>3 DEF Lists, Due, What, list, s, f
<1>5. CASE ~DueStart(b) /\ DueFinish(b)
  <2>1. list = <<f>>
    BY <1>5 DEF Entries
  <2> HIDE DEF list, s, f
  <2>2. \A i, what : Says(list, i, what) <=> Entry(i, what) \in {f}
    BY <2>1 DEF Says
  <2>3. \A i, what : Says(list, i, what) <=> i = id /\ what = "finished"
    BY <1>2, <2>2
  <2> QED BY <1>5, <2>1, <2>3 DEF Lists, Due, What, list, s, f
<1>6. CASE ~DueStart(b) /\ ~DueFinish(b)
  <2>1. list = <<>>
    BY <1>6 DEF Entries
  <2>2. \A i, what : ~Says(list, i, what)
    BY <2>1 DEF Says
  <2> QED BY <1>6, <2>1, <2>2 DEF Due, What
<1> QED BY <1>3, <1>4, <1>5, <1>6

LEMMA ToldMarks ==
  ASSUME NEW b \in BatchState
  PROVE  /\ Told(b).sealed = b.sealed
         /\ b.started \/ DueStart(b) => Told(b).started
         /\ b.finished \/ DueFinish(b) => Told(b).finished
BY DEF Told, DueStart, DueFinish, BatchState

\* The batches are told: each entry leaves the lock once.
LEMMA TellStep ==
  ASSUME TypeInv, TellInv, NEW bs \in [Batch -> BatchState], Tell(bs),
         \A id \in Batch : bs[id].started = batches[id].started /\ bs[id].finished = batches[id].finished,
         \A id \in Batch : CutOff(id) => ~bs[id].sealed /\ Over(id)'
  PROVE  /\ outbox' \subseteq Lists /\ UNCHANGED bell
         /\ TellInv'
<1>1. /\ batches' = [id \in Batch |-> Told(bs[id])] /\ bell' = bell
      /\ outbox' = outbox \cup ({Entries(id, bs[id]) : id \in Batch} \ {<<>>})
  BY DEF Tell
<1>2. outbox' \subseteq Lists
  BY <1>1, EntriesFacts DEF TypeInv
<1>3. ASSUME NEW id \in Batch, NEW what \in What, NEW list \in outbox', Says(list, id, what)
      PROVE  list \in outbox \/ (list = Entries(id, bs[id]) /\ Due(bs[id], what))
  <2>1. CASE list \notin outbox
    <3>1. PICK i \in Batch : list = Entries(i, bs[i])
      BY <1>1, <2>1
    <3> QED BY <1>3, <3>1, EntriesFacts
  <2> QED BY <2>1
<1>4. ASSUME NEW id \in Batch, NEW what \in What, Due(bs[id], what)
      PROVE  Count(bell[id], what) <= 0 /\ \A list \in outbox : ~Says(list, id, what)
  <2>1. bs[id].sealed /\ ~CutOff(id)
    BY <1>4 DEF Due, DueStart, DueFinish
  <2>2. ~Was(id, what)
    BY <1>4 DEF Due, DueStart, DueFinish, Was, What
  <2>3. Count(bell[id], what) \in Nat
    <3>1. bell[id] \in Seq({"started", "finished"})
      BY DEF TypeInv
    <3> QED BY SMTT(40), <3>1, CountAppend
  <2> QED BY <2>1, <2>2, <2>3 DEF TellInv, What
<1>5. ASSUME NEW id \in Batch, NEW what \in What
      PROVE  /\ Was(id, what) \/ Due(bs[id], what) => Was(id, what)'
             /\ CutOff(id) => CutOff(id)'
  <2>1. batches'[id] = Told(bs[id]) /\ bs[id] \in BatchState
    BY <1>1
  <2>2. Was(id, what) => (IF what = "started" THEN bs[id].started ELSE bs[id].finished)
    BY DEF Was
  <2>3. Was(id, what) \/ Due(bs[id], what) => Was(id, what)'
    BY <2>1, <2>2, ToldMarks DEF Was, Due
  <2>4. CutOff(id) => CutOff(id)'
    BY <2>1, ToldMarks DEF CutOff
  <2> QED BY <2>3, <2>4
<1>6. ASSUME NEW id \in Batch, NEW what \in What
      PROVE  /\ Count(bell'[id], what) <= 1
             /\ \A list \in outbox' : Says(list, id, what) =>
                  /\ Count(bell'[id], what) = 0
                  /\ \A other \in outbox' : Says(other, id, what) => other = list
             /\ Count(bell'[id], what) > 0 \/ (\E list \in outbox' : Says(list, id, what)) =>
                  Was(id, what)' \/ CutOff(id)'
  <2>0. Count(bell[id], what) \in Nat
    <3>1. bell[id] \in Seq({"started", "finished"})
      BY DEF TypeInv
    <3> QED BY SMTT(40), <3>1, CountAppend
  <2>1. Count(bell'[id], what) <= 1
    BY <1>1 DEF TellInv, What
  <2>2. ASSUME NEW list \in outbox', Says(list, id, what)
        PROVE  Count(bell'[id], what) = 0 /\ \A other \in outbox' : Says(other, id, what) => other = list
    <3>1. CASE list \in outbox
      <4>1. ~Due(bs[id], what)
        BY <1>4, <2>2, <3>1
      <4>2. \A other \in outbox' : Says(other, id, what) => other \in outbox
        BY <1>3, <4>1
      <4> QED BY <1>1, <2>2, <3>1, <4>2 DEF TellInv, What
    <3>2. CASE list \notin outbox
      <4>1. list = Entries(id, bs[id]) /\ Due(bs[id], what)
        BY <1>3, <2>2, <3>2
      <4>2. \A other \in outbox' : Says(other, id, what) => other = Entries(id, bs[id])
        BY <1>3, <1>4, <4>1
      <4>3. Count(bell[id], what) <= 0
        BY <1>4, <4>1
      <4> QED BY <1>1, <2>0, <4>1, <4>2, <4>3
    <3> QED BY <3>1, <3>2
  <2>3. ASSUME Count(bell'[id], what) > 0 \/ (\E list \in outbox' : Says(list, id, what))
        PROVE  Was(id, what)' \/ CutOff(id)'
    <3>1. \/ Count(bell[id], what) > 0 \/ (\E list \in outbox : Says(list, id, what))
          \/ Due(bs[id], what)
      BY <1>1, <1>3, <2>3
    <3>2. Was(id, what) \/ CutOff(id) \/ Due(bs[id], what)
      BY <3>1 DEF TellInv, What
    <3> QED BY <1>5, <3>2
  <2> QED BY <2>1, <2>2, <2>3
<1>7. TellInv'
  BY <1>6 DEF TellInv, What
<1> QED BY <1>1, <1>2, <1>7

\* Nothing is told, and what was told or cut off stays so.
LEMMA SilentStep ==
  ASSUME TypeInv, TellInv, UNCHANGED <<outbox, bell>>,
         \A id \in Batch : /\ batches'[id].started = batches[id].started
                           /\ batches'[id].finished = batches[id].finished
                           /\ CutOff(id) => CutOff(id)'
  PROVE  TellInv'
<1>1. ASSUME NEW id \in Batch, NEW what PROVE Was(id, what)' <=> Was(id, what)
  BY DEF Was
<1> QED BY <1>1 DEF TellInv

\* One entry goes from the outbox to the bell.
LEMMA EmitStep ==
  ASSUME TypeInv, TellInv, Emit
  PROVE  TellInv' /\ outbox' \subseteq Lists /\ bell' \in [Batch -> Seq({"started", "finished"})]
<1>1. PICK list \in outbox :
        /\ bell' = [bell EXCEPT ![Head(list).batch] = Append(@, Head(list).what)]
        /\ outbox' = (outbox \ {list}) \cup ({Tail(list)} \ {<<>>})
  BY DEF Emit
<1>2. list \in Lists
  BY DEF TypeInv
<1>3. PICK id \in Batch :
           /\ \A i, what : Says(list, i, what) => i = id
           /\ Head(list).batch = id /\ Head(list).what \in {"started", "finished"}
           /\ Says(list, id, Head(list).what)
           /\ Tail(list) = <<>> \/ Tail(list) \in Lists
           /\ \A what : Says(list, id, what) <=> what = Head(list).what \/ Says(Tail(list), id, what)
           /\ ~Says(Tail(list), id, Head(list).what)
           /\ \A i, what : Says(Tail(list), i, what) => i = id
  BY <1>2, ListFacts
<1> DEFINE told == Head(list).what
           rest == Tail(list)
<1>4. told \in What /\ Says(list, id, told) /\ ~Says(rest, id, told)
      /\ (\A what : Says(list, id, what) <=> what = told \/ Says(rest, id, what))
      /\ (\A i, what : Says(rest, i, what) => i = id)
      /\ (\A i, what : Says(list, i, what) => i = id)
  BY <1>3 DEF What
<1>5. bell' = [bell EXCEPT ![id] = Append(@, told)]
  BY <1>1, <1>3
<1>6. outbox' \subseteq Lists
  BY <1>1, <1>3 DEF TypeInv
<1>7. /\ bell \in [Batch -> Seq(What)] /\ bell' \in [Batch -> Seq(What)]
  BY <1>4, <1>5 DEF TypeInv, What
<1>8. outbox' \subseteq outbox \cup {rest} /\ list \in outbox
      /\ (list \in outbox' => list = rest)
  BY <1>1
<1> HIDE DEF told, rest
<1>9. ASSUME NEW i \in Batch, NEW what \in What
      PROVE  /\ Count(bell'[i], what) = Count(bell[i], what) + (IF i = id /\ what = told THEN 1 ELSE 0)
             /\ Count(bell[i], what) \in Nat
  <2>1. bell[i] \in Seq(What)
    BY <1>7
  <2>2. bell'[i] = IF i = id THEN Append(bell[i], told) ELSE bell[i]
    BY <1>5, <1>7
  <2> QED BY <1>4, <2>1, <2>2, CountAppend
<1>10. ASSUME NEW i \in Batch, NEW what \in What, NEW other \in outbox', Says(other, i, what)
       PROVE  /\ ~(i = id /\ what = told)
              /\ \/ other \in outbox /\ other # list /\ ~Says(rest, i, what)
                 \/ other = rest /\ i = id /\ Says(list, i, what)
  <2>1. CASE other \in outbox /\ other # list
    <3>1. \A what2 \in What : Says(list, id, what2) => ~Says(other, id, what2)
      BY <2>1, <1>8 DEF TellInv, What
    <3>2. Says(rest, i, what) => i = id /\ Says(list, i, what)
      BY <1>4
    <3> QED BY <1>4, <1>10, <2>1, <3>1, <3>2
  <2>2. CASE other = rest
    BY <1>4, <1>10, <2>2
  <2> QED BY <1>8, <2>1, <2>2
<1>11. ASSUME NEW i \in Batch, NEW what \in What
       PROVE  /\ Count(bell'[i], what) <= 1
              /\ \A other \in outbox' : Says(other, i, what) =>
                   /\ Count(bell'[i], what) = 0
                   /\ \A another \in outbox' : Says(another, i, what) => another = other
              /\ Count(bell'[i], what) > 0 \/ (\E other \in outbox' : Says(other, i, what)) =>
                   Was(i, what)' \/ CutOff(i)'
  <2>1. (i = id /\ what = told) => Count(bell[i], what) = 0 /\ Says(list, i, what)
    BY <1>4, <1>8 DEF TellInv, What
  <2>2. Count(bell'[i], what) <= 1
    BY <1>9, <2>1 DEF TellInv, What
  <2>3. ASSUME NEW other \in outbox', Says(other, i, what)
        PROVE  /\ Count(bell'[i], what) = 0
               /\ \A another \in outbox' : Says(another, i, what) => another = other
    <3>1. CASE other \in outbox /\ other # list /\ ~Says(rest, i, what)
      <4>1. \A another \in outbox' : Says(another, i, what) => another \in outbox
        BY <1>10, <3>1
      <4> QED BY <1>9, <1>10, <2>3, <3>1, <4>1 DEF TellInv, What
    <3>2. CASE other = rest /\ i = id /\ Says(list, i, what)
      <4>1. Count(bell[i], what) = 0
        BY <1>8, <3>2 DEF TellInv, What
      <4>2. \A another \in outbox' : Says(another, i, what) => another = rest
        BY <1>8, <1>10, <2>3, <3>2
      <4> QED BY <1>9, <1>10, <2>3, <3>2, <4>1, <4>2
    <3> QED BY <1>10, <2>3, <3>1, <3>2
  <2>4. ASSUME Count(bell'[i], what) > 0 \/ (\E other \in outbox' : Says(other, i, what))
        PROVE  Was(i, what) \/ CutOff(i)
    <3>1. Count(bell[i], what) > 0 \/ (\E other \in outbox : Says(other, i, what))
      BY <1>8, <1>9, <1>10, <2>1, <2>4
    <3> QED BY <3>1 DEF TellInv, What
  <2>5. (Was(i, what) <=> Was(i, what)') /\ (CutOff(i) <=> CutOff(i)')
    BY DEF Emit, queue, Was, CutOff, Over
  <2> QED BY <2>2, <2>3, <2>4, <2>5
<1>12. TellInv'
  BY <1>11 DEF TellInv, What
<1> QED BY <1>6, <1>7, <1>12 DEF What

-----------------------------------------------------------------------------
(* The parts of a step.                                                    *)

\* The jobs that there are change in place.
InPlace ==
  /\ jobs' \in [Job -> JobState] /\ Continues(jobs, jobs')
  /\ created' = created /\ \A j \in Job : j > created => jobs'[j] = NoJob

LEMMA OneJob ==
  ASSUME TypeInv, WorkerInv, NEW j \in Job, NEW job \in JobState,
         jobs' = [jobs EXCEPT ![j] = job], created' = created, jobs[j] # NoJob,
         job.batch = jobs[j].batch, jobs[j].status \in Terminal => job.status \in Terminal
  PROVE  InPlace
BY DEF TypeInv, WorkerInv, InPlace, Continues

LEMMA SameJobs == ASSUME TypeInv, WorkerInv, UNCHANGED <<jobs, created>> PROVE InPlace
BY DEF TypeInv, WorkerInv, InPlace, Continues

\* A job at the end of the queue.
LEMMA AddedJob ==
  ASSUME TypeInv, WorkerInv, NEW job \in JobState, Add(job)
  PROVE  /\ created + 1 \in Job /\ created' = created + 1 /\ created' \in 0 .. MaxJob
         /\ jobs' \in [Job -> JobState] /\ jobs[created + 1] = NoJob
         /\ \A j \in Job : jobs'[j] = IF j = created + 1 THEN job ELSE jobs[j]
         /\ \A j \in Job : j > created' => jobs'[j] = NoJob
BY QueueAssumption DEF Add, TypeInv, WorkerInv, Job, LeftState

LEMMA CommandLeft == ASSUME TypeInv, Command PROVE left' \in LeftState
<1> DEFINE command == left.command - 1
<1>1. command \in Nat /\ left' = [left EXCEPT !.command = command] /\ left \in LeftState
  BY DEF Command, TypeInv, LeftState
<1> HIDE DEF command
<1> QED BY <1>1 DEF LeftState

StoredState == [jobs : [Job -> JobState], paused : BOOLEAN]

\* The queue is written, or marked to be written.
LEMMA PersistStep ==
  ASSUME TypeInv, SaveInv, Persist, UNCHANGED request, jobs' \in [Job -> JobState], paused' \in BOOLEAN
  PROVE  /\ SaveInv' /\ stored' \in StoredState /\ dirty' \in BOOLEAN /\ depth' \in Nat
         /\ stored'.jobs = jobs' \/ stored'.jobs = stored.jobs
<1>1. OpenBulk' = OpenBulk
  BY DEF OpenBulk
<1>2. CASE depth > 0
  <2>1. dirty' = TRUE /\ stored' = stored /\ depth' = depth
    BY <1>2 DEF Persist, Save
  <2> QED BY <1>1, <1>2, <2>1 DEF SaveInv, TypeInv, StoredState
<1>3. CASE ~(depth > 0)
  <2>1. dirty' = dirty /\ stored' = [jobs |-> jobs', paused |-> paused'] /\ depth' = depth
    BY <1>3 DEF Persist, Save
  <2>2. Kept(jobs', paused', stored')
    BY <2>1 DEF Kept
  <2>3. Kept(jobs, paused, stored)'
    BY <2>2 DEF Kept
  <2>4. stored' \in StoredState /\ stored'.jobs = jobs'
    BY <2>1 DEF StoredState
  <2> QED BY <1>1, <2>1, <2>3, <2>4 DEF SaveInv, TypeInv
<1> QED BY <1>2, <1>3

\* Nothing is written, and nothing that would have to be is changed.
LEMMA UnsavedStep ==
  ASSUME TypeInv, SaveInv, UNCHANGED <<saving, paused>>, OpenBulk' = OpenBulk,
         \A j \in Job : /\ jobs'[j].cancel => jobs[j].cancel
                        /\ jobs'[j].pause => jobs[j].pause
                        /\ jobs'[j].status # "none" => jobs[j].status # "none"
  PROVE  SaveInv'
<1>1. Kept(jobs, paused, stored) => Kept(jobs, paused, stored)'
  BY DEF Kept, saving
<1> QED BY <1>1 DEF SaveInv, saving

\* Jobs go on and no batch is told of.
LEMMA QuietBatches ==
  ASSUME TypeInv, BatchInv, TellInv, Continues(jobs, jobs'), UNCHANGED telling,
         \A id \in Batch : (Over(id) => Over(id)') /\ (Fresh(id)' => Fresh(id)),
         stored'.jobs = jobs' \/ stored'.jobs = stored.jobs
  PROVE  BatchInv' /\ TellInv'
<1>1. ASSUME NEW id \in Batch
      PROVE  /\ BatchRight(batches'[id], jobs', id, Over(id)')
             /\ Fresh(id)' => OfBatch(jobs', id) = {} /\ OfBatch(stored'.jobs, id) = {}
  <2>1. BatchRight(batches[id], jobs', id, Over(id))
    BY ContinuedBatch DEF BatchInv
  <2>2. BatchRight(batches[id], jobs', id, Over(id)')
    BY <2>1 DEF BatchRight, telling
  <2>3. OfBatch(jobs', id) = OfBatch(jobs, id)
    BY ContinuedBatch
  <2> QED BY <2>2, <2>3 DEF BatchInv, telling
<1>2. BatchInv'
  BY <1>1 DEF BatchInv, BatchRight, Over, Fresh, OfBatch, Ended
<1>3. TellInv'
  BY SilentStep DEF telling, CutOff
<1> QED BY <1>2, <1>3

LEMMA QuietStep ==
  ASSUME TypeInv, BatchInv, TellInv, Continues(jobs, jobs'), UNCHANGED <<request, telling>>,
         created' \in Nat, created <= created',
         stored'.jobs = jobs' \/ stored'.jobs = stored.jobs
  PROVE  BatchInv' /\ TellInv'
<1>1. ASSUME NEW id \in Batch
      PROVE  (Over(id) => Over(id)') /\ (Fresh(id)' => Fresh(id))
  BY DEF Over, Fresh, TypeInv, Job
<1> QED BY <1>1, QuietBatches

\* The batches become bs, and tell what is due.
LEMMA ToldStep ==
  ASSUME TypeInv, TellInv, NEW bs \in [Batch -> BatchState], Tell(bs),
         \A id \in Batch :
           /\ BatchRight(bs[id], jobs', id, Over(id)')
           /\ bs[id].started = batches[id].started /\ bs[id].finished = batches[id].finished
           /\ CutOff(id) => ~bs[id].sealed /\ Over(id)'
           /\ Fresh(id)' => OfBatch(jobs', id) = {} /\ OfBatch(stored'.jobs, id) = {}
  PROVE  /\ BatchInv' /\ TellInv' /\ batches' \in [Batch -> BatchState]
         /\ outbox' \subseteq Lists /\ UNCHANGED bell
<1>1. ASSUME NEW id \in Batch
      PROVE  batches'[id] = Told(bs[id]) /\ Told(bs[id]) \in BatchState
             /\ BatchRight(Told(bs[id]), jobs', id, Over(id)')
  <2>1. Over(id)' \in BOOLEAN
    BY DEF Over
  <2> QED BY <2>1, ToldRight DEF Tell
<1>2. batches' \in [Batch -> BatchState]
  BY <1>1 DEF Tell
<1>3. ASSUME NEW id \in Batch
      PROVE  /\ BatchRight(batches'[id], jobs', id, Over(id)')
             /\ Fresh(id)' => OfBatch(jobs', id) = {} /\ OfBatch(stored'.jobs, id) = {}
  BY <1>1
<1>4. BatchInv'
  BY <1>3 DEF BatchInv, BatchRight, Over, Fresh, OfBatch, Ended
<1>5. outbox' \subseteq Lists /\ UNCHANGED bell /\ TellInv'
  BY TellStep
<1> QED BY <1>2, <1>4, <1>5

\* The jobs S have ended by now and are counted.
LEMMA SettleStep ==
  ASSUME TypeInv, BatchInv, TellInv, InPlace, UNCHANGED request,
         NEW S \in SUBSET Job, \A j \in S : jobs'[j].status \in Terminal, Settle(S),
         stored'.jobs = jobs' \/ stored'.jobs = stored.jobs
  PROVE  /\ BatchInv' /\ TellInv' /\ batches' \in [Batch -> BatchState]
         /\ outbox' \subseteq Lists /\ UNCHANGED bell
<1> DEFINE bs == Outcomes(S)
<1>1. ASSUME NEW id \in Batch PROVE (Over(id) <=> Over(id)') /\ (Fresh(id) <=> Fresh(id)')
  BY DEF Over, Fresh, InPlace
<1>2. ASSUME NEW id \in Batch
      PROVE  /\ bs[id] \in BatchState /\ BatchRight(bs[id], jobs', id, Over(id)')
             /\ bs[id].started = batches[id].started /\ bs[id].finished = batches[id].finished
             /\ bs[id].sealed = batches[id].sealed
  <2> DEFINE ended == {j \in S : jobs'[j].batch = id}
             b == batches[id]
  <2>1. b \in BatchState /\ BatchRight(b, jobs', id, Over(id)')
    <3>1. BatchRight(b, jobs, id, Over(id))
      BY DEF BatchInv
    <3>2. BatchRight(b, jobs', id, Over(id))
      BY <3>1, ContinuedBatch DEF InPlace
    <3> QED BY <1>1, <3>2 DEF BatchRight, TypeInv
  <2>2. bs[id] = IF b.live THEN RecordOutcome(b, ended) ELSE b
    BY DEF Outcomes
  <2>3. ended \in SUBSET Ended(jobs', id)
    BY DEF Ended, OfBatch
  <2> HIDE DEF ended, b
  <2>4. RecordOutcome(b, ended) \in BatchState /\ BatchRight(RecordOutcome(b, ended), jobs', id, Over(id)')
    BY <2>1, <2>3, OutcomeRight
  <2>5. /\ RecordOutcome(b, ended).started = b.started /\ RecordOutcome(b, ended).finished = b.finished
        /\ RecordOutcome(b, ended).sealed = b.sealed
    BY <2>1 DEF RecordOutcome, BatchState
  <2> QED BY <2>1, <2>2, <2>4, <2>5 DEF b
<1>3. bs \in [Batch -> BatchState]
  BY <1>2 DEF Outcomes
<1>4. Tell(bs)
  BY DEF Settle
<1>5. ASSUME NEW id \in Batch
      PROVE  /\ CutOff(id) => ~bs[id].sealed /\ Over(id)'
             /\ Fresh(id)' => OfBatch(jobs', id) = {} /\ OfBatch(stored'.jobs, id) = {}
  <2> HIDE DEF bs
  <2>1. CutOff(id) => ~bs[id].sealed /\ Over(id)'
    BY <1>1, <1>2 DEF CutOff
  <2>2. OfBatch(jobs', id) = OfBatch(jobs, id)
    BY ContinuedBatch DEF InPlace
  <2> QED BY <1>1, <2>1, <2>2 DEF BatchInv
<1> HIDE DEF bs
<1> QED BY <1>2, <1>3, <1>4, <1>5, ToldStep

\* No transfer begins or ends.
LEMMA WorkersKept ==
  ASSUME TypeInv, WorkerInv,
         \A w \in Worker : \/ worker'[w] = worker[w]
                           \/ /\ worker[w].pc # "fetch" /\ worker'[w].pc # "fetch"
                              /\ worker'[w].pc # "idle" => worker'[w].job \in Job,
         \A j \in Job : Running(j)' <=> Running(j),
         created' \in Nat, created <= created', \A j \in Job : j > created' => jobs'[j] = NoJob,
         stored'.jobs = jobs' \/ stored'.jobs = stored.jobs
  PROVE  WorkerInv'
<1>1. \A j \in Job : j > created' => stored'.jobs[j] = NoJob
  BY DEF WorkerInv, TypeInv, Job
<1>2. \A w \in Worker : worker[w].pc = "fetch" => worker[w].job \in Job
  BY DEF WorkerInv
<1>3. OneWorkerPerJob'
  BY <1>2 DEF WorkerInv, OneWorkerPerJob
<1> QED BY <1>1, <1>3 DEF WorkerInv

LEMMA FetchOf ==
  ASSUME NEW j
  PROVE  [Idle EXCEPT !.pc = "fetch", !.job = j] \in [pc : {"fetch"}, job : {j}, completed : {FALSE}]
BY DEF Idle

LEMMA Claims ==
  ASSUME TypeInv, WorkerInv, NEW w \in Worker, NEW j \in Job, Status(j) = "queued", worker[w].pc = "idle",
         jobs' = [jobs EXCEPT ![j].status = "downloading"], created' = created,
         worker' = [worker EXCEPT ![w] = [Idle EXCEPT !.pc = "fetch", !.job = j]],
         stored'.jobs = jobs' \/ stored'.jobs = stored.jobs
  PROVE  /\ WorkerInv' /\ InPlace
         /\ worker' \in [Worker -> [pc : {"idle", "fetch", "settle", "report"}, job : 0 .. MaxJob, completed : BOOLEAN]]
<1> DEFINE y == jobs[j]
           job == [y EXCEPT !.status = "downloading"]
           x == [Idle EXCEPT !.pc = "fetch", !.job = j]
<1>0. y \in JobState
  BY DEF TypeInv
<1> HIDE DEF y
<1>1. job \in JobState /\ job.status = "downloading" /\ job.batch = y.batch
  BY <1>0 DEF JobState
<1>2. jobs' = [jobs EXCEPT ![j] = job] /\ jobs[j] # NoJob /\ ~(jobs[j].status \in Terminal)
  BY DEF Status, NoJob, Terminal, y
<1> HIDE DEF job
<1>3. InPlace
  BY <1>1, <1>2, OneJob DEF y
<1>4. /\ x.pc = "fetch" /\ x.job = j
      /\ x \in [pc : {"idle", "fetch", "settle", "report"}, job : 0 .. MaxJob, completed : BOOLEAN]
  <2>1. x \in [pc : {"fetch"}, job : {j}, completed : {FALSE}]
    BY FetchOf
  <2>2. j \in 0 .. MaxJob
    BY QueueAssumption DEF Job
  <2> HIDE DEF x
  <2> QED BY <2>1, <2>2
<1> HIDE DEF x
<1>5. \A v \in Worker : worker'[v] = IF v = w THEN x ELSE worker[v]
  BY DEF TypeInv, x
<1>6. \A i \in Job : Running(i)' <=> i = j \/ Running(i)
  BY <1>1, <1>2 DEF Running, Status, TypeInv
<1>7. \A v \in Worker : worker[v].pc = "fetch" => worker[v].job # j /\ v # w
  BY DEF WorkerInv, OneWorkerPerJob, Running
<1>8. OneWorkerPerJob'
  <2>1. ASSUME NEW i \in Job, Running(i)' PROVE \E v \in Worker : worker'[v].pc = "fetch" /\ worker'[v].job = i
    BY <1>4, <1>5, <1>6, <1>7, <2>1 DEF WorkerInv, OneWorkerPerJob
  <2>2. ASSUME NEW v \in Worker, worker'[v].pc = "fetch"
        PROVE  /\ Running(worker[v].job)'
               /\ \A u \in Worker : worker'[u].pc = "fetch" /\ worker'[u].job = worker'[v].job => u = v
    <3>1. worker'[v].job \in Job
      BY <1>4, <1>5, <2>2 DEF WorkerInv
    <3>2. CASE v = w
      <4>1. worker'[v].job = j /\ \A u \in Worker : u # w => worker'[u] = worker[u]
        BY <1>4, <1>5, <3>2
      <4>2. jobs'[j].status = "downloading"
        BY <1>6 DEF Running, Status
      <4>3. \A u \in Worker : worker'[u].pc = "fetch" /\ worker'[u].job = worker'[v].job => u = v
        BY <1>7, <3>2, <4>1
      <4> QED BY <4>1, <4>2, <4>3 DEF Running, Status
    <3>3. CASE v # w
      <4>1. worker'[v] = worker[v] /\ worker[v].pc = "fetch" /\ worker[v].job # j
        BY <1>5, <1>7, <2>2, <3>3
      <4>2. Running(worker[v].job) /\ worker[v].job \in Job
        BY <4>1 DEF WorkerInv, OneWorkerPerJob
      <4>3. jobs'[worker[v].job].status = "downloading"
        BY <1>6, <4>2 DEF Running, Status
      <4>4. \A u \in Worker : worker'[u].pc = "fetch" /\ worker'[u].job = worker'[v].job => u = v
        BY <1>4, <1>5, <4>1 DEF WorkerInv, OneWorkerPerJob
      <4> QED BY <4>1, <4>3, <4>4 DEF Running, Status
    <3> QED BY <3>2, <3>3
  <2> QED BY <2>1, <2>2 DEF OneWorkerPerJob
<1>9. \A i \in Job : i > created' => stored'.jobs[i] = NoJob
  BY ZenonT(60), <1>3 DEF WorkerInv, InPlace
<1>10. \A v \in Worker : worker'[v].pc # "idle" => worker'[v].job \in Job
  BY <1>4, <1>5 DEF WorkerInv
<1> QED BY <1>3, <1>4, <1>5, <1>8, <1>9, <1>10 DEF WorkerInv, TypeInv, InPlace, x

\* How a transfer may leave its job.
LEMMA LandStep ==
  ASSUME IInv, NEW w \in Worker, NEW job \in JobState, Land(w, job), worker[w].pc = "fetch",
         job.status \notin {"none", "downloading"}, job.batch = jobs[worker[w].job].batch,
         job.cancel = jobs[worker[w].job].cancel, job.pause => jobs[worker[w].job].pause,
         left' \in LeftState
  PROVE  IInv'
<1> DEFINE j == worker[w].job
<1>1. j \in Job /\ Running(j)
  BY DEF IInv, WorkerInv, OneWorkerPerJob
<1>2. /\ jobs' = [jobs EXCEPT ![j] = job] /\ worker' = [worker EXCEPT ![w].pc = "settle"]
      /\ UNCHANGED <<created, event, paused, request, telling, saving>>
  BY DEF Land
<1>3. jobs[j] # NoJob /\ jobs[j].status \notin Terminal /\ jobs[j].status # "none"
  BY <1>1 DEF Running, Status, NoJob, Terminal
<1> HIDE DEF j
<1>4. InPlace
  BY <1>1, <1>2, <1>3, OneJob DEF IInv, j
<1>5. \A i \in Job : jobs'[i] = IF i = j THEN job ELSE jobs[i]
  BY <1>1, <1>2 DEF IInv, TypeInv
<1>6. \A i \in Job : Running(i)' <=> Running(i) /\ i # j
  BY <1>5 DEF Running, Status
<1>7. /\ \A v \in Worker : worker'[v].job = worker[v].job
      /\ \A v \in Worker : worker'[v].pc = IF v = w THEN "settle" ELSE worker[v].pc
      /\ worker' \in [Worker -> [pc : {"idle", "fetch", "settle", "report"}, job : 0 .. MaxJob, completed : BOOLEAN]]
  BY ZenonT(60), <1>2 DEF IInv, TypeInv
<1>8. OneWorkerPerJob'
  <2>1. ASSUME NEW i \in Job, Running(i)' PROVE \E v \in Worker : worker'[v].pc = "fetch" /\ worker'[v].job = i
    <3>1. PICK v \in Worker : worker[v].pc = "fetch" /\ worker[v].job = i
      BY <1>6, <2>1 DEF IInv, WorkerInv, OneWorkerPerJob
    <3>2. v # w
      BY <1>6, <2>1, <3>1 DEF j
    <3> QED BY <1>7, <3>1, <3>2
  <2>2. ASSUME NEW v \in Worker, worker'[v].pc = "fetch"
        PROVE  /\ Running(worker[v].job)'
               /\ \A u \in Worker : worker'[u].pc = "fetch" /\ worker'[u].job = worker'[v].job => u = v
    <3>1. v # w /\ worker[v].pc = "fetch"
      BY <1>7, <2>2
    <3>2. worker[v].job \in Job /\ Running(worker[v].job) /\ worker[v].job # j
      BY <3>1 DEF IInv, WorkerInv, OneWorkerPerJob, j
    <3>3. \A u \in Worker : worker'[u].pc = "fetch" /\ worker'[u].job = worker'[v].job => u = v
      BY <1>7, <2>2, <3>1 DEF IInv, WorkerInv, OneWorkerPerJob
    <3>4. worker'[v].job = worker[v].job
      BY <1>7
    <3>5. jobs'[worker[v].job].status = "downloading"
      BY <1>6, <3>2 DEF Running, Status
    <3> QED BY <3>3, <3>4, <3>5 DEF Running, Status
  <2> QED BY <2>1, <2>2 DEF OneWorkerPerJob
<1>9. WorkerInv'
  <2>1. \A v \in Worker : worker'[v].pc # "idle" => worker'[v].job \in Job
    BY <1>1, <1>7 DEF IInv, WorkerInv, j
  <2>2. \A i \in Job : i > created' => jobs'[i] = NoJob /\ stored'.jobs[i] = NoJob
    BY <1>2, <1>4 DEF IInv, WorkerInv, InPlace, saving
  <2> QED BY <1>8, <2>1, <2>2 DEF WorkerInv
<1>10. SaveInv'
  <2>1. OpenBulk' = OpenBulk
    BY <1>2 DEF OpenBulk
  <2>2. ASSUME NEW i \in Job
        PROVE  /\ jobs'[i].cancel => jobs[i].cancel
               /\ jobs'[i].pause => jobs[i].pause
               /\ jobs'[i].status # "none" => jobs[i].status # "none"
    BY <1>3, <1>5 DEF j
  <2> QED BY <1>2, <2>1, <2>2, UnsavedStep DEF IInv
<1>11. BatchInv' /\ TellInv'
  BY <1>2, <1>4, QuietStep DEF IInv, InPlace, saving, TypeInv
<1>12. TypeInv'
  BY <1>2, <1>4, <1>7 DEF IInv, TypeInv, InPlace, saving, telling
<1> QED BY <1>9, <1>10, <1>11, <1>12 DEF IInv

-----------------------------------------------------------------------------
(* Every action preserves the invariant.                                   *)

\* There is a first among the jobs a worker may take: the intervals up to
\* them are finite sets, of which one is least.
LEMMA FirstIsOne == ASSUME NEW S \in SUBSET Job, S # {} PROVE First(S) \in S
<1> DEFINE upto == {1 .. j : j \in S}
           order == StrictSubsetOrdering(Job)
<1>1. IsFiniteSet(Job) /\ S \subseteq Nat
  <2>1. IsFiniteSet(Job)
    BY FiniteJobs
  <2>2. \A j \in Job : j \in Nat
    BY QueueAssumption DEF Job
  <2> QED BY <2>1, <2>2
<1>2. IsWellFoundedOn(order, SUBSET Job)
  BY <1>1, FS_StrictSubsetOrderingWellFounded, FS_FiniteSubsetsOfFinite
<1>3. upto \subseteq SUBSET Job /\ upto # {}
  <2>1. ASSUME NEW j \in Job PROVE 1 .. j \in SUBSET Job
    BY QueueAssumption DEF Job
  <2> QED BY <2>1
<1>4. PICK u \in upto : \A v \in upto : ~(<<v, u>> \in order)
  <2> HIDE DEF upto, order
  <2> QED BY <1>2, <1>3, WFMin
<1>5. PICK j \in S : u = 1 .. j
  BY <1>4
<1>6. ASSUME NEW k \in S PROVE j <= k
  <2>1. 1 .. k \in upto /\ ~(<<1 .. k, 1 .. j>> \in order)
    BY <1>4, <1>5
  <2>2. ~(1 .. k \subseteq 1 .. j /\ 1 .. k # 1 .. j)
    BY <1>3, <1>4, <1>5, <2>1 DEF StrictSubsetOrdering
  <2>3. CASE k < j
    <3>1. 1 .. k \subseteq 1 .. j /\ j \in 1 .. j /\ j \notin 1 .. k
      BY <1>1, <2>3 DEF Job
    <3> QED BY <2>2, <3>1
  <2> QED BY <1>1, <2>3
<1> QED BY <1>6 DEF First

LEMMA ClaimStep == ASSUME IInv, NEW w \in Worker, Claim(w) PROVE IInv'
<1> DEFINE j == First(Takeable)
<1>1. j \in Job /\ Status(j) = "queued"
  <2>1. Takeable \in SUBSET Job /\ Takeable # {}
    BY DEF Claim, Takeable
  <2>2. j \in Takeable
    BY <2>1, FirstIsOne
  <2> QED BY <2>2 DEF Takeable
<1>2. /\ worker[w].pc = "idle" /\ jobs' = [jobs EXCEPT ![j].status = "downloading"]
      /\ worker' = [worker EXCEPT ![w] = [Idle EXCEPT !.pc = "fetch", !.job = j]]
      /\ UNCHANGED <<created, event, paused, request, telling, left>>
      /\ Persist
  BY DEF Claim
<1> HIDE DEF j
<1>3. jobs' \in [Job -> JobState]
  <2> DEFINE y == jobs[j]
             job == [y EXCEPT !.status = "downloading"]
  <2>1. y \in JobState
    BY <1>1 DEF IInv, TypeInv
  <2> HIDE DEF y
  <2>2. job \in JobState
    BY <2>1 DEF JobState
  <2>3. jobs' = [jobs EXCEPT ![j] = job]
    BY <1>2 DEF y
  <2> HIDE DEF job
  <2> QED BY <2>2, <2>3 DEF IInv, TypeInv
<1>4. /\ SaveInv' /\ stored' \in StoredState /\ dirty' \in BOOLEAN /\ depth' \in Nat
      /\ stored'.jobs = jobs' \/ stored'.jobs = stored.jobs
  BY <1>2, <1>3, PersistStep DEF IInv, TypeInv
<1>5. /\ WorkerInv' /\ InPlace
      /\ worker' \in [Worker -> [pc : {"idle", "fetch", "settle", "report"}, job : 0 .. MaxJob, completed : BOOLEAN]]
  BY <1>1, <1>2, <1>4, Claims DEF IInv
<1>6. BatchInv' /\ TellInv'
  BY <1>2, <1>4, <1>5, QuietStep DEF IInv, InPlace, TypeInv
<1>7. TypeInv'
  BY <1>2, <1>3, <1>4, <1>5 DEF IInv, TypeInv, telling, StoredState
<1> QED BY <1>4, <1>5, <1>6, <1>7 DEF IInv

LEMMA ProgressStep == ASSUME IInv, NEW w \in Worker, Progress(w) PROVE IInv'
<1>1. UNCHANGED <<queue, worker, request, telling, depth, left>> /\ Persist
  BY DEF Progress, Persist, Save, queue
<1>2. InPlace /\ jobs' \in [Job -> JobState]
  BY <1>1, SameJobs DEF IInv, queue, InPlace
<1>3. /\ SaveInv' /\ stored' \in StoredState /\ dirty' \in BOOLEAN /\ depth' \in Nat
      /\ stored'.jobs = jobs' \/ stored'.jobs = stored.jobs
  BY <1>1, <1>2, PersistStep DEF IInv, TypeInv, queue
<1>4. WorkerInv'
  BY <1>1, <1>2, <1>3, WorkersKept DEF IInv, InPlace, TypeInv, queue, Running, Status
<1>5. BatchInv' /\ TellInv'
  BY <1>1, <1>2, <1>3, QuietStep DEF IInv, InPlace, TypeInv, queue
<1>6. TypeInv'
  BY <1>1, <1>2, <1>3 DEF IInv, TypeInv, telling, queue, StoredState
<1> QED BY <1>3, <1>4, <1>5, <1>6 DEF IInv

\* How each outcome leaves the job.
LEMMA LandedJobs ==
  ASSUME NEW job \in JobState
  PROVE  /\ \A status \in {"completed", "cancelled", "failed"} :
              LET it == [job EXCEPT !.status = status]
              IN  /\ it \in JobState /\ it.status = status /\ it.batch = job.batch
                  /\ it.cancel = job.cancel /\ it.pause = job.pause
         /\ /\ Parked(job) \in JobState /\ Parked(job).status = "paused" /\ ~Parked(job).pause
            /\ Parked(job).batch = job.batch /\ Parked(job).cancel = job.cancel
         /\ LET it == [job EXCEPT !.status = "queued", !.later = TRUE]
            IN  /\ it \in JobState /\ it.status = "queued" /\ it.batch = job.batch
                /\ it.cancel = job.cancel /\ it.pause = job.pause
BY DEF Parked, JobState, Terminal

LEMMA FetchedJob ==
  ASSUME IInv, NEW w \in Worker, worker[w].pc = "fetch"
  PROVE  worker[w].job \in Job /\ jobs[worker[w].job] \in JobState
BY DEF IInv, WorkerInv, TypeInv

LEMMA CompleteStep == ASSUME IInv, NEW w \in Worker, Complete(w) PROVE IInv'
<1> DEFINE job == jobs[worker[w].job]
           it == [job EXCEPT !.status = "completed"]
<1>1. worker[w].pc = "fetch" /\ Land(w, it) /\ left' \in LeftState
  BY DEF Complete, IInv, TypeInv
<1>2. job \in JobState
  BY <1>1, FetchedJob
<1>3. /\ it \in JobState /\ it.status = "completed" /\ it.batch = job.batch
      /\ it.cancel = job.cancel /\ it.pause = job.pause
  <2> HIDE DEF job
  <2> QED BY <1>2, LandedJobs
<1> HIDE DEF it
<1> QED BY <1>1, <1>3, LandStep

LEMMA StoppedStep == ASSUME IInv, NEW w \in Worker, Stopped(w) PROVE IInv'
<1> DEFINE job == jobs[worker[w].job]
           it == [job EXCEPT !.status = "cancelled"]
           park == Parked(job)
<1>1. worker[w].pc = "fetch" /\ left' \in LeftState /\ Land(w, IF job.pause THEN park ELSE it)
  BY DEF Stopped, IInv, TypeInv
<1>2. job \in JobState
  BY <1>1, FetchedJob
<1>3. /\ it \in JobState /\ it.status = "cancelled" /\ it.batch = job.batch
      /\ it.cancel = job.cancel /\ it.pause = job.pause
      /\ park \in JobState /\ park.status = "paused" /\ ~park.pause
      /\ park.batch = job.batch /\ park.cancel = job.cancel
  <2> HIDE DEF job
  <2> QED BY <1>2, LandedJobs
<1> HIDE DEF it, park
<1>4. CASE job.pause
  <2>1. Land(w, park)
    BY <1>1, <1>4
  <2> QED BY <1>1, <1>3, <2>1, LandStep
<1>5. CASE ~job.pause
  <2>1. Land(w, it)
    BY <1>1, <1>5
  <2> QED BY <1>1, <1>3, <2>1, LandStep
<1> QED BY <1>4, <1>5

LEMMA BrokenStep == ASSUME IInv, NEW w \in Worker, Broken(w) PROVE IInv'
<1> DEFINE job == jobs[worker[w].job]
           it == [job EXCEPT !.status = "failed"]
           again == [job EXCEPT !.status = "queued", !.later = TRUE]
           park == Parked(job)
           reconnect == left.reconnect - 1
<1>1. /\ worker[w].pc = "fetch"
      /\ \/ job.pause /\ Land(w, park) /\ UNCHANGED left
         \/ Land(w, it) /\ UNCHANGED left
         \/ /\ left.reconnect > 0 /\ Land(w, again)
            /\ left' = [left EXCEPT !.reconnect = reconnect]
  BY DEF Broken
<1>2. job \in JobState
  BY <1>1, FetchedJob
<1>3. /\ it \in JobState /\ it.status = "failed" /\ it.batch = job.batch
      /\ it.cancel = job.cancel /\ it.pause = job.pause
      /\ again \in JobState /\ again.status = "queued" /\ again.batch = job.batch
      /\ again.cancel = job.cancel /\ again.pause = job.pause
      /\ park \in JobState /\ park.status = "paused" /\ ~park.pause
      /\ park.batch = job.batch /\ park.cancel = job.cancel
  <2> HIDE DEF job
  <2> QED BY <1>2, LandedJobs
<1>4. left' \in LeftState
  <2>1. left \in LeftState /\ (left.reconnect > 0 => reconnect \in Nat)
    BY DEF IInv, TypeInv, LeftState
  <2> HIDE DEF reconnect, it, again, park
  <2> QED BY <1>1, <2>1 DEF LeftState
<1> HIDE DEF it, again, park
<1>5. CASE Land(w, park)
  BY <1>1, <1>3, <1>4, <1>5, LandStep
<1>6. CASE Land(w, it)
  BY <1>1, <1>3, <1>4, <1>6, LandStep
<1>7. CASE Land(w, again)
  BY <1>1, <1>3, <1>4, <1>7, LandStep
<1> QED BY <1>1, <1>5, <1>6, <1>7

LEMMA FinallyStep == ASSUME IInv, NEW w \in Worker, Finally(w) PROVE IInv'
<1> DEFINE j == worker[w].job
           completed == Status(j) = "completed"
           x == worker[w]
           y == [x EXCEPT !.pc = "report", !.completed = completed]
<1>1. /\ worker[w].pc = "settle" /\ UNCHANGED <<jobs, created, event, paused>>
      /\ IF Status(j) \in Terminal THEN Settle({j}) ELSE UNCHANGED telling
      /\ worker' = [worker EXCEPT ![w] = y] /\ UNCHANGED <<request, left>> /\ Persist
  BY DEF Finally, queue
<1>2. j \in Job
  BY <1>1 DEF IInv, WorkerInv
<1>3. y.pc = "report" /\ y.job = j /\ y \in [pc : {"idle", "fetch", "settle", "report"}, job : 0 .. MaxJob, completed : BOOLEAN]
  <2>1. x \in [pc : {"idle", "fetch", "settle", "report"}, job : 0 .. MaxJob, completed : BOOLEAN]
        /\ x.job = j /\ completed \in BOOLEAN
    BY DEF IInv, TypeInv
  <2> HIDE DEF x, j, completed
  <2> QED BY <2>1
<1> HIDE DEF y, completed
<1>4. /\ worker' \in [Worker -> [pc : {"idle", "fetch", "settle", "report"}, job : 0 .. MaxJob, completed : BOOLEAN]]
      /\ \A v \in Worker : worker'[v] = IF v = w THEN y ELSE worker[v]
  BY <1>1, <1>3 DEF IInv, TypeInv
<1>5. InPlace /\ jobs' \in [Job -> JobState]
  BY <1>1, SameJobs DEF IInv, InPlace
<1>6. /\ SaveInv' /\ stored' \in StoredState /\ dirty' \in BOOLEAN /\ depth' \in Nat
      /\ stored'.jobs = jobs' \/ stored'.jobs = stored.jobs
  BY <1>1, <1>5, PersistStep DEF IInv, TypeInv
<1>7. WorkerInv'
  <2>1. \A i \in Job : Running(i)' <=> Running(i)
    BY <1>1 DEF Running, Status
  <2>2. \A v \in Worker : \/ worker'[v] = worker[v]
                          \/ /\ worker[v].pc # "fetch" /\ worker'[v].pc # "fetch"
                             /\ worker'[v].pc # "idle" => worker'[v].job \in Job
    BY <1>1, <1>2, <1>3, <1>4
  <2> QED BY <1>1, <1>5, <1>6, <2>1, <2>2, WorkersKept DEF IInv, InPlace, TypeInv
<1>8. /\ BatchInv' /\ TellInv' /\ batches' \in [Batch -> BatchState] /\ outbox' \subseteq Lists
      /\ bell' \in [Batch -> Seq({"started", "finished"})]
  <2>1. CASE Status(j) \in Terminal
    <3>1. Settle({j}) /\ {j} \in SUBSET Job /\ \A i \in {j} : jobs'[i].status \in Terminal
      BY <1>1, <1>2, <2>1 DEF Status
    <3> HIDE DEF j
    <3> QED BY <1>1, <1>5, <1>6, <3>1, SettleStep DEF IInv, TypeInv
  <2>2. CASE Status(j) \notin Terminal
    <3>1. UNCHANGED telling
      BY <1>1, <2>2
    <3>2. BatchInv' /\ TellInv'
      BY <1>1, <1>5, <1>6, <3>1, QuietStep DEF IInv, InPlace, TypeInv
    <3> QED BY <3>1, <3>2 DEF IInv, TypeInv, telling
  <2> QED BY <2>1, <2>2
<1>9. TypeInv'
  BY <1>1, <1>4, <1>5, <1>6, <1>8 DEF IInv, TypeInv, StoredState
<1> QED BY <1>6, <1>7, <1>8, <1>9 DEF IInv

LEMMA ElapseStep == ASSUME IInv, NEW j \in Job, Elapse(j) PROVE IInv'
<1> DEFINE y == jobs[j]
           job == [y EXCEPT !.later = FALSE]
<1>1. jobs[j].later /\ jobs' = [jobs EXCEPT ![j] = job]
      /\ UNCHANGED <<created, event, paused, worker, request, telling, saving, left>>
  BY DEF Elapse
<1>2. /\ job \in JobState /\ job.batch = jobs[j].batch /\ job.status = jobs[j].status
      /\ job.cancel = jobs[j].cancel /\ job.pause = jobs[j].pause
  <2>1. y \in JobState
    BY DEF IInv, TypeInv
  <2> QED BY <2>1 DEF JobState
<1> HIDE DEF job
<1>3. jobs[j] # NoJob
  BY <1>1 DEF NoJob
<1>4. InPlace
  BY <1>1, <1>2, <1>3, OneJob DEF IInv
<1>5. \A i \in Job : jobs'[i] = IF i = j THEN job ELSE jobs[i]
  BY <1>1 DEF IInv, TypeInv
<1>6. SaveInv'
  <2>1. OpenBulk' = OpenBulk
    BY <1>1 DEF OpenBulk
  <2>2. \A i \in Job : /\ jobs'[i].cancel => jobs[i].cancel
                       /\ jobs'[i].pause => jobs[i].pause
                       /\ jobs'[i].status # "none" => jobs[i].status # "none"
    BY <1>2, <1>5
  <2> QED BY <1>1, <2>1, <2>2, UnsavedStep DEF IInv
<1>7. WorkerInv'
  <2>1. \A i \in Job : Running(i)' <=> Running(i)
    BY <1>2, <1>5 DEF Running, Status
  <2> QED BY <1>1, <1>4, <2>1, WorkersKept DEF IInv, InPlace, TypeInv, saving
<1>8. BatchInv' /\ TellInv'
  BY <1>1, <1>4, QuietStep DEF IInv, InPlace, TypeInv, saving
<1>9. TypeInv'
  BY <1>1, <1>4 DEF IInv, TypeInv, InPlace, telling, saving
<1> QED BY <1>6, <1>7, <1>8, <1>9 DEF IInv

-----------------------------------------------------------------------------
(* A job at the end of the queue, and the requests.                        *)

LEMMA AddStep ==
  ASSUME TypeInv, WorkerInv, SaveInv, NEW job \in JobState, job.status = "queued", Add(job),
         Persist, UNCHANGED <<paused, request>>,
         \A w \in Worker : \/ worker'[w] = worker[w]
                           \/ /\ worker[w].pc # "fetch" /\ worker'[w].pc # "fetch"
                              /\ worker'[w].pc # "idle" => worker'[w].job \in Job
  PROVE  /\ SaveInv' /\ stored' \in StoredState /\ dirty' \in BOOLEAN /\ depth' \in Nat
         /\ stored'.jobs = jobs' \/ stored'.jobs = stored.jobs
         /\ WorkerInv' /\ jobs' \in [Job -> JobState] /\ created' \in 0 .. MaxJob
<1>1. /\ created + 1 \in Job /\ created' = created + 1 /\ created' \in 0 .. MaxJob
      /\ jobs' \in [Job -> JobState] /\ jobs[created + 1] = NoJob
      /\ \A j \in Job : jobs'[j] = IF j = created + 1 THEN job ELSE jobs[j]
      /\ \A j \in Job : j > created' => jobs'[j] = NoJob
  BY AddedJob
<1>2. /\ SaveInv' /\ stored' \in StoredState /\ dirty' \in BOOLEAN /\ depth' \in Nat
      /\ stored'.jobs = jobs' \/ stored'.jobs = stored.jobs
  BY <1>1, PersistStep DEF TypeInv
<1>3. \A j \in Job : Running(j)' <=> Running(j)
  BY <1>1 DEF Running, Status, NoJob
<1>4. created' \in Nat /\ created <= created'
  BY <1>1 DEF TypeInv
<1>5. WorkerInv'
  BY <1>1, <1>2, <1>3, <1>4, WorkersKept
<1> QED BY <1>1, <1>2, <1>5

LEMMA ReportStep == ASSUME IInv, NEW w \in Worker, Report(w) PROVE IInv'
<1> DEFINE job == NewJob(FALSE, NoBatch)
<1>1. /\ worker[w].pc = "report" /\ worker' = [worker EXCEPT ![w] = Idle]
      /\ UNCHANGED <<paused, event, request, telling, left>>
      /\ \/ Add(job) /\ Persist
         \/ UNCHANGED <<jobs, created, saving>>
  BY DEF Report
<1>2. /\ worker' \in [Worker -> [pc : {"idle", "fetch", "settle", "report"}, job : 0 .. MaxJob, completed : BOOLEAN]]
      /\ \A v \in Worker : \/ worker'[v] = worker[v]
                           \/ /\ worker[v].pc # "fetch" /\ worker'[v].pc # "fetch"
                              /\ worker'[v].pc # "idle" => worker'[v].job \in Job
  <2>1. Idle \in [pc : {"idle", "fetch", "settle", "report"}, job : 0 .. MaxJob, completed : BOOLEAN]
        /\ Idle.pc = "idle"
    BY QueueAssumption DEF Idle
  <2> QED BY <1>1, <2>1 DEF IInv, TypeInv
<1>3. CASE Add(job) /\ Persist
  <2>1. job \in JobState /\ job.status = "queued" /\ job.batch = NoBatch
    <3>1. job \in JobState
      BY JobTypes
    <3> QED BY <3>1 DEF NewJob, NoJob
  <2> HIDE DEF job
  <2>2. /\ SaveInv' /\ stored' \in StoredState /\ dirty' \in BOOLEAN /\ depth' \in Nat
        /\ stored'.jobs = jobs' \/ stored'.jobs = stored.jobs
        /\ WorkerInv' /\ jobs' \in [Job -> JobState] /\ created' \in 0 .. MaxJob
    BY <1>1, <1>2, <1>3, <2>1, AddStep DEF IInv
  <2>3. /\ jobs[created + 1] = NoJob /\ created' = created + 1
        /\ \A j \in Job : jobs'[j] = IF j = created + 1 THEN job ELSE jobs[j]
    BY <1>3, <2>1, AddedJob DEF IInv
  <2>4. Continues(jobs, jobs')
    BY <2>1, <2>3 DEF Continues, NoJob, Terminal
  <2>5. created' \in Nat /\ created <= created'
    BY <2>2, <2>3 DEF IInv, TypeInv
  <2>6. BatchInv' /\ TellInv'
    BY <1>1, <2>2, <2>4, <2>5, QuietStep DEF IInv
  <2>7. TypeInv'
    BY <1>1, <1>2, <2>2 DEF IInv, TypeInv, telling, StoredState
  <2> QED BY <2>2, <2>6, <2>7 DEF IInv
<1>4. CASE UNCHANGED <<jobs, created, saving>>
  <2>1. InPlace
    BY <1>4, SameJobs DEF IInv
  <2>2. WorkerInv'
    BY <1>2, <1>4, <2>1, WorkersKept DEF IInv, InPlace, TypeInv, saving, Running, Status
  <2>3. SaveInv'
    BY <1>1, <1>4 DEF IInv, SaveInv, Kept, OpenBulk, saving
  <2>4. BatchInv' /\ TellInv'
    BY <1>1, <1>4, <2>1, QuietStep DEF IInv, InPlace, TypeInv, saving
  <2>5. TypeInv'
    BY <1>1, <1>2, <1>4 DEF IInv, TypeInv, telling, saving
  <2> QED BY <2>2, <2>3, <2>4, <2>5 DEF IInv
<1> QED BY <1>1, <1>3, <1>4

\* The batch of a job at the end of the queue, and the others.
LEMMA AddedBatch ==
  ASSUME TypeInv, WorkerInv, NEW job \in JobState, job.status = "queued", job.batch \in Batch, Add(job)
  PROVE  /\ OfBatch(jobs', job.batch) = OfBatch(jobs, job.batch) \cup {created + 1}
         /\ created + 1 \notin OfBatch(jobs, job.batch)
         /\ \A id \in Batch : id # job.batch => OfBatch(jobs', id) = OfBatch(jobs, id)
         /\ \A id \in Batch : Ended(jobs', id) = Ended(jobs, id)
<1>1. /\ created + 1 \in Job /\ jobs[created + 1] = NoJob
      /\ \A j \in Job : jobs'[j] = IF j = created + 1 THEN job ELSE jobs[j]
  BY AddedJob
<1>2. NoJob.batch \notin Batch /\ NoJob.status \notin Terminal /\ job.status \notin Terminal
  BY QueueAssumption DEF NoJob, Terminal
<1> QED BY <1>1, <1>2 DEF OfBatch, Ended

LEMMA BeginStep == ASSUME IInv, NEW r \in Request, Begin(r) PROVE IInv'
<1>1. /\ request[r] = "idle" /\ request' = [request EXCEPT ![r] = "open"]
      /\ batches' = [batches EXCEPT ![r] = OpenBatch]
      /\ depth' = IF r \in Bulk THEN depth + 1 ELSE depth
      /\ UNCHANGED <<jobs, created, event, paused, worker, outbox, bell, dirty, stored, left>>
  BY DEF Begin, queue
<1>2. r \in Batch /\ r \notin Job /\ Bulk \subseteq Request
  BY QueueAssumption DEF Batch
<1>3. /\ request' \in [Request -> {"idle", "open", "flushed", "done"}]
      /\ \A q \in Request : request'[q] = IF q = r THEN "open" ELSE request[q]
  BY <1>1 DEF IInv, TypeInv
<1>4. OpenBatch \in [live : {TRUE}, selected : {0}, recorded : {{}}, counted : {0},
                      sealed : {FALSE}, started : {FALSE}, finished : {FALSE}]
  BY DEF OpenBatch, NoneSelected
<1>5. OpenBatch \in BatchState
  BY BatchTypes
<1>6. /\ batches' \in [Batch -> BatchState]
      /\ \A id \in Batch : batches'[id] = IF id = r THEN OpenBatch ELSE batches[id]
  BY <1>1, <1>5 DEF IInv, TypeInv
<1>7. SaveInv' /\ depth' \in Nat
  <2>1. OpenBulk' = IF r \in Bulk THEN OpenBulk \cup {r} ELSE OpenBulk
    BY <1>1, <1>2, <1>3 DEF OpenBulk
  <2>2. r \notin OpenBulk /\ IsFiniteSet(OpenBulk) /\ depth = Cardinality(OpenBulk) /\ depth \in Nat
    BY <1>1 DEF IInv, SaveInv, OpenBulk, TypeInv
  <2>3. IsFiniteSet(OpenBulk') /\ depth' = Cardinality(OpenBulk') /\ depth' \in Nat
    BY <1>1, <2>1, <2>2, FS_AddElement
  <2>4. depth' = 0 => depth = 0
    BY <1>1, <2>2
  <2>5. Kept(jobs, paused, stored) => Kept(jobs, paused, stored)'
    BY <1>1 DEF Kept
  <2> QED BY <1>1, <2>3, <2>4, <2>5 DEF IInv, SaveInv
<1>8. \A id \in Batch : (Over(id) => Over(id)') /\ (Fresh(id)' => Fresh(id) /\ id # r)
  BY <1>1, <1>2, <1>3 DEF Over, Fresh
<1>9. Fresh(r) /\ OfBatch(jobs, r) = {} /\ ~Over(r) /\ ~batches[r].sealed
  <2>1. Fresh(r) /\ ~Over(r)
    BY <1>1, <1>2 DEF Fresh, Over
  <2> QED BY <1>2, <2>1 DEF IInv, BatchInv, BatchRight
<1>10. BatchInv'
  <2>1. ASSUME NEW id \in Batch
        PROVE  /\ BatchRight(batches'[id], jobs', id, Over(id)')
               /\ Fresh(id)' => OfBatch(jobs', id) = {} /\ OfBatch(stored'.jobs, id) = {}
    <3>1. CASE id = r
      <4>1. Cardinality({}) = 0 /\ Ended(jobs, r) = {}
        BY <1>9, FS_EmptySet DEF Ended
      <4>2. BatchRight(OpenBatch, jobs, r, Over(r)')
        BY <1>4, <1>9, <4>1 DEF BatchRight
      <4> QED BY <1>1, <1>6, <1>8, <3>1, <4>2
    <3>2. CASE id # r
      BY <1>1, <1>6, <1>8, <3>2 DEF IInv, BatchInv, BatchRight
    <3> QED BY <3>1, <3>2
  <2> QED BY <2>1 DEF BatchInv, BatchRight, Over, Fresh, OfBatch, Ended
<1>11. TellInv'
  <2>1. ~batches[r].started /\ ~batches[r].finished
    BY <1>2, <1>9 DEF IInv, BatchInv, BatchRight
  <2>2. ASSUME NEW id \in Batch
        PROVE  /\ batches'[id].started = batches[id].started /\ batches'[id].finished = batches[id].finished
               /\ CutOff(id) => CutOff(id)'
    <3>1. CASE id = r
      <4>1. batches[r].started = FALSE /\ batches[r].finished = FALSE
        BY <1>2, <2>1 DEF IInv, TypeInv, BatchState
      <4>2. ~CutOff(r) /\ batches'[r] = OpenBatch
        BY <1>2, <1>6, <1>9 DEF CutOff
      <4> QED BY <1>4, <3>1, <4>1, <4>2
    <3>2. CASE id # r
      BY <1>6, <1>8, <3>2 DEF CutOff
    <3> QED BY <3>1, <3>2
  <2> QED BY <1>1, <2>2, SilentStep DEF IInv
<1>12. WorkerInv'
  BY <1>1 DEF IInv, WorkerInv, OneWorkerPerJob, Running, Status
<1>13. TypeInv'
  BY <1>1, <1>3, <1>6, <1>7 DEF IInv, TypeInv
<1> QED BY <1>7, <1>10, <1>11, <1>12, <1>13 DEF IInv

LEMMA EnqueueStep == ASSUME IInv, NEW r \in Request, Enqueue(r) PROVE IInv'
<1>1. PICK art \in left.artwork : Add(NewJob(art, r))
  BY DEF Enqueue
<1> DEFINE job == NewJob(art, r)
           b == batches[r]
           selected == b.selected + 1
           t == [b EXCEPT !.selected = selected]
<1>2. /\ request[r] = "open" /\ Add(job) /\ Persist
      /\ batches' = [batches EXCEPT ![r] = t]
      /\ UNCHANGED <<event, paused, worker, request, outbox, bell, left>>
  BY <1>1 DEF Enqueue
<1>3. r \in Batch /\ r \notin Job /\ art \in BOOLEAN
  BY QueueAssumption DEF Batch, IInv, TypeInv, LeftState
<1>4. job \in JobState /\ job.status = "queued" /\ job.batch = r
  <2>1. job \in JobState
    BY <1>3, JobTypes
  <2> QED BY <2>1 DEF NewJob, NoJob
<1> HIDE DEF job
<1>5. b \in BatchState /\ selected \in Nat
  BY <1>3 DEF IInv, TypeInv, BatchState
<1> HIDE DEF b, selected
<1>6. /\ t \in BatchState /\ t.selected = selected /\ t.recorded = b.recorded /\ t.counted = b.counted
      /\ t.sealed = b.sealed /\ t.started = b.started /\ t.finished = b.finished
  BY <1>5 DEF BatchState
<1> HIDE DEF t
<1>7. /\ batches' \in [Batch -> BatchState]
      /\ \A id \in Batch : batches'[id] = IF id = r THEN t ELSE batches[id]
  BY <1>2, <1>3, <1>6 DEF IInv, TypeInv
<1>8. /\ SaveInv' /\ stored' \in StoredState /\ dirty' \in BOOLEAN /\ depth' \in Nat
      /\ stored'.jobs = jobs' \/ stored'.jobs = stored.jobs
      /\ WorkerInv' /\ jobs' \in [Job -> JobState] /\ created' \in 0 .. MaxJob
  BY <1>2, <1>4, AddStep DEF IInv
<1>9. /\ OfBatch(jobs', r) = OfBatch(jobs, r) \cup {created + 1} /\ created + 1 \notin OfBatch(jobs, r)
      /\ \A id \in Batch : id # r => OfBatch(jobs', id) = OfBatch(jobs, id)
      /\ \A id \in Batch : Ended(jobs', id) = Ended(jobs, id)
  BY <1>2, <1>3, <1>4, AddedBatch DEF IInv
<1>10. created' = created + 1 /\ created \in Nat
  BY <1>2 DEF Add, IInv, TypeInv
<1>11. /\ \A id \in Batch : (Over(id) => Over(id)') /\ (Fresh(id)' => Fresh(id) /\ id # r)
       /\ ~Over(r) /\ ~Over(r)'
  BY <1>2, <1>3, <1>10 DEF Over, Fresh, Job
<1>12. BatchInv'
  <2>1. ASSUME NEW id \in Batch
        PROVE  /\ BatchRight(batches'[id], jobs', id, Over(id)')
               /\ Fresh(id)' => OfBatch(jobs', id) = {} /\ OfBatch(stored'.jobs, id) = {}
    <3>1. BatchRight(batches[id], jobs, id, Over(id))
      BY DEF IInv, BatchInv
    <3>2. CASE id = r
      <4>1. BatchRight(b, jobs, r, Over(r)) /\ ~b.sealed
        BY <1>11, <3>1, <3>2 DEF BatchRight, b
      <4>2. b.selected = Cardinality(OfBatch(jobs, r))
        BY <1>11, <4>1 DEF BatchRight
      <4>3. IsFiniteSet(OfBatch(jobs, r))
        BY EndedOfBatch, FiniteJobs
      <4>4. selected = Cardinality(OfBatch(jobs', r))
        BY ZenonT(60), <1>9, <4>2, <4>3, FS_AddElement DEF selected
      <4>5. ~t.sealed /\ ~t.started /\ ~t.finished
        BY <1>6, <4>1 DEF BatchRight
      <4>6. t.recorded \subseteq Ended(jobs', r) /\ t.counted = Cardinality(t.recorded)
        BY <1>3, <1>6, <1>9, <4>1 DEF BatchRight
      <4>7. BatchRight(t, jobs', r, Over(r)')
        BY <1>6, <4>4, <4>5, <4>6 DEF BatchRight
      <4> QED BY <1>7, <1>11, <3>2, <4>7
    <3>3. CASE id # r
      <4>1. BatchRight(batches[id], jobs', id, Over(id)')
        BY <1>9, <1>11, <3>1, <3>3 DEF BatchRight
      <4> QED BY <1>7, <1>8, <1>9, <1>11, <3>3, <4>1 DEF IInv, BatchInv
    <3> QED BY <3>2, <3>3
  <2> QED BY <2>1 DEF BatchInv, BatchRight, Over, Fresh, OfBatch, Ended
<1>13. TellInv'
  <2>1. \A id \in Batch :
          /\ batches'[id].started = batches[id].started /\ batches'[id].finished = batches[id].finished
          /\ CutOff(id) => CutOff(id)'
    BY <1>6, <1>7, <1>11 DEF CutOff, b
  <2> QED BY <1>2, <2>1, SilentStep DEF IInv
<1>14. TypeInv'
  BY <1>2, <1>7, <1>8 DEF IInv, TypeInv, StoredState
<1> QED BY <1>8, <1>12, <1>13, <1>14 DEF IInv

LEMMA FlushStep == ASSUME IInv, NEW r \in Request, Flush(r) PROVE IInv'
<1>1. /\ request[r] = "open" /\ r \in Bulk /\ request' = [request EXCEPT ![r] = "flushed"]
      /\ depth' = depth - 1
      /\ IF depth = 1 /\ dirty THEN stored' = [jobs |-> jobs, paused |-> paused] /\ dirty' = FALSE
         ELSE UNCHANGED <<dirty, stored>>
      /\ UNCHANGED <<jobs, created, event, paused, worker, telling, left>>
  BY DEF Flush, queue
<1>2. /\ request' \in [Request -> {"idle", "open", "flushed", "done"}]
      /\ \A q \in Request : request'[q] = IF q = r THEN "flushed" ELSE request[q]
  BY <1>1 DEF IInv, TypeInv
<1>3. stored' \in StoredState /\ dirty' \in BOOLEAN /\ (stored'.jobs = jobs' \/ stored'.jobs = stored.jobs)
  <2>1. CASE depth = 1 /\ dirty
    <3>1. stored' = [jobs |-> jobs, paused |-> paused] /\ dirty' = FALSE /\ jobs' = jobs
      BY <1>1, <2>1
    <3> QED BY <3>1 DEF IInv, TypeInv, StoredState
  <2>2. CASE ~(depth = 1 /\ dirty)
    <3>1. stored' = stored /\ dirty' = dirty
      BY <1>1, <2>2
    <3> QED BY <3>1 DEF IInv, TypeInv, StoredState
  <2> QED BY <2>1, <2>2
<1>4. SaveInv' /\ depth' \in Nat
  <2>1. OpenBulk' = OpenBulk \ {r}
    BY <1>1, <1>2, QueueAssumption DEF OpenBulk
  <2>2. r \in OpenBulk /\ IsFiniteSet(OpenBulk) /\ depth = Cardinality(OpenBulk) /\ depth \in Nat
    BY <1>1 DEF IInv, SaveInv, OpenBulk, TypeInv
  <2>3. IsFiniteSet(OpenBulk') /\ depth' = Cardinality(OpenBulk')
    BY <1>1, <2>1, <2>2, FS_RemoveElement
  <2>4. depth' \in Nat
    BY <2>3, FS_CardinalityType
  <2>5. CASE depth = 1 /\ dirty
    <3>1. dirty' = FALSE /\ Kept(jobs, paused, stored)'
      BY <1>1, <2>5 DEF Kept
    <3> QED BY <2>3, <2>4, <3>1 DEF SaveInv
  <2>6. CASE ~(depth = 1 /\ dirty)
    <3>1. dirty' = dirty /\ stored' = stored
      BY <1>1, <2>6
    <3>2. depth' = 0 => ~dirty'
      BY <1>1, <2>2, <2>6, <3>1
    <3>3. ~dirty' => Kept(jobs, paused, stored)'
      BY <1>1, <3>1 DEF IInv, SaveInv, Kept
    <3> QED BY <2>3, <2>4, <3>2, <3>3 DEF SaveInv
  <2> QED BY <2>5, <2>6
<1>5. InPlace
  BY <1>1, SameJobs DEF IInv
<1>6. BatchInv' /\ TellInv'
  <2>1. \A id \in Batch : (Over(id) => Over(id)') /\ (Fresh(id)' => Fresh(id))
    BY <1>1, <1>2 DEF Over, Fresh
  <2> QED BY <1>1, <1>3, <1>5, <2>1, QuietBatches DEF IInv, InPlace
<1>7. WorkerInv'
  BY <1>1, <1>3, <1>5, WorkersKept DEF IInv, InPlace, TypeInv, Running, Status
<1>8. TypeInv'
  BY <1>1, <1>2, <1>3, <1>4 DEF IInv, TypeInv, telling, StoredState
<1> QED BY <1>4, <1>6, <1>7, <1>8 DEF IInv

LEMMA SealStep == ASSUME IInv, NEW r \in Request, Seal(r) PROVE IInv'
<1> DEFINE b == batches[r]
           t == [b EXCEPT !.sealed = TRUE]
           bs == [batches EXCEPT ![r] = t]
<1>1. /\ request[r] = IF r \in Bulk THEN "flushed" ELSE "open"
      /\ request' = [request EXCEPT ![r] = "done"] /\ Tell(bs)
      /\ UNCHANGED <<jobs, created, event, paused, worker, depth, dirty, stored, left>>
  BY DEF Seal, queue, saving
<1>2. r \in Batch /\ r \notin Job
  BY QueueAssumption DEF Batch
<1>3. /\ request' \in [Request -> {"idle", "open", "flushed", "done"}]
      /\ \A q \in Request : request'[q] = IF q = r THEN "done" ELSE request[q]
  BY <1>1 DEF IInv, TypeInv
<1>4. b \in BatchState
  BY <1>2 DEF IInv, TypeInv
<1> HIDE DEF b
<1>5. /\ t \in BatchState /\ t.selected = b.selected /\ t.recorded = b.recorded /\ t.counted = b.counted
      /\ t.sealed = TRUE /\ t.started = b.started /\ t.finished = b.finished
  BY <1>4 DEF BatchState
<1> HIDE DEF t
<1>6. bs \in [Batch -> BatchState] /\ \A id \in Batch : bs[id] = IF id = r THEN t ELSE batches[id]
  BY <1>2, <1>5 DEF IInv, TypeInv
<1>7. /\ \A id \in Batch : (Over(id) => Over(id)') /\ (Fresh(id)' => Fresh(id))
      /\ ~Over(r) /\ Over(r)'
  BY <1>1, <1>2, <1>3 DEF Over, Fresh
<1>8. ASSUME NEW id \in Batch
      PROVE  /\ BatchRight(bs[id], jobs', id, Over(id)')
             /\ bs[id].started = batches[id].started /\ bs[id].finished = batches[id].finished
             /\ CutOff(id) => ~bs[id].sealed /\ Over(id)'
             /\ Fresh(id)' => OfBatch(jobs', id) = {} /\ OfBatch(stored'.jobs, id) = {}
  <2>1. BatchRight(batches[id], jobs, id, Over(id))
    BY DEF IInv, BatchInv
  <2>2. Fresh(id)' => OfBatch(jobs', id) = {} /\ OfBatch(stored'.jobs, id) = {}
    BY <1>1, <1>7 DEF IInv, BatchInv
  <2>3. CASE id = r
    <3>1. bs[id] = t /\ jobs' = jobs
      BY <1>1, <1>6, <2>3
    <3>2. BatchRight(b, jobs, r, Over(r)) /\ ~CutOff(r)
      BY <1>7, <2>1, <2>3 DEF b, CutOff
    <3>3. BatchRight(t, jobs, r, Over(r)')
      BY <1>5, <1>7, <3>2 DEF BatchRight
    <3> HIDE DEF bs
    <3> QED BY <1>5, <2>2, <2>3, <3>1, <3>2, <3>3 DEF b
  <2>4. CASE id # r
    <3>1. bs[id] = batches[id] /\ jobs' = jobs
      BY <1>1, <1>6, <2>4
    <3> HIDE DEF bs
    <3> QED BY <1>7, <2>1, <2>2, <3>1 DEF BatchRight, CutOff
  <2> QED BY <2>3, <2>4
<1> HIDE DEF bs
<1>9. /\ BatchInv' /\ TellInv' /\ batches' \in [Batch -> BatchState]
      /\ outbox' \subseteq Lists /\ UNCHANGED bell
  BY <1>1, <1>6, <1>8, ToldStep DEF IInv
<1>10. SaveInv'
  <2>1. OpenBulk' = OpenBulk
    BY <1>1, <1>3, QueueAssumption DEF OpenBulk
  <2> QED BY <1>1, <2>1 DEF IInv, SaveInv, Kept
<1>11. WorkerInv'
  BY <1>1 DEF IInv, WorkerInv, OneWorkerPerJob, Running, Status
<1>12. TypeInv'
  BY <1>1, <1>3, <1>9 DEF IInv, TypeInv
<1> QED BY <1>9, <1>10, <1>11, <1>12 DEF IInv

-----------------------------------------------------------------------------
(* The user.                                                               *)

\* Jobs change in place, none of them begins or ends its transfer, and those of
\* S have ended and are counted, or none is.
LEMMA ChangeStep ==
  ASSUME IInv, InPlace, \A j \in Job : Running(j)' <=> Running(j), Persist,
         UNCHANGED <<request, worker>>, event' \subseteq Job, paused' \in BOOLEAN, left' \in LeftState,
         NEW S \in SUBSET Job, \A j \in S : jobs'[j].status \in Terminal,
         UNCHANGED telling \/ Settle(S)
  PROVE  IInv'
<1>1. /\ SaveInv' /\ stored' \in StoredState /\ dirty' \in BOOLEAN /\ depth' \in Nat
      /\ stored'.jobs = jobs' \/ stored'.jobs = stored.jobs
  BY PersistStep DEF IInv, InPlace
<1>2. WorkerInv'
  BY <1>1, WorkersKept DEF IInv, InPlace, TypeInv
<1>3. /\ BatchInv' /\ TellInv' /\ batches' \in [Batch -> BatchState] /\ outbox' \subseteq Lists
      /\ bell' \in [Batch -> Seq({"started", "finished"})]
  <2>1. CASE Settle(S)
    BY <1>1, <2>1, SettleStep DEF IInv, TypeInv
  <2>2. CASE UNCHANGED telling
    <3>1. BatchInv' /\ TellInv'
      BY <1>1, <2>2, QuietStep DEF IInv, InPlace, TypeInv
    <3> QED BY <2>2, <3>1 DEF IInv, TypeInv, telling
  <2> QED BY <2>1, <2>2
<1>4. TypeInv'
  BY <1>1, <1>3 DEF IInv, TypeInv, InPlace, StoredState
<1> QED BY <1>1, <1>2, <1>3, <1>4 DEF IInv

\* How each command leaves a job.
LEMMA CommandedJobs ==
  ASSUME NEW job \in JobState
  PROVE  /\ LET it == [job EXCEPT !.cancel = TRUE]
            IN  it \in JobState /\ it.status = job.status /\ it.batch = job.batch
         /\ LET it == [job EXCEPT !.pause = TRUE]
            IN  it \in JobState /\ it.status = job.status /\ it.batch = job.batch
         /\ CancelledNow(job) \in JobState /\ CancelledNow(job).status = "cancelled"
         /\ CancelledNow(job).batch = job.batch
         /\ LET it == [job EXCEPT !.status = "paused", !.later = FALSE]
            IN  it \in JobState /\ it.status = "paused" /\ it.batch = job.batch
         /\ LET it == [job EXCEPT !.status = "queued", !.pause = FALSE]
            IN  it \in JobState /\ it.status = "queued" /\ it.batch = job.batch
         /\ LET it == [job EXCEPT !.status = "cancelled", !.cancel = TRUE]
            IN  it \in JobState /\ it.status = "cancelled" /\ it.batch = job.batch
BY DEF CancelledNow, JobState, Terminal

\* One job that has not ended changes.
LEMMA ChangeOne ==
  ASSUME IInv, NEW j \in Job, Status(j) \in {"queued", "paused", "downloading"}, NEW job \in JobState,
         jobs' = [jobs EXCEPT ![j] = job], created' = created, job.batch = jobs[j].batch,
         job.status = "downloading" <=> Running(j)
  PROVE  InPlace /\ \A i \in Job : Running(i)' <=> Running(i)
<1>1. jobs[j] # NoJob /\ jobs[j].status \notin Terminal
  BY DEF Status, NoJob, Terminal
<1>2. InPlace
  BY <1>1, OneJob DEF IInv
<1> QED BY <1>2 DEF IInv, TypeInv, Running, Status

LEMMA CancelStep == ASSUME IInv, NEW j \in Job, Cancel(j) PROVE IInv'
<1> DEFINE y == jobs[j]
           seen == [y EXCEPT !.cancel = TRUE]
           now == CancelledNow(y)
           job == IF Running(j) THEN seen ELSE now
<1>1. /\ Status(j) \in {"queued", "paused", "downloading"} /\ event' = event \cup {j}
      /\ jobs' = [jobs EXCEPT ![j] = job]
      /\ IF Running(j) THEN UNCHANGED telling ELSE Settle({j})
      /\ UNCHANGED <<created, paused, worker, request>> /\ Persist /\ Command
  BY DEF Cancel, Command
<1>2. y \in JobState /\ y.status = Status(j)
  BY DEF IInv, TypeInv, Status
<1> HIDE DEF y
<1>3. /\ seen \in JobState /\ seen.status = y.status /\ seen.batch = y.batch
      /\ now \in JobState /\ now.status = "cancelled" /\ now.batch = y.batch
  BY <1>2, CommandedJobs
<1> HIDE DEF seen, now
<1>4. /\ job \in JobState /\ job.batch = y.batch /\ (job.status = "downloading" <=> Running(j))
      /\ ~Running(j) => job.status = "cancelled"
  BY <1>2, <1>3 DEF Running
<1> HIDE DEF job
<1>5. InPlace /\ \A i \in Job : Running(i)' <=> Running(i)
  BY <1>1, <1>4, ChangeOne DEF y
<1>6. event' \subseteq Job /\ paused' \in BOOLEAN /\ left' \in LeftState
  BY <1>1, CommandLeft DEF IInv, TypeInv
<1>7. CASE Running(j)
  <2>1. UNCHANGED telling /\ {} \in SUBSET Job /\ \A i \in {} : jobs'[i].status \in Terminal
    BY <1>1, <1>7
  <2> QED BY <1>1, <1>5, <1>6, <2>1, ChangeStep
<1>8. CASE ~Running(j)
  <2>1. jobs'[j] = job /\ job.status \in Terminal
    BY <1>1, <1>4, <1>8 DEF IInv, TypeInv, Terminal
  <2>2. Settle({j}) /\ {j} \in SUBSET Job /\ \A i \in {j} : jobs'[i].status \in Terminal
    BY <1>1, <1>8, <2>1
  <2> QED BY <1>1, <1>5, <1>6, <2>2, ChangeStep
<1> QED BY <1>7, <1>8

LEMMA PauseJobStep == ASSUME IInv, NEW j \in Job, PauseJob(j) PROVE IInv'
<1> DEFINE y == jobs[j]
           seen == [y EXCEPT !.pause = TRUE]
           now == [y EXCEPT !.status = "paused", !.later = FALSE]
           job == IF Running(j) THEN seen ELSE now
<1>1. /\ Status(j) \in {"queued", "paused", "downloading"} /\ event' \subseteq event \cup {j}
      /\ jobs' = [jobs EXCEPT ![j] = job]
      /\ UNCHANGED <<created, paused, telling, worker, request>> /\ Persist /\ Command
  BY DEF PauseJob, Command
<1>2. y \in JobState /\ y.status = Status(j)
  BY DEF IInv, TypeInv, Status
<1> HIDE DEF y
<1>3. /\ seen \in JobState /\ seen.status = y.status /\ seen.batch = y.batch
      /\ now \in JobState /\ now.status = "paused" /\ now.batch = y.batch
  BY <1>2, CommandedJobs
<1> HIDE DEF seen, now
<1>4. job \in JobState /\ job.batch = y.batch /\ (job.status = "downloading" <=> Running(j))
  BY <1>2, <1>3 DEF Running
<1> HIDE DEF job
<1>5. InPlace /\ \A i \in Job : Running(i)' <=> Running(i)
  BY <1>1, <1>4, ChangeOne DEF y
<1>6. event' \subseteq Job /\ paused' \in BOOLEAN /\ left' \in LeftState
  BY <1>1, CommandLeft DEF IInv, TypeInv
<1>7. {} \in SUBSET Job /\ \A i \in {} : jobs'[i].status \in Terminal
  OBVIOUS
<1> QED BY <1>1, <1>5, <1>6, <1>7, ChangeStep

LEMMA ResumeJobStep == ASSUME IInv, NEW j \in Job, ResumeJob(j) PROVE IInv'
<1> DEFINE y == jobs[j]
           job == [y EXCEPT !.status = "queued", !.pause = FALSE]
<1>1. /\ Status(j) = "paused" /\ jobs' = [jobs EXCEPT ![j] = job]
      /\ UNCHANGED <<created, event, paused, telling, worker, request>> /\ Persist /\ Command
  BY DEF ResumeJob, Command
<1>2. y \in JobState
  BY DEF IInv, TypeInv
<1> HIDE DEF y
<1>3. job \in JobState /\ job.status = "queued" /\ job.batch = y.batch
  BY <1>2, CommandedJobs
<1> HIDE DEF job
<1>4. InPlace /\ \A i \in Job : Running(i)' <=> Running(i)
  <2>1. (job.status = "downloading" <=> Running(j)) /\ Status(j) \in {"queued", "paused", "downloading"}
    BY <1>1, <1>3 DEF Running
  <2> QED BY <1>1, <1>3, <2>1, ChangeOne DEF y
<1>5. event' \subseteq Job /\ paused' \in BOOLEAN /\ left' \in LeftState
  BY <1>1, CommandLeft DEF IInv, TypeInv
<1>6. {} \in SUBSET Job /\ \A i \in {} : jobs'[i].status \in Terminal
  OBVIOUS
<1> QED BY <1>1, <1>4, <1>5, <1>6, ChangeStep

LEMMA PauseQueueStep == ASSUME IInv, NEW stop \in BOOLEAN, PauseQueue(stop) PROVE IInv'
<1>1. /\ paused' \in BOOLEAN /\ UNCHANGED <<jobs, created, event, telling, worker, request>>
      /\ Persist /\ Command
  BY DEF PauseQueue, Command
<1>2. InPlace /\ \A j \in Job : Running(j)' <=> Running(j)
  BY <1>1, SameJobs DEF IInv, Running, Status
<1>3. event' \subseteq Job /\ left' \in LeftState
  BY <1>1, CommandLeft DEF IInv, TypeInv
<1>4. {} \in SUBSET Job /\ \A j \in {} : jobs'[j].status \in Terminal
  OBVIOUS
<1> QED BY <1>1, <1>2, <1>3, <1>4, ChangeStep

LEMMA ClearQueueStep == ASSUME IInv, ClearQueue PROVE IInv'
<1> DEFINE waiting == {j \in Job : Status(j) = "queued"}
           now(j) == [jobs[j] EXCEPT !.status = "cancelled", !.cancel = TRUE]
<1>1. /\ jobs' = [j \in Job |-> IF j \in waiting THEN now(j) ELSE jobs[j]]
      /\ event' = event \cup waiting /\ Settle(waiting)
      /\ UNCHANGED <<created, paused, worker, request>> /\ Persist /\ Command
  BY DEF ClearQueue, Command
<1>2. ASSUME NEW j \in waiting
      PROVE  now(j) \in JobState /\ now(j).status = "cancelled" /\ now(j).batch = jobs[j].batch
  <2> DEFINE y == jobs[j]
  <2>1. y \in JobState
    BY DEF IInv, TypeInv
  <2> HIDE DEF y
  <2>2. LET it == [y EXCEPT !.status = "cancelled", !.cancel = TRUE]
        IN  it \in JobState /\ it.status = "cancelled" /\ it.batch = y.batch
    BY <2>1, CommandedJobs
  <2> QED BY <2>2 DEF y
<1> HIDE DEF now
<1>3. ASSUME NEW j \in Job
      PROVE  /\ jobs'[j] \in JobState /\ jobs'[j].batch = jobs[j].batch
             /\ jobs[j].status \in Terminal => jobs'[j].status \in Terminal
             /\ Running(j)' <=> Running(j)
             /\ j > created => jobs'[j] = NoJob
             /\ j \in waiting => jobs'[j].status \in Terminal
  <2>1. CASE j \in waiting
    <3>1. jobs'[j] = now(j) /\ jobs[j].status = "queued" /\ jobs[j] # NoJob
      BY <1>1, <2>1 DEF Status, NoJob
    <3> QED BY <1>2, <2>1, <3>1 DEF IInv, WorkerInv, Running, Status, Terminal
  <2>2. CASE j \notin waiting
    <3>1. jobs'[j] = jobs[j]
      BY <1>1, <2>2
    <3> QED BY <2>2, <3>1 DEF IInv, WorkerInv, TypeInv, Running, Status
  <2> QED BY <2>1, <2>2
<1>4. jobs' \in [Job -> JobState]
  BY <1>1, <1>3
<1>5. InPlace
  BY <1>1, <1>3, <1>4 DEF InPlace, Continues
<1>6. event' \subseteq Job /\ paused' \in BOOLEAN /\ left' \in LeftState
  BY <1>1, CommandLeft DEF IInv, TypeInv
<1>7. waiting \in SUBSET Job
  OBVIOUS
<1> HIDE DEF waiting
<1> QED BY <1>1, <1>3, <1>5, <1>6, <1>7, ChangeStep

LEMMA RetryStep == ASSUME IInv, NEW j \in Job, Retry(j) PROVE IInv'
<1>0. PICK n \in Job : n = created + 1 /\ created' = n
  BY QueueAssumption DEF Retry, Add, IInv, TypeInv, LeftState, Job
<1> DEFINE y == jobs[j]
           job == [y EXCEPT !.status = "queued", !.cancel = FALSE, !.batch = n]
           t == [OpenBatch EXCEPT !.selected = 1, !.sealed = TRUE]
           bs == [batches EXCEPT ![n] = t]
<1>1. /\ Add(job) /\ Tell(bs) /\ UNCHANGED <<event, paused, worker, request>>
      /\ Persist /\ Command
  BY <1>0 DEF Retry, Command
<1>2. n \in Batch /\ n \notin Request /\ created \in Nat
  BY QueueAssumption DEF IInv, TypeInv, Batch
<1>3. y \in JobState
  BY DEF IInv, TypeInv
<1> HIDE DEF y
<1>4. job \in JobState /\ job.status = "queued" /\ job.batch = n
  BY <1>2, <1>3 DEF JobState
<1> HIDE DEF job
<1>5. /\ t \in BatchState /\ t.selected = 1 /\ t.sealed = TRUE /\ t.recorded = {} /\ t.counted = 0
      /\ t.started = FALSE /\ t.finished = FALSE
  <2>1. /\ OpenBatch \in BatchState /\ OpenBatch.recorded = {} /\ OpenBatch.counted = 0
        /\ OpenBatch.started = FALSE /\ OpenBatch.finished = FALSE
    BY BatchTypes DEF OpenBatch, NoneSelected
  <2> QED BY <2>1 DEF BatchState
<1> HIDE DEF t
<1>6. bs \in [Batch -> BatchState] /\ \A id \in Batch : bs[id] = IF id = n THEN t ELSE batches[id]
  BY <1>2, <1>5 DEF IInv, TypeInv
<1> HIDE DEF bs
<1>7. /\ SaveInv' /\ stored' \in StoredState /\ dirty' \in BOOLEAN /\ depth' \in Nat
      /\ stored'.jobs = jobs' \/ stored'.jobs = stored.jobs
      /\ WorkerInv' /\ jobs' \in [Job -> JobState] /\ created' \in 0 .. MaxJob
  BY <1>1, <1>4, AddStep DEF IInv
<1>8. /\ OfBatch(jobs', n) = OfBatch(jobs, n) \cup {n}
      /\ \A id \in Batch : id # n => OfBatch(jobs', id) = OfBatch(jobs, id)
      /\ \A id \in Batch : Ended(jobs', id) = Ended(jobs, id)
  BY <1>0, <1>1, <1>2, <1>4, AddedBatch DEF IInv
<1>9. /\ \A id \in Batch : (Over(id) => Over(id)') /\ (Fresh(id)' => Fresh(id) /\ id # n)
      /\ ~Over(n) /\ Over(n)' /\ Fresh(n)
  <2>1. \A i \in Job : i \in Int
    BY DEF Job
  <2>2. n = created + 1 /\ created' = created + 1
    BY <1>0
  <2>3. ~Over(n) /\ Over(n)' /\ Fresh(n) /\ ~Fresh(n)'
    BY <1>2, <2>1, <2>2 DEF Over, Fresh
  <2>4. \A id \in Batch : (Over(id) => Over(id)') /\ (Fresh(id)' => Fresh(id))
    BY <1>1, <1>2, <2>1, <2>2 DEF Over, Fresh
  <2> QED BY <2>3, <2>4
<1>10. ~batches[n].sealed /\ batches[n].started = FALSE /\ batches[n].finished = FALSE
  <2>1. BatchRight(batches[n], jobs, n, Over(n)) /\ batches[n] \in BatchState
    BY <1>2 DEF IInv, BatchInv, TypeInv
  <2> QED BY <1>9, <2>1 DEF BatchRight, BatchState
<1>11. ASSUME NEW id \in Batch
       PROVE  /\ BatchRight(bs[id], jobs', id, Over(id)')
              /\ bs[id].started = batches[id].started /\ bs[id].finished = batches[id].finished
              /\ CutOff(id) => ~bs[id].sealed /\ Over(id)'
              /\ Fresh(id)' => OfBatch(jobs', id) = {} /\ OfBatch(stored'.jobs, id) = {}
  <2>1. BatchRight(batches[id], jobs, id, Over(id))
    BY DEF IInv, BatchInv
  <2>2. CASE id = n
    <3>1. OfBatch(jobs', n) = {n} /\ Cardinality({n}) = 1 /\ Cardinality({}) = 0
      BY <1>2, <1>8, <1>9, FS_Singleton, FS_EmptySet DEF IInv, BatchInv
    <3>2. BatchRight(t, jobs', n, Over(n)')
      BY <1>5, <1>9, <3>1 DEF BatchRight
    <3>3. bs[id] = t /\ ~CutOff(n)
      BY <1>6, <1>9, <2>2 DEF CutOff
    <3>4. bs[id].started = batches[id].started /\ bs[id].finished = batches[id].finished
      BY <1>5, <1>10, <2>2, <3>3
    <3>5. BatchRight(bs[id], jobs', id, Over(id)') /\ ~CutOff(id) /\ ~Fresh(id)'
      BY <1>9, <2>2, <3>2, <3>3
    <3> QED BY <3>4, <3>5
  <2>3. CASE id # n
    <3>1. bs[id] = batches[id] /\ OfBatch(jobs', id) = OfBatch(jobs, id) /\ Ended(jobs', id) = Ended(jobs, id)
      BY <1>6, <1>8, <2>3
    <3>2. BatchRight(batches[id], jobs', id, Over(id)')
      BY <1>9, <2>1, <3>1 DEF BatchRight
    <3>3. Fresh(id)' => OfBatch(jobs', id) = {} /\ OfBatch(stored'.jobs, id) = {}
      BY <1>7, <1>9, <3>1 DEF IInv, BatchInv
    <3>4. CutOff(id) => ~batches[id].sealed /\ Over(id)'
      BY <1>9 DEF CutOff
    <3> QED BY <3>1, <3>2, <3>3, <3>4
  <2> QED BY <2>2, <2>3
<1>12. /\ BatchInv' /\ TellInv' /\ batches' \in [Batch -> BatchState]
       /\ outbox' \subseteq Lists /\ UNCHANGED bell
  BY <1>1, <1>6, <1>11, ToldStep DEF IInv
<1>13. left' \in LeftState
  BY <1>1, CommandLeft DEF IInv
<1>14. TypeInv'
  BY <1>1, <1>7, <1>12, <1>13 DEF IInv, TypeInv, StoredState
<1> QED BY <1>7, <1>12, <1>14 DEF IInv

LEMMA EmitKeeps == ASSUME IInv, Emit PROVE IInv'
<1>1. UNCHANGED <<jobs, created, event, paused, worker, request, batches, depth, dirty, stored, left>>
  BY DEF Emit, queue, saving
<1>2. TellInv' /\ outbox' \subseteq Lists /\ bell' \in [Batch -> Seq({"started", "finished"})]
  BY EmitStep DEF IInv
<1>3. WorkerInv'
  BY <1>1 DEF IInv, WorkerInv, OneWorkerPerJob, Running, Status
<1>4. SaveInv'
  BY <1>1 DEF IInv, SaveInv, Kept, OpenBulk
<1>5. BatchInv'
  BY <1>1 DEF IInv, BatchInv, BatchRight, Over, Fresh, OfBatch, Ended
<1>6. TypeInv'
  BY <1>1, <1>2 DEF IInv, TypeInv
<1> QED BY <1>2, <1>3, <1>4, <1>5, <1>6 DEF IInv

\* After a crash the saved queue is the queue, no worker has a job, and every
\* batch there was is cut off.
LEMMA RestoredJob ==
  ASSUME NEW job \in JobState
  PROVE  /\ Restored(job) \in JobState /\ Restored(job).status # "downloading"
         /\ Restored(job).batch = job.batch
         /\ job = NoJob => Restored(job) = NoJob
<1>1. /\ [job EXCEPT !.status = "cancelled"] \in JobState /\ [job EXCEPT !.status = "queued"] \in JobState
      /\ [job EXCEPT !.status = "cancelled"].status = "cancelled" /\ [job EXCEPT !.status = "queued"].status = "queued"
      /\ [job EXCEPT !.status = "cancelled"].batch = job.batch /\ [job EXCEPT !.status = "queued"].batch = job.batch
  BY DEF JobState, Terminal
<1>2. NoJob.status = "none"
  BY DEF NoJob
<1> QED BY <1>1, <1>2 DEF Restored

LEMMA CrashStep == ASSUME IInv, Crash PROVE IInv'
<1> DEFINE crash == left.crash - 1
<1>1. /\ left.crash > 0 /\ left' = [left EXCEPT !.crash = crash]
      /\ jobs' = [j \in Job |-> Restored(stored.jobs[j])]
      /\ paused' = stored.paused
      /\ stored' = [jobs |-> jobs', paused |-> paused']
      /\ event' = {} /\ depth' = 0 /\ dirty' = FALSE
      /\ worker' = [w \in Worker |-> Idle]
      /\ request' = [r \in Request |-> IF request[r] = "idle" THEN "idle" ELSE "done"]
      /\ batches' = [id \in Batch |-> NoneSelected]
      /\ outbox' = {} /\ created' = created /\ bell' = bell
  BY DEF Crash
<1>2. left' \in LeftState
  <2>1. left \in LeftState /\ (left.crash > 0 => crash \in Nat)
    BY DEF IInv, TypeInv, LeftState
  <2> HIDE DEF crash
  <2> QED BY <1>1, <2>1 DEF LeftState
<1>3. ASSUME NEW j \in Job
      PROVE  /\ jobs'[j] \in JobState /\ jobs'[j].status # "downloading"
             /\ jobs'[j].batch = stored.jobs[j].batch /\ (j > created => jobs'[j] = NoJob)
  <2>1. stored.jobs[j] \in JobState
    BY DEF IInv, TypeInv
  <2>2. jobs'[j] = Restored(stored.jobs[j])
    BY <1>1
  <2> QED BY <2>1, <2>2, RestoredJob DEF IInv, WorkerInv
<1>4. jobs' \in [Job -> JobState]
  BY <1>1, <1>3
<1>5. stored' \in StoredState /\ stored'.jobs = jobs' /\ stored'.paused = paused' /\ paused' \in BOOLEAN
  BY <1>1, <1>4 DEF IInv, TypeInv, StoredState
<1>6. Idle.pc = "idle" /\ Idle \in [pc : {"idle", "fetch", "settle", "report"}, job : 0 .. MaxJob, completed : BOOLEAN]
  BY QueueAssumption DEF Idle
<1>7. WorkerInv'
  BY <1>1, <1>3, <1>5, <1>6 DEF WorkerInv, OneWorkerPerJob, Running, Status
<1>8. SaveInv'
  <2>1. OpenBulk' = {}
    BY <1>1, QueueAssumption DEF OpenBulk
  <2>2. Kept(jobs, paused, stored)'
    BY <1>5 DEF Kept
  <2> QED BY <1>1, <2>1, <2>2, FS_EmptySet DEF SaveInv
<1>9. ASSUME NEW id \in Batch
      PROVE  /\ Over(id)' \/ Fresh(id)'
             /\ Over(id) \/ ~Fresh(id) => Over(id)' /\ (Fresh(id)' => Fresh(id))
  BY <1>1, QueueAssumption DEF Over, Fresh, Batch, IInv, TypeInv, Job
<1>10. NoneSelected \in [live : {FALSE}, selected : {0}, recorded : {{}}, counted : {0},
                         sealed : {FALSE}, started : {FALSE}, finished : {FALSE}]
  BY DEF NoneSelected
<1>11. batches' \in [Batch -> BatchState]
  BY <1>1, BatchTypes
<1>12. \A id \in Batch : OfBatch(jobs', id) = OfBatch(stored.jobs, id)
  BY <1>3 DEF OfBatch
<1>13. BatchInv'
  <2>1. ASSUME NEW id \in Batch
        PROVE  /\ BatchRight(batches'[id], jobs', id, Over(id)')
               /\ Fresh(id)' => OfBatch(jobs', id) = {} /\ OfBatch(stored'.jobs, id) = {}
    <3>1. batches'[id] = NoneSelected /\ Cardinality({}) = 0
      BY <1>1, FS_EmptySet
    <3>2. Fresh(id)' => OfBatch(jobs', id) = {}
      BY <1>9, <1>12 DEF IInv, BatchInv
    <3>3. NoneSelected.selected = Cardinality(OfBatch(jobs', id)) \/ Over(id)'
      BY <1>9, <1>10, <3>1, <3>2
    <3>4. BatchRight(NoneSelected, jobs', id, Over(id)')
      BY <1>10, <3>1, <3>3 DEF BatchRight
    <3> QED BY <1>5, <3>1, <3>2, <3>4
  <2> QED BY <2>1 DEF BatchInv, BatchRight, Over, Fresh, OfBatch, Ended
<1>14. TellInv'
  <2>1. ASSUME NEW id \in Batch, NEW what \in What, Count(bell[id], what) > 0
        PROVE  CutOff(id)'
    <3>1. Was(id, what) \/ CutOff(id)
      BY <2>1 DEF IInv, TellInv, What
    <3>2. Over(id)
      BY <3>1 DEF IInv, BatchInv, BatchRight, Was, CutOff
    <3> QED BY <1>1, <1>9, <1>10, <3>2 DEF CutOff
  <2>2. \A id \in Batch, what \in What : Count(bell'[id], what) <= 1
    BY <1>1 DEF IInv, TellInv, What
  <2>3. \A id \in Batch, what \in What : Count(bell'[id], what) > 0 => CutOff(id)'
    BY <1>1, <2>1
  <2> QED BY <1>1, <2>2, <2>3 DEF TellInv, What
<1>15. TypeInv'
  BY <1>1, <1>2, <1>4, <1>5, <1>6, <1>11 DEF IInv, TypeInv, StoredState
<1> QED BY <1>7, <1>8, <1>13, <1>14, <1>15 DEF IInv

-----------------------------------------------------------------------------
(* The invariant, and what it gives.                                       *)

LEMMA InitIInv == Init => IInv
<1> SUFFICES ASSUME Init PROVE IInv
  OBVIOUS
<1>1. /\ jobs = [j \in Job |-> NoJob] /\ created = 0 /\ event = {} /\ paused = FALSE
      /\ worker = [w \in Worker |-> Idle] /\ request = [r \in Request |-> "idle"]
      /\ batches = [id \in Batch |-> NoneSelected] /\ outbox = {} /\ bell = [id \in Batch |-> <<>>]
      /\ depth = 0 /\ dirty = FALSE /\ stored = [jobs |-> [j \in Job |-> NoJob], paused |-> FALSE]
      /\ left \in Setting
  BY DEF Init, NothingStored
<1>2. Idle.pc = "idle" /\ Idle \in [pc : {"idle", "fetch", "settle", "report"}, job : 0 .. MaxJob, completed : BOOLEAN]
  BY QueueAssumption DEF Idle
<1>3. NoJob \in JobState /\ NoJob.status = "none" /\ NoJob.batch \notin Batch
  BY JobTypes, QueueAssumption DEF NoJob
<1>4. TypeInv
  <2>1. <<>> \in Seq({"started", "finished"}) /\ 0 \in 0 .. MaxJob
    BY QueueAssumption
  <2>2. left \in LeftState
    BY <1>1, SettingAssumption DEF LeftState
  <2> QED BY <1>1, <1>2, <1>3, <2>1, <2>2, BatchTypes DEF TypeInv
<1>5. WorkerInv
  BY <1>1, <1>2, <1>3 DEF WorkerInv, OneWorkerPerJob, Running, Status
<1>6. SaveInv
  <2>1. OpenBulk = {}
    BY <1>1, QueueAssumption DEF OpenBulk
  <2> QED BY <1>1, <2>1, FS_EmptySet DEF SaveInv, Kept
<1>7. BatchInv
  <2>1. NoneSelected \in [live : {FALSE}, selected : {0}, recorded : {{}}, counted : {0},
                          sealed : {FALSE}, started : {FALSE}, finished : {FALSE}]
    BY DEF NoneSelected
  <2>2. ASSUME NEW id \in Batch PROVE OfBatch(jobs, id) = {} /\ OfBatch(stored.jobs, id) = {}
    BY <1>1, <1>3 DEF OfBatch
  <2>3. ASSUME NEW id \in Batch PROVE BatchRight(NoneSelected, jobs, id, Over(id))
    BY <2>1, <2>2, FS_EmptySet DEF BatchRight
  <2> QED BY <1>1, <2>2, <2>3 DEF BatchInv
<1>8. TellInv
  <2>1. ASSUME NEW what PROVE Count(<<>>, what) = 0
    <3>1. {i \in DOMAIN <<>> : <<>>[i] = what} = {}
      OBVIOUS
    <3> QED BY <3>1, FS_EmptySet DEF Count
  <2> QED BY <1>1, <2>1 DEF TellInv
<1> QED BY <1>4, <1>5, <1>6, <1>7, <1>8 DEF IInv

LEMMA NextIInv == IInv /\ [Next]_vars => IInv'
<1> SUFFICES ASSUME IInv, [Next]_vars PROVE IInv'
  OBVIOUS
<1>1. ASSUME NEW w \in Worker, Working(w) PROVE IInv'
  BY <1>1, ClaimStep, CompleteStep, StoppedStep, BrokenStep, FinallyStep, ReportStep, ProgressStep
  DEF Working, Proceed
<1>2. ASSUME NEW r \in Request, Requesting(r) PROVE IInv'
  BY <1>2, BeginStep, EnqueueStep, FlushStep, SealStep DEF Requesting
<1>3. ASSUME NEW j \in Job, Elapse(j) \/ Cancel(j) \/ PauseJob(j) \/ ResumeJob(j) \/ Retry(j) PROVE IInv'
  BY <1>3, ElapseStep, CancelStep, PauseJobStep, ResumeJobStep, RetryStep
<1>4. ASSUME NEW stop \in BOOLEAN, PauseQueue(stop) PROVE IInv'
  BY <1>4, PauseQueueStep
<1>5. CASE ClearQueue
  BY <1>5, ClearQueueStep
<1>6. CASE Emit
  BY <1>6, EmitKeeps
<1>7. CASE Crash
  BY <1>7, CrashStep
<1>8. CASE UNCHANGED vars
  <2>1. UNCHANGED <<jobs, created, event, paused, worker, request, batches, outbox, bell, depth, dirty, stored, left>>
    BY <1>8 DEF vars, queue, telling, saving
  <2>2. TypeInv' /\ WorkerInv'
    BY <2>1 DEF IInv, TypeInv, WorkerInv, OneWorkerPerJob, Running, Status
  <2>3. SaveInv'
    BY <2>1 DEF IInv, SaveInv, Kept, OpenBulk
  <2>4. BatchInv' /\ TellInv'
    <3>1. \A id \in Batch : (Over(id) => Over(id)') /\ (Fresh(id)' => Fresh(id))
      BY <2>1 DEF Over, Fresh
    <3> QED BY <2>1, <3>1, QuietBatches DEF IInv, Continues, telling
  <2> QED BY <2>2, <2>3, <2>4 DEF IInv
<1> QED BY <1>1, <1>2, <1>3, <1>4, <1>5, <1>6, <1>7, <1>8 DEF Next

LEMMA QueueInvariant == Spec => []IInv
BY InitIInv, NextIInv, PTL DEF Spec

\* The queue, its workers and the saved queue have their types (the fields of a
\* DownloadJob, the states a worker and a request go through).
THEOREM QueueTypes == Spec => []TypeOK
<1>1. IInv => TypeOK
  <2> SUFFICES ASSUME IInv PROVE TypeOK
    OBVIOUS
  <2>1. jobs \in [Job -> JobState] /\ stored.jobs \in [Job -> JobState]
    BY DEF IInv, TypeInv
  <2> QED BY <2>1 DEF IInv, TypeInv, TypeOK, JobState
<1> QED BY <1>1, QueueInvariant, PTL

\* What the manager promises of every job, with any pool and any requests: one
\* worker at most has it, whatever is cancelled, parked, retried or restarted
\* meanwhile, and once no bulk request defers the saving, what its user was told
\* of it is in the saved queue.
THEOREM JobsKept == Spec => []JobsAreKept
<1>1. IInv => JobsAreKept
  BY DEF IInv, WorkerInv, SaveInv, Kept, JobsAreKept, AckedIsSaved, Status
<1> QED BY <1>1, QueueInvariant, PTL

\* A batch rings its start and its end once at most, in whatever order the lists
\* that left the lock reach the bell, and it ends only when all its jobs have.
THEOREM BatchesTruthful == Spec => []BatchesTellTheTruth
<1>1. IInv => BatchesTellTheTruth
  <2> SUFFICES ASSUME IInv, NEW id \in Batch
               PROVE  /\ \A what \in {"started", "finished"} : Count(bell[id], what) <= 1
                      /\ batches[id].finished => \A j \in Job : jobs[j].batch = id => Status(j) \in Terminal
    BY DEF BatchesTellTheTruth
  <2>1. \A what \in {"started", "finished"} : Count(bell[id], what) <= 1
    BY DEF IInv, TellInv
  <2>2. batches[id].finished => OfBatch(jobs, id) \subseteq Ended(jobs, id)
    BY DEF IInv, BatchInv, BatchRight
  <2> QED BY <2>1, <2>2 DEF OfBatch, Ended, Status
<1> QED BY <1>1, QueueInvariant, PTL

=============================================================================
