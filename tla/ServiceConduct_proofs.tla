------------------------ MODULE ServiceConduct_proofs ------------------------
(***************************************************************************)
(* Theorems about services that act on what they know of others.           *)
(***************************************************************************)
EXTENDS DroneServices, SequenceTheorems, FiniteSetTheorems, WellFoundedInduction, TLAPS

LEMMA FocusStays == [Next]_vars => focus' = focus
  BY DEF Next, vars

-----------------------------------------------------------------------------
(* The worker of the Stream Deck.                                          *)

LEMMA DeckSteps == [Next]_vars /\ focus = "deck" => [Deck!DeckNext]_Deck!deckVars
  BY DEF Next, vars, Deck!deckVars

LEMMA DeckStarts == Init /\ focus = "deck" => Deck!DeckInit
  BY DEF Init

\* All of the invariant but what it says of an Apply.
DeckCore == /\ Deck!DeckTypes /\ x10["late"] = 0 /\ Deck!OneWorker /\ Deck!DisablingKnows /\ Deck!DisabledIsStopped
            /\ x9.on => x9.saved
            /\ x6 # Deck!Free => x1.told = "nothing"
            /\ x1.told # "nothing" => ~x1.enabled

LEMMA DeckParts == Deck!DeckInv <=> DeckCore /\ Deck!AppliesToEnabled
  BY DEF Deck!DeckInv, DeckCore

LEMMA DeckBegins ==
  Deck!DeckInit /\ (\A b \in DeckBounds : b.late = 0) => Deck!DeckInv
<1> SUFFICES ASSUME Deck!DeckInit, \A b \in DeckBounds : b.late = 0 PROVE Deck!DeckInv
  OBVIOUS
<1>1. Deck!DeckTypes /\ x10["late"] = 0
  BY DeckAssumption DEF Deck!DeckInit, Deck!DeckTypes, Deck!Absent, Deck!Free
<1>2. \A w \in Worker : x3[w].pc = "none"
  BY DEF Deck!DeckInit, Deck!Absent
<1>3. Deck!OneWorker /\ Deck!NoneOfThisDrone
  BY <1>2 DEF Deck!OneWorker, Deck!Alive, Deck!NoneOfThisDrone
<1>4. x1.told = "nothing" /\ x6 = Deck!Free /\ x6.pc = "idle" /\ x6.op = "none" /\ ~x9.on
  BY DEF Deck!DeckInit, Deck!Free
<1>5. Deck!DisablingKnows
  BY <1>4 DEF Deck!DisablingKnows
<1>6. Deck!DisabledIsStopped
  BY <1>4 DEF Deck!DisabledIsStopped
<1>7. DeckCore
  BY <1>1, <1>3, <1>4, <1>5, <1>6 DEF DeckCore
<1>8. x11 = FALSE
  BY DEF Deck!DeckInit
<1>9. Deck!AppliesToEnabled
  BY <1>8 DEF Deck!AppliesToEnabled
<1> QED
  BY <1>7, <1>9, DeckParts

LEMMA DeckUses ==
  ASSUME DeckCore, NEW what \in {"requests", "tests", "failures", "crashes", "restarts", "applies", "stuck"}, Deck!Use(what)
  PROVE  /\ x10' \in [{"requests", "tests", "failures", "crashes", "restarts", "applies", "stuck", "late"} -> Nat]
         /\ x10'["late"] = 0
<1> DEFINE Counted == {"requests", "tests", "failures", "crashes", "restarts", "applies", "stuck", "late"}
<1>1. x10 \in [Counted -> Nat] /\ x10["late"] = 0
  BY DEF DeckCore, Deck!DeckTypes
<1>2. x10[what] > 0 /\ x10' = [x10 EXCEPT ![what] = x10[what] - 1]
  BY DEF Deck!Use
<1>3. what \in Counted /\ what # "late"
  OBVIOUS
<1> HIDE DEF Counted
<1>4. x10[what] - 1 \in Nat
  BY <1>1, <1>2, <1>3
<1>5. x10' \in [Counted -> Nat] /\ x10'["late"] = x10["late"]
  BY <1>1, <1>2, <1>3, <1>4
<1> QED
  BY <1>1, <1>5 DEF Counted

DeckRecord == [exists : BOOLEAN, enabled : BOOLEAN, told : {"nothing", "disabled", "not restored", "removed"}]
DeckWorker == [pc : {"none", "spawned", "running", "gone"}, of : Nat, term : BOOLEAN]
DeckHolder == [op : {"none", "enable", "repair", "reinstall", "disable", "remove", "auto"},
               pc : {"idle", "ensure", "off", "stop", "wait", "restore", "uninstall", "end", "remark", "start", "leave"}]
DeckCounts == [{"requests", "tests", "failures", "crashes", "restarts", "applies", "stuck", "late"} -> Nat]

LEMMA DeckFacts ==
  ASSUME DeckCore
  PROVE  /\ x1 \in DeckRecord /\ x2 \in {"missing", "ready", "broken"} /\ x3 \in [Worker -> DeckWorker]
         /\ x4 \in Worker \cup {NoWorker} /\ x5 \in Nat /\ x6 \in DeckHolder /\ x7 \in BOOLEAN
         /\ x9 \in [on : BOOLEAN, saved : BOOLEAN] /\ x10 \in DeckCounts /\ x10["late"] = 0
         /\ x6 = Deck!Free <=> x6.pc = "idle"
         /\ x9.on => x9.saved
         /\ x6 # Deck!Free => x1.told = "nothing"
         /\ x1.told # "nothing" => ~x1.enabled
         /\ Deck!OneWorker /\ Deck!DisablingKnows /\ Deck!DisabledIsStopped
  BY DEF DeckCore, Deck!DeckTypes, Deck!DisablingKnows, DeckRecord, DeckWorker, DeckHolder, DeckCounts

\* The invariant after a step, from its parts.
LEMMA DeckKeeps ==
  ASSUME x1' \in DeckRecord, x2' \in {"missing", "ready", "broken"}, x3' \in [Worker -> DeckWorker],
         x4' \in Worker \cup {NoWorker}, x5' \in Nat, x6' \in DeckHolder, x7' \in BOOLEAN,
         x9' \in [on : BOOLEAN, saved : BOOLEAN], x10' \in DeckCounts, x10'["late"] = 0,
         Deck!OneWorker', Deck!DisablingKnows', x9'.on => x9'.saved,
         x6' # Deck!Free => x1'.told = "nothing",
         x1'.told # "nothing" => ~x1'.enabled /\ Deck!NoneOfThisDrone',
         x1'.told \in {"disabled", "removed"} => ~x9'.on,
         x1'.told = "removed" => x2' = "missing"
  PROVE  DeckCore'
  BY DEF DeckCore, Deck!DeckTypes, Deck!DisabledIsStopped, Deck!NoneOfThisDrone,
     DeckRecord, DeckWorker, DeckHolder, DeckCounts

\* Who holds the lock, after it went on.
LEMMA HolderGoes ==
  ASSUME DeckCore, NEW pc \in {"ensure", "off", "stop", "wait", "restore", "uninstall", "end", "remark", "start", "leave"},
         Deck!Go(pc)
  PROVE  x6' \in DeckHolder /\ x6'.pc = pc /\ x6'.op = x6.op /\ x6' # Deck!Free
<1>1. x6 \in DeckHolder
  BY DeckFacts
<1>2. x6' \in DeckHolder /\ x6'.pc = pc /\ x6'.op = x6.op
  BY <1>1 DEF Deck!Go, DeckHolder
<1>3. Deck!Free.pc = "idle"
  BY DEF Deck!Free
<1> QED
  BY <1>2, <1>3

LEMMA FreeSays == Deck!Free \in DeckHolder /\ Deck!Free.pc = "idle" /\ Deck!Free.op = "none"
  BY DEF Deck!Free, DeckHolder

\* Workers that end leave one at most.
LEMMA WorkerGone ==
  ASSUME DeckCore, NEW w \in Worker, x3' = Deck!Gone(w)
  PROVE  /\ x3' \in [Worker -> DeckWorker] /\ x3'[w].pc = "gone"
         /\ \A v \in Worker \ {w} : x3'[v] = x3[v]
  BY DeckFacts DEF Deck!Gone, DeckWorker

LEMMA FewerWorkers ==
  ASSUME DeckCore, x5' = x5, x6'.pc = "wait" => x6.pc = "wait" \/ \A w \in Worker : x3'[w].pc # "spawned",
         \A w \in Worker : Deck!Alive(w)' => /\ x3'[w].pc = x3[w].pc /\ x3'[w].of = x3[w].of
                                             /\ x4' = x4
  PROVE  /\ Deck!OneWorker'
         /\ Deck!NoneOfThisDrone => Deck!NoneOfThisDrone'
<1>1. \A w \in Worker : Deck!Alive(w)' => Deck!Alive(w)
  BY DEF Deck!Alive
<1>2. Deck!OneWorker
  BY DeckFacts
<1>3. \A v, w \in Worker : Deck!Alive(v)' /\ Deck!Alive(w)' => v = w
  BY <1>1, <1>2 DEF Deck!OneWorker
<1>4. \A w \in Worker : Deck!Alive(w)' => x3'[w].of <= x5' /\ (x3'[w].of = x5' => w = x4')
  BY <1>1, <1>2 DEF Deck!OneWorker
<1>5. \A w \in Worker : x3'[w].pc = "spawned" => x3'[w].of = x5' /\ x6'.pc # "wait"
  BY <1>1, <1>2 DEF Deck!OneWorker, Deck!Alive, Deck!At
<1>6. Deck!OneWorker'
  BY <1>3, <1>4, <1>5 DEF Deck!OneWorker, Deck!At
<1>7. Deck!NoneOfThisDrone => Deck!NoneOfThisDrone'
  BY <1>1 DEF Deck!NoneOfThisDrone
<1> QED
  BY <1>6, <1>7

\* start_runtime leaves one worker, this Drone's if it is new.
LEMMA StartKeeps ==
  ASSUME DeckCore, Deck!Start, x5' = x5, x6'.pc # "wait"
  PROVE  /\ x3' \in [Worker -> DeckWorker] /\ x4' \in Worker \cup {NoWorker} /\ Deck!OneWorker'
<1>1. CASE UNCHANGED <<x3, x4>>
  BY <1>1, DeckFacts, FewerWorkers
<1>2. CASE ~UNCHANGED <<x3, x4>>
  <2> DEFINE new == {w \in Worker : x3[w] = Deck!Absent}
  <2>1. /\ Deck!Locked = {} /\ ~(x4 # NoWorker /\ Deck!Alive(x4)) /\ new # {}
        /\ x4' = (CHOOSE w \in new : TRUE)
        /\ x3' = [x3 EXCEPT ![CHOOSE w \in new : TRUE] = [pc |-> "spawned", of |-> x5, term |-> FALSE]]
    BY <1>2 DEF Deck!Start
  <2>2. PICK w \in Worker : x4' = w /\ x3' = [x3 EXCEPT ![w] = [pc |-> "spawned", of |-> x5, term |-> FALSE]]
    BY <2>1
  <2>3. /\ x3' \in [Worker -> DeckWorker] /\ x3'[w] = [pc |-> "spawned", of |-> x5, term |-> FALSE]
        /\ \A v \in Worker \ {w} : x3'[v] = x3[v]
    BY <2>2, DeckFacts DEF DeckWorker
  <2>4. ASSUME NEW v \in Worker, Deck!Alive(v) PROVE FALSE
    <3>1. x3[v].pc # "running"
      BY <2>1 DEF Deck!Locked
    <3>2. x3[v].pc = "spawned" /\ x3[v].of = x5
      BY <2>4, <3>1, DeckFacts DEF Deck!Alive, Deck!OneWorker
    <3>3. v = x4
      BY <2>4, <3>2, DeckFacts DEF Deck!OneWorker
    <3> QED
      BY <2>1, <2>4, <3>3, DeckAssumption
  <2>5. \A v \in Worker : Deck!Alive(v)' => v = w
    BY <2>3, <2>4 DEF Deck!Alive
  <2> QED
    BY <2>2, <2>3, <2>5, DeckFacts DEF Deck!OneWorker, Deck!Alive, Deck!At
<1> QED
  BY <1>1, <1>2

LEMMA DeckCoreStep ==
  ASSUME DeckCore, Deck!AppliesToEnabled, [Deck!DeckNext]_Deck!deckVars
  PROVE  DeckCore'
<1>a. Deck!DisablingKnows /\ Deck!OneWorker /\ Deck!DisabledIsStopped
  BY DeckFacts
<1>n. /\ x1.told # "nothing" => ~x1.enabled /\ Deck!NoneOfThisDrone /\ x6 = Deck!Free
      /\ x1.told \in {"disabled", "removed"} => ~x9.on
  BY DeckFacts DEF Deck!DisabledIsStopped, Deck!NoneOfThisDrone, DeckRecord
<1>r. x1.told = "removed" => x2 = "missing"
  BY DeckFacts DEF Deck!DisabledIsStopped
<1>1. ASSUME NEW op \in {"enable", "repair", "reinstall", "disable", "remove"}, Deck!Request(op) PROVE DeckCore'
  <2>1. /\ x1' = [x1 EXCEPT !.told = "nothing"] /\ UNCHANGED <<x2, x3, x4, x5, x7, x9>>
        /\ x10' \in DeckCounts /\ x10'["late"] = 0
    BY <1>1, DeckUses DEF Deck!Request, DeckCounts
  <2>2. x1' \in DeckRecord /\ x1'.told = "nothing"
    BY <2>1, DeckFacts DEF DeckRecord
  <2>3. /\ x6' \in DeckHolder /\ x6'.op = op /\ x6' # Deck!Free
        /\ x6'.pc = IF op = "enable" THEN "ensure" ELSE IF op \in {"disable", "remove"} THEN "off" ELSE "stop"
    <3>1. x6'.op = op /\ x6'.pc = (CASE op = "enable" -> "ensure" [] op \in {"disable", "remove"} -> "off" [] OTHER -> "stop")
          /\ x6' = [op |-> op, pc |-> x6'.pc]
      BY <1>1 DEF Deck!Request
    <3>2. x6'.pc = IF op = "enable" THEN "ensure" ELSE IF op \in {"disable", "remove"} THEN "off" ELSE "stop"
      BY <3>1
    <3> QED
      BY <3>1, <3>2, FreeSays DEF DeckHolder
  <2>4. Deck!DisablingKnows'
    BY <2>3, FreeSays DEF Deck!DisablingKnows
  <2>5. Deck!OneWorker'
    BY <2>1, <2>3, FewerWorkers DEF Deck!Alive
  <2> QED
    BY <2>1, <2>2, <2>3, <2>4, <2>5, DeckFacts, DeckKeeps
<1>2. CASE Deck!StartTest \/ Deck!EndTest
  <2>1. UNCHANGED <<x1, x2, x3, x4, x5, x6, x7, x9>> /\ x10' \in DeckCounts /\ x10'["late"] = 0
    BY <1>2, DeckUses, DeckFacts DEF Deck!StartTest, Deck!EndTest, DeckCounts
  <2>2. Deck!OneWorker' /\ Deck!DisablingKnows' /\ (Deck!NoneOfThisDrone => Deck!NoneOfThisDrone')
    BY <1>a, <2>1 DEF Deck!OneWorker, Deck!DisablingKnows, Deck!NoneOfThisDrone, Deck!Alive, Deck!At
  <2> QED
    BY <1>n, <1>r, <2>1, <2>2, DeckFacts, DeckKeeps
<1>3. CASE Deck!SwitchOff
  <2>1. /\ x6.pc = "off" /\ Deck!Go("stop") /\ UNCHANGED <<x2, x3, x4, x5, x7, x9, x10>>
        /\ x1' = [x1 EXCEPT !.enabled = FALSE, !.exists = @ \/ x6.op = "disable"]
    BY <1>3 DEF Deck!SwitchOff, Deck!At
  <2>2. x1' \in DeckRecord /\ x1'.told = x1.told /\ x1'.enabled = FALSE
    BY <2>1, DeckFacts DEF DeckRecord
  <2>3. x6' \in DeckHolder /\ x6'.pc = "stop" /\ x6'.op = x6.op /\ x6' # Deck!Free
    BY <2>1, HolderGoes
  <2>4. Deck!DisablingKnows'
    BY <1>a, <2>2, <2>3, FreeSays DEF Deck!DisablingKnows
  <2>5. Deck!OneWorker'
    BY <2>1, <2>3, FewerWorkers DEF Deck!Alive
  <2>6. x1'.told = "nothing"
    BY <2>1, <2>2, DeckFacts, FreeSays
  <2> QED
    BY <2>1, <2>2, <2>3, <2>4, <2>5, <2>6, DeckFacts, DeckKeeps
\* Nobody holds the lock: then the child is the only worker that may live.
<1>4. CASE Deck!StopRuntime
  <2>1. x6.pc = "stop" /\ UNCHANGED <<x1, x2, x5, x7, x9, x10>> /\ x1.told = "nothing"
    BY <1>4, DeckFacts, FreeSays DEF Deck!StopRuntime, Deck!At
  <2>2. CASE Deck!Locked = {} /\ Deck!StopNobody
    <3>1. /\ x4' = NoWorker /\ x3' \in [Worker -> DeckWorker]
          /\ \A w \in Worker : x3'[w].pc = "gone" \/ (w # x4 /\ x3'[w] = x3[w])
      <4>1. CASE x4 = NoWorker
        BY <2>2, <4>1, DeckFacts, DeckAssumption DEF Deck!StopNobody
      <4>2. CASE x4 # NoWorker
        BY <2>2, <4>2, DeckFacts, WorkerGone DEF Deck!StopNobody
      <4> QED
        BY <4>1, <4>2
    <3>2. ASSUME NEW w \in Worker PROVE ~Deck!Alive(w)'
      <4>1. SUFFICES ASSUME w # x4, x3'[w] = x3[w], Deck!Alive(w) PROVE FALSE
        BY <3>1 DEF Deck!Alive
      <4>2. x3[w].pc # "running"
        BY <2>2 DEF Deck!Locked
      <4> QED
        BY <1>a, <4>1, <4>2 DEF Deck!Alive, Deck!OneWorker
    <3>3. Deck!AfterStop
      BY <2>2 DEF Deck!StopNobody
    <3>4. /\ x6' \in DeckHolder /\ x6'.op = x6.op /\ x6' # Deck!Free
          /\ x6'.pc = IF x6.op \in {"disable", "remove"} THEN "restore" ELSE IF x6.op = "reinstall" THEN "uninstall" ELSE "ensure"
      <4>1. Deck!Go(IF x6.op \in {"disable", "remove"} THEN "restore" ELSE IF x6.op = "reinstall" THEN "uninstall" ELSE "ensure")
        BY <3>3 DEF Deck!AfterStop, Deck!Go
      <4> QED
        BY <4>1, HolderGoes
    <3>5. Deck!OneWorker' /\ Deck!NoneOfThisDrone'
      BY <3>2 DEF Deck!OneWorker, Deck!NoneOfThisDrone, Deck!Alive
    <3>6. Deck!DisablingKnows'
      BY <1>a, <2>1, <3>4, <3>5, FreeSays DEF Deck!DisablingKnows
    <3> QED
      BY <2>1, <3>1, <3>4, <3>5, <3>6, DeckFacts, DeckKeeps
  <2>3. ASSUME NEW w \in Deck!Locked, x3' = [x3 EXCEPT ![w].term = TRUE], Deck!Go("wait"), x4' = x4 PROVE DeckCore'
    <3>1. w \in Worker /\ x3[w].pc = "running"
      BY DEF Deck!Locked
    <3>2. x3' \in [Worker -> DeckWorker] /\ \A v \in Worker : x3'[v].pc = x3[v].pc /\ x3'[v].of = x3[v].of
      BY <2>3, <3>1, DeckFacts DEF DeckWorker
    <3>3. x6' \in DeckHolder /\ x6'.pc = "wait" /\ x6'.op = x6.op /\ x6' # Deck!Free
      BY <2>3, HolderGoes
    <3>4. \A v \in Worker : x3'[v].pc # "spawned"
      BY <1>a, <3>1, <3>2 DEF Deck!OneWorker, Deck!Alive
    <3>5. Deck!OneWorker'
      BY <2>1, <2>3, <3>2, <3>4, FewerWorkers
    <3>6. Deck!DisablingKnows'
      BY <1>a, <2>1, <3>3, FreeSays DEF Deck!DisablingKnows
    <3> QED
      BY <2>1, <2>3, <3>2, <3>3, <3>5, <3>6, DeckFacts, DeckKeeps
  <2> QED
    BY <1>4, <2>2, <2>3 DEF Deck!StopRuntime
\* No worker was about to take the lock, so nobody is left.
<1>5. CASE Deck!StopWaits
  <2>1. x6.pc = "wait" /\ UNCHANGED <<x1, x2, x5, x7, x9, x10>> /\ x1.told = "nothing" /\ Deck!AfterStop
    BY <1>5, DeckFacts, FreeSays DEF Deck!StopWaits, Deck!At
  <2>2. x3' \in [Worker -> DeckWorker] /\ \A w \in Worker : ~Deck!Alive(w)'
    <3>1. \A w \in Worker : x3[w].pc # "spawned"
      BY <1>a, <2>1 DEF Deck!OneWorker, Deck!At
    <3>2. CASE Deck!Locked = {} /\ x3' = x3
      BY <3>1, <3>2, DeckFacts DEF Deck!Locked, Deck!Alive
    <3>3. ASSUME NEW w \in Deck!Locked, x3' = Deck!Gone(w) PROVE x3' \in [Worker -> DeckWorker] /\ \A v \in Worker : ~Deck!Alive(v)'
      <4>1. w \in Worker /\ Deck!Alive(w)
        BY DEF Deck!Locked, Deck!Alive
      <4> QED
        BY <1>a, <3>3, <4>1, WorkerGone DEF Deck!OneWorker, Deck!Alive
    <3> QED
      BY <1>5, <3>2, <3>3 DEF Deck!StopWaits
  <2>3. x4' \in Worker \cup {NoWorker}
    BY <1>5, DeckFacts DEF Deck!StopWaits
  <2>4. /\ x6' \in DeckHolder /\ x6'.op = x6.op /\ x6' # Deck!Free
        /\ x6'.pc = IF x6.op \in {"disable", "remove"} THEN "restore" ELSE IF x6.op = "reinstall" THEN "uninstall" ELSE "ensure"
    <3>1. Deck!Go(IF x6.op \in {"disable", "remove"} THEN "restore" ELSE IF x6.op = "reinstall" THEN "uninstall" ELSE "ensure")
      BY <2>1 DEF Deck!AfterStop, Deck!Go
    <3> QED
      BY <3>1, HolderGoes
  <2>5. Deck!OneWorker' /\ Deck!NoneOfThisDrone'
    BY <2>2 DEF Deck!OneWorker, Deck!NoneOfThisDrone, Deck!Alive
  <2>6. Deck!DisablingKnows'
    BY <1>a, <2>1, <2>4, <2>5, FreeSays DEF Deck!DisablingKnows
  <2> QED
    BY <2>1, <2>2, <2>3, <2>4, <2>5, <2>6, DeckFacts, DeckKeeps
<1>6. CASE Deck!StopFails
  <2>1. x6' = Deck!Free /\ x6.pc = "wait" /\ UNCHANGED <<x1, x2, x5, x7, x9, x10>> /\ x1.told = "nothing"
    BY <1>6, DeckFacts, FreeSays DEF Deck!StopFails, Deck!At
  <2>2. /\ x3' \in [Worker -> DeckWorker] /\ x4' \in Worker \cup {NoWorker}
        /\ \A w \in Worker : x3'[w].pc = "gone" \/ (x3'[w] = x3[w] /\ (x4' = x4 \/ w # x4))
    <3>1. CASE x4 = NoWorker
      BY <1>6, <3>1, DeckFacts DEF Deck!StopFails
    <3>2. CASE x4 # NoWorker
      BY <1>6, <3>2, DeckFacts, WorkerGone DEF Deck!StopFails
    <3> QED
      BY <3>1, <3>2
  <2>3. Deck!OneWorker'
    <3>1. \A w \in Worker : Deck!Alive(w)' => Deck!Alive(w) /\ x3'[w] = x3[w] /\ (x3[w].of = x5 => x4' = w)
      BY <1>a, <2>2 DEF Deck!Alive, Deck!OneWorker
    <3>2. \A w \in Worker : x3'[w].pc = "spawned" => x3[w].pc = "spawned" /\ x3'[w] = x3[w]
      BY <2>2
    <3> QED
      BY <1>a, <2>1, <3>1, <3>2, FreeSays DEF Deck!OneWorker, Deck!At
  <2>4. Deck!DisablingKnows'
    BY <2>1, FreeSays DEF Deck!DisablingKnows
  <2> QED
    BY <2>1, <2>2, <2>3, <2>4, DeckFacts, DeckKeeps, FreeSays
<1>7. CASE Deck!RestorePort
  <2>1. /\ x6.pc = "restore" /\ UNCHANGED <<x1, x2, x3, x4, x5, x7, x10>> /\ x1.told = "nothing"
        /\ Deck!Go(IF x6.op = "remove" THEN "uninstall" ELSE "end")
        /\ x9' = [on |-> x9.on /\ ~x9.saved, saved |-> FALSE]
    BY <1>7, DeckFacts, FreeSays DEF Deck!RestorePort, Deck!At
  <2>2. x6' \in DeckHolder /\ x6'.pc = (IF x6.op = "remove" THEN "uninstall" ELSE "end") /\ x6'.op = x6.op /\ x6' # Deck!Free
    BY <2>1, HolderGoes
  <2>3. x9' \in [on : BOOLEAN, saved : BOOLEAN] /\ ~x9'.on
    BY <2>1, DeckFacts
  <2>4. Deck!OneWorker' /\ (Deck!NoneOfThisDrone => Deck!NoneOfThisDrone')
    BY <2>1, <2>2, FewerWorkers DEF Deck!Alive
  <2>5. Deck!DisablingKnows'
    BY <1>a, <2>1, <2>2, <2>3, <2>4, FreeSays DEF Deck!DisablingKnows
  <2> QED
    BY <2>1, <2>2, <2>3, <2>4, <2>5, DeckFacts, DeckKeeps
<1>8. ASSUME NEW everything \in BOOLEAN, Deck!Uninstall(everything) PROVE DeckCore'
  <2>1. /\ x6.pc = "uninstall" /\ x2' = "missing" /\ UNCHANGED <<x3, x4, x5, x7, x9, x10>> /\ x1.told = "nothing"
        /\ Deck!Go(IF x6.op = "remove" THEN "end" ELSE "ensure")
        /\ x1' = [x1 EXCEPT !.exists = @ /\ ~everything]
    BY <1>8, DeckFacts, FreeSays DEF Deck!Uninstall, Deck!At
  <2>2. x6' \in DeckHolder /\ x6'.pc = (IF x6.op = "remove" THEN "end" ELSE "ensure") /\ x6'.op = x6.op /\ x6' # Deck!Free
    BY <2>1, HolderGoes
  <2>3. x1' \in DeckRecord /\ x1'.told = "nothing" /\ x1'.enabled = x1.enabled
    BY <2>1, DeckFacts DEF DeckRecord
  <2>4. Deck!OneWorker' /\ (Deck!NoneOfThisDrone => Deck!NoneOfThisDrone')
    BY <2>1, <2>2, FewerWorkers DEF Deck!Alive
  <2>5. Deck!DisablingKnows'
    BY <1>a, <2>1, <2>2, <2>3, <2>4, FreeSays DEF Deck!DisablingKnows
  <2> QED
    BY <2>1, <2>2, <2>3, <2>4, <2>5, DeckFacts, DeckKeeps
\* What was reached holds when the user is told.
<1>9. CASE Deck!Answer
  <2>1. /\ x6.pc \in {"end", "remark"} /\ x6' = Deck!Free /\ UNCHANGED <<x2, x3, x4, x5, x7, x9, x10>>
        /\ x1' = [x1 EXCEPT !.told = IF x6.pc = "remark" THEN "not restored"
                                    ELSE IF x6.op = "remove" THEN "removed" ELSE "disabled"]
    BY <1>9 DEF Deck!Answer, Deck!At
  <2>2. /\ x1' \in DeckRecord /\ x1'.enabled = x1.enabled
        /\ x1'.told = "removed" => x6.op = "remove" /\ x6.pc = "end"
        /\ x1'.told \in {"disabled", "removed"} => x6.pc = "end"
    BY <2>1, DeckFacts DEF DeckRecord
  <2>3. /\ ~x1.enabled /\ Deck!NoneOfThisDrone
        /\ x6.pc = "end" => ~x9.on /\ (x6.op = "remove" => x2 = "missing")
    BY <1>a, <2>1 DEF Deck!DisablingKnows
  <2>4. Deck!OneWorker' /\ Deck!NoneOfThisDrone'
    BY <2>1, <2>3, FreeSays, FewerWorkers DEF Deck!Alive
  <2>5. Deck!DisablingKnows'
    BY <2>1, FreeSays DEF Deck!DisablingKnows
  <2> QED
    BY <2>1, <2>2, <2>3, <2>4, <2>5, DeckFacts, DeckKeeps, FreeSays
<1>10. CASE Deck!AutoRepair
  <2>1. /\ x7' = FALSE /\ UNCHANGED <<x1, x2, x3, x4, x5, x9, x10>>
        /\ x6' = x6 \/ (x6' = [op |-> "auto", pc |-> "stop"] /\ x1.enabled)
    BY <1>10 DEF Deck!AutoRepair, Deck!Superfluous
  <2>2. CASE x6' = x6
    <3>1. Deck!OneWorker' /\ Deck!DisablingKnows' /\ (Deck!NoneOfThisDrone => Deck!NoneOfThisDrone')
      BY <1>a, <2>1, <2>2 DEF Deck!OneWorker, Deck!DisablingKnows, Deck!NoneOfThisDrone, Deck!Alive, Deck!At
    <3> QED
      BY <1>n, <1>r, <2>1, <2>2, <3>1, DeckFacts, DeckKeeps
  <2>3. CASE x6' = [op |-> "auto", pc |-> "stop"] /\ x1.enabled
    <3>1. x6' \in DeckHolder /\ x6'.pc = "stop" /\ x6'.op = "auto" /\ x6' # Deck!Free
      BY <2>3, FreeSays DEF DeckHolder
    <3>2. x1.told = "nothing"
      BY <2>3, DeckFacts
    <3>3. Deck!OneWorker'
      BY <2>1, <3>1, FewerWorkers DEF Deck!Alive
    <3>4. Deck!DisablingKnows'
      BY <3>1, FreeSays DEF Deck!DisablingKnows
    <3> QED
      BY <2>1, <3>1, <3>2, <3>3, <3>4, DeckFacts, DeckKeeps
  <2> QED
    BY <2>1, <2>2, <2>3
<1>11. CASE Deck!Ensure
  <2>1. /\ x6.pc = "ensure" /\ x2' = "ready" /\ UNCHANGED <<x3, x4, x5, x7, x9, x10>> /\ x1.told = "nothing"
        /\ (x1' = x1 \/ x1' = [x1 EXCEPT !.exists = TRUE, !.enabled = TRUE])
        /\ (Deck!Go("start") \/ Deck!Go("leave"))
    BY <1>11, DeckFacts, FreeSays DEF Deck!Ensure, Deck!At
  <2>2. x1' \in DeckRecord /\ x1'.told = "nothing"
    BY <2>1, DeckFacts DEF DeckRecord
  <2>3. x6' \in DeckHolder /\ x6'.pc \in {"start", "leave"} /\ x6'.op = x6.op /\ x6' # Deck!Free
    BY <2>1, HolderGoes
  <2>4. Deck!DisablingKnows'
    BY <1>a, <2>1, <2>3, FreeSays DEF Deck!DisablingKnows
  <2>5. Deck!OneWorker'
    BY <2>1, <2>3, FewerWorkers DEF Deck!Alive
  <2> QED
    BY <2>1, <2>2, <2>3, <2>4, <2>5, DeckFacts, DeckKeeps
<1>12. CASE Deck!EnsureFails
  <2>1. x6.pc = "ensure" /\ x6' = Deck!Free /\ UNCHANGED <<x1, x2, x3, x4, x5, x7, x9>> /\ x10' \in DeckCounts /\ x10'["late"] = 0
    BY <1>12, DeckUses DEF Deck!EnsureFails, Deck!At, DeckCounts
  <2>2. Deck!DisablingKnows' /\ x1.told = "nothing"
    BY <2>1, DeckFacts, FreeSays DEF Deck!DisablingKnows
  <2>3. Deck!OneWorker'
    BY <2>1, FreeSays, FewerWorkers DEF Deck!Alive
  <2> QED
    BY <2>1, <2>2, <2>3, DeckFacts, DeckKeeps, FreeSays
<1>13. CASE Deck!StartWorker
  <2>1. /\ x6.pc = "start" /\ Deck!Go("leave") /\ Deck!Start /\ UNCHANGED <<x1, x2, x5, x7, x10>> /\ x1.told = "nothing"
        /\ (x9' = x9 \/ x9' = [on |-> TRUE, saved |-> TRUE])
    BY <1>13, DeckFacts, FreeSays DEF Deck!StartWorker, Deck!At, Deck!SyncPort
  <2>2. x6' \in DeckHolder /\ x6'.pc = "leave" /\ x6'.op = x6.op /\ x6' # Deck!Free
    BY <2>1, HolderGoes
  <2>3. x3' \in [Worker -> DeckWorker] /\ x4' \in Worker \cup {NoWorker} /\ Deck!OneWorker'
    BY <2>1, <2>2, StartKeeps
  <2>4. Deck!DisablingKnows'
    BY <1>a, <2>1, <2>2, FreeSays DEF Deck!DisablingKnows
  <2>5. x9' \in [on : BOOLEAN, saved : BOOLEAN] /\ (x9'.on => x9'.saved)
    <3>1. CASE x9' = x9
      BY <3>1, DeckFacts
    <3>2. CASE x9' = [on |-> TRUE, saved |-> TRUE]
      BY <3>2
    <3> QED
      BY <2>1, <3>1, <3>2
  <2> QED
    BY <2>1, <2>2, <2>3, <2>4, <2>5, DeckFacts, DeckKeeps
<1>14. CASE Deck!LeaveJob
  <2>1. x6.pc = "leave" /\ x6' = Deck!Free /\ UNCHANGED <<x1, x2, x3, x4, x5, x7, x9, x10>>
    BY <1>14 DEF Deck!LeaveJob, Deck!At
  <2>2. Deck!DisablingKnows' /\ x1.told = "nothing"
    BY <2>1, DeckFacts, FreeSays DEF Deck!DisablingKnows
  <2>3. Deck!OneWorker'
    BY <2>1, FreeSays, FewerWorkers DEF Deck!Alive
  <2> QED
    BY <2>1, <2>2, <2>3, DeckFacts, DeckKeeps, FreeSays
\* The supervisor starts nothing that is not enabled.
<1>15. CASE Deck!Supervise
  <2>1. /\ x6 = Deck!Free /\ x1.enabled /\ UNCHANGED <<x1, x2, x5, x6, x9, x10>>
        /\ (Deck!Start \/ UNCHANGED <<x3, x4>>) /\ x7' \in BOOLEAN
    BY <1>15, DeckFacts DEF Deck!Supervise
  <2>2. x1.told = "nothing"
    BY <2>1, DeckFacts
  <2>3. x3' \in [Worker -> DeckWorker] /\ x4' \in Worker \cup {NoWorker} /\ Deck!OneWorker'
    <3>1. CASE Deck!Start
      BY <2>1, <3>1, FreeSays, StartKeeps
    <3>2. CASE UNCHANGED <<x3, x4>>
      BY <2>1, <3>2, DeckFacts, FewerWorkers DEF Deck!Alive
    <3> QED
      BY <2>1, <3>1, <3>2
  <2>4. Deck!DisablingKnows'
    BY <2>1, FreeSays DEF Deck!DisablingKnows
  <2> QED
    BY <2>1, <2>2, <2>3, <2>4, DeckFacts, DeckKeeps
<1>16. ASSUME NEW w \in Worker, Deck!TakeLock(w) PROVE DeckCore'
  <2>1. x3[w].pc = "spawned" /\ x3' = [x3 EXCEPT ![w].pc = "running"] /\ UNCHANGED <<x1, x2, x4, x5, x6, x7, x9, x10>>
    BY <1>16 DEF Deck!TakeLock
  <2>2. /\ x3' \in [Worker -> DeckWorker] /\ x3'[w].pc = "running" /\ x3'[w].of = x3[w].of
        /\ \A v \in Worker \ {w} : x3'[v] = x3[v]
    BY <2>1, DeckFacts DEF DeckWorker
  <2>3. \A v \in Worker : Deck!Alive(v)' <=> Deck!Alive(v)
    BY <2>1, <2>2 DEF Deck!Alive
  <2>4. Deck!OneWorker' /\ (Deck!NoneOfThisDrone => Deck!NoneOfThisDrone')
    BY <1>a, <2>1, <2>2, <2>3 DEF Deck!OneWorker, Deck!NoneOfThisDrone, Deck!At
  <2>5. Deck!DisablingKnows'
    BY <1>a, <2>1, <2>4 DEF Deck!DisablingKnows
  <2> QED
    BY <1>n, <1>r, <2>1, <2>2, <2>4, <2>5, DeckFacts, DeckKeeps
<1>17. ASSUME NEW w \in Worker, Deck!WorkerEnds(w) PROVE DeckCore'
  <2>1. x3' = Deck!Gone(w) /\ UNCHANGED <<x1, x2, x4, x5, x6, x7, x9>> /\ x10' \in DeckCounts /\ x10'["late"] = 0
    BY <1>17, DeckUses, DeckFacts DEF Deck!WorkerEnds, DeckCounts
  <2>2. x3' \in [Worker -> DeckWorker] /\ x3'[w].pc = "gone" /\ \A v \in Worker \ {w} : x3'[v] = x3[v]
    BY <2>1, WorkerGone
  <2>3. Deck!OneWorker' /\ (Deck!NoneOfThisDrone => Deck!NoneOfThisDrone')
    BY <2>1, <2>2, FewerWorkers DEF Deck!Alive
  <2>4. Deck!DisablingKnows'
    BY <1>a, <2>1, <2>3 DEF Deck!DisablingKnows
  <2> QED
    BY <1>n, <1>r, <2>1, <2>2, <2>3, <2>4, DeckFacts, DeckKeeps
\* No worker is of a Drone that is yet to come.
<1>18. ASSUME NEW late \in BOOLEAN, NEW torn \in BOOLEAN, Deck!RestartDrone(late, torn) PROVE DeckCore'
  <2>1. /\ x5' = x5 + 1 /\ UNCHANGED <<x2, x3, x9>> /\ x4' = NoWorker /\ x6' = Deck!Free /\ x7' = FALSE
        /\ x1' = [x1 EXCEPT !.told = IF x6 = Deck!Free THEN @ ELSE "nothing"]
        /\ \A w \in Worker : x3[w].pc # "spawned"
        /\ x10' \in DeckCounts /\ x10'["late"] = 0
    <3>1. ~late /\ ~torn /\ Deck!Use("restarts")
      BY <1>18, DeckFacts DEF Deck!RestartDrone
    <3> QED
      BY <1>18, <3>1, DeckUses DEF Deck!RestartDrone, DeckCounts
  <2>2. x1' \in DeckRecord /\ x1'.enabled = x1.enabled /\ (x1'.told # "nothing" => x1'.told = x1.told)
    BY <2>1, DeckFacts DEF DeckRecord
  <2>3. \A w \in Worker : Deck!Alive(w)' => Deck!Alive(w) /\ x3[w].of <= x5 /\ x3[w].of # x5'
    BY <1>a, <2>1, DeckFacts DEF Deck!OneWorker, Deck!Alive, DeckWorker
  <2>4. Deck!NoneOfThisDrone'
    BY <2>1, <2>3 DEF Deck!NoneOfThisDrone
  <2>5. Deck!OneWorker'
    BY <1>a, <2>1, <2>3, DeckFacts DEF Deck!OneWorker, DeckWorker
  <2>6. Deck!DisablingKnows'
    BY <2>1, FreeSays DEF Deck!DisablingKnows
  <2>7. /\ x1'.told # "nothing" => ~x1'.enabled /\ Deck!NoneOfThisDrone'
        /\ x1'.told \in {"disabled", "removed"} => ~x9'.on
        /\ x1'.told = "removed" => x2' = "missing"
    BY <1>n, <1>r, <2>1, <2>2, <2>4
  <2>8. x4' \in Worker \cup {NoWorker} /\ x5' \in Nat /\ x7' \in BOOLEAN /\ (x9'.on => x9'.saved)
    <3>1. x4' \in Worker \cup {NoWorker} /\ x7' \in BOOLEAN
      BY <2>1
    <3>2. x5' \in Nat
      BY <2>1, DeckFacts
    <3>3. x9'.on => x9'.saved
      BY <2>1, DeckFacts
    <3> QED
      BY <3>1, <3>2, <3>3
  <2>9. /\ x2' \in {"missing", "ready", "broken"} /\ x3' \in [Worker -> DeckWorker]
        /\ x9' \in [on : BOOLEAN, saved : BOOLEAN] /\ x6' \in DeckHolder
    BY <2>1, DeckFacts, FreeSays
  <2> QED
    BY <2>1, <2>2, <2>5, <2>6, <2>7, <2>8, <2>9, DeckKeeps, FreeSays
<1>19. CASE Deck!ToolingBreaks
  <2>1. x2 = "ready" /\ x2' = "broken" /\ UNCHANGED <<x1, x3, x4, x5, x6, x7, x9>> /\ x10' \in DeckCounts /\ x10'["late"] = 0
    BY <1>19, DeckUses DEF Deck!ToolingBreaks, DeckCounts
  <2>2. Deck!OneWorker' /\ Deck!DisablingKnows' /\ (Deck!NoneOfThisDrone => Deck!NoneOfThisDrone')
    BY <1>a, <2>1 DEF Deck!OneWorker, Deck!DisablingKnows, Deck!NoneOfThisDrone, Deck!Alive, Deck!At
  <2> QED
    BY <1>n, <1>r, <2>1, <2>2, DeckFacts, DeckKeeps
\* The answer to a Disable says it when RetroArch's settings were not restored.
<1>20. CASE Deck!RestoreFails
  <2>1. /\ x6.pc = "restore" /\ x6.op # "remove" /\ UNCHANGED <<x1, x2, x3, x4, x5, x7>> /\ x1.told = "nothing"
        /\ Deck!Go("remark") /\ x10' \in DeckCounts /\ x10'["late"] = 0
        /\ x9.saved /\ x9' \in {x9, [x9 EXCEPT !.on = FALSE]}
    BY <1>20, DeckUses, DeckFacts, FreeSays DEF Deck!RestoreFails, Deck!At, DeckCounts
  <2>2. x6' \in DeckHolder /\ x6'.pc = "remark" /\ x6'.op = x6.op /\ x6' # Deck!Free
    BY <2>1, HolderGoes
  <2>3. x9' \in [on : BOOLEAN, saved : BOOLEAN] /\ x9'.saved
    BY <2>1, DeckFacts
  <2>4. Deck!OneWorker' /\ (Deck!NoneOfThisDrone => Deck!NoneOfThisDrone')
    BY <2>1, <2>2, FewerWorkers DEF Deck!Alive
  <2>5. Deck!DisablingKnows'
    BY <1>a, <2>1, <2>2, <2>4, FreeSays DEF Deck!DisablingKnows
  <2> QED
    BY <2>1, <2>2, <2>3, <2>4, <2>5, DeckFacts, DeckKeeps
<1>21. CASE Deck!ApplyLooks
  <2>1. UNCHANGED <<x1, x2, x3, x4, x5, x6, x7, x9>> /\ x10' \in DeckCounts /\ x10'["late"] = 0
    BY <1>21, DeckUses DEF Deck!ApplyLooks, DeckCounts
  <2>2. Deck!OneWorker' /\ Deck!DisablingKnows' /\ (Deck!NoneOfThisDrone => Deck!NoneOfThisDrone')
    BY <1>a, <2>1 DEF Deck!OneWorker, Deck!DisablingKnows, Deck!NoneOfThisDrone, Deck!Alive, Deck!At
  <2> QED
    BY <1>n, <1>r, <2>1, <2>2, DeckFacts, DeckKeeps
\* An Apply switches on the port of an integration that is still enabled.
<1>22. CASE Deck!ApplySyncs
  <2>1. /\ UNCHANGED <<x1, x2, x3, x4, x5, x6, x7, x10>> /\ (x9' = x9 \/ x9' = [on |-> TRUE, saved |-> TRUE])
        /\ x1.enabled /\ x6.op \notin {"disable", "remove"}
    BY <1>22, DeckFacts DEF Deck!ApplySyncs, Deck!SyncPort, Deck!AppliesToEnabled
  <2>2. x1.told = "nothing"
    BY <2>1, DeckFacts
  <2>3. x9' \in [on : BOOLEAN, saved : BOOLEAN] /\ (x9'.on => x9'.saved)
    <3>1. CASE x9' = x9
      BY <3>1, DeckFacts
    <3>2. CASE x9' = [on |-> TRUE, saved |-> TRUE]
      BY <3>2
    <3> QED
      BY <2>1, <3>1, <3>2
  <2>4. Deck!OneWorker' /\ (Deck!NoneOfThisDrone => Deck!NoneOfThisDrone')
    BY <1>a, <2>1 DEF Deck!OneWorker, Deck!NoneOfThisDrone, Deck!Alive, Deck!At
  <2>5. Deck!DisablingKnows'
    BY <1>a, <2>1, <2>4 DEF Deck!DisablingKnows
  <2> QED
    BY <2>1, <2>2, <2>3, <2>4, <2>5, DeckFacts, DeckKeeps
<1>23. CASE UNCHANGED Deck!deckVars
  <2>1. UNCHANGED <<x1, x2, x3, x4, x5, x6, x7, x9, x10>>
    BY <1>23 DEF Deck!deckVars
  <2>2. Deck!OneWorker' /\ Deck!DisablingKnows' /\ (Deck!NoneOfThisDrone => Deck!NoneOfThisDrone')
    BY <1>a, <2>1 DEF Deck!OneWorker, Deck!DisablingKnows, Deck!NoneOfThisDrone, Deck!Alive, Deck!At
  <2> QED
    BY <1>n, <1>r, <2>1, <2>2, DeckFacts, DeckKeeps
<1> QED
  BY <1>1, <1>2, <1>3, <1>4, <1>5, <1>6, <1>7, <1>8, <1>9, <1>10, <1>11, <1>12, <1>13, <1>14, <1>15, <1>16, <1>17,
     <1>18, <1>19, <1>20, <1>21, <1>22, <1>23 DEF Deck!DeckNext

\* Who switches off has waited for an Apply to end, and none begins meanwhile.
LEMMA AppliesStep ==
  ASSUME DeckCore, Deck!AppliesToEnabled, [Deck!DeckNext]_Deck!deckVars
  PROVE  Deck!AppliesToEnabled'
<1> USE DEF Deck!AppliesToEnabled
<1>f. Deck!Free.op = "none"
  BY FreeSays
<1>k. DeckCore => x6 \in DeckHolder /\ x1 \in DeckRecord /\ x10["late"] = 0 /\ Deck!DisablingKnows
  BY DeckFacts
<1>1. ASSUME NEW op \in {"enable", "repair", "reinstall", "disable", "remove"}, Deck!Request(op)
      PROVE  Deck!AppliesToEnabled'
  <2>1. x11' = x11 /\ x6'.op = op /\ x1' = [x1 EXCEPT !.told = "nothing"] /\ (x11 => op \notin {"disable", "remove"})
    BY <1>1, <1>k DEF Deck!Request
  <2> QED  BY <2>1, <1>k DEF DeckRecord
<1>2. CASE Deck!SwitchOff
  <2>1. x6.pc = "off" /\ x6' = [x6 EXCEPT !.pc = "stop"] /\ x11' = x11
    BY <1>2 DEF Deck!SwitchOff, Deck!At, Deck!Go
  <2>2. x6.op \in {"disable", "remove"}
    BY <2>1, <1>k DEF Deck!DisablingKnows
  <2> QED  BY <2>1, <2>2, <1>k DEF DeckHolder
<1>3. ASSUME x11' = x11, x1'.enabled = x1.enabled \/ x1'.enabled, x6'.op = x6.op \/ x6'.op \in {"none", "auto"}
      PROVE  Deck!AppliesToEnabled'
  BY <1>3
<1>4. CASE Deck!StartTest \/ Deck!EndTest \/ Deck!StopFails \/ Deck!EnsureFails \/ Deck!LeaveJob \/ Deck!Supervise
           \/ Deck!ToolingBreaks \/ (\E w \in Worker : Deck!TakeLock(w) \/ Deck!WorkerEnds(w))
  <2>1. x11' = x11 /\ x1' = x1 /\ (x6' = x6 \/ x6' = Deck!Free)
    BY <1>4 DEF Deck!StartTest, Deck!EndTest, Deck!StopFails, Deck!EnsureFails, Deck!LeaveJob, Deck!Supervise,
       Deck!ToolingBreaks, Deck!TakeLock, Deck!WorkerEnds
  <2> QED  BY <1>f, <2>1
<1>5. CASE Deck!StopRuntime \/ Deck!StopWaits \/ Deck!RestorePort \/ Deck!RestoreFails \/ Deck!StartWorker
  <2>1. x11' = x11 /\ x1' = x1
    BY <1>5 DEF Deck!StopRuntime, Deck!StopWaits, Deck!RestorePort, Deck!RestoreFails, Deck!StartWorker
  <2>2. x6'.op = x6.op
    <3>1. CASE Deck!StopRuntime
      BY <1>k, <3>1 DEF Deck!StopRuntime, Deck!StopNobody, Deck!AfterStop, Deck!Go, DeckHolder
    <3>2. CASE Deck!StopWaits
      BY <1>k, <3>2 DEF Deck!StopWaits, Deck!AfterStop, Deck!Go, DeckHolder
    <3>3. CASE Deck!RestorePort
      BY <1>k, <3>3 DEF Deck!RestorePort, Deck!Go, DeckHolder
    <3>4. CASE Deck!RestoreFails
      BY <1>k, <3>4 DEF Deck!RestoreFails, Deck!Go, DeckHolder
    <3>5. CASE Deck!StartWorker
      BY <1>k, <3>5 DEF Deck!StartWorker, Deck!Go, DeckHolder
    <3> QED
      BY <1>5, <3>1, <3>2, <3>3, <3>4, <3>5
  <2> QED  BY <1>3, <2>1, <2>2
<1>6. CASE Deck!Ensure \/ (\E everything \in BOOLEAN : Deck!Uninstall(everything))
  <2>1. CASE Deck!Ensure
    <3>1. x11' = x11 /\ (x1' = x1 \/ x1' = [x1 EXCEPT !.exists = TRUE, !.enabled = TRUE])
      BY <2>1 DEF Deck!Ensure
    <3>2. x6'.op = x6.op
      BY <1>k, <2>1 DEF Deck!Ensure, Deck!Go, DeckHolder
    <3>3. x1'.enabled = x1.enabled \/ x1'.enabled
      BY <1>k, <3>1 DEF DeckRecord
    <3> QED  BY <1>3, <3>1, <3>2, <3>3
  <2>2. ASSUME NEW everything \in BOOLEAN, Deck!Uninstall(everything)
        PROVE  Deck!AppliesToEnabled'
    <3>1. x11' = x11 /\ x1' = [x1 EXCEPT !.exists = x1.exists /\ ~everything]
      BY <2>2 DEF Deck!Uninstall
    <3>2. x6'.op = x6.op
      BY <1>k, <2>2 DEF Deck!Uninstall, Deck!Go, DeckHolder
    <3>3. x1'.enabled = x1.enabled
      BY <1>k, <3>1 DEF DeckRecord
    <3> QED  BY <1>3, <3>1, <3>2, <3>3
  <2> QED  BY <1>6, <2>1, <2>2
<1>7. CASE Deck!Answer
  <2>1. x11' = x11 /\ x6' = Deck!Free /\ x1'.enabled = x1.enabled
    BY <1>7, <1>k DEF Deck!Answer, DeckRecord
  <2> QED  BY <1>f, <2>1
<1>8. CASE Deck!AutoRepair
  <2>1. x11' = x11 /\ x1' = x1 /\ (x6' = x6 \/ x6' = [op |-> "auto", pc |-> "stop"])
    BY <1>8 DEF Deck!AutoRepair
  <2> QED  BY <2>1
<1>9. CASE Deck!ApplyLooks
  BY <1>9, <1>k DEF Deck!ApplyLooks
<1>10. CASE Deck!ApplySyncs \/ (\E late, torn \in BOOLEAN : Deck!RestartDrone(late, torn))
  <2>1. x11' = FALSE
    BY <1>10 DEF Deck!ApplySyncs, Deck!RestartDrone
  <2> QED  BY <2>1
<1>11. CASE UNCHANGED Deck!deckVars
  BY <1>11 DEF Deck!deckVars
<1> QED
  BY <1>1, <1>2, <1>4, <1>5, <1>6, <1>7, <1>8, <1>9, <1>10, <1>11 DEF Deck!DeckNext

LEMMA DeckStep ==
  ASSUME Deck!DeckInv, [Deck!DeckNext]_Deck!deckVars
  PROVE  Deck!DeckInv'
<1>1. DeckCore /\ Deck!AppliesToEnabled
  BY DeckParts
<1>2. DeckCore' /\ Deck!AppliesToEnabled'
  BY <1>1, DeckCoreStep, AppliesStep
<1> QED  BY <1>2 DEF Deck!DeckInv, DeckCore

-----------------------------------------------------------------------------
(* A key: its presses, and the launches that actions make.                 *)

LEMMA KeySteps == [Next]_vars /\ focus = "keys" => [Deck!KeyNext]_Deck!keyVars
  BY DEF Next, vars, Deck!keyVars

LEMMA KeyStarts == Init /\ focus = "keys" => Deck!KeyInit
  BY DEF Init

KeyTimers == Len(x4) \in Nat /\ x4 = [n \in 1..Len(x4) |-> [state |-> x4[n].state, seen |-> x4[n].seen]]
KeySlot == /\ x2 = [id |-> x2.id, profile |-> x2.profile, down |-> x2.down, hold |-> x2.hold, triggered |-> x2.triggered,
                    leaving |-> x2.leaving]
           /\ x2.id \in Int /\ x2.hold \in BOOLEAN /\ x2.leaving \in BOOLEAN
SlotLives == (x2.hold => x2.id > 0 \/ x2.leaving) /\ (x2.id > 0 => ~x2.leaving)
KeyPresses ==
  /\ x1 = [loaded |-> x1.loaded, compiled |-> x1.compiled] /\ KeySlot
  /\ x3 = [pc |-> x3.pc, action |-> x3.action] /\ x3.pc \in {"idle", "pressed"}
  /\ KeyTimers /\ x2.down \in 0..Len(x4) /\ Deck!PressesAreSeen
KeyGames ==
  /\ x7 \in [running : SUBSET Program, starting : SUBSET Program]
  /\ x8 \in [Launcher -> [pc : {"idle", "look", "exit", "launch", "confirm"}, game : Program \cup {NoProgram}]]
  /\ Deck!OneLaunch /\ Deck!OneEmulator
KeyLeft == /\ x9 \in [{"presses", "switches", "unplugs", "launches", "race", "late"} -> Nat]
           /\ x9["race"] = 0 /\ x9["late"] = 0

LEMMA KeyParts == Deck!KeyInv <=> KeyPresses /\ Deck!HeldIsMeant /\ KeyGames /\ KeyLeft
  BY DEF Deck!KeyInv, Deck!KeyTypes, KeyPresses, KeySlot, KeyTimers, KeyGames, KeyLeft

LEMMA KeyPartsAfter == KeyPresses' /\ Deck!HeldIsMeant' /\ KeyGames' /\ KeyLeft' => Deck!KeyInv'
  BY DEF Deck!KeyInv, Deck!KeyTypes, KeyPresses, KeySlot, KeyTimers, KeyGames, KeyLeft

\* The length of a sequence that is given as a function.
LEMMA LengthOf == \A f : \A k \in Nat : f = [n \in 1..k |-> f[n]] => Len(f) = k
<1> SUFFICES ASSUME NEW f, NEW k \in Nat, f = [n \in 1..k |-> f[n]] PROVE Len(f) = k
  OBVIOUS
<1> DEFINE S == {f[n] : n \in 1..k}
<1>1. f \in [1..k -> S]
  OBVIOUS
<1>2. f \in Seq(S)
  BY <1>1, SeqDef
<1>3. Len(f) \in Nat /\ DOMAIN f = 1..Len(f)
  BY <1>2, LenProperties
<1>4. 1..Len(f) = 1..k
  BY <1>1, <1>3
<1> QED
  BY <1>3, <1>4

\* Timers change, and their number does not.
LEMMA TimersStay ==
  ASSUME KeyTimers, DOMAIN x4' = DOMAIN x4,
         \A n \in DOMAIN x4 : x4'[n] = [state |-> x4'[n].state, seen |-> x4[n].seen],
         x4' = [n \in DOMAIN x4 |-> x4'[n]]
  PROVE  KeyTimers' /\ Len(x4') = Len(x4) /\ \A n \in 1..Len(x4) : x4'[n].seen = x4[n].seen
<1>1. Len(x4) \in Nat /\ DOMAIN x4 = 1..Len(x4)
  BY DEF KeyTimers
<1>2. Len(x4') = Len(x4)
  BY <1>1, LengthOf
<1>3. \A n \in 1..Len(x4) : x4'[n].seen = x4[n].seen
  BY <1>1
<1>4. x4' = [n \in 1..Len(x4') |-> [state |-> x4'[n].state, seen |-> x4'[n].seen]]
  BY <1>1, <1>2, <1>3
<1> QED
  BY <1>1, <1>2, <1>3, <1>4 DEF KeyTimers

LEMMA TimersCancel ==
  ASSUME KeyTimers, x4' = Deck!Cancelled \/ x4' = x4
  PROVE  KeyTimers' /\ Len(x4') = Len(x4) /\ \A n \in 1..Len(x4) : x4'[n].seen = x4[n].seen
<1>1. CASE x4' = x4
  BY <1>1 DEF KeyTimers
<1>2. CASE x4' = Deck!Cancelled
  <2>1. \A n \in DOMAIN x4 : x4[n] = [state |-> x4[n].state, seen |-> x4[n].seen]
    BY DEF KeyTimers
  <2>2. DOMAIN x4' = DOMAIN x4 /\ x4' = [n \in DOMAIN x4 |-> x4'[n]]
    BY <1>2 DEF Deck!Cancelled
  <2>3. ASSUME NEW n \in DOMAIN x4 PROVE x4'[n] = [state |-> x4'[n].state, seen |-> x4[n].seen]
    <3>1. x4'[n] = x4[n] \/ x4'[n] = [x4[n] EXCEPT !.state = "cancelled"]
      BY <1>2 DEF Deck!Cancelled
    <3>2. CASE x4'[n] = x4[n]
      BY <2>1, <3>2
    <3>3. CASE x4'[n] = [x4[n] EXCEPT !.state = "cancelled"]
      BY <2>1, <3>3
    <3> QED
      BY <3>1, <3>2, <3>3
  <2> QED
    BY <2>2, <2>3, TimersStay
<1> QED
  BY <1>1, <1>2

LEMMA TimersMove ==
  ASSUME KeyTimers, NEW n \in DOMAIN x4, NEW state, x4' = [x4 EXCEPT ![n].state = state]
  PROVE  KeyTimers' /\ Len(x4') = Len(x4) /\ \A m \in 1..Len(x4) : x4'[m].seen = x4[m].seen
<1>1. \A m \in DOMAIN x4 : x4[m] = [state |-> x4[m].state, seen |-> x4[m].seen]
  BY DEF KeyTimers
<1>2. DOMAIN x4' = DOMAIN x4 /\ x4' = [m \in DOMAIN x4 |-> x4'[m]]
  BY DEF KeyTimers
<1>3. ASSUME NEW m \in DOMAIN x4 PROVE x4'[m] = [state |-> x4'[m].state, seen |-> x4[m].seen]
  <2>1. CASE m # n
    <3>1. x4'[m] = x4[m]
      BY <2>1 DEF KeyTimers
    <3> QED
      BY <1>1, <3>1
  <2>2. CASE m = n
    <3>1. x4'[m] = [x4[m] EXCEPT !.state = state]
      BY <2>2 DEF KeyTimers
    <3> QED
      BY <1>1, <3>1
  <2> QED
    BY <2>1, <2>2
<1> QED
  BY <1>2, <1>3, TimersStay

LEMMA TimersGrow ==
  ASSUME KeyTimers, NEW button, x4' = Append(x4, [state |-> "none", seen |-> button])
  PROVE  KeyTimers' /\ Len(x4') = Len(x4) + 1 /\ x4'[Len(x4) + 1].seen = button
<1> DEFINE new == [state |-> "none", seen |-> button]
           S == {x4[n] : n \in 1..Len(x4)} \cup {new}
<1>1. Len(x4) \in Nat /\ DOMAIN x4 = 1..Len(x4) /\ x4 = [n \in 1..Len(x4) |-> x4[n]]
  BY DEF KeyTimers
<1>2. x4 \in Seq(S)
  BY <1>1, SeqDef
<1>3. /\ Len(x4') = Len(x4) + 1 /\ x4'[Len(x4) + 1] = new /\ x4' \in Seq(S)
      /\ \A n \in 1..Len(x4) : x4'[n] = x4[n]
  BY <1>2, AppendProperties
<1>4. x4' = [n \in 1..Len(x4') |-> x4'[n]]
  BY <1>3, LenProperties
<1>5. \A n \in 1..Len(x4') : x4'[n] = [state |-> x4'[n].state, seen |-> x4'[n].seen]
  <2> SUFFICES ASSUME NEW n \in 1..Len(x4') PROVE x4'[n] = [state |-> x4'[n].state, seen |-> x4'[n].seen]
    OBVIOUS
  <2>1. CASE n = Len(x4) + 1
    BY <1>3, <2>1
  <2>2. CASE n \in 1..Len(x4)
    BY <1>3, <2>2 DEF KeyTimers
  <2> QED
    BY <1>1, <1>3, <2>1, <2>2
<1>6. x4' = [n \in 1..Len(x4') |-> [state |-> x4'[n].state, seen |-> x4'[n].seen]]
  BY <1>4, <1>5
<1> QED
  BY <1>1, <1>3, <1>6 DEF KeyTimers

LEMMA KeysBegin ==
  Deck!KeyInit /\ (\A b \in KeyBounds : b.race = 0 /\ b.late = 0) => Deck!KeyInv
<1> SUFFICES ASSUME Deck!KeyInit, \A b \in KeyBounds : b.race = 0 /\ b.late = 0 PROVE Deck!KeyInv
  OBVIOUS
<1>1. KeyLeft
  BY KeyAssumption DEF Deck!KeyInit, KeyLeft
<1>2. x4 = <<>> /\ Len(x4) = 0 /\ x4 = [n \in 1..0 |-> [state |-> x4[n].state, seen |-> x4[n].seen]]
  BY DEF Deck!KeyInit
<1>3. KeySlot /\ x2.down = 0 /\ ~x2.hold /\ ~x2.leaving
  BY DEF Deck!KeyInit, Deck!NewSlot, KeySlot
<1>4. x3 = [pc |-> x3.pc, action |-> x3.action] /\ x3.pc = "idle"
  BY DEF Deck!KeyInit, Deck!NotReading
<1>5. x1 = [loaded |-> x1.loaded, compiled |-> x1.compiled]
  BY DEF Deck!KeyInit
<1>6. KeyPresses
  BY <1>2, <1>3, <1>4, <1>5 DEF KeyPresses, KeyTimers, Deck!PressesAreSeen
<1>7. Deck!HeldIsMeant
  BY DEF Deck!KeyInit, Deck!HeldIsMeant
<1>8. x7 = [running |-> {}, starting |-> {}] /\ \A p \in Launcher : x8[p].pc = "idle"
  BY DEF Deck!KeyInit, Deck!NotLaunching
<1>9. x8 \in [Launcher -> [pc : {"idle", "look", "exit", "launch", "confirm"}, game : Program \cup {NoProgram}]]
  BY DEF Deck!KeyInit, Deck!NotLaunching
<1>10. KeyGames
  BY <1>8, <1>9 DEF KeyGames, Deck!OneLaunch, Deck!OneEmulator
<1> QED
  BY <1>1, <1>6, <1>7, <1>10, KeyParts

LEMMA KeySpends ==
  ASSUME KeyLeft, NEW what, Deck!Spend(what)
  PROVE  KeyLeft' /\ "race" \notin what /\ "late" \notin what
<1>1. "race" \notin what /\ "late" \notin what
  BY DEF KeyLeft, Deck!Spend
<1>2. DOMAIN x9 = {"presses", "switches", "unplugs", "launches", "race", "late"}
  BY DEF KeyLeft
<1>3. ASSUME NEW w \in DOMAIN x9 PROVE x9[w] - (IF w \in what THEN 1 ELSE 0) \in Nat
  <2>1. x9[w] \in Nat
    BY <1>2 DEF KeyLeft
  <2>2. CASE w \in what
    BY <2>1, <2>2 DEF Deck!Spend
  <2>3. CASE w \notin what
    BY <2>1, <2>3
  <2> QED
    BY <2>2, <2>3
<1>4. x9' = [w \in DOMAIN x9 |-> x9[w] - (IF w \in what THEN 1 ELSE 0)]
  BY DEF Deck!Spend
<1>5. x9'["race"] = 0 /\ x9'["late"] = 0
  BY <1>1, <1>2, <1>4 DEF KeyLeft
<1> QED
  BY <1>1, <1>2, <1>3, <1>4, <1>5 DEF KeyLeft

\* Nothing is loaded or switched between the sections of on_key, or of detach.
LEMMA NotBetween ==
  ASSUME KeyPresses, KeyLeft, NEW what, Deck!Spend(what), Deck!Race \subseteq what
  PROVE  KeyLeft' /\ x3.pc = "idle" /\ ~x2.leaving
<1>1. KeyLeft' /\ "race" \notin what
  BY KeySpends
<1>2. x3.pc \in {"idle", "pressed"}
  BY DEF KeyPresses
<1> QED
  BY <1>1, <1>2 DEF Deck!Race

\* The invariant of the presses after a step, from its parts.
LEMMA PressesKeep ==
  ASSUME x1' = [loaded |-> x1'.loaded, compiled |-> x1'.compiled], KeySlot',
         x3' = [pc |-> x3'.pc, action |-> x3'.action], x3'.pc \in {"idle", "pressed"},
         KeyTimers', x2'.down \in 0..Len(x4'),
         x3'.pc = "pressed" => /\ x2'.id > 0 /\ x2'.down = Len(x4') /\ Len(x4') > 0 /\ x3'.action = Deck!Button'
                               /\ x4'[Len(x4')].seen = Deck!Button',
         x2'.hold => x2'.down # 0 /\ x4'[x2'.down].seen = Deck!Button', SlotLives'
  PROVE  KeyPresses'
  BY DEF KeyPresses, SlotLives, Deck!PressesAreSeen, Deck!Attached, Deck!Press

LEMMA PressFacts ==
  ASSUME KeyPresses
  PROVE  /\ x1 = [loaded |-> x1.loaded, compiled |-> x1.compiled] /\ KeySlot /\ x2.id \in Int
         /\ x3 = [pc |-> x3.pc, action |-> x3.action] /\ x3.pc \in {"idle", "pressed"}
         /\ KeyTimers /\ Len(x4) \in Nat /\ DOMAIN x4 = 1..Len(x4) /\ x2.down \in 0..Len(x4)
         /\ x3.pc = "pressed" => /\ x2.id > 0 /\ x2.down = Len(x4) /\ Len(x4) > 0 /\ x3.action = Deck!Button
                                 /\ x4[Len(x4)].seen = Deck!Button
         /\ x2.hold => x2.down # 0 /\ x4[x2.down].seen = Deck!Button
         /\ SlotLives
  BY DEF KeyPresses, SlotLives, KeySlot, KeyTimers, Deck!PressesAreSeen, Deck!Attached, Deck!Press

LEMMA ButtonStays ==
  ASSUME x1' = x1, x2'.profile = x2.profile
  PROVE  Deck!Button' = Deck!Button
  BY DEF Deck!Button

\* An action that is started is of the press that holds the key.
LEMMA KeyTriggers ==
  ASSUME KeyPresses, Deck!HeldIsMeant, NEW action, Deck!Trigger(action),
         action \in Dangerous => x4[x2.down].state = "fired" /\ x4[x2.down].seen = action
  PROVE  /\ KeySlot' /\ x2'.id = x2.id /\ x2'.profile = x2.profile /\ x2'.down = x2.down /\ ~x2'.hold
         /\ Deck!HeldIsMeant' /\ SlotLives'
<1> DEFINE one == [action |-> action, seen |-> x4[x2.down].seen, held |-> x4[x2.down].state = "fired"]
<1>1. \/ x2' = [x2 EXCEPT !.hold = FALSE] /\ x6' = x6
      \/ x2' = [x2 EXCEPT !.hold = FALSE, !.triggered = TRUE] /\ x6' = x6 \cup {one}
  BY DEF Deck!Trigger
<1>2. KeySlot' /\ x2'.id = x2.id /\ x2'.profile = x2.profile /\ x2'.down = x2.down /\ ~x2'.hold /\ SlotLives'
  <2>1. CASE x2' = [x2 EXCEPT !.hold = FALSE]
    BY <2>1, PressFacts DEF KeySlot, SlotLives
  <2>2. CASE x2' = [x2 EXCEPT !.hold = FALSE, !.triggered = TRUE]
    BY <2>2, PressFacts DEF KeySlot, SlotLives
  <2> QED
    BY <1>1, <2>1, <2>2
<1>3. Deck!HeldIsMeant'
  <2>1. SUFFICES ASSUME NEW r \in x6', r.action \in Dangerous PROVE r.held /\ r.action = r.seen
    BY DEF Deck!HeldIsMeant
  <2>2. CASE r \in x6
    BY <2>1, <2>2 DEF Deck!HeldIsMeant
  <2>3. CASE r = one
    BY <2>1, <2>3
  <2> QED
    BY <1>1, <2>2, <2>3
<1> QED
  BY <1>2, <1>3

LEMMA GamesStay ==
  ASSUME KeyGames, UNCHANGED <<x7, x8>>
  PROVE  KeyGames'
  BY DEF KeyGames, Deck!OneLaunch, Deck!OneEmulator

LEMMA PressesStay ==
  ASSUME KeyPresses, Deck!HeldIsMeant, UNCHANGED <<x1, x2, x3, x4, x6>>
  PROVE  KeyPresses' /\ Deck!HeldIsMeant'
<1>1. Deck!HeldIsMeant'
  BY DEF Deck!HeldIsMeant
<1>2. Deck!Button' = Deck!Button
  BY ButtonStays
<1> QED
  BY <1>1, <1>2, PressFacts, PressesKeep DEF KeySlot, KeyTimers, SlotLives

LEMMA PressStep ==
  ASSUME KeyPresses, Deck!HeldIsMeant, KeyLeft, UNCHANGED <<x7, x8>>,
         \/ Deck!KeyDown \/ Deck!ArmHold \/ Deck!ActAtOnce \/ Deck!KeyUp \/ Deck!Compile \/ Deck!LoadDocument
         \/ Deck!Detach \/ Deck!CancelHolds \/ Deck!Attach
         \/ (\E n \in DOMAIN x4 : Deck!HoldFires(n) \/ Deck!HoldElapsed(n))
         \/ (\E n \in 1..2 : Deck!SwitchProfile(n)) \/ (\E a \in x5 : Deck!ActionEnds(a))
  PROVE  KeyPresses' /\ Deck!HeldIsMeant' /\ KeyLeft'
<1>s. x9' = x9 => KeyLeft'
  BY DEF KeyLeft
<1>h. x6' = x6 => Deck!HeldIsMeant'
  BY DEF Deck!HeldIsMeant
<1>1. CASE Deck!KeyDown
  <2>1. /\ x2.id > 0 /\ x3.pc = "idle" /\ x2.down = 0 /\ x1' = x1 /\ x6' = x6 /\ Deck!Spend({"presses"})
        /\ x4' = Append(x4, [state |-> "none", seen |-> Deck!Button])
        /\ x2' = [x2 EXCEPT !.down = Len(x4) + 1]
        /\ x3' = x3 \/ x3' = [pc |-> "pressed", action |-> Deck!Button]
    BY <1>1 DEF Deck!KeyDown, Deck!Attached, Deck!Press
  <2>2. KeyTimers' /\ Len(x4') = Len(x4) + 1 /\ x4'[Len(x4) + 1].seen = Deck!Button
    BY <2>1, TimersGrow, PressFacts
  <2>3. /\ KeySlot' /\ x2'.id = x2.id /\ x2'.profile = x2.profile /\ x2'.down = Len(x4) + 1 /\ x2'.hold = x2.hold
        /\ SlotLives'
    BY <2>1, PressFacts DEF KeySlot, SlotLives
  <2>4. ~x2'.hold
    BY <2>1, <2>3, PressFacts
  <2>5. Deck!Button' = Deck!Button
    BY <2>1, <2>3, ButtonStays
  <2>6. /\ x3' = [pc |-> x3'.pc, action |-> x3'.action] /\ x3'.pc \in {"idle", "pressed"}
        /\ x3'.pc = "pressed" => x3'.action = Deck!Button
    <3>1. CASE x3' = x3
      BY <2>1, <3>1, PressFacts
    <3>2. CASE x3' = [pc |-> "pressed", action |-> Deck!Button]
      BY <3>2
    <3> QED
      BY <2>1, <3>1, <3>2
  <2>7. KeyPresses'
    BY <2>1, <2>2, <2>3, <2>4, <2>5, <2>6, PressFacts, PressesKeep
  <2> QED
    BY <1>h, <2>1, <2>7, KeySpends
<1>2. CASE Deck!ArmHold
  <2>1. /\ x3.pc = "pressed" /\ x3' = [pc |-> "idle", action |-> "none"] /\ x2' = [x2 EXCEPT !.hold = TRUE]
        /\ x4' = [x4 EXCEPT ![Len(x4)].state = "waits"] /\ UNCHANGED <<x1, x6, x9>>
    BY <1>2 DEF Deck!ArmHold, Deck!Press, Deck!NotReading
  <2>2. x2.down = Len(x4) /\ Len(x4) > 0 /\ x4[Len(x4)].seen = Deck!Button /\ Len(x4) \in DOMAIN x4
    BY <2>1, PressFacts
  <2>3. KeyTimers' /\ Len(x4') = Len(x4) /\ x4'[Len(x4)].seen = Deck!Button
    BY <2>1, <2>2, TimersMove, PressFacts
  <2>4. KeySlot' /\ x2'.id = x2.id /\ x2'.profile = x2.profile /\ x2'.down = x2.down /\ SlotLives'
    BY <2>1, PressFacts DEF KeySlot, SlotLives
  <2>5. Deck!Button' = Deck!Button
    BY <2>1, <2>4, ButtonStays
  <2>6. x3' = [pc |-> x3'.pc, action |-> x3'.action] /\ x3'.pc = "idle"
    BY <2>1
  <2> QED
    BY <1>s, <1>h, <2>1, <2>2, <2>3, <2>4, <2>5, <2>6, PressFacts, PressesKeep
<1>3. CASE Deck!ActAtOnce
  <2>1. /\ x3.action \notin Dangerous /\ x3' = [pc |-> "idle", action |-> "none"] /\ Deck!Trigger(x3.action)
        /\ UNCHANGED <<x1, x4, x9>>
    BY <1>3 DEF Deck!ActAtOnce, Deck!NotReading
  <2>2. KeySlot' /\ x2'.down = x2.down /\ ~x2'.hold /\ Deck!HeldIsMeant' /\ SlotLives'
    BY <2>1, KeyTriggers
  <2>3. x3' = [pc |-> x3'.pc, action |-> x3'.action] /\ x3'.pc = "idle"
    BY <2>1
  <2>4. KeyTimers'
    BY <2>1, PressFacts DEF KeyTimers
  <2> QED
    BY <1>s, <2>1, <2>2, <2>3, <2>4, PressFacts, PressesKeep
<1>4. CASE Deck!KeyUp
  <2>1. /\ x3.pc = "idle" /\ x2' = [x2 EXCEPT !.down = 0, !.hold = FALSE] /\ UNCHANGED <<x1, x3, x6, x9>>
        /\ (x4' = Deck!Cancelled \/ x4' = x4)
    BY <1>4 DEF Deck!KeyUp
  <2>2. KeySlot' /\ x2'.down = 0 /\ ~x2'.hold /\ SlotLives'
    BY <2>1, PressFacts DEF KeySlot, SlotLives
  <2>3. KeyTimers' /\ Len(x4') = Len(x4)
    BY <2>1, TimersCancel, PressFacts
  <2> QED
    BY <1>s, <1>h, <2>1, <2>2, <2>3, PressFacts, PressesKeep
<1>5. CASE Deck!Compile
  <2>1. x1' = [x1 EXCEPT !.compiled = @ + 1] /\ UNCHANGED <<x2, x3, x4, x6, x9>>
    BY <1>5 DEF Deck!Compile
  <2>2. x1' = [loaded |-> x1'.loaded, compiled |-> x1'.compiled] /\ x1'.loaded = x1.loaded
    BY <2>1, PressFacts
  <2>3. Deck!Button' = Deck!Button
    BY <2>1, <2>2 DEF Deck!Button
  <2> QED
    BY <1>s, <1>h, <2>1, <2>2, <2>3, PressFacts, PressesKeep DEF KeySlot, KeyTimers, SlotLives
<1>6. CASE Deck!LoadDocument
  <2>1. /\ Deck!Spend(Deck!Race) /\ UNCHANGED <<x3, x6>> /\ x1' = [x1 EXCEPT !.loaded = x1.compiled]
        /\ \/ ~(x2.id > 0) /\ UNCHANGED <<x2, x4>>
           \/ x4' = Deck!Cancelled /\ \E profile : x2' = [x2 EXCEPT !.hold = FALSE, !.profile = profile]
    BY <1>6 DEF Deck!LoadDocument, Deck!Attached
  <2>2. KeyLeft' /\ x3.pc = "idle" /\ ~x2.leaving
    BY <2>1, NotBetween
  <2>3. x1' = [loaded |-> x1'.loaded, compiled |-> x1'.compiled]
    BY <2>1, PressFacts
  <2>4. KeySlot' /\ x2'.down = x2.down /\ ~x2'.hold /\ SlotLives'
    <3>1. CASE ~(x2.id > 0) /\ x2' = x2
      BY <2>2, <3>1, PressFacts DEF KeySlot, SlotLives
    <3>2. CASE \E profile : x2' = [x2 EXCEPT !.hold = FALSE, !.profile = profile]
      BY <3>2, PressFacts DEF KeySlot, SlotLives
    <3> QED
      BY <2>1, <3>1, <3>2
  <2>5. KeyTimers' /\ Len(x4') = Len(x4)
    BY <2>1, TimersCancel, PressFacts
  <2> QED
    BY <1>h, <2>1, <2>2, <2>3, <2>4, <2>5, PressFacts, PressesKeep
<1>7. CASE Deck!Detach
  <2>1. /\ Deck!Spend(Deck!Race \cup {"unplugs"}) /\ UNCHANGED <<x1, x3, x4, x6>> /\ x2.id > 0
        /\ x2' = [x2 EXCEPT !.id = 0 - x2.id, !.leaving = TRUE]
    BY <1>7 DEF Deck!Detach, Deck!Attached
  <2>2. KeyLeft' /\ x3.pc = "idle"
    BY <2>1, NotBetween
  <2>3. x2.id \in Int /\ 0 - x2.id \in Int /\ ~(0 - x2.id > 0)
    BY <2>1, PressFacts
  <2>4. KeySlot' /\ x2'.down = x2.down /\ x2'.profile = x2.profile /\ x2'.hold = x2.hold /\ SlotLives'
    BY <2>1, <2>3, PressFacts DEF KeySlot, SlotLives
  <2>5. Deck!Button' = Deck!Button /\ KeyTimers'
    BY <2>1, <2>4, ButtonStays, PressFacts DEF KeyTimers
  <2> QED
    BY <1>h, <2>1, <2>2, <2>4, <2>5, PressFacts, PressesKeep
<1>8. CASE Deck!CancelHolds
  <2>1. /\ x2.leaving /\ UNCHANGED <<x1, x3, x6, x9>> /\ x4' = Deck!Cancelled
        /\ x2' = [x2 EXCEPT !.hold = FALSE, !.leaving = FALSE]
    BY <1>8 DEF Deck!CancelHolds
  <2>2. KeySlot' /\ x2'.down = x2.down /\ ~x2'.hold /\ SlotLives'
    BY <2>1, PressFacts DEF KeySlot, SlotLives
  <2>3. x3.pc = "idle"
    BY <2>1, PressFacts DEF SlotLives
  <2>4. KeyTimers' /\ Len(x4') = Len(x4)
    BY <2>1, TimersCancel, PressFacts
  <2> QED
    BY <1>s, <1>h, <2>1, <2>2, <2>3, <2>4, PressFacts, PressesKeep
<1>12. CASE Deck!Attach
  <2>1. ~(x2.id > 0) /\ x2' = Deck!NewSlot(1 - x2.id) /\ UNCHANGED <<x1, x3, x4, x6, x9>>
    BY <1>12 DEF Deck!Attach, Deck!Attached
  <2>2. KeySlot' /\ x2'.down = 0 /\ ~x2'.hold /\ SlotLives'
    BY <2>1, PressFacts DEF KeySlot, Deck!NewSlot, SlotLives
  <2>3. x3.pc = "idle" /\ KeyTimers'
    BY <2>1, PressFacts DEF KeyTimers
  <2> QED
    BY <1>s, <1>h, <2>1, <2>2, <2>3, PressFacts, PressesKeep
<1>9. ASSUME NEW n \in DOMAIN x4, Deck!HoldFires(n) \/ Deck!HoldElapsed(n)
      PROVE  KeyPresses' /\ Deck!HeldIsMeant' /\ KeyLeft'
  <2>1. /\ UNCHANGED <<x1, x3, x9>>
        /\ x4' = [x4 EXCEPT ![n].state = "fired"] \/ x4' = [x4 EXCEPT ![n].state = "over"]
        /\ \/ x2' = x2 /\ x6' = x6
           \/ x4[n].state = "fired" /\ x2.down = n /\ x2.hold /\ Deck!Trigger(Deck!Button)
    BY <1>9 DEF Deck!HoldFires, Deck!HoldElapsed, Deck!StillHeld
  <2>2. KeyTimers' /\ Len(x4') = Len(x4) /\ \A m \in 1..Len(x4) : x4'[m].seen = x4[m].seen
    <3>1. KeyTimers
      BY PressFacts
    <3> QED
      BY <2>1, <3>1, TimersMove
  <2>3. /\ KeySlot' /\ x2'.id = x2.id /\ x2'.profile = x2.profile /\ x2'.down = x2.down /\ (x2'.hold => x2.hold)
        /\ Deck!HeldIsMeant' /\ SlotLives'
    <3>1. CASE x2' = x2 /\ x6' = x6
      BY <1>h, <3>1, PressFacts DEF KeySlot, SlotLives
    <3>2. CASE x4[n].state = "fired" /\ x2.down = n /\ x2.hold /\ Deck!Trigger(Deck!Button)
      <4>1. x4[x2.down].state = "fired" /\ x4[x2.down].seen = Deck!Button
        BY <3>2, PressFacts
      <4> QED
        BY <3>2, <4>1, KeyTriggers
    <3> QED
      BY <2>1, <3>1, <3>2
  <2>4. Deck!Button' = Deck!Button
    BY <2>1, <2>3, ButtonStays
  <2>5. x2'.hold => x2'.down # 0 /\ x4'[x2'.down].seen = Deck!Button'
    BY <2>2, <2>3, <2>4, PressFacts
  <2>6. x3'.pc = "pressed" => /\ x2'.id > 0 /\ x2'.down = Len(x4') /\ Len(x4') > 0 /\ x3'.action = Deck!Button'
                              /\ x4'[Len(x4')].seen = Deck!Button'
    BY <2>1, <2>2, <2>3, <2>4, PressFacts
  <2> QED
    BY <1>s, <2>1, <2>2, <2>3, <2>5, <2>6, PressFacts, PressesKeep
<1>10. ASSUME NEW n \in 1..2, Deck!SwitchProfile(n)
       PROVE  KeyPresses' /\ Deck!HeldIsMeant' /\ KeyLeft'
  <2>1. /\ Deck!Spend(Deck!Race \cup {"switches"}) /\ UNCHANGED <<x1, x3, x6>> /\ x4' = Deck!Cancelled
        /\ x2' = [x2 EXCEPT !.profile = n, !.hold = FALSE]
    BY <1>10 DEF Deck!SwitchProfile
  <2>2. KeyLeft' /\ x3.pc = "idle"
    BY <2>1, NotBetween
  <2>3. KeySlot' /\ x2'.down = x2.down /\ ~x2'.hold /\ SlotLives'
    BY <2>1, PressFacts DEF KeySlot, SlotLives
  <2>4. KeyTimers' /\ Len(x4') = Len(x4)
    BY <2>1, TimersCancel, PressFacts
  <2> QED
    BY <1>h, <2>1, <2>2, <2>3, <2>4, PressFacts, PressesKeep
<1>11. ASSUME NEW a \in x5, Deck!ActionEnds(a) PROVE KeyPresses' /\ Deck!HeldIsMeant' /\ KeyLeft'
  BY <1>s, <1>11, PressesStay DEF Deck!ActionEnds
<1> QED
  BY <1>1, <1>2, <1>3, <1>4, <1>5, <1>6, <1>7, <1>8, <1>9, <1>10, <1>11, <1>12

-----------------------------------------------------------------------------
(* Launches: one is on its way at a time.                                  *)

LEMMA GameFacts ==
  ASSUME KeyGames
  PROVE  /\ x7 \in [running : SUBSET Program, starting : SUBSET Program]
         /\ x8 \in [Launcher -> [pc : {"idle", "look", "exit", "launch", "confirm"}, game : Program \cup {NoProgram}]]
         /\ \A p, q \in Launcher : p # q => x8[p].pc = "idle" \/ x8[q].pc = "idle"
         /\ \A p \in Launcher :
              /\ x8[p].pc = "launch" => x7.running = {}
              /\ x8[p].pc = "confirm" => x7.running \cup x7.starting \subseteq {x8[p].game}
              /\ x8[p].pc # "idle" => x8[p].game \in Program
         /\ x7.starting # {} => \E p \in Launcher : x8[p].pc = "confirm"
         /\ x7.running \cap x7.starting = {}
         /\ \A g, h \in x7.running : g = h
  BY DEF KeyGames, Deck!OneLaunch, Deck!OneEmulator

LEMMA GamesKeep ==
  ASSUME x7' \in [running : SUBSET Program, starting : SUBSET Program],
         x8' \in [Launcher -> [pc : {"idle", "look", "exit", "launch", "confirm"}, game : Program \cup {NoProgram}]],
         \A p, q \in Launcher : p # q => x8'[p].pc = "idle" \/ x8'[q].pc = "idle",
         \A p \in Launcher :
              /\ x8'[p].pc = "launch" => x7'.running = {}
              /\ x8'[p].pc = "confirm" => x7'.running \cup x7'.starting \subseteq {x8'[p].game}
              /\ x8'[p].pc # "idle" => x8'[p].game \in Program,
         x7'.starting # {} => \E p \in Launcher : x8'[p].pc = "confirm",
         x7'.running \cap x7'.starting = {}, \A g, h \in x7'.running : g = h
  PROVE  KeyGames'
  BY DEF KeyGames, Deck!OneLaunch, Deck!OneEmulator

LEMMA LaunchSteps ==
  ASSUME KeyGames, NEW p \in Launcher, NEW pc \in {"idle", "look", "exit", "launch", "confirm"}, Deck!Step(p, pc)
  PROVE  /\ x8' \in [Launcher -> [pc : {"idle", "look", "exit", "launch", "confirm"}, game : Program \cup {NoProgram}]]
         /\ x8'[p].pc = pc /\ (pc # "idle" => x8'[p].game = x8[p].game)
         /\ \A q \in Launcher \ {p} : x8'[q] = x8[q]
<1> DEFINE One == [pc : {"idle", "look", "exit", "launch", "confirm"}, game : Program \cup {NoProgram}]
           new == IF pc = "idle" THEN Deck!NotLaunching ELSE [x8[p] EXCEPT !.pc = pc]
<1>1. x8' = [x8 EXCEPT ![p] = new] /\ x8 \in [Launcher -> One]
  BY GameFacts DEF Deck!Step
<1>2. new \in One /\ new.pc = pc /\ (pc # "idle" => new.game = x8[p].game)
  <2>1. CASE pc = "idle"
    BY <2>1 DEF Deck!NotLaunching
  <2>2. CASE pc # "idle"
    <3>1. x8[p] \in One
      BY <1>1
    <3>2. new = [x8[p] EXCEPT !.pc = pc]
      BY <2>2
    <3> QED
      BY <3>1, <3>2
  <2> QED
    BY <2>1, <2>2
<1> HIDE DEF new
<1> QED
  BY <1>1, <1>2

\* What starts is confirmed by the one launch that is on its way.
LEMMA NobodyElseLaunches ==
  ASSUME KeyGames, NEW p \in Launcher, x8[p].pc # "idle"
  PROVE  /\ \A q \in Launcher \ {p} : x8[q].pc = "idle"
         /\ x8[p].pc # "confirm" => x7.starting = {}
  BY GameFacts

LEMMA GamesStep ==
  ASSUME KeyGames, KeyLeft,
         \/ \E p \in Launcher : \/ \E g \in Program : Deck!Launch(p, g)
                                \/ Deck!LookForGame(p) \/ Deck!WaitForExit(p) \/ Deck!LaunchGame(p) \/ Deck!ConfirmLaunch(p)
         \/ \E g \in Program : Deck!GameStarts(g) \/ Deck!GameExits(g)
  PROVE  KeyGames' /\ KeyLeft' /\ UNCHANGED <<x1, x2, x3, x4, x5, x6>>
<1>s. x9' = x9 => KeyLeft'
  BY DEF KeyLeft
<1>1. ASSUME NEW p \in Launcher, NEW g \in Program, Deck!Launch(p, g)
      PROVE  KeyGames' /\ KeyLeft' /\ UNCHANGED <<x1, x2, x3, x4, x5, x6>>
  <2>1. /\ x8[p].pc = "idle" /\ (\A q \in Launcher : x8[q].pc = "idle") /\ Deck!Spend({"launches"})
        /\ x8' = [x8 EXCEPT ![p] = [pc |-> "look", game |-> g]] /\ x7' = x7 /\ UNCHANGED <<x1, x2, x3, x4, x5, x6>>
    BY <1>1 DEF Deck!Launch, Deck!Rivals
  <2>2. /\ x8' \in [Launcher -> [pc : {"idle", "look", "exit", "launch", "confirm"}, game : Program \cup {NoProgram}]]
        /\ x8'[p].pc = "look" /\ x8'[p].game = g /\ \A q \in Launcher \ {p} : x8'[q] = x8[q]
    BY <2>1, GameFacts
  <2>3. x7.starting = {}
    BY <2>1, GameFacts
  <2>4. KeyGames'
    BY <2>1, <2>2, <2>3, GameFacts, GamesKeep
  <2> QED
    BY <2>1, <2>4, KeySpends
<1>2. ASSUME NEW p \in Launcher, Deck!LookForGame(p) \/ Deck!WaitForExit(p)
      PROVE  KeyGames' /\ KeyLeft' /\ UNCHANGED <<x1, x2, x3, x4, x5, x6>>
  <2>1. /\ x8[p].pc \in {"look", "exit"} /\ UNCHANGED <<x1, x2, x3, x4, x5, x6, x7, x9>>
        /\ \/ Deck!Step(p, "launch") /\ x7.running = {}
           \/ Deck!Step(p, "idle")
           \/ Deck!Step(p, "exit")
    <3>1. CASE Deck!LookForGame(p)
      BY <3>1 DEF Deck!LookForGame, Deck!restOfKeys, Deck!Step
    <3>2. CASE Deck!WaitForExit(p)
      BY <3>2 DEF Deck!WaitForExit, Deck!restOfKeys
    <3> QED
      BY <1>2, <3>1, <3>2
  <2>2. PICK pc \in {"launch", "idle", "exit"} : Deck!Step(p, pc) /\ (pc = "launch" => x7.running = {})
    BY <2>1
  <2>3. /\ x8' \in [Launcher -> [pc : {"idle", "look", "exit", "launch", "confirm"}, game : Program \cup {NoProgram}]]
        /\ x8'[p].pc = pc /\ (pc # "idle" => x8'[p].game = x8[p].game) /\ \A q \in Launcher \ {p} : x8'[q] = x8[q]
    BY <2>2, LaunchSteps
  <2>4. x7.starting = {} /\ \A q \in Launcher \ {p} : x8[q].pc = "idle"
    BY <2>1, NobodyElseLaunches
  <2>5. KeyGames'
    BY <2>1, <2>2, <2>3, <2>4, GameFacts, GamesKeep
  <2> QED
    BY <1>s, <2>1, <2>5
<1>3. ASSUME NEW p \in Launcher, Deck!LaunchGame(p)
      PROVE  KeyGames' /\ KeyLeft' /\ UNCHANGED <<x1, x2, x3, x4, x5, x6>>
  <2>1. /\ x8[p].pc = "launch" /\ UNCHANGED <<x1, x2, x3, x4, x5, x6, x9>>
        /\ \/ x7' = [x7 EXCEPT !.starting = @ \cup {x8[p].game}] /\ Deck!Step(p, "confirm")
           \/ Deck!Step(p, "idle") /\ x7' = x7
    BY <1>3 DEF Deck!LaunchGame, Deck!restOfKeys
  <2>2. /\ x7.starting = {} /\ x7.running = {} /\ x8[p].game \in Program
        /\ \A q \in Launcher \ {p} : x8[q].pc = "idle"
    BY <2>1, NobodyElseLaunches, GameFacts
  <2>3. CASE x7' = [x7 EXCEPT !.starting = @ \cup {x8[p].game}] /\ Deck!Step(p, "confirm")
    <3>1. /\ x8' \in [Launcher -> [pc : {"idle", "look", "exit", "launch", "confirm"}, game : Program \cup {NoProgram}]]
          /\ x8'[p].pc = "confirm" /\ x8'[p].game = x8[p].game /\ \A q \in Launcher \ {p} : x8'[q] = x8[q]
      BY <2>3, LaunchSteps
    <3>2. /\ x7' \in [running : SUBSET Program, starting : SUBSET Program]
          /\ x7'.running = {} /\ x7'.starting = {x8[p].game}
      BY <2>2, <2>3, GameFacts
    <3> QED
      BY <1>s, <2>1, <2>2, <3>1, <3>2, GameFacts, GamesKeep
  <2>4. CASE Deck!Step(p, "idle") /\ x7' = x7
    <3>1. /\ x8' \in [Launcher -> [pc : {"idle", "look", "exit", "launch", "confirm"}, game : Program \cup {NoProgram}]]
          /\ x8'[p].pc = "idle" /\ \A q \in Launcher \ {p} : x8'[q] = x8[q]
      BY <2>4, LaunchSteps
    <3> QED
      BY <1>s, <2>1, <2>2, <2>4, <3>1, GameFacts, GamesKeep
  <2> QED
    BY <2>1, <2>3, <2>4
<1>4. ASSUME NEW p \in Launcher, Deck!ConfirmLaunch(p)
      PROVE  KeyGames' /\ KeyLeft' /\ UNCHANGED <<x1, x2, x3, x4, x5, x6>>
  <2>1. /\ x8[p].pc = "confirm" /\ Deck!Step(p, "idle") /\ UNCHANGED <<x1, x2, x3, x4, x5, x6, x7>>
        /\ x8[p].game \notin x7.starting /\ x9' = x9
    <3>1. ~Deck!Spend({"late"})
      BY KeySpends
    <3> QED
      BY <1>4, <3>1, GameFacts DEF Deck!ConfirmLaunch, Deck!restOfKeys
  <2>2. x7.starting = {} /\ \A q \in Launcher \ {p} : x8[q].pc = "idle"
    BY <2>1, NobodyElseLaunches, GameFacts
  <2>3. /\ x8' \in [Launcher -> [pc : {"idle", "look", "exit", "launch", "confirm"}, game : Program \cup {NoProgram}]]
        /\ x8'[p].pc = "idle" /\ \A q \in Launcher \ {p} : x8'[q] = x8[q]
    BY <2>1, LaunchSteps
  <2> QED
    BY <1>s, <2>1, <2>2, <2>3, GameFacts, GamesKeep
<1>5. ASSUME NEW g \in Program, Deck!GameStarts(g)
      PROVE  KeyGames' /\ KeyLeft' /\ UNCHANGED <<x1, x2, x3, x4, x5, x6>>
  <2>1. /\ g \in x7.starting /\ x7' = [running |-> x7.running \cup {g}, starting |-> x7.starting \ {g}]
        /\ UNCHANGED <<x1, x2, x3, x4, x5, x6, x8, x9>>
    BY <1>5 DEF Deck!GameStarts, Deck!restOfKeys
  <2>2. PICK p \in Launcher : x8[p].pc = "confirm"
    BY <2>1, GameFacts
  <2>3. /\ x7.running \cup x7.starting \subseteq {x8[p].game}
        /\ \A q \in Launcher \ {p} : x8[q].pc = "idle"
    BY <2>2, GameFacts
  <2>4. /\ x7' \in [running : SUBSET Program, starting : SUBSET Program]
        /\ x7'.running \cup x7'.starting \subseteq {x8[p].game} /\ x7'.running \cap x7'.starting = {}
    BY <2>1, <2>3, GameFacts
  <2> QED
    BY <1>s, <2>1, <2>2, <2>3, <2>4, GameFacts, GamesKeep
<1>6. ASSUME NEW g \in Program, Deck!GameExits(g)
      PROVE  KeyGames' /\ KeyLeft' /\ UNCHANGED <<x1, x2, x3, x4, x5, x6>>
  <2>1. /\ x7' = [running |-> x7.running \ {g}, starting |-> x7.starting \ {g}]
        /\ UNCHANGED <<x1, x2, x3, x4, x5, x6, x8, x9>>
    BY <1>6 DEF Deck!GameExits, Deck!restOfKeys
  <2>2. /\ x7' \in [running : SUBSET Program, starting : SUBSET Program]
        /\ x7'.running \subseteq x7.running /\ x7'.starting \subseteq x7.starting
    BY <2>1, GameFacts
  <2> QED
    BY <1>s, <2>1, <2>2, GameFacts, GamesKeep
<1> QED
  BY <1>1, <1>2, <1>3, <1>4, <1>5, <1>6

LEMMA KeyStep ==
  ASSUME Deck!KeyInv, [Deck!KeyNext]_Deck!keyVars
  PROVE  Deck!KeyInv'
<1>1. KeyPresses /\ Deck!HeldIsMeant /\ KeyGames /\ KeyLeft
  BY KeyParts
<1> DEFINE Presses == \/ Deck!KeyDown \/ Deck!ArmHold \/ Deck!ActAtOnce \/ Deck!KeyUp \/ Deck!Compile
                      \/ Deck!LoadDocument \/ Deck!Detach \/ Deck!CancelHolds \/ Deck!Attach
                      \/ (\E n \in DOMAIN x4 : Deck!HoldFires(n) \/ Deck!HoldElapsed(n))
                      \/ (\E n \in 1..2 : Deck!SwitchProfile(n)) \/ (\E a \in x5 : Deck!ActionEnds(a))
           Games == \/ \E p \in Launcher : \/ \E g \in Program : Deck!Launch(p, g)
                                           \/ Deck!LookForGame(p) \/ Deck!WaitForExit(p) \/ Deck!LaunchGame(p)
                                           \/ Deck!ConfirmLaunch(p)
                    \/ \E g \in Program : Deck!GameStarts(g) \/ Deck!GameExits(g)
<1>2. CASE Presses
  <2>1. UNCHANGED <<x7, x8>>
    BY <1>2 DEF Deck!KeyDown, Deck!ArmHold, Deck!ActAtOnce, Deck!KeyUp, Deck!Compile, Deck!LoadDocument,
       Deck!Detach, Deck!CancelHolds, Deck!Attach, Deck!HoldFires, Deck!HoldElapsed, Deck!SwitchProfile, Deck!ActionEnds
  <2>2. KeyPresses' /\ Deck!HeldIsMeant' /\ KeyLeft'
    BY <1>1, <1>2, <2>1, PressStep
  <2> QED
    BY <1>1, <2>1, <2>2, GamesStay, KeyPartsAfter
<1>3. CASE Games
  <2>1. KeyGames' /\ KeyLeft' /\ UNCHANGED <<x1, x2, x3, x4, x5, x6>>
    BY <1>1, <1>3, GamesStep
  <2> QED
    BY <1>1, <2>1, PressesStay, KeyPartsAfter
<1>4. CASE UNCHANGED Deck!keyVars
  <2>1. UNCHANGED <<x1, x2, x3, x4, x5, x6, x7, x8, x9>>
    BY <1>4 DEF Deck!keyVars
  <2>2. KeyLeft'
    BY <1>1, <2>1 DEF KeyLeft
  <2> QED
    BY <1>1, <2>1, <2>2, PressesStay, GamesStay, KeyPartsAfter
<1> QED
  BY <1>2, <1>3, <1>4 DEF Deck!KeyNext

\* The Stream Deck does as it is told: whoever disables it has it disabled or is told
\* that RetroArch's port could not be restored, also beside an Apply, an action that
\* has to be held for is the one that its own press meant, and one game runs at a
\* time.  The hypotheses leave out what breaks it in the code.  late = 0 of the deck:
\* no Apply that found it enabled ends behind a Disable or a removal, no removal fails
\* to restore the port, and the Drone does not stop while a worker or the port is half
\* started.  race = 0: nothing is loaded, switched or unplugged between the two
\* sections of on_key, nor loaded between those of detach.  late = 0 of the key: no
\* launch is given up on that may still start.
THEOREM DeckObeys ==
  ASSUME \A b \in DeckBounds : b.late = 0, \A b \in KeyBounds : b.race = 0 /\ b.late = 0
  PROVE  Spec => []DeckDoesAsMeant
<1> DEFINE Inv == (focus = "deck" => Deck!DeckInv) /\ (focus = "keys" => Deck!KeyInv)
<1>1. Init => Inv
  BY DeckStarts, DeckBegins, KeyStarts, KeysBegin
<1>2. Inv /\ [Next]_vars => Inv'
  BY FocusStays, DeckSteps, DeckStep, KeySteps, KeyStep
<1>3. Inv => DeckDoesAsMeant
  BY DEF DeckDoesAsMeant, Deck!DeckInv, Deck!KeyInv
<1> QED
  BY <1>1, <1>2, <1>3, PTL DEF Spec

-----------------------------------------------------------------------------
(* The routes to a paired peer, and its certificate.                       *)

LEMMA RouteSteps == [Next]_vars /\ focus = "routes" => [Routes!RouteNext]_Routes!routeVars
  BY DEF Next, vars, Routes!routeVars

LEMMA RouteStarts == Init /\ focus = "routes" => Routes!RouteInit
  BY DEF Init

IsRow(v) == v = [pin |-> v.pin, tls |-> v.tls, routes |-> v.routes] /\ v.tls \in BOOLEAN /\ v.routes \subseteq Route
IsPairing(v) == /\ v = [pc |-> v.pc, anchor |-> v.anchor, hint |-> v.hint, cert |-> v.cert, prior |-> v.prior,
                        routes |-> v.routes]
                /\ v.pc \in {"idle", "ask", "save", "check", "row", "unlink"} /\ v.routes \subseteq Route
RouteCall == [pc : {"idle", "dial", "answered", "failed", "held", "late", "unpinned"}, left : SUBSET Route,
              first : SUBSET Route, tls : BOOLEAN, kind : {"ask", "timely", "file", "stream"}, steady : BOOLEAN]
RouteCounts == [{"calls", "pairs", "changes", "faults", "late"} -> Nat]
Pairings == x9 = [p \in Pairer |-> x9[p]] /\ \A p \in Pairer : IsPairing(x9[p])

LEMMA RouteTyped ==
  Routes!RouteTypes => IsRow(x1) /\ x8 \in [Dialer -> RouteCall] /\ Pairings /\ x11 \in RouteCounts
  BY DEF Routes!RouteTypes, IsRow, IsPairing, Pairings, RouteCall, RouteCounts

LEMMA RouteTypedAfter ==
  IsRow(x1)' /\ x8' \in [Dialer -> RouteCall] /\ Pairings' /\ x11' \in RouteCounts => Routes!RouteTypes'
  BY DEF Routes!RouteTypes, IsRow, IsPairing, Pairings, RouteCall, RouteCounts

LEMMA RouteUses ==
  ASSUME x11 \in RouteCounts, NEW what \in {"calls", "pairs", "changes", "faults"}, Routes!Use(what)
  PROVE  x11' \in RouteCounts /\ x11'["late"] = x11["late"] /\ (what # "faults" => x11'["faults"] = x11["faults"])
  BY DEF RouteCounts, Routes!Use

\* Of the routes that are left, one is first.
LEMMA OneIsFirst ==
  ASSUME NEW S \in SUBSET Route, S # {}
  PROVE  \E r \in S : \A q \in S : Order[r] <= Order[q]
<1>1. PICK top \in S : TRUE
  OBVIOUS
<1>2. \A r \in S : Order[r] \in Nat
  BY RouteAssumption
<1> DEFINE low == {r \in S : Order[r] <= Order[top]}
           upto == {1 .. Order[r] : r \in low}
           order == StrictSubsetOrdering(1 .. Order[top])
<1>3. IsWellFoundedOn(order, SUBSET (1 .. Order[top]))
  <2>1. IsFiniteSet(1 .. Order[top])
    BY <1>1, <1>2, FS_Interval
  <2> QED
    BY <2>1, FS_StrictSubsetOrderingWellFounded, FS_FiniteSubsetsOfFinite
<1>4. upto \subseteq SUBSET (1 .. Order[top]) /\ upto # {}
  <2>1. top \in low
    BY <1>1, <1>2
  <2>2. ASSUME NEW r \in low PROVE 1 .. Order[r] \subseteq 1 .. Order[top]
    BY <1>1, <1>2
  <2> QED
    BY <2>1, <2>2
<1>5. PICK u \in upto : \A v \in upto : ~(<<v, u>> \in order)
  <2> HIDE DEF upto, order
  <2> QED
    BY <1>3, <1>4, WFMin
<1>6. PICK r \in low : u = 1 .. Order[r]
  BY <1>5
<1>7. ASSUME NEW q \in S PROVE Order[r] <= Order[q]
  <2>1. CASE Order[top] < Order[q]
    BY <1>1, <1>2, <1>6, <2>1
  <2>2. CASE q \in low
    <3>1. 1 .. Order[q] \in upto /\ ~(<<1 .. Order[q], 1 .. Order[r]>> \in order)
      BY <1>5, <1>6, <2>2
    <3>2. ~(1 .. Order[q] \subseteq 1 .. Order[r] /\ 1 .. Order[q] # 1 .. Order[r])
      BY <1>4, <1>5, <1>6, <3>1 DEF StrictSubsetOrdering
    <3>3. CASE Order[q] < Order[r]
      <4>1. 1 .. Order[q] \subseteq 1 .. Order[r] /\ Order[r] \in 1 .. Order[r] /\ Order[r] \notin 1 .. Order[q]
        BY <1>2, <1>6, <3>3
      <4> QED
        BY <3>2, <4>1
    <3> QED
      BY <1>2, <1>6, <3>3
  <2> QED
    BY <1>1, <1>2, <2>1, <2>2
<1> QED
  BY <1>6, <1>7

LEMMA NextIsLeft ==
  ASSUME NEW call, call.first \subseteq call.left, call.left \subseteq Route, call.left # {}
  PROVE  Routes!NextRoute(call) \in call.left
<1>1. \E r \in call.left : IF call.first # {} THEN r \in call.first ELSE \A q \in call.left : Order[r] <= Order[q]
  BY OneIsFirst
<1> QED
  BY <1>1 DEF Routes!NextRoute

-----------------------------------------------------------------------------
(* What a call knows of the routes that it has tried.                      *)

CallKnows(c) ==
  /\ x8[c].first \subseteq x8[c].left
  /\ x8[c].pc = "dial" => x8[c].left # {} /\ x8[c].left \subseteq Route /\ (x8[c].tls => x8[c].left \subseteq Secure)
  /\ x8[c].pc = "failed" => x8[c].left = {}
  /\ x8[c].pc \in {"dial", "failed"} /\ x8[c].steady =>
       \A r \in Routes!Candidates \ x8[c].left : ~Routes!Reaches(r) \/ r \in x7

LEMMA EachCallKnows == Routes!CallsKnow <=> \A c \in Dialer : CallKnows(c)
  BY DEF Routes!CallsKnow, CallKnows, Routes!At

LEMMA EachCallKnowsAfter == Routes!CallsKnow' <=> \A c \in Dialer : CallKnows(c)'
  BY DEF Routes!CallsKnow, CallKnows, Routes!At

LEMMA CallsDisturbed ==
  ASSUME x8 \in [Dialer -> RouteCall], Routes!CallsKnow, Routes!Disturb
  PROVE  x8' \in [Dialer -> RouteCall] /\ Routes!CallsKnow'
<1>1. ASSUME NEW c \in Dialer
      PROVE  /\ x8'[c] \in RouteCall /\ x8'[c].steady = FALSE
             /\ x8'[c].pc = x8[c].pc /\ x8'[c].left = x8[c].left /\ x8'[c].first = x8[c].first /\ x8'[c].tls = x8[c].tls
  <2>1. x8[c] \in RouteCall /\ x8'[c] = [x8[c] EXCEPT !.steady = FALSE]
    BY DEF Routes!Disturb
  <2> QED
    BY <2>1 DEF RouteCall
<1>2. x8' \in [Dialer -> RouteCall]
  BY <1>1 DEF Routes!Disturb
<1>3. ASSUME NEW c \in Dialer PROVE CallKnows(c)'
  BY <1>1, EachCallKnows DEF CallKnows
<1> QED
  BY <1>2, <1>3, EachCallKnowsAfter

\* Calls that do not move, while nothing changes for them but names that fail.
LEMMA CallStays ==
  ASSUME NEW c \in Dialer, CallKnows(c), x8'[c] = x8[c], UNCHANGED <<x1, x2, x3, x4>>, x7 \subseteq x7'
  PROVE  CallKnows(c)'
<1>1. Routes!Candidates' = Routes!Candidates /\ \A r : Routes!Reaches(r)' <=> Routes!Reaches(r)
  BY DEF Routes!Candidates, Routes!Reaches, Routes!Proven
<1> QED
  BY <1>1 DEF CallKnows

LEMMA CallMoves ==
  ASSUME x8 \in [Dialer -> RouteCall], Routes!CallsKnow, NEW c \in Dialer, NEW call \in RouteCall,
         x8' = [x8 EXCEPT ![c] = call], UNCHANGED <<x1, x2, x3, x4>>, x7 \subseteq x7', CallKnows(c)'
  PROVE  x8' \in [Dialer -> RouteCall] /\ Routes!CallsKnow'
<1>1. x8' \in [Dialer -> RouteCall] /\ \A d \in Dialer \ {c} : x8'[d] = x8[d]
  OBVIOUS
<1>2. \A d \in Dialer \ {c} : CallKnows(d)'
  BY <1>1, CallStays, EachCallKnows
<1> QED
  BY <1>1, <1>2, EachCallKnowsAfter

\* A call that goes neither to another route nor on.
LEMMA CallEnds ==
  ASSUME x8 \in [Dialer -> RouteCall], Routes!CallsKnow, NEW c \in Dialer,
         NEW pc \in {"answered", "held", "late", "unpinned"},
         x8' = [x8 EXCEPT ![c] = [@ EXCEPT !.pc = pc]], UNCHANGED <<x1, x2, x3, x4>>, x7 \subseteq x7'
  PROVE  x8' \in [Dialer -> RouteCall] /\ Routes!CallsKnow'
<1> DEFINE call == [x8[c] EXCEPT !.pc = pc]
<1>1. call \in RouteCall /\ call.pc = pc /\ call.first = x8[c].first /\ call.left = x8[c].left
  <2>1. x8[c] \in RouteCall
    OBVIOUS
  <2> QED
    BY <2>1 DEF RouteCall
<1>2. x8' = [x8 EXCEPT ![c] = call] /\ x8'[c] = call
  OBVIOUS
<1>3. x8[c].first \subseteq x8[c].left
  BY EachCallKnows DEF CallKnows
<1> HIDE DEF call
<1>4. CallKnows(c)'
  BY <1>1, <1>2, <1>3 DEF CallKnows
<1> QED
  BY <1>1, <1>2, <1>4, CallMoves

\* A route that does not lead to the peer is left behind.
LEMMA RouteSkipped ==
  ASSUME x8 \in [Dialer -> RouteCall], Routes!CallsKnow, NEW c \in Dialer, NEW r \in x8[c].left, x8[c].pc = "dial",
         Routes!Skip(c, r), UNCHANGED <<x1, x2, x3, x4>>, x7 \subseteq x7', ~Routes!Reaches(r) \/ r \in x7'
  PROVE  x8' \in [Dialer -> RouteCall] /\ Routes!CallsKnow'
<1> DEFINE call == Routes!Without(x8[c], r)
<1>1. /\ call \in RouteCall /\ call.left = x8[c].left \ {r} /\ call.first = {} /\ call.tls = x8[c].tls
      /\ call.steady = x8[c].steady /\ call.pc = IF x8[c].left = {r} THEN "failed" ELSE "dial"
  <2>1. x8[c] \in RouteCall
    OBVIOUS
  <2>2. call = [x8[c] EXCEPT !.left = x8[c].left \ {r}, !.first = {}, !.pc = IF x8[c].left = {r} THEN "failed" ELSE "dial"]
    BY DEF Routes!Without
  <2> HIDE DEF call
  <2> QED
    BY <2>1, <2>2 DEF RouteCall
<1>2. x8' = [x8 EXCEPT ![c] = call]
  BY DEF Routes!Skip
<1> HIDE DEF call
<1>3. x8'[c] = call
  BY <1>2
<1>4. Routes!Candidates' = Routes!Candidates /\ \A q : Routes!Reaches(q)' <=> Routes!Reaches(q)
  BY DEF Routes!Candidates, Routes!Reaches, Routes!Proven
<1>5. CallKnows(c)
  BY EachCallKnows
<1>6. CallKnows(c)'
  BY <1>1, <1>3, <1>4, <1>5 DEF CallKnows
<1> QED
  BY <1>1, <1>2, <1>6, CallMoves

\* What is delivered for a peer paired over TLS is delivered to it.
LEMMA DeliveredToThePeer ==
  ASSUME Routes!NeverToAnother, Routes!CallsKnow, NEW c \in Dialer, x8[c].pc = "dial", NEW r \in x8[c].left,
         Routes!Reaches(r), Routes!Deliver(c, r)
  PROVE  Routes!NeverToAnother'
<1>1. CallKnows(c)
  BY EachCallKnows
<1>2. x10' = x10 \cup {[tls |-> x8[c].tls, secure |-> r \in Secure, who |-> x3[r]]}
  BY DEF Routes!Deliver
<1>3. x8[c].tls => r \in Secure /\ x3[r] = "peer"
  BY <1>1 DEF CallKnows, Routes!Reaches, Routes!Proven
<1>4. ASSUME NEW t \in x10', t.tls PROVE t.secure /\ t.who = "peer"
  <2>1. CASE t \in x10
    BY <1>4, <2>1 DEF Routes!NeverToAnother
  <2>2. CASE t = [tls |-> x8[c].tls, secure |-> r \in Secure, who |-> x3[r]]
    BY <1>3, <1>4, <2>2
  <2> QED
    BY <1>2, <2>1, <2>2
<1> QED
  BY <1>4 DEF Routes!NeverToAnother

-----------------------------------------------------------------------------
(* Whatever a call or a pairing does, calls know what they have tried.     *)

LEMMA RoutesBegin == Routes!RouteInit => Routes!RouteTypes /\ Routes!RouteInv
<1> SUFFICES ASSUME Routes!RouteInit PROVE Routes!RouteTypes /\ Routes!RouteInv
  OBVIOUS
<1>1. IsRow(x1)
  <2>1. PICK tls \in BOOLEAN, routes \in Metadata : x1 = [pin |-> Original, tls |-> tls, routes |-> routes] \/ x1 = Routes!NoRow
    BY DEF Routes!RouteInit
  <2>2. routes \subseteq Route
    BY RouteAssumption
  <2>3. CASE x1 = [pin |-> Original, tls |-> tls, routes |-> routes]
    BY <2>2, <2>3 DEF IsRow
  <2>4. CASE x1 = Routes!NoRow
    BY <2>4 DEF IsRow, Routes!NoRow
  <2> QED
    BY <2>1, <2>3, <2>4
<1>2. Routes!NoCall \in RouteCall /\ Routes!NoCall.pc = "idle" /\ Routes!NoCall.first = {} /\ IsPairing(Routes!NoPairing)
  BY DEF Routes!NoCall, Routes!NoPairing, RouteCall, IsPairing
<1>3. x8 = [c \in Dialer |-> Routes!NoCall] /\ x9 = [p \in Pairer |-> Routes!NoPairing]
  BY DEF Routes!RouteInit
<1>4. x8 \in [Dialer -> RouteCall] /\ Pairings
  BY <1>2, <1>3 DEF Pairings
<1>5. x11 \in RouteCounts
  BY RouteAssumption DEF Routes!RouteInit, RouteCounts
<1>6. Routes!RouteTypes
  BY <1>1, <1>4, <1>5 DEF Routes!RouteTypes, IsRow, IsPairing, Pairings, RouteCall, RouteCounts
<1>7. Routes!NeverToAnother
  BY DEF Routes!RouteInit, Routes!NeverToAnother
<1>8. Routes!CallsKnow
  BY <1>2, <1>3, EachCallKnows DEF CallKnows
<1> QED
  BY <1>6, <1>7, <1>8 DEF Routes!RouteInv

LEMMA CallStep ==
  ASSUME Routes!RouteInv, NEW c \in Dialer,
         \/ Routes!BeginCall(c) \/ Routes!Dial(c) \/ Routes!DialFile(c) \/ Routes!DialStream(c)
         \/ Routes!Withhold(c) \/ Routes!RunOut(c) \/ Routes!EndCall(c)
  PROVE  /\ x8' \in [Dialer -> RouteCall] /\ Routes!CallsKnow' /\ Routes!NeverToAnother'
         /\ UNCHANGED <<x1, x2, x9>> /\ x11' \in RouteCounts
         /\ x11'["late"] = x11["late"] /\ x11'["faults"] = x11["faults"]
<1>t. IsRow(x1) /\ x8 \in [Dialer -> RouteCall] /\ x11 \in RouteCounts /\ Routes!CallsKnow /\ Routes!NeverToAnother
  BY RouteTyped DEF Routes!RouteInv
<1>k. CallKnows(c)
  BY <1>t, EachCallKnows
<1>n. x10' = x10 => Routes!NeverToAnother'
  BY <1>t DEF Routes!NeverToAnother
<1>1. CASE Routes!BeginCall(c)
  <2>1. /\ Routes!Use("calls") /\ UNCHANGED <<x1, x2, x3, x4, x7, x9, x10>>
        /\ \E kind \in {"ask", "timely", "file", "stream"} :
             x8' = [x8 EXCEPT ![c] = [Routes!NoCall EXCEPT !.pc = IF Routes!Candidates = {} THEN "failed" ELSE "dial",
                     !.left = Routes!Candidates, !.first = x6 \cap Routes!Candidates, !.tls = x1.tls, !.kind = kind]]
    BY <1>1 DEF Routes!BeginCall
  <2>2. PICK kind \in {"ask", "timely", "file", "stream"} :
          x8' = [x8 EXCEPT ![c] = [Routes!NoCall EXCEPT !.pc = IF Routes!Candidates = {} THEN "failed" ELSE "dial",
                   !.left = Routes!Candidates, !.first = x6 \cap Routes!Candidates, !.tls = x1.tls, !.kind = kind]]
    BY <2>1
  <2> DEFINE call == [Routes!NoCall EXCEPT !.pc = IF Routes!Candidates = {} THEN "failed" ELSE "dial",
                   !.left = Routes!Candidates, !.first = x6 \cap Routes!Candidates, !.tls = x1.tls, !.kind = kind]
  <2>3. Routes!Candidates \subseteq Route /\ (x1.tls => Routes!Candidates \subseteq Secure) /\ x1.tls \in BOOLEAN
    BY <1>t DEF Routes!Candidates, IsRow
  <2>4. /\ call \in RouteCall /\ call.left = Routes!Candidates /\ call.first = x6 \cap Routes!Candidates
        /\ call.tls = x1.tls /\ call.pc = IF Routes!Candidates = {} THEN "failed" ELSE "dial"
    BY <2>3 DEF Routes!NoCall, RouteCall
  <2>5. x8' = [x8 EXCEPT ![c] = call]
    BY <2>2
  <2> HIDE DEF call
  <2>6. x8'[c] = call /\ Routes!Candidates' = Routes!Candidates
    BY <1>t, <2>1, <2>5 DEF Routes!Candidates
  <2>7. CallKnows(c)'
    BY <2>3, <2>4, <2>6 DEF CallKnows
  <2>8. x8' \in [Dialer -> RouteCall] /\ Routes!CallsKnow'
    BY <1>t, <2>1, <2>4, <2>5, <2>7, CallMoves
  <2> QED
    BY <1>t, <1>n, <2>1, <2>8, RouteUses
<1>2. CASE Routes!Dial(c) \/ Routes!DialFile(c) \/ Routes!DialStream(c)
  <2> DEFINE r == Routes!NextRoute(x8[c])
  <2>1. /\ x8[c].pc = "dial" /\ UNCHANGED <<x1, x2, x3, x4, x9, x11>>
        /\ x7 \subseteq x7'
        /\ \/ Routes!Reaches(r) /\ Routes!Deliver(c, r)
           \/ Routes!Skip(c, r) /\ (~Routes!Reaches(r) \/ r \in x7')
           \/ x8' = [x8 EXCEPT ![c].pc = "unpinned"] /\ x10' = x10
    <3>1. CASE Routes!Dial(c)
      <4>1. x7' = Routes!Looked(r) /\ (Routes!Resolves(r) => r \notin Named \/ r \notin x7)
        BY <3>1 DEF Routes!Dial, Routes!Resolves
      <4>2. x7 \subseteq x7' /\ (~Routes!Resolves(r) => r \in x7')
        BY <4>1 DEF Routes!Looked, Routes!Resolves
      <4> QED
        BY <3>1, <4>2 DEF Routes!Dial, Routes!At
    <3>2. CASE Routes!DialFile(c) \/ Routes!DialStream(c)
      BY <3>2 DEF Routes!DialFile, Routes!DialStream, Routes!DialUnnamed, Routes!At
    <3> QED
      BY <1>2, <3>1, <3>2
  <2>2. r \in x8[c].left
    BY <1>k, <2>1, NextIsLeft DEF CallKnows
  <2> HIDE DEF r
  <2>3. CASE Routes!Reaches(r) /\ Routes!Deliver(c, r)
    <3>1. Routes!NeverToAnother'
      BY <1>t, <2>1, <2>2, <2>3, DeliveredToThePeer
    <3>2. x8' = [x8 EXCEPT ![c] = [@ EXCEPT !.pc = "answered"]]
      BY <2>3 DEF Routes!Deliver
    <3> QED
      BY <1>t, <2>1, <3>1, <3>2, CallEnds
  <2>4. CASE Routes!Skip(c, r) /\ (~Routes!Reaches(r) \/ r \in x7')
    <3>1. x10' = x10
      BY <2>4 DEF Routes!Skip
    <3> QED
      BY <1>t, <1>n, <2>1, <2>2, <2>4, <3>1, RouteSkipped
  <2>5. CASE x8' = [x8 EXCEPT ![c].pc = "unpinned"] /\ x10' = x10
    BY <1>t, <1>n, <2>1, <2>5, CallEnds
  <2> QED
    BY <2>1, <2>3, <2>4, <2>5
<1>3. CASE Routes!Withhold(c) \/ Routes!RunOut(c)
  <2>1. /\ UNCHANGED <<x1, x2, x3, x4, x7, x9, x10, x11>>
        /\ x8' = [x8 EXCEPT ![c].pc = "held"] \/ x8' = [x8 EXCEPT ![c].pc = "late"]
    BY <1>3 DEF Routes!Withhold, Routes!RunOut
  <2>2. x7 \subseteq x7'
    BY <2>1
  <2> QED
    BY <1>t, <1>n, <2>1, <2>2, CallEnds
<1>4. CASE Routes!EndCall(c)
  <2>1. x8' = [x8 EXCEPT ![c] = Routes!NoCall] /\ UNCHANGED <<x1, x2, x3, x4, x7, x9, x10, x11>>
    BY <1>4 DEF Routes!EndCall
  <2>2. Routes!NoCall \in RouteCall /\ Routes!NoCall.pc = "idle" /\ Routes!NoCall.first = {}
    BY DEF Routes!NoCall, RouteCall
  <2>3. x8'[c] = Routes!NoCall
    BY <1>t, <2>1
  <2>4. CallKnows(c)'
    BY <2>2, <2>3 DEF CallKnows
  <2> QED
    BY <1>t, <1>n, <2>1, <2>2, <2>4, CallMoves
<1> QED
  BY <1>1, <1>2, <1>3, <1>4

-----------------------------------------------------------------------------
(* Pairings: one at a time, and it knows what the pin was.                 *)

PinKnows ==
  /\ x11["late"] = 0 /\ x11["faults"] = 0
  /\ Routes!OnePairing /\ (\A p \in Pairer : Routes!PairingKnows(p)) /\ Routes!PinsAgree

LEMMA PairingPut ==
  ASSUME Pairings, NEW p \in Pairer, NEW v, IsPairing(v), Routes!Put(p, v)
  PROVE  Pairings' /\ x9'[p] = v /\ \A q \in Pairer \ {p} : x9'[q] = x9[q]
<1>1. x9 = [q \in Pairer |-> x9[q]] /\ x9' = [x9 EXCEPT ![p] = v]
  BY DEF Pairings, Routes!Put
<1>2. x9' = [q \in Pairer |-> x9'[q]] /\ x9'[p] = v /\ \A q \in Pairer \ {p} : x9'[q] = x9[q]
  BY <1>1
<1>3. \A q \in Pairer : IsPairing(x9'[q])
  BY <1>2 DEF Pairings
<1> QED
  BY <1>2, <1>3 DEF Pairings

\* A pairing with other values is a pairing.
LEMMA PairingAsks ==
  ASSUME NEW anchor, NEW hint, NEW routes
  PROVE  [Routes!NoPairing EXCEPT !.pc = "ask", !.hint = hint, !.routes = routes, !.anchor = anchor] \in
           [pc : {"ask"}, anchor : {anchor}, hint : {hint}, cert : {NoCert}, prior : {NoCert}, routes : {routes}]
<1>1. Routes!NoPairing \in [pc : {"idle"}, anchor : {NoCert}, hint : {NoCert}, cert : {NoCert}, prior : {NoCert}, routes : {{}}]
  BY DEF Routes!NoPairing
<1> QED
  BY <1>1

LEMMA PairingAsked ==
  ASSUME NEW cert, NEW prior, NEW routes
  PROVE  [Routes!NoPairing EXCEPT !.pc = "save", !.anchor = cert, !.cert = cert, !.prior = prior, !.routes = routes] \in
           [pc : {"save"}, anchor : {cert}, hint : {NoCert}, cert : {cert}, prior : {prior}, routes : {routes}]
<1>1. Routes!NoPairing \in [pc : {"idle"}, anchor : {NoCert}, hint : {NoCert}, cert : {NoCert}, prior : {NoCert}, routes : {{}}]
  BY DEF Routes!NoPairing
<1> QED
  BY <1>1

LEMMA PairingSaves ==
  ASSUME NEW v, v = [pc |-> v.pc, anchor |-> v.anchor, hint |-> v.hint, cert |-> v.cert, prior |-> v.prior,
                     routes |-> v.routes],
         NEW cert, NEW prior
  PROVE  [v EXCEPT !.pc = "save", !.cert = cert, !.prior = prior] \in
           [pc : {"save"}, anchor : {v.anchor}, hint : {v.hint}, cert : {cert}, prior : {prior}, routes : {v.routes}]
<1>1. v \in [pc : {v.pc}, anchor : {v.anchor}, hint : {v.hint}, cert : {v.cert}, prior : {v.prior}, routes : {v.routes}]
  OBVIOUS
<1> QED
  BY <1>1

LEMMA PinKeeps ==
  ASSUME NEW p \in Pairer, \A q \in Pairer \ {p} : x9'[q].pc = "idle", x11'["late"] = 0, x11'["faults"] = 0,
         Routes!PairingKnows(p)', x9'[p].pc = "idle" => x1'.pin = x2'
  PROVE  PinKnows'
<1>1. \A q \in Pairer \ {p} : Routes!PairingKnows(q)'
  BY DEF Routes!PairingKnows
<1>2. Routes!OnePairing'
  BY DEF Routes!OnePairing
<1>3. Routes!PinsAgree'
  BY DEF Routes!PinsAgree, Routes!Quiet
<1> QED
  BY <1>1, <1>2, <1>3 DEF PinKnows

LEMMA PinFacts ==
  ASSUME PinKnows, NEW p \in Pairer
  PROVE  /\ x11["late"] = 0 /\ x11["faults"] = 0 /\ Routes!PairingKnows(p)
         /\ x9[p].pc # "idle" => \A q \in Pairer \ {p} : x9[q].pc = "idle"
         /\ Routes!MayPair => x1.pin = x2 /\ \A q \in Pairer : x9[q].pc = "idle"
<1>1. Routes!MayPair => Routes!Quiet
  BY DEF PinKnows, Routes!MayPair
<1> QED
  BY <1>1 DEF PinKnows, Routes!OnePairing, Routes!PinsAgree, Routes!Quiet

\* What the calls see of a pairing.
Unseen == UNCHANGED <<x1, x2, x3, x4, x7, x8>>

LEMMA PairStep ==
  ASSUME IsRow(x1), Pairings, x11 \in RouteCounts, NEW p \in Pairer,
         \/ Routes!Forget(p) \/ Routes!Unlink(p) \/ Routes!AskPinned(p) \/ Routes!AskConfirmed(p)
         \/ Routes!AskTailnet(p) \/ Routes!Answer(p) \/ Routes!Asked(p)
         \/ Routes!SavePin(p) \/ Routes!Check(p) \/ Routes!SaveRow(p) \/ Routes!Break(p)
  PROVE  /\ IsRow(x1)' /\ Pairings' /\ x11' \in RouteCounts /\ x10' = x10 /\ (Routes!Disturb \/ Unseen)
         /\ PinKnows => PinKnows'
<1>n. /\ Routes!NoPairing = [pc |-> "idle", anchor |-> NoCert, hint |-> NoCert, cert |-> NoCert, prior |-> NoCert,
                             routes |-> {}]
      /\ IsPairing(Routes!NoPairing) /\ Routes!NoPairing.pc = "idle"
  BY DEF Routes!NoPairing, IsPairing
<1>o. IsPairing(x9[p])
  BY DEF Pairings
<1>1. CASE Routes!Forget(p)
  <2> DEFINE v == [Routes!NoPairing EXCEPT !.pc = "unlink"]
  <2>1. /\ Routes!MayPair /\ Routes!Use("pairs") /\ Routes!Disturb /\ x1' = Routes!NoRow /\ UNCHANGED <<x2, x10>>
        /\ Routes!Put(p, v)
    BY <1>1 DEF Routes!Forget, Routes!MayPair
  <2>2. IsPairing(v) /\ v.pc = "unlink"
    BY <1>n DEF IsPairing
  <2> HIDE DEF v
  <2>3. Pairings' /\ x9'[p] = v /\ \A q \in Pairer \ {p} : x9'[q] = x9[q]
    BY <2>1, <2>2, PairingPut
  <2>4. IsRow(x1)'
    BY <2>1 DEF Routes!NoRow, IsRow
  <2>5. x11' \in RouteCounts /\ x11'["late"] = x11["late"] /\ x11'["faults"] = x11["faults"]
    BY <2>1, RouteUses
  <2>6. Routes!PairingKnows(p)'
    BY <2>1, <2>2, <2>3 DEF Routes!PairingKnows, Routes!NoRow
  <2> QED
    BY <2>1, <2>2, <2>3, <2>4, <2>5, <2>6, PinFacts, PinKeeps
<1>2. CASE Routes!Unlink(p)
  <2>1. /\ x9[p].pc = "unlink" /\ Routes!Disturb /\ x2' = NoCert /\ UNCHANGED <<x1, x10, x11>>
        /\ Routes!Put(p, Routes!NoPairing)
    BY <1>2 DEF Routes!Unlink
  <2>2. Pairings' /\ x9'[p] = Routes!NoPairing /\ \A q \in Pairer \ {p} : x9'[q] = x9[q]
    BY <1>n, <2>1, PairingPut
  <2>3. IsRow(x1)'
    BY <2>1 DEF IsRow
  <2>4. Routes!PairingKnows(p)'
    BY <1>n, <2>2 DEF Routes!PairingKnows
  <2>5. PinKnows => x1'.pin = x2'
    BY <2>1, PinFacts DEF Routes!PairingKnows, Routes!NoRow
  <2> QED
    BY <2>1, <2>2, <2>3, <2>4, <2>5, PinFacts, PinKeeps
\* A request, whoever makes it, starts from the pin that the row has.
<1>3. CASE Routes!AskPinned(p) \/ Routes!AskConfirmed(p) \/ Routes!AskTailnet(p)
  <2>1. PICK anchor, hint : Routes!Request(p, anchor, hint)
    BY <1>3 DEF Routes!AskPinned, Routes!AskConfirmed, Routes!AskTailnet
  <2>2. PICK routes \in Metadata :
          Routes!Put(p, [Routes!NoPairing EXCEPT !.pc = "ask", !.hint = hint, !.routes = routes, !.anchor = anchor])
    BY <2>1 DEF Routes!Request
  <2> DEFINE v == [Routes!NoPairing EXCEPT !.pc = "ask", !.hint = hint, !.routes = routes, !.anchor = anchor]
  <2>3. routes \subseteq Route
    BY RouteAssumption
  <2>4. IsPairing(v) /\ v.pc = "ask"
    <3>1. v \in [pc : {"ask"}, anchor : {anchor}, hint : {hint}, cert : {NoCert}, prior : {NoCert}, routes : {routes}]
      BY PairingAsks
    <3> HIDE DEF v
    <3> QED
      BY <2>3, <3>1 DEF IsPairing
  <2>5. Routes!Put(p, v)
    BY <2>2
  <2> HIDE DEF v
  <2>6. Pairings' /\ x9'[p] = v /\ \A q \in Pairer \ {p} : x9'[q] = x9[q]
    BY <2>4, <2>5, PairingPut
  <2>7. Routes!MayPair /\ Routes!Use("pairs") /\ UNCHANGED <<x1, x2, x3, x4, x7, x8, x10>>
    BY <2>1 DEF Routes!Request, Routes!MayPair
  <2>8. x11' \in RouteCounts /\ x11'["late"] = x11["late"] /\ x11'["faults"] = x11["faults"]
    BY <2>7, RouteUses
  <2>9. IsRow(x1)'
    BY <2>7 DEF IsRow
  <2>10. PinKnows => Routes!PairingKnows(p)'
    BY <2>4, <2>6, <2>7, PinFacts DEF Routes!PairingKnows
  <2> QED
    BY <2>4, <2>6, <2>7, <2>8, <2>9, <2>10, PinFacts, PinKeeps DEF Unseen
<1>4. CASE Routes!Answer(p)
  <2>1. /\ x9[p].pc = "ask" /\ UNCHANGED <<x1, x2, x3, x4, x7, x8, x10, x11>>
        /\ \E cert : Routes!Put(p, IF x9[p].anchor \notin {NoCert, cert} THEN Routes!NoPairing
                                   ELSE [x9[p] EXCEPT !.pc = "save", !.cert = cert, !.prior = x2])
    BY <1>4 DEF Routes!Answer
  <2>2. IsRow(x1)'
    BY <2>1 DEF IsRow
  <2>3. PinKnows => x1.pin = x2
    BY <2>1, PinFacts DEF Routes!PairingKnows
  <2>4. CASE Routes!Put(p, Routes!NoPairing)
    <3>1. Pairings' /\ x9'[p] = Routes!NoPairing /\ \A q \in Pairer \ {p} : x9'[q] = x9[q]
      BY <1>n, <2>4, PairingPut
    <3>2. Routes!PairingKnows(p)'
      BY <1>n, <3>1 DEF Routes!PairingKnows
    <3> QED
      BY <2>1, <2>2, <2>3, <3>1, <3>2, PinFacts, PinKeeps DEF Unseen
  <2>5. ASSUME NEW cert, Routes!Put(p, [x9[p] EXCEPT !.pc = "save", !.cert = cert, !.prior = x2])
        PROVE  Pairings' /\ (PinKnows => PinKnows')
    <3> DEFINE v == [x9[p] EXCEPT !.pc = "save", !.cert = cert, !.prior = x2]
    <3>1. IsPairing(v) /\ v.pc = "save" /\ v.prior = x2
      <4>1. v \in [pc : {"save"}, anchor : {x9[p].anchor}, hint : {x9[p].hint}, cert : {cert}, prior : {x2},
                   routes : {x9[p].routes}]
        BY <1>o, PairingSaves DEF IsPairing
      <4> HIDE DEF v
      <4> QED
        BY <1>o, <4>1 DEF IsPairing
    <3>2. Routes!Put(p, v)
      BY <2>5
    <3> HIDE DEF v
    <3>3. Pairings' /\ x9'[p] = v /\ \A q \in Pairer \ {p} : x9'[q] = x9[q]
      BY <3>1, <3>2, PairingPut
    <3>4. PinKnows => Routes!PairingKnows(p)'
      BY <2>1, <2>3, <3>1, <3>3 DEF Routes!PairingKnows
    <3> QED
      BY <2>1, <3>1, <3>3, <3>4, PinFacts, PinKeeps
  <2> QED
    BY <2>1, <2>2, <2>4, <2>5 DEF Unseen
<1>5. CASE Routes!Asked(p)
  <2>1. /\ Routes!MayPair /\ Routes!Use("pairs") /\ UNCHANGED <<x1, x2, x3, x4, x7, x8, x10>>
        /\ \E cert \in Cert, routes \in Metadata :
             Routes!Put(p, [Routes!NoPairing EXCEPT !.pc = "save", !.anchor = cert, !.cert = cert, !.prior = x2,
                                                   !.routes = routes])
    BY <1>5 DEF Routes!Asked, Routes!MayPair
  <2>2. PICK cert \in Cert, routes \in Metadata :
          Routes!Put(p, [Routes!NoPairing EXCEPT !.pc = "save", !.anchor = cert, !.cert = cert, !.prior = x2,
                                                !.routes = routes])
    BY <2>1
  <2> DEFINE v == [Routes!NoPairing EXCEPT !.pc = "save", !.anchor = cert, !.cert = cert, !.prior = x2, !.routes = routes]
  <2>3. routes \subseteq Route
    BY RouteAssumption
  <2>4. IsPairing(v) /\ v.pc = "save" /\ v.prior = x2
    <3>1. v \in [pc : {"save"}, anchor : {cert}, hint : {NoCert}, cert : {cert}, prior : {x2}, routes : {routes}]
      BY PairingAsked
    <3> HIDE DEF v
    <3> QED
      BY <2>3, <3>1 DEF IsPairing
  <2>5. Routes!Put(p, v)
    BY <2>2
  <2> HIDE DEF v
  <2>6. Pairings' /\ x9'[p] = v /\ \A q \in Pairer \ {p} : x9'[q] = x9[q]
    BY <2>4, <2>5, PairingPut
  <2>7. x11' \in RouteCounts /\ x11'["late"] = x11["late"] /\ x11'["faults"] = x11["faults"]
    BY <2>1, RouteUses
  <2>8. IsRow(x1)'
    BY <2>1 DEF IsRow
  <2>9. PinKnows => Routes!PairingKnows(p)'
    BY <2>1, <2>4, <2>6, PinFacts DEF Routes!PairingKnows
  <2> QED
    BY <2>1, <2>4, <2>6, <2>7, <2>8, <2>9, PinFacts, PinKeeps DEF Unseen
<1>6. CASE Routes!SavePin(p)
  <2> DEFINE v == [x9[p] EXCEPT !.pc = "check"]
  <2>1. /\ x9[p].pc = "save" /\ x2' = x9[p].cert /\ Routes!Put(p, v) /\ Routes!Disturb /\ UNCHANGED <<x1, x10, x11>>
    BY <1>6 DEF Routes!SavePin
  <2>2. IsPairing(v) /\ v.pc = "check" /\ v.prior = x9[p].prior /\ v.cert = x9[p].cert
    BY <1>o DEF IsPairing
  <2> HIDE DEF v
  <2>3. Pairings' /\ x9'[p] = v /\ \A q \in Pairer \ {p} : x9'[q] = x9[q]
    BY <2>1, <2>2, PairingPut
  <2>4. IsRow(x1)'
    BY <2>1 DEF IsRow
  <2>5. PinKnows => Routes!PairingKnows(p)'
    BY <2>1, <2>2, <2>3, PinFacts DEF Routes!PairingKnows
  <2> QED
    BY <2>1, <2>2, <2>3, <2>4, <2>5, PinFacts, PinKeeps
\* A pin that is put back is the row's.
<1>7. CASE Routes!Check(p)
  <2>1. /\ x9[p].pc = "check" /\ Routes!Disturb /\ UNCHANGED <<x1, x10, x11>>
        /\ \/ Routes!Put(p, [x9[p] EXCEPT !.pc = "row"]) /\ x2' = x2
           \/ Routes!Put(p, Routes!NoPairing) /\ x2' = x9[p].prior
    BY <1>7 DEF Routes!Check, Routes!PutBack
  <2>2. IsRow(x1)'
    BY <2>1 DEF IsRow
  <2>3. PinKnows => x9[p].prior = x1.pin /\ x9[p].cert = x2
    BY <2>1, PinFacts DEF Routes!PairingKnows
  <2>4. CASE Routes!Put(p, [x9[p] EXCEPT !.pc = "row"]) /\ x2' = x2
    <3> DEFINE v == [x9[p] EXCEPT !.pc = "row"]
    <3>1. IsPairing(v) /\ v.pc = "row" /\ v.cert = x9[p].cert
      BY <1>o DEF IsPairing
    <3>2. Routes!Put(p, v)
      BY <2>4
    <3> HIDE DEF v
    <3>3. Pairings' /\ x9'[p] = v /\ \A q \in Pairer \ {p} : x9'[q] = x9[q]
      BY <3>1, <3>2, PairingPut
    <3>4. PinKnows => Routes!PairingKnows(p)'
      BY <2>1, <2>3, <2>4, <3>1, <3>3 DEF Routes!PairingKnows
    <3> QED
      BY <2>1, <2>2, <3>1, <3>3, <3>4, PinFacts, PinKeeps
  <2>5. CASE Routes!Put(p, Routes!NoPairing) /\ x2' = x9[p].prior
    <3>1. Pairings' /\ x9'[p] = Routes!NoPairing /\ \A q \in Pairer \ {p} : x9'[q] = x9[q]
      BY <1>n, <2>5, PairingPut
    <3>2. Routes!PairingKnows(p)'
      BY <1>n, <3>1 DEF Routes!PairingKnows
    <3> QED
      BY <2>1, <2>2, <2>3, <2>5, <3>1, <3>2, PinFacts, PinKeeps
  <2> QED
    BY <2>1, <2>4, <2>5
<1>8. CASE Routes!SaveRow(p)
  <2>1. /\ x9[p].pc = "row" /\ Routes!Put(p, Routes!NoPairing) /\ Routes!Disturb /\ UNCHANGED <<x2, x10, x11>>
        /\ x1' = [pin |-> x9[p].cert, tls |-> x1.tls \/ x9[p].routes \cap Secure # {}, routes |-> x1.routes \cup x9[p].routes]
    BY <1>8 DEF Routes!SaveRow
  <2>2. Pairings' /\ x9'[p] = Routes!NoPairing /\ \A q \in Pairer \ {p} : x9'[q] = x9[q]
    BY <1>n, <2>1, PairingPut
  <2>3. IsRow(x1)' /\ x1'.pin = x9[p].cert
    BY <1>o, <2>1 DEF IsRow, IsPairing
  <2>4. Routes!PairingKnows(p)'
    BY <1>n, <2>2 DEF Routes!PairingKnows
  <2>5. PinKnows => x1'.pin = x2'
    BY <2>1, <2>3, PinFacts DEF Routes!PairingKnows
  <2> QED
    BY <2>1, <2>2, <2>3, <2>4, <2>5, PinFacts, PinKeeps
<1>9. CASE Routes!Break(p)
  <2>1. Routes!Use("faults") /\ Routes!Put(p, Routes!NoPairing) /\ UNCHANGED <<x1, x2, x3, x4, x7, x8, x10>>
    BY <1>9 DEF Routes!Break
  <2>2. Pairings'
    BY <1>n, <2>1, PairingPut
  <2>3. ~PinKnows
    BY <2>1 DEF PinKnows, Routes!Use
  <2>4. IsRow(x1)' /\ x11' \in RouteCounts
    BY <2>1, RouteUses DEF IsRow
  <2> QED
    BY <2>1, <2>2, <2>3, <2>4 DEF Unseen
<1> QED
  BY <1>1, <1>2, <1>3, <1>4, <1>5, <1>6, <1>7, <1>8, <1>9

LEMMA RouteStep ==
  ASSUME Routes!RouteInv, [Routes!RouteNext]_Routes!routeVars
  PROVE  Routes!RouteInv' /\ (PinKnows => PinKnows')
<1>t. /\ IsRow(x1) /\ x8 \in [Dialer -> RouteCall] /\ Pairings /\ x11 \in RouteCounts /\ Routes!CallsKnow
      /\ Routes!NeverToAnother
  BY RouteTyped DEF Routes!RouteInv
<1>p. UNCHANGED <<x1, x2, x9>> /\ x11'["late"] = x11["late"] /\ x11'["faults"] = x11["faults"] =>
        IsRow(x1)' /\ Pairings' /\ (PinKnows => PinKnows')
  BY <1>t DEF IsRow, Pairings, PinKnows, Routes!OnePairing, Routes!PairingKnows, Routes!PinsAgree, Routes!Quiet
<1>n. x10' = x10 => Routes!NeverToAnother'
  BY <1>t DEF Routes!NeverToAnother
<1>1. CASE Routes!NetworkChanges \/ Routes!NamesExpire
  <2>1. Routes!Use("changes") /\ Routes!Disturb /\ UNCHANGED <<x1, x2, x9, x10>>
    BY <1>1 DEF Routes!NetworkChanges, Routes!NamesExpire
  <2> QED
    BY <1>t, <1>p, <1>n, <2>1, CallsDisturbed, RouteUses, RouteTypedAfter DEF Routes!RouteInv
<1>2. ASSUME NEW c \in Dialer,
             \/ Routes!BeginCall(c) \/ Routes!Dial(c) \/ Routes!DialFile(c) \/ Routes!DialStream(c)
             \/ Routes!Withhold(c) \/ Routes!RunOut(c) \/ Routes!EndCall(c)
      PROVE  Routes!RouteInv' /\ (PinKnows => PinKnows')
  <2>1. /\ x8' \in [Dialer -> RouteCall] /\ Routes!CallsKnow' /\ Routes!NeverToAnother'
        /\ UNCHANGED <<x1, x2, x9>> /\ x11' \in RouteCounts
        /\ x11'["late"] = x11["late"] /\ x11'["faults"] = x11["faults"]
    BY <1>2, CallStep
  <2> QED
    BY <1>p, <2>1, RouteTypedAfter DEF Routes!RouteInv
<1>3. ASSUME NEW p \in Pairer,
             \/ Routes!Forget(p) \/ Routes!Unlink(p) \/ Routes!AskPinned(p) \/ Routes!AskConfirmed(p)
             \/ Routes!AskTailnet(p) \/ Routes!Answer(p) \/ Routes!Asked(p)
             \/ Routes!SavePin(p) \/ Routes!Check(p) \/ Routes!SaveRow(p) \/ Routes!Break(p)
      PROVE  Routes!RouteInv' /\ (PinKnows => PinKnows')
  <2>1. /\ IsRow(x1)' /\ Pairings' /\ x11' \in RouteCounts /\ x10' = x10 /\ (Routes!Disturb \/ Unseen)
        /\ PinKnows => PinKnows'
    BY <1>t, <1>3, PairStep
  <2>2. x8' \in [Dialer -> RouteCall] /\ Routes!CallsKnow'
    <3>1. CASE Routes!Disturb
      BY <1>t, <3>1, CallsDisturbed
    <3>2. CASE Unseen
      <4>1. \A c \in Dialer : CallKnows(c)'
        BY <1>t, <3>2, EachCallKnows, CallStays DEF Unseen
      <4> QED
        BY <1>t, <3>2, <4>1, EachCallKnowsAfter DEF Unseen
    <3> QED
      BY <2>1, <3>1, <3>2
  <2> QED
    BY <1>n, <2>1, <2>2, RouteTypedAfter DEF Routes!RouteInv
<1>4. CASE UNCHANGED Routes!routeVars
  <2>1. Unseen /\ UNCHANGED <<x9, x10, x11>>
    BY <1>4 DEF Routes!routeVars, Unseen
  <2>2. \A c \in Dialer : CallKnows(c)'
    BY <1>t, <2>1, EachCallKnows, CallStays DEF Unseen
  <2>3. Routes!CallsKnow' /\ x8' \in [Dialer -> RouteCall] /\ x11' \in RouteCounts
    BY <1>t, <2>1, <2>2, EachCallKnowsAfter DEF Unseen
  <2> QED
    BY <1>p, <1>n, <2>1, <2>3, RouteTypedAfter DEF Routes!RouteInv, Unseen
<1> QED
  BY <1>1, <1>2, <1>3, <1>4 DEF Routes!RouteNext

\* What is meant for a peer that was paired over TLS reaches nobody else, and a
\* call without a deadline fails only if the peer answers on none of its routes:
\* for any routes, names and certificates, however many calls and pairings
\* overlap, whatever fails and whatever the network does meanwhile.
THEOREM CallsReachThePeer == Spec => [](focus = "routes" => Routes!RoutesLeadToThePeer)
<1> DEFINE Inv == focus = "routes" => Routes!RouteInv
<1>1. Init => Inv
  BY RouteStarts, RoutesBegin
<1>2. Inv /\ [Next]_vars => Inv'
  BY FocusStays, RouteSteps, RouteStep
<1>3. Inv => (focus = "routes" => Routes!RoutesLeadToThePeer)
  <2>1. ASSUME Routes!CallsKnow PROVE Routes!ReachableIsReached
    BY <2>1 DEF Routes!CallsKnow, Routes!ReachableIsReached, Routes!At
  <2> QED
    BY <2>1 DEF Routes!RouteInv, Routes!RoutesLeadToThePeer
<1> QED
  BY <1>1, <1>2, <1>3, PTL DEF Spec

\* And when no pairing is on its way the row and the file have the same pin, as
\* long as pairings and removals do not overlap (late) and every row is saved
\* after its pin (faults).
THEOREM PeersStayThemselves ==
  ASSUME \A b \in RouteBounds : b.late = 0 /\ b.faults = 0
  PROVE  Spec => []PeersAreThemselves
<1> DEFINE Inv == focus = "routes" => Routes!RouteInv /\ PinKnows
<1>1. Init => Inv
  <2>1. ASSUME Routes!RouteInit PROVE PinKnows
    <3>1. x11 \in RouteBounds /\ x11["late"] = 0 /\ x11["faults"] = 0
      BY <2>1, RouteAssumption DEF Routes!RouteInit
    <3>2. \A p \in Pairer : x9[p].pc = "idle"
      BY <2>1 DEF Routes!RouteInit, Routes!NoPairing
    <3>3. x1.pin = x2
      BY <2>1 DEF Routes!RouteInit, Routes!NoRow
    <3> QED
      BY <3>1, <3>2, <3>3 DEF PinKnows, Routes!OnePairing, Routes!PairingKnows, Routes!PinsAgree
  <2> QED
    BY <2>1, RouteStarts, RoutesBegin
<1>2. Inv /\ [Next]_vars => Inv'
  BY FocusStays, RouteSteps, RouteStep
<1>3. Inv => PeersAreThemselves
  <2>1. ASSUME Routes!CallsKnow PROVE Routes!ReachableIsReached
    BY <2>1 DEF Routes!CallsKnow, Routes!ReachableIsReached, Routes!At
  <2> QED
    BY <2>1 DEF Routes!RouteInv, Routes!RoutesLeadToThePeer, PinKnows, PeersAreThemselves
<1> QED
  BY <1>1, <1>2, <1>3, PTL DEF Spec

=============================================================================
