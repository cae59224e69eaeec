------------------------ MODULE DroneIdentity_proofs ------------------------
(***************************************************************************)
(* Proofs about hardware readings and about DroneIdentity.                 *)
(*                                                                         *)
(* The first part says what a verdict of compare_hardware can be trusted   *)
(* for, for every set of kinds and every digest.  The second shows, for    *)
(* any machines, disks, settings and bounds, that an identity stays on the *)
(* machine that recorded it and takes nothing from another one.  Its       *)
(* hypothesis is UniqueHardware: no two machines own the same identifier.  *)
(*                                                                         *)
(* IdentityInv says of every disk what may be on it, and of every machine  *)
(* what its process knows of its disk at the step it is at.  The lemmas    *)
(* named XKnows show that a step keeps that of one disk and one process,   *)
(* as plain records; LocalStep carries it to the machines that share       *)
(* nothing but installations with it.                                      *)
(***************************************************************************)
EXTENDS DroneIdentity, HardwareReadings, TLAPS

-----------------------------------------------------------------------------
(* What a verdict of compare_hardware can be trusted for, for every set of *)
(* kinds and every digest.                                                 *)

\* Evidence is a function from kinds to digests (HardwareSnapshot.components),
\* and without a kind it is none.
LEMMA EvidenceShape ==
  ASSUME NEW e \in Evidence
  PROVE  /\ DOMAIN e \subseteq Kind
         /\ \A k \in DOMAIN e : e[k] \in Digest
         /\ e = [k \in DOMAIN e |-> e[k]]
         /\ DOMAIN e = {} => e = NoEvidence
BY DEF Evidence, NoEvidence

\* Evidence that loses one kind is evidence, and keeps all it says of the others.
LEMMA WithoutEvidence ==
  ASSUME NEW e \in Evidence, NEW k \in Kind
  PROVE  /\ Without(e, k) \in Evidence
         /\ DOMAIN Without(e, k) = DOMAIN e \ {k}
         /\ \A i \in DOMAIN e \ {k} : Without(e, k)[i] = e[i]
<1>1. DOMAIN e \ {k} \in SUBSET Kind  BY EvidenceShape
<1>2. Without(e, k) \in [DOMAIN e \ {k} -> Digest]  BY EvidenceShape DEF Without
<1> QED  BY <1>1, <1>2 DEF Evidence, Without

\* A verdict of "same" means that something was compared and nothing that was
\* compared differs.
LEMMA SameMeansAgreement ==
  ASSUME NEW e \in Evidence, NEW r \in Snapshot, Compare(e, r) = "same"
  PROVE  /\ ~r.ambiguous /\ e # NoEvidence /\ r.components # NoEvidence
         /\ \A k \in DOMAIN e \cap DOMAIN r.components : e[k] = r.components[k]
<1> DEFINE c == r.components
           p == Comparable(Primary, e, c)
           s == Comparable(Secondary, e, c)
<1>0. c \in Evidence  BY DEF Snapshot
<1>1. ~r.ambiguous /\ e # NoEvidence  BY DEF Compare
<1>2. p # {} => Agree(p, e, c) /\ Agree(s, e, c)  BY <1>1 DEF Compare, Judge
<1>3. p = {} => s # {} /\ Agree(s, e, c)  BY <1>1 DEF Compare, Judge
<1>4. \A k \in DOMAIN e \cap DOMAIN c : k \in p \/ k \in s
      BY <1>0, EvidenceShape DEF Comparable, Kind
<1>5. \A k \in DOMAIN e \cap DOMAIN c : e[k] = c[k]  BY <1>2, <1>3, <1>4 DEF Agree
<1>6. c # NoEvidence
  <2>1. DOMAIN NoEvidence = {}  BY DEF NoEvidence
  <2>2. p # {} \/ s # {}  BY <1>3
  <2> QED  BY <2>1, <2>2 DEF Comparable
<1> QED  BY <1>1, <1>5, <1>6

\* Whatever agrees everywhere is judged the same machine or not judged at all.
LEMMA AgreementIsNeverNew ==
  ASSUME NEW e \in Evidence, NEW r \in Snapshot, ~r.ambiguous, e # NoEvidence,
         \A k \in DOMAIN e \cap DOMAIN r.components : e[k] = r.components[k]
  PROVE  Compare(e, r) \in {"same", "insufficient"}
<1> DEFINE c == r.components
           p == Comparable(Primary, e, c)
           s == Comparable(Secondary, e, c)
<1>1. Agree(p, e, c) /\ Agree(s, e, c)  BY DEF Agree, Comparable
<1>2. Judge(p, e, c) = "same" /\ Judge(s, e, c) = "same"  BY <1>1 DEF Judge
<1> QED  BY <1>1, <1>2 DEF Compare

\* The property of the run, for every set of kinds and digests: identifiers a
\* reading loses are never taken for new hardware.
THEOREM MissingNeverNew == ReadingSpec => MissingIsNeverNew
<1> DEFINE Inv == stored \in Evidence /\ reading \in Snapshot
<1>1. ReadingInit => Inv  BY DEF ReadingInit
<1>2. Inv /\ [ReadingNext]_readingVars => Inv'
  <2> SUFFICES ASSUME Inv, [ReadingNext]_readingVars PROVE Inv'  OBVIOUS
  <2>1. ASSUME NEW k \in Kind, Lose(k) PROVE Inv'
    <3>1. Without(reading.components, k) \in Evidence  BY WithoutEvidence DEF Snapshot
    <3> QED  BY <2>1, <3>1 DEF Lose, Snapshot
  <2>2. CASE Blur  BY <2>2 DEF Blur, Snapshot
  <2>3. CASE UNCHANGED readingVars  BY <2>3 DEF readingVars
  <2> QED  BY <2>1, <2>2, <2>3 DEF ReadingNext
<1>3. Inv /\ [ReadingNext]_readingVars => [Verdict = "same" => Verdict' \in {"same", "insufficient", "contradictory"}]_readingVars
  <2> SUFFICES ASSUME Inv, ReadingNext, Verdict = "same"
               PROVE  Verdict' \in {"same", "insufficient", "contradictory"}
      OBVIOUS
  <2> DEFINE c == reading.components
  <2>1. /\ ~reading.ambiguous /\ stored # NoEvidence
        /\ \A k \in DOMAIN stored \cap DOMAIN c : stored[k] = c[k]
        BY SameMeansAgreement DEF Verdict
  <2>2. ASSUME NEW k \in Kind, Lose(k)
        PROVE  Verdict' \in {"same", "insufficient", "contradictory"}
    <3>1. c \in Evidence  BY DEF Snapshot
    <3>2. reading' = [reading EXCEPT !.components = Without(c, k)] /\ stored' = stored
          BY <2>2 DEF Lose
    <3>3. /\ reading' \in Snapshot /\ reading'.components = Without(c, k)
          /\ reading'.ambiguous = reading.ambiguous
          BY <3>1, <3>2, WithoutEvidence DEF Snapshot
    <3>4. \A i \in DOMAIN stored \cap DOMAIN reading'.components : stored[i] = reading'.components[i]
      <4>1. /\ DOMAIN Without(c, k) = DOMAIN c \ {k}
            /\ \A i \in DOMAIN c \ {k} : Without(c, k)[i] = c[i]
            BY <3>1, WithoutEvidence
      <4> QED  BY <2>1, <3>3, <4>1
    <3>5. Compare(stored, reading') \in {"same", "insufficient"}
          BY <2>1, <3>3, <3>4, AgreementIsNeverNew
    <3> QED  BY <3>2, <3>5 DEF Verdict
  <2>3. CASE Blur
    <3>1. reading'.ambiguous  BY <2>3 DEF Blur, Snapshot
    <3> QED  BY <2>3, <3>1 DEF Verdict, Compare, Blur
  <2> QED  BY <2>2, <2>3 DEF ReadingNext
<1> QED  BY <1>1, <1>2, <1>3, PTL DEF ReadingSpec, MissingIsNeverNew

\* A machine is never taken for another one by readings of its own hardware:
\* if both the recorded and the present evidence are parts of what the machine
\* owns, the verdict keeps the identity or holds it, whichever parts they are.
THEOREM OwnHardwareIsNeverNew ==
  ASSUME NEW owned \in Evidence, NEW e \in Evidence, NEW r \in Snapshot,
         \A k \in DOMAIN e : k \in DOMAIN owned /\ e[k] = owned[k],
         \A k \in DOMAIN r.components : k \in DOMAIN owned /\ r.components[k] = owned[k]
  PROVE  Compare(e, r) # "different"
<1>1. CASE r.ambiguous \/ e = NoEvidence  BY <1>1 DEF Compare
<1>2. CASE ~r.ambiguous /\ e # NoEvidence
  <2>1. Compare(e, r) \in {"same", "insufficient"}  BY <1>2, AgreementIsNeverNew
  <2> QED  BY <2>1
<1> QED  BY <1>1, <1>2

\* A disk is never at home on a machine whose identifiers are all others: the
\* verdict "same" needs an identifier both machines own.
THEOREM OtherHardwareIsNeverSame ==
  ASSUME NEW e \in Evidence, NEW r \in Snapshot,
         \A k \in DOMAIN e \cap DOMAIN r.components : e[k] # r.components[k]
  PROVE  Compare(e, r) # "same"
<1> SUFFICES ASSUME Compare(e, r) = "same" PROVE FALSE  OBVIOUS
<1> DEFINE c == r.components
           p == Comparable(Primary, e, c)
           s == Comparable(Secondary, e, c)
<1>1. DOMAIN e \cap DOMAIN c = {}  BY SameMeansAgreement
<1>2. p = {} /\ s = {}  BY <1>1 DEF Comparable
<1>3. ~r.ambiguous /\ e # NoEvidence  BY SameMeansAgreement
<1> QED  BY <1>2, <1>3 DEF Compare

-----------------------------------------------------------------------------
(* The shapes of disks, processes and settings.                            *)

\* Values that were drawn, or none.
Drawn == {NoToken} \cup {t \in Token : t[2] <= drawn[t[1]]}

PartOf(hw, own) == \A k \in DOMAIN hw : k \in DOMAIN own /\ hw[k] = own[k]

BindingShape(b, T) ==
  /\ DOMAIN b = {"kind", "inst", "id", "fp", "hw", "retired", "pending"}
  /\ b.kind \in {"none", "ok", "corrupt"} /\ b.inst \in T /\ b.id \in T /\ b.hw \in Evidence /\ b.retired \subseteq T

JournalShape(j, T) ==
  /\ DOMAIN j = {"kind", "reason", "prevFp", "prevId", "hw", "retired", "newId", "held"}
  /\ j.kind \in {"none", "ok", "corrupt"} /\ j.prevId \in T /\ j.newId \in T /\ j.hw \in Evidence

DiskShape(s, T) ==
  /\ DOMAIN s = {"bootable", "binding", "journal", "marker", "auth", "key", "crt", "file", "trust", "access", "node", "down"}
  /\ BindingShape(s.binding, T) /\ JournalShape(s.journal, T) /\ s.file \in T /\ DOMAIN s.trust = Part

\* What follows a generated certificate, and a released node.
ProcShape(p, T, own) ==
  /\ DOMAIN p = {"pc", "state", "id", "reading", "task", "resumed", "admin", "prior", "bound", "next", "token", "why",
                 "held", "rot", "rotToken"}
  /\ p.id \in T /\ p.prior.id \in T /\ p.prior.retired \subseteq T /\ p.token \in T
  /\ p.reading \in Snapshot /\ PartOf(p.reading.components, own) /\ BindingShape(p.bound, T)
  /\ p.pc \in {"generate", "certificate"} => p.next \in {"bind", "reissued", "record", "migrate"}
  /\ p.pc \in {"release", "up"} => p.next \in {"verify", "restarting"}

SiteShape ==
  /\ DOMAIN site = {"image", "move", "crash", "fault", "request", "tokens", "tailscale", "pinned", "readings", "legacy"}
  /\ site.tokens \in 0 .. MaxToken /\ site.pinned \in (Machine \X {0}) \cup {NoToken}
  /\ site.readings \subseteq [kinds : SUBSET Kind, ambiguous : BOOLEAN]

-----------------------------------------------------------------------------
(* Where an installation is at home.                                       *)

Bound(s) == s.binding.kind = "ok"
Has(s, i) == Bound(s) /\ s.binding.inst = i
NoHardware(s) == s.binding.hw = NoEvidence
Free(s) == Bound(s) /\ NoHardware(s) /\ s.journal.kind = "none"
Traceless(s) == (\A part \in Part : s.trust[part] = NoToken) /\ s.access = NoToken /\ s.node = NoToken

\* An installation without hardware beside an unfinished provisioning, or what
\* is left of one: it will not be used again.
Stuck(e) ==
  /\ NoHardware(disk[e]) /\ disk[e].journal.kind # "none"
  /\ \A n \in Machine : where[n] = e => proc[n].pc # "unjournal"

\* The installations that nothing is recorded of and that only d has in use.
SoleOn ==
  [d \in Disk |-> excused \cup {i \in Drawn \ {NoToken} :
                     home[i] = "nowhere" /\ \A e \in Disk \ {d} : Has(disk[e], i) => Stuck(e)}]
\* The hardware an installation may be bound to: a part of what the machine
\* owns where it is at home, or anything if it is excused.
Rightful ==
  {w \in Token \X Evidence :
     w[1] \in excused \/ (home[w[1]] \in Machine /\ PartOf(w[2], Owned[home[w[1]]]))}
\* The installations that machine m may use.
Native == [m \in Machine |-> {i \in Token : home[i] = m} \cup SoleOn[where[m]]]

-----------------------------------------------------------------------------
(* What is known of disk state s, where S are the installations in use on  *)
(* that disk only and W the hardware that installations may be bound to.   *)

DiskKnows(s, S, W) ==
  LET b == s.binding
  IN  /\ Bound(s) =>
           /\ b.inst # NoToken
           /\ ~NoHardware(s) => <<b.inst, b.hw>> \in W
           /\ s.journal.kind = "none" /\ NoHardware(s) => b.inst \in S
           /\ (\A part \in Part : s.trust[part] \in {NoToken, b.inst}) /\ s.access \in {NoToken, b.inst}
           /\ s.node \in {NoToken, b.inst} \/ b.pending
           /\ b.id \notin b.retired
      /\ b.kind = "none" /\ s.journal.kind = "none" /\ ~Present(s) => Traceless(s)
      /\ ~Bound(s) => b.retired = {}
      /\ s.journal.kind = "ok" =>
           /\ s.journal.reason = "initial" => Traceless(s) /\ b.retired = {} /\ s.journal.newId = NoToken
           /\ s.journal.newId # NoToken => s.journal.newId \notin b.retired

\* What is known of it if the daemon runs, where N are the machine's own
\* installations: it was permitted to.
DaemonKnows(runs, s, N) ==
  runs =>
    /\ Bound(s) /\ s.binding.inst \in N /\ s.node \in N \cup {NoToken}
    /\ s.journal.kind = "ok" => s.journal.reason # "initial"

-----------------------------------------------------------------------------
(* What process p knows of the disk state s it works on.                   *)

At(p, steps) == p.pc \in steps
Then(p, steps, next) == p.pc \in steps /\ p.next = next

\* ensure_identity with a binding in memory.
Verifies(p) ==
  \/ At(p, {"adopt", "rebind", "consume", "verify", "reissued", "reconcile", "retry", "save"})
  \/ Then(p, {"release", "up"}, "verify") \/ Then(p, {"generate", "certificate"}, "reissued")
VerifyKnows(s, p, N) ==
  Verifies(p) =>
    /\ Bound(s) /\ p.bound.kind = "ok" /\ p.bound.inst = s.binding.inst /\ p.bound.hw = s.binding.hw
    /\ p.bound.retired = s.binding.retired /\ p.bound.id \notin p.bound.retired
    /\ s.journal.kind # "ok" /\ (s.journal.kind = "corrupt" => ~NoHardware(s))
    /\ s.node \in {NoToken, s.binding.inst} \/ p.bound.pending
    /\ IF p.pc = "rebind" THEN s.auth # NoToken /\ ~NoHardware(s) ELSE s.binding.inst \in N
    /\ p.pc = "adopt" => NoHardware(s)
    /\ At(p, {"adopt", "rebind"}) => s.journal.kind = "none"
    /\ At(p, {"retry", "save"}) => p.id = p.bound.id

\* _migrate_existing: an installation that had no binding.
Migrates(p) == p.pc = "migrate" \/ Then(p, {"generate", "certificate"}, "migrate")
MigrateKnows(s, p) == Migrates(p) => s.binding.kind = "none" /\ s.journal.kind = "none"

\* _provision, up to its journal; up to the new id; and up to the new binding.
JournalKnows(s, p) ==
  /\ p.pc = "revoke" => Destructive(p)
  /\ At(p, {"revoke", "journal"}) =>
       /\ p.resumed => s.journal.kind = "ok" /\ s.journal.reason = p.task /\ p.prior.retired = s.binding.retired
       /\ p.task = "initial" /\ ~p.resumed => s.binding.kind = "none" /\ Traceless(s) /\ p.prior.retired = {}
Unchosen == {"retire", "retireCertificate", "retired", "resetRoster", "resetPins", "resetCredentials",
             "choose", "writeId", "recordId"}
Binds(p) == At(p, {"certify", "bind"}) \/ Then(p, {"generate", "certificate"}, "bind")
ProvisionKnows(s, p) ==
  /\ At(p, Unchosen) /\ s.journal.newId # NoToken => s.journal.newId \notin p.prior.retired
  /\ At(p, Unchosen \cup {"resetTailnet"}) => Destructive(p)
  /\ At(p, Unchosen \cup {"resetTailnet"}) \/ Binds(p) => s.journal.kind = "ok" /\ s.journal.reason = p.task
  /\ p.pc = "recordId" => p.token \notin p.prior.retired \cup s.binding.retired
  /\ p.pc = "resetTailnet" \/ Binds(p) =>
       IF Destructive(p) THEN p.id = s.journal.newId /\ p.id \notin p.prior.retired ELSE p.prior.retired = {}
  /\ Binds(p) /\ Destructive(p) => s.node = NoToken \/ s.journal.held
ResetKnows(s, p) ==
  LET past == At(p, {"choose", "writeId", "recordId", "resetTailnet"}) \/ (Binds(p) /\ Destructive(p))
  IN  /\ past \/ At(p, {"resetPins", "resetCredentials"}) => s.trust["roster"] = NoToken /\ s.access = NoToken
      /\ past \/ p.pc = "resetCredentials" => s.trust["pins"] = NoToken
      /\ past => s.trust["credentials"] = NoToken

\* What was just bound, and the Drone that serves.
BoundKnows(s, p, N, S) ==
  At(p, {"unjournal", "unmark"}) =>
    /\ Bound(s) /\ p.id = s.binding.id /\ s.binding.inst \in IF NoHardware(s) THEN S ELSE N
    /\ p.pc = "unmark" => s.journal.kind = "none"
Serves(p) == At(p, {"serve", "serving", "discard", "record"}) \/ Then(p, {"generate", "certificate"}, "record")
ServeKnows(s, p, N) ==
  /\ Serves(p) /\ p.state = "ready" =>
       Bound(s) /\ s.binding.inst \in N /\ s.journal.kind # "ok" /\ p.id \notin s.binding.retired
  /\ p.pc = "discard" => Bound(s) /\ ~NoHardware(s)

ProcKnows(s, p, N, S) ==
  /\ p.pc = "certificate" => p.token # NoToken
  /\ p.rot # "idle" => p.rotToken # NoToken
  /\ VerifyKnows(s, p, N) /\ MigrateKnows(s, p) /\ JournalKnows(s, p) /\ ProvisionKnows(s, p) /\ ResetKnows(s, p)
  /\ BoundKnows(s, p, N, S) /\ ServeKnows(s, p, N)

-----------------------------------------------------------------------------
(* The invariant.                                                          *)

\* All that is known of a machine, of the state s of its disk, its process p
\* and whether its daemon runs.
Shaped(s, p, T, own) == DiskShape(s, T) /\ ProcShape(p, T, own)
Known(s, p, runs, N, S, W) == DiskKnows(s, S, W) /\ DaemonKnows(runs, s, N) /\ ProcKnows(s, p, N, S)

Shapes ==
  /\ disk = [d \in Disk |-> disk[d]] /\ proc = [m \in Machine |-> proc[m]]
  /\ daemon \in [Machine -> BOOLEAN] /\ drawn \in [Machine -> 0 .. MaxToken]
  /\ where \in [Machine -> Disk] /\ \A m, n \in Machine : where[m] = where[n] => m = n
  /\ home \in [Token -> Machine \cup {"nowhere"}] /\ \A i \in Token \ Drawn : home[i] = "nowhere"
  /\ SiteShape
DisksKnow == \A d \in Disk : DiskShape(disk[d], Drawn) /\ DiskKnows(disk[d], SoleOn[d], Rightful)
MachinesKnow ==
  \A m \in Machine :
    /\ ProcShape(proc[m], Drawn, Owned[m]) /\ DaemonKnows(daemon[m], disk[where[m]], Native[m])
    /\ ProcKnows(disk[where[m]], proc[m], Native[m], SoleOn[where[m]])
IdentityInv == Shapes /\ DisksKnow /\ MachinesKnow

-----------------------------------------------------------------------------
(* What one step keeps of what is known of a machine, for any disk state s *)
(* and process p: first the steps of _provision, then those that verify    *)
(* and serve, those that judge, and those with a new binding.              *)

\* A step from disk state s and process p to s2 and p2 leaves the disk's
\* installation, and leaves it out of use if it was.
Stays(s, p, s2, p2) ==
  Bound(s2) =>
    /\ Bound(s) /\ s2.binding.inst = s.binding.inst
    /\ NoHardware(s) /\ s.journal.kind # "none" /\ p.pc # "unjournal" =>
         NoHardware(s2) /\ s2.journal.kind # "none" /\ p2.pc # "unjournal"

\* An installation that is used on this machine, with what hardware is recorded.
MayBind(i, hw, N, S, W) == i # NoToken /\ i \in N /\ IF hw = NoEvidence THEN i \in S ELSE <<i, hw>> \in W
\* What a step with a new binding may add to the machine's own.
Wider(N, W, N2, S2, W2) == N \subseteq N2 /\ S2 \subseteq N2 /\ W \subseteq W2

\* _revoke_inherited_access, which may fail, takes nothing but sessions.
LEMMA RevokeKnows ==
  ASSUME NEW s, NEW p, NEW r, NEW N, NEW S, NEW W, NEW T, NEW O, Shaped(s, p, T, O), Known(s, p, r, N, S, W),
         p.pc = "revoke",
         NEW u \in {s, [s EXCEPT !.access = NoToken]}
  PROVE  LET s2 == u
             p2 == [p EXCEPT !.pc = "journal"]
         IN  Shaped(s2, p2, T, O) /\ Known(s2, p2, r, N, S, W) /\ Stays(s, p, s2, p2)
<1> DEFINE s2 == u
           p2 == [p EXCEPT !.pc = "journal"]
<1>1. DiskShape(s2, T)  BY DEF Shaped, DiskShape, ProcShape, BindingShape, JournalShape
<1>2. ProcShape(p2, T, O)  BY DEF Shaped, DiskShape, ProcShape, BindingShape, JournalShape
<1>3. DiskKnows(s2, S, W) /\ DaemonKnows(r, s2, N)
      BY DEF Shaped, DiskShape, ProcShape, BindingShape, JournalShape, Known, DiskKnows, DaemonKnows,
         ProcKnows, VerifyKnows, MigrateKnows, JournalKnows, ProvisionKnows, ResetKnows, BoundKnows, ServeKnows,
         Verifies, Migrates, Binds, Serves, Unchosen, At, Then, Bound, NoHardware, Present, Destructive, Traceless
<1>4. ProcKnows(s2, p2, N, S)
      BY DEF Shaped, DiskShape, ProcShape, BindingShape, JournalShape, Known, DiskKnows,
         ProcKnows, VerifyKnows, MigrateKnows, JournalKnows, ProvisionKnows, ResetKnows, BoundKnows, ServeKnows,
         Verifies, Migrates, Binds, Serves, Unchosen, At, Then, Bound, NoHardware, Present, Destructive, Traceless
<1>5. Stays(s, p, s2, p2)
      BY DEF Shaped, DiskShape, ProcShape, BindingShape, JournalShape,
         Known, ProcKnows, ProvisionKnows, VerifyKnows, Verifies, Unchosen, Binds, At, Then, Stays, Bound,
         NoHardware
<1> QED  BY <1>1, <1>2, <1>3, <1>4, <1>5 DEF Shaped, Known

\* A run that begins writes its journal: a first run finds no trace of another
\* installation, a destructive one retires first.
LEMMA RecordJournalKnows ==
  ASSUME NEW s, NEW p, NEW r, NEW N, NEW S, NEW W, NEW T, NEW O, Shaped(s, p, T, O), Known(s, p, r, N, S, W),
         p.pc = "journal", ~p.resumed, NEW fp, NEW id \in T, NEW hw \in Evidence, NoToken \in T
  PROVE  LET s2 == [s EXCEPT !.journal = [kind |-> "ok", reason |-> p.task, prevFp |-> fp, prevId |-> id, hw |-> hw,
                                         retired |-> FALSE, newId |-> NoToken, held |-> FALSE]]
             p2 == [p EXCEPT !.pc = IF Destructive(p) THEN "retire" ELSE "certify", !.id = p.id]
         IN  Shaped(s2, p2, T, O) /\ Known(s2, p2, r, N, S, W) /\ Stays(s, p, s2, p2)
<1> DEFINE s2 == [s EXCEPT !.journal = [kind |-> "ok", reason |-> p.task, prevFp |-> fp, prevId |-> id, hw |-> hw,
                                         retired |-> FALSE, newId |-> NoToken, held |-> FALSE]]
           p2 == [p EXCEPT !.pc = IF Destructive(p) THEN "retire" ELSE "certify", !.id = p.id]
<1>1. DiskShape(s2, T)  BY DEF Shaped, DiskShape, ProcShape, BindingShape, JournalShape
<1>2. ProcShape(p2, T, O)  BY DEF Shaped, DiskShape, ProcShape, BindingShape, JournalShape
<1>3. DiskKnows(s2, S, W) /\ DaemonKnows(r, s2, N)
      BY DEF Shaped, DiskShape, ProcShape, BindingShape, JournalShape, Known, DiskKnows, DaemonKnows,
         ProcKnows, VerifyKnows, MigrateKnows, JournalKnows, ProvisionKnows, ResetKnows, BoundKnows, ServeKnows,
         Verifies, Migrates, Binds, Serves, Unchosen, At, Then, Bound, NoHardware, Present, Destructive, Traceless
<1>4. ProcKnows(s2, p2, N, S)
      BY DEF Shaped, DiskShape, ProcShape, BindingShape, JournalShape, Known, DiskKnows,
         ProcKnows, VerifyKnows, MigrateKnows, JournalKnows, ProvisionKnows, ResetKnows, BoundKnows, ServeKnows,
         Verifies, Migrates, Binds, Serves, Unchosen, At, Then, Bound, NoHardware, Present, Destructive, Traceless
<1>5. Stays(s, p, s2, p2)
      BY DEF Shaped, DiskShape, ProcShape, BindingShape, JournalShape,
         Known, ProcKnows, ProvisionKnows, VerifyKnows, Verifies, Unchosen, Binds, At, Then, Stays, Bound,
         NoHardware
<1> QED  BY <1>1, <1>2, <1>3, <1>4, <1>5 DEF Shaped, Known

\* A run that is resumed keeps its journal, and goes on from there.
LEMMA ResumeJournalKnows ==
  ASSUME NEW s, NEW p, NEW r, NEW N, NEW S, NEW W, NEW T, NEW O, Shaped(s, p, T, O), Known(s, p, r, N, S, W),
         p.pc = "journal", p.resumed
  PROVE  LET s2 == s
             p2 == [p EXCEPT !.pc = IF Destructive(p) THEN "retire" ELSE "certify",
                               !.id = IF ~Destructive(p) /\ s.journal.newId # NoToken THEN s.journal.newId ELSE p.id]
         IN  Shaped(s2, p2, T, O) /\ Known(s2, p2, r, N, S, W) /\ Stays(s, p, s2, p2)
<1> DEFINE s2 == s
           p2 == [p EXCEPT !.pc = IF Destructive(p) THEN "retire" ELSE "certify",
                               !.id = IF ~Destructive(p) /\ s.journal.newId # NoToken THEN s.journal.newId ELSE p.id]
<1>1. DiskShape(s2, T)  BY DEF Shaped, DiskShape, ProcShape, BindingShape, JournalShape
<1>2. ProcShape(p2, T, O)  BY DEF Shaped, DiskShape, ProcShape, BindingShape, JournalShape
<1>3. DiskKnows(s2, S, W) /\ DaemonKnows(r, s2, N)
      BY DEF Shaped, DiskShape, ProcShape, BindingShape, JournalShape, Known, DiskKnows, DaemonKnows,
         ProcKnows, VerifyKnows, MigrateKnows, JournalKnows, ProvisionKnows, ResetKnows, BoundKnows, ServeKnows,
         Verifies, Migrates, Binds, Serves, Unchosen, At, Then, Bound, NoHardware, Present, Destructive, Traceless
<1>4. ProcKnows(s2, p2, N, S)
      BY DEF Shaped, DiskShape, ProcShape, BindingShape, JournalShape, Known, DiskKnows,
         ProcKnows, VerifyKnows, MigrateKnows, JournalKnows, ProvisionKnows, ResetKnows, BoundKnows, ServeKnows,
         Verifies, Migrates, Binds, Serves, Unchosen, At, Then, Bound, NoHardware, Present, Destructive, Traceless
<1>5. Stays(s, p, s2, p2)
      BY DEF Shaped, DiskShape, ProcShape, BindingShape, JournalShape,
         Known, ProcKnows, ProvisionKnows, VerifyKnows, Verifies, Unchosen, Binds, At, Then, Stays, Bound,
         NoHardware
<1> QED  BY <1>1, <1>2, <1>3, <1>4, <1>5 DEF Shaped, Known

\* _retire_old_identity unlinks the key first.
LEMMA RetireKnows ==
  ASSUME NEW s, NEW p, NEW r, NEW N, NEW S, NEW W, NEW T, NEW O, Shaped(s, p, T, O), Known(s, p, r, N, S, W),
         p.pc = "retire"
  PROVE  LET s2 == [s EXCEPT !.key = NoToken]
             p2 == [p EXCEPT !.pc = "retireCertificate"]
         IN  Shaped(s2, p2, T, O) /\ Known(s2, p2, r, N, S, W) /\ Stays(s, p, s2, p2)
<1> DEFINE s2 == [s EXCEPT !.key = NoToken]
           p2 == [p EXCEPT !.pc = "retireCertificate"]
<1>1. DiskShape(s2, T)  BY DEF Shaped, DiskShape, ProcShape, BindingShape, JournalShape
<1>2. ProcShape(p2, T, O)  BY DEF Shaped, DiskShape, ProcShape, BindingShape, JournalShape
<1>3. DiskKnows(s2, S, W) /\ DaemonKnows(r, s2, N)
      BY DEF Shaped, DiskShape, ProcShape, BindingShape, JournalShape, Known, DiskKnows, DaemonKnows,
         ProcKnows, VerifyKnows, MigrateKnows, JournalKnows, ProvisionKnows, ResetKnows, BoundKnows, ServeKnows,
         Verifies, Migrates, Binds, Serves, Unchosen, At, Then, Bound, NoHardware, Present, Destructive, Traceless
<1>4. ProcKnows(s2, p2, N, S)
      BY DEF Shaped, DiskShape, ProcShape, BindingShape, JournalShape, Known, DiskKnows,
         ProcKnows, VerifyKnows, MigrateKnows, JournalKnows, ProvisionKnows, ResetKnows, BoundKnows, ServeKnows,
         Verifies, Migrates, Binds, Serves, Unchosen, At, Then, Bound, NoHardware, Present, Destructive, Traceless
<1>5. Stays(s, p, s2, p2)
      BY DEF Shaped, DiskShape, ProcShape, BindingShape, JournalShape,
         Known, ProcKnows, ProvisionKnows, VerifyKnows, Verifies, Unchosen, Binds, At, Then, Stays, Bound,
         NoHardware
<1> QED  BY <1>1, <1>2, <1>3, <1>4, <1>5 DEF Shaped, Known

\* _retire_old_identity has nothing to retire.
LEMMA RetiredKnows ==
  ASSUME NEW s, NEW p, NEW r, NEW N, NEW S, NEW W, NEW T, NEW O, Shaped(s, p, T, O), Known(s, p, r, N, S, W),
         p.pc = "retire"
  PROVE  LET s2 == s
             p2 == [p EXCEPT !.pc = "retired"]
         IN  Shaped(s2, p2, T, O) /\ Known(s2, p2, r, N, S, W) /\ Stays(s, p, s2, p2)
<1> DEFINE s2 == s
           p2 == [p EXCEPT !.pc = "retired"]
<1>1. DiskShape(s2, T)  BY DEF Shaped, DiskShape, ProcShape, BindingShape, JournalShape
<1>2. ProcShape(p2, T, O)  BY DEF Shaped, DiskShape, ProcShape, BindingShape, JournalShape
<1>3. DiskKnows(s2, S, W) /\ DaemonKnows(r, s2, N)
      BY DEF Shaped, DiskShape, ProcShape, BindingShape, JournalShape, Known, DiskKnows, DaemonKnows,
         ProcKnows, VerifyKnows, MigrateKnows, JournalKnows, ProvisionKnows, ResetKnows, BoundKnows, ServeKnows,
         Verifies, Migrates, Binds, Serves, Unchosen, At, Then, Bound, NoHardware, Present, Destructive, Traceless
<1>4. ProcKnows(s2, p2, N, S)
      BY DEF Shaped, DiskShape, ProcShape, BindingShape, JournalShape, Known, DiskKnows,
         ProcKnows, VerifyKnows, MigrateKnows, JournalKnows, ProvisionKnows, ResetKnows, BoundKnows, ServeKnows,
         Verifies, Migrates, Binds, Serves, Unchosen, At, Then, Bound, NoHardware, Present, Destructive, Traceless
<1>5. Stays(s, p, s2, p2)
      BY DEF Shaped, DiskShape, ProcShape, BindingShape, JournalShape,
         Known, ProcKnows, ProvisionKnows, VerifyKnows, Verifies, Unchosen, Binds, At, Then, Stays, Bound,
         NoHardware
<1> QED  BY <1>1, <1>2, <1>3, <1>4, <1>5 DEF Shaped, Known

\* _retire_old_identity unlinks the certificate after the key.
LEMMA RetireCertificateKnows ==
  ASSUME NEW s, NEW p, NEW r, NEW N, NEW S, NEW W, NEW T, NEW O, Shaped(s, p, T, O), Known(s, p, r, N, S, W),
         p.pc = "retireCertificate"
  PROVE  LET s2 == [s EXCEPT !.crt = NoToken]
             p2 == [p EXCEPT !.pc = "retired"]
         IN  Shaped(s2, p2, T, O) /\ Known(s2, p2, r, N, S, W) /\ Stays(s, p, s2, p2)
<1> DEFINE s2 == [s EXCEPT !.crt = NoToken]
           p2 == [p EXCEPT !.pc = "retired"]
<1>1. DiskShape(s2, T)  BY DEF Shaped, DiskShape, ProcShape, BindingShape, JournalShape
<1>2. ProcShape(p2, T, O)  BY DEF Shaped, DiskShape, ProcShape, BindingShape, JournalShape
<1>3. DiskKnows(s2, S, W) /\ DaemonKnows(r, s2, N)
      BY DEF Shaped, DiskShape, ProcShape, BindingShape, JournalShape, Known, DiskKnows, DaemonKnows,
         ProcKnows, VerifyKnows, MigrateKnows, JournalKnows, ProvisionKnows, ResetKnows, BoundKnows, ServeKnows,
         Verifies, Migrates, Binds, Serves, Unchosen, At, Then, Bound, NoHardware, Present, Destructive, Traceless
<1>4. ProcKnows(s2, p2, N, S)
      BY DEF Shaped, DiskShape, ProcShape, BindingShape, JournalShape, Known, DiskKnows,
         ProcKnows, VerifyKnows, MigrateKnows, JournalKnows, ProvisionKnows, ResetKnows, BoundKnows, ServeKnows,
         Verifies, Migrates, Binds, Serves, Unchosen, At, Then, Bound, NoHardware, Present, Destructive, Traceless
<1>5. Stays(s, p, s2, p2)
      BY DEF Shaped, DiskShape, ProcShape, BindingShape, JournalShape,
         Known, ProcKnows, ProvisionKnows, VerifyKnows, Verifies, Unchosen, Binds, At, Then, Stays, Bound,
         NoHardware
<1> QED  BY <1>1, <1>2, <1>3, <1>4, <1>5 DEF Shaped, Known

\* The journal records that the old pair is gone.
LEMMA RecordRetiredKnows ==
  ASSUME NEW s, NEW p, NEW r, NEW N, NEW S, NEW W, NEW T, NEW O, Shaped(s, p, T, O), Known(s, p, r, N, S, W),
         p.pc = "retired"
  PROVE  LET s2 == [s EXCEPT !.journal.retired = TRUE]
             p2 == [p EXCEPT !.pc = "resetRoster"]
         IN  Shaped(s2, p2, T, O) /\ Known(s2, p2, r, N, S, W) /\ Stays(s, p, s2, p2)
<1> DEFINE s2 == [s EXCEPT !.journal.retired = TRUE]
           p2 == [p EXCEPT !.pc = "resetRoster"]
<1>1. DiskShape(s2, T)  BY DEF Shaped, DiskShape, ProcShape, BindingShape, JournalShape
<1>2. ProcShape(p2, T, O)  BY DEF Shaped, DiskShape, ProcShape, BindingShape, JournalShape
<1>3. DiskKnows(s2, S, W) /\ DaemonKnows(r, s2, N)
      BY DEF Shaped, DiskShape, ProcShape, BindingShape, JournalShape, Known, DiskKnows, DaemonKnows,
         ProcKnows, VerifyKnows, MigrateKnows, JournalKnows, ProvisionKnows, ResetKnows, BoundKnows, ServeKnows,
         Verifies, Migrates, Binds, Serves, Unchosen, At, Then, Bound, NoHardware, Present, Destructive, Traceless
<1>4. ProcKnows(s2, p2, N, S)
      BY DEF Shaped, DiskShape, ProcShape, BindingShape, JournalShape, Known, DiskKnows,
         ProcKnows, VerifyKnows, MigrateKnows, JournalKnows, ProvisionKnows, ResetKnows, BoundKnows, ServeKnows,
         Verifies, Migrates, Binds, Serves, Unchosen, At, Then, Bound, NoHardware, Present, Destructive, Traceless
<1>5. Stays(s, p, s2, p2)
      BY DEF Shaped, DiskShape, ProcShape, BindingShape, JournalShape,
         Known, ProcKnows, ProvisionKnows, VerifyKnows, Verifies, Unchosen, Binds, At, Then, Stays, Bound,
         NoHardware
<1> QED  BY <1>1, <1>2, <1>3, <1>4, <1>5 DEF Shaped, Known

\* reset_swarm_identity_state clears the roster and the sessions.
LEMMA ResetRosterKnows ==
  ASSUME NEW s, NEW p, NEW r, NEW N, NEW S, NEW W, NEW T, NEW O, Shaped(s, p, T, O), Known(s, p, r, N, S, W),
         p.pc = "resetRoster"
  PROVE  LET s2 == [s EXCEPT !.trust["roster"] = NoToken, !.access = NoToken]
             p2 == [p EXCEPT !.pc = "resetPins"]
         IN  Shaped(s2, p2, T, O) /\ Known(s2, p2, r, N, S, W) /\ Stays(s, p, s2, p2)
<1> DEFINE s2 == [s EXCEPT !.trust["roster"] = NoToken, !.access = NoToken]
           p2 == [p EXCEPT !.pc = "resetPins"]
<1>1. DiskShape(s2, T)  BY DEF Shaped, DiskShape, ProcShape, BindingShape, JournalShape, Part
<1>2. ProcShape(p2, T, O)  BY DEF Shaped, DiskShape, ProcShape, BindingShape, JournalShape, Part
<1>3. DiskKnows(s2, S, W) /\ DaemonKnows(r, s2, N)
      BY DEF Shaped, DiskShape, ProcShape, BindingShape, JournalShape, Known, DiskKnows, DaemonKnows,
         ProcKnows, VerifyKnows, MigrateKnows, JournalKnows, ProvisionKnows, ResetKnows, BoundKnows, ServeKnows,
         Verifies, Migrates, Binds, Serves, Unchosen, At, Then, Bound, NoHardware, Present, Destructive,
         Traceless, Part
<1>4. ProcKnows(s2, p2, N, S)
      BY DEF Shaped, DiskShape, ProcShape, BindingShape, JournalShape, Known, DiskKnows,
         ProcKnows, VerifyKnows, MigrateKnows, JournalKnows, ProvisionKnows, ResetKnows, BoundKnows, ServeKnows,
         Verifies, Migrates, Binds, Serves, Unchosen, At, Then, Bound, NoHardware, Present, Destructive,
         Traceless, Part
<1>5. Stays(s, p, s2, p2)
      BY DEF Shaped, DiskShape, ProcShape, BindingShape, JournalShape,
         Known, ProcKnows, ProvisionKnows, VerifyKnows, Verifies, Unchosen, Binds, At, Then, Stays, Bound,
         NoHardware, Part
<1> QED  BY <1>1, <1>2, <1>3, <1>4, <1>5 DEF Shaped, Known

\* _clear_pinned_peer_certificates clears the pins, after the roster.
LEMMA ResetPinsKnows ==
  ASSUME NEW s, NEW p, NEW r, NEW N, NEW S, NEW W, NEW T, NEW O, Shaped(s, p, T, O), Known(s, p, r, N, S, W),
         p.pc = "resetPins"
  PROVE  LET s2 == [s EXCEPT !.trust["pins"] = NoToken]
             p2 == [p EXCEPT !.pc = "resetCredentials"]
         IN  Shaped(s2, p2, T, O) /\ Known(s2, p2, r, N, S, W) /\ Stays(s, p, s2, p2)
<1> DEFINE s2 == [s EXCEPT !.trust["pins"] = NoToken]
           p2 == [p EXCEPT !.pc = "resetCredentials"]
<1>1. DiskShape(s2, T)  BY DEF Shaped, DiskShape, ProcShape, BindingShape, JournalShape, Part
<1>2. ProcShape(p2, T, O)  BY DEF Shaped, DiskShape, ProcShape, BindingShape, JournalShape, Part
<1>3. DiskKnows(s2, S, W) /\ DaemonKnows(r, s2, N)
      BY DEF Shaped, DiskShape, ProcShape, BindingShape, JournalShape, Known, DiskKnows, DaemonKnows,
         ProcKnows, VerifyKnows, MigrateKnows, JournalKnows, ProvisionKnows, ResetKnows, BoundKnows, ServeKnows,
         Verifies, Migrates, Binds, Serves, Unchosen, At, Then, Bound, NoHardware, Present, Destructive,
         Traceless, Part
<1>4. ProcKnows(s2, p2, N, S)
      BY DEF Shaped, DiskShape, ProcShape, BindingShape, JournalShape, Known, DiskKnows,
         ProcKnows, VerifyKnows, MigrateKnows, JournalKnows, ProvisionKnows, ResetKnows, BoundKnows, ServeKnows,
         Verifies, Migrates, Binds, Serves, Unchosen, At, Then, Bound, NoHardware, Present, Destructive,
         Traceless, Part
<1>5. Stays(s, p, s2, p2)
      BY DEF Shaped, DiskShape, ProcShape, BindingShape, JournalShape,
         Known, ProcKnows, ProvisionKnows, VerifyKnows, Verifies, Unchosen, Binds, At, Then, Stays, Bound,
         NoHardware, Part
<1> QED  BY <1>1, <1>2, <1>3, <1>4, <1>5 DEF Shaped, Known

\* _revoke_shared_credentials clears the rest of the trust: from here on the
\* disk has none.
LEMMA ResetCredentialsKnows ==
  ASSUME NEW s, NEW p, NEW r, NEW N, NEW S, NEW W, NEW T, NEW O, Shaped(s, p, T, O), Known(s, p, r, N, S, W),
         p.pc = "resetCredentials"
  PROVE  LET s2 == [s EXCEPT !.trust["credentials"] = NoToken]
             p2 == [p EXCEPT !.pc = "choose"]
         IN  Shaped(s2, p2, T, O) /\ Known(s2, p2, r, N, S, W) /\ Stays(s, p, s2, p2)
<1> DEFINE s2 == [s EXCEPT !.trust["credentials"] = NoToken]
           p2 == [p EXCEPT !.pc = "choose"]
<1>1. DiskShape(s2, T)  BY DEF Shaped, DiskShape, ProcShape, BindingShape, JournalShape, Part
<1>2. ProcShape(p2, T, O)  BY DEF Shaped, DiskShape, ProcShape, BindingShape, JournalShape, Part
<1>3. DiskKnows(s2, S, W) /\ DaemonKnows(r, s2, N)
      BY DEF Shaped, DiskShape, ProcShape, BindingShape, JournalShape, Known, DiskKnows, DaemonKnows,
         ProcKnows, VerifyKnows, MigrateKnows, JournalKnows, ProvisionKnows, ResetKnows, BoundKnows, ServeKnows,
         Verifies, Migrates, Binds, Serves, Unchosen, At, Then, Bound, NoHardware, Present, Destructive,
         Traceless, Part
<1>4. ProcKnows(s2, p2, N, S)
      BY DEF Shaped, DiskShape, ProcShape, BindingShape, JournalShape, Known, DiskKnows,
         ProcKnows, VerifyKnows, MigrateKnows, JournalKnows, ProvisionKnows, ResetKnows, BoundKnows, ServeKnows,
         Verifies, Migrates, Binds, Serves, Unchosen, At, Then, Bound, NoHardware, Present, Destructive,
         Traceless, Part
<1>5. Stays(s, p, s2, p2)
      BY DEF Shaped, DiskShape, ProcShape, BindingShape, JournalShape,
         Known, ProcKnows, ProvisionKnows, VerifyKnows, Verifies, Unchosen, Binds, At, Then, Stays, Bound,
         NoHardware, Part
<1> QED  BY <1>1, <1>2, <1>3, <1>4, <1>5 DEF Shaped, Known

\* _choose_device_id takes the id of the journal, which is not a retired one.
LEMMA ChooseKnows ==
  ASSUME NEW s, NEW p, NEW r, NEW N, NEW S, NEW W, NEW T, NEW O, Shaped(s, p, T, O), Known(s, p, r, N, S, W),
         p.pc = "choose", s.journal.newId # NoToken
  PROVE  LET s2 == s
             p2 == [p EXCEPT !.id = s.journal.newId, !.pc = "resetTailnet"]
         IN  Shaped(s2, p2, T, O) /\ Known(s2, p2, r, N, S, W) /\ Stays(s, p, s2, p2)
<1> DEFINE s2 == s
           p2 == [p EXCEPT !.id = s.journal.newId, !.pc = "resetTailnet"]
<1>1. DiskShape(s2, T)  BY DEF Shaped, DiskShape, ProcShape, BindingShape, JournalShape
<1>2. ProcShape(p2, T, O)  BY DEF Shaped, DiskShape, ProcShape, BindingShape, JournalShape
<1>3. DiskKnows(s2, S, W) /\ DaemonKnows(r, s2, N)
      BY DEF Shaped, DiskShape, ProcShape, BindingShape, JournalShape, Known, DiskKnows, DaemonKnows,
         ProcKnows, VerifyKnows, MigrateKnows, JournalKnows, ProvisionKnows, ResetKnows, BoundKnows, ServeKnows,
         Verifies, Migrates, Binds, Serves, Unchosen, At, Then, Bound, NoHardware, Present, Destructive, Traceless
<1>4. ProcKnows(s2, p2, N, S)
      BY DEF Shaped, DiskShape, ProcShape, BindingShape, JournalShape, Known, DiskKnows,
         ProcKnows, VerifyKnows, MigrateKnows, JournalKnows, ProvisionKnows, ResetKnows, BoundKnows, ServeKnows,
         Verifies, Migrates, Binds, Serves, Unchosen, At, Then, Bound, NoHardware, Present, Destructive, Traceless
<1>5. Stays(s, p, s2, p2)
      BY DEF Shaped, DiskShape, ProcShape, BindingShape, JournalShape,
         Known, ProcKnows, ProvisionKnows, VerifyKnows, Verifies, Unchosen, Binds, At, Then, Stays, Bound,
         NoHardware
<1> QED  BY <1>1, <1>2, <1>3, <1>4, <1>5 DEF Shaped, Known

\* _choose_device_id without an id in the journal unlinks the old one.
LEMMA UnlinkKnows ==
  ASSUME NEW s, NEW p, NEW r, NEW N, NEW S, NEW W, NEW T, NEW O, Shaped(s, p, T, O), Known(s, p, r, N, S, W),
         p.pc = "choose", s.journal.newId = NoToken, NoToken \in T
  PROVE  LET s2 == [s EXCEPT !.file = NoToken]
             p2 == [p EXCEPT !.pc = "writeId"]
         IN  Shaped(s2, p2, T, O) /\ Known(s2, p2, r, N, S, W) /\ Stays(s, p, s2, p2)
<1> DEFINE s2 == [s EXCEPT !.file = NoToken]
           p2 == [p EXCEPT !.pc = "writeId"]
<1>1. DiskShape(s2, T)  BY DEF Shaped, DiskShape, ProcShape, BindingShape, JournalShape
<1>2. ProcShape(p2, T, O)  BY DEF Shaped, DiskShape, ProcShape, BindingShape, JournalShape
<1>3. DiskKnows(s2, S, W) /\ DaemonKnows(r, s2, N)
      BY DEF Shaped, DiskShape, ProcShape, BindingShape, JournalShape, Known, DiskKnows, DaemonKnows,
         ProcKnows, VerifyKnows, MigrateKnows, JournalKnows, ProvisionKnows, ResetKnows, BoundKnows, ServeKnows,
         Verifies, Migrates, Binds, Serves, Unchosen, At, Then, Bound, NoHardware, Present, Destructive, Traceless
<1>4. ProcKnows(s2, p2, N, S)
      BY DEF Shaped, DiskShape, ProcShape, BindingShape, JournalShape, Known, DiskKnows,
         ProcKnows, VerifyKnows, MigrateKnows, JournalKnows, ProvisionKnows, ResetKnows, BoundKnows, ServeKnows,
         Verifies, Migrates, Binds, Serves, Unchosen, At, Then, Bound, NoHardware, Present, Destructive, Traceless
<1>5. Stays(s, p, s2, p2)
      BY DEF Shaped, DiskShape, ProcShape, BindingShape, JournalShape,
         Known, ProcKnows, ProvisionKnows, VerifyKnows, Verifies, Unchosen, Binds, At, Then, Stays, Bound,
         NoHardware
<1> QED  BY <1>1, <1>2, <1>3, <1>4, <1>5 DEF Shaped, Known

\* A fresh id is drawn, and written or not; it was never retired.
LEMMA WriteIdKnows ==
  ASSUME NEW s, NEW p, NEW r, NEW N, NEW S, NEW W, NEW T, NEW O, Shaped(s, p, T, O), Known(s, p, r, N, S, W),
         p.pc = "writeId",
         NEW t, t \notin T, NEW u, u = s \/ u = [s EXCEPT !.file = t]
  PROVE  LET s2 == u
             p2 == [p EXCEPT !.token = t, !.pc = "recordId"]
         IN  Shaped(s2, p2, T \cup {t}, O) /\ Known(s2, p2, r, N, S, W) /\ Stays(s, p, s2, p2)
<1> DEFINE s2 == u
           p2 == [p EXCEPT !.token = t, !.pc = "recordId"]
<1>1. DiskShape(s2, T \cup {t})  BY DEF Shaped, DiskShape, ProcShape, BindingShape, JournalShape
<1>2. ProcShape(p2, T \cup {t}, O)  BY DEF Shaped, DiskShape, ProcShape, BindingShape, JournalShape
<1>3. DiskKnows(s2, S, W) /\ DaemonKnows(r, s2, N)
      BY DEF Shaped, DiskShape, ProcShape, BindingShape, JournalShape, Known, DiskKnows, DaemonKnows,
         ProcKnows, VerifyKnows, MigrateKnows, JournalKnows, ProvisionKnows, ResetKnows, BoundKnows, ServeKnows,
         Verifies, Migrates, Binds, Serves, Unchosen, At, Then, Bound, NoHardware, Present, Destructive, Traceless
<1>4. ProcKnows(s2, p2, N, S)
      BY DEF Shaped, DiskShape, ProcShape, BindingShape, JournalShape, Known, DiskKnows,
         ProcKnows, VerifyKnows, MigrateKnows, JournalKnows, ProvisionKnows, ResetKnows, BoundKnows, ServeKnows,
         Verifies, Migrates, Binds, Serves, Unchosen, At, Then, Bound, NoHardware, Present, Destructive, Traceless
<1>5. Stays(s, p, s2, p2)
      BY DEF Shaped, DiskShape, ProcShape, BindingShape, JournalShape,
         Known, ProcKnows, ProvisionKnows, VerifyKnows, Verifies, Unchosen, Binds, At, Then, Stays, Bound,
         NoHardware
<1> QED  BY <1>1, <1>2, <1>3, <1>4, <1>5 DEF Shaped, Known

\* The fresh id goes into the journal.
LEMMA RecordIdKnows ==
  ASSUME NEW s, NEW p, NEW r, NEW N, NEW S, NEW W, NEW T, NEW O, Shaped(s, p, T, O), Known(s, p, r, N, S, W),
         p.pc = "recordId"
  PROVE  LET s2 == [s EXCEPT !.journal.newId = p.token]
             p2 == [p EXCEPT !.id = p.token, !.pc = "resetTailnet"]
         IN  Shaped(s2, p2, T, O) /\ Known(s2, p2, r, N, S, W) /\ Stays(s, p, s2, p2)
<1> DEFINE s2 == [s EXCEPT !.journal.newId = p.token]
           p2 == [p EXCEPT !.id = p.token, !.pc = "resetTailnet"]
<1>1. DiskShape(s2, T)  BY DEF Shaped, DiskShape, ProcShape, BindingShape, JournalShape
<1>2. ProcShape(p2, T, O)  BY DEF Shaped, DiskShape, ProcShape, BindingShape, JournalShape
<1>3. DiskKnows(s2, S, W) /\ DaemonKnows(r, s2, N)
      BY DEF Shaped, DiskShape, ProcShape, BindingShape, JournalShape, Known, DiskKnows, DaemonKnows,
         ProcKnows, VerifyKnows, MigrateKnows, JournalKnows, ProvisionKnows, ResetKnows, BoundKnows, ServeKnows,
         Verifies, Migrates, Binds, Serves, Unchosen, At, Then, Bound, NoHardware, Present, Destructive, Traceless
<1>4. ProcKnows(s2, p2, N, S)
      BY DEF Shaped, DiskShape, ProcShape, BindingShape, JournalShape, Known, DiskKnows,
         ProcKnows, VerifyKnows, MigrateKnows, JournalKnows, ProvisionKnows, ResetKnows, BoundKnows, ServeKnows,
         Verifies, Migrates, Binds, Serves, Unchosen, At, Then, Bound, NoHardware, Present, Destructive, Traceless
<1>5. Stays(s, p, s2, p2)
      BY DEF Shaped, DiskShape, ProcShape, BindingShape, JournalShape,
         Known, ProcKnows, ProvisionKnows, VerifyKnows, Verifies, Unchosen, Binds, At, Then, Stays, Bound,
         NoHardware
<1> QED  BY <1>1, <1>2, <1>3, <1>4, <1>5 DEF Shaped, Known

\* The node is reset, or it is held and the journal says so.
LEMMA ResetTailnetKnows ==
  ASSUME NEW s, NEW p, NEW r, NEW N, NEW S, NEW W, NEW T, NEW O, Shaped(s, p, T, O), Known(s, p, r, N, S, W),
         p.pc = "resetTailnet", NEW run, run => r,
         NEW held, NEW u, u = s \/ u = [s EXCEPT !.down = TRUE] \/ u = [s EXCEPT !.node = NoToken, !.down = FALSE],
         held \/ u = [s EXCEPT !.node = NoToken, !.down = FALSE]
  PROVE  LET s2 == [u EXCEPT !.journal.held = held]
             p2 == [p EXCEPT !.pc = "certify"]
         IN  Shaped(s2, p2, T, O) /\ Known(s2, p2, run, N, S, W) /\ Stays(s, p, s2, p2)
<1> DEFINE s2 == [u EXCEPT !.journal.held = held]
           p2 == [p EXCEPT !.pc = "certify"]
<1>0. /\ DOMAIN u = DOMAIN s /\ u.binding = s.binding /\ u.journal = s.journal /\ u.trust = s.trust /\ u.access = s.access
      /\ u.file = s.file /\ u.key = s.key /\ u.crt = s.crt /\ u.node \in {s.node, NoToken}
      /\ (u.node = NoToken \/ held)
      BY DEF Shaped, DiskShape
<1>1. DiskShape(s2, T)  BY <1>0 DEF Shaped, DiskShape, ProcShape, BindingShape, JournalShape
<1>2. ProcShape(p2, T, O)  BY DEF Shaped, DiskShape, ProcShape, BindingShape, JournalShape
<1>3. DiskKnows(s2, S, W) /\ DaemonKnows(run, s2, N)
      BY <1>0 DEF Shaped, DiskShape, ProcShape, BindingShape, JournalShape, Known, DiskKnows, DaemonKnows,
         ProcKnows, VerifyKnows, MigrateKnows, JournalKnows, ProvisionKnows, ResetKnows, BoundKnows, ServeKnows,
         Verifies, Migrates, Binds, Serves, Unchosen, At, Then, Bound, NoHardware, Present, Destructive, Traceless
<1>4. ProcKnows(s2, p2, N, S)
      BY <1>0 DEF Shaped, DiskShape, ProcShape, BindingShape, JournalShape, Known, DiskKnows,
         ProcKnows, VerifyKnows, MigrateKnows, JournalKnows, ProvisionKnows, ResetKnows, BoundKnows, ServeKnows,
         Verifies, Migrates, Binds, Serves, Unchosen, At, Then, Bound, NoHardware, Present, Destructive, Traceless
<1>5. Stays(s, p, s2, p2)
      BY <1>0 DEF Shaped, DiskShape, ProcShape, BindingShape, JournalShape,
         Known, ProcKnows, ProvisionKnows, VerifyKnows, Verifies, Unchosen, Binds, At, Then, Stays, Bound,
         NoHardware
<1> QED  BY <1>1, <1>2, <1>3, <1>4, <1>5 DEF Shaped, Known

\* A valid pair that is not the old one needs no new certificate.
LEMMA CertifyBindKnows ==
  ASSUME NEW s, NEW p, NEW r, NEW N, NEW S, NEW W, NEW T, NEW O, Shaped(s, p, T, O), Known(s, p, r, N, S, W),
         p.pc = "certify"
  PROVE  LET s2 == s
             p2 == [p EXCEPT !.pc = "bind"]
         IN  Shaped(s2, p2, T, O) /\ Known(s2, p2, r, N, S, W) /\ Stays(s, p, s2, p2)
<1> DEFINE s2 == s
           p2 == [p EXCEPT !.pc = "bind"]
<1>1. DiskShape(s2, T)  BY DEF Shaped, DiskShape, ProcShape, BindingShape, JournalShape
<1>2. ProcShape(p2, T, O)  BY DEF Shaped, DiskShape, ProcShape, BindingShape, JournalShape
<1>3. DiskKnows(s2, S, W) /\ DaemonKnows(r, s2, N)
      BY DEF Shaped, DiskShape, ProcShape, BindingShape, JournalShape, Known, DiskKnows, DaemonKnows,
         ProcKnows, VerifyKnows, MigrateKnows, JournalKnows, ProvisionKnows, ResetKnows, BoundKnows, ServeKnows,
         Verifies, Migrates, Binds, Serves, Unchosen, At, Then, Bound, NoHardware, Present, Destructive, Traceless
<1>4. ProcKnows(s2, p2, N, S)
      BY DEF Shaped, DiskShape, ProcShape, BindingShape, JournalShape, Known, DiskKnows,
         ProcKnows, VerifyKnows, MigrateKnows, JournalKnows, ProvisionKnows, ResetKnows, BoundKnows, ServeKnows,
         Verifies, Migrates, Binds, Serves, Unchosen, At, Then, Bound, NoHardware, Present, Destructive, Traceless
<1>5. Stays(s, p, s2, p2)
      BY DEF Shaped, DiskShape, ProcShape, BindingShape, JournalShape,
         Known, ProcKnows, ProvisionKnows, VerifyKnows, Verifies, Unchosen, Binds, At, Then, Stays, Bound,
         NoHardware
<1> QED  BY <1>1, <1>2, <1>3, <1>4, <1>5 DEF Shaped, Known

\* Any other pair is replaced before the identity is bound.
LEMMA CertifyGenerateKnows ==
  ASSUME NEW s, NEW p, NEW r, NEW N, NEW S, NEW W, NEW T, NEW O, Shaped(s, p, T, O), Known(s, p, r, N, S, W),
         p.pc = "certify"
  PROVE  LET s2 == s
             p2 == [p EXCEPT !.pc = "generate", !.next = "bind"]
         IN  Shaped(s2, p2, T, O) /\ Known(s2, p2, r, N, S, W) /\ Stays(s, p, s2, p2)
<1> DEFINE s2 == s
           p2 == [p EXCEPT !.pc = "generate", !.next = "bind"]
<1>1. DiskShape(s2, T)  BY DEF Shaped, DiskShape, ProcShape, BindingShape, JournalShape
<1>2. ProcShape(p2, T, O)  BY DEF Shaped, DiskShape, ProcShape, BindingShape, JournalShape
<1>3. DiskKnows(s2, S, W) /\ DaemonKnows(r, s2, N)
      BY DEF Shaped, DiskShape, ProcShape, BindingShape, JournalShape, Known, DiskKnows, DaemonKnows,
         ProcKnows, VerifyKnows, MigrateKnows, JournalKnows, ProvisionKnows, ResetKnows, BoundKnows, ServeKnows,
         Verifies, Migrates, Binds, Serves, Unchosen, At, Then, Bound, NoHardware, Present, Destructive, Traceless
<1>4. ProcKnows(s2, p2, N, S)
      BY DEF Shaped, DiskShape, ProcShape, BindingShape, JournalShape, Known, DiskKnows,
         ProcKnows, VerifyKnows, MigrateKnows, JournalKnows, ProvisionKnows, ResetKnows, BoundKnows, ServeKnows,
         Verifies, Migrates, Binds, Serves, Unchosen, At, Then, Bound, NoHardware, Present, Destructive, Traceless
<1>5. Stays(s, p, s2, p2)
      BY DEF Shaped, DiskShape, ProcShape, BindingShape, JournalShape,
         Known, ProcKnows, ProvisionKnows, VerifyKnows, Verifies, Unchosen, Binds, At, Then, Stays, Bound,
         NoHardware
<1> QED  BY <1>1, <1>2, <1>3, <1>4, <1>5 DEF Shaped, Known

\* The journal goes once the binding is written: with it ends what it excused,
\* and the binding is one of this disk only.
LEMMA UnjournalKnows ==
  ASSUME NEW s, NEW p, NEW r, NEW N, NEW S, NEW W, NEW T, NEW O, Shaped(s, p, T, O), Known(s, p, r, N, S, W),
         p.pc = "unjournal", NoToken \in T, NoEvidence \in Evidence
  PROVE  LET s2 == [s EXCEPT !.journal = NoJournal]
             p2 == [p EXCEPT !.pc = "unmark"]
         IN  Shaped(s2, p2, T, O) /\ Known(s2, p2, r, N, S, W) /\ Stays(s, p, s2, p2)
<1> DEFINE s2 == [s EXCEPT !.journal = NoJournal]
           p2 == [p EXCEPT !.pc = "unmark"]
<1>1. DiskShape(s2, T)  BY DEF Shaped, DiskShape, ProcShape, BindingShape, JournalShape, NoJournal
<1>2. ProcShape(p2, T, O)  BY DEF Shaped, DiskShape, ProcShape, BindingShape, JournalShape, NoJournal
<1>3. DiskKnows(s2, S, W) /\ DaemonKnows(r, s2, N)
      BY DEF Shaped, DiskShape, ProcShape, BindingShape, JournalShape, Known, DiskKnows, DaemonKnows,
         ProcKnows, VerifyKnows, MigrateKnows, JournalKnows, ProvisionKnows, ResetKnows, BoundKnows, ServeKnows,
         Verifies, Migrates, Binds, Serves, Unchosen, At, Then, Bound, NoHardware, Present, Destructive,
         Traceless, NoJournal
<1>4. ProcKnows(s2, p2, N, S)
      BY DEF Shaped, DiskShape, ProcShape, BindingShape, JournalShape, Known, DiskKnows,
         ProcKnows, VerifyKnows, MigrateKnows, JournalKnows, ProvisionKnows, ResetKnows, BoundKnows, ServeKnows,
         Verifies, Migrates, Binds, Serves, Unchosen, At, Then, Bound, NoHardware, Present, Destructive,
         Traceless, NoJournal
<1>5. Stays(s, p, s2, p2)
      BY DEF Shaped, DiskShape, ProcShape, BindingShape, JournalShape,
         Known, ProcKnows, ProvisionKnows, VerifyKnows, Verifies, Unchosen, Binds, At, Then, Stays, Bound,
         NoHardware, NoJournal
<1> QED  BY <1>1, <1>2, <1>3, <1>4, <1>5 DEF Shaped, Known

\* A finished run that removes the marker serves, or restarts at an
\* administrator's request.
LEMMA UnmarkKnows ==
  ASSUME NEW s, NEW p, NEW r, NEW N, NEW S, NEW W, NEW T, NEW O, Shaped(s, p, T, O), Known(s, p, r, N, S, W),
         p.pc = "unmark", S \subseteq N
  PROVE  LET s2 == [s EXCEPT !.marker = NoMarker]
             p2 == Finished(p)
         IN  Shaped(s2, p2, T, O) /\ Known(s2, p2, r, N, S, W) /\ Stays(s, p, s2, p2)
<1> DEFINE s2 == [s EXCEPT !.marker = NoMarker]
           p2 == Finished(p)
<1>1. DiskShape(s2, T)  BY DEF Shaped, DiskShape, ProcShape, BindingShape, JournalShape, Finished
<1>2. ProcShape(p2, T, O)  BY DEF Shaped, DiskShape, ProcShape, BindingShape, JournalShape, Finished
<1>3. DiskKnows(s2, S, W) /\ DaemonKnows(r, s2, N)
      BY DEF Shaped, DiskShape, ProcShape, BindingShape, JournalShape, Known, DiskKnows, DaemonKnows,
         ProcKnows, VerifyKnows, MigrateKnows, JournalKnows, ProvisionKnows, ResetKnows, BoundKnows, ServeKnows,
         Verifies, Migrates, Binds, Serves, Unchosen, At, Then, Bound, NoHardware, Present, Destructive,
         Traceless, Finished
<1>4. ProcKnows(s2, p2, N, S)
      BY DEF Shaped, DiskShape, ProcShape, BindingShape, JournalShape, Known, DiskKnows,
         ProcKnows, VerifyKnows, MigrateKnows, JournalKnows, ProvisionKnows, ResetKnows, BoundKnows, ServeKnows,
         Verifies, Migrates, Binds, Serves, Unchosen, At, Then, Bound, NoHardware, Present, Destructive,
         Traceless, Finished
<1>5. Stays(s, p, s2, p2)
      BY DEF Shaped, DiskShape, ProcShape, BindingShape, JournalShape,
         Known, ProcKnows, ProvisionKnows, VerifyKnows, Verifies, Unchosen, Binds, At, Then, Stays, Bound,
         NoHardware, Finished
<1> QED  BY <1>1, <1>2, <1>3, <1>4, <1>5 DEF Shaped, Known

\* _generate_local_certificate renames the key, of which no one else has a copy.
LEMMA ReplaceKeyKnows ==
  ASSUME NEW s, NEW p, NEW r, NEW N, NEW S, NEW W, NEW T, NEW O, Shaped(s, p, T, O), Known(s, p, r, N, S, W),
         p.pc = "generate", NEW t, t # NoToken
  PROVE  LET s2 == [s EXCEPT !.key = t]
             p2 == [p EXCEPT !.token = t, !.pc = "certificate"]
         IN  Shaped(s2, p2, T \cup {t}, O) /\ Known(s2, p2, r, N, S, W) /\ Stays(s, p, s2, p2)
<1> DEFINE s2 == [s EXCEPT !.key = t]
           p2 == [p EXCEPT !.token = t, !.pc = "certificate"]
<1>1. DiskShape(s2, T \cup {t})  BY DEF Shaped, DiskShape, ProcShape, BindingShape, JournalShape
<1>2. ProcShape(p2, T \cup {t}, O)  BY DEF Shaped, DiskShape, ProcShape, BindingShape, JournalShape
<1>3. DiskKnows(s2, S, W) /\ DaemonKnows(r, s2, N)
      BY DEF Shaped, DiskShape, ProcShape, BindingShape, JournalShape, Known, DiskKnows, DaemonKnows,
         ProcKnows, VerifyKnows, MigrateKnows, JournalKnows, ProvisionKnows, ResetKnows, BoundKnows, ServeKnows,
         Verifies, Migrates, Binds, Serves, Unchosen, At, Then, Bound, NoHardware, Present, Destructive, Traceless
<1>4. ProcKnows(s2, p2, N, S)
      BY DEF Shaped, DiskShape, ProcShape, BindingShape, JournalShape, Known, DiskKnows,
         ProcKnows, VerifyKnows, MigrateKnows, JournalKnows, ProvisionKnows, ResetKnows, BoundKnows, ServeKnows,
         Verifies, Migrates, Binds, Serves, Unchosen, At, Then, Bound, NoHardware, Present, Destructive, Traceless
<1>5. Stays(s, p, s2, p2)
      BY DEF Shaped, DiskShape, ProcShape, BindingShape, JournalShape,
         Known, ProcKnows, ProvisionKnows, VerifyKnows, Verifies, Unchosen, Binds, At, Then, Stays, Bound,
         NoHardware
<1> QED  BY <1>1, <1>2, <1>3, <1>4, <1>5 DEF Shaped, Known

\* _generate_local_certificate renames the certificate and returns.
LEMMA ReplaceCertificateKnows ==
  ASSUME NEW s, NEW p, NEW r, NEW N, NEW S, NEW W, NEW T, NEW O, Shaped(s, p, T, O), Known(s, p, r, N, S, W),
         p.pc = "certificate"
  PROVE  LET s2 == [s EXCEPT !.crt = p.token]
             p2 == [p EXCEPT !.pc = p.next]
         IN  Shaped(s2, p2, T, O) /\ Known(s2, p2, r, N, S, W) /\ Stays(s, p, s2, p2)
<1> DEFINE s2 == [s EXCEPT !.crt = p.token]
           p2 == [p EXCEPT !.pc = p.next]
<1>1. DiskShape(s2, T)  BY DEF Shaped, DiskShape, ProcShape, BindingShape, JournalShape
<1>2. ProcShape(p2, T, O)  BY DEF Shaped, DiskShape, ProcShape, BindingShape, JournalShape
<1>3. DiskKnows(s2, S, W) /\ DaemonKnows(r, s2, N)
      BY DEF Shaped, DiskShape, ProcShape, BindingShape, JournalShape, Known, DiskKnows, DaemonKnows,
         ProcKnows, VerifyKnows, MigrateKnows, JournalKnows, ProvisionKnows, ResetKnows, BoundKnows, ServeKnows,
         Verifies, Migrates, Binds, Serves, Unchosen, At, Then, Bound, NoHardware, Present, Destructive, Traceless
<1>4. ProcKnows(s2, p2, N, S)
      BY DEF Shaped, DiskShape, ProcShape, BindingShape, JournalShape, Known, DiskKnows,
         ProcKnows, VerifyKnows, MigrateKnows, JournalKnows, ProvisionKnows, ResetKnows, BoundKnows, ServeKnows,
         Verifies, Migrates, Binds, Serves, Unchosen, At, Then, Bound, NoHardware, Present, Destructive, Traceless
<1>5. Stays(s, p, s2, p2)
      BY DEF Shaped, DiskShape, ProcShape, BindingShape, JournalShape,
         Known, ProcKnows, ProvisionKnows, VerifyKnows, Verifies, Unchosen, Binds, At, Then, Stays, Bound,
         NoHardware
<1> QED  BY <1>1, <1>2, <1>3, <1>4, <1>5 DEF Shaped, Known

\* _consume_authorization unlinks the authorization after the binding is saved.
LEMMA ConsumeKnows ==
  ASSUME NEW s, NEW p, NEW r, NEW N, NEW S, NEW W, NEW T, NEW O, Shaped(s, p, T, O), Known(s, p, r, N, S, W),
         p.pc = "consume"
  PROVE  LET s2 == [s EXCEPT !.auth = NoToken]
             p2 == ToRelease(p, p.bound)
         IN  Shaped(s2, p2, T, O) /\ Known(s2, p2, r, N, S, W) /\ Stays(s, p, s2, p2)
<1> DEFINE s2 == [s EXCEPT !.auth = NoToken]
           p2 == ToRelease(p, p.bound)
<1>1. DiskShape(s2, T)  BY DEF Shaped, DiskShape, ProcShape, BindingShape, JournalShape, ToRelease
<1>2. ProcShape(p2, T, O)  BY DEF Shaped, DiskShape, ProcShape, BindingShape, JournalShape, ToRelease
<1>3. DiskKnows(s2, S, W) /\ DaemonKnows(r, s2, N)
      BY DEF Shaped, DiskShape, ProcShape, BindingShape, JournalShape, Known, DiskKnows, DaemonKnows,
         ProcKnows, VerifyKnows, MigrateKnows, JournalKnows, ProvisionKnows, ResetKnows, BoundKnows, ServeKnows,
         Verifies, Migrates, Binds, Serves, Unchosen, At, Then, Bound, NoHardware, Present, Destructive,
         Traceless, ToRelease
<1>4. ProcKnows(s2, p2, N, S)
      BY DEF Shaped, DiskShape, ProcShape, BindingShape, JournalShape, Known, DiskKnows,
         ProcKnows, VerifyKnows, MigrateKnows, JournalKnows, ProvisionKnows, ResetKnows, BoundKnows, ServeKnows,
         Verifies, Migrates, Binds, Serves, Unchosen, At, Then, Bound, NoHardware, Present, Destructive,
         Traceless, ToRelease
<1>5. Stays(s, p, s2, p2)
      BY DEF Shaped, DiskShape, ProcShape, BindingShape, JournalShape,
         Known, ProcKnows, ProvisionKnows, VerifyKnows, Verifies, Unchosen, Binds, At, Then, Stays, Bound,
         NoHardware, ToRelease
<1> QED  BY <1>1, <1>2, <1>3, <1>4, <1>5 DEF Shaped, Known

\* _release_after_recovery unlinks the marker.
LEMMA ReleaseKnows ==
  ASSUME NEW s, NEW p, NEW r, NEW N, NEW S, NEW W, NEW T, NEW O, Shaped(s, p, T, O), Known(s, p, r, N, S, W),
         p.pc = "release"
  PROVE  LET s2 == [s EXCEPT !.marker = NoMarker]
             p2 == [p EXCEPT !.pc = IF s.marker.held THEN "up" ELSE p.next]
         IN  Shaped(s2, p2, T, O) /\ Known(s2, p2, r, N, S, W) /\ Stays(s, p, s2, p2)
<1> DEFINE s2 == [s EXCEPT !.marker = NoMarker]
           p2 == [p EXCEPT !.pc = IF s.marker.held THEN "up" ELSE p.next]
<1>1. DiskShape(s2, T)  BY DEF Shaped, DiskShape, ProcShape, BindingShape, JournalShape
<1>2. ProcShape(p2, T, O)  BY DEF Shaped, DiskShape, ProcShape, BindingShape, JournalShape
<1>3. DiskKnows(s2, S, W) /\ DaemonKnows(r, s2, N)
      BY DEF Shaped, DiskShape, ProcShape, BindingShape, JournalShape, Known, DiskKnows, DaemonKnows,
         ProcKnows, VerifyKnows, MigrateKnows, JournalKnows, ProvisionKnows, ResetKnows, BoundKnows, ServeKnows,
         Verifies, Migrates, Binds, Serves, Unchosen, At, Then, Bound, NoHardware, Present, Destructive, Traceless
<1>4. ProcKnows(s2, p2, N, S)
      BY DEF Shaped, DiskShape, ProcShape, BindingShape, JournalShape, Known, DiskKnows,
         ProcKnows, VerifyKnows, MigrateKnows, JournalKnows, ProvisionKnows, ResetKnows, BoundKnows, ServeKnows,
         Verifies, Migrates, Binds, Serves, Unchosen, At, Then, Bound, NoHardware, Present, Destructive, Traceless
<1>5. Stays(s, p, s2, p2)
      BY DEF Shaped, DiskShape, ProcShape, BindingShape, JournalShape,
         Known, ProcKnows, ProvisionKnows, VerifyKnows, Verifies, Unchosen, Binds, At, Then, Stays, Bound,
         NoHardware
<1> QED  BY <1>1, <1>2, <1>3, <1>4, <1>5 DEF Shaped, Known

\* release_local_node brings the node up, or fails to.
LEMMA ReleaseNodeKnows ==
  ASSUME NEW s, NEW p, NEW r, NEW N, NEW S, NEW W, NEW T, NEW O, Shaped(s, p, T, O), Known(s, p, r, N, S, W),
         p.pc = "up",
         NEW u \in {s, [s EXCEPT !.down = FALSE]}
  PROVE  LET s2 == u
             p2 == [p EXCEPT !.pc = p.next]
         IN  Shaped(s2, p2, T, O) /\ Known(s2, p2, r, N, S, W) /\ Stays(s, p, s2, p2)
<1> DEFINE s2 == u
           p2 == [p EXCEPT !.pc = p.next]
<1>1. DiskShape(s2, T)  BY DEF Shaped, DiskShape, ProcShape, BindingShape, JournalShape
<1>2. ProcShape(p2, T, O)  BY DEF Shaped, DiskShape, ProcShape, BindingShape, JournalShape
<1>3. DiskKnows(s2, S, W) /\ DaemonKnows(r, s2, N)
      BY DEF Shaped, DiskShape, ProcShape, BindingShape, JournalShape, Known, DiskKnows, DaemonKnows,
         ProcKnows, VerifyKnows, MigrateKnows, JournalKnows, ProvisionKnows, ResetKnows, BoundKnows, ServeKnows,
         Verifies, Migrates, Binds, Serves, Unchosen, At, Then, Bound, NoHardware, Present, Destructive, Traceless
<1>4. ProcKnows(s2, p2, N, S)
      BY DEF Shaped, DiskShape, ProcShape, BindingShape, JournalShape, Known, DiskKnows,
         ProcKnows, VerifyKnows, MigrateKnows, JournalKnows, ProvisionKnows, ResetKnows, BoundKnows, ServeKnows,
         Verifies, Migrates, Binds, Serves, Unchosen, At, Then, Bound, NoHardware, Present, Destructive, Traceless
<1>5. Stays(s, p, s2, p2)
      BY DEF Shaped, DiskShape, ProcShape, BindingShape, JournalShape,
         Known, ProcKnows, ProvisionKnows, VerifyKnows, Verifies, Unchosen, Binds, At, Then, Stays, Bound,
         NoHardware
<1> QED  BY <1>1, <1>2, <1>3, <1>4, <1>5 DEF Shaped, Known

\* _verified issues an unusable certificate again.
LEMMA VerifyGenerateKnows ==
  ASSUME NEW s, NEW p, NEW r, NEW N, NEW S, NEW W, NEW T, NEW O, Shaped(s, p, T, O), Known(s, p, r, N, S, W),
         p.pc = "verify"
  PROVE  LET s2 == s
             p2 == [p EXCEPT !.pc = "generate", !.next = "reissued"]
         IN  Shaped(s2, p2, T, O) /\ Known(s2, p2, r, N, S, W) /\ Stays(s, p, s2, p2)
<1> DEFINE s2 == s
           p2 == [p EXCEPT !.pc = "generate", !.next = "reissued"]
<1>1. DiskShape(s2, T)  BY DEF Shaped, DiskShape, ProcShape, BindingShape, JournalShape
<1>2. ProcShape(p2, T, O)  BY DEF Shaped, DiskShape, ProcShape, BindingShape, JournalShape
<1>3. DiskKnows(s2, S, W) /\ DaemonKnows(r, s2, N)
      BY DEF Shaped, DiskShape, ProcShape, BindingShape, JournalShape, Known, DiskKnows, DaemonKnows,
         ProcKnows, VerifyKnows, MigrateKnows, JournalKnows, ProvisionKnows, ResetKnows, BoundKnows, ServeKnows,
         Verifies, Migrates, Binds, Serves, Unchosen, At, Then, Bound, NoHardware, Present, Destructive, Traceless
<1>4. ProcKnows(s2, p2, N, S)
      BY DEF Shaped, DiskShape, ProcShape, BindingShape, JournalShape, Known, DiskKnows,
         ProcKnows, VerifyKnows, MigrateKnows, JournalKnows, ProvisionKnows, ResetKnows, BoundKnows, ServeKnows,
         Verifies, Migrates, Binds, Serves, Unchosen, At, Then, Bound, NoHardware, Present, Destructive, Traceless
<1>5. Stays(s, p, s2, p2)
      BY DEF Shaped, DiskShape, ProcShape, BindingShape, JournalShape,
         Known, ProcKnows, ProvisionKnows, VerifyKnows, Verifies, Unchosen, Binds, At, Then, Stays, Bound,
         NoHardware
<1> QED  BY <1>1, <1>2, <1>3, <1>4, <1>5 DEF Shaped, Known

\* _verified goes on with a valid certificate.
LEMMA VerifyReconcileKnows ==
  ASSUME NEW s, NEW p, NEW r, NEW N, NEW S, NEW W, NEW T, NEW O, Shaped(s, p, T, O), Known(s, p, r, N, S, W),
         p.pc = "verify"
  PROVE  LET s2 == s
             p2 == [p EXCEPT !.pc = "reconcile"]
         IN  Shaped(s2, p2, T, O) /\ Known(s2, p2, r, N, S, W) /\ Stays(s, p, s2, p2)
<1> DEFINE s2 == s
           p2 == [p EXCEPT !.pc = "reconcile"]
<1>1. DiskShape(s2, T)  BY DEF Shaped, DiskShape, ProcShape, BindingShape, JournalShape
<1>2. ProcShape(p2, T, O)  BY DEF Shaped, DiskShape, ProcShape, BindingShape, JournalShape
<1>3. DiskKnows(s2, S, W) /\ DaemonKnows(r, s2, N)
      BY DEF Shaped, DiskShape, ProcShape, BindingShape, JournalShape, Known, DiskKnows, DaemonKnows,
         ProcKnows, VerifyKnows, MigrateKnows, JournalKnows, ProvisionKnows, ResetKnows, BoundKnows, ServeKnows,
         Verifies, Migrates, Binds, Serves, Unchosen, At, Then, Bound, NoHardware, Present, Destructive, Traceless
<1>4. ProcKnows(s2, p2, N, S)
      BY DEF Shaped, DiskShape, ProcShape, BindingShape, JournalShape, Known, DiskKnows,
         ProcKnows, VerifyKnows, MigrateKnows, JournalKnows, ProvisionKnows, ResetKnows, BoundKnows, ServeKnows,
         Verifies, Migrates, Binds, Serves, Unchosen, At, Then, Bound, NoHardware, Present, Destructive, Traceless
<1>5. Stays(s, p, s2, p2)
      BY DEF Shaped, DiskShape, ProcShape, BindingShape, JournalShape,
         Known, ProcKnows, ProvisionKnows, VerifyKnows, Verifies, Unchosen, Binds, At, Then, Stays, Bound,
         NoHardware
<1> QED  BY <1>1, <1>2, <1>3, <1>4, <1>5 DEF Shaped, Known

\* Every branch may end in _enter_recovery, which knows nothing of the disk.
LEMMA ToRecoveryKnows ==
  ASSUME NEW s, NEW p, NEW r, NEW N, NEW S, NEW W, NEW T, NEW O, Shaped(s, p, T, O), Known(s, p, r, N, S, W),
         NEW why
  PROVE  LET s2 == s
             p2 == ToRecovery(p, why)
         IN  Shaped(s2, p2, T, O) /\ Known(s2, p2, r, N, S, W) /\ Stays(s, p, s2, p2)
<1> DEFINE s2 == s
           p2 == ToRecovery(p, why)
<1>1. DiskShape(s2, T)  BY DEF Shaped, DiskShape, ProcShape, BindingShape, JournalShape, ToRecovery
<1>2. ProcShape(p2, T, O)  BY DEF Shaped, DiskShape, ProcShape, BindingShape, JournalShape, ToRecovery
<1>3. DiskKnows(s2, S, W) /\ DaemonKnows(r, s2, N)
      BY DEF Shaped, DiskShape, ProcShape, BindingShape, JournalShape, Known, DiskKnows, DaemonKnows,
         ProcKnows, VerifyKnows, MigrateKnows, JournalKnows, ProvisionKnows, ResetKnows, BoundKnows, ServeKnows,
         Verifies, Migrates, Binds, Serves, Unchosen, At, Then, Bound, NoHardware, Present, Destructive,
         Traceless, ToRecovery
<1>4. ProcKnows(s2, p2, N, S)
      BY DEF Shaped, DiskShape, ProcShape, BindingShape, JournalShape, Known, DiskKnows,
         ProcKnows, VerifyKnows, MigrateKnows, JournalKnows, ProvisionKnows, ResetKnows, BoundKnows, ServeKnows,
         Verifies, Migrates, Binds, Serves, Unchosen, At, Then, Bound, NoHardware, Present, Destructive,
         Traceless, ToRecovery
<1>5. Stays(s, p, s2, p2)
      BY DEF Shaped, DiskShape, ProcShape, BindingShape, JournalShape,
         Known, ProcKnows, ProvisionKnows, VerifyKnows, Verifies, Unchosen, Binds, At, Then, Stays, Bound,
         NoHardware, ToRecovery
<1> QED  BY <1>1, <1>2, <1>3, <1>4, <1>5 DEF Shaped, Known

\* _verified records a certificate that was issued again in the binding in memory.
LEMMA ReissuedKnows ==
  ASSUME NEW s, NEW p, NEW r, NEW N, NEW S, NEW W, NEW T, NEW O, Shaped(s, p, T, O), Known(s, p, r, N, S, W),
         p.pc = "reissued"
  PROVE  LET s2 == s
             p2 == [p EXCEPT !.bound.fp = s.crt, !.pc = "reconcile"]
         IN  Shaped(s2, p2, T, O) /\ Known(s2, p2, r, N, S, W) /\ Stays(s, p, s2, p2)
<1> DEFINE s2 == s
           p2 == [p EXCEPT !.bound.fp = s.crt, !.pc = "reconcile"]
<1>1. DiskShape(s2, T)  BY DEF Shaped, DiskShape, ProcShape, BindingShape, JournalShape
<1>2. ProcShape(p2, T, O)  BY DEF Shaped, DiskShape, ProcShape, BindingShape, JournalShape
<1>3. DiskKnows(s2, S, W) /\ DaemonKnows(r, s2, N)
      BY DEF Shaped, DiskShape, ProcShape, BindingShape, JournalShape, Known, DiskKnows, DaemonKnows,
         ProcKnows, VerifyKnows, MigrateKnows, JournalKnows, ProvisionKnows, ResetKnows, BoundKnows, ServeKnows,
         Verifies, Migrates, Binds, Serves, Unchosen, At, Then, Bound, NoHardware, Present, Destructive, Traceless
<1>4. ProcKnows(s2, p2, N, S)
      BY DEF Shaped, DiskShape, ProcShape, BindingShape, JournalShape, Known, DiskKnows,
         ProcKnows, VerifyKnows, MigrateKnows, JournalKnows, ProvisionKnows, ResetKnows, BoundKnows, ServeKnows,
         Verifies, Migrates, Binds, Serves, Unchosen, At, Then, Bound, NoHardware, Present, Destructive, Traceless
<1>5. Stays(s, p, s2, p2)
      BY DEF Shaped, DiskShape, ProcShape, BindingShape, JournalShape,
         Known, ProcKnows, ProvisionKnows, VerifyKnows, Verifies, Unchosen, Binds, At, Then, Stays, Bound,
         NoHardware
<1> QED  BY <1>1, <1>2, <1>3, <1>4, <1>5 DEF Shaped, Known

\* _verified takes the id of the binding, or a pinned one that was never retired,
\* and writes the id file if it can.
LEMMA ReconcileKnows ==
  ASSUME NEW s, NEW p, NEW r, NEW N, NEW S, NEW W, NEW T, NEW O, Shaped(s, p, T, O), Known(s, p, r, N, S, W),
         p.pc = "reconcile",
         NEW b, b = p.bound \/ b = [p.bound EXCEPT !.id = p.id], b = p.bound \/ p.id \notin p.bound.retired,
         NEW u, u = s \/ u = [s EXCEPT !.file = b.id]
  PROVE  LET s2 == u
             p2 == [p EXCEPT !.bound = b, !.id = b.id, !.pc = IF b.pending THEN "retry" ELSE "save"]
         IN  Shaped(s2, p2, T, O) /\ Known(s2, p2, r, N, S, W) /\ Stays(s, p, s2, p2)
<1> DEFINE s2 == u
           p2 == [p EXCEPT !.bound = b, !.id = b.id, !.pc = IF b.pending THEN "retry" ELSE "save"]
<1>0. /\ DOMAIN b = DOMAIN p.bound /\ b.kind = p.bound.kind /\ b.inst = p.bound.inst /\ b.hw = p.bound.hw
      /\ b.retired = p.bound.retired /\ b.pending = p.bound.pending /\ b.id \in {p.bound.id, p.id}
      /\ (b.id = p.bound.id \/ p.id \notin p.bound.retired)
      BY DEF Shaped, ProcShape, BindingShape
<1>1. DiskShape(s2, T)  BY <1>0 DEF Shaped, DiskShape, ProcShape, BindingShape, JournalShape
<1>2. ProcShape(p2, T, O)  BY <1>0 DEF Shaped, DiskShape, ProcShape, BindingShape, JournalShape
<1>3. DiskKnows(s2, S, W) /\ DaemonKnows(r, s2, N)
      BY <1>0 DEF Shaped, DiskShape, ProcShape, BindingShape, JournalShape, Known, DiskKnows, DaemonKnows,
         ProcKnows, VerifyKnows, MigrateKnows, JournalKnows, ProvisionKnows, ResetKnows, BoundKnows, ServeKnows,
         Verifies, Migrates, Binds, Serves, Unchosen, At, Then, Bound, NoHardware, Present, Destructive, Traceless
<1>4. ProcKnows(s2, p2, N, S)
      BY <1>0 DEF Shaped, DiskShape, ProcShape, BindingShape, JournalShape, Known, DiskKnows,
         ProcKnows, VerifyKnows, MigrateKnows, JournalKnows, ProvisionKnows, ResetKnows, BoundKnows, ServeKnows,
         Verifies, Migrates, Binds, Serves, Unchosen, At, Then, Bound, NoHardware, Present, Destructive, Traceless
<1>5. Stays(s, p, s2, p2)
      BY <1>0 DEF Shaped, DiskShape, ProcShape, BindingShape, JournalShape,
         Known, ProcKnows, ProvisionKnows, VerifyKnows, Verifies, Unchosen, Binds, At, Then, Stays, Bound,
         NoHardware
<1> QED  BY <1>1, <1>2, <1>3, <1>4, <1>5 DEF Shaped, Known

\* _verified tries a reset again that was put off; without one the binding stays
\* pending.
LEMMA RetryKnows ==
  ASSUME NEW s, NEW p, NEW r, NEW N, NEW S, NEW W, NEW T, NEW O, Shaped(s, p, T, O), Known(s, p, r, N, S, W),
         p.pc = "retry", NEW run, run => r,
         NEW held, NEW u, u = s \/ u = [s EXCEPT !.down = TRUE] \/ u = [s EXCEPT !.node = NoToken, !.down = FALSE],
         held \/ u = [s EXCEPT !.node = NoToken, !.down = FALSE]
  PROVE  LET s2 == u
             p2 == [p EXCEPT !.pc = "save", !.bound.pending = held]
         IN  Shaped(s2, p2, T, O) /\ Known(s2, p2, run, N, S, W) /\ Stays(s, p, s2, p2)
<1> DEFINE s2 == u
           p2 == [p EXCEPT !.pc = "save", !.bound.pending = held]
<1>0. /\ DOMAIN u = DOMAIN s /\ u.binding = s.binding /\ u.journal = s.journal /\ u.trust = s.trust /\ u.access = s.access
      /\ u.file = s.file /\ u.key = s.key /\ u.crt = s.crt /\ u.auth = s.auth /\ u.node \in {s.node, NoToken}
      /\ (u.node = NoToken \/ held)
      BY DEF Shaped, DiskShape
<1>1. DiskShape(s2, T)  BY <1>0 DEF Shaped, DiskShape, ProcShape, BindingShape, JournalShape
<1>2. ProcShape(p2, T, O)  BY DEF Shaped, DiskShape, ProcShape, BindingShape, JournalShape
<1>3. DiskKnows(s2, S, W) /\ DaemonKnows(run, s2, N)
      BY <1>0 DEF Shaped, DiskShape, ProcShape, BindingShape, JournalShape, Known, DiskKnows, DaemonKnows,
         ProcKnows, VerifyKnows, MigrateKnows, JournalKnows, ProvisionKnows, ResetKnows, BoundKnows, ServeKnows,
         Verifies, Migrates, Binds, Serves, Unchosen, At, Then, Bound, NoHardware, Present, Destructive, Traceless
<1>4. ProcKnows(s2, p2, N, S)
      BY <1>0 DEF Shaped, DiskShape, ProcShape, BindingShape, JournalShape, Known, DiskKnows,
         ProcKnows, VerifyKnows, MigrateKnows, JournalKnows, ProvisionKnows, ResetKnows, BoundKnows, ServeKnows,
         Verifies, Migrates, Binds, Serves, Unchosen, At, Then, Bound, NoHardware, Present, Destructive, Traceless
<1>5. Stays(s, p, s2, p2)
      BY <1>0 DEF Shaped, DiskShape, ProcShape, BindingShape, JournalShape,
         Known, ProcKnows, ProvisionKnows, VerifyKnows, Verifies, Unchosen, Binds, At, Then, Stays, Bound,
         NoHardware
<1> QED  BY <1>1, <1>2, <1>3, <1>4, <1>5 DEF Shaped, Known

\* A damaged journal is dropped once the Drone is verified, which it only is with
\* its hardware on record.
LEMMA DiscardKnows ==
  ASSUME NEW s, NEW p, NEW r, NEW N, NEW S, NEW W, NEW T, NEW O, Shaped(s, p, T, O), Known(s, p, r, N, S, W),
         p.pc = "discard", NoToken \in T, NoEvidence \in Evidence
  PROVE  LET s2 == [s EXCEPT !.journal = NoJournal]
             p2 == [p EXCEPT !.pc = "serve"]
         IN  Shaped(s2, p2, T, O) /\ Known(s2, p2, r, N, S, W) /\ Stays(s, p, s2, p2)
<1> DEFINE s2 == [s EXCEPT !.journal = NoJournal]
           p2 == [p EXCEPT !.pc = "serve"]
<1>1. DiskShape(s2, T)  BY DEF Shaped, DiskShape, ProcShape, BindingShape, JournalShape, NoJournal, ServeKnows
<1>2. ProcShape(p2, T, O)  BY DEF Shaped, DiskShape, ProcShape, BindingShape, JournalShape, NoJournal, ServeKnows
<1>3. DiskKnows(s2, S, W) /\ DaemonKnows(r, s2, N)
      BY DEF Shaped, DiskShape, ProcShape, BindingShape, JournalShape, Known, DiskKnows, DaemonKnows,
         ProcKnows, VerifyKnows, MigrateKnows, JournalKnows, ProvisionKnows, ResetKnows, BoundKnows, ServeKnows,
         Verifies, Migrates, Binds, Serves, Unchosen, At, Then, Bound, NoHardware, Present, Destructive,
         Traceless, NoJournal, ServeKnows
<1>4. ProcKnows(s2, p2, N, S)
      BY DEF Shaped, DiskShape, ProcShape, BindingShape, JournalShape, Known, DiskKnows,
         ProcKnows, VerifyKnows, MigrateKnows, JournalKnows, ProvisionKnows, ResetKnows, BoundKnows, ServeKnows,
         Verifies, Migrates, Binds, Serves, Unchosen, At, Then, Bound, NoHardware, Present, Destructive,
         Traceless, NoJournal, ServeKnows
<1>5. Stays(s, p, s2, p2)
      BY DEF Shaped, DiskShape, ProcShape, BindingShape, JournalShape,
         Known, ProcKnows, ProvisionKnows, VerifyKnows, Verifies, Unchosen, Binds, At, Then, Stays, Bound,
         NoHardware, NoJournal, ServeKnows
<1> QED  BY <1>1, <1>2, <1>3, <1>4, <1>5 DEF Shaped, Known

\* _enter_recovery holds the node, as far as it can.
LEMMA HoldKnows ==
  ASSUME NEW s, NEW p, NEW r, NEW N, NEW S, NEW W, NEW T, NEW O, Shaped(s, p, T, O), Known(s, p, r, N, S, W),
         p.pc = "hold", NEW run, run => r,
         NEW ok, NEW u, u = s \/ u = [s EXCEPT !.down = TRUE]
  PROVE  LET s2 == u
             p2 == [p EXCEPT !.held = ok, !.pc = "mark"]
         IN  Shaped(s2, p2, T, O) /\ Known(s2, p2, run, N, S, W) /\ Stays(s, p, s2, p2)
<1> DEFINE s2 == u
           p2 == [p EXCEPT !.held = ok, !.pc = "mark"]
<1>1. DiskShape(s2, T)  BY DEF Shaped, DiskShape, ProcShape, BindingShape, JournalShape
<1>2. ProcShape(p2, T, O)  BY DEF Shaped, DiskShape, ProcShape, BindingShape, JournalShape
<1>3. DiskKnows(s2, S, W) /\ DaemonKnows(run, s2, N)
      BY DEF Shaped, DiskShape, ProcShape, BindingShape, JournalShape, Known, DiskKnows, DaemonKnows,
         ProcKnows, VerifyKnows, MigrateKnows, JournalKnows, ProvisionKnows, ResetKnows, BoundKnows, ServeKnows,
         Verifies, Migrates, Binds, Serves, Unchosen, At, Then, Bound, NoHardware, Present, Destructive, Traceless
<1>4. ProcKnows(s2, p2, N, S)
      BY DEF Shaped, DiskShape, ProcShape, BindingShape, JournalShape, Known, DiskKnows,
         ProcKnows, VerifyKnows, MigrateKnows, JournalKnows, ProvisionKnows, ResetKnows, BoundKnows, ServeKnows,
         Verifies, Migrates, Binds, Serves, Unchosen, At, Then, Bound, NoHardware, Present, Destructive, Traceless
<1>5. Stays(s, p, s2, p2)
      BY DEF Shaped, DiskShape, ProcShape, BindingShape, JournalShape,
         Known, ProcKnows, ProvisionKnows, VerifyKnows, Verifies, Unchosen, Binds, At, Then, Stays, Bound,
         NoHardware
<1> QED  BY <1>1, <1>2, <1>3, <1>4, <1>5 DEF Shaped, Known

\* _enter_recovery leaves its marker: this Drone does not take part.
LEMMA MarkKnows ==
  ASSUME NEW s, NEW p, NEW r, NEW N, NEW S, NEW W, NEW T, NEW O, Shaped(s, p, T, O), Known(s, p, r, N, S, W),
         p.pc = "mark", NEW marker
  PROVE  LET s2 == [s EXCEPT !.marker = marker]
             p2 == [p EXCEPT !.state = "held", !.pc = "serve"]
         IN  Shaped(s2, p2, T, O) /\ Known(s2, p2, r, N, S, W) /\ Stays(s, p, s2, p2)
<1> DEFINE s2 == [s EXCEPT !.marker = marker]
           p2 == [p EXCEPT !.state = "held", !.pc = "serve"]
<1>1. DiskShape(s2, T)  BY DEF Shaped, DiskShape, ProcShape, BindingShape, JournalShape
<1>2. ProcShape(p2, T, O)  BY DEF Shaped, DiskShape, ProcShape, BindingShape, JournalShape
<1>3. DiskKnows(s2, S, W) /\ DaemonKnows(r, s2, N)
      BY DEF Shaped, DiskShape, ProcShape, BindingShape, JournalShape, Known, DiskKnows, DaemonKnows,
         ProcKnows, VerifyKnows, MigrateKnows, JournalKnows, ProvisionKnows, ResetKnows, BoundKnows, ServeKnows,
         Verifies, Migrates, Binds, Serves, Unchosen, At, Then, Bound, NoHardware, Present, Destructive, Traceless
<1>4. ProcKnows(s2, p2, N, S)
      BY DEF Shaped, DiskShape, ProcShape, BindingShape, JournalShape, Known, DiskKnows,
         ProcKnows, VerifyKnows, MigrateKnows, JournalKnows, ProvisionKnows, ResetKnows, BoundKnows, ServeKnows,
         Verifies, Migrates, Binds, Serves, Unchosen, At, Then, Bound, NoHardware, Present, Destructive, Traceless
<1>5. Stays(s, p, s2, p2)
      BY DEF Shaped, DiskShape, ProcShape, BindingShape, JournalShape,
         Known, ProcKnows, ProvisionKnows, VerifyKnows, Verifies, Unchosen, Binds, At, Then, Stays, Bound,
         NoHardware
<1> QED  BY <1>1, <1>2, <1>3, <1>4, <1>5 DEF Shaped, Known

\* An exception of ensure_identity may leave a marker.
LEMMA FailKnows ==
  ASSUME NEW s, NEW p, NEW r, NEW N, NEW S, NEW W, NEW T, NEW O, Shaped(s, p, T, O), Known(s, p, r, N, S, W),
         NEW marker,
         NEW u \in {s, [s EXCEPT !.marker = marker]}
  PROVE  LET s2 == u
             p2 == [p EXCEPT !.pc = "failed"]
         IN  Shaped(s2, p2, T, O) /\ Known(s2, p2, r, N, S, W) /\ Stays(s, p, s2, p2)
<1> DEFINE s2 == u
           p2 == [p EXCEPT !.pc = "failed"]
<1>1. DiskShape(s2, T)  BY DEF Shaped, DiskShape, ProcShape, BindingShape, JournalShape
<1>2. ProcShape(p2, T, O)  BY DEF Shaped, DiskShape, ProcShape, BindingShape, JournalShape
<1>3. DiskKnows(s2, S, W) /\ DaemonKnows(r, s2, N)
      BY DEF Shaped, DiskShape, ProcShape, BindingShape, JournalShape, Known, DiskKnows, DaemonKnows,
         ProcKnows, VerifyKnows, MigrateKnows, JournalKnows, ProvisionKnows, ResetKnows, BoundKnows, ServeKnows,
         Verifies, Migrates, Binds, Serves, Unchosen, At, Then, Bound, NoHardware, Present, Destructive, Traceless
<1>4. ProcKnows(s2, p2, N, S)
      BY DEF Shaped, DiskShape, ProcShape, BindingShape, JournalShape, Known, DiskKnows,
         ProcKnows, VerifyKnows, MigrateKnows, JournalKnows, ProvisionKnows, ResetKnows, BoundKnows, ServeKnows,
         Verifies, Migrates, Binds, Serves, Unchosen, At, Then, Bound, NoHardware, Present, Destructive, Traceless
<1>5. Stays(s, p, s2, p2)
      BY DEF Shaped, DiskShape, ProcShape, BindingShape, JournalShape,
         Known, ProcKnows, ProvisionKnows, VerifyKnows, Verifies, Unchosen, Binds, At, Then, Stays, Bound,
         NoHardware
<1> QED  BY <1>1, <1>2, <1>3, <1>4, <1>5 DEF Shaped, Known

\* An exception of an administrator's request leaves the Drone held.
LEMMA GiveUpKnows ==
  ASSUME NEW s, NEW p, NEW r, NEW N, NEW S, NEW W, NEW T, NEW O, Shaped(s, p, T, O), Known(s, p, r, N, S, W),
         NoToken \in T, NoEvidence \in Evidence
  PROVE  LET s2 == s
             p2 == [Resting(p) EXCEPT !.state = "held"]
         IN  Shaped(s2, p2, T, O) /\ Known(s2, p2, r, N, S, W) /\ Stays(s, p, s2, p2)
<1> DEFINE s2 == s
           p2 == [Resting(p) EXCEPT !.state = "held"]
<1>1. DiskShape(s2, T)  BY DEF Shaped, DiskShape, ProcShape, BindingShape, JournalShape, Resting, Off, NoPrior,
         NoReading, NoBinding, Snapshot, PartOf, NoEvidence
<1>2. ProcShape(p2, T, O)  BY DEF Shaped, DiskShape, ProcShape, BindingShape, JournalShape, Resting, Off,
         NoPrior, NoReading, NoBinding, Snapshot, PartOf, NoEvidence
<1>3. DiskKnows(s2, S, W) /\ DaemonKnows(r, s2, N)
      BY DEF Shaped, DiskShape, ProcShape, BindingShape, JournalShape, Known, DiskKnows, DaemonKnows,
         ProcKnows, VerifyKnows, MigrateKnows, JournalKnows, ProvisionKnows, ResetKnows, BoundKnows, ServeKnows,
         Verifies, Migrates, Binds, Serves, Unchosen, At, Then, Bound, NoHardware, Present, Destructive,
         Traceless, Resting, Off, NoPrior, NoReading, NoBinding, Snapshot, PartOf, NoEvidence
<1>4. ProcKnows(s2, p2, N, S)
      BY DEF Shaped, DiskShape, ProcShape, BindingShape, JournalShape, Known, DiskKnows,
         ProcKnows, VerifyKnows, MigrateKnows, JournalKnows, ProvisionKnows, ResetKnows, BoundKnows, ServeKnows,
         Verifies, Migrates, Binds, Serves, Unchosen, At, Then, Bound, NoHardware, Present, Destructive,
         Traceless, Resting, Off, NoPrior, NoReading, NoBinding, Snapshot, PartOf, NoEvidence
<1>5. Stays(s, p, s2, p2)
      BY DEF Shaped, DiskShape, ProcShape, BindingShape, JournalShape,
         Known, ProcKnows, ProvisionKnows, VerifyKnows, Verifies, Unchosen, Binds, At, Then, Stays, Bound,
         NoHardware, Resting, Off, NoPrior, NoReading, NoBinding, Snapshot, PartOf, NoEvidence
<1> QED  BY <1>1, <1>2, <1>3, <1>4, <1>5 DEF Shaped, Known

\* A failed clone run drops the sessions and holds the node.
LEMMA FailedKnows ==
  ASSUME NEW s, NEW p, NEW r, NEW N, NEW S, NEW W, NEW T, NEW O, Shaped(s, p, T, O), Known(s, p, r, N, S, W),
         p.pc = "failed", NEW run, run => r,
         NEW u, u = s \/ u = [s EXCEPT !.access = NoToken] \/ u = [[s EXCEPT !.access = NoToken] EXCEPT !.down = TRUE]
  PROVE  LET s2 == u
             p2 == [p EXCEPT !.state = "held", !.pc = "serve"]
         IN  Shaped(s2, p2, T, O) /\ Known(s2, p2, run, N, S, W) /\ Stays(s, p, s2, p2)
<1> DEFINE s2 == u
           p2 == [p EXCEPT !.state = "held", !.pc = "serve"]
<1>0. /\ DOMAIN u = DOMAIN s /\ u.binding = s.binding /\ u.journal = s.journal /\ u.trust = s.trust /\ u.node = s.node
      /\ u.file = s.file /\ u.key = s.key /\ u.crt = s.crt /\ u.auth = s.auth /\ u.access \in {s.access, NoToken}
      BY DEF Shaped, DiskShape
<1>1. DiskShape(s2, T)  BY <1>0 DEF Shaped, DiskShape, ProcShape, BindingShape, JournalShape
<1>2. ProcShape(p2, T, O)  BY DEF Shaped, DiskShape, ProcShape, BindingShape, JournalShape
<1>3. DiskKnows(s2, S, W) /\ DaemonKnows(run, s2, N)
      BY <1>0 DEF Shaped, DiskShape, ProcShape, BindingShape, JournalShape, Known, DiskKnows, DaemonKnows,
         ProcKnows, VerifyKnows, MigrateKnows, JournalKnows, ProvisionKnows, ResetKnows, BoundKnows, ServeKnows,
         Verifies, Migrates, Binds, Serves, Unchosen, At, Then, Bound, NoHardware, Present, Destructive, Traceless
<1>4. ProcKnows(s2, p2, N, S)
      BY <1>0 DEF Shaped, DiskShape, ProcShape, BindingShape, JournalShape, Known, DiskKnows,
         ProcKnows, VerifyKnows, MigrateKnows, JournalKnows, ProvisionKnows, ResetKnows, BoundKnows, ServeKnows,
         Verifies, Migrates, Binds, Serves, Unchosen, At, Then, Bound, NoHardware, Present, Destructive, Traceless
<1>5. Stays(s, p, s2, p2)
      BY <1>0 DEF Shaped, DiskShape, ProcShape, BindingShape, JournalShape,
         Known, ProcKnows, ProvisionKnows, VerifyKnows, Verifies, Unchosen, Binds, At, Then, Stays, Bound,
         NoHardware
<1> QED  BY <1>1, <1>2, <1>3, <1>4, <1>5 DEF Shaped, Known

\* A process that has ended knows nothing of its disk.
LEMMA OffKnows ==
  ASSUME NEW s, NEW p, NEW r, NEW N, NEW S, NEW W, NEW T, NEW O, Shaped(s, p, T, O), Known(s, p, r, N, S, W),
         NoToken \in T, NoEvidence \in Evidence
  PROVE  LET s2 == s
             p2 == Off
         IN  Shaped(s2, p2, T, O) /\ Known(s2, p2, r, N, S, W) /\ Stays(s, p, s2, p2)
<1> DEFINE s2 == s
           p2 == Off
<1>1. DiskShape(s2, T)  BY DEF Shaped, DiskShape, ProcShape, BindingShape, JournalShape, Off, NoPrior, NoReading,
         NoBinding, Snapshot, PartOf, NoEvidence
<1>2. ProcShape(p2, T, O)  BY DEF Shaped, DiskShape, ProcShape, BindingShape, JournalShape, Off, NoPrior,
         NoReading, NoBinding, Snapshot, PartOf, NoEvidence
<1>3. DiskKnows(s2, S, W) /\ DaemonKnows(r, s2, N)
      BY DEF Shaped, DiskShape, ProcShape, BindingShape, JournalShape, Known, DiskKnows, DaemonKnows,
         ProcKnows, VerifyKnows, MigrateKnows, JournalKnows, ProvisionKnows, ResetKnows, BoundKnows, ServeKnows,
         Verifies, Migrates, Binds, Serves, Unchosen, At, Then, Bound, NoHardware, Present, Destructive,
         Traceless, Off, NoPrior, NoReading, NoBinding, Snapshot, PartOf, NoEvidence
<1>4. ProcKnows(s2, p2, N, S)
      BY DEF Shaped, DiskShape, ProcShape, BindingShape, JournalShape, Known, DiskKnows,
         ProcKnows, VerifyKnows, MigrateKnows, JournalKnows, ProvisionKnows, ResetKnows, BoundKnows, ServeKnows,
         Verifies, Migrates, Binds, Serves, Unchosen, At, Then, Bound, NoHardware, Present, Destructive,
         Traceless, Off, NoPrior, NoReading, NoBinding, Snapshot, PartOf, NoEvidence
<1>5. Stays(s, p, s2, p2)
      BY DEF Shaped, DiskShape, ProcShape, BindingShape, JournalShape,
         Known, ProcKnows, ProvisionKnows, VerifyKnows, Verifies, Unchosen, Binds, At, Then, Stays, Bound,
         NoHardware, Off, NoPrior, NoReading, NoBinding, Snapshot, PartOf, NoEvidence
<1> QED  BY <1>1, <1>2, <1>3, <1>4, <1>5 DEF Shaped, Known

\* A Drone that serves keeps its state and its id and forgets the rest.
LEMMA ServeStepKnows ==
  ASSUME NEW s, NEW p, NEW r, NEW N, NEW S, NEW W, NEW T, NEW O, Shaped(s, p, T, O), Known(s, p, r, N, S, W),
         p.pc = "serve", NoToken \in T, NoEvidence \in Evidence
  PROVE  LET s2 == s
             p2 == Resting(p)
         IN  Shaped(s2, p2, T, O) /\ Known(s2, p2, r, N, S, W) /\ Stays(s, p, s2, p2)
<1> DEFINE s2 == s
           p2 == Resting(p)
<1>1. DiskShape(s2, T)  BY DEF Shaped, DiskShape, ProcShape, BindingShape, JournalShape, Resting, Off, NoPrior,
         NoReading, NoBinding, Snapshot, PartOf, NoEvidence
<1>2. ProcShape(p2, T, O)  BY DEF Shaped, DiskShape, ProcShape, BindingShape, JournalShape, Resting, Off,
         NoPrior, NoReading, NoBinding, Snapshot, PartOf, NoEvidence
<1>3. DiskKnows(s2, S, W) /\ DaemonKnows(r, s2, N)
      BY DEF Shaped, DiskShape, ProcShape, BindingShape, JournalShape, Known, DiskKnows, DaemonKnows,
         ProcKnows, VerifyKnows, MigrateKnows, JournalKnows, ProvisionKnows, ResetKnows, BoundKnows, ServeKnows,
         Verifies, Migrates, Binds, Serves, Unchosen, At, Then, Bound, NoHardware, Present, Destructive,
         Traceless, Resting, Off, NoPrior, NoReading, NoBinding, Snapshot, PartOf, NoEvidence
<1>4. ProcKnows(s2, p2, N, S)
      BY DEF Shaped, DiskShape, ProcShape, BindingShape, JournalShape, Known, DiskKnows,
         ProcKnows, VerifyKnows, MigrateKnows, JournalKnows, ProvisionKnows, ResetKnows, BoundKnows, ServeKnows,
         Verifies, Migrates, Binds, Serves, Unchosen, At, Then, Bound, NoHardware, Present, Destructive,
         Traceless, Resting, Off, NoPrior, NoReading, NoBinding, Snapshot, PartOf, NoEvidence
<1>5. Stays(s, p, s2, p2)
      BY DEF Shaped, DiskShape, ProcShape, BindingShape, JournalShape,
         Known, ProcKnows, ProvisionKnows, VerifyKnows, Verifies, Unchosen, Binds, At, Then, Stays, Bound,
         NoHardware, Resting, Off, NoPrior, NoReading, NoBinding, Snapshot, PartOf, NoEvidence
<1> QED  BY <1>1, <1>2, <1>3, <1>4, <1>5 DEF Shaped, Known

\* ensure_certificate issues a missing certificate before the Drone serves.
LEMMA ServeGenerateKnows ==
  ASSUME NEW s, NEW p, NEW r, NEW N, NEW S, NEW W, NEW T, NEW O, Shaped(s, p, T, O), Known(s, p, r, N, S, W),
         p.pc = "serve"
  PROVE  LET s2 == s
             p2 == [p EXCEPT !.pc = "generate", !.next = "record"]
         IN  Shaped(s2, p2, T, O) /\ Known(s2, p2, r, N, S, W) /\ Stays(s, p, s2, p2)
<1> DEFINE s2 == s
           p2 == [p EXCEPT !.pc = "generate", !.next = "record"]
<1>1. DiskShape(s2, T)  BY DEF Shaped, DiskShape, ProcShape, BindingShape, JournalShape
<1>2. ProcShape(p2, T, O)  BY DEF Shaped, DiskShape, ProcShape, BindingShape, JournalShape
<1>3. DiskKnows(s2, S, W) /\ DaemonKnows(r, s2, N)
      BY DEF Shaped, DiskShape, ProcShape, BindingShape, JournalShape, Known, DiskKnows, DaemonKnows,
         ProcKnows, VerifyKnows, MigrateKnows, JournalKnows, ProvisionKnows, ResetKnows, BoundKnows, ServeKnows,
         Verifies, Migrates, Binds, Serves, Unchosen, At, Then, Bound, NoHardware, Present, Destructive, Traceless
<1>4. ProcKnows(s2, p2, N, S)
      BY DEF Shaped, DiskShape, ProcShape, BindingShape, JournalShape, Known, DiskKnows,
         ProcKnows, VerifyKnows, MigrateKnows, JournalKnows, ProvisionKnows, ResetKnows, BoundKnows, ServeKnows,
         Verifies, Migrates, Binds, Serves, Unchosen, At, Then, Bound, NoHardware, Present, Destructive, Traceless
<1>5. Stays(s, p, s2, p2)
      BY DEF Shaped, DiskShape, ProcShape, BindingShape, JournalShape,
         Known, ProcKnows, ProvisionKnows, VerifyKnows, Verifies, Unchosen, Binds, At, Then, Stays, Bound,
         NoHardware
<1> QED  BY <1>1, <1>2, <1>3, <1>4, <1>5 DEF Shaped, Known

\* ensure_certificate records it, in whatever binding there is.
LEMMA RecordKnows ==
  ASSUME NEW s, NEW p, NEW r, NEW N, NEW S, NEW W, NEW T, NEW O, Shaped(s, p, T, O), Known(s, p, r, N, S, W),
         p.pc = "record", NoToken \in T, NoEvidence \in Evidence,
         NEW u \in {s, [s EXCEPT !.binding.fp = s.crt]}
  PROVE  LET s2 == u
             p2 == Resting(p)
         IN  Shaped(s2, p2, T, O) /\ Known(s2, p2, r, N, S, W) /\ Stays(s, p, s2, p2)
<1> DEFINE s2 == u
           p2 == Resting(p)
<1>1. DiskShape(s2, T)  BY DEF Shaped, DiskShape, ProcShape, BindingShape, JournalShape, Resting, Off, NoPrior,
         NoReading, NoBinding, Snapshot, PartOf, NoEvidence
<1>2. ProcShape(p2, T, O)  BY DEF Shaped, DiskShape, ProcShape, BindingShape, JournalShape, Resting, Off,
         NoPrior, NoReading, NoBinding, Snapshot, PartOf, NoEvidence
<1>3. DiskKnows(s2, S, W) /\ DaemonKnows(r, s2, N)
      BY DEF Shaped, DiskShape, ProcShape, BindingShape, JournalShape, Known, DiskKnows, DaemonKnows,
         ProcKnows, VerifyKnows, MigrateKnows, JournalKnows, ProvisionKnows, ResetKnows, BoundKnows, ServeKnows,
         Verifies, Migrates, Binds, Serves, Unchosen, At, Then, Bound, NoHardware, Present, Destructive,
         Traceless, Resting, Off, NoPrior, NoReading, NoBinding, Snapshot, PartOf, NoEvidence
<1>4. ProcKnows(s2, p2, N, S)
      BY DEF Shaped, DiskShape, ProcShape, BindingShape, JournalShape, Known, DiskKnows,
         ProcKnows, VerifyKnows, MigrateKnows, JournalKnows, ProvisionKnows, ResetKnows, BoundKnows, ServeKnows,
         Verifies, Migrates, Binds, Serves, Unchosen, At, Then, Bound, NoHardware, Present, Destructive,
         Traceless, Resting, Off, NoPrior, NoReading, NoBinding, Snapshot, PartOf, NoEvidence
<1>5. Stays(s, p, s2, p2)
      BY DEF Shaped, DiskShape, ProcShape, BindingShape, JournalShape,
         Known, ProcKnows, ProvisionKnows, VerifyKnows, Verifies, Unchosen, Binds, At, Then, Stays, Bound,
         NoHardware, Resting, Off, NoPrior, NoReading, NoBinding, Snapshot, PartOf, NoEvidence
<1> QED  BY <1>1, <1>2, <1>3, <1>4, <1>5 DEF Shaped, Known

\* Pairing and logging in give a disk the trust of its own installation.
LEMMA PairKnows ==
  ASSUME NEW s, NEW p, NEW r, NEW N, NEW S, NEW W, NEW T, NEW O, Shaped(s, p, T, O), Known(s, p, r, N, S, W),
         p.pc = "serving", p.state = "ready", Bound(s)
  PROVE  LET s2 == [s EXCEPT !.trust = TrustOf(s.binding.inst), !.access = s.binding.inst]
             p2 == p
         IN  Shaped(s2, p2, T, O) /\ Known(s2, p2, r, N, S, W) /\ Stays(s, p, s2, p2)
<1> DEFINE s2 == [s EXCEPT !.trust = TrustOf(s.binding.inst), !.access = s.binding.inst]
           p2 == p
<1>1. DiskShape(s2, T)  BY DEF Shaped, DiskShape, ProcShape, BindingShape, JournalShape, TrustOf
<1>2. ProcShape(p2, T, O)  BY DEF Shaped, DiskShape, ProcShape, BindingShape, JournalShape, TrustOf
<1>3. DiskKnows(s2, S, W) /\ DaemonKnows(r, s2, N)
      BY DEF Shaped, DiskShape, ProcShape, BindingShape, JournalShape, Known, DiskKnows, DaemonKnows,
         ProcKnows, VerifyKnows, MigrateKnows, JournalKnows, ProvisionKnows, ResetKnows, BoundKnows, ServeKnows,
         Verifies, Migrates, Binds, Serves, Unchosen, At, Then, Bound, NoHardware, Present, Destructive,
         Traceless, TrustOf
<1>4. ProcKnows(s2, p2, N, S)
      BY DEF Shaped, DiskShape, ProcShape, BindingShape, JournalShape, Known, DiskKnows,
         ProcKnows, VerifyKnows, MigrateKnows, JournalKnows, ProvisionKnows, ResetKnows, BoundKnows, ServeKnows,
         Verifies, Migrates, Binds, Serves, Unchosen, At, Then, Bound, NoHardware, Present, Destructive,
         Traceless, TrustOf
<1>5. Stays(s, p, s2, p2)
      BY DEF Shaped, DiskShape, ProcShape, BindingShape, JournalShape,
         Known, ProcKnows, ProvisionKnows, VerifyKnows, Verifies, Unchosen, Binds, At, Then, Stays, Bound,
         NoHardware, TrustOf
<1> QED  BY <1>1, <1>2, <1>3, <1>4, <1>5 DEF Shaped, Known

\* enroll_tailnet brings the node up, or gives the installation a node of its own.
LEMMA EnrollKnows ==
  ASSUME NEW s, NEW p, NEW r, NEW N, NEW S, NEW W, NEW T, NEW O, Shaped(s, p, T, O), Known(s, p, r, N, S, W),
         p.pc = "serving", r = TRUE, Bound(s), NEW node, node = s.node \/ node = s.binding.inst
  PROVE  LET s2 == [s EXCEPT !.node = node, !.down = FALSE]
             p2 == p
         IN  Shaped(s2, p2, T, O) /\ Known(s2, p2, r, N, S, W) /\ Stays(s, p, s2, p2)
<1> DEFINE s2 == [s EXCEPT !.node = node, !.down = FALSE]
           p2 == p
<1>1. DiskShape(s2, T)  BY DEF Shaped, DiskShape, ProcShape, BindingShape, JournalShape
<1>2. ProcShape(p2, T, O)  BY DEF Shaped, DiskShape, ProcShape, BindingShape, JournalShape
<1>3. DiskKnows(s2, S, W) /\ DaemonKnows(r, s2, N)
      BY DEF Shaped, DiskShape, ProcShape, BindingShape, JournalShape, Known, DiskKnows, DaemonKnows,
         ProcKnows, VerifyKnows, MigrateKnows, JournalKnows, ProvisionKnows, ResetKnows, BoundKnows, ServeKnows,
         Verifies, Migrates, Binds, Serves, Unchosen, At, Then, Bound, NoHardware, Present, Destructive, Traceless
<1>4. ProcKnows(s2, p2, N, S)
      BY DEF Shaped, DiskShape, ProcShape, BindingShape, JournalShape, Known, DiskKnows,
         ProcKnows, VerifyKnows, MigrateKnows, JournalKnows, ProvisionKnows, ResetKnows, BoundKnows, ServeKnows,
         Verifies, Migrates, Binds, Serves, Unchosen, At, Then, Bound, NoHardware, Present, Destructive, Traceless
<1>5. Stays(s, p, s2, p2)
      BY DEF Shaped, DiskShape, ProcShape, BindingShape, JournalShape,
         Known, ProcKnows, ProvisionKnows, VerifyKnows, Verifies, Unchosen, Binds, At, Then, Stays, Bound,
         NoHardware
<1> QED  BY <1>1, <1>2, <1>3, <1>4, <1>5 DEF Shaped, Known

\* A rotation renames the key.
LEMMA RotateKnows ==
  ASSUME NEW s, NEW p, NEW r, NEW N, NEW S, NEW W, NEW T, NEW O, Shaped(s, p, T, O), Known(s, p, r, N, S, W),
         p.pc = "serving", NEW t, t # NoToken
  PROVE  LET s2 == [s EXCEPT !.key = t]
             p2 == [p EXCEPT !.rot = "certificate", !.rotToken = t]
         IN  Shaped(s2, p2, T \cup {t}, O) /\ Known(s2, p2, r, N, S, W) /\ Stays(s, p, s2, p2)
<1> DEFINE s2 == [s EXCEPT !.key = t]
           p2 == [p EXCEPT !.rot = "certificate", !.rotToken = t]
<1>1. DiskShape(s2, T \cup {t})  BY DEF Shaped, DiskShape, ProcShape, BindingShape, JournalShape
<1>2. ProcShape(p2, T \cup {t}, O)  BY DEF Shaped, DiskShape, ProcShape, BindingShape, JournalShape
<1>3. DiskKnows(s2, S, W) /\ DaemonKnows(r, s2, N)
      BY DEF Shaped, DiskShape, ProcShape, BindingShape, JournalShape, Known, DiskKnows, DaemonKnows,
         ProcKnows, VerifyKnows, MigrateKnows, JournalKnows, ProvisionKnows, ResetKnows, BoundKnows, ServeKnows,
         Verifies, Migrates, Binds, Serves, Unchosen, At, Then, Bound, NoHardware, Present, Destructive, Traceless
<1>4. ProcKnows(s2, p2, N, S)
      BY DEF Shaped, DiskShape, ProcShape, BindingShape, JournalShape, Known, DiskKnows,
         ProcKnows, VerifyKnows, MigrateKnows, JournalKnows, ProvisionKnows, ResetKnows, BoundKnows, ServeKnows,
         Verifies, Migrates, Binds, Serves, Unchosen, At, Then, Bound, NoHardware, Present, Destructive, Traceless
<1>5. Stays(s, p, s2, p2)
      BY DEF Shaped, DiskShape, ProcShape, BindingShape, JournalShape,
         Known, ProcKnows, ProvisionKnows, VerifyKnows, Verifies, Unchosen, Binds, At, Then, Stays, Bound,
         NoHardware
<1> QED  BY <1>1, <1>2, <1>3, <1>4, <1>5 DEF Shaped, Known

\* A rotation renames the certificate, outside the provisioning lock.
LEMMA RotateCertificateKnows ==
  ASSUME NEW s, NEW p, NEW r, NEW N, NEW S, NEW W, NEW T, NEW O, Shaped(s, p, T, O), Known(s, p, r, N, S, W),
         p.rot = "certificate"
  PROVE  LET s2 == [s EXCEPT !.crt = p.rotToken]
             p2 == [p EXCEPT !.rot = "record"]
         IN  Shaped(s2, p2, T, O) /\ Known(s2, p2, r, N, S, W) /\ Stays(s, p, s2, p2)
<1> DEFINE s2 == [s EXCEPT !.crt = p.rotToken]
           p2 == [p EXCEPT !.rot = "record"]
<1>1. DiskShape(s2, T)  BY DEF Shaped, DiskShape, ProcShape, BindingShape, JournalShape
<1>2. ProcShape(p2, T, O)  BY DEF Shaped, DiskShape, ProcShape, BindingShape, JournalShape
<1>3. DiskKnows(s2, S, W) /\ DaemonKnows(r, s2, N)
      BY DEF Shaped, DiskShape, ProcShape, BindingShape, JournalShape, Known, DiskKnows, DaemonKnows,
         ProcKnows, VerifyKnows, MigrateKnows, JournalKnows, ProvisionKnows, ResetKnows, BoundKnows, ServeKnows,
         Verifies, Migrates, Binds, Serves, Unchosen, At, Then, Bound, NoHardware, Present, Destructive, Traceless
<1>4. ProcKnows(s2, p2, N, S)
      BY DEF Shaped, DiskShape, ProcShape, BindingShape, JournalShape, Known, DiskKnows,
         ProcKnows, VerifyKnows, MigrateKnows, JournalKnows, ProvisionKnows, ResetKnows, BoundKnows, ServeKnows,
         Verifies, Migrates, Binds, Serves, Unchosen, At, Then, Bound, NoHardware, Present, Destructive, Traceless
<1>5. Stays(s, p, s2, p2)
      BY DEF Shaped, DiskShape, ProcShape, BindingShape, JournalShape,
         Known, ProcKnows, ProvisionKnows, VerifyKnows, Verifies, Unchosen, Binds, At, Then, Stays, Bound,
         NoHardware
<1> QED  BY <1>1, <1>2, <1>3, <1>4, <1>5 DEF Shaped, Known

\* record_certificate_rotation writes the new certificate into the binding.
LEMMA RotateRecordKnows ==
  ASSUME NEW s, NEW p, NEW r, NEW N, NEW S, NEW W, NEW T, NEW O, Shaped(s, p, T, O), Known(s, p, r, N, S, W),
         p.rot = "record", p.pc \in {"serving", "restarting"},
         NEW u \in {s, [s EXCEPT !.binding.fp = s.crt]}
  PROVE  LET s2 == u
             p2 == [p EXCEPT !.rot = "idle"]
         IN  Shaped(s2, p2, T, O) /\ Known(s2, p2, r, N, S, W) /\ Stays(s, p, s2, p2)
<1> DEFINE s2 == u
           p2 == [p EXCEPT !.rot = "idle"]
<1>1. DiskShape(s2, T)  BY DEF Shaped, DiskShape, ProcShape, BindingShape, JournalShape
<1>2. ProcShape(p2, T, O)  BY DEF Shaped, DiskShape, ProcShape, BindingShape, JournalShape
<1>3. DiskKnows(s2, S, W) /\ DaemonKnows(r, s2, N)
      BY DEF Shaped, DiskShape, ProcShape, BindingShape, JournalShape, Known, DiskKnows, DaemonKnows,
         ProcKnows, VerifyKnows, MigrateKnows, JournalKnows, ProvisionKnows, ResetKnows, BoundKnows, ServeKnows,
         Verifies, Migrates, Binds, Serves, Unchosen, At, Then, Bound, NoHardware, Present, Destructive, Traceless
<1>4. ProcKnows(s2, p2, N, S)
      BY DEF Shaped, DiskShape, ProcShape, BindingShape, JournalShape, Known, DiskKnows,
         ProcKnows, VerifyKnows, MigrateKnows, JournalKnows, ProvisionKnows, ResetKnows, BoundKnows, ServeKnows,
         Verifies, Migrates, Binds, Serves, Unchosen, At, Then, Bound, NoHardware, Present, Destructive, Traceless
<1>5. Stays(s, p, s2, p2)
      BY DEF Shaped, DiskShape, ProcShape, BindingShape, JournalShape,
         Known, ProcKnows, ProvisionKnows, VerifyKnows, Verifies, Unchosen, Binds, At, Then, Stays, Bound,
         NoHardware
<1> QED  BY <1>1, <1>2, <1>3, <1>4, <1>5 DEF Shaped, Known

\* authorize_hardware_change, and its withdrawal, touch the authorization only.
LEMMA AuthorizeKnows ==
  ASSUME NEW s, NEW p, NEW r, NEW N, NEW S, NEW W, NEW T, NEW O, Shaped(s, p, T, O), Known(s, p, r, N, S, W),
         NEW t, p.pc \in {"off", "serving"}
  PROVE  LET s2 == [s EXCEPT !.auth = t]
             p2 == p
         IN  Shaped(s2, p2, T, O) /\ Known(s2, p2, r, N, S, W) /\ Stays(s, p, s2, p2)
<1> DEFINE s2 == [s EXCEPT !.auth = t]
           p2 == p
<1>1. DiskShape(s2, T)  BY DEF Shaped, DiskShape, ProcShape, BindingShape, JournalShape
<1>2. ProcShape(p2, T, O)  BY DEF Shaped, DiskShape, ProcShape, BindingShape, JournalShape
<1>3. DiskKnows(s2, S, W) /\ DaemonKnows(r, s2, N)
      BY DEF Shaped, DiskShape, ProcShape, BindingShape, JournalShape, Known, DiskKnows, DaemonKnows,
         ProcKnows, VerifyKnows, MigrateKnows, JournalKnows, ProvisionKnows, ResetKnows, BoundKnows, ServeKnows,
         Verifies, Migrates, Binds, Serves, Unchosen, At, Then, Bound, NoHardware, Present, Destructive, Traceless
<1>4. ProcKnows(s2, p2, N, S)
      BY DEF Shaped, DiskShape, ProcShape, BindingShape, JournalShape, Known, DiskKnows,
         ProcKnows, VerifyKnows, MigrateKnows, JournalKnows, ProvisionKnows, ResetKnows, BoundKnows, ServeKnows,
         Verifies, Migrates, Binds, Serves, Unchosen, At, Then, Bound, NoHardware, Present, Destructive, Traceless
<1>5. Stays(s, p, s2, p2)
      BY DEF Shaped, DiskShape, ProcShape, BindingShape, JournalShape,
         Known, ProcKnows, ProvisionKnows, VerifyKnows, Verifies, Unchosen, Binds, At, Then, Stays, Bound,
         NoHardware
<1> QED  BY <1>1, <1>2, <1>3, <1>4, <1>5 DEF Shaped, Known

\* A process that starts knows its id, which Settings.from_env may have drawn.
LEMMA StartKnows ==
  ASSUME NEW s, NEW p, NEW r, NEW N, NEW S, NEW W, NEW T, NEW O, Shaped(s, p, T, O), Known(s, p, r, N, S, W),
         NEW t, NEW i, i \in T \cup {t}, NoToken \in T, NoEvidence \in Evidence,
         NEW u, u = s \/ u = [s EXCEPT !.file = t]
  PROVE  LET s2 == u
             p2 == [Off EXCEPT !.pc = "validate", !.state = "validating", !.id = i]
         IN  Shaped(s2, p2, T \cup {t}, O) /\ Known(s2, p2, r, N, S, W) /\ Stays(s, p, s2, p2)
<1> DEFINE s2 == u
           p2 == [Off EXCEPT !.pc = "validate", !.state = "validating", !.id = i]
<1>1. DiskShape(s2, T \cup {t})  BY DEF Shaped, DiskShape, ProcShape, BindingShape, JournalShape, Off, NoPrior,
         NoReading, NoBinding, Snapshot, PartOf, NoEvidence
<1>2. ProcShape(p2, T \cup {t}, O)  BY DEF Shaped, DiskShape, ProcShape, BindingShape, JournalShape, Off,
         NoPrior, NoReading, NoBinding, Snapshot, PartOf, NoEvidence
<1>3. DiskKnows(s2, S, W) /\ DaemonKnows(r, s2, N)
      BY DEF Shaped, DiskShape, ProcShape, BindingShape, JournalShape, Known, DiskKnows, DaemonKnows,
         ProcKnows, VerifyKnows, MigrateKnows, JournalKnows, ProvisionKnows, ResetKnows, BoundKnows, ServeKnows,
         Verifies, Migrates, Binds, Serves, Unchosen, At, Then, Bound, NoHardware, Present, Destructive,
         Traceless, Off, NoPrior, NoReading, NoBinding, Snapshot, PartOf, NoEvidence
<1>4. ProcKnows(s2, p2, N, S)
      BY DEF Shaped, DiskShape, ProcShape, BindingShape, JournalShape, Known, DiskKnows,
         ProcKnows, VerifyKnows, MigrateKnows, JournalKnows, ProvisionKnows, ResetKnows, BoundKnows, ServeKnows,
         Verifies, Migrates, Binds, Serves, Unchosen, At, Then, Bound, NoHardware, Present, Destructive,
         Traceless, Off, NoPrior, NoReading, NoBinding, Snapshot, PartOf, NoEvidence
<1>5. Stays(s, p, s2, p2)
      BY DEF Shaped, DiskShape, ProcShape, BindingShape, JournalShape,
         Known, ProcKnows, ProvisionKnows, VerifyKnows, Verifies, Unchosen, Binds, At, Then, Stays, Bound,
         NoHardware, Off, NoPrior, NoReading, NoBinding, Snapshot, PartOf, NoEvidence
<1> QED  BY <1>1, <1>2, <1>3, <1>4, <1>5 DEF Shaped, Known

\* An id file that Settings.from_env writes is not what the rest depends on.
LEMMA FileKnows ==
  ASSUME NEW s, NEW p, NEW r, NEW N, NEW S, NEW W, NEW T, NEW O, Shaped(s, p, T, O), Known(s, p, r, N, S, W),
         NEW t \in T
  PROVE  LET s2 == [s EXCEPT !.file = t]
             p2 == p
         IN  Shaped(s2, p2, T, O) /\ Known(s2, p2, r, N, S, W) /\ Stays(s, p, s2, p2)
<1> DEFINE s2 == [s EXCEPT !.file = t]
           p2 == p
<1>1. DiskShape(s2, T)  BY DEF Shaped, DiskShape, ProcShape, BindingShape, JournalShape
<1>2. ProcShape(p2, T, O)  BY DEF Shaped, DiskShape, ProcShape, BindingShape, JournalShape
<1>3. DiskKnows(s2, S, W) /\ DaemonKnows(r, s2, N)
      BY DEF Shaped, DiskShape, ProcShape, BindingShape, JournalShape, Known, DiskKnows, DaemonKnows,
         ProcKnows, VerifyKnows, MigrateKnows, JournalKnows, ProvisionKnows, ResetKnows, BoundKnows, ServeKnows,
         Verifies, Migrates, Binds, Serves, Unchosen, At, Then, Bound, NoHardware, Present, Destructive, Traceless
<1>4. ProcKnows(s2, p2, N, S)
      BY DEF Shaped, DiskShape, ProcShape, BindingShape, JournalShape, Known, DiskKnows,
         ProcKnows, VerifyKnows, MigrateKnows, JournalKnows, ProvisionKnows, ResetKnows, BoundKnows, ServeKnows,
         Verifies, Migrates, Binds, Serves, Unchosen, At, Then, Bound, NoHardware, Present, Destructive, Traceless
<1>5. Stays(s, p, s2, p2)
      BY DEF Shaped, DiskShape, ProcShape, BindingShape, JournalShape,
         Known, ProcKnows, ProvisionKnows, VerifyKnows, Verifies, Unchosen, Binds, At, Then, Stays, Bound,
         NoHardware
<1> QED  BY <1>1, <1>2, <1>3, <1>4, <1>5 DEF Shaped, Known

\* _ensure_locked with a damaged journal verifies only a Drone that its hardware,
\* its certificate and its id agree on.
LEMMA JudgeUnreadableKnows ==
  ASSUME NEW s, NEW p, NEW r, NEW N, NEW S, NEW W, NEW T, NEW O, Shaped(s, p, T, O), Known(s, p, r, N, S, W),
         p.pc = "validate", s.journal.kind = "corrupt",
         (Bound(s) /\ Compare(s.binding.hw, p.reading) = "same" => s.binding.inst \in N),
         S \subseteq N, NoToken \in T, NoEvidence \in Evidence
  PROVE  LET s2 == s
             p2 == JudgeUnreadable(s, p)
         IN  Shaped(s2, p2, T, O) /\ Known(s2, p2, r, N, S, W) /\ Stays(s, p, s2, p2)
<1> DEFINE s2 == s
           p2 == JudgeUnreadable(s, p)
<1>0. /\ Compare(s.binding.hw, p.reading) \in {"same", "different"} => ~NoHardware(s)
      /\ Compare(s.binding.hw, p.reading) = "baseline" => NoHardware(s)
      BY DEF Compare, NoHardware, Judge
<1>1. DiskShape(s2, T)  BY <1>0 DEF Shaped, DiskShape, ProcShape, BindingShape, JournalShape, JudgeUnreadable,
         ToRecovery, ToVerify, ToRelease, ToProvision, PriorOf, Binding, NoPrior, NoBinding
<1>2. ProcShape(p2, T, O)  BY <1>0 DEF Shaped, DiskShape, ProcShape, BindingShape, JournalShape, JudgeUnreadable,
         ToRecovery, ToVerify, ToRelease, ToProvision, PriorOf, Binding, NoPrior, NoBinding
<1>3. DiskKnows(s2, S, W) /\ DaemonKnows(r, s2, N)
      BY <1>0 DEF Shaped, DiskShape, ProcShape, BindingShape, JournalShape, Known, DiskKnows, DaemonKnows,
         ProcKnows, VerifyKnows, MigrateKnows, JournalKnows, ProvisionKnows, ResetKnows, BoundKnows, ServeKnows,
         Verifies, Migrates, Binds, Serves, Unchosen, At, Then, Bound, NoHardware, Present, Destructive,
         Traceless, JudgeUnreadable, ToRecovery, ToVerify, ToRelease, ToProvision, PriorOf, Binding, NoPrior,
         NoBinding
<1>4. ProcKnows(s2, p2, N, S)
      BY <1>0 DEF Shaped, DiskShape, ProcShape, BindingShape, JournalShape, Known, DiskKnows,
         ProcKnows, VerifyKnows, MigrateKnows, JournalKnows, ProvisionKnows, ResetKnows, BoundKnows, ServeKnows,
         Verifies, Migrates, Binds, Serves, Unchosen, At, Then, Bound, NoHardware, Present, Destructive,
         Traceless, JudgeUnreadable, ToRecovery, ToVerify, ToRelease, ToProvision, PriorOf, Binding, NoPrior,
         NoBinding
<1>5. Stays(s, p, s2, p2)
      BY <1>0 DEF Shaped, DiskShape, ProcShape, BindingShape, JournalShape,
         Known, ProcKnows, ProvisionKnows, VerifyKnows, Verifies, Unchosen, Binds, At, Then, Stays, Bound,
         NoHardware, JudgeUnreadable, ToRecovery, ToVerify, ToRelease, ToProvision, PriorOf, Binding, NoPrior,
         NoBinding
<1> QED  BY <1>1, <1>2, <1>3, <1>4, <1>5 DEF Shaped, Known

\* _ensure_locked without a binding begins, migrates or asks.
LEMMA JudgeUnboundKnows ==
  ASSUME NEW s, NEW p, NEW r, NEW N, NEW S, NEW W, NEW T, NEW O, Shaped(s, p, T, O), Known(s, p, r, N, S, W),
         p.pc = "validate", s.journal.kind = "none", s.binding.kind # "ok",
         (Bound(s) /\ Compare(s.binding.hw, p.reading) = "same" => s.binding.inst \in N),
         S \subseteq N, NoToken \in T, NoEvidence \in Evidence
  PROVE  LET s2 == s
             p2 == JudgeUnbound(s, p)
         IN  Shaped(s2, p2, T, O) /\ Known(s2, p2, r, N, S, W) /\ Stays(s, p, s2, p2)
<1> DEFINE s2 == s
           p2 == JudgeUnbound(s, p)
<1>0. /\ Compare(s.binding.hw, p.reading) \in {"same", "different"} => ~NoHardware(s)
      /\ Compare(s.binding.hw, p.reading) = "baseline" => NoHardware(s)
      BY DEF Compare, NoHardware, Judge
<1>1. DiskShape(s2, T)  BY <1>0 DEF Shaped, DiskShape, ProcShape, BindingShape, JournalShape, JudgeUnbound,
         ToRecovery, ToVerify, ToRelease, ToProvision, PriorOf, Binding, NoPrior, NoBinding
<1>2. ProcShape(p2, T, O)  BY <1>0 DEF Shaped, DiskShape, ProcShape, BindingShape, JournalShape, JudgeUnbound,
         ToRecovery, ToVerify, ToRelease, ToProvision, PriorOf, Binding, NoPrior, NoBinding
<1>3. DiskKnows(s2, S, W) /\ DaemonKnows(r, s2, N)
      BY <1>0 DEF Shaped, DiskShape, ProcShape, BindingShape, JournalShape, Known, DiskKnows, DaemonKnows,
         ProcKnows, VerifyKnows, MigrateKnows, JournalKnows, ProvisionKnows, ResetKnows, BoundKnows, ServeKnows,
         Verifies, Migrates, Binds, Serves, Unchosen, At, Then, Bound, NoHardware, Present, Destructive,
         Traceless, JudgeUnbound, ToRecovery, ToVerify, ToRelease, ToProvision, PriorOf, Binding, NoPrior, NoBinding
<1>4. ProcKnows(s2, p2, N, S)
      BY <1>0 DEF Shaped, DiskShape, ProcShape, BindingShape, JournalShape, Known, DiskKnows,
         ProcKnows, VerifyKnows, MigrateKnows, JournalKnows, ProvisionKnows, ResetKnows, BoundKnows, ServeKnows,
         Verifies, Migrates, Binds, Serves, Unchosen, At, Then, Bound, NoHardware, Present, Destructive,
         Traceless, JudgeUnbound, ToRecovery, ToVerify, ToRelease, ToProvision, PriorOf, Binding, NoPrior, NoBinding
<1>5. Stays(s, p, s2, p2)
      BY <1>0 DEF Shaped, DiskShape, ProcShape, BindingShape, JournalShape,
         Known, ProcKnows, ProvisionKnows, VerifyKnows, Verifies, Unchosen, Binds, At, Then, Stays, Bound,
         NoHardware, JudgeUnbound, ToRecovery, ToVerify, ToRelease, ToProvision, PriorOf, Binding, NoPrior,
         NoBinding
<1> QED  BY <1>1, <1>2, <1>3, <1>4, <1>5 DEF Shaped, Known

\* _ensure_locked with a binding adopts, verifies, rebinds, begins a clone run or
\* asks, as the hardware decides.
LEMMA JudgeBoundKnows ==
  ASSUME NEW s, NEW p, NEW r, NEW N, NEW S, NEW W, NEW T, NEW O, Shaped(s, p, T, O), Known(s, p, r, N, S, W),
         p.pc = "validate", s.journal.kind = "none", s.binding.kind = "ok",
         (Bound(s) /\ Compare(s.binding.hw, p.reading) = "same" => s.binding.inst \in N),
         S \subseteq N, NoToken \in T, NoEvidence \in Evidence
  PROVE  LET s2 == s
             p2 == JudgeBound(s, p)
         IN  Shaped(s2, p2, T, O) /\ Known(s2, p2, r, N, S, W) /\ Stays(s, p, s2, p2)
<1> DEFINE s2 == s
           p2 == JudgeBound(s, p)
<1>0. /\ Compare(s.binding.hw, p.reading) \in {"same", "different"} => ~NoHardware(s)
      /\ Compare(s.binding.hw, p.reading) = "baseline" => NoHardware(s)
      BY DEF Compare, NoHardware, Judge
<1>1. DiskShape(s2, T)  BY <1>0 DEF Shaped, DiskShape, ProcShape, BindingShape, JournalShape, JudgeBound,
         ToRecovery, ToVerify, ToRelease, ToProvision, PriorOf, Binding, NoPrior, NoBinding
<1>2. ProcShape(p2, T, O)  BY <1>0 DEF Shaped, DiskShape, ProcShape, BindingShape, JournalShape, JudgeBound,
         ToRecovery, ToVerify, ToRelease, ToProvision, PriorOf, Binding, NoPrior, NoBinding
<1>3. DiskKnows(s2, S, W) /\ DaemonKnows(r, s2, N)
      BY <1>0 DEF Shaped, DiskShape, ProcShape, BindingShape, JournalShape, Known, DiskKnows, DaemonKnows,
         ProcKnows, VerifyKnows, MigrateKnows, JournalKnows, ProvisionKnows, ResetKnows, BoundKnows, ServeKnows,
         Verifies, Migrates, Binds, Serves, Unchosen, At, Then, Bound, NoHardware, Present, Destructive,
         Traceless, JudgeBound, ToRecovery, ToVerify, ToRelease, ToProvision, PriorOf, Binding, NoPrior, NoBinding
<1>4. ProcKnows(s2, p2, N, S)
      BY <1>0 DEF Shaped, DiskShape, ProcShape, BindingShape, JournalShape, Known, DiskKnows,
         ProcKnows, VerifyKnows, MigrateKnows, JournalKnows, ProvisionKnows, ResetKnows, BoundKnows, ServeKnows,
         Verifies, Migrates, Binds, Serves, Unchosen, At, Then, Bound, NoHardware, Present, Destructive,
         Traceless, JudgeBound, ToRecovery, ToVerify, ToRelease, ToProvision, PriorOf, Binding, NoPrior, NoBinding
<1>5. Stays(s, p, s2, p2)
      BY <1>0 DEF Shaped, DiskShape, ProcShape, BindingShape, JournalShape,
         Known, ProcKnows, ProvisionKnows, VerifyKnows, Verifies, Unchosen, Binds, At, Then, Stays, Bound,
         NoHardware, JudgeBound, ToRecovery, ToVerify, ToRelease, ToProvision, PriorOf, Binding, NoPrior, NoBinding
<1> QED  BY <1>1, <1>2, <1>3, <1>4, <1>5 DEF Shaped, Known

\* _resume_journal goes on with the run that the journal is of.
LEMMA ResumeRunKnows ==
  ASSUME NEW s, NEW p, NEW r, NEW N, NEW S, NEW W, NEW T, NEW O, Shaped(s, p, T, O), Known(s, p, r, N, S, W),
         p.pc = "validate" \/ p.pc = "serving", s.journal.kind = "ok", NoToken \in T
  PROVE  LET s2 == s
             p2 == ToProvision(p, s.journal.reason, TRUE, PriorOf(Binding(s)))
         IN  Shaped(s2, p2, T, O) /\ Known(s2, p2, r, N, S, W) /\ Stays(s, p, s2, p2)
<1> DEFINE s2 == s
           p2 == ToProvision(p, s.journal.reason, TRUE, PriorOf(Binding(s)))
<1>1. DiskShape(s2, T)  BY DEF Shaped, DiskShape, ProcShape, BindingShape, JournalShape, ToRecovery, ToVerify,
         ToRelease, ToProvision, PriorOf, Binding, NoPrior, NoBinding
<1>2. ProcShape(p2, T, O)  BY DEF Shaped, DiskShape, ProcShape, BindingShape, JournalShape, ToRecovery, ToVerify,
         ToRelease, ToProvision, PriorOf, Binding, NoPrior, NoBinding
<1>3. DiskKnows(s2, S, W) /\ DaemonKnows(r, s2, N)
      BY DEF Shaped, DiskShape, ProcShape, BindingShape, JournalShape, Known, DiskKnows, DaemonKnows,
         ProcKnows, VerifyKnows, MigrateKnows, JournalKnows, ProvisionKnows, ResetKnows, BoundKnows, ServeKnows,
         Verifies, Migrates, Binds, Serves, Unchosen, At, Then, Bound, NoHardware, Present, Destructive,
         Traceless, ToRecovery, ToVerify, ToRelease, ToProvision, PriorOf, Binding, NoPrior, NoBinding
<1>4. ProcKnows(s2, p2, N, S)
      BY DEF Shaped, DiskShape, ProcShape, BindingShape, JournalShape, Known, DiskKnows,
         ProcKnows, VerifyKnows, MigrateKnows, JournalKnows, ProvisionKnows, ResetKnows, BoundKnows, ServeKnows,
         Verifies, Migrates, Binds, Serves, Unchosen, At, Then, Bound, NoHardware, Present, Destructive,
         Traceless, ToRecovery, ToVerify, ToRelease, ToProvision, PriorOf, Binding, NoPrior, NoBinding
<1>5. Stays(s, p, s2, p2)
      BY DEF Shaped, DiskShape, ProcShape, BindingShape, JournalShape,
         Known, ProcKnows, ProvisionKnows, VerifyKnows, Verifies, Unchosen, Binds, At, Then, Stays, Bound,
         NoHardware, ToRecovery, ToVerify, ToRelease, ToProvision, PriorOf, Binding, NoPrior, NoBinding
<1> QED  BY <1>1, <1>2, <1>3, <1>4, <1>5 DEF Shaped, Known

\* A clone run begins, with the ids it may not choose.
LEMMA CloneKnows ==
  ASSUME NEW s, NEW p, NEW r, NEW N, NEW S, NEW W, NEW T, NEW O, Shaped(s, p, T, O), Known(s, p, r, N, S, W),
         p.pc = "validate" \/ p.pc = "serving", NEW task, task # "initial",
         NEW prior, prior.id \in T, prior.retired \subseteq T
  PROVE  LET s2 == s
             p2 == ToProvision(p, task, FALSE, prior)
         IN  Shaped(s2, p2, T, O) /\ Known(s2, p2, r, N, S, W) /\ Stays(s, p, s2, p2)
<1> DEFINE s2 == s
           p2 == ToProvision(p, task, FALSE, prior)
<1>1. DiskShape(s2, T)  BY DEF Shaped, DiskShape, ProcShape, BindingShape, JournalShape, ToProvision
<1>2. ProcShape(p2, T, O)  BY DEF Shaped, DiskShape, ProcShape, BindingShape, JournalShape, ToProvision
<1>3. DiskKnows(s2, S, W) /\ DaemonKnows(r, s2, N)
      BY DEF Shaped, DiskShape, ProcShape, BindingShape, JournalShape, Known, DiskKnows, DaemonKnows,
         ProcKnows, VerifyKnows, MigrateKnows, JournalKnows, ProvisionKnows, ResetKnows, BoundKnows, ServeKnows,
         Verifies, Migrates, Binds, Serves, Unchosen, At, Then, Bound, NoHardware, Present, Destructive,
         Traceless, ToProvision
<1>4. ProcKnows(s2, p2, N, S)
      BY DEF Shaped, DiskShape, ProcShape, BindingShape, JournalShape, Known, DiskKnows,
         ProcKnows, VerifyKnows, MigrateKnows, JournalKnows, ProvisionKnows, ResetKnows, BoundKnows, ServeKnows,
         Verifies, Migrates, Binds, Serves, Unchosen, At, Then, Bound, NoHardware, Present, Destructive,
         Traceless, ToProvision
<1>5. Stays(s, p, s2, p2)
      BY DEF Shaped, DiskShape, ProcShape, BindingShape, JournalShape,
         Known, ProcKnows, ProvisionKnows, VerifyKnows, Verifies, Unchosen, Binds, At, Then, Stays, Bound,
         NoHardware, ToProvision
<1> QED  BY <1>1, <1>2, <1>3, <1>4, <1>5 DEF Shaped, Known

\* A reading of this machine's own hardware is part of what it owns.
LEMMA ReadKnows ==
  ASSUME NEW s, NEW p, NEW r, NEW N, NEW S, NEW W, NEW T, NEW O, Shaped(s, p, T, O), Known(s, p, r, N, S, W),
         p.pc = "validate" \/ p.pc = "serving", NEW hw \in Snapshot, NEW ad, PartOf(hw.components, O)
  PROVE  LET s2 == s
             p2 == [p EXCEPT !.reading = hw]
         IN  Shaped(s2, p2, T, O) /\ Known(s2, p2, r, N, S, W) /\ Stays(s, p, s2, p2)
<1> DEFINE s2 == s
           p2 == [p EXCEPT !.reading = hw]
<1>1. DiskShape(s2, T)  BY DEF Shaped, DiskShape, ProcShape, BindingShape, JournalShape
<1>2. ProcShape(p2, T, O)  BY DEF Shaped, DiskShape, ProcShape, BindingShape, JournalShape
<1>3. DiskKnows(s2, S, W) /\ DaemonKnows(r, s2, N)
      BY DEF Shaped, DiskShape, ProcShape, BindingShape, JournalShape, Known, DiskKnows, DaemonKnows,
         ProcKnows, VerifyKnows, MigrateKnows, JournalKnows, ProvisionKnows, ResetKnows, BoundKnows, ServeKnows,
         Verifies, Migrates, Binds, Serves, Unchosen, At, Then, Bound, NoHardware, Present, Destructive, Traceless
<1>4. ProcKnows(s2, p2, N, S)
      BY DEF Shaped, DiskShape, ProcShape, BindingShape, JournalShape, Known, DiskKnows,
         ProcKnows, VerifyKnows, MigrateKnows, JournalKnows, ProvisionKnows, ResetKnows, BoundKnows, ServeKnows,
         Verifies, Migrates, Binds, Serves, Unchosen, At, Then, Bound, NoHardware, Present, Destructive, Traceless
<1>5. Stays(s, p, s2, p2)
      BY DEF Shaped, DiskShape, ProcShape, BindingShape, JournalShape,
         Known, ProcKnows, ProvisionKnows, VerifyKnows, Verifies, Unchosen, Binds, At, Then, Stays, Bound,
         NoHardware
<1> QED  BY <1>1, <1>2, <1>3, <1>4, <1>5 DEF Shaped, Known

\* So is the one that an administrator's request takes.
LEMMA AskKnows ==
  ASSUME NEW s, NEW p, NEW r, NEW N, NEW S, NEW W, NEW T, NEW O, Shaped(s, p, T, O), Known(s, p, r, N, S, W),
         p.pc = "serving", NEW hw \in Snapshot, NEW ad, PartOf(hw.components, O)
  PROVE  LET s2 == s
             p2 == [p EXCEPT !.reading = hw, !.admin = ad]
         IN  Shaped(s2, p2, T, O) /\ Known(s2, p2, r, N, S, W) /\ Stays(s, p, s2, p2)
<1> DEFINE s2 == s
           p2 == [p EXCEPT !.reading = hw, !.admin = ad]
<1>1. DiskShape(s2, T)  BY DEF Shaped, DiskShape, ProcShape, BindingShape, JournalShape
<1>2. ProcShape(p2, T, O)  BY DEF Shaped, DiskShape, ProcShape, BindingShape, JournalShape
<1>3. DiskKnows(s2, S, W) /\ DaemonKnows(r, s2, N)
      BY DEF Shaped, DiskShape, ProcShape, BindingShape, JournalShape, Known, DiskKnows, DaemonKnows,
         ProcKnows, VerifyKnows, MigrateKnows, JournalKnows, ProvisionKnows, ResetKnows, BoundKnows, ServeKnows,
         Verifies, Migrates, Binds, Serves, Unchosen, At, Then, Bound, NoHardware, Present, Destructive, Traceless
<1>4. ProcKnows(s2, p2, N, S)
      BY DEF Shaped, DiskShape, ProcShape, BindingShape, JournalShape, Known, DiskKnows,
         ProcKnows, VerifyKnows, MigrateKnows, JournalKnows, ProvisionKnows, ResetKnows, BoundKnows, ServeKnows,
         Verifies, Migrates, Binds, Serves, Unchosen, At, Then, Bound, NoHardware, Present, Destructive, Traceless
<1>5. Stays(s, p, s2, p2)
      BY DEF Shaped, DiskShape, ProcShape, BindingShape, JournalShape,
         Known, ProcKnows, ProvisionKnows, VerifyKnows, Verifies, Unchosen, Binds, At, Then, Stays, Bound,
         NoHardware
<1> QED  BY <1>1, <1>2, <1>3, <1>4, <1>5 DEF Shaped, Known

\* _provision binds a new installation to the hardware of this machine: all
\* inherited trust is gone by now, and the node too, or it is held.
LEMMA BindKnows ==
  ASSUME NEW s, NEW p, NEW r, NEW N, NEW S, NEW W, NEW T, NEW O, Shaped(s, p, T, O), Known(s, p, r, N, S, W),
         p.pc = "bind", NEW i,
         NEW N2, NEW S2, NEW W2, Wider(N, W, N2, S2, W2),
         MayBind(i, p.reading.components, N2, S2, W2),
         NEW b, DOMAIN b = DOMAIN s.binding, b.kind = "ok", b.inst = i, b.id = p.id, b.hw = p.reading.components,
         b.retired \subseteq T, p.id \notin b.retired, p.task = "initial" => b.retired = {}, b.pending = s.journal.held
  PROVE  LET s2 == [s EXCEPT !.binding = b]
             p2 == [p EXCEPT !.pc = "unjournal"]
         IN  Shaped(s2, p2, T \cup {i}, O) /\ Known(s2, p2, r, N2, S2, W2)
<1> DEFINE s2 == [s EXCEPT !.binding = b]
           p2 == [p EXCEPT !.pc = "unjournal"]
<1>1. DiskShape(s2, T \cup {i})  BY DEF Shaped, DiskShape, ProcShape, BindingShape, JournalShape, Wider,
         Snapshot, Part, MayBind
<1>2. ProcShape(p2, T \cup {i}, O)  BY DEF Shaped, DiskShape, ProcShape, BindingShape, JournalShape, Wider,
         Snapshot, Part, MayBind
<1>3. DiskKnows(s2, S2, W2) /\ DaemonKnows(r, s2, N2)
      BY DEF Shaped, DiskShape, ProcShape, BindingShape, JournalShape, Known, DiskKnows, DaemonKnows,
         ProcKnows, VerifyKnows, MigrateKnows, JournalKnows, ProvisionKnows, ResetKnows, BoundKnows, ServeKnows,
         Verifies, Migrates, Binds, Serves, Unchosen, At, Then, Bound, NoHardware, Present, Destructive,
         Traceless, Wider, Snapshot, Part, MayBind
<1>4. ProcKnows(s2, p2, N2, S2)
      BY DEF Shaped, DiskShape, ProcShape, BindingShape, JournalShape, Known, DiskKnows,
         ProcKnows, VerifyKnows, MigrateKnows, JournalKnows, ProvisionKnows, ResetKnows, BoundKnows, ServeKnows,
         Verifies, Migrates, Binds, Serves, Unchosen, At, Then, Bound, NoHardware, Present, Destructive,
         Traceless, Wider, Snapshot, Part, MayBind
<1> QED  BY <1>1, <1>2, <1>3, <1>4 DEF Shaped, Known

\* _migrate_existing binds an installation that had no binding, and names its
\* trust.
LEMMA MigrateStepKnows ==
  ASSUME NEW s, NEW p, NEW r, NEW N, NEW S, NEW W, NEW T, NEW O, Shaped(s, p, T, O), Known(s, p, r, N, S, W),
         p.pc = "migrate", NEW i, NEW fp, NoToken \in T,
         NEW N2, NEW S2, NEW W2, Wider(N, W, N2, S2, W2),
         MayBind(i, p.reading.components, N2, S2, W2)
  PROVE  LET s2 == [Named(s, i) EXCEPT !.binding = [NoBinding EXCEPT !.kind = "ok", !.inst = i, !.id = p.id, !.fp = fp,
                                                                     !.hw = p.reading.components]]
             p2 == [p EXCEPT !.pc = "serve", !.state = "ready"]
         IN  Shaped(s2, p2, T \cup {i}, O) /\ Known(s2, p2, r, N2, S2, W2)
<1> DEFINE s2 == [Named(s, i) EXCEPT !.binding = [NoBinding EXCEPT !.kind = "ok", !.inst = i, !.id = p.id, !.fp = fp,
                                                                     !.hw = p.reading.components]]
           p2 == [p EXCEPT !.pc = "serve", !.state = "ready"]
<1>1. DiskShape(s2, T \cup {i})  BY DEF Shaped, DiskShape, ProcShape, BindingShape, JournalShape, Wider,
         Snapshot, NoBinding, Named, MayBind
<1>2. ProcShape(p2, T \cup {i}, O)  BY DEF Shaped, DiskShape, ProcShape, BindingShape, JournalShape, Wider,
         Snapshot, NoBinding, Named, MayBind
<1>3. DiskKnows(s2, S2, W2) /\ DaemonKnows(r, s2, N2)
      BY DEF Shaped, DiskShape, ProcShape, BindingShape, JournalShape, Known, DiskKnows, DaemonKnows,
         ProcKnows, VerifyKnows, MigrateKnows, JournalKnows, ProvisionKnows, ResetKnows, BoundKnows, ServeKnows,
         Verifies, Migrates, Binds, Serves, Unchosen, At, Then, Bound, NoHardware, Present, Destructive,
         Traceless, Wider, Snapshot, NoBinding, Named, MayBind
<1>4. ProcKnows(s2, p2, N2, S2)
      BY DEF Shaped, DiskShape, ProcShape, BindingShape, JournalShape, Known, DiskKnows,
         ProcKnows, VerifyKnows, MigrateKnows, JournalKnows, ProvisionKnows, ResetKnows, BoundKnows, ServeKnows,
         Verifies, Migrates, Binds, Serves, Unchosen, At, Then, Bound, NoHardware, Present, Destructive,
         Traceless, Wider, Snapshot, NoBinding, Named, MayBind
<1> QED  BY <1>1, <1>2, <1>3, <1>4 DEF Shaped, Known

\* _adopt_baseline records the hardware of an installation that no other disk has
\* in use.
LEMMA AdoptKnows ==
  ASSUME NEW s, NEW p, NEW r, NEW N, NEW S, NEW W, NEW T, NEW O, Shaped(s, p, T, O), Known(s, p, r, N, S, W),
         p.pc = "adopt",
         NEW N2, NEW S2, NEW W2, Wider(N, W, N2, S2, W2),
         MayBind(s.binding.inst, p.reading.components, N2, S2, W2)
  PROVE  LET s2 == [s EXCEPT !.binding = [p.bound EXCEPT !.hw = p.reading.components]]
             p2 == ToVerify(p, [p.bound EXCEPT !.hw = p.reading.components])
         IN  Shaped(s2, p2, T, O) /\ Known(s2, p2, r, N2, S2, W2)
<1> DEFINE s2 == [s EXCEPT !.binding = [p.bound EXCEPT !.hw = p.reading.components]]
           p2 == ToVerify(p, [p.bound EXCEPT !.hw = p.reading.components])
<1>1. DiskShape(s2, T)  BY DEF Shaped, DiskShape, ProcShape, BindingShape, JournalShape, Wider, MayBind,
         Snapshot, ToVerify
<1>2. ProcShape(p2, T, O)  BY DEF Shaped, DiskShape, ProcShape, BindingShape, JournalShape, Wider, MayBind,
         Snapshot, ToVerify
<1>3. DiskKnows(s2, S2, W2) /\ DaemonKnows(r, s2, N2)
      BY DEF Shaped, DiskShape, ProcShape, BindingShape, JournalShape, Known, DiskKnows, DaemonKnows,
         ProcKnows, VerifyKnows, MigrateKnows, JournalKnows, ProvisionKnows, ResetKnows, BoundKnows, ServeKnows,
         Verifies, Migrates, Binds, Serves, Unchosen, At, Then, Bound, NoHardware, Present, Destructive,
         Traceless, Wider, MayBind, Snapshot, ToVerify
<1>4. ProcKnows(s2, p2, N2, S2)
      BY DEF Shaped, DiskShape, ProcShape, BindingShape, JournalShape, Known, DiskKnows,
         ProcKnows, VerifyKnows, MigrateKnows, JournalKnows, ProvisionKnows, ResetKnows, BoundKnows, ServeKnows,
         Verifies, Migrates, Binds, Serves, Unchosen, At, Then, Bound, NoHardware, Present, Destructive,
         Traceless, Wider, MayBind, Snapshot, ToVerify
<1> QED  BY <1>1, <1>2, <1>3, <1>4 DEF Shaped, Known

\* _rebind_authorized records the hardware that an administrator authorized.
LEMMA RebindKnows ==
  ASSUME NEW s, NEW p, NEW r, NEW N, NEW S, NEW W, NEW T, NEW O, Shaped(s, p, T, O), Known(s, p, r, N, S, W),
         p.pc = "rebind",
         NEW N2, NEW S2, NEW W2, Wider(N, W, N2, S2, W2),
         MayBind(s.binding.inst, p.reading.components, N2, S2, W2)
  PROVE  LET s2 == [s EXCEPT !.binding = [p.bound EXCEPT !.hw = p.reading.components]]
             p2 == [p EXCEPT !.bound = [p.bound EXCEPT !.hw = p.reading.components], !.pc = "consume"]
         IN  Shaped(s2, p2, T, O) /\ Known(s2, p2, r, N2, S2, W2)
<1> DEFINE s2 == [s EXCEPT !.binding = [p.bound EXCEPT !.hw = p.reading.components]]
           p2 == [p EXCEPT !.bound = [p.bound EXCEPT !.hw = p.reading.components], !.pc = "consume"]
<1>1. DiskShape(s2, T)  BY DEF Shaped, DiskShape, ProcShape, BindingShape, JournalShape, Wider, MayBind,
         Snapshot, Part
<1>2. ProcShape(p2, T, O)  BY DEF Shaped, DiskShape, ProcShape, BindingShape, JournalShape, Wider, MayBind,
         Snapshot, Part
<1>3. DiskKnows(s2, S2, W2) /\ DaemonKnows(r, s2, N2)
      BY DEF Shaped, DiskShape, ProcShape, BindingShape, JournalShape, Known, DiskKnows, DaemonKnows,
         ProcKnows, VerifyKnows, MigrateKnows, JournalKnows, ProvisionKnows, ResetKnows, BoundKnows, ServeKnows,
         Verifies, Migrates, Binds, Serves, Unchosen, At, Then, Bound, NoHardware, Present, Destructive,
         Traceless, Wider, MayBind, Snapshot, Part
<1>4. ProcKnows(s2, p2, N2, S2)
      BY DEF Shaped, DiskShape, ProcShape, BindingShape, JournalShape, Known, DiskKnows,
         ProcKnows, VerifyKnows, MigrateKnows, JournalKnows, ProvisionKnows, ResetKnows, BoundKnows, ServeKnows,
         Verifies, Migrates, Binds, Serves, Unchosen, At, Then, Bound, NoHardware, Present, Destructive,
         Traceless, Wider, MayBind, Snapshot, Part
<1> QED  BY <1>1, <1>2, <1>3, <1>4 DEF Shaped, Known

\* _verified saves the binding, and the Drone is ready.
LEMMA SaveKnows ==
  ASSUME NEW s, NEW p, NEW r, NEW N, NEW S, NEW W, NEW T, NEW O, Shaped(s, p, T, O), Known(s, p, r, N, S, W),
         p.pc = "save",
         NEW N2, NEW S2, NEW W2, Wider(N, W, N2, S2, W2), MayBind(s.binding.inst, p.bound.hw, N2, S2, W2)
  PROVE  LET s2 == [s EXCEPT !.binding = p.bound]
             p2 == [p EXCEPT !.state = "ready", !.pc = IF s.journal.kind = "corrupt" THEN "discard" ELSE "serve"]
         IN  Shaped(s2, p2, T, O) /\ Known(s2, p2, r, N2, S2, W2)
<1> DEFINE s2 == [s EXCEPT !.binding = p.bound]
           p2 == [p EXCEPT !.state = "ready", !.pc = IF s.journal.kind = "corrupt" THEN "discard" ELSE "serve"]
<1>1. DiskShape(s2, T)  BY DEF Shaped, DiskShape, ProcShape, BindingShape, JournalShape, Wider, MayBind
<1>2. ProcShape(p2, T, O)  BY DEF Shaped, DiskShape, ProcShape, BindingShape, JournalShape, Wider, MayBind
<1>3. DiskKnows(s2, S2, W2) /\ DaemonKnows(r, s2, N2)
      BY DEF Shaped, DiskShape, ProcShape, BindingShape, JournalShape, Known, DiskKnows, DaemonKnows,
         ProcKnows, VerifyKnows, MigrateKnows, JournalKnows, ProvisionKnows, ResetKnows, BoundKnows, ServeKnows,
         Verifies, Migrates, Binds, Serves, Unchosen, At, Then, Bound, NoHardware, Present, Destructive,
         Traceless, Wider, MayBind
<1>4. ProcKnows(s2, p2, N2, S2)
      BY DEF Shaped, DiskShape, ProcShape, BindingShape, JournalShape, Known, DiskKnows,
         ProcKnows, VerifyKnows, MigrateKnows, JournalKnows, ProvisionKnows, ResetKnows, BoundKnows, ServeKnows,
         Verifies, Migrates, Binds, Serves, Unchosen, At, Then, Bound, NoHardware, Present, Destructive,
         Traceless, Wider, MayBind
<1> QED  BY <1>1, <1>2, <1>3, <1>4 DEF Shaped, Known

\* resolve_recovery("keep") of an installation with a binding.
LEMMA KeepKnows ==
  ASSUME NEW s, NEW p, NEW r, NEW N, NEW S, NEW W, NEW T, NEW O, Shaped(s, p, T, O), Known(s, p, r, N, S, W),
         p.pc = "serving", Bound(s), s.journal.kind # "ok", NEW hw \in Evidence, NEW fp,
         NEW N2, NEW S2, NEW W2, Wider(N, W, N2, S2, W2),
         MayBind(s.binding.inst, hw, N2, S2, W2)
  PROVE  LET s2 == [s EXCEPT !.binding = [s.binding EXCEPT !.hw = hw, !.fp = fp]]
             p2 == [p EXCEPT !.pc = "release", !.next = "restarting", !.admin = TRUE]
         IN  Shaped(s2, p2, T, O) /\ Known(s2, p2, r, N2, S2, W2)
<1> DEFINE s2 == [s EXCEPT !.binding = [s.binding EXCEPT !.hw = hw, !.fp = fp]]
           p2 == [p EXCEPT !.pc = "release", !.next = "restarting", !.admin = TRUE]
<1>1. DiskShape(s2, T)  BY DEF Shaped, DiskShape, ProcShape, BindingShape, JournalShape, Wider, MayBind
<1>2. ProcShape(p2, T, O)  BY DEF Shaped, DiskShape, ProcShape, BindingShape, JournalShape, Wider, MayBind
<1>3. DiskKnows(s2, S2, W2) /\ DaemonKnows(r, s2, N2)
      BY DEF Shaped, DiskShape, ProcShape, BindingShape, JournalShape, Known, DiskKnows, DaemonKnows,
         ProcKnows, VerifyKnows, MigrateKnows, JournalKnows, ProvisionKnows, ResetKnows, BoundKnows, ServeKnows,
         Verifies, Migrates, Binds, Serves, Unchosen, At, Then, Bound, NoHardware, Present, Destructive,
         Traceless, Wider, MayBind
<1>4. ProcKnows(s2, p2, N2, S2)
      BY DEF Shaped, DiskShape, ProcShape, BindingShape, JournalShape, Known, DiskKnows,
         ProcKnows, VerifyKnows, MigrateKnows, JournalKnows, ProvisionKnows, ResetKnows, BoundKnows, ServeKnows,
         Verifies, Migrates, Binds, Serves, Unchosen, At, Then, Bound, NoHardware, Present, Destructive,
         Traceless, Wider, MayBind
<1> QED  BY <1>1, <1>2, <1>3, <1>4 DEF Shaped, Known

\* resolve_recovery("keep") of an installation without one, whose trust it names.
LEMMA KeepUnboundKnows ==
  ASSUME NEW s, NEW p, NEW r, NEW N, NEW S, NEW W, NEW T, NEW O, Shaped(s, p, T, O), Known(s, p, r, N, S, W),
         p.pc = "serving", ~Bound(s), s.journal.kind # "ok", NEW hw \in Evidence, NEW fp, NEW i, NoToken \in T,
         NEW N2, NEW S2, NEW W2, Wider(N, W, N2, S2, W2),
         MayBind(i, hw, N2, S2, W2)
  PROVE  LET s2 == [Named(s, i) EXCEPT !.binding = [NoBinding EXCEPT !.kind = "ok", !.inst = i, !.id = p.id, !.fp = fp, !.hw = hw]]
             p2 == [p EXCEPT !.pc = "release", !.next = "restarting", !.admin = TRUE]
         IN  Shaped(s2, p2, T \cup {i}, O) /\ Known(s2, p2, r, N2, S2, W2)
<1> DEFINE s2 == [Named(s, i) EXCEPT !.binding = [NoBinding EXCEPT !.kind = "ok", !.inst = i, !.id = p.id, !.fp = fp, !.hw = hw]]
           p2 == [p EXCEPT !.pc = "release", !.next = "restarting", !.admin = TRUE]
<1>1. DiskShape(s2, T \cup {i})  BY DEF Shaped, DiskShape, ProcShape, BindingShape, JournalShape, Wider, MayBind,
         Named, NoBinding
<1>2. ProcShape(p2, T \cup {i}, O)  BY DEF Shaped, DiskShape, ProcShape, BindingShape, JournalShape, Wider,
         MayBind, Named, NoBinding
<1>3. DiskKnows(s2, S2, W2) /\ DaemonKnows(r, s2, N2)
      BY DEF Shaped, DiskShape, ProcShape, BindingShape, JournalShape, Known, DiskKnows, DaemonKnows,
         ProcKnows, VerifyKnows, MigrateKnows, JournalKnows, ProvisionKnows, ResetKnows, BoundKnows, ServeKnows,
         Verifies, Migrates, Binds, Serves, Unchosen, At, Then, Bound, NoHardware, Present, Destructive,
         Traceless, Wider, MayBind, Named, NoBinding
<1>4. ProcKnows(s2, p2, N2, S2)
      BY DEF Shaped, DiskShape, ProcShape, BindingShape, JournalShape, Known, DiskKnows,
         ProcKnows, VerifyKnows, MigrateKnows, JournalKnows, ProvisionKnows, ResetKnows, BoundKnows, ServeKnows,
         Verifies, Migrates, Binds, Serves, Unchosen, At, Then, Bound, NoHardware, Present, Destructive,
         Traceless, Wider, MayBind, Named, NoBinding
<1> QED  BY <1>1, <1>2, <1>3, <1>4 DEF Shaped, Known

\* resolve_recovery("new") begins a run that is not the first.
LEMMA ReplaceKnows ==
  ASSUME NEW s, NEW p, NEW r, NEW N, NEW S, NEW W, NEW T, NEW O, Shaped(s, p, T, O), Known(s, p, r, N, S, W),
         p.pc = "serving", s.journal.kind # "ok", NoToken \in T
  PROVE  LET s2 == s
             p2 == ToProvision(p, "operator_new_identity", FALSE, PriorOf(Binding(s)))
         IN  Shaped(s2, p2, T, O) /\ Known(s2, p2, r, N, S, W) /\ Stays(s, p, s2, p2)
<1> DEFINE s2 == s
           p2 == ToProvision(p, "operator_new_identity", FALSE, PriorOf(Binding(s)))
<1>1. DiskShape(s2, T)  BY DEF Shaped, DiskShape, ProcShape, BindingShape, JournalShape, ToRecovery, ToVerify,
         ToRelease, ToProvision, PriorOf, Binding, NoPrior, NoBinding
<1>2. ProcShape(p2, T, O)  BY DEF Shaped, DiskShape, ProcShape, BindingShape, JournalShape, ToRecovery, ToVerify,
         ToRelease, ToProvision, PriorOf, Binding, NoPrior, NoBinding
<1>3. DiskKnows(s2, S, W) /\ DaemonKnows(r, s2, N)
      BY DEF Shaped, DiskShape, ProcShape, BindingShape, JournalShape, Known, DiskKnows, DaemonKnows,
         ProcKnows, VerifyKnows, MigrateKnows, JournalKnows, ProvisionKnows, ResetKnows, BoundKnows, ServeKnows,
         Verifies, Migrates, Binds, Serves, Unchosen, At, Then, Bound, NoHardware, Present, Destructive,
         Traceless, ToRecovery, ToVerify, ToRelease, ToProvision, PriorOf, Binding, NoPrior, NoBinding
<1>4. ProcKnows(s2, p2, N, S)
      BY DEF Shaped, DiskShape, ProcShape, BindingShape, JournalShape, Known, DiskKnows,
         ProcKnows, VerifyKnows, MigrateKnows, JournalKnows, ProvisionKnows, ResetKnows, BoundKnows, ServeKnows,
         Verifies, Migrates, Binds, Serves, Unchosen, At, Then, Bound, NoHardware, Present, Destructive,
         Traceless, ToRecovery, ToVerify, ToRelease, ToProvision, PriorOf, Binding, NoPrior, NoBinding
<1>5. Stays(s, p, s2, p2)
      BY DEF Shaped, DiskShape, ProcShape, BindingShape, JournalShape,
         Known, ProcKnows, ProvisionKnows, VerifyKnows, Verifies, Unchosen, Binds, At, Then, Stays, Bound,
         NoHardware, ToRecovery, ToVerify, ToRelease, ToProvision, PriorOf, Binding, NoPrior, NoBinding
<1> QED  BY <1>1, <1>2, <1>3, <1>4, <1>5 DEF Shaped, Known

\* A damaged journal or binding says less than it did.
LEMMA DamageKnows ==
  ASSUME NEW s, NEW p, NEW r, NEW N, NEW S, NEW W, NEW T, NEW O, Shaped(s, p, T, O), Known(s, p, r, N, S, W),
         p.pc = "off", r = FALSE, NoToken \in T, NoEvidence \in Evidence,
         NEW u, u = [s EXCEPT !.journal = [NoJournal EXCEPT !.kind = "corrupt"]]
                \/ u = [s EXCEPT !.binding = [NoBinding EXCEPT !.kind = "corrupt"]]
  PROVE  LET s2 == u
             p2 == p
         IN  Shaped(s2, p2, T, O) /\ Known(s2, p2, r, N, S, W) /\ Stays(s, p, s2, p2)
<1> DEFINE s2 == u
           p2 == p
<1>1. DiskShape(s2, T)  BY DEF Shaped, DiskShape, ProcShape, BindingShape, JournalShape, NoJournal, NoBinding
<1>2. ProcShape(p2, T, O)  BY DEF Shaped, DiskShape, ProcShape, BindingShape, JournalShape, NoJournal, NoBinding
<1>3. DiskKnows(s2, S, W) /\ DaemonKnows(r, s2, N)
      BY DEF Shaped, DiskShape, ProcShape, BindingShape, JournalShape, Known, DiskKnows, DaemonKnows,
         ProcKnows, VerifyKnows, MigrateKnows, JournalKnows, ProvisionKnows, ResetKnows, BoundKnows, ServeKnows,
         Verifies, Migrates, Binds, Serves, Unchosen, At, Then, Bound, NoHardware, Present, Destructive,
         Traceless, NoJournal, NoBinding
<1>4. ProcKnows(s2, p2, N, S)
      BY DEF Shaped, DiskShape, ProcShape, BindingShape, JournalShape, Known, DiskKnows,
         ProcKnows, VerifyKnows, MigrateKnows, JournalKnows, ProvisionKnows, ResetKnows, BoundKnows, ServeKnows,
         Verifies, Migrates, Binds, Serves, Unchosen, At, Then, Bound, NoHardware, Present, Destructive,
         Traceless, NoJournal, NoBinding
<1>5. Stays(s, p, s2, p2)
      BY DEF Shaped, DiskShape, ProcShape, BindingShape, JournalShape,
         Known, ProcKnows, ProvisionKnows, VerifyKnows, Verifies, Unchosen, Binds, At, Then, Stays, Bound,
         NoHardware, NoJournal, NoBinding
<1> QED  BY <1>1, <1>2, <1>3, <1>4, <1>5 DEF Shaped, Known

\* _resume_journal continues the run, begins another, or asks.
LEMMA ResumeKnows ==
  ASSUME NEW s, NEW p, NEW r, NEW N, NEW S, NEW W, NEW T, NEW O, Shaped(s, p, T, O), Known(s, p, r, N, S, W),
         p.pc = "validate" \/ p.pc = "serving", s.journal.kind = "ok", NoToken \in T, NEW replace
  PROVE  LET p2 == Resume(s, p, replace)
         IN  Shaped(s, p2, T, O) /\ Known(s, p2, r, N, S, W) /\ Stays(s, p, s, p2)
<1> DEFINE prior == [fp |-> IF PairFp(s) # NoToken THEN PairFp(s) ELSE s.journal.prevFp,
                     id |-> p.id,
                     retired |-> Binding(s).retired \cup ({s.journal.prevId, s.journal.newId} \ {NoToken})]
           p2 == Resume(s, p, replace)
<1>1. prior.id \in T /\ prior.retired \subseteq T
      BY DEF Shaped, DiskShape, ProcShape, BindingShape, JournalShape, Binding, NoBinding
<1>2. \/ p2 = ToProvision(p, s.journal.reason, TRUE, PriorOf(Binding(s))) \/ p2 = ToProvision(p, "clone", FALSE, prior)
      \/ p2 = ToRecovery(p, "journal_hardware_unverified")
      BY DEF Resume
<1> HIDE DEF prior, p2
<1> QED  BY <1>1, <1>2, ResumeRunKnows, CloneKnows, ToRecoveryKnows DEF p2

\* tailnet_start_permitted lets the daemon run only with a binding to this machine's
\* own hardware, whose node is not another one's.
LEMMA PermitKnows ==
  ASSUME NEW s, NEW p, NEW r, NEW N, NEW S, NEW W, Known(s, p, r, N, S, W), NEW run \in BOOLEAN,
         run = TRUE => Bound(s) /\ s.binding.inst \in N /\ s.journal.kind = "none" /\ ~s.binding.pending
  PROVE  Known(s, p, run, N, S, W)
<1>1. DaemonKnows(run, s, N)  BY DEF Known, DiskKnows, DaemonKnows
<1> QED  BY <1>1 DEF Known
-----------------------------------------------------------------------------
(* A step of one machine.                                                  *)

\* What is known of a machine stays known when others get installations of their
\* own.
LEMMA KnownGrows ==
  ASSUME NEW s, NEW p, NEW r, NEW N, NEW S, NEW W, Known(s, p, r, N, S, W),
         NEW N2, NEW S2, NEW W2, N \subseteq N2, S \subseteq S2, W \subseteq W2
  PROVE  Known(s, p, r, N2, S2, W2)
<1>1. DiskKnows(s, S2, W2)  BY DEF Known, DiskKnows
<1>2. DaemonKnows(r, s, N2)  BY DEF Known, DaemonKnows
<1>3. ProcKnows(s, p, N2, S2)
  <2>1. VerifyKnows(s, p, N2)  BY DEF Known, ProcKnows, VerifyKnows
  <2>2. BoundKnows(s, p, N2, S2)  BY DEF Known, ProcKnows, BoundKnows
  <2>3. ServeKnows(s, p, N2)  BY DEF Known, ProcKnows, ServeKnows
  <2> QED  BY <2>1, <2>2, <2>3 DEF Known, ProcKnows
<1> QED  BY <1>1, <1>2, <1>3 DEF Known

\* A shape stays one when values are drawn.
LEMMA ShapedGrows ==
  ASSUME NEW s, NEW p, NEW T, NEW O, Shaped(s, p, T, O), NEW T2, T \subseteq T2
  PROVE  Shaped(s, p, T2, O)
BY DEF Shaped, DiskShape, ProcShape, BindingShape, JournalShape

\* What the invariant says of machine m and the disk in it.
LEMMA Mine ==
  ASSUME IdentityInv, NEW m \in Machine
  PROVE  /\ where[m] \in Disk /\ daemon[m] \in BOOLEAN
         /\ Shaped(In(m), proc[m], Drawn, Owned[m])
         /\ Known(In(m), proc[m], daemon[m], Native[m], SoleOn[where[m]], Rightful)
         /\ SoleOn[where[m]] \subseteq Native[m] /\ excused \subseteq SoleOn[where[m]]
         /\ NoToken \in Drawn /\ NoEvidence \in Evidence
<1>1. where[m] \in Disk /\ daemon[m] \in BOOLEAN  BY DEF IdentityInv, Shapes
<1>2. Shaped(In(m), proc[m], Drawn, Owned[m])
      BY <1>1 DEF IdentityInv, DisksKnow, MachinesKnow, Shaped, In
<1>3. Known(In(m), proc[m], daemon[m], Native[m], SoleOn[where[m]], Rightful)
      BY <1>1 DEF IdentityInv, DisksKnow, MachinesKnow, Known, In
<1>4. NoEvidence \in [{} -> Digest]  BY DEF NoEvidence
<1>5. NoEvidence \in Evidence  BY <1>4 DEF Evidence
<1> QED  BY <1>1, <1>2, <1>3, <1>5 DEF Native, SoleOn, Drawn

\* Machine m writes s to its disk, and its process becomes p.
Local(m, s, p, r) ==
  /\ disk' = [disk EXCEPT ![where[m]] = s] /\ proc' = [proc EXCEPT ![m] = p]
  /\ daemon' = [daemon EXCEPT ![m] = r] /\ where' = where
Moves ==
  /\ drawn' \in [Machine -> 0 .. MaxToken] /\ (\A n \in Machine : drawn[n] <= drawn'[n]) /\ SiteShape'
  /\ excused \subseteq excused'
\* Only an installation that no other disk has in use gets a home, here.
Homes(m) ==
  /\ home' \in [Token -> Machine \cup {"nowhere"}]
  /\ \A i \in Token : home'[i] # home[i] =>
       /\ home[i] = "nowhere" /\ home'[i] = m /\ i \in Drawn'
       /\ i \in excused' \/ \A d \in Disk \ {where[m]} : i \notin SoleOn[d]
\* The disk has no installation in use which it had not before.
Leaves(m, s, p) ==
  Bound(s) =>
    \/ s.binding.inst \in excused' \/ s.binding.inst \notin Drawn
    \/ /\ Has(In(m), s.binding.inst)
       /\ Stuck(where[m]) => NoHardware(s) /\ s.journal.kind # "none" /\ p.pc # "unjournal"

\* A step that leaves the disk's installation brings no other into use.
LEMMA StaysLeaves ==
  ASSUME NEW m \in Machine, NEW s, NEW p, Stays(In(m), proc[m], s, p)
  PROVE  Leaves(m, s, p)
BY DEF Stays, Leaves, Has, Stuck, In

\* What was drawn stays drawn.
LEMMA DrawnGrows ==
  ASSUME Shapes, \A n \in Machine : drawn[n] <= drawn'[n], drawn' \in [Machine -> 0 .. MaxToken]
  PROVE  Drawn \subseteq Drawn'
BY DEF Shapes, Drawn, Token

\* A step of machine m leaves every installation with those who may use it.
LEMMA Grow ==
  ASSUME IdentityInv, NEW m \in Machine, NEW s, NEW p, NEW r \in BOOLEAN,
         Local(m, s, p, r), Moves, Homes(m), Leaves(m, s, p)
  PROVE  /\ Drawn \subseteq Drawn' /\ Rightful \subseteq Rightful'
         /\ \A d \in Disk \ {where[m]} : SoleOn[d] \subseteq (SoleOn')[d]
         /\ \A n \in Machine : Native[n] \subseteq (Native')[n]
         /\ \A i \in SoleOn[where[m]] : i \in (SoleOn')[where[m]] \/ (i \in Token /\ home'[i] # home[i])
<1>0. Drawn \subseteq Drawn'  BY DrawnGrows DEF IdentityInv, Moves
<1> DEFINE D == where[m]
<1>a. D \in Disk  BY Mine
<1>1. Rightful \subseteq Rightful'
  BY IdentityAssumption DEF Rightful, Moves, Homes, IdentityInv, Shapes
<1>2. \A d \in Disk \ {D} : disk'[d] = disk[d] /\ (Stuck(d)' <=> Stuck(d))
  <2> SUFFICES ASSUME NEW d \in Disk \ {D} PROVE disk'[d] = disk[d] /\ (Stuck(d)' <=> Stuck(d))  OBVIOUS
  <2>1. disk'[d] = disk[d]  BY DEF Local, IdentityInv, Shapes
  <2>2. \A n \in Machine : where[n] = d => proc'[n] = proc[n]  BY DEF Local, IdentityInv, Shapes
  <2> QED  BY <2>1, <2>2 DEF Stuck, Local
<1>3. disk'[D] = s /\ proc'[m] = p  BY <1>a DEF Local, IdentityInv, Shapes
<1>4. ASSUME NEW d \in Disk \ {D}, NEW i \in SoleOn[d] PROVE i \in (SoleOn')[d]
  <2>1. CASE i \in excused  BY <2>1 DEF SoleOn, Moves
  <2>2. CASE i \notin excused
    <3>1. i \in Drawn \ {NoToken} /\ home[i] = "nowhere" /\ \A e \in Disk \ {d} : Has(disk[e], i) => Stuck(e)
          BY <2>2 DEF SoleOn
    <3>2. i \in Token  BY <3>1 DEF Drawn
    <3>4. CASE i \in excused'  BY <3>4 DEF SoleOn
    <3>5. CASE i \notin excused'
      <4>0. home'[i] = "nowhere"  BY <3>5, <3>1, <3>2, <1>a DEF Homes
      <4>1. ASSUME NEW e \in Disk \ {d}, Has(disk'[e], i) PROVE Stuck(e)'
        <5>1. CASE e # D  BY <5>1, <4>1, <1>2, <3>1
        <5>2. CASE e = D
          <6>1. Has(s, i)  BY <5>2, <4>1, <1>3
          <6>2. Has(In(m), i)  BY <6>1, <3>1, <3>5 DEF Leaves, Has
          <6>3. Stuck(D)  BY <5>2, <6>2, <3>1, <1>a DEF In
          <6>4. NoHardware(s) /\ s.journal.kind # "none" /\ p.pc # "unjournal"  BY <6>1, <6>3, <3>1,
         <3>5 DEF Leaves, Has
          <6>5. \A n \in Machine : where[n] = D => n = m  BY DEF IdentityInv, Shapes
          <6> QED  BY <5>2, <6>4, <6>5, <1>3 DEF Stuck, Local
        <5> QED  BY <5>1, <5>2
      <4> QED  BY <4>0, <4>1, <3>1, <1>0 DEF SoleOn
    <3> QED  BY <3>4, <3>5
  <2> QED  BY <2>1, <2>2
<1>5. ASSUME NEW i \in SoleOn[D], ~(i \in Token /\ home'[i] # home[i]) PROVE i \in (SoleOn')[D]
  <2>1. CASE i \in excused  BY <2>1, <1>a DEF SoleOn, Moves
  <2>2. CASE i \notin excused
    <3>1. i \in Drawn \ {NoToken} /\ home[i] = "nowhere" /\ \A e \in Disk \ {D} : Has(disk[e], i) => Stuck(e)
          BY <2>2, <1>a DEF SoleOn
    <3>2. i \in Token  BY <3>1 DEF Drawn
    <3> QED  BY <1>0, <1>2, <1>5, <1>a, <3>1, <3>2 DEF SoleOn
  <2> QED  BY <2>1, <2>2
<1>6. ASSUME NEW n \in Machine, NEW i \in Native[n] PROVE i \in (Native')[n]
  <2>0. where[n] \in Disk /\ where' = where  BY DEF IdentityInv, Shapes, Local
  <2>1. CASE i \in Token /\ home[i] = n  BY <2>1, <2>0, IdentityAssumption DEF Native, Homes
  <2>2. CASE i \in SoleOn[where[n]]
    <3>1. CASE n # m
      <4>1. where[n] # D  BY <3>1 DEF IdentityInv, Shapes
      <4> QED  BY <4>1, <1>4, <2>2, <2>0 DEF Native
    <3>2. CASE n = m /\ i \in (SoleOn')[D]  BY <3>2, <2>0 DEF Native
    <3>3. CASE n = m /\ i \in Token /\ home'[i] # home[i]  BY <3>3, <2>0 DEF Native, Homes
    <3> QED  BY <3>1, <3>2, <3>3, <2>2, <1>5
  <2> QED  BY <2>1, <2>2 DEF Native
<1> QED  BY <1>0, <1>1, <1>4, <1>5, <1>6

\* The invariant holds after a step of machine m if it holds of m.
LEMMA LocalStep ==
  ASSUME IdentityInv, NEW m \in Machine, NEW s, NEW p, NEW r \in BOOLEAN,
         Local(m, s, p, r), Moves, Homes(m), Leaves(m, s, p),
         Shaped(s, p, Drawn', Owned[m]), Known(s, p, r, (Native')[m], (SoleOn')[where[m]], Rightful')
  PROVE  IdentityInv'
<1> DEFINE D == where[m]
<1>0. /\ D \in Disk /\ where' = where /\ disk'[D] = s /\ proc'[m] = p /\ daemon'[m] = r
      BY Mine DEF Local, IdentityInv, Shapes
<1>1. /\ Drawn \subseteq Drawn' /\ Rightful \subseteq Rightful'
      /\ \A d \in Disk \ {D} : SoleOn[d] \subseteq (SoleOn')[d]
      /\ \A n \in Machine : Native[n] \subseteq (Native')[n]
      BY Grow
<1>2. Shapes'
  <2>1. /\ disk' = [d \in Disk |-> disk'[d]] /\ proc' = [n \in Machine |-> proc'[n]]
        /\ daemon' \in [Machine -> BOOLEAN]
        BY DEF Local, IdentityInv, Shapes
  <2>2. \A i \in Token \ Drawn' : home'[i] = "nowhere"  BY <1>1 DEF Homes, IdentityInv, Shapes
  <2> QED  BY <2>1, <2>2, <1>0 DEF Moves, Homes, IdentityInv, Shapes
<1>3. ASSUME NEW d \in Disk PROVE DiskShape(disk'[d], Drawn') /\ DiskKnows(disk'[d], (SoleOn')[d], Rightful')
  <2>1. CASE d = D  BY <2>1, <1>0 DEF Shaped, Known
  <2>2. CASE d # D
    <3>1. disk'[d] = disk[d]  BY <2>2 DEF Local, IdentityInv, Shapes
    <3>2. DiskShape(disk[d], Drawn) /\ DiskKnows(disk[d], SoleOn[d], Rightful)  BY DEF IdentityInv, DisksKnow
    <3>3. DiskShape(disk[d], Drawn')  BY <3>2, <1>1 DEF DiskShape, BindingShape, JournalShape
    <3>4. DiskKnows(disk[d], (SoleOn')[d], Rightful')  BY <2>2, <3>2, <1>1 DEF DiskKnows
    <3> QED  BY <3>1, <3>3, <3>4
  <2> QED  BY <2>1, <2>2
<1>4. ASSUME NEW n \in Machine
      PROVE  /\ ProcShape(proc'[n], Drawn', Owned[n]) /\ DaemonKnows(daemon'[n], disk'[where'[n]], (Native')[n])
             /\ ProcKnows(disk'[where'[n]], proc'[n], (Native')[n], (SoleOn')[where'[n]])
  <2>1. CASE n = m  BY <2>1, <1>0 DEF Shaped, Known
  <2>2. CASE n # m
    <3>1. where[n] # D /\ where[n] \in Disk  BY <2>2 DEF IdentityInv, Shapes
    <3>2. disk'[where[n]] = In(n) /\ proc'[n] = proc[n] /\ daemon'[n] = daemon[n]
          BY <2>2, <3>1 DEF Local, IdentityInv, Shapes, In
    <3>3. /\ Shaped(In(n), proc[n], Drawn, Owned[n])
          /\ Known(In(n), proc[n], daemon[n], Native[n], SoleOn[where[n]], Rightful)
          BY Mine
    <3>4. Shaped(In(n), proc[n], Drawn', Owned[n])  BY <3>3, <1>1, ShapedGrows
    <3>5. Known(In(n), proc[n], daemon[n], (Native')[n], (SoleOn')[where[n]], Rightful')
          BY <3>3, <3>1, <1>1, KnownGrows
    <3> QED  BY <3>2, <3>4, <3>5, <1>0 DEF Shaped, Known
  <2> QED  BY <2>1, <2>2
<1> QED  BY <1>2, <1>3, <1>4 DEF IdentityInv, DisksKnow, MachinesKnow

\* So it does after a step that leaves the homes and the excuses as they are.
LEMMA CalmStep ==
  ASSUME IdentityInv, NEW m \in Machine, NEW s, NEW p, NEW r \in BOOLEAN,
         Local(m, s, p, r), Moves, home' = home, Stays(In(m), proc[m], s, p),
         Shaped(s, p, Drawn', Owned[m]), Known(s, p, r, Native[m], SoleOn[where[m]], Rightful)
  PROVE  IdentityInv'
<1>1. Homes(m) /\ Leaves(m, s, p)  BY StaysLeaves DEF Homes, IdentityInv, Shapes
<1>2. /\ Rightful \subseteq Rightful' /\ Native[m] \subseteq (Native')[m]
      /\ SoleOn[where[m]] \subseteq (SoleOn')[where[m]]
      BY <1>1, Grow
<1>3. Known(s, p, r, (Native')[m], (SoleOn')[where[m]], Rightful')  BY <1>2, KnownGrows
<1> QED  BY <1>1, <1>3, LocalStep
-----------------------------------------------------------------------------
(* What a step draws and spends.                                           *)

\* The settings keep their shape whatever is spent of their bounds.
LEMMA Unspent ==
  ASSUME IdentityInv, NEW f, SpendIf(f) \/ (\E what \in {"image", "move", "crash", "fault", "request"} : Spend(what)) \/ UNCHANGED site
  PROVE  SiteShape'
<1>1. SiteShape /\ site' = site => SiteShape'  BY DEF SiteShape
<1>2. ASSUME NEW what \in {"image", "move", "crash", "fault", "request"}, Spend(what) PROVE SiteShape'
  <2>1. site' = [site EXCEPT ![what] = @ - 1]  BY <1>2 DEF Spend
  <2> QED  BY <2>1 DEF IdentityInv, Shapes, SiteShape
<1> QED  BY <1>1, <1>2 DEF SpendIf, IdentityInv, Shapes

\* Without a draw, what was drawn is the same.
LEMMA Undrawn ==
  ASSUME IdentityInv, UNCHANGED drawn
  PROVE  /\ drawn' \in [Machine -> 0 .. MaxToken] /\ (\A n \in Machine : drawn[n] <= drawn'[n])
         /\ Drawn' = Drawn
BY DEF IdentityInv, Shapes, Drawn

\* A value that is drawn is new, and only it is.
LEMMA DrewNew ==
  ASSUME IdentityInv, NEW m \in Machine, Drew(m, 1)
  PROVE  /\ drawn' \in [Machine -> 0 .. MaxToken] /\ (\A n \in Machine : drawn[n] <= drawn'[n])
         /\ Draw(m, 1) \in Token /\ Draw(m, 1) # NoToken /\ Draw(m, 1) \notin Drawn
         /\ Drawn' = Drawn \cup {Draw(m, 1)}
<1>1. /\ drawn \in [Machine -> 0 .. MaxToken] /\ site.tokens \in 0 .. MaxToken /\ MaxToken \in Nat
      /\ drawn[m] + 1 <= site.tokens /\ drawn' = [drawn EXCEPT ![m] = @ + 1]
      BY IdentityAssumption DEF IdentityInv, Shapes, SiteShape, Drew
<1>2. drawn[m] + 1 \in 0 .. MaxToken  BY <1>1
<1>3. drawn' \in [Machine -> 0 .. MaxToken]  BY <1>1, <1>2
<1>4. \A n \in Machine : drawn'[n] = IF n = m THEN drawn[m] + 1 ELSE drawn[n]  BY <1>1
<1>5. \A n \in Machine : drawn[n] <= drawn'[n]  BY <1>1, <1>4
<1>6. Draw(m, 1) = <<m, drawn[m] + 1>>  BY DEF Draw
<1>7. Draw(m, 1) \in Token /\ Draw(m, 1) # NoToken  BY <1>2, <1>6, IdentityAssumption DEF Token, NoToken
<1>8. Draw(m, 1) \notin Drawn  BY <1>1, <1>6, <1>7 DEF Drawn, NoToken
<1>9. \A t \in Token : t[2] <= drawn'[t[1]] <=> t[2] <= drawn[t[1]] \/ t = Draw(m, 1)
  <2> SUFFICES ASSUME NEW n \in Machine, NEW k \in 0 .. MaxToken
               PROVE  k <= drawn'[n] <=> k <= drawn[n] \/ <<n, k>> = <<m, drawn[m] + 1>>
      BY <1>6 DEF Token
  <2> QED  BY <1>1, <1>4
<1>10. Drawn' = Drawn \cup {Draw(m, 1)}  BY <1>7, <1>9 DEF Drawn
<1> QED  BY <1>3, <1>5, <1>7, <1>8, <1>10

\* hold_local_node leaves the disk, or the node down.
LEMMA HoldsAre ==
  ASSUME NEW s, NEW runs \in BOOLEAN, NEW faulty, NEW o \in Holds(s, runs, faulty)
  PROVE  (o.disk = s \/ o.disk = [s EXCEPT !.down = TRUE]) /\ o.runs \in BOOLEAN /\ (o.runs => runs)
<1> DEFINE u == [s EXCEPT !.down = TRUE]
<1>1. \/ o = [disk |-> s, runs |-> FALSE, ok |-> site.tailscale] \/ (runs /\ o = [disk |-> u, runs |-> TRUE, ok |-> TRUE])
      \/ o = [disk |-> s, runs |-> FALSE, ok |-> TRUE] \/ (runs /\ o = [disk |-> s, runs |-> TRUE, ok |-> FALSE])
      BY DEF Holds
<1> HIDE DEF u
<1>2. CASE o.disk = s /\ o.runs = FALSE  BY <1>2
<1>3. CASE o.disk \in {s, u} /\ o.runs = TRUE /\ runs  BY <1>3 DEF u
<1>4. (o.disk = s /\ o.runs = FALSE) \/ (o.disk \in {s, u} /\ o.runs = TRUE /\ runs)  BY <1>1
<1> QED  BY <1>2, <1>3, <1>4

\* reset_local_node_identity leaves no node, or holds it.
LEMMA ResetsAre ==
  ASSUME NEW s, NEW runs \in BOOLEAN, NEW faulty, NEW o \in TailnetResets(s, runs, faulty)
  PROVE  /\ o.disk = s \/ o.disk = [s EXCEPT !.down = TRUE] \/ o.disk = [s EXCEPT !.node = NoToken, !.down = FALSE]
         /\ o.runs \in BOOLEAN /\ (o.runs => runs) /\ o.status \in {"reset", "held"}
         /\ o.status = "held" \/ o.disk = [s EXCEPT !.node = NoToken, !.down = FALSE]
         /\ o = [disk |-> o.disk, runs |-> o.runs, status |-> o.status]
<1> DEFINE u == [s EXCEPT !.down = TRUE]
           v == [s EXCEPT !.node = NoToken, !.down = FALSE]
<1>1. \/ o = [disk |-> v, runs |-> FALSE, status |-> "reset"] \/ o = [disk |-> s, runs |-> FALSE, status |-> "held"]
      \/ runs /\ o = [disk |-> u, runs |-> TRUE, status |-> "held"]
      BY DEF TailnetResets
<1> HIDE DEF u, v
<1>2. /\ o.disk \in {s, u, v} /\ o.status \in {"reset", "held"} /\ (o.status = "held" \/ o.disk = v)
      /\ (o.runs = FALSE \/ (o.runs = TRUE /\ runs))
      BY <1>1
<1>3. o = [disk |-> o.disk, runs |-> o.runs, status |-> o.status]  BY <1>1
<1>4. o.runs \in BOOLEAN /\ (o.runs => runs)  BY <1>2
<1> QED  BY <1>2, <1>3, <1>4 DEF u, v

-----------------------------------------------------------------------------
(* The steps that leave the homes as they are.                             *)

\* The invariant holds after a Step of machine m if it holds of m.
LEMMA StepStep ==
  ASSUME IdentityInv, NEW m \in Machine, NEW s, NEW p, Step(m, s, p),
         Shaped(s, p, Drawn, Owned[m]), Known(s, p, daemon[m], Native[m], SoleOn[where[m]], Rightful),
         Stays(In(m), proc[m], s, p)
  PROVE  IdentityInv'
<1>1. daemon = [daemon EXCEPT ![m] = daemon[m]]  BY DEF IdentityInv, Shapes
<1>2. Local(m, s, p, daemon[m])  BY <1>1 DEF Local, Step, Put, Become
<1>3. Moves /\ Drawn' = Drawn  BY Unspent, Undrawn DEF Moves, Step, history
<1> QED  BY <1>2, <1>3, CalmStep, Mine DEF Step, history

\* The steps of _provision from its journal on that write one thing and draw nothing.
LEMMA Chain ==
  ASSUME IdentityInv, NEW m \in Machine,
         \/ RecordJournal(m) \/ Retire(m) \/ RetireCertificate(m) \/ RecordRetired(m) \/ ResetRoster(m) \/ ResetPins(m)
         \/ ResetCredentials(m) \/ Choose(m) \/ RecordId(m) \/ Certify(m) \/ Unjournal(m) \/ Unmark(m)
         \/ ReplaceCertificate(m)
  PROVE  IdentityInv'
<1> DEFINE s == In(m)
           p == proc[m]
<1>0. /\ Shaped(s, p, Drawn, Owned[m]) /\ Known(s, p, daemon[m], Native[m], SoleOn[where[m]], Rightful)
      /\ SoleOn[where[m]] \subseteq Native[m] /\ NoToken \in Drawn /\ NoEvidence \in Evidence
      BY Mine
<1>1. CASE RecordJournal(m)
  <2>1. CASE ~p.resumed
    <3> DEFINE id == IF p.prior.id # NoToken THEN p.prior.id ELSE p.id
               fp == IF p.prior.fp # NoToken THEN p.prior.fp ELSE PairFp(s)
    <3>1. id \in Drawn /\ p.reading.components \in Evidence  BY <1>0 DEF Shaped, ProcShape, Snapshot
    <3>a. p.pc = "journal"  BY <1>1 DEF RecordJournal, Pc
    <3> DEFINE s2 == [s EXCEPT !.journal = [kind |-> "ok", reason |-> p.task, prevFp |-> fp, prevId |-> id,
                                            hw |-> p.reading.components, retired |-> FALSE, newId |-> NoToken, held |-> FALSE]]
               p2 == [p EXCEPT !.pc = IF Destructive(p) THEN "retire" ELSE "certify", !.id = p.id]
    <3>2. Step(m, s2, p2)  BY <1>1, <2>1 DEF RecordJournal, Pc
    <3> HIDE DEF id, fp
    <3>3. Shaped(s2, p2, Drawn, Owned[m]) /\ Known(s2, p2, daemon[m], Native[m], SoleOn[where[m]], Rightful) /\ Stays(s, p, s2, p2)
          BY <1>0, <2>1, <3>1, <3>a, RecordJournalKnows
    <3> QED  BY <3>2, <3>3, StepStep
  <2>2. CASE p.resumed  BY <1>0, <1>1, <2>2, ResumeJournalKnows, StepStep DEF RecordJournal, Pc
  <2> QED  BY <2>1, <2>2
<1>2. CASE Retire(m)  BY <1>0, <1>2, RetireKnows, RetiredKnows, StepStep DEF Retire, Pc
<1>3. CASE RetireCertificate(m)  BY <1>0, <1>3, RetireCertificateKnows, StepStep DEF RetireCertificate, Pc
<1>4. CASE RecordRetired(m)  BY <1>0, <1>4, RecordRetiredKnows, StepStep DEF RecordRetired, Pc
<1>5. CASE ResetRoster(m)  BY <1>0, <1>5, ResetRosterKnows, StepStep DEF ResetRoster, Pc
<1>6. CASE ResetPins(m)  BY <1>0, <1>6, ResetPinsKnows, StepStep DEF ResetPins, Pc
<1>7. CASE ResetCredentials(m)  BY <1>0, <1>7, ResetCredentialsKnows, StepStep DEF ResetCredentials, Pc
<1>8. CASE Choose(m)  BY <1>0, <1>8, ChooseKnows, UnlinkKnows, StepStep DEF Choose, Pc
<1>9. CASE RecordId(m)  BY <1>0, <1>9, RecordIdKnows, StepStep DEF RecordId, Pc
<1>10. CASE Certify(m)  BY <1>0, <1>10, CertifyBindKnows, CertifyGenerateKnows, StepStep DEF Certify, Pc
<1>11. CASE Unjournal(m)  BY <1>0, <1>11, UnjournalKnows, StepStep DEF Unjournal, Pc
<1>12. CASE Unmark(m)  BY <1>0, <1>12, UnmarkKnows, StepStep DEF Unmark, Pc
<1>13. CASE ReplaceCertificate(m)  BY <1>0, <1>13, ReplaceCertificateKnows, StepStep DEF ReplaceCertificate, Pc
<1> QED  BY <1>1, <1>2, <1>3, <1>4, <1>5, <1>6, <1>7, <1>8, <1>9, <1>10, <1>11, <1>12, <1>13

\* What a step of machine m that leaves the disks in their machines writes.
LEMMA Writes ==
  ASSUME IdentityInv, NEW m \in Machine, NEW s, NEW p, where' = where,
         Put(m, s) \/ (disk' = disk /\ s = In(m)), Become(m, p) \/ (proc' = proc /\ p = proc[m])
  PROVE  /\ daemon' = daemon => Local(m, s, p, daemon[m])
         /\ \A r : daemon' = [daemon EXCEPT ![m] = r] => Local(m, s, p, r)
<1>1. disk' = [disk EXCEPT ![where[m]] = s]
  <2>1. disk = [disk EXCEPT ![where[m]] = disk[where[m]]]  BY DEF IdentityInv, Shapes
  <2> QED  BY <2>1 DEF Put, In
<1>2. proc' = [proc EXCEPT ![m] = p]
  <2>1. proc = [proc EXCEPT ![m] = proc[m]]  BY DEF IdentityInv, Shapes
  <2> QED  BY <2>1 DEF Become
<1>3. daemon = [daemon EXCEPT ![m] = daemon[m]]  BY DEF IdentityInv, Shapes
<1> QED  BY <1>1, <1>2, <1>3 DEF Local

\* The steps of _ensure_locked that verify, those that serve, and a rotation's.
LEMMA Verification ==
  ASSUME IdentityInv, NEW m \in Machine,
         \/ Consume(m) \/ Release(m) \/ Verify(m) \/ Reissued(m) \/ Discard(m) \/ Mark(m) \/ Serve(m) \/ Record(m)
         \/ Pair(m) \/ RotateCertificate(m) \/ RotateRecord(m)
  PROVE  IdentityInv'
<1> DEFINE s == In(m)
           p == proc[m]
<1>0. /\ Shaped(s, p, Drawn, Owned[m]) /\ Known(s, p, daemon[m], Native[m], SoleOn[where[m]], Rightful)
      /\ SoleOn[where[m]] \subseteq Native[m] /\ NoToken \in Drawn /\ NoEvidence \in Evidence
      BY Mine
<1>1. CASE Consume(m)  BY <1>0, <1>1, ConsumeKnows, StepStep DEF Consume, Pc
<1>2. CASE Release(m)  BY <1>0, <1>2, ReleaseKnows, StepStep DEF Release, Pc
<1>3. CASE Verify(m)
      BY <1>0, <1>3, VerifyGenerateKnows, VerifyReconcileKnows, ToRecoveryKnows, StepStep DEF Verify, Pc
<1>4. CASE Reissued(m)  BY <1>0, <1>4, ReissuedKnows, StepStep DEF Reissued, Pc
<1>5. CASE Discard(m)  BY <1>0, <1>5, DiscardKnows, StepStep DEF Discard, Pc
<1>6. CASE Mark(m)  BY <1>0, <1>6, MarkKnows, StepStep DEF Mark, Pc
<1>7. CASE Serve(m)  BY <1>0, <1>7, ServeStepKnows, ServeGenerateKnows, StepStep DEF Serve, Pc
<1>8. CASE Record(m)  BY <1>0, <1>8, RecordKnows, StepStep DEF Record, Recorded, Pc
<1>9. CASE Pair(m)  BY <1>0, <1>9, PairKnows, StepStep DEF Pair, Ready, Serving, Binding, NoBinding, Bound, Pc
<1>10. CASE RotateCertificate(m)  BY <1>0, <1>10, RotateCertificateKnows, StepStep DEF RotateCertificate
<1>11. CASE RotateRecord(m)  BY <1>0, <1>11, RotateRecordKnows, StepStep DEF RotateRecord, Recorded, LockFree, Pc
<1> QED  BY <1>1, <1>2, <1>3, <1>4, <1>5, <1>6, <1>7, <1>8, <1>9, <1>10, <1>11

\* CalmStep for a step that draws nothing.
LEMMA ThinkStep ==
  ASSUME IdentityInv, NEW m \in Machine, NEW s, NEW p, NEW r \in BOOLEAN, Local(m, s, p, r),
         UNCHANGED <<drawn, history>>, SiteShape', Stays(In(m), proc[m], s, p),
         Shaped(s, p, Drawn, Owned[m]), Known(s, p, r, Native[m], SoleOn[where[m]], Rightful)
  PROVE  IdentityInv'
BY Undrawn, CalmStep DEF Moves, history

\* CalmStep for a step that draws one value.
LEMMA DrawStep ==
  ASSUME IdentityInv, NEW m \in Machine, NEW s, NEW p, Put(m, s), Become(m, p) \/ (proc' = proc /\ p = proc[m]), Drew(m, 1),
         UNCHANGED <<where, daemon, history>>, SiteShape', Stays(In(m), proc[m], s, p),
         Shaped(s, p, Drawn \cup {Draw(m, 1)}, Owned[m]), Known(s, p, daemon[m], Native[m], SoleOn[where[m]], Rightful)
  PROVE  IdentityInv'
<1>1. Local(m, s, p, daemon[m]) /\ daemon[m] \in BOOLEAN  BY Writes, Mine
<1> QED  BY <1>1, DrewNew, CalmStep DEF Moves, history

\* The steps that may fail, those that draw, and the ends of a process.
LEMMA Trials ==
  ASSUME IdentityInv, NEW m \in Machine,
         \/ Revoke(m) \/ WriteId(m) \/ ReplaceKey(m) \/ ReleaseNode(m) \/ Reconcile(m) \/ Rotate(m) \/ Authorize(m)
  PROVE  IdentityInv'
<1> DEFINE s == In(m)
           p == proc[m]
<1>0. /\ Shaped(s, p, Drawn, Owned[m]) /\ Known(s, p, daemon[m], Native[m], SoleOn[where[m]], Rightful)
      /\ daemon[m] \in BOOLEAN
      BY Mine
<1>1. CASE Revoke(m)
  <2> DEFINE q == [p EXCEPT !.pc = "journal"]
  <2>1. PICK u \in {s, [s EXCEPT !.access = NoToken]} : Put(m, u) /\ SiteShape'  BY <1>1, Unspent DEF Revoke
  <2>2. Local(m, u, q, daemon[m])  BY <1>1, <2>1, Writes DEF Revoke
  <2>3. Shaped(u, q, Drawn, Owned[m]) /\ Known(u, q, daemon[m], Native[m], SoleOn[where[m]], Rightful) /\ Stays(s, p, u, q)
        BY <1>0, <1>1, RevokeKnows DEF Revoke, Pc
  <2> QED  BY <1>0, <1>1, <2>1, <2>2, <2>3, ThinkStep DEF Revoke
<1>2. CASE WriteId(m)
  <2> DEFINE t == Draw(m, 1)
             q == [p EXCEPT !.token = t, !.pc = "recordId"]
  <2>1. PICK u \in {s, [s EXCEPT !.file = t]} : Put(m, u) /\ SiteShape'  BY <1>2, Unspent DEF WriteId
  <2>2. t \notin Drawn /\ p.pc = "writeId"  BY <1>2, DrewNew DEF WriteId, Pc
  <2>b. u = s \/ u = [s EXCEPT !.file = t]  BY <2>1
  <2> HIDE DEF t
  <2>3. /\ Shaped(u, q, Drawn \cup {t}, Owned[m]) /\ Known(u, q, daemon[m], Native[m], SoleOn[where[m]], Rightful)
        /\ Stays(s, p, u, q)
        BY <1>0, <2>2, <2>b, WriteIdKnows
  <2> QED  BY <1>2, <2>1, <2>3, DrawStep DEF WriteId, t
<1>3. CASE ReplaceKey(m)
  <2>1. SiteShape' /\ Draw(m, 1) # NoToken  BY <1>3, Unspent, DrewNew DEF ReplaceKey
  <2> QED  BY <1>0, <1>3, <2>1, ReplaceKeyKnows, DrawStep DEF ReplaceKey, Pc
<1>4. CASE ReleaseNode(m)
  <2> DEFINE q == [p EXCEPT !.pc = p.next]
  <2>1. PICK u \in {s, [s EXCEPT !.down = FALSE]} : Put(m, u) /\ SiteShape'  BY <1>4, Unspent DEF ReleaseNode
  <2>2. Local(m, u, q, daemon[m])  BY <1>4, <2>1, Writes DEF ReleaseNode
  <2>3. Shaped(u, q, Drawn, Owned[m]) /\ Known(u, q, daemon[m], Native[m], SoleOn[where[m]], Rightful) /\ Stays(s, p, u, q)
        BY <1>0, <1>4, ReleaseNodeKnows DEF ReleaseNode, Pc
  <2> QED  BY <1>0, <1>4, <2>1, <2>2, <2>3, ThinkStep DEF ReleaseNode
<1>5. CASE Reconcile(m)
  <2> DEFINE b == IF p.bound.id # p.id /\ site.pinned # NoToken /\ p.id \notin p.bound.retired
                  THEN [p.bound EXCEPT !.id = p.id] ELSE p.bound
             q == [p EXCEPT !.bound = b, !.id = b.id, !.pc = IF b.pending THEN "retry" ELSE "save"]
  <2>1. PICK u \in {s, [s EXCEPT !.file = b.id]} : Put(m, u) /\ SiteShape'  BY <1>5, Unspent DEF Reconcile
  <2>2. Become(m, q)  BY <1>5 DEF Reconcile
  <2>3. (b = p.bound \/ b = [p.bound EXCEPT !.id = p.id]) /\ (b = p.bound \/ p.id \notin p.bound.retired)  OBVIOUS
  <2>b. u = s \/ u = [s EXCEPT !.file = b.id]  BY <2>1
  <2>a. p.pc = "reconcile"  BY <1>5 DEF Reconcile, Pc
  <2> HIDE DEF b
  <2>4. Local(m, u, q, daemon[m])  BY <1>5, <2>1, <2>2, Writes DEF Reconcile
  <2>5. Shaped(u, q, Drawn, Owned[m]) /\ Known(u, q, daemon[m], Native[m], SoleOn[where[m]], Rightful) /\ Stays(s, p, u, q)
        BY <1>0, <2>3, <2>a, <2>b, ReconcileKnows
  <2> QED  BY <1>0, <1>5, <2>1, <2>4, <2>5, ThinkStep DEF Reconcile
<1>6. CASE Rotate(m)
  <2>1. SiteShape' /\ Draw(m, 1) # NoToken  BY <1>6, Unspent, DrewNew DEF Rotate
  <2> QED  BY <1>0, <1>6, <2>1, RotateKnows, DrawStep DEF Rotate, Serving, Pc
<1>7. CASE Authorize(m)
  <2>1. SiteShape'  BY <1>7, Unspent DEF Authorize
  <2>2. Shaped([s EXCEPT !.auth = Draw(m, 1)], p, Drawn \cup {Draw(m, 1)}, Owned[m])
        BY <1>0, <1>7, AuthorizeKnows, ShapedGrows DEF Authorize, Serving, Pc
  <2> QED  BY <1>0, <1>7, <2>1, <2>2, AuthorizeKnows, DrawStep DEF Authorize, Serving, Pc
<1> QED  BY <1>1, <1>2, <1>3, <1>4, <1>5, <1>6, <1>7

\* The steps that hold, reset or bring up the Tailscale node.
LEMMA Nodes ==
  ASSUME IdentityInv, NEW m \in Machine,
         \/ ResetTailnet(m) \/ Retry(m) \/ Hold(m) \/ Failed(m) \/ Fail(m) \/ Crash(m) \/ Restart(m) \/ PowerOff(m) \/ Enroll(m)
  PROVE  IdentityInv'
<1> DEFINE s == In(m)
           p == proc[m]
           runs == daemon[m]
           Fine(u, q, r) == /\ Shaped(u, q, Drawn, Owned[m]) /\ Known(u, q, r, Native[m], SoleOn[where[m]], Rightful)
                            /\ Stays(s, p, u, q)
<1>0. /\ Shaped(s, p, Drawn, Owned[m]) /\ Known(s, p, runs, Native[m], SoleOn[where[m]], Rightful)
      /\ NoToken \in Drawn /\ NoEvidence \in Evidence /\ runs \in BOOLEAN
      BY Mine
<1>1. CASE ResetTailnet(m)
  <2>1. PICK o \in TailnetResets(s, runs, Faulty) :
             /\ Tailnet(m, [o EXCEPT !.disk.journal.held = o.status = "held"], [p EXCEPT !.pc = "certify"])
             /\ SpendIf(o.status # "reset")
        BY <1>1 DEF ResetTailnet
  <2> DEFINE u == [o.disk EXCEPT !.journal.held = o.status = "held"]
             q == [p EXCEPT !.pc = "certify"]
  <2>2. /\ o.disk = s \/ o.disk = [s EXCEPT !.down = TRUE] \/ o.disk = [s EXCEPT !.node = NoToken, !.down = FALSE]
        /\ o.runs \in BOOLEAN /\ (o.runs => runs)
        /\ o.status = "held" \/ o.disk = [s EXCEPT !.node = NoToken, !.down = FALSE]
        /\ o = [disk |-> o.disk, runs |-> o.runs, status |-> o.status]
        BY <1>0, <2>1, ResetsAre
  <2>3. Local(m, u, q, o.runs)  BY <2>1, <2>2, Writes DEF Tailnet
  <2>4. Fine(u, q, o.runs)  BY <1>0, <1>1, <2>2, ResetTailnetKnows DEF ResetTailnet, Pc
  <2> QED  BY <2>1, <2>2, <2>3, <2>4, Unspent, ThinkStep DEF Tailnet
<1>2. CASE Retry(m)
  <2>1. ASSUME NEW o \in TailnetResets(s, runs, Faulty), SpendIf(o.status # "reset"),
               Tailnet(m, o, [p EXCEPT !.pc = "save", !.bound.pending = o.status # "reset"])
        PROVE  IdentityInv'
    <3> DEFINE q == [p EXCEPT !.pc = "save", !.bound.pending = o.status # "reset"]
    <3>2. /\ o.disk = s \/ o.disk = [s EXCEPT !.down = TRUE] \/ o.disk = [s EXCEPT !.node = NoToken, !.down = FALSE]
          /\ o.runs \in BOOLEAN /\ (o.runs => runs)
          /\ o.status # "reset" \/ o.disk = [s EXCEPT !.node = NoToken, !.down = FALSE]
          BY <1>0, <2>1, ResetsAre
    <3>3. Local(m, o.disk, q, o.runs)  BY <2>1, Writes DEF Tailnet
    <3>4. Fine(o.disk, q, o.runs)  BY <1>0, <1>2, <3>2, RetryKnows DEF Retry, Pc
    <3> QED  BY <2>1, <3>2, <3>3, <3>4, Unspent, ThinkStep DEF Tailnet
  <2>2. ASSUME Spend("fault"), Become(m, ToRecovery(p, "tailnet_reset_failed")),
               UNCHANGED <<disk, where, daemon, drawn, history>>
        PROVE  IdentityInv'
    <3>1. Local(m, s, ToRecovery(p, "tailnet_reset_failed"), runs)  BY <2>2, Writes
    <3>2. Fine(s, ToRecovery(p, "tailnet_reset_failed"), runs)  BY <1>0, ToRecoveryKnows
    <3> QED  BY <1>0, <2>2, <3>1, <3>2, Unspent, ThinkStep
  <2> QED  BY <1>2, <2>1, <2>2 DEF Retry
<1>3. CASE Hold(m)
  <2>1. PICK o \in Holds(s, runs, Faulty) :
             Tailnet(m, o, [p EXCEPT !.held = o.ok, !.pc = "mark"]) /\ SpendIf(~o.ok /\ site.tailscale)
        BY <1>3 DEF Hold
  <2>2. (o.disk = s \/ o.disk = [s EXCEPT !.down = TRUE]) /\ o.runs \in BOOLEAN /\ (o.runs => runs)  BY <1>0, HoldsAre
  <2>3. Local(m, o.disk, [p EXCEPT !.held = o.ok, !.pc = "mark"], o.runs)  BY <2>1, Writes DEF Tailnet
  <2>4. Fine(o.disk, [p EXCEPT !.held = o.ok, !.pc = "mark"], o.runs)  BY <1>0, <1>3, <2>2, HoldKnows DEF Hold, Pc
  <2> QED  BY <2>1, <2>2, <2>3, <2>4, Unspent, ThinkStep DEF Tailnet
<1>4. CASE Failed(m)
  <2> DEFINE q == [p EXCEPT !.state = "held", !.pc = "serve"]
  <2>1. ASSUME NEW o \in Holds([s EXCEPT !.access = NoToken], runs, Faulty), Tailnet(m, o, q),
               SpendIf(~o.ok /\ site.tailscale)
        PROVE  IdentityInv'
    <3>2. /\ o.disk = [s EXCEPT !.access = NoToken] \/ o.disk = [[s EXCEPT !.access = NoToken] EXCEPT !.down = TRUE]
          /\ o.runs \in BOOLEAN /\ (o.runs => runs)
          BY <1>0, HoldsAre
    <3>3. Local(m, o.disk, q, o.runs)  BY <2>1, Writes DEF Tailnet
    <3>4. Fine(o.disk, q, o.runs)  BY <1>0, <1>4, <3>2, FailedKnows DEF Failed, Pc
    <3> QED  BY <2>1, <3>2, <3>3, <3>4, Unspent, ThinkStep DEF Tailnet
  <2>2. CASE Step(m, s, q)  BY <1>0, <1>4, <2>2, FailedKnows, StepStep DEF Failed, Pc
  <2> QED  BY <1>4, <2>1, <2>2 DEF Failed
<1>5. CASE Fail(m)
  <2>1. SiteShape'  BY <1>5, Unspent DEF Fail
  <2>2. CASE p.admin
    <3>1. Local(m, s, [Resting(p) EXCEPT !.state = "held"], runs)  BY <1>5, <2>2, Writes DEF Fail
    <3>2. Fine(s, [Resting(p) EXCEPT !.state = "held"], runs)  BY <1>0, GiveUpKnows
    <3> QED  BY <1>0, <1>5, <2>1, <3>1, <3>2, ThinkStep DEF Fail
  <2>3. CASE ~p.admin
    <3>1. PICK marker : Put(m, [s EXCEPT !.marker = marker]) /\ Become(m, [p EXCEPT !.pc = "failed"])
          BY <1>5, <2>3 DEF Fail
    <3>2. Local(m, [s EXCEPT !.marker = marker], [p EXCEPT !.pc = "failed"], runs)  BY <1>5, <3>1, Writes DEF Fail
    <3>3. Fine([s EXCEPT !.marker = marker], [p EXCEPT !.pc = "failed"], runs)  BY <1>0, FailKnows
    <3> QED  BY <1>0, <1>5, <2>1, <3>2, <3>3, ThinkStep DEF Fail
  <2> QED  BY <2>2, <2>3
<1>6. CASE Crash(m) \/ Restart(m)
  <2>1. SiteShape'  BY <1>6, Unspent DEF Crash, Restart
  <2>2. Local(m, s, Off, runs)  BY <1>6, Writes DEF Crash, Restart
  <2>3. Fine(s, Off, runs)  BY <1>0, OffKnows
  <2> QED  BY <1>0, <1>6, <2>1, <2>2, <2>3, ThinkStep DEF Crash, Restart
<1>7. CASE PowerOff(m)
  <2>1. SiteShape'  BY <1>7, Unspent DEF PowerOff
  <2>2. Local(m, s, p, FALSE)  BY <1>7, Writes DEF PowerOff
  <2>3. Known(s, p, FALSE, Native[m], SoleOn[where[m]], Rightful) /\ Stays(s, p, s, p)
        BY <1>0 DEF Known, DaemonKnows, Stays
  <2> QED  BY <1>0, <1>7, <2>1, <2>2, <2>3, ThinkStep DEF PowerOff
<1>8. CASE Enroll(m)
  <2> DEFINE node == IF s.node = NoToken THEN s.binding.inst ELSE s.node
             u == [s EXCEPT !.node = node, !.down = FALSE]
  <2>1. SiteShape'  BY <1>8, Unspent DEF Enroll
  <2>2. Put(m, u) /\ p.pc = "serving" /\ runs = TRUE /\ Bound(s)  BY <1>0, <1>8 DEF Enroll, Serving, Binding,
         NoBinding, Bound, Pc
  <2>3. Local(m, u, p, runs)  BY <1>8, <2>2, Writes DEF Enroll
  <2>a. node = s.node \/ node = s.binding.inst  OBVIOUS
  <2> HIDE DEF node
  <2>4. Fine(u, p, runs)  BY <1>0, <2>2, <2>a, EnrollKnows
  <2> QED  BY <1>0, <1>8, <2>1, <2>3, <2>4, ThinkStep DEF Enroll
<1> QED  BY <1>1, <1>2, <1>3, <1>4, <1>5, <1>6, <1>7, <1>8
-----------------------------------------------------------------------------
(* What the hardware says.                                                 *)

\* No two machines own the same identifier.
UniqueHardware ==
  \A m, n \in Machine : m # n => \A k \in DOMAIN Owned[m] \cap DOMAIN Owned[n] : Owned[m][k] # Owned[n][k]

\* A reading shows a part of what its machine owns.
LEMMA ReadingsAre ==
  ASSUME IdentityInv, NEW m \in Machine, NEW r \in ReadingsOf(m)
  PROVE  r \in Snapshot /\ PartOf(r.components, Owned[m]) /\ r.components \in Evidence
<1>1. PICK v \in site.readings :
        r = [components |-> [k \in DOMAIN Owned[m] \cap v.kinds |-> Owned[m][k]], ambiguous |-> v.ambiguous]
      BY DEF ReadingsOf
<1>2. v.ambiguous \in BOOLEAN  BY DEF IdentityInv, Shapes, SiteShape
<1>3. Owned[m] \in Evidence  BY IdentityAssumption
<1> DEFINE K == DOMAIN Owned[m] \cap v.kinds
           c == [k \in K |-> Owned[m][k]]
<1>4. K \in SUBSET Kind /\ \A k \in K : Owned[m][k] \in Digest  BY <1>3, EvidenceShape
<1>5. c \in [K -> Digest]  BY <1>4
<1>6. c \in Evidence  BY <1>4, <1>5 DEF Evidence
<1>7. PartOf(c, Owned[m])  BY DEF PartOf
<1>8. r = [components |-> c, ambiguous |-> v.ambiguous]  BY <1>1
<1> HIDE DEF c
<1> QED  BY <1>2, <1>6, <1>7, <1>8 DEF Snapshot

\* A binding that a reading of machine m is judged the same as is at home there.
LEMMA SameIsHome ==
  ASSUME IdentityInv, UniqueHardware, NEW m \in Machine, NEW r \in Snapshot, PartOf(r.components, Owned[m]),
         Bound(In(m)), Compare(In(m).binding.hw, r) = "same"
  PROVE  In(m).binding.inst \in Native[m]
<1> DEFINE b == In(m).binding
<1>1. /\ b.hw \in Evidence /\ b.inst \in Drawn /\ b.inst # NoToken /\ b.hw # NoEvidence /\ where[m] \in Disk
      /\ b.hw # NoEvidence => <<b.inst, b.hw>> \in Rightful
      BY Mine, SameMeansAgreement DEF Shaped, DiskShape, BindingShape, Known, DiskKnows, NoHardware
<1>2. b.inst \in Token  BY <1>1 DEF Drawn
<1>3. CASE b.inst \in excused  BY <1>1, <1>3 DEF Native, SoleOn
<1>4. CASE home[b.inst] \in Machine /\ PartOf(b.hw, Owned[home[b.inst]])
  <2>1. CASE home[b.inst] = m  BY <1>2, <2>1 DEF Native
  <2>2. CASE home[b.inst] # m
    <3>1. \A k \in DOMAIN b.hw \cap DOMAIN r.components : b.hw[k] # r.components[k]
          BY <1>4, <2>2 DEF PartOf, UniqueHardware
    <3> QED  BY <1>1, <3>1, OtherHardwareIsNeverSame
  <2> QED  BY <2>1, <2>2
<1> QED  BY <1>1, <1>3, <1>4 DEF Rightful

\* _ensure_locked, whichever branch it takes.
LEMMA Judgement ==
  ASSUME IdentityInv, UniqueHardware, NEW m \in Machine, Validate(m)
  PROVE  IdentityInv'
<1> DEFINE s == In(m)
<1>1. PICK r \in ReadingsOf(m) :
        LET q == [proc[m] EXCEPT !.reading = r]
        IN  Step(m, s, IF s.journal.kind = "corrupt" THEN JudgeUnreadable(s, q)
                       ELSE IF s.journal.kind = "ok" THEN Resume(s, q, FALSE)
                       ELSE IF s.binding.kind # "ok" THEN JudgeUnbound(s, q)
                       ELSE JudgeBound(s, q))
      BY DEF Validate
<1> DEFINE q == [proc[m] EXCEPT !.reading = r]
           Fine(p2) == /\ Shaped(s, p2, Drawn, Owned[m])
                       /\ Known(s, p2, daemon[m], Native[m], SoleOn[where[m]], Rightful)
                       /\ Stays(s, q, s, p2)
<1>2. r \in Snapshot /\ PartOf(r.components, Owned[m]) /\ proc[m].pc = "validate"  BY ReadingsAre DEF Validate, Pc
<1>3. /\ Shaped(s, proc[m], Drawn, Owned[m])
      /\ Known(s, proc[m], daemon[m], Native[m], SoleOn[where[m]], Rightful)
      /\ SoleOn[where[m]] \subseteq Native[m] /\ NoToken \in Drawn /\ NoEvidence \in Evidence
      BY Mine
<1>4. Fine(q)  BY <1>2, <1>3, ReadKnows DEF Stays
<1>5. q.pc = "validate" /\ q.reading = r  BY <1>2, <1>3 DEF Shaped, ProcShape
<1>6. Bound(s) /\ Compare(s.binding.hw, q.reading) = "same" => s.binding.inst \in Native[m]
      BY <1>2, <1>5, SameIsHome
<1>7. s.journal.kind \in {"none", "ok", "corrupt"}  BY <1>3 DEF Shaped, DiskShape, JournalShape
<1> HIDE DEF q
<1>8. ASSUME NEW p2, Fine(p2), Step(m, s, p2) PROVE IdentityInv'
  <2>1. Stays(s, proc[m], s, p2)  BY <1>2, <1>5, <1>8 DEF Stays
  <2> QED  BY <2>1, <1>8, StepStep
<1>9. CASE s.journal.kind = "corrupt"
  <2>1. Fine(JudgeUnreadable(s, q))  BY <1>3, <1>4, <1>5, <1>6, <1>9, JudgeUnreadableKnows
  <2> QED  BY <1>1, <1>8, <1>9, <2>1 DEF q
<1>10. CASE s.journal.kind = "ok"
  <2>4. Fine(Resume(s, q, FALSE))  BY <1>3, <1>4, <1>5, <1>10, ResumeKnows
  <2> QED  BY <1>1, <1>8, <1>10, <2>4 DEF q
<1>11. CASE s.journal.kind = "none" /\ s.binding.kind # "ok"
  <2>1. Fine(JudgeUnbound(s, q))  BY <1>3, <1>4, <1>5, <1>6, <1>11, JudgeUnboundKnows
  <2> QED  BY <1>1, <1>8, <1>11, <2>1 DEF q
<1>12. CASE s.journal.kind = "none" /\ s.binding.kind = "ok"
  <2>1. Fine(JudgeBound(s, q))  BY <1>3, <1>4, <1>5, <1>6, <1>12, JudgeBoundKnows
  <2> QED  BY <1>1, <1>8, <1>12, <2>1 DEF q
<1> QED  BY <1>7, <1>9, <1>10, <1>11, <1>12

\* resolve_recovery("new"), with or without an unfinished run.
LEMMA Replacement ==
  ASSUME IdentityInv, NEW m \in Machine, ResolveNew(m)
  PROVE  IdentityInv'
<1> DEFINE s == In(m)
<1>1. PICK r \in ReadingsOf(m) :
        LET q == [proc[m] EXCEPT !.reading = r, !.admin = TRUE]
        IN  Become(m, IF s.journal.kind = "ok" THEN Resume(s, q, TRUE)
                      ELSE ToProvision(q, "operator_new_identity", FALSE, PriorOf(Binding(s))))
      BY DEF ResolveNew
<1> DEFINE q == [proc[m] EXCEPT !.reading = r, !.admin = TRUE]
           Fine(p2) == /\ Shaped(s, p2, Drawn, Owned[m])
                       /\ Known(s, p2, daemon[m], Native[m], SoleOn[where[m]], Rightful)
                       /\ Stays(s, q, s, p2)
<1>2. r \in Snapshot /\ PartOf(r.components, Owned[m]) /\ proc[m].pc = "serving"
      BY ReadingsAre DEF ResolveNew, Serving, Pc
<1>3. /\ Shaped(s, proc[m], Drawn, Owned[m])
      /\ Known(s, proc[m], daemon[m], Native[m], SoleOn[where[m]], Rightful)
      /\ NoToken \in Drawn /\ NoEvidence \in Evidence /\ daemon[m] \in BOOLEAN
      BY Mine
<1>4. Fine(q)  BY <1>2, <1>3, AskKnows DEF Stays
<1>5. q.pc = "serving"  BY <1>2, <1>3 DEF Shaped, ProcShape
<1>6. SiteShape'  BY Unspent DEF ResolveNew
<1> HIDE DEF q
<1>8. ASSUME NEW p2, Fine(p2), Become(m, p2) PROVE IdentityInv'
  <2>1. Stays(s, proc[m], s, p2)  BY <1>2, <1>5, <1>8 DEF Stays
  <2>2. Local(m, s, p2, daemon[m])  BY <1>8, Writes DEF ResolveNew
  <2> QED  BY <1>3, <1>6, <1>8, <2>1, <2>2, ThinkStep DEF ResolveNew
<1>9. CASE s.journal.kind = "ok"
  <2>4. Fine(Resume(s, q, TRUE))  BY <1>3, <1>4, <1>5, <1>9, ResumeKnows
  <2> QED  BY <1>1, <1>8, <1>9, <2>4 DEF q
<1>10. CASE s.journal.kind # "ok"
  <2>1. Fine(ToProvision(q, "operator_new_identity", FALSE, PriorOf(Binding(s))))
        BY <1>3, <1>4, <1>5, <1>10, ReplaceKnows
  <2> QED  BY <1>1, <1>8, <1>10, <2>1 DEF q
<1> QED  BY <1>9, <1>10

\* A Drone that starts, and the DRONE_TAILNET service with its preflight.
LEMMA Awakening ==
  ASSUME IdentityInv, UniqueHardware, NEW m \in Machine, Start(m) \/ TailnetService(m)
  PROVE  IdentityInv'
<1> DEFINE s == In(m)
           p == proc[m]
           u == WithId(m, s)
           t == Draw(m, 1)
<1>0. /\ Shaped(s, p, Drawn, Owned[m]) /\ Known(s, p, daemon[m], Native[m], SoleOn[where[m]], Rightful)
      /\ NoToken \in Drawn /\ NoEvidence \in Evidence /\ daemon[m] \in BOOLEAN
      BY Mine
<1>1. u = s \/ u = [s EXCEPT !.file = t]  BY DEF WithId
<1>2. SiteShape' /\ where' = where /\ UNCHANGED history /\ Put(m, u) /\ DrewId(m, s)
      BY Unspent DEF Start, TailnetService
<1>3. /\ drawn' \in [Machine -> 0 .. MaxToken] /\ (\A n \in Machine : drawn[n] <= drawn'[n])
      /\ Drawn' = Drawn \/ Drawn' = Drawn \cup {t}
      /\ u # s => Drawn' = Drawn \cup {t}
      BY <1>2, Undrawn, DrewNew DEF DrewId
<1>a. Moves /\ home' = home  BY <1>2, <1>3 DEF Moves, history
<1>b. IdOf(u) = IF site.pinned # NoToken THEN site.pinned ELSE u.file  BY DEF IdOf
<1> HIDE DEF t, u
<1>4. CASE Start(m)
  <2>a. site.pinned \in Drawn
    <3>1. drawn \in [Machine -> 0 .. MaxToken] /\ site.pinned \in (Machine \X {0}) \cup {NoToken} /\ MaxToken \in Nat
          BY IdentityAssumption DEF IdentityInv, Shapes, SiteShape
    <3> QED  BY <3>1 DEF Drawn, Token
  <2>1. IdOf(u) \in Drawn \cup {t}
    <3>1. u.file \in Drawn \cup {t}  BY <1>0, <1>1 DEF Shaped, DiskShape
    <3> QED  BY <2>a, <3>1, <1>b
  <2> DEFINE q == [Off EXCEPT !.pc = "validate", !.state = "validating", !.id = IdOf(u)]
  <2>2. /\ Shaped(u, q, Drawn \cup {t}, Owned[m]) /\ Known(u, q, daemon[m], Native[m], SoleOn[where[m]], Rightful)
        /\ Stays(s, p, u, q)
    <3> DEFINE Fine(v) == /\ Shaped(v, q, Drawn \cup {t}, Owned[m]) /\ Known(v, q, daemon[m], Native[m], SoleOn[where[m]], Rightful)
                          /\ Stays(s, p, v, q)
    <3>1. Fine(s)  BY <1>0, <2>1, StartKnows
    <3>2. Fine([s EXCEPT !.file = t])  BY <1>0, <2>1, StartKnows
    <3> QED  BY <1>1, <3>1, <3>2
  <2>3. Local(m, u, q, daemon[m])  BY <1>2, <1>4, Writes DEF Start, u
  <2>4. Shaped(u, q, Drawn', Owned[m])
    <3>1. CASE Drawn' = Drawn \cup {t}  BY <3>1, <2>2
    <3>2. CASE u = s /\ Drawn' = Drawn
      <4>1. IdOf(u) \in Drawn  BY <1>0, <2>a, <3>2, <1>b DEF Shaped, DiskShape
      <4>2. Shaped(s, q, Drawn \cup {NoToken}, Owned[m])  BY <1>0, <4>1, StartKnows
      <4>3. Drawn \cup {NoToken} = Drawn  BY <1>0
      <4> QED  BY <3>2, <4>2, <4>3
    <3> QED  BY <1>3, <3>1, <3>2
  <2> QED  BY <1>0, <1>a, <2>2, <2>3, <2>4, CalmStep
<1>5. CASE TailnetService(m)
  <2>1. PICK r \in ReadingsOf(m) : daemon' = [daemon EXCEPT ![m] = StartPermitted(u,
         r)]  BY <1>5 DEF TailnetService, u
  <2> DEFINE run == StartPermitted(u, r)
  <2>2. r \in Snapshot /\ PartOf(r.components, Owned[m])  BY ReadingsAre
  <2>3. u.binding = s.binding /\ u.journal = s.journal  BY <1>0, <1>1 DEF Shaped, DiskShape
  <2>4. run = TRUE => Bound(s) /\ s.binding.inst \in Native[m] /\ s.journal.kind = "none" /\ ~s.binding.pending
        BY <2>2, <2>3, SameIsHome DEF StartPermitted, Binding, NoBinding, Bound
  <2>5. Local(m, u, p, run)  BY <1>2, <1>5, <2>1, Writes DEF TailnetService
  <2>6. run \in BOOLEAN  BY DEF StartPermitted
  <2> HIDE DEF run
  <2>7. /\ Shaped(u, p, Drawn \cup {t}, Owned[m]) /\ Known(u, p, daemon[m], Native[m], SoleOn[where[m]], Rightful)
        /\ Stays(s, p, u, p)
    <3> DEFINE T == Drawn \cup {t}
    <3>1. Shaped(s, p, T, Owned[m]) /\ t \in T  BY <1>0, ShapedGrows
    <3>2. Stays(s, p, s, p)  BY DEF Stays
    <3> HIDE DEF T
    <3>3. CASE u = [s EXCEPT !.file = t]
      <4>1. /\ Shaped([s EXCEPT !.file = t], p, T, Owned[m])
            /\ Known([s EXCEPT !.file = t], p, daemon[m], Native[m], SoleOn[where[m]], Rightful)
            /\ Stays(s, p, [s EXCEPT !.file = t], p)
            BY <1>0, <3>1, FileKnows
      <4> QED  BY <3>3, <4>1 DEF T
    <3>4. CASE u = s  BY <1>0, <3>1, <3>2, <3>4 DEF T
    <3> QED  BY <1>1, <3>3, <3>4
  <2>9. Known(u, p, run, Native[m], SoleOn[where[m]], Rightful)
    <3>1. run = TRUE => Bound(u) /\ u.binding.inst \in Native[m] /\ u.journal.kind = "none" /\ ~u.binding.pending
          BY <2>3, <2>4 DEF Bound
    <3> QED  BY <2>6, <2>7, <3>1, PermitKnows
  <2>8. Shaped(u, p, Drawn', Owned[m])  BY <1>0, <1>1, <1>3, <2>7
  <2> QED  BY <1>a, <2>5, <2>6, <2>7, <2>8, <2>9, CalmStep
<1> QED  BY <1>4, <1>5
-----------------------------------------------------------------------------
(* The steps that write a binding.                                         *)

\* A binding with a new installation is at home here.
LEMMA NewHome ==
  ASSUME IdentityInv, NEW m \in Machine, NEW s, NEW p, Local(m, s, p, daemon[m]), Drew(m, 1), SiteShape',
         excused \subseteq excused', s.binding.inst = Draw(m, 1), NEW hw \in Evidence, PartOf(hw, Owned[m]),
         hw # NoEvidence => home' = [home EXCEPT ![Draw(m, 1)] = m],
         hw = NoEvidence => home' = home
  PROVE  /\ Moves /\ Homes(m) /\ Leaves(m, s, p)
         /\ Wider(Native[m], Rightful, (Native')[m], (SoleOn')[where[m]], Rightful')
         /\ MayBind(Draw(m, 1), hw, (Native')[m], (SoleOn')[where[m]], Rightful')
<1> DEFINE i == Draw(m, 1)
           D == where[m]
<1>0. /\ drawn' \in [Machine -> 0 .. MaxToken] /\ (\A n \in Machine : drawn[n] <= drawn'[n])
      /\ i \in Token /\ i # NoToken /\ i \notin Drawn /\ Drawn' = Drawn \cup {i}
      BY DrewNew
<1> HIDE DEF i
<1>a. /\ home \in [Token -> Machine \cup {"nowhere"}] /\ home[i] = "nowhere" /\ D \in Disk
      /\ where' = where /\ daemon[m] \in BOOLEAN
      BY <1>0, Mine DEF IdentityInv, Shapes, Local
<1>1. Moves  BY <1>0 DEF Moves
<1>b. home' = [home EXCEPT ![i] = m] \/ home' = home  BY DEF i
<1>2. Homes(m)
  <2>1. home' \in [Token -> Machine \cup {"nowhere"}]  BY <1>a, <1>b
  <2>2. ASSUME NEW j \in Token, home'[j] # home[j]
        PROVE  /\ home[j] = "nowhere" /\ home'[j] = m /\ j \in Drawn'
               /\ j \in excused' \/ \A d \in Disk \ {D} : j \notin SoleOn[d]
    <3>1. j = i /\ home'[i] = m  BY <1>a, <1>b, <2>2, <1>0
    <3>2. i \in excused \/ \A d \in Disk : i \notin SoleOn[d]  BY <1>0 DEF SoleOn
    <3> QED  BY <1>0, <1>a, <3>1, <3>2
  <2> QED  BY <2>1, <2>2 DEF Homes
<1>3. Leaves(m, s, p)  BY <1>0 DEF Leaves, i
<1>4. Native[m] \subseteq (Native')[m] /\ Rightful \subseteq Rightful'  BY <1>1, <1>2, <1>3, <1>a, Grow
<1>5. (SoleOn')[D] \subseteq (Native')[m]  BY <1>a DEF Native
<1>6. CASE hw # NoEvidence
  <2>1. home'[i] = m  BY <1>6, <1>a, <1>0 DEF i
  <2>2. <<i, hw>> \in Rightful' /\ i \in (Native')[m]  BY <2>1, <1>0 DEF Rightful, Native
  <2>3. MayBind(i, hw, (Native')[m], (SoleOn')[D], Rightful')  BY <2>2, <1>0, <1>6 DEF MayBind
  <2> QED  BY <1>1, <1>2, <1>3, <1>4, <1>5, <2>3 DEF i, Wider
<1>7. CASE hw = NoEvidence
  <2>1. \A e \in Disk \ {D} : disk'[e].binding.inst # i
    <3>1. \A e \in Disk \ {D} : disk'[e] = disk[e]  BY DEF Local, IdentityInv, Shapes
    <3> QED  BY <3>1, <1>0 DEF IdentityInv, DisksKnow, DiskShape, BindingShape
  <2>2. home'[i] = "nowhere"  BY <1>7, <1>a
  <2>3. i \in (SoleOn')[D]  BY <2>1, <2>2, <1>0, <1>a DEF SoleOn, Has
  <2>4. MayBind(i, hw, (Native')[m], (SoleOn')[D], Rightful')  BY <2>3, <1>0, <1>5, <1>7 DEF MayBind
  <2> QED  BY <1>1, <1>2, <1>3, <1>4, <1>5, <2>4 DEF i, Wider
<1> QED  BY <1>6, <1>7

\* So is the binding of an installation that the disk had already, if no other
\* disk has it in use.
LEMMA OldHome ==
  ASSUME IdentityInv, NEW m \in Machine, NEW s, NEW p, Local(m, s, p, daemon[m]), UNCHANGED drawn, SiteShape',
         excused \subseteq excused', Bound(In(m)), s.binding.inst = In(m).binding.inst,
         \/ home' = home
         \/ /\ home[In(m).binding.inst] = "nowhere" /\ home' = [home EXCEPT ![In(m).binding.inst] = m]
            /\ In(m).binding.inst \in excused' \/ ~Stuck(where[m]),
         \/ In(m).binding.inst \in excused' \/ ~Stuck(where[m])
         \/ NoHardware(s) /\ s.journal.kind # "none" /\ p.pc # "unjournal"
  PROVE  /\ Moves /\ Homes(m) /\ Leaves(m, s, p) /\ Drawn' = Drawn
         /\ Wider(Native[m], Rightful, (Native')[m], (SoleOn')[where[m]], Rightful')
         /\ home' = home => SoleOn[where[m]] \subseteq (SoleOn')[where[m]]
<1> DEFINE i == In(m).binding.inst
           D == where[m]
<1>0. /\ i \in Drawn /\ i # NoToken /\ D \in Disk /\ daemon[m] \in BOOLEAN /\ where' = where
      /\ home \in [Token -> Machine \cup {"nowhere"}]
      BY Mine DEF Shaped, DiskShape, BindingShape, Known, DiskKnows, IdentityInv, Shapes, Local
<1>1. Moves /\ Drawn' = Drawn  BY Undrawn DEF Moves
<1>2. i \in Token  BY <1>0 DEF Drawn
<1>3. ~Stuck(D) /\ i \notin excused => \A d \in Disk \ {D} : i \notin SoleOn[d]
      BY <1>0 DEF SoleOn, Has, In
<1>4. Homes(m)
  <2>1. home' \in [Token -> Machine \cup {"nowhere"}]  BY <1>0
  <2>2. ASSUME NEW j \in Token, home'[j] # home[j]
        PROVE  /\ home[j] = "nowhere" /\ home'[j] = m /\ j \in Drawn'
               /\ j \in excused' \/ \A d \in Disk \ {D} : j \notin SoleOn[d]
    <3>1. j = i /\ home'[i] = m /\ home[i] = "nowhere" /\ (i \in excused' \/ ~Stuck(D))  BY <1>0, <1>2, <2>2
    <3> QED  BY <1>0, <1>1, <1>3, <3>1
  <2> QED  BY <2>1, <2>2 DEF Homes
<1>5. Leaves(m, s, p)  BY DEF Leaves, Has, Bound
<1>6. /\ Native[m] \subseteq (Native')[m] /\ Rightful \subseteq Rightful'
      /\ \A j \in SoleOn[D] : j \in (SoleOn')[D] \/ (j \in Token /\ home'[j] # home[j])
      BY <1>0, <1>1, <1>4, <1>5, Grow
<1>7. (SoleOn')[D] \subseteq (Native')[m]  BY <1>0 DEF Native
<1> QED  BY <1>1, <1>4, <1>5, <1>6, <1>7 DEF Wider

\* The new bindings of _provision and of _migrate_existing.
LEMMA NewBindings ==
  ASSUME IdentityInv, NEW m \in Machine, Bind(m) \/ Migrate(m)
  PROVE  IdentityInv'
<1> DEFINE s == In(m)
           p == proc[m]
           i == Draw(m, 1)
           hw == p.reading.components
           fp == s.crt
<1>0. /\ Shaped(s, p, Drawn, Owned[m]) /\ Known(s, p, daemon[m], Native[m], SoleOn[where[m]], Rightful)
      /\ NoToken \in Drawn /\ daemon[m] \in BOOLEAN
      BY Mine
<1>1. hw \in Evidence /\ PartOf(hw, Owned[m])  BY <1>0 DEF Shaped, ProcShape, Snapshot
<1>2. SiteShape' /\ excused' = excused /\ Drew(m, 1) /\ where' = where /\ daemon' = daemon
      BY Unspent DEF Bind, Migrate, SaveBinding
<1>3. i # NoToken /\ home[i] = "nowhere" /\ Drawn' = Drawn \cup {i}  BY <1>2, DrewNew DEF IdentityInv, Shapes
<1>4. CASE Bind(m)
  <2> DEFINE old == p.prior.retired \cup
                      (IF Destructive(p) /\ s.journal.prevId # p.id THEN {s.journal.prevId} \ {NoToken} ELSE {})
             b == [kind |-> "ok", inst |-> i, id |-> p.id, fp |-> fp, hw |-> hw, retired |-> old, pending |-> s.journal.held]
             u == [s EXCEPT !.binding = b]
             q == [p EXCEPT !.pc = "unjournal"]
  <2>1. Put(m, u) /\ Become(m, q) /\ Settled(m, b) /\ p.pc = "bind"  BY <1>4 DEF Bind, SaveBinding, Pc
  <2>2. Local(m, u, q, daemon[m])  BY <1>2, <2>1, Writes
  <2>3. u.binding.inst = i  BY <1>0 DEF Shaped, DiskShape
  <2>4. (hw # NoEvidence => home' = [home EXCEPT ![i] = m]) /\ (hw = NoEvidence => home' = home)
        BY <1>3, <2>1 DEF Settled
  <2>a. p.pc = "bind"  BY <2>1
  <2>b. old \subseteq Drawn /\ p.id \notin old /\ (p.task = "initial" => old = {}) /\ DOMAIN s.binding = DOMAIN b
        BY <1>0, <2>a DEF Shaped, DiskShape, BindingShape, JournalShape, ProcShape, Known, ProcKnows,
         ProvisionKnows, Binds, At, Destructive
  <2>c. /\ DOMAIN b = DOMAIN s.binding /\ b.kind = "ok" /\ b.inst = i /\ b.id = p.id /\ b.hw = hw
        /\ b.retired \subseteq Drawn /\ p.id \notin b.retired /\ (p.task = "initial" => b.retired = {})
        /\ b.pending = s.journal.held
        BY <2>b
  <2> HIDE DEF i, b, q, u, old
  <2>5. /\ Moves /\ Homes(m) /\ Leaves(m, u, q)
        /\ Wider(Native[m], Rightful, (Native')[m], (SoleOn')[where[m]], Rightful')
        /\ MayBind(i, hw, (Native')[m], (SoleOn')[where[m]], Rightful')
        BY <1>1, <1>2, <2>2, <2>3, <2>4, NewHome DEF i
  <2> DEFINE N2 == (Native')[m]
             S2 == (SoleOn')[where[m]]
             W2 == Rightful'
  <2>e. Wider(Native[m], Rightful, N2, S2, W2) /\ MayBind(i, hw, N2, S2, W2)
        BY <2>5
  <2> HIDE DEF N2, S2, W2
  <2>6. Shaped(u, q, Drawn \cup {i}, Owned[m]) /\ Known(u, q, daemon[m], N2, S2, W2)
        BY <1>0, <2>a, <2>c, <2>e, BindKnows DEF q, u
  <2> QED  BY <1>0, <1>3, <2>2, <2>5, <2>6, LocalStep DEF N2, S2, W2
<1>5. CASE Migrate(m)
  <2> DEFINE b == [NoBinding EXCEPT !.kind = "ok", !.inst = i, !.id = p.id, !.fp = fp, !.hw = hw]
             u == [Named(s, i) EXCEPT !.binding = b]
             q == [p EXCEPT !.pc = "serve", !.state = "ready"]
  <2>0. b.inst = i /\ b.hw = hw  BY DEF NoBinding
  <2>1. Put(m, u) /\ Become(m, q) /\ Settled(m, b) /\ p.pc = "migrate"  BY <1>5, <2>0 DEF Migrate, Pc
  <2>2. Local(m, u, q, daemon[m])  BY <1>2, <2>1, Writes
  <2>3. u.binding.inst = i  BY <1>0, <2>0 DEF Shaped, DiskShape, Named
  <2>4. (hw # NoEvidence => home' = [home EXCEPT ![i] = m]) /\ (hw = NoEvidence => home' = home)
        BY <1>3, <2>0, <2>1 DEF Settled
  <2> HIDE DEF i, b, q, u
  <2>5. /\ Moves /\ Homes(m) /\ Leaves(m, u, q)
        /\ Wider(Native[m], Rightful, (Native')[m], (SoleOn')[where[m]], Rightful')
        /\ MayBind(i, hw, (Native')[m], (SoleOn')[where[m]], Rightful')
        BY <1>1, <1>2, <2>2, <2>3, <2>4, NewHome DEF i
  <2> DEFINE N2 == (Native')[m]
             S2 == (SoleOn')[where[m]]
             W2 == Rightful'
  <2>e. Wider(Native[m], Rightful, N2, S2, W2) /\ MayBind(i, hw, N2, S2, W2)
        BY <2>5
  <2> HIDE DEF N2, S2, W2
  <2>6. Shaped(u, q, Drawn \cup {i}, Owned[m]) /\ Known(u, q, daemon[m], N2, S2, W2)
        BY <1>0, <2>1, <2>e, MigrateStepKnows DEF b, q, u
  <2> QED  BY <1>0, <1>3, <2>2, <2>5, <2>6, LocalStep DEF N2, S2, W2
<1> QED  BY <1>4, <1>5

\* A binding that is written again, with the hardware that is recorded now.
LEMMA OldBindings ==
  ASSUME IdentityInv, NEW m \in Machine, Adopt(m) \/ Rebind(m) \/ Save(m)
  PROVE  IdentityInv'
<1> DEFINE s == In(m)
           p == proc[m]
           i == s.binding.inst
           D == where[m]
           N2 == (Native')[m]
           S2 == (SoleOn')[where[m]]
           W2 == Rightful'
<1>0. /\ Shaped(s, p, Drawn, Owned[m]) /\ Known(s, p, daemon[m], Native[m], SoleOn[D], Rightful)
      /\ NoToken \in Drawn /\ daemon[m] \in BOOLEAN /\ D \in Disk
      BY Mine
<1>1. /\ SiteShape' /\ UNCHANGED <<where, daemon, drawn>> /\ excused \subseteq excused'
      BY Unspent DEF Adopt, Rebind, Save, SaveBinding
<1>2. p.pc \in {"adopt", "rebind", "save"}  BY DEF Adopt, Rebind, Save, Pc
<1>3. /\ Bound(s) /\ p.bound.kind = "ok" /\ p.bound.inst = i /\ p.bound.hw = s.binding.hw /\ i # NoToken /\ i \in Drawn
      /\ p.pc # "rebind" => i \in Native[m]
      /\ NoHardware(s) => p.pc # "rebind" /\ s.journal.kind = "none" /\ i \in SoleOn[D]
      /\ ~NoHardware(s) => p.pc # "adopt" /\ <<i, s.binding.hw>> \in Rightful
      BY <1>0, <1>2 DEF Shaped, DiskShape, BindingShape, JournalShape, Known, DiskKnows, ProcKnows, VerifyKnows,
         Verifies, At
<1>4. ~Stuck(D)  BY <1>0, <1>3 DEF Stuck, NoHardware, In
<1>5. DOMAIN p.bound = DOMAIN s.binding /\ DOMAIN s.binding = {"kind", "inst", "id", "fp", "hw", "retired", "pending"}
      BY <1>0 DEF Shaped, DiskShape, ProcShape, BindingShape
<1>6. i \in Token /\ home \in [Token -> Machine \cup {"nowhere"}]  BY <1>3 DEF IdentityInv, Shapes, Drawn
<1>7. p.reading.components \in Evidence /\ PartOf(p.reading.components, Owned[m])
      BY <1>0 DEF Shaped, ProcShape, Snapshot
<1>8. ASSUME NEW b, NEW q, DOMAIN b = DOMAIN p.bound, b.inst = i, Put(m, [s EXCEPT !.binding = b]), Become(m, q),
             home' = home \/ (Settled(m, b) /\ b.hw # NoEvidence /\ home[i] = "nowhere")
      PROVE  /\ Moves /\ Homes(m) /\ Leaves(m, [s EXCEPT !.binding = b], q) /\ Drawn' = Drawn
             /\ Wider(Native[m], Rightful, N2, S2, W2) /\ Local(m, [s EXCEPT !.binding = b], q, daemon[m])
             /\ home' = home => SoleOn[D] \subseteq S2
  <2> DEFINE u == [s EXCEPT !.binding = b]
  <2>1. u.binding = b  BY <1>0 DEF Shaped, DiskShape
  <2>2. Local(m, u, q, daemon[m])  BY <1>1, <1>8, Writes
  <2>3. home' = home \/ (home[i] = "nowhere" /\ home' = [home EXCEPT ![i] = m])  BY <1>8 DEF Settled
  <2> HIDE DEF u
  <2>4. /\ Moves /\ Homes(m) /\ Leaves(m, u, q) /\ Drawn' = Drawn
        /\ Wider(Native[m], Rightful, N2, S2, W2) /\ (home' = home => SoleOn[D] \subseteq S2)
        BY <1>1, <1>3, <1>4, <1>8, <2>1, <2>2, <2>3, OldHome
  <2> QED  BY <2>2, <2>4 DEF u
<1>9. ASSUME NEW hw, <<i, hw>> \in W2, Wider(Native[m], Rightful, N2, S2, W2), hw # NoEvidence, i \in Native[m] \/ i \in S2
      PROVE  MayBind(i, hw, N2, S2, W2)
      BY <1>3, <1>9 DEF MayBind, Wider
<1>10. CASE Adopt(m)
  <2> DEFINE hw == p.reading.components
             b == [p.bound EXCEPT !.hw = hw]
             u == [s EXCEPT !.binding = b]
             q == ToVerify(p, b)
  <2>1. Put(m, u) /\ Become(m, q) /\ Settled(m, b) /\ p.pc = "adopt" /\ excused' = excused
        BY <1>10 DEF Adopt, SaveBinding, Pc
  <2>2. DOMAIN b = DOMAIN p.bound /\ b.inst = i /\ b.hw = hw  BY <1>3, <1>5
  <2>3. home' = home \/ (Settled(m, b) /\ b.hw # NoEvidence /\ home[i] = "nowhere")  BY <2>1, <2>2 DEF Settled
  <2>4. /\ Moves /\ Homes(m) /\ Leaves(m, u, q) /\ Drawn' = Drawn
        /\ Wider(Native[m], Rightful, N2, S2, W2) /\ Local(m, u, q, daemon[m]) /\ (home' = home => SoleOn[D] \subseteq S2)
        BY <1>8, <2>1, <2>2, <2>3
  <2>5. i \in SoleOn[D] /\ i \in Native[m]  BY <1>3, <2>1
  <2>6. MayBind(i, hw, N2, S2, W2)
    <3>1. CASE hw = NoEvidence
      <4>1. home' = home  BY <2>1, <2>2, <3>1 DEF Settled
      <4> QED  BY <1>3, <2>4, <2>5, <3>1, <4>1 DEF MayBind, Wider
    <3>2. CASE hw # NoEvidence
      <4>1. i \in excused \/ home[i] = "nowhere"  BY <1>0, <2>5 DEF SoleOn
      <4>2. home[i] = "nowhere" => home'[i] = m  BY <1>6, <2>1, <2>2, <3>2 DEF Settled
      <4>3. <<i, hw>> \in W2  BY <1>6, <1>7, <2>1, <4>1, <4>2 DEF Rightful
      <4> QED  BY <1>9, <2>4, <2>5, <3>2, <4>3
    <3> QED  BY <3>1, <3>2
  <2>7. p.pc = "adopt"  BY <2>1
  <2> HIDE DEF N2, S2, W2
  <2>8. Shaped(u, q, Drawn, Owned[m]) /\ Known(u, q, daemon[m], N2, S2, W2)
        BY <1>0, <2>4, <2>6, <2>7, AdoptKnows
  <2> QED  BY <1>0, <2>4, <2>8, LocalStep DEF N2, S2, W2
<1>11. CASE Rebind(m)
  <2> DEFINE hw == p.reading.components
             b == [p.bound EXCEPT !.hw = hw]
             u == [s EXCEPT !.binding = b]
             q == [p EXCEPT !.bound = b, !.pc = "consume"]
  <2>1. Put(m, u) /\ Become(m, q) /\ home' = home /\ p.pc = "rebind"  BY <1>11 DEF Rebind, Pc
  <2>2. DOMAIN b = DOMAIN p.bound /\ b.inst = i  BY <1>3, <1>5
  <2>3. i \in excused'
    <3>1. s.auth # NoToken  BY <1>0, <2>1 DEF Known, ProcKnows, VerifyKnows, Verifies, At
    <3> QED  BY <1>3, <1>11, <3>1 DEF Rebind, Spread, Binding, Bound
  <2>4. /\ Moves /\ Homes(m) /\ Leaves(m, u, q) /\ Drawn' = Drawn
        /\ Wider(Native[m], Rightful, N2, S2, W2) /\ Local(m, u, q, daemon[m])
        BY <1>8, <2>1, <2>2
  <2>5. i \in S2 /\ <<i, hw>> \in W2  BY <1>0, <1>1, <1>6, <1>7, <2>3 DEF SoleOn, Rightful
  <2>6. MayBind(i, hw, N2, S2, W2)  BY <1>3, <2>4, <2>5 DEF MayBind, Wider
  <2>7. p.pc = "rebind"  BY <2>1
  <2> HIDE DEF N2, S2, W2
  <2>8. Shaped(u, q, Drawn, Owned[m]) /\ Known(u, q, daemon[m], N2, S2, W2)
        BY <1>0, <2>4, <2>6, <2>7, RebindKnows
  <2> QED  BY <1>0, <2>4, <2>8, LocalStep DEF N2, S2, W2
<1>12. CASE Save(m)
  <2> DEFINE hw == p.bound.hw
             u == [s EXCEPT !.binding = p.bound]
             q == [p EXCEPT !.state = "ready", !.pc = IF s.journal.kind = "corrupt" THEN "discard" ELSE "serve"]
  <2>1. Put(m, u) /\ Become(m, q) /\ Settled(m, p.bound) /\ p.pc = "save" /\ excused' = excused
        BY <1>12 DEF Save, SaveBinding, Pc
  <2>3. home' = home \/ (Settled(m, p.bound) /\ hw # NoEvidence /\ home[i] = "nowhere")  BY <1>3, <2>1 DEF Settled
  <2>4. /\ Moves /\ Homes(m) /\ Leaves(m, u, q) /\ Drawn' = Drawn
        /\ Wider(Native[m], Rightful, N2, S2, W2) /\ Local(m, u, q, daemon[m]) /\ (home' = home => SoleOn[D] \subseteq S2)
        BY <1>3, <1>8, <2>1, <2>3
  <2>6. MayBind(i, hw, N2, S2, W2)
    <3>1. CASE hw = NoEvidence
      <4>1. home' = home /\ i \in SoleOn[D] /\ i \in Native[m]  BY <1>3, <2>1, <3>1 DEF Settled, NoHardware
      <4> QED  BY <1>3, <2>4, <3>1, <4>1 DEF MayBind, Wider
    <3>2. CASE hw # NoEvidence
      <4>1. <<i, hw>> \in W2 /\ i \in Native[m]  BY <1>3, <2>1, <2>4, <3>2 DEF Wider, NoHardware
      <4> QED  BY <1>9, <2>4, <3>2, <4>1
    <3> QED  BY <3>1, <3>2
  <2>7. p.pc = "save"  BY <2>1
  <2> HIDE DEF N2, S2, W2
  <2>8. Shaped(u, q, Drawn, Owned[m]) /\ Known(u, q, daemon[m], N2, S2, W2)
        BY <1>0, <2>4, <2>6, <2>7, SaveKnows
  <2> QED  BY <1>0, <2>4, <2>8, LocalStep DEF N2, S2, W2
<1> QED  BY <1>10, <1>11, <1>12

\* resolve_recovery("keep"), of an installation with and without a binding.
LEMMA Keeping ==
  ASSUME IdentityInv, NEW m \in Machine, ResolveKeep(m)
  PROVE  IdentityInv'
<1> DEFINE s == In(m)
           p == proc[m]
           D == where[m]
           fp == s.crt
           q == [p EXCEPT !.pc = "release", !.next = "restarting", !.admin = TRUE]
           N2 == (Native')[m]
           S2 == (SoleOn')[where[m]]
           W2 == Rightful'
<1>0. /\ Shaped(s, p, Drawn, Owned[m]) /\ Known(s, p, daemon[m], Native[m], SoleOn[D], Rightful)
      /\ NoToken \in Drawn /\ daemon[m] \in BOOLEAN /\ D \in Disk
      BY Mine
<1>1. /\ SiteShape' /\ UNCHANGED <<where, daemon>> /\ excused' = excused \cup Spread(s, p.id) /\ p.pc = "serving"
      /\ s.journal.kind # "ok" /\ Become(m, q)
      BY Unspent DEF ResolveKeep, Serving, Pc
<1>2. PICK r \in ReadingsOf(m) :
        LET b == Kept(Binding(s), r, s.crt, p.id, Draw(m, 1))
        IN  /\ Put(m, [(IF Binding(s).kind = "ok" THEN s ELSE Named(s, b.inst)) EXCEPT !.binding = b])
            /\ Settled(m, b)
      BY DEF ResolveKeep
<1>3. r.components \in Evidence /\ PartOf(r.components, Owned[m])  BY ReadingsAre
<1>4. CASE Bound(s)
  <2> DEFINE hw == IF Usable(r) THEN r.components ELSE s.binding.hw
             b == [s.binding EXCEPT !.hw = hw, !.fp = fp]
             u == [s EXCEPT !.binding = b]
             i == s.binding.inst
  <2>1. /\ DOMAIN s.binding = {"kind", "inst", "id", "fp", "hw", "retired", "pending"} /\ s.binding.hw \in Evidence
        /\ i # NoToken /\ i \in Drawn
        /\ ~NoHardware(s) => <<i, s.binding.hw>> \in Rightful
        BY <1>0, <1>4 DEF Shaped, DiskShape, BindingShape, Known, DiskKnows
  <2>2. Put(m, u) /\ Settled(m, b) /\ UNCHANGED drawn  BY <1>2, <1>4 DEF Kept, Binding, Bound, ResolveKeep
  <2>3. i \in excused'  BY <1>1, <1>4, <2>1 DEF Spread, Binding, Bound
  <2>4. b.inst = i /\ b.hw = hw /\ hw \in Evidence  BY <1>3, <2>1
  <2>5. Local(m, u, q, daemon[m])  BY <1>1, <2>2, Writes
  <2>6. u.binding = b  BY <1>0 DEF Shaped, DiskShape
  <2>7. home' = home \/ (home[i] = "nowhere" /\ home' = [home EXCEPT ![i] = m])  BY <2>2, <2>4 DEF Settled
  <2>8. i \in Token /\ home \in [Token -> Machine \cup {"nowhere"}]  BY <2>1 DEF IdentityInv, Shapes, Drawn
  <2>a. p.pc = "serving" /\ s.journal.kind # "ok"  BY <1>1
  <2> HIDE DEF hw, b, u, q
  <2>9. Moves /\ Homes(m) /\ Leaves(m, u, q) /\ Drawn' = Drawn /\ Wider(Native[m], Rightful, N2, S2, W2)
        BY <1>1, <1>4, <2>2, <2>3, <2>4, <2>5, <2>6, <2>7, OldHome
  <2>10. MayBind(i, hw, N2, S2, W2)
    <3>1. i \in S2 /\ <<i, hw>> \in W2  BY <1>0, <1>1, <2>1, <2>3, <2>4, <2>8, <2>9 DEF SoleOn, Rightful
    <3> QED  BY <2>1, <2>9, <3>1 DEF MayBind, Wider
  <2> HIDE DEF N2, S2, W2
  <2>11. Shaped(u, q, Drawn, Owned[m]) /\ Known(u, q, daemon[m], N2, S2, W2)
         BY <1>0, <1>4, <2>a, <2>4, <2>9, <2>10, KeepKnows DEF b, u, q
  <2> QED  BY <1>0, <2>5, <2>9, <2>11, LocalStep DEF N2, S2, W2
<1>5. CASE ~Bound(s)
  <2> DEFINE i == Draw(m, 1)
             hw == r.components
             b == [NoBinding EXCEPT !.kind = "ok", !.inst = i, !.id = p.id, !.fp = fp, !.hw = hw]
             u == [Named(s, i) EXCEPT !.binding = b]
  <2>0. b.inst = i /\ b.hw = hw  BY DEF NoBinding
  <2>1. Drew(m, 1)  BY <1>5 DEF ResolveKeep, Binding, Bound, NoBinding
  <2>2. home[i] = "nowhere" /\ Drawn' = Drawn \cup {i}  BY <2>1, DrewNew DEF IdentityInv, Shapes
  <2>3. Binding(s).kind # "ok" /\ b = Kept(Binding(s), r, fp, p.id, i)  BY <1>5 DEF Kept, Binding, Bound, NoBinding
  <2>4. Put(m, u) /\ Settled(m, b)  BY <1>2, <2>0, <2>3
  <2>5. (hw # NoEvidence => home' = [home EXCEPT ![i] = m]) /\ (hw = NoEvidence => home' = home)
        BY <2>0, <2>2, <2>4 DEF Settled
  <2>6. u.binding.inst = i  BY <1>0, <2>0 DEF Shaped, DiskShape, Named
  <2>7. Local(m, u, q, daemon[m])  BY <1>1, <2>4, Writes
  <2>8. p.pc = "serving" /\ s.journal.kind # "ok" /\ excused \subseteq excused' /\ SiteShape'  BY <1>1
  <2> HIDE DEF i, b, u, q
  <2>9. /\ Moves /\ Homes(m) /\ Leaves(m, u, q) /\ Wider(Native[m], Rightful, N2, S2, W2)
        /\ MayBind(i, hw, N2, S2, W2)
        BY <1>3, <2>1, <2>5, <2>6, <2>7, <2>8, NewHome DEF i
  <2> HIDE DEF N2, S2, W2
  <2>10. Shaped(u, q, Drawn \cup {i}, Owned[m]) /\ Known(u, q, daemon[m], N2, S2, W2)
         BY <1>0, <1>3, <1>5, <2>8, <2>9, KeepUnboundKnows DEF b, u, q
  <2> QED  BY <1>0, <2>2, <2>7, <2>9, <2>10, LocalStep DEF N2, S2, W2
<1> QED  BY <1>4, <1>5

-----------------------------------------------------------------------------
(* The world.                                                              *)

\* Whatever disk a machine that is off has, there is nothing it knows of it.
LEMMA ColdKnows ==
  ASSUME NEW s, NEW p, NEW N, NEW S, p.pc = "off", p.rot # "idle" => p.rotToken # NoToken
  PROVE  ProcKnows(s, p, N, S)
BY DEF ProcKnows, VerifyKnows, MigrateKnows, JournalKnows, ProvisionKnows, ResetKnows, BoundKnows, ServeKnows,
       Verifies, Migrates, Binds, Serves, Unchosen, At, Then

\* A daemon that ends with its machine, and a file damaged while it is off.
LEMMA Damages ==
  ASSUME IdentityInv, NEW m \in Machine, Damage(m)
  PROVE  IdentityInv'
<1> DEFINE s == In(m)
           p == proc[m]
<1>0. /\ Shaped(s, p, Drawn, Owned[m]) /\ Known(s, p, daemon[m], Native[m], SoleOn[where[m]], Rightful)
      /\ NoToken \in Drawn /\ NoEvidence \in Evidence /\ daemon[m] \in BOOLEAN
      BY Mine
<1>1. PICK u : /\ Put(m, u)
               /\ \/ u = [s EXCEPT !.journal = [NoJournal EXCEPT !.kind = "corrupt"]]
                  \/ u = [s EXCEPT !.binding = [NoBinding EXCEPT !.kind = "corrupt"]]
      BY DEF Damage
<1>2. SiteShape' /\ p.pc = "off" /\ daemon[m] = FALSE /\ UNCHANGED <<where, proc, daemon, drawn, history>>
      BY <1>0, Unspent DEF Damage, Cold, Pc
<1>3. Local(m, u, p, daemon[m])  BY <1>1, <1>2, Writes
<1>4. Shaped(u, p, Drawn, Owned[m]) /\ Known(u, p, daemon[m], Native[m], SoleOn[where[m]], Rightful) /\ Stays(s, p, u, p)
      BY <1>0, <1>1, <1>2, DamageKnows
<1> QED  BY <1>0, <1>2, <1>3, <1>4, ThinkStep

\* cancel_hardware_change, or an authorization that expires.
LEMMA Withdrawal ==
  ASSUME IdentityInv, NEW d \in Disk, Withdraw(d)
  PROVE  IdentityInv'
<1>1. /\ disk' = [disk EXCEPT ![d].auth = NoToken] /\ UNCHANGED <<where, proc, daemon, drawn, site, home, excused>>
      /\ \A m \in Machine : where[m] = d => proc[m].pc \in {"off", "serving"}
      BY DEF Withdraw, history, Pc
<1>2. Shapes'  BY <1>1 DEF IdentityInv, Shapes, SiteShape, Drawn
<1>3. Drawn' = Drawn /\ Rightful' = Rightful  BY <1>1 DEF Drawn, Rightful
<1>4. ASSUME NEW e \in Disk
      PROVE  /\ disk'[e].binding = disk[e].binding /\ disk'[e].journal = disk[e].journal
             /\ e # d => disk'[e] = disk[e]
             /\ e = d => disk'[e] = [disk[e] EXCEPT !.auth = NoToken]
             /\ DiskShape(disk[e], Drawn) /\ DiskKnows(disk[e], SoleOn[e], Rightful)
      BY <1>1 DEF IdentityInv, Shapes, DisksKnow, DiskShape
<1>5. SoleOn' = SoleOn
  <2>1. \A e \in Disk, i \in Drawn : (Has(disk'[e], i) <=> Has(disk[e], i)) /\ (Stuck(e)' <=> Stuck(e))
        BY <1>1, <1>4 DEF Has, Bound, Stuck, NoHardware
  <2> QED  BY <1>1, <1>3, <2>1 DEF SoleOn
<1>6. Native' = Native  BY <1>1, <1>5 DEF Native
<1>7. ASSUME NEW e \in Disk PROVE DiskShape(disk'[e], Drawn) /\ DiskKnows(disk'[e], SoleOn[e], Rightful)
  <2>1. CASE e = d
    <3> DEFINE u == [disk[e] EXCEPT !.auth = NoToken]
    <3>1. /\ DOMAIN u = DOMAIN disk[e] /\ u.binding = disk[e].binding /\ u.journal = disk[e].journal /\ u.trust = disk[e].trust
          /\ u.access = disk[e].access /\ u.node = disk[e].node /\ u.key = disk[e].key /\ u.crt = disk[e].crt
          /\ u.file = disk[e].file
          BY <1>4 DEF DiskShape
    <3> HIDE DEF u
    <3>a. DiskShape(disk[e], Drawn) /\ DiskKnows(disk[e], SoleOn[e], Rightful)  BY <1>4
    <3>2. DiskShape(u, Drawn)  BY <3>a, <3>1 DEF DiskShape
    <3>3. DiskKnows(u, SoleOn[e], Rightful)  BY <3>a, <3>1 DEF DiskKnows, Bound, NoHardware, Traceless, Present
    <3> QED  BY <1>4, <2>1, <3>2, <3>3 DEF u
  <2>2. CASE e # d  BY <1>4, <2>2
  <2> QED  BY <2>1, <2>2
<1>8. ASSUME NEW m \in Machine
      PROVE  /\ ProcShape(proc[m], Drawn, Owned[m]) /\ DaemonKnows(daemon[m], disk'[where[m]], Native[m])
             /\ ProcKnows(disk'[where[m]], proc[m], Native[m], SoleOn[where[m]])
  <2>1. where[m] \in Disk /\ NoToken \in Drawn /\ Shaped(In(m), proc[m], Drawn, Owned[m])
        /\ Known(In(m), proc[m], daemon[m], Native[m], SoleOn[where[m]], Rightful)
        BY Mine
  <2>2. CASE where[m] = d
    <3>1. disk'[where[m]] = [In(m) EXCEPT !.auth = NoToken] /\ proc[m].pc \in {"off", "serving"}
          BY <1>1, <1>4, <2>1, <2>2 DEF In
    <3>2. Known([In(m) EXCEPT !.auth = NoToken], proc[m], daemon[m], Native[m], SoleOn[where[m]], Rightful)
          BY <2>1, <3>1, AuthorizeKnows
    <3> QED  BY <2>1, <3>1, <3>2 DEF Shaped, Known
  <2>3. CASE where[m] # d  BY <1>4, <2>1, <2>3 DEF Shaped, Known, In
  <2> QED  BY <2>2, <2>3
<1> QED  BY <1>1, <1>2, <1>3, <1>5, <1>6, <1>7, <1>8 DEF IdentityInv, DisksKnow, MachinesKnow

\* Two machines that are off swap their disks: what either may use moves along.
LEMMA Moving ==
  ASSUME IdentityInv, NEW m \in Machine, NEW n \in Machine, Move(m, n)
  PROVE  IdentityInv'
<1>1. /\ where' = [where EXCEPT ![m] = where[n], ![n] = where[m]] /\ UNCHANGED <<disk, proc, daemon, drawn, home, excused>>
      /\ m # n /\ Cold(m) /\ Cold(n) /\ SiteShape'
      BY Unspent DEF Move, history
<1>2. /\ where \in [Machine -> Disk] /\ \A k, l \in Machine : where[k] = where[l] => k = l
      BY DEF IdentityInv, Shapes
<1>3. /\ where' \in [Machine -> Disk] /\ where'[m] = where[n] /\ where'[n] = where[m]
      /\ \A k \in Machine : k # m /\ k # n => where'[k] = where[k]
      BY <1>1, <1>2
<1>4. Shapes'
  <2>1. \A k, l \in Machine : where'[k] = where'[l] => k = l  BY <1>1, <1>2, <1>3
  <2> QED  BY <1>1, <1>3, <2>1 DEF IdentityInv, Shapes, Drawn
<1>5. Drawn' = Drawn /\ Rightful' = Rightful  BY <1>1 DEF Drawn, Rightful
<1>6. SoleOn' = SoleOn
  <2>1. ASSUME NEW e \in Disk PROVE Stuck(e)' <=> Stuck(e)
    <3>1. proc[m].pc = "off" /\ proc[n].pc = "off"  BY <1>1 DEF Cold, Pc
    <3>2. (\A k \in Machine : where'[k] = e => proc[k].pc # "unjournal")
            <=> (\A k \in Machine : where[k] = e => proc[k].pc # "unjournal")
          BY <1>3, <3>1
    <3> QED  BY <1>1, <3>2 DEF Stuck
  <2> QED  BY <1>1, <1>5, <2>1 DEF SoleOn
<1>7. ASSUME NEW k \in Machine
      PROVE  /\ ProcShape(proc[k], Drawn, Owned[k]) /\ DaemonKnows(daemon[k], disk[where'[k]], (Native')[k])
             /\ ProcKnows(disk[where'[k]], proc[k], (Native')[k], SoleOn[where'[k]])
  <2>1. Shaped(In(k), proc[k], Drawn, Owned[k]) /\ Known(In(k), proc[k], daemon[k], Native[k], SoleOn[where[k]], Rightful)
        BY Mine
  <2>2. CASE k \in {m, n}
    <3>1. proc[k].pc = "off" /\ daemon[k] = FALSE /\ daemon[k] \in BOOLEAN  BY <1>1, <2>2, Mine DEF Cold, Pc
    <3>2. proc[k].rot # "idle" => proc[k].rotToken # NoToken  BY <2>1 DEF Known, ProcKnows
    <3>3. DaemonKnows(daemon[k], disk[where'[k]], (Native')[k])  BY <3>1 DEF DaemonKnows
    <3> QED  BY <2>1, <3>1, <3>2, <3>3, ColdKnows DEF Shaped
  <2>3. CASE k \notin {m, n}
    <3>1. where'[k] = where[k] /\ (Native')[k] = Native[k]  BY <1>1, <1>3, <1>6, <2>3 DEF Native
    <3> QED  BY <2>1, <3>1 DEF Shaped, Known, In
  <2> QED  BY <2>2, <2>3
<1> QED  BY <1>1, <1>4, <1>5, <1>6, <1>7 DEF IdentityInv, DisksKnow, MachinesKnow

\* An image spreads an installation that no hardware is recorded of, which it then
\* excuses, or one that is at home somewhere.
LEMMA Imaging ==
  ASSUME IdentityInv, NEW from \in Disk, NEW to \in Disk, Image(from, to)
  PROVE  IdentityInv'
<1> DEFINE s == disk[from]
<1>1. /\ from # to /\ disk' = [disk EXCEPT ![to] = s] /\ SiteShape' /\ UNCHANGED <<where, proc, daemon, drawn, home>>
      /\ \A m \in Machine : where[m] = to => proc[m].pc = "off" /\ ~daemon[m]
      BY Unspent DEF Image, Cold, Pc
<1>2. excused \subseteq excused' /\ (Bound(s) /\ NoHardware(s) /\ s.journal.kind # "ok" /\ s.binding.inst # NoToken
                                       => s.binding.inst \in excused')
      BY DEF Image, Unprotected, Spread, Binding, Bound, NoHardware
<1>3. Shapes'  BY <1>1 DEF IdentityInv, Shapes, Drawn
<1>4. Drawn' = Drawn /\ Rightful \subseteq Rightful'  BY <1>1, <1>2 DEF Drawn, Rightful
<1>5. /\ disk'[to] = s /\ \A e \in Disk \ {to} : disk'[e] = disk[e]  BY <1>1 DEF IdentityInv, Shapes
<1>6. DiskShape(s, Drawn) /\ DiskKnows(s, SoleOn[from], Rightful)  BY DEF IdentityInv, DisksKnow
<1>7. ASSUME NEW d \in Disk \ {to}, NEW i \in SoleOn[d] PROVE i \in (SoleOn')[d]
  <2>1. CASE i \in excused'  BY <2>1 DEF SoleOn
  <2>2. CASE i \notin excused'
    <3>1. /\ i \in Drawn \ {NoToken} /\ home[i] = "nowhere" /\ i \notin excused
          /\ \A e \in Disk \ {d} : Has(disk[e], i) => Stuck(e)
          BY <1>2, <2>2 DEF SoleOn
    <3>2. ASSUME NEW e \in Disk \ {d}, Has(disk'[e], i) PROVE Stuck(e)'
      <4>1. CASE e # to  BY <1>1, <1>5, <3>1, <3>2, <4>1 DEF Stuck
      <4>2. CASE e = to
        <5>1. Has(s, i)  BY <1>5, <3>2, <4>2
        <5>2. NoHardware(s)
          <6>1. CASE from = d
            <7>1. ~NoHardware(s) => <<i, s.binding.hw>> \in Rightful  BY <1>6, <5>1 DEF DiskKnows, Has
            <7> QED  BY <3>1, <7>1, IdentityAssumption DEF Rightful
          <6>2. CASE from # d  BY <3>1, <5>1, <6>2 DEF Stuck
          <6> QED  BY <6>1, <6>2
        <5>3. s.journal.kind = "ok"  BY <1>2, <2>2, <3>1, <5>1, <5>2 DEF Has
        <5> QED  BY <1>1, <1>5, <4>2, <5>2, <5>3 DEF Stuck
      <4> QED  BY <4>1, <4>2
    <3> QED  BY <1>1, <1>4, <3>1, <3>2 DEF SoleOn
  <2> QED  BY <2>1, <2>2
<1>8. ASSUME NEW d \in Disk PROVE DiskShape(disk'[d], Drawn) /\ DiskKnows(disk'[d], (SoleOn')[d], Rightful')
  <2>1. CASE d = to
    <3>1. Bound(s) /\ s.journal.kind = "none" /\ NoHardware(s) => s.binding.inst \in (SoleOn')[to]
      <4>1. Bound(s) => s.binding.inst # NoToken  BY <1>6 DEF DiskKnows
      <4> QED  BY <1>2, <4>1 DEF SoleOn
    <3>2. DiskKnows(s, (SoleOn')[to], Rightful')  BY <1>4, <1>6, <3>1 DEF DiskKnows
    <3> QED  BY <1>5, <1>6, <2>1, <3>2
  <2>2. CASE d # to
    <3>1. DiskShape(disk[d], Drawn) /\ DiskKnows(disk[d], SoleOn[d], Rightful)  BY DEF IdentityInv, DisksKnow
    <3>2. DiskKnows(disk[d], (SoleOn')[d], Rightful')  BY <1>4, <1>7, <2>2, <3>1 DEF DiskKnows
    <3> QED  BY <1>5, <2>2, <3>1, <3>2
  <2> QED  BY <2>1, <2>2
<1>9. ASSUME NEW m \in Machine
      PROVE  /\ ProcShape(proc[m], Drawn, Owned[m]) /\ DaemonKnows(daemon[m], disk'[where[m]], (Native')[m])
             /\ ProcKnows(disk'[where[m]], proc[m], (Native')[m], (SoleOn')[where[m]])
  <2>1. /\ where[m] \in Disk /\ daemon[m] \in BOOLEAN /\ Shaped(In(m), proc[m], Drawn, Owned[m])
        /\ Known(In(m), proc[m], daemon[m], Native[m], SoleOn[where[m]], Rightful)
        BY Mine
  <2>2. CASE where[m] = to
    <3>1. proc[m].pc = "off" /\ daemon[m] = FALSE  BY <1>1, <2>1, <2>2
    <3>2. proc[m].rot # "idle" => proc[m].rotToken # NoToken  BY <2>1 DEF Known, ProcKnows
    <3>3. DaemonKnows(daemon[m], disk'[where[m]], (Native')[m])  BY <3>1 DEF DaemonKnows
    <3> QED  BY <2>1, <3>1, <3>2, <3>3, ColdKnows DEF Shaped
  <2>3. CASE where[m] # to
    <3>1. SoleOn[where[m]] \subseteq (SoleOn')[where[m]]  BY <1>7, <2>1, <2>3
    <3>2. Native[m] \subseteq (Native')[m]  BY <1>1, <3>1 DEF Native
    <3>3. Known(In(m), proc[m], daemon[m], (Native')[m], (SoleOn')[where[m]], Rightful')
          BY <1>4, <2>1, <3>1, <3>2, KnownGrows
    <3>4. disk'[where[m]] = In(m)  BY <1>5, <2>1, <2>3 DEF In
    <3> QED  BY <2>1, <3>3, <3>4 DEF Shaped, Known
  <2> QED  BY <2>2, <2>3
<1> QED  BY <1>1, <1>3, <1>4, <1>8, <1>9 DEF IdentityInv, DisksKnow, MachinesKnow

-----------------------------------------------------------------------------
(* The invariant, and what follows from it.                                *)

\* The disks of Init carry nothing, or an installation of before bindings existed.
LEMMA IdentityInit == Init => IdentityInv
<1> SUFFICES ASSUME Init PROVE IdentityInv  OBVIOUS
<1>0. NoEvidence \in Evidence /\ MaxToken \in Nat /\ NoToken \in Drawn
  <2>1. NoEvidence \in [{} -> Digest]  BY DEF NoEvidence
  <2> QED  BY <2>1, IdentityAssumption DEF Evidence, Drawn
<1>1. /\ where = Fitted /\ proc = [m \in Machine |-> Off] /\ daemon = [m \in Machine |-> FALSE]
      /\ drawn = [m \in Machine |-> 0] /\ home = [i \in Token |-> "nowhere"]
      BY DEF Init
<1>2. \A m \in Machine : <<m, 0>> \in Drawn
      BY <1>0, <1>1 DEF Drawn, Token
<1>3. ASSUME NEW d \in Disk PROVE DiskShape(disk[d], Drawn) /\ DiskKnows(disk[d], SoleOn[d], Rightful)
  <2>1. \/ disk[d] = Blank \/ disk[d] = [Blank EXCEPT !.bootable = TRUE]
        \/ \E m \in Machine : \E node \in {<<m, 0>>, NoToken} :
             disk[d] = [Blank EXCEPT !.bootable = TRUE, !.key = <<m, 0>>, !.crt = <<m, 0>>, !.file = <<m, 0>>,
                                     !.trust = TrustOf(<<m, 0>>), !.access = <<m, 0>>, !.node = node]
    <3>1. PICK old \in [Machine -> site.legacy] :
            disk = [e \in Disk |->
              IF \E m \in Machine : Fitted[m] = e
              THEN LET m == CHOOSE n \in Machine : Fitted[n] = e
                   IN  IF m \notin Installed THEN Blank
                       ELSE IF old[m]
                       THEN [Blank EXCEPT !.bootable = TRUE, !.key = <<m, 0>>, !.crt = <<m, 0>>, !.file = <<m, 0>>,
                                          !.trust = TrustOf(<<m, 0>>), !.access = <<m, 0>>,
                                          !.node = IF site.tailscale THEN <<m, 0>> ELSE NoToken]
                       ELSE [Blank EXCEPT !.bootable = TRUE]
              ELSE Blank]
          BY DEF Init
    <3>2. CASE \E m \in Machine : Fitted[m] = d
      <4> DEFINE n0 == CHOOSE n \in Machine : Fitted[n] = d
                 node == IF site.tailscale THEN <<n0, 0>> ELSE NoToken
      <4>1. n0 \in Machine /\ node \in {<<n0, 0>>, NoToken}  BY <3>2
      <4>2. disk[d] = IF n0 \notin Installed THEN Blank
                      ELSE IF old[n0]
                      THEN [Blank EXCEPT !.bootable = TRUE, !.key = <<n0, 0>>, !.crt = <<n0, 0>>, !.file = <<n0, 0>>,
                                         !.trust = TrustOf(<<n0, 0>>), !.access = <<n0, 0>>, !.node = node]
                      ELSE [Blank EXCEPT !.bootable = TRUE]
            BY <3>1, <3>2
      <4> HIDE DEF n0, node
      <4> QED  BY <4>1, <4>2
    <3>3. CASE ~\E m \in Machine : Fitted[m] = d  BY <3>1, <3>3
    <3> QED  BY <3>2, <3>3
  <2>2. /\ disk[d].binding = NoBinding /\ disk[d].journal = NoJournal /\ disk[d].file \in Drawn
        /\ DOMAIN disk[d] = DOMAIN Blank /\ DOMAIN disk[d].trust = Part
        /\ Present(disk[d]) \/ Traceless(disk[d])
    <3>1. ASSUME NEW m \in Machine, NEW node,
                 disk[d] = [Blank EXCEPT !.bootable = TRUE, !.key = <<m, 0>>, !.crt = <<m, 0>>, !.file = <<m, 0>>,
                                         !.trust = TrustOf(<<m, 0>>), !.access = <<m, 0>>, !.node = node]
          PROVE  /\ disk[d].binding = NoBinding /\ disk[d].journal = NoJournal /\ disk[d].file \in Drawn
                 /\ DOMAIN disk[d] = DOMAIN Blank /\ DOMAIN disk[d].trust = Part /\ disk[d].key = <<m, 0>>
          BY <1>2, <3>1 DEF Blank, TrustOf
    <3>2. \A m \in Machine : <<m, 0>> # NoToken  BY IdentityAssumption DEF NoToken
    <3>3. CASE disk[d] = Blank \/ disk[d] = [Blank EXCEPT !.bootable = TRUE]
          BY <1>0, <3>3 DEF Blank, TrustOf, Traceless
    <3>4. CASE Present(disk[d])
      <4>1. CASE disk[d] = Blank \/ disk[d] = [Blank EXCEPT !.bootable = TRUE]  BY <3>3, <4>1
      <4>2. CASE ~(disk[d] = Blank \/ disk[d] = [Blank EXCEPT !.bootable = TRUE])
        <5>1. PICK m \in Machine :
                \E node \in {<<m, 0>>, NoToken} :
                  disk[d] = [Blank EXCEPT !.bootable = TRUE, !.key = <<m, 0>>, !.crt = <<m, 0>>, !.file = <<m, 0>>,
                                          !.trust = TrustOf(<<m, 0>>), !.access = <<m, 0>>, !.node = node]
              BY <2>1, <4>2
        <5>2. PICK node \in {<<m, 0>>, NoToken} :
                disk[d] = [Blank EXCEPT !.bootable = TRUE, !.key = <<m, 0>>, !.crt = <<m, 0>>, !.file = <<m, 0>>,
                                        !.trust = TrustOf(<<m, 0>>), !.access = <<m, 0>>, !.node = node]
              BY <5>1
        <5> QED  BY <3>1, <3>4, <5>2
      <4> QED  BY <4>1, <4>2
    <3>5. CASE ~Present(disk[d])
      <4>1. disk[d] = Blank \/ disk[d] = [Blank EXCEPT !.bootable = TRUE]  BY <2>1, <3>1, <3>2, <3>5 DEF Present
      <4> QED  BY <3>3, <4>1
    <3> QED  BY <3>4, <3>5
  <2>3. DiskShape(disk[d], Drawn)
        BY <1>0, <2>2 DEF DiskShape, BindingShape, JournalShape, NoBinding, NoJournal, Blank
  <2>4. DiskKnows(disk[d], SoleOn[d], Rightful)  BY <2>2 DEF DiskKnows, Bound, NoBinding, NoJournal
  <2> QED  BY <2>3, <2>4
<1>4. Shapes
  <2>1. disk = [d \in Disk |-> disk[d]]  BY DEF Init
  <2>2. where \in [Machine -> Disk] /\ \A m, n \in Machine : where[m] = where[n] => m = n
        BY <1>1, IdentityAssumption
  <2>3. SiteShape
    <3>1. site \in [image : Nat, move : Nat, crash : Nat, fault : Nat, request : Nat,
                    tokens : 0 .. MaxToken, tailscale : BOOLEAN, pinned : (Machine \X {0}) \cup {NoToken},
                    readings : SUBSET [kinds : SUBSET Kind, ambiguous : BOOLEAN], legacy : SUBSET BOOLEAN]
          BY SiteAssumption DEF Init
    <3> QED  BY <3>1 DEF SiteShape
  <2>4. drawn \in [Machine -> 0 .. MaxToken]  BY <1>0, <1>1
  <2> QED  BY <1>1, <2>1, <2>2, <2>3, <2>4 DEF Shapes
<1>5. ASSUME NEW m \in Machine
      PROVE  /\ ProcShape(proc[m], Drawn, Owned[m]) /\ DaemonKnows(daemon[m], disk[where[m]], Native[m])
             /\ ProcKnows(disk[where[m]], proc[m], Native[m], SoleOn[where[m]])
  <2>1. proc[m] = Off /\ daemon[m] = FALSE  BY <1>1
  <2>2. ProcShape(Off, Drawn, Owned[m])
        BY <1>0 DEF ProcShape, BindingShape, Off, NoPrior, NoReading, NoBinding, Snapshot, PartOf, NoEvidence
  <2>3. Off.pc = "off" /\ Off.rot = "idle"  BY DEF Off
  <2>4. DaemonKnows(daemon[m], disk[where[m]], Native[m])  BY <2>1 DEF DaemonKnows
  <2> QED  BY <2>1, <2>2, <2>3, <2>4, ColdKnows
<1> QED  BY <1>3, <1>4, <1>5 DEF IdentityInv, DisksKnow, MachinesKnow

\* Every step keeps the invariant.
LEMMA IdentityNext == UniqueHardware /\ IdentityInv /\ [Next]_vars => IdentityInv'
<1> SUFFICES ASSUME UniqueHardware, IdentityInv, [Next]_vars PROVE IdentityInv'  OBVIOUS
<1>1. ASSUME NEW m \in Machine, Provisioning(m) PROVE IdentityInv'
      BY <1>1, Judgement, Trials, Chain, Nodes, NewBindings DEF Provisioning
<1>2. ASSUME NEW m \in Machine, Verifying(m) PROVE IdentityInv'
      BY <1>2, Verification, Trials, Nodes, NewBindings, OldBindings DEF Verifying
<1>3. ASSUME NEW m \in Machine, Administration(m) PROVE IdentityInv'
      BY <1>3, Verification, Trials, Nodes, Keeping, Replacement DEF Administration
<1>4. ASSUME NEW m \in Machine, Start(m) \/ Restart(m) \/ PowerOff(m) \/ Damage(m) \/ TailnetService(m) \/ Crash(m) \/ Fail(m)
      PROVE  IdentityInv'
      BY <1>4, Awakening, Nodes, Damages
<1>5. CASE World  BY <1>4, <1>5, Withdrawal, Imaging, Moving DEF World
<1>6. CASE UNCHANGED vars
  <2>1. UNCHANGED <<disk, where, proc, daemon, drawn, site, home, excused>>  BY <1>6 DEF vars, history
  <2>2. Drawn' = Drawn /\ Rightful' = Rightful  BY <2>1 DEF Drawn, Rightful
  <2>3. SoleOn' = SoleOn  BY <2>1, <2>2 DEF SoleOn, Stuck
  <2>4. Native' = Native  BY <2>1, <2>3 DEF Native
  <2> QED  BY <2>1, <2>2, <2>3, <2>4 DEF IdentityInv, Shapes, SiteShape, DisksKnow, MachinesKnow
<1> QED  BY <1>1, <1>2, <1>3, <1>4, <1>5, <1>6 DEF Next

\* The invariant holds throughout.
LEMMA InvariantHolds == UniqueHardware => (Spec => []IdentityInv)
<1>1. ASSUME UniqueHardware PROVE IdentityInv /\ [Next]_vars => IdentityInv'  BY <1>1, IdentityNext
<1> SUFFICES ASSUME UniqueHardware PROVE Spec => []IdentityInv  OBVIOUS
<1>2. IdentityInv /\ [Next]_vars => IdentityInv'  BY <1>1
<1> QED  BY <1>2, IdentityInit, PTL DEF Spec

-----------------------------------------------------------------------------
(* What follows from the invariant.                                        *)

\* What a Drone that takes part knows of its binding.
LEMMA ReadyKnows ==
  ASSUME IdentityInv, NEW m \in Machine, Ready(m)
  PROVE  /\ Bound(In(m)) /\ Binding(In(m)) = In(m).binding /\ In(m).binding.inst \in Native[m]
         /\ proc[m].id \notin In(m).binding.retired
<1>1. ProcKnows(In(m), proc[m], Native[m], SoleOn[where[m]])  BY Mine DEF Known
<1>2. proc[m].pc = "serving" /\ proc[m].state = "ready"  BY DEF Ready, Serving, Pc
<1>3. Serves(proc[m])  BY <1>2 DEF Serves, At
<1>4. Bound(In(m)) /\ In(m).binding.inst \in Native[m] /\ proc[m].id \notin In(m).binding.retired
      BY <1>1, <1>2, <1>3 DEF ProcKnows, ServeKnows
<1> QED  BY <1>4 DEF Binding, Bound

\* An installation that a machine may use is at home there, nowhere, or excused.
LEMMA NativeIsHome ==
  ASSUME IdentityInv, NEW m \in Machine, NEW i \in Native[m]
  PROVE  home[i] \in {"nowhere", m} \/ i \in excused
<1>1. where[m] \in Disk  BY Mine
<1> QED  BY <1>1 DEF Native, SoleOn

\* The invariant implies that a ready Drone's installation is at home.
LEMMA StaysHome == IdentityInv => BoundIdentityStaysHome
<1> SUFFICES ASSUME IdentityInv, NEW m \in Machine, Ready(m)
             PROVE  LET i == In(m).binding.inst IN home[i] \in {"nowhere", m} \/ i \in excused
    BY DEF BoundIdentityStaysHome
<1> QED  BY ReadyKnows, NativeIsHome

\* The invariant implies that a ready Drone's id was not retired.
LEMMA StaysRetired == IdentityInv => RetiredIdStaysRetired
BY ReadyKnows DEF RetiredIdStaysRetired

\* The invariant implies that neither trust nor node is another installation's.
LEMMA NothingTaken == IdentityInv => NothingIsInherited
<1> SUFFICES ASSUME IdentityInv PROVE NoInheritedTrust /\ InheritedNodeStaysDown  BY DEF NothingIsInherited
<1>1. ASSUME NEW m \in Machine, Ready(m)
      PROVE  LET inst == In(m).binding.inst
             IN  /\ \A part \in Part : In(m).trust[part] \in {NoToken, inst}
                 /\ In(m).access \in {NoToken, inst}
  <2>1. Bound(In(m))  BY <1>1, ReadyKnows
  <2> QED  BY <2>1, Mine DEF Known, DiskKnows
<1>2. ASSUME NEW m \in Machine, Live(m) PROVE home[In(m).node] \in {"nowhere", m} \/ In(m).node \in excused
  <2>1. DaemonKnows(daemon[m], In(m), Native[m])  BY Mine DEF Known
  <2>2. In(m).node \in Native[m]  BY <1>2, <2>1 DEF Live, DaemonKnows
  <2> QED  BY <2>2, NativeIsHome
<1> QED  BY <1>1, <1>2 DEF NoInheritedTrust, InheritedNodeStaysDown

\* A step of one machine leaves the processes of the others as they are.
LEMMA OneAtATime ==
  ASSUME IdentityInv, NEW m \in Machine, NEW n \in Machine, n # m,
         \/ Start(n) \/ Restart(n) \/ Provisioning(n) \/ Verifying(n) \/ Administration(n)
         \/ PowerOff(n) \/ Damage(n) \/ TailnetService(n) \/ Crash(n) \/ Fail(n)
  PROVE  proc'[m] = proc[m]
<1>1. \A p : Become(n, p) => proc'[m] = proc[m]  BY DEF Become, IdentityInv, Shapes
<1>2. \A s, p : Step(n, s, p) => proc'[m] = proc[m]  BY <1>1 DEF Step
<1>3. \A o, p : Tailnet(n, o, p) => proc'[m] = proc[m]  BY <1>1 DEF Tailnet
<1>4. \A b, p : SaveBinding(n, b, p) => proc'[m] = proc[m]  BY <1>1 DEF SaveBinding
<1>5. CASE Provisioning(n)
      BY <1>1, <1>2, <1>3, <1>4, <1>5
      DEF Provisioning, Validate, Revoke, RecordJournal, Retire, RetireCertificate, RecordRetired, ResetRoster,
          ResetPins, ResetCredentials, Choose, WriteId, RecordId, ResetTailnet, Certify, Bind, Unjournal, Unmark,
          ReplaceKey, ReplaceCertificate
<1>6. CASE Verifying(n)
      BY <1>1, <1>2, <1>3, <1>4, <1>6
      DEF Verifying, Migrate, Adopt, Rebind, Consume, Release, ReleaseNode, Verify, Reissued, Reconcile, Retry,
         Save,
          Discard, Hold, Mark, Failed, Serve, Record
<1>7. CASE Administration(n)
      BY <1>1, <1>2, <1>7
      DEF Administration, Pair, Enroll, Rotate, RotateCertificate, RotateRecord, Authorize, ResolveKeep, ResolveNew
<1>8. CASE Start(n) \/ Restart(n) \/ PowerOff(n) \/ Damage(n) \/ TailnetService(n) \/ Crash(n) \/ Fail(n)
      BY <1>1, <1>8 DEF Start, Restart, PowerOff, Damage, TailnetService, Crash, Fail
<1> QED  BY <1>5, <1>6, <1>7, <1>8

\* Only _ensure_locked takes a process from its judgement to a clone run.
LEMMA OnlyValidationJudges ==
  ASSUME IdentityInv, NEW m \in Machine, Pc(m) = "validate", Pc(m)' = "revoke", Next
  PROVE  Validate(m)
<1> SUFFICES ASSUME ~Validate(m) PROVE FALSE  OBVIOUS
<1>0. \A p : Become(m, p) => proc'[m] = p  BY DEF Become, IdentityInv, Shapes
<1>1. proc'[m] # proc[m]  BY DEF Pc
<1>2. ASSUME Start(m) \/ Restart(m) \/ Provisioning(m) \/ Verifying(m) PROVE FALSE
      BY <1>2
      DEF Start, Restart, Provisioning, Revoke, RecordJournal, Retire, RetireCertificate, RecordRetired,
         ResetRoster,
          ResetPins, ResetCredentials, Choose, WriteId, RecordId, ResetTailnet, Certify, Bind, Unjournal, Unmark,
          ReplaceKey, ReplaceCertificate, Verifying, Migrate, Adopt, Rebind, Consume, Release, ReleaseNode, Verify,
          Reissued, Reconcile, Retry, Save, Discard, Hold, Mark, Failed, Serve, Record
<1>3. ASSUME Administration(m) PROVE FALSE
  <2>1. RotateCertificate(m)
        BY <1>3 DEF Administration, Pair, Ready, Enroll, Rotate, RotateRecord, LockFree, Authorize, ResolveKeep,
                    ResolveNew, Serving
  <2>2. proc'[m] = [proc[m] EXCEPT !.rot = "record"]  BY <1>0, <2>1 DEF RotateCertificate, Step
  <2> QED  BY <2>2 DEF Pc
<1>4. ASSUME Crash(m) \/ Fail(m) PROVE FALSE
  <2>1. /\ Crash(m) => proc'[m] = Off
        /\ Fail(m) => proc'[m] = [Resting(proc[m]) EXCEPT !.state = "held"] \/ proc'[m] = [proc[m] EXCEPT !.pc = "failed"]
        BY <1>0 DEF Crash, Fail
  <2>2. /\ Off.pc = "off" /\ [Resting(proc[m]) EXCEPT !.state = "held"].pc = "serving"
        /\ [proc[m] EXCEPT !.pc = "failed"].pc \in {"failed", proc[m].pc}
        BY DEF Off, Resting
  <2> QED  BY <1>4, <2>1, <2>2 DEF Pc
<1>5. ASSUME NEW n \in Machine, PowerOff(n) \/ Damage(n) \/ TailnetService(n) PROVE FALSE
      BY <1>1, <1>5 DEF PowerOff, Damage, TailnetService
<1>6. ASSUME (\E d \in Disk : Withdraw(d)) \/ (\E d, e \in Disk : Image(d, e)) \/ (\E k, n \in Machine : Move(k, n))
      PROVE  FALSE
      BY <1>1, <1>6 DEF Withdraw, Image, Move
<1>7. ASSUME NEW n \in Machine, n # m,
             \/ Start(n) \/ Restart(n) \/ Provisioning(n) \/ Verifying(n) \/ Administration(n) \/ Crash(n) \/ Fail(n)
      PROVE  FALSE
      BY <1>1, <1>7, OneAtATime
<1> QED  BY <1>2, <1>3, <1>4, <1>5, <1>6, <1>7 DEF Next, World

\* Where it does so without an unfinished run, the hardware on record is not this
\* machine's own.
LEMMA NotReplaced ==
  ASSUME IdentityInv, NEW m \in Machine, Validate(m), Pc(m)' = "revoke", In(m).journal.kind # "ok"
  PROVE  LET inst == In(m).binding.inst IN home[inst] # m \/ inst \in excused
<1> DEFINE s == In(m)
           b == In(m).binding
<1>1. PICK r \in ReadingsOf(m) :
        LET q == [proc[m] EXCEPT !.reading = r]
        IN  Step(m, s, IF s.journal.kind = "corrupt" THEN JudgeUnreadable(s, q)
                       ELSE IF s.journal.kind = "ok" THEN Resume(s, q, FALSE)
                       ELSE IF s.binding.kind # "ok" THEN JudgeUnbound(s, q)
                       ELSE JudgeBound(s, q))
      BY DEF Validate
<1> DEFINE q == [proc[m] EXCEPT !.reading = r]
<1>2. r \in Snapshot /\ PartOf(r.components, Owned[m]) /\ Owned[m] \in Evidence
      BY ReadingsAre, IdentityAssumption
<1>3. Shaped(s, proc[m], Drawn, Owned[m]) /\ DiskKnows(s, SoleOn[where[m]], Rightful)  BY Mine DEF Known
<1>4. q.reading = r /\ q.pc = "validate"  BY <1>2, <1>3 DEF Shaped, ProcShape, Validate, Pc
<1>5. proc'[m] = IF s.journal.kind = "corrupt" THEN JudgeUnreadable(s, q)
                 ELSE IF s.binding.kind # "ok" THEN JudgeUnbound(s, q) ELSE JudgeBound(s, q)
      BY <1>1 DEF Step, Become, IdentityInv, Shapes
<1>6. DOMAIN q = DOMAIN proc[m] /\ "pc" \in DOMAIN q  BY <1>3 DEF Shaped, ProcShape
<1> HIDE DEF q
<1>7. Bound(s) /\ Compare(b.hw, r) = "different"
  <2>1. JudgeUnbound(s, q).pc # "revoke"
        BY <1>6 DEF JudgeUnbound, ToRecovery, ToProvision
  <2>2. JudgeUnreadable(s, q).pc = "revoke" => Bound(s) /\ Compare(b.hw, r) = "different"
        BY <1>4, <1>6 DEF JudgeUnreadable, ToRecovery, ToVerify, Bound, Binding, NoBinding
  <2>3. Bound(s) /\ JudgeBound(s, q).pc = "revoke" => Compare(b.hw, r) = "different"
        BY <1>4, <1>6 DEF JudgeBound, ToRecovery, ToVerify, ToRelease, Bound
  <2> QED  BY <1>5, <2>1, <2>2, <2>3 DEF Pc, Bound
<1>8. b.hw \in Evidence /\ ~NoHardware(s)
  <2>1. b.hw \in Evidence  BY <1>3 DEF Shaped, DiskShape, BindingShape
  <2> QED  BY <1>7, <2>1 DEF NoHardware, Compare
<1>9. b.inst \in excused \/ (home[b.inst] \in Machine /\ PartOf(b.hw, Owned[home[b.inst]]))
  <2>1. <<b.inst, b.hw>> \in Rightful  BY <1>3, <1>7, <1>8 DEF DiskKnows
  <2> QED  BY <2>1 DEF Rightful
<1>10. ASSUME PartOf(b.hw, Owned[m]) PROVE FALSE
       BY <1>2, <1>7, <1>8, <1>10, OwnHardwareIsNeverNew DEF PartOf
<1> QED  BY <1>9, <1>10

-----------------------------------------------------------------------------
(* The theorems.                                                           *)

\* An identity whose hardware was recorded is only used on the machine that recorded
\* it, wherever copies of its disk wake up and at whatever step they were cut off,
\* unless an administrator kept or authorized it or an image spread it before any
\* hardware was recorded (ensure_identity, resolve_recovery); and an id that
\* _provision retired is never presented again, whatever the environment pins or the
\* id file says (_verified, _choose_device_id).
THEOREM IdentitiesHaveOneHome == UniqueHardware => (Spec => []IdentityHasOneHome)
<1>1. IdentityInv => IdentityHasOneHome  BY StaysHome, StaysRetired DEF IdentityHasOneHome
<1> QED  BY <1>1, InvariantHolds, PTL

\* No Drone takes part with the pinned peers, the roster, the credentials or the
\* sessions of another installation, nor is a node online that is not its machine's
\* own (reset_swarm_identity_state, tailnet_start_permitted, the holds).
THEOREM CopiesInheritNothing == UniqueHardware => (Spec => []NothingIsInherited)
BY InvariantHolds, NothingTaken, PTL

\* The machine an identity is bound to never starts a clone run against it: what
\* _ensure_locked compares there are two partial readings of one machine.
THEOREM OriginalsAreNeverReplaced == UniqueHardware => (Spec => OriginalIsNeverReplaced)
<1> DEFINE Kept2 == \A m \in Machine :
             Pc(m) = "validate" /\ Pc(m)' = "revoke" /\ ~proc'[m].resumed /\ In(m).journal.kind # "ok" =>
               LET inst == In(m).binding.inst IN home[inst] # m \/ inst \in excused
<1>1. IdentityInv /\ [Next]_vars => [Kept2]_vars
  <2> SUFFICES ASSUME IdentityInv, Next PROVE Kept2  OBVIOUS
  <2> QED  BY OnlyValidationJudges, NotReplaced
<1> HIDE DEF Kept2
<1>2. UniqueHardware => (Spec => [][Kept2]_vars)  BY <1>1, InvariantHolds, PTL DEF Spec
<1> QED  BY <1>2 DEF OriginalIsNeverReplaced, Kept2
=============================================================================
