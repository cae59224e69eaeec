--------------------------- MODULE DroneIdentity ---------------------------
(***************************************************************************)
(* The clone-safe identity of a Drone: app/common/identity_provisioning.py *)
(* with the node hold of device/tailnet_service.py, the swarm reset and    *)
(* the certificate manager, on several machines whose disks are copied,    *)
(* moved and restarted between any two durable steps.                      *)
(*                                                                         *)
(* Every file write, unlink and database transaction is a step of its own; *)
(* what is only in the memory of the Drone process is in proc[m] and dies  *)
(* with it.  A process works under the provisioning lock from its start    *)
(* until it serves, and again while an administrator's request runs.       *)
(*                                                                         *)
(* A token <<m, n>> is the n-th value drawn at random on machine m: a      *)
(* device id, a key with its certificate, an installation id or an         *)
(* authorization.  Trust, sessions and the Tailscale node carry the        *)
(* installation that acquired them.                                        *)
(***************************************************************************)
EXTENDS HardwareIdentity, FiniteSets

CONSTANTS
  Machine,
  Disk,
  Fitted,       \* the disk each machine is built with
  Installed,    \* the machines whose disk has Batocera on it
  Owned,        \* the identifiers each machine owns
  MaxToken,     \* bound: values a machine draws
  Site          \* the settings in which the Drones are put, see SiteAssumption

NoToken == <<"none", 0>>
Token == Machine \X (0 .. MaxToken)

ASSUME IdentityAssumption ==
  /\ Fitted \in [Machine -> Disk] /\ \A m, n \in Machine : Fitted[m] = Fitted[n] => m = n
  /\ Installed \subseteq Machine /\ Owned \in [Machine -> Evidence]
  /\ {"nowhere", "none"} \cap Machine = {} /\ MaxToken \in Nat

\* image, move, crash, fault, request: bounds on how many disk images, disk
\* moves, crashes, failing steps and administrator's requests there are.
\* tokens: bound on the values a machine draws.  tailscale: it is installed on
\* every disk.  pinned: DRONE_DEVICE_ID of every copy of the disk, or NoToken; it was
\* chosen before anything was drawn.
\* readings: what a hardware reading shows, which kinds and whether they
\* conflict.  legacy: whether a disk may hold an installation without a
\* binding.
ASSUME SiteAssumption ==
  Site \subseteq [image : Nat, move : Nat, crash : Nat, fault : Nat, request : Nat,
                  tokens : 0 .. MaxToken, tailscale : BOOLEAN, pinned : (Machine \X {0}) \cup {NoToken},
                  readings : SUBSET [kinds : SUBSET Kind, ambiguous : BOOLEAN], legacy : SUBSET BOOLEAN]

VARIABLES
  disk,     \* what is on each disk
  where,    \* the disk in each machine
  proc,     \* the Drone process of each machine
  daemon,   \* whether tailscaled runs on each machine
  drawn,    \* how many values each machine has drawn
  site,     \* the setting, with what is left of its bounds
  home,     \* the machine on which an installation first recorded hardware
  excused,  \* what an administrator, or an image of an unbound disk, spread
  rebound   \* how often an authorization has rebound an identity

history == <<home, excused, rebound>>
vars == <<disk, where, proc, daemon, drawn, site, history>>

-----------------------------------------------------------------------------
(* What is on a disk.                                                      *)

NoBinding == [kind |-> "none", inst |-> NoToken, id |-> NoToken, fp |-> NoToken,
              hw |-> NoEvidence, retired |-> {}, pending |-> FALSE]
NoJournal == [kind |-> "none", reason |-> "initial", prevFp |-> NoToken, prevId |-> NoToken,
              hw |-> NoEvidence, retired |-> FALSE, newId |-> NoToken, held |-> FALSE]
NoMarker == [reason |-> "", held |-> FALSE]

\* The inherited trust, cleared part by part.
Part == {"roster", "pins", "credentials"}
TrustOf(inst) == [part \in Part |-> inst]

Blank == [bootable |-> FALSE, binding |-> NoBinding, journal |-> NoJournal, marker |-> NoMarker,
          auth |-> NoToken, key |-> NoToken, crt |-> NoToken, file |-> NoToken,
          trust |-> TrustOf(NoToken), access |-> NoToken, node |-> NoToken, down |-> FALSE]

\* _identity_pair_status
Present(s) == s.key # NoToken \/ s.crt # NoToken
PairFp(s) == IF s.key # NoToken THEN s.crt ELSE NoToken
Valid(s) == s.key # NoToken /\ s.key = s.crt

\* _load_binding: an unusable binding is none, with a problem.
Binding(s) == IF s.binding.kind = "ok" THEN s.binding ELSE NoBinding

\* An installation made before bindings existed, in an image of which nothing
\* would tell two machines apart.
Unprotected(s) == s.journal.kind # "ok" /\ Binding(s).hw = NoEvidence
Spread(s, id) == {Binding(s).inst, Binding(s).id, s.file, s.crt, id} \ {NoToken}

\* Ghost: the trust of an unbound installation is named by its first binding.
Named(s, inst) ==
  [s EXCEPT !.trust = [part \in Part |-> IF s.trust[part] = NoToken THEN NoToken ELSE inst],
            !.access = IF @ = NoToken THEN NoToken ELSE inst,
            !.node = IF @ = NoToken THEN NoToken ELSE inst]

-----------------------------------------------------------------------------
(* The process of a machine.                                               *)

NoPrior == [fp |-> NoToken, id |-> NoToken, retired |-> {}]
PriorOf(b) == [fp |-> b.fp, id |-> b.id, retired |-> b.retired]

NoReading == [components |-> NoEvidence, ambiguous |-> FALSE]

\* pc: the step under way.  next: the step after a generated certificate or a
\* released node.  bound: the binding in memory.  rot: a certificate rotation
\* of an administrator, which runs outside the lock, with the key it drew.
Off == [pc |-> "off", state |-> "off", id |-> NoToken, reading |-> NoReading,
        task |-> "initial", resumed |-> FALSE, admin |-> FALSE, prior |-> NoPrior,
        bound |-> NoBinding, next |-> "off", token |-> NoToken, why |-> "",
        held |-> FALSE, rot |-> "idle", rotToken |-> NoToken]

\* What a Drone still remembers once it serves.
Resting(p) == [Off EXCEPT !.pc = "serving", !.state = p.state, !.id = p.id,
                          !.rot = p.rot, !.rotToken = p.rotToken]

Pc(m) == proc[m].pc
In(m) == disk[where[m]]
Alive(m) == Pc(m) # "off"
Serving(m) == Pc(m) = "serving"
Ready(m) == Serving(m) /\ proc[m].state = "ready"
LockFree(m) == Pc(m) \in {"serving", "restarting"}

\* What collect() may return on machine m.
ReadingsOf(m) ==
  {[components |-> [k \in DOMAIN Owned[m] \cap r.kinds |-> Owned[m][k]], ambiguous |-> r.ambiguous] :
     r \in site.readings}

Draw(m, n) == <<m, drawn[m] + n>>
Drew(m, n) == drawn[m] + n <= site.tokens /\ drawn' = [drawn EXCEPT ![m] = @ + n]
Spend(what) == site[what] > 0 /\ site' = [site EXCEPT ![what] = @ - 1]
Put(m, s) == disk' = [disk EXCEPT ![where[m]] = s]
Become(m, p) == proc' = [proc EXCEPT ![m] = p]

\* A step that changes the disk and the process and nothing else.
Step(m, s, p) ==
  /\ Put(m, s) /\ Become(m, p)
  /\ UNCHANGED <<where, daemon, drawn, site, history>>

Settled(m, b) == home' = IF b.hw # NoEvidence /\ home[b.inst] = "nowhere"
                         THEN [home EXCEPT ![b.inst] = m] ELSE home

\* _save_binding by machine m.
SaveBinding(m, b, p) ==
  /\ Put(m, [In(m) EXCEPT !.binding = b]) /\ Become(m, p) /\ Settled(m, b)
  /\ UNCHANGED <<where, daemon, site, rebound>>

Init ==
  /\ site \in Site
  /\ \E old \in [Machine -> site.legacy] :
       disk = [d \in Disk |->
         IF \E m \in Machine : Fitted[m] = d
         THEN LET m == CHOOSE n \in Machine : Fitted[n] = d
              IN  IF m \notin Installed THEN Blank
                  ELSE IF old[m] THEN [Blank EXCEPT !.bootable = TRUE, !.key = <<m, 0>>, !.crt = <<m, 0>>,
                                               !.file = <<m, 0>>, !.trust = TrustOf(<<m, 0>>),
                                               !.access = <<m, 0>>, !.node = IF site.tailscale THEN <<m, 0>> ELSE NoToken]
                  ELSE [Blank EXCEPT !.bootable = TRUE]
         ELSE Blank]
  /\ where = Fitted
  /\ proc = [m \in Machine |-> Off]
  /\ daemon = [m \in Machine |-> FALSE]
  /\ drawn = [m \in Machine |-> 0]
  /\ home = [i \in Token |-> "nowhere"]
  /\ excused = {}
  /\ rebound = [t \in Token |-> 0]

-----------------------------------------------------------------------------
(* The Tailscale node.                                                     *)

Live(m) == daemon[m] /\ In(m).node # NoToken /\ ~In(m).down

\* hold_local_node on disk state s while the daemon runs or not: `tailscale
\* down` persists, stopping the daemon does not; both may fail.
Holds(s, runs, faulty) ==
  IF ~runs THEN {[disk |-> s, runs |-> FALSE, ok |-> site.tailscale]}
  ELSE {[disk |-> [s EXCEPT !.down = TRUE], runs |-> TRUE, ok |-> TRUE],
        [disk |-> s, runs |-> FALSE, ok |-> TRUE]}
       \cup (IF faulty THEN {[disk |-> s, runs |-> TRUE, ok |-> FALSE]} ELSE {})

\* reset_local_node_identity: the state is removed with the daemon stopped,
\* which the preflight keeps so.  If the daemon or its state resists, the node
\* is held instead.
TailnetResets(s, runs, faulty) ==
  {[disk |-> [s EXCEPT !.node = NoToken, !.down = FALSE], runs |-> FALSE, status |-> "reset"]}
  \cup (IF ~faulty \/ ~site.tailscale THEN {}
        ELSE {[disk |-> s, runs |-> FALSE, status |-> "held"]}
             \cup (IF runs THEN {[disk |-> [s EXCEPT !.down = TRUE], runs |-> TRUE, status |-> "held"]}
                   ELSE {}))

Faulty == site.fault > 0
SpendIf(fault) == IF fault THEN Spend("fault") ELSE UNCHANGED site

Tailnet(m, o, p) ==
  /\ Put(m, o.disk) /\ daemon' = [daemon EXCEPT ![m] = o.runs] /\ Become(m, p)
  /\ UNCHANGED <<where, drawn, history>>

\* Settings.from_env: the pinned id, or the id file, written if it is missing.
WithId(m, s) == IF site.pinned = NoToken /\ s.file = NoToken THEN [s EXCEPT !.file = Draw(m, 1)] ELSE s
IdOf(s) == IF site.pinned # NoToken THEN site.pinned ELSE s.file
DrewId(m, s) == IF WithId(m, s) = s THEN UNCHANGED drawn ELSE Drew(m, 1)

\* Mutant: the preflight is content with any binding.
StartPermittedOnceBound(s, reading) ==
  LET b == Binding(s)
  IN  s.journal.kind = "none" /\ s.marker = NoMarker /\ b.hw # NoEvidence /\ ~b.pending

\* tailnet_start_permitted
StartPermitted(s, reading) ==
  LET b == Binding(s)
  IN  /\ s.journal.kind = "none" /\ s.marker = NoMarker
      /\ b.hw # NoEvidence /\ ~b.pending
      /\ Compare(b.hw, reading) = "same"
      /\ Valid(s) /\ s.crt = b.fp /\ IdOf(s) = b.id

\* The DRONE_TAILNET service is started by the system at boot, at any moment
\* relative to the Drone, and by a serving Drone; it refuses, and stops a
\* running daemon, unless the preflight agrees.
TailnetService(m) ==
  LET s == WithId(m, In(m))
  IN  /\ site.tailscale /\ In(m).bootable
      /\ \E r \in ReadingsOf(m) :
           daemon' = [daemon EXCEPT ![m] = StartPermitted(s, r)]
      /\ Put(m, s) /\ DrewId(m, In(m))
      /\ UNCHANGED <<where, proc, site, history>>

\* enroll_tailnet: a node that is already enrolled is brought back up.
Enroll(m) ==
  /\ Serving(m) /\ daemon[m] /\ Binding(In(m)).kind = "ok"
  /\ Put(m, [In(m) EXCEPT !.node = IF @ = NoToken THEN In(m).binding.inst ELSE @, !.down = FALSE])
  /\ UNCHANGED <<where, proc, daemon, drawn, site, history>>

-----------------------------------------------------------------------------
(* ensure_identity, up to the branch it takes.                             *)

Start(m) ==
  LET s == WithId(m, In(m))
  IN  /\ Pc(m) = "off" /\ s.bootable
      /\ Put(m, s) /\ DrewId(m, In(m))
      /\ Become(m, [Off EXCEPT !.pc = "validate", !.state = "validating", !.id = IdOf(s)])
      /\ UNCHANGED <<where, daemon, site, history>>

ToRecovery(p, why) == [p EXCEPT !.pc = "hold", !.why = why]
ToVerify(p, b) == [p EXCEPT !.pc = "verify", !.bound = b]
ToRelease(p, b) == [p EXCEPT !.pc = "release", !.next = "verify", !.bound = b]
ToProvision(p, task, resumed, prior) ==
  [p EXCEPT !.pc = IF task = "initial" THEN "journal" ELSE "revoke",
            !.task = task, !.resumed = resumed, !.prior = prior]

\* Mutant: an unfinished run is resumed on whatever machine it wakes up.
ResumeAnywhere(s, p, replace) == ToProvision(p, s.journal.reason, TRUE, PriorOf(Binding(s)))

\* Mutant: the unfinished run of another machine waits for an administrator.
ResumeAtHome(s, p, replace) ==
  IF Compare(s.journal.hw, p.reading) = "same"
  THEN ToProvision(p, s.journal.reason, TRUE, PriorOf(Binding(s)))
  ELSE ToRecovery(p, "journal_hardware_unverified")

\* _resume_journal
Resume(s, p, replace) ==
  LET verdict == Compare(s.journal.hw, p.reading)
      prior == [fp |-> IF PairFp(s) # NoToken THEN PairFp(s) ELSE s.journal.prevFp,
                id |-> p.id,
                retired |-> Binding(s).retired \cup ({s.journal.prevId, s.journal.newId} \ {NoToken})]
  IN  IF verdict = "same" THEN ToProvision(p, s.journal.reason, TRUE, PriorOf(Binding(s)))
      ELSE IF verdict = "different" \/ s.journal.hw = NoEvidence \/ replace
      THEN ToProvision(p, "clone", FALSE, prior)
      ELSE ToRecovery(p, "journal_hardware_unverified")

\* An unreadable journal says nothing: the binding and the hardware decide.
JudgeUnreadable(s, p) ==
  LET b == Binding(s)
      verdict == Compare(b.hw, p.reading)
  IN  IF b.kind = "none" THEN ToRecovery(p, "journal_unreadable")
      ELSE IF verdict = "different" THEN ToProvision(p, "clone", FALSE, PriorOf(b))
      ELSE IF verdict = "same" /\ Valid(s) /\ s.crt = b.fp /\ p.id = b.id THEN ToVerify(p, b)
      ELSE ToRecovery(p, "journal_unreadable")

\* No binding: a first boot, or an installation that predates bindings.
JudgeUnbound(s, p) ==
  IF s.binding.kind = "corrupt" THEN ToRecovery(p, "binding_invalid")
  ELSE IF ~Present(s) THEN ToProvision(p, "initial", FALSE, NoPrior)
  ELSE IF Valid(s) THEN [p EXCEPT !.pc = "migrate"]
  ELSE [p EXCEPT !.pc = "generate", !.next = "migrate"]

\* Mutant: an authorization is used by a reading that decides nothing.
JudgeBoundLax(s, p) ==
  LET b == s.binding
      verdict == Compare(b.hw, p.reading)
  IN  IF b.hw = NoEvidence THEN IF verdict = "baseline" THEN [p EXCEPT !.pc = "adopt", !.bound = b] ELSE ToVerify(p, b)
      ELSE IF verdict # "different" THEN ToRelease(p, b)
      ELSE IF s.auth # NoToken THEN [p EXCEPT !.pc = "rebind", !.bound = b]
      ELSE ToProvision(p, "clone", FALSE, PriorOf(b))

\* Mutant: evidence that cannot be compared is taken for another machine.
JudgeBoundEager(s, p) ==
  LET b == s.binding
  IN  IF b.hw # NoEvidence /\ Compare(b.hw, p.reading) # "same"
      THEN ToProvision(p, "clone", FALSE, PriorOf(b)) ELSE ToRelease(p, b)

JudgeBound(s, p) ==
  LET b == s.binding
      verdict == Compare(b.hw, p.reading)
  IN  IF b.hw = NoEvidence
      THEN IF verdict = "baseline" THEN [p EXCEPT !.pc = "adopt", !.bound = b] ELSE ToVerify(p, b)
      ELSE IF verdict = "same" THEN ToRelease(p, b)
      ELSE IF verdict = "different" /\ s.auth # NoToken
      THEN IF Valid(s) /\ s.crt = b.fp THEN [p EXCEPT !.pc = "rebind", !.bound = b]
           ELSE ToRecovery(p, IF Valid(s) THEN "certificate_mismatch" ELSE "certificate_invalid")
      ELSE IF verdict = "different" THEN ToProvision(p, "clone", FALSE, PriorOf(b))
      ELSE ToRecovery(p, verdict)

\* _ensure_locked
Validate(m) ==
  /\ Pc(m) = "validate"
  /\ \E r \in ReadingsOf(m) :
       LET p == [proc[m] EXCEPT !.reading = r]
           s == In(m)
       IN  Step(m, s, IF s.journal.kind = "corrupt" THEN JudgeUnreadable(s, p)
                      ELSE IF s.journal.kind = "ok" THEN Resume(s, p, FALSE)
                      ELSE IF s.binding.kind # "ok" THEN JudgeUnbound(s, p)
                      ELSE JudgeBound(s, p))

-----------------------------------------------------------------------------
(* _provision.                                                             *)

Destructive(p) == p.task # "initial"

\* _revoke_inherited_access: sessions and bearers, best effort.
Revoke(m) ==
  /\ Pc(m) = "revoke"
  /\ \E failed \in {FALSE, Faulty} :
       /\ Put(m, IF failed THEN In(m) ELSE [In(m) EXCEPT !.access = NoToken])
       /\ SpendIf(failed)
  /\ Become(m, [proc[m] EXCEPT !.pc = "journal"])
  /\ UNCHANGED <<where, daemon, drawn, history>>

RecordJournal(m) ==
  LET p == proc[m]
      j == [kind |-> "ok", reason |-> p.task,
            prevFp |-> IF p.prior.fp # NoToken THEN p.prior.fp ELSE PairFp(In(m)),
            prevId |-> IF p.prior.id # NoToken THEN p.prior.id ELSE p.id,
            hw |-> p.reading.components, retired |-> FALSE, newId |-> NoToken, held |-> FALSE]
  IN  /\ Pc(m) = "journal"
      /\ Step(m, IF p.resumed THEN In(m) ELSE [In(m) EXCEPT !.journal = j],
              [p EXCEPT !.pc = IF Destructive(p) THEN "retire" ELSE "certify",
                        !.id = IF p.resumed /\ ~Destructive(p) /\ In(m).journal.newId # NoToken
                               THEN In(m).journal.newId ELSE @])

\* _retire_old_identity: on a resumed run a valid pair other than the
\* inherited one is the identity an earlier attempt made.
MustRetire(s) ==
  Present(s) /\ (~s.journal.retired \/ ~Valid(s) \/ PairFp(s) = s.journal.prevFp)

Retire(m) ==
  /\ Pc(m) = "retire"
  /\ IF MustRetire(In(m))
     THEN Step(m, [In(m) EXCEPT !.key = NoToken], [proc[m] EXCEPT !.pc = "retireCertificate"])
     ELSE Step(m, In(m), [proc[m] EXCEPT !.pc = "retired"])

RetireCertificate(m) ==
  /\ Pc(m) = "retireCertificate"
  /\ Step(m, [In(m) EXCEPT !.crt = NoToken], [proc[m] EXCEPT !.pc = "retired"])

\* Mutant: a resumed run takes the swarm reset for done.
RecordRetiredOnce(m) ==
  /\ Pc(m) = "retired"
  /\ Step(m, [In(m) EXCEPT !.journal.retired = TRUE],
          [proc[m] EXCEPT !.pc = IF proc[m].resumed THEN "choose" ELSE "resetRoster"])

RecordRetired(m) ==
  /\ Pc(m) = "retired"
  /\ Step(m, [In(m) EXCEPT !.journal.retired = TRUE], [proc[m] EXCEPT !.pc = "resetRoster"])

\* reset_swarm_identity_state: the database in one transaction, then the
\* pinned certificates, then the credentials of the old swarm.
ResetRoster(m) ==
  /\ Pc(m) = "resetRoster"
  /\ Step(m, [In(m) EXCEPT !.trust["roster"] = NoToken, !.access = NoToken],
          [proc[m] EXCEPT !.pc = "resetPins"])

ResetPins(m) ==
  /\ Pc(m) = "resetPins"
  /\ Step(m, [In(m) EXCEPT !.trust["pins"] = NoToken], [proc[m] EXCEPT !.pc = "resetCredentials"])

ResetCredentials(m) ==
  /\ Pc(m) = "resetCredentials"
  /\ Step(m, [In(m) EXCEPT !.trust["credentials"] = NoToken], [proc[m] EXCEPT !.pc = "choose"])

\* _choose_device_id: the journaled id, or the old file unlinked and a fresh
\* id written, whether or not the write succeeds.
Choose(m) ==
  LET id == In(m).journal.newId
  IN  /\ Pc(m) = "choose"
      /\ IF id # NoToken
         THEN Step(m, In(m), [proc[m] EXCEPT !.id = id, !.pc = "resetTailnet"])
         ELSE Step(m, [In(m) EXCEPT !.file = NoToken], [proc[m] EXCEPT !.pc = "writeId"])

WriteId(m) ==
  /\ Pc(m) = "writeId" /\ Drew(m, 1)
  /\ \E failed \in {FALSE, Faulty} :
       /\ Put(m, IF failed THEN In(m) ELSE [In(m) EXCEPT !.file = Draw(m, 1)])
       /\ SpendIf(failed)
  /\ Become(m, [proc[m] EXCEPT !.token = Draw(m, 1), !.pc = "recordId"])
  /\ UNCHANGED <<where, daemon, history>>

RecordId(m) ==
  /\ Pc(m) = "recordId"
  /\ Step(m, [In(m) EXCEPT !.journal.newId = proc[m].token],
          [proc[m] EXCEPT !.id = proc[m].token, !.pc = "resetTailnet"])

\* The node is reset or held, and the journal says which.  A crash between
\* the two leaves what a repetition of the step finds anyway.
ResetTailnet(m) ==
  /\ Pc(m) = "resetTailnet"
  /\ \E o \in TailnetResets(In(m), daemon[m], Faulty) :
       /\ Tailnet(m, [o EXCEPT !.disk.journal.held = o.status = "held"],
                  [proc[m] EXCEPT !.pc = "certify"])
       /\ SpendIf(o.status # "reset")

Certify(m) ==
  /\ Pc(m) = "certify"
  /\ Step(m, In(m),
       IF Valid(In(m)) /\ ~(Destructive(proc[m]) /\ PairFp(In(m)) = In(m).journal.prevFp)
       THEN [proc[m] EXCEPT !.pc = "bind"]
       ELSE [proc[m] EXCEPT !.pc = "generate", !.next = "bind"])

\* The identity is only recorded with a usable pair that is not the old one.
Bind(m) ==
  LET p == proc[m]
      j == In(m).journal
      b == [kind |-> "ok", inst |-> Draw(m, 1), id |-> p.id, fp |-> In(m).crt,
            hw |-> p.reading.components,
            retired |-> p.prior.retired \cup
              (IF Destructive(p) /\ j.prevId # p.id THEN {j.prevId} \ {NoToken} ELSE {}),
            pending |-> j.held]
  IN  /\ Pc(m) = "bind" /\ Valid(In(m)) /\ ~(Destructive(p) /\ In(m).crt = j.prevFp)
      /\ Drew(m, 1)
      /\ SaveBinding(m, b, [p EXCEPT !.pc = "unjournal"])
      /\ UNCHANGED excused

Unjournal(m) ==
  /\ Pc(m) = "unjournal"
  /\ Step(m, [In(m) EXCEPT !.journal = NoJournal], [proc[m] EXCEPT !.pc = "unmark"])

\* An administrator's request publishes READY at once and the process is replaced
\* about a second later; here the restart follows without that second.
Finished(p) == IF p.admin THEN [p EXCEPT !.pc = "restarting"] ELSE [p EXCEPT !.pc = "serve", !.state = "ready"]

Unmark(m) ==
  /\ Pc(m) = "unmark"
  /\ Step(m, [In(m) EXCEPT !.marker = NoMarker], Finished(proc[m]))

-----------------------------------------------------------------------------
(* _generate_local_certificate: two renames.                               *)

ReplaceKey(m) ==
  /\ Pc(m) = "generate" /\ Drew(m, 1)
  /\ Put(m, [In(m) EXCEPT !.key = Draw(m, 1)])
  /\ Become(m, [proc[m] EXCEPT !.token = Draw(m, 1), !.pc = "certificate"])
  /\ UNCHANGED <<where, daemon, site, history>>

ReplaceCertificate(m) ==
  /\ Pc(m) = "certificate"
  /\ Step(m, [In(m) EXCEPT !.crt = proc[m].token], [proc[m] EXCEPT !.pc = proc[m].next])

-----------------------------------------------------------------------------
(* The other branches of _ensure_locked.                                   *)

\* _migrate_existing
Migrate(m) ==
  LET p == proc[m]
      b == [NoBinding EXCEPT !.kind = "ok", !.inst = Draw(m, 1), !.id = p.id, !.fp = In(m).crt,
                             !.hw = p.reading.components]
  IN  /\ Pc(m) = "migrate" /\ Valid(In(m)) /\ Drew(m, 1)
      /\ Put(m, [Named(In(m), b.inst) EXCEPT !.binding = b])
      /\ Become(m, [p EXCEPT !.pc = "serve", !.state = "ready"]) /\ Settled(m, b)
      /\ UNCHANGED <<where, daemon, site, excused, rebound>>

\* _adopt_baseline
Adopt(m) ==
  LET b == [proc[m].bound EXCEPT !.hw = proc[m].reading.components]
  IN  /\ Pc(m) = "adopt"
      /\ SaveBinding(m, b, ToVerify(proc[m], b))
      /\ UNCHANGED <<drawn, excused>>

\* _rebind_authorized: the binding is saved, then the authorization unlinked.
Rebind(m) ==
  LET b == [proc[m].bound EXCEPT !.hw = proc[m].reading.components]
  IN  /\ Pc(m) = "rebind"
      /\ Put(m, [In(m) EXCEPT !.binding = b])
      /\ Become(m, [proc[m] EXCEPT !.bound = b, !.pc = "consume"])
      /\ excused' = IF In(m).auth = NoToken THEN excused ELSE excused \cup Spread(In(m), proc[m].id)
      /\ rebound' = [rebound EXCEPT ![In(m).auth] = @ + 1]
      /\ UNCHANGED <<where, daemon, drawn, site, home>>

Consume(m) ==
  /\ Pc(m) = "consume"
  /\ Step(m, [In(m) EXCEPT !.auth = NoToken], ToRelease(proc[m], proc[m].bound))

\* _release_after_recovery: the marker goes first, then a held node is
\* brought up, which takes a running daemon.
Release(m) ==
  /\ Pc(m) = "release"
  /\ Step(m, [In(m) EXCEPT !.marker = NoMarker],
          [proc[m] EXCEPT !.pc = IF In(m).marker.held THEN "up" ELSE proc[m].next])

ReleaseNode(m) ==
  /\ Pc(m) = "up"
  /\ \E failed \in {~daemon[m], ~daemon[m] \/ Faulty} :
       /\ Put(m, IF failed THEN In(m) ELSE [In(m) EXCEPT !.down = FALSE])
       /\ SpendIf(failed /\ daemon[m])
  /\ Become(m, [proc[m] EXCEPT !.pc = proc[m].next])
  /\ UNCHANGED <<where, daemon, drawn, history>>

\* _verified: a valid certificate must be the recorded one, an unusable one is
\* issued again.
Verify(m) ==
  /\ Pc(m) = "verify"
  /\ Step(m, In(m),
       IF ~Valid(In(m)) THEN [proc[m] EXCEPT !.pc = "generate", !.next = "reissued"]
       ELSE IF In(m).crt # proc[m].bound.fp THEN ToRecovery(proc[m], "certificate_mismatch")
       ELSE [proc[m] EXCEPT !.pc = "reconcile"])

Reissued(m) ==
  /\ Pc(m) = "reissued" /\ Valid(In(m))
  /\ Step(m, In(m), [proc[m] EXCEPT !.bound.fp = In(m).crt, !.pc = "reconcile"])

\* Mutant: the environment may pin any id, a retired one included.
ReconcilePinned(m) ==
  LET p == proc[m]
      b == IF site.pinned # NoToken THEN [p.bound EXCEPT !.id = p.id] ELSE p.bound
  IN  /\ Pc(m) = "reconcile"
      /\ Step(m, IF b.id = p.id THEN In(m) ELSE [In(m) EXCEPT !.file = b.id],
              [p EXCEPT !.bound = b, !.id = b.id, !.pc = IF b.pending THEN "retry" ELSE "save"])

\* The binding is the source of truth for the device id, unless the
\* environment pins another one that was never retired.
Reconcile(m) ==
  LET p == proc[m]
      pinned == p.bound.id # p.id /\ site.pinned # NoToken /\ p.id \notin p.bound.retired
      b == IF pinned THEN [p.bound EXCEPT !.id = p.id] ELSE p.bound
  IN  /\ Pc(m) = "reconcile"
      /\ \E failed \in {FALSE, b.id # p.id /\ Faulty} :
           /\ Put(m, IF b.id = p.id \/ failed THEN In(m) ELSE [In(m) EXCEPT !.file = b.id])
           /\ SpendIf(failed)
      /\ Become(m, [p EXCEPT !.bound = b, !.id = b.id, !.pc = IF b.pending THEN "retry" ELSE "save"])
      /\ UNCHANGED <<where, daemon, drawn, history>>

\* A reset that was put off is tried again.
Retry(m) ==
  /\ Pc(m) = "retry"
  /\ \/ \E o \in TailnetResets(In(m), daemon[m], Faulty) :
          /\ Tailnet(m, o, [proc[m] EXCEPT !.pc = "save", !.bound.pending = o.status # "reset"])
          /\ SpendIf(o.status # "reset")
     \/ /\ daemon[m] /\ Spend("fault")
        /\ Become(m, ToRecovery(proc[m], "tailnet_reset_failed"))
        /\ UNCHANGED <<disk, where, daemon, drawn, history>>

\* The verified binding is written if it changed, and a damaged journal
\* beside it is dropped.
Save(m) ==
  /\ Pc(m) = "save"
  /\ SaveBinding(m, proc[m].bound,
       [proc[m] EXCEPT !.state = "ready",
                       !.pc = IF In(m).journal.kind = "corrupt" THEN "discard" ELSE "serve"])
  /\ UNCHANGED <<drawn, excused>>

Discard(m) ==
  /\ Pc(m) = "discard"
  /\ Step(m, [In(m) EXCEPT !.journal = NoJournal], [proc[m] EXCEPT !.pc = "serve"])

\* _enter_recovery
Hold(m) ==
  /\ Pc(m) = "hold"
  /\ \E o \in Holds(In(m), daemon[m], Faulty) :
       /\ Tailnet(m, o, [proc[m] EXCEPT !.held = o.ok, !.pc = "mark"])
       /\ SpendIf(~o.ok /\ site.tailscale)

Mark(m) ==
  /\ Pc(m) = "mark"
  /\ Step(m, [In(m) EXCEPT !.marker = [reason |-> proc[m].why, held |-> proc[m].held \/ In(m).marker.held]],
          [proc[m] EXCEPT !.state = "held", !.pc = "serve"])

-----------------------------------------------------------------------------
(* Failures.                                                               *)

Fallible == {"validate", "journal", "retire", "retireCertificate", "retired", "resetRoster",
             "resetPins", "resetCredentials", "choose", "recordId", "resetTailnet", "generate",
             "certificate", "bind", "unjournal", "unmark", "migrate", "adopt", "rebind", "consume",
             "release", "reissued", "save", "discard", "mark"}

\* An exception ends ensure_identity, which leaves a marker if it can; that of
\* an administrator's request leaves the Drone held as it was.
Fail(m) ==
  /\ Pc(m) \in Fallible /\ proc[m].next # "record"
  /\ \/ Spend("fault")
     \/ Pc(m) \in {"bind", "migrate", "reissued"} /\ ~Valid(In(m)) /\ UNCHANGED site
  /\ IF proc[m].admin
     THEN Become(m, [Resting(proc[m]) EXCEPT !.state = "held"]) /\ UNCHANGED disk
     ELSE /\ Become(m, [proc[m] EXCEPT !.pc = "failed"])
          /\ \E marker \in {In(m).marker, [reason |-> "provisioning_failed", held |-> FALSE]} :
               Put(m, [In(m) EXCEPT !.marker = marker])
  /\ UNCHANGED <<where, daemon, drawn, history>>

\* What is known to be a clone keeps neither its sessions nor its node; a
\* damaged journal may still say so.
Inherited(s) ==
  IF s.journal.kind = "corrupt" THEN BOOLEAN ELSE {s.journal.kind = "ok" /\ s.journal.reason # "initial"}

Failed(m) ==
  LET p == [proc[m] EXCEPT !.state = "held", !.pc = "serve"]
  IN  /\ Pc(m) = "failed"
      /\ \E inherited \in Inherited(In(m)) :
           IF inherited
           THEN \E o \in Holds([In(m) EXCEPT !.access = NoToken], daemon[m], Faulty) :
                  Tailnet(m, o, p) /\ SpendIf(~o.ok /\ site.tailscale)
           ELSE Step(m, In(m), p)

\* The process dies; the daemon and the disk stay as they are.
Crash(m) ==
  /\ Alive(m) /\ Spend("crash")
  /\ Become(m, Off)
  /\ UNCHANGED <<disk, where, daemon, drawn, history>>

-----------------------------------------------------------------------------
(* create_server and the running Drone.                                    *)

\* ensure_certificate, held or not: a missing certificate is issued and
\* recorded in whatever binding there is.
Serve(m) ==
  /\ Pc(m) = "serve"
  /\ Step(m, In(m), IF In(m).key # NoToken /\ In(m).crt # NoToken THEN Resting(proc[m])
                    ELSE [proc[m] EXCEPT !.pc = "generate", !.next = "record"])

\* record_certificate_rotation
Recorded(s) ==
  IF s.binding.kind = "ok" /\ Valid(s) THEN [s EXCEPT !.binding.fp = s.crt] ELSE s

Record(m) ==
  /\ Pc(m) = "record"
  /\ Step(m, Recorded(In(m)), Resting(proc[m]))

\* The Drone pairs and its administrator logs in.
Pair(m) ==
  /\ Ready(m) /\ Binding(In(m)).kind = "ok"
  /\ LET inst == In(m).binding.inst
     IN  Step(m, [In(m) EXCEPT !.trust = TrustOf(inst), !.access = inst], proc[m])

Rotate(m) ==
  /\ Serving(m) /\ proc[m].rot = "idle" /\ Spend("request") /\ Drew(m, 1)
  /\ Put(m, [In(m) EXCEPT !.key = Draw(m, 1)])
  /\ Become(m, [proc[m] EXCEPT !.rot = "certificate", !.rotToken = Draw(m, 1)])
  /\ UNCHANGED <<where, daemon, history>>

RotateCertificate(m) ==
  /\ proc[m].rot = "certificate"
  /\ Step(m, [In(m) EXCEPT !.crt = proc[m].rotToken], [proc[m] EXCEPT !.rot = "record"])

RotateRecord(m) ==
  /\ proc[m].rot = "record" /\ LockFree(m)
  /\ Step(m, Recorded(In(m)), [proc[m] EXCEPT !.rot = "idle"])

\* authorize_hardware_change; cancelled, or expired, whatever the disk is in.
Authorize(m) ==
  /\ Serving(m) /\ Spend("request") /\ Drew(m, 1)
  /\ Put(m, [In(m) EXCEPT !.auth = Draw(m, 1)])
  /\ UNCHANGED <<where, proc, daemon, history>>

Withdraw(d) ==
  /\ disk[d].auth # NoToken
  /\ \A m \in Machine : where[m] = d => Pc(m) \in {"off", "serving"}
  /\ disk' = [disk EXCEPT ![d].auth = NoToken]
  /\ UNCHANGED <<where, proc, daemon, drawn, site, history>>

\* The binding of an identity kept by the administrator.
Kept(b, reading, fp, id, inst) ==
  IF b.kind = "ok" THEN [b EXCEPT !.hw = IF Usable(reading) THEN reading.components ELSE @, !.fp = fp]
  ELSE [NoBinding EXCEPT !.kind = "ok", !.inst = inst, !.id = id, !.fp = fp, !.hw = reading.components]

\* resolve_recovery("keep"): never while a provisioning is unfinished, nor
\* without a usable pair.
ResolveKeep(m) ==
  LET s == In(m)
      p == proc[m]
  IN  /\ Serving(m) /\ Spend("request")
      /\ s.marker.reason \notin {"", "provisioning_failed", "journal_hardware_unverified"}
      /\ s.journal.kind # "ok" /\ Valid(s)
      /\ IF Binding(s).kind = "ok" THEN UNCHANGED drawn ELSE Drew(m, 1)
      /\ \E r \in ReadingsOf(m) :
           LET b == Kept(Binding(s), r, s.crt, p.id, Draw(m, 1))
           IN  /\ Put(m, [(IF Binding(s).kind = "ok" THEN s ELSE Named(s, b.inst)) EXCEPT !.binding = b])
               /\ Settled(m, b)
      /\ excused' = excused \cup Spread(s, p.id)
      /\ Become(m, [p EXCEPT !.pc = "release", !.next = "restarting", !.admin = TRUE])
      /\ UNCHANGED <<where, daemon, rebound>>

\* resolve_recovery("new"), with or without a recovery pending.
ResolveNew(m) ==
  /\ Serving(m) /\ Spend("request")
  /\ \E r \in ReadingsOf(m) :
       LET p == [proc[m] EXCEPT !.reading = r, !.admin = TRUE]
       IN  Become(m, IF In(m).journal.kind = "ok" THEN Resume(In(m), p, TRUE)
                     ELSE ToProvision(p, "operator_new_identity", FALSE, PriorOf(Binding(In(m)))))
  /\ UNCHANGED <<disk, where, daemon, drawn, history>>

\* The Drone restarts after a decision, and at any time.
Restart(m) ==
  /\ Pc(m) \in {"serving", "restarting"} /\ proc[m].rot = "idle"
  /\ Become(m, Off)
  /\ UNCHANGED <<disk, where, daemon, drawn, site, history>>

-----------------------------------------------------------------------------
(* The world.                                                              *)

PowerOff(m) ==
  /\ Pc(m) = "off" /\ daemon[m]
  /\ daemon' = [daemon EXCEPT ![m] = FALSE]
  /\ UNCHANGED <<disk, where, proc, drawn, site, history>>

Cold(m) == Pc(m) = "off" /\ ~daemon[m]

\* A disk is imaged, running or not, onto one that is not in use.
Image(from, to) ==
  /\ from # to /\ disk[from].bootable /\ Spend("image")
  /\ \A m \in Machine : where[m] = to => Cold(m)
  /\ disk' = [disk EXCEPT ![to] = disk[from]]
  /\ excused' = IF Unprotected(disk[from]) THEN excused \cup Spread(disk[from], IdOf(disk[from])) ELSE excused
  /\ UNCHANGED <<where, proc, daemon, drawn, home, rebound>>

\* Two machines swap disks.
Move(m, n) ==
  /\ m # n /\ Cold(m) /\ Cold(n) /\ Spend("move")
  /\ where' = [where EXCEPT ![m] = where[n], ![n] = where[m]]
  /\ UNCHANGED <<disk, proc, daemon, drawn, history>>

\* A file is damaged while the machine is off.
Damage(m) ==
  /\ Cold(m) /\ In(m).bootable /\ Spend("fault")
  /\ \/ Put(m, [In(m) EXCEPT !.journal = [NoJournal EXCEPT !.kind = "corrupt"]])
     \/ In(m).binding.kind = "ok" /\ Put(m, [In(m) EXCEPT !.binding = [NoBinding EXCEPT !.kind = "corrupt"]])
  /\ UNCHANGED <<where, proc, daemon, drawn, history>>

Provisioning(m) ==
  \/ Validate(m) \/ Revoke(m) \/ RecordJournal(m) \/ Retire(m) \/ RetireCertificate(m)
  \/ RecordRetired(m) \/ ResetRoster(m) \/ ResetPins(m) \/ ResetCredentials(m)
  \/ Choose(m) \/ WriteId(m) \/ RecordId(m) \/ ResetTailnet(m) \/ Certify(m) \/ Bind(m)
  \/ Unjournal(m) \/ Unmark(m) \/ ReplaceKey(m) \/ ReplaceCertificate(m)

Verifying(m) ==
  \/ Migrate(m) \/ Adopt(m) \/ Rebind(m) \/ Consume(m) \/ Release(m) \/ ReleaseNode(m)
  \/ Verify(m) \/ Reissued(m) \/ Reconcile(m) \/ Retry(m) \/ Save(m) \/ Discard(m)
  \/ Hold(m) \/ Mark(m) \/ Failed(m) \/ Serve(m) \/ Record(m)

Administration(m) ==
  \/ Pair(m) \/ Enroll(m) \/ Rotate(m) \/ RotateCertificate(m) \/ RotateRecord(m)
  \/ Authorize(m) \/ ResolveKeep(m) \/ ResolveNew(m)

World ==
  \/ \E m \in Machine : PowerOff(m) \/ Damage(m) \/ TailnetService(m) \/ Crash(m) \/ Fail(m)
  \/ \E d \in Disk : Withdraw(d)
  \/ \E d, e \in Disk : Image(d, e)
  \/ \E m, n \in Machine : Move(m, n)

Next ==
  \/ \E m \in Machine : Start(m) \/ Restart(m) \/ Provisioning(m) \/ Verifying(m) \/ Administration(m)
  \/ World

Spec == Init /\ [][Next]_vars

\* A machine with a system on its disk is switched on sooner or later, and
\* what its Drone has begun goes on unless it crashes.
FairSpec ==
  Spec /\ \A m \in Machine : WF_vars(Start(m)) /\ WF_vars(Provisioning(m) \/ Verifying(m))

-----------------------------------------------------------------------------
(* Properties.                                                             *)

\* The shapes of the disks; a usable binding names an installation, a device
\* id and a certificate (_load_binding refuses any other).
TypeOK ==
  /\ where \in [Machine -> Disk] /\ daemon \in [Machine -> BOOLEAN]
  /\ drawn \in [Machine -> 0 .. MaxToken]
  /\ home \in [Token -> Machine \cup {"nowhere"}]
  /\ \A d \in Disk :
       /\ disk[d].journal.kind \in {"none", "ok", "corrupt"}
       /\ {disk[d].key, disk[d].crt, disk[d].file, disk[d].auth, disk[d].node} \subseteq Token \cup {NoToken}
       /\ disk[d].binding.kind = "ok" =>
            {disk[d].binding.inst, disk[d].binding.id, disk[d].binding.fp} \subseteq Token

\* An identity whose hardware was recorded is only ever used on the machine
\* that recorded it: whatever copy of its disk wakes up elsewhere, at whatever
\* step its provisioning was cut off, becomes another Drone or is held.
\* Excepted is what an administrator kept or authorized, and what was imaged
\* before any hardware was recorded.
BoundIdentityStaysHome ==
  \A m \in Machine :
    Ready(m) /\ Binding(In(m)).kind = "ok" =>
      LET inst == In(m).binding.inst IN home[inst] \in {"nowhere", m} \/ inst \in excused

\* Two Drones that take part in a swarm never present the same certificate or
\* the same device id, unless an administrator kept or an image spread it
\* before any hardware was recorded. (The certificate half is about one image
\* at a time: two images and two failing steps break it.)
NoSharedIdentity ==
  \A m, n \in Machine :
    m # n /\ Ready(m) /\ Ready(n) =>
      /\ In(m).crt # In(n).crt \/ In(m).crt \in excused
      /\ proc[m].id # proc[n].id \/ proc[m].id \in excused

\* No Drone takes part with the trust of another installation: pinned peers,
\* roster, imported credentials and sessions are its own or gone.
NoInheritedTrust ==
  \A m \in Machine :
    Ready(m) /\ Binding(In(m)).kind = "ok" =>
      LET inst == In(m).binding.inst
      IN  /\ \A part \in Part : In(m).trust[part] \in {NoToken, inst}
          /\ In(m).access \in {NoToken, inst}

\* A device id that was retired is not presented again, whatever the
\* environment or the id file says.
RetiredIdStaysRetired ==
  \A m \in Machine : Ready(m) => proc[m].id \notin Binding(In(m)).retired

\* A Tailscale node is only online on the machine its installation is bound to.
InheritedNodeStaysDown ==
  \A m \in Machine :
    Live(m) => home[In(m).node] \in {"nowhere", m} \/ In(m).node \in excused

\* One identity, one Drone: it stays where its hardware was recorded, and an id
\* that was retired does not come back.
IdentityHasOneHome == BoundIdentityStaysHome /\ RetiredIdStaysRetired

\* A copy takes nothing along: neither the trust of the installation it was
\* copied from, nor its node on the tailnet.
NothingIsInherited == NoInheritedTrust /\ InheritedNodeStaysDown

\* The machine an identity is bound to never replaces it by itself: a clone
\* run begins there only for an unfinished run of another machine.
OriginalIsNeverReplaced ==
  [][\A m \in Machine :
       Pc(m) = "validate" /\ Pc(m)' = "revoke" /\ ~proc'[m].resumed /\ In(m).journal.kind # "ok" =>
         LET inst == In(m).binding.inst IN home[inst] # m \/ inst \in excused]_vars

\* Whatever step a provisioning was cut off at, and on whatever machine the
\* disk wakes up with readable hardware, the Drone comes to take part.
InterruptedProvisioningFinishes ==
  \A m \in Machine : In(m).bootable ~> (Ready(m) \/ ~In(m).bootable)

\* An authorized hardware change keeps the identity through one change: TLC
\* refutes it in the setting Authorized of MCDroneIdentity, so no run has it.
AuthorizationUsedOnce == \A t \in Token : rebound[t] <= 1

\* A node that was held for a recovery is back once its Drone is verified.
HeldNodeIsReleased ==
  \A m \in Machine :
    Ready(m) /\ daemon[m] /\ In(m).node # NoToken /\ Binding(In(m)).hw # NoEvidence
      /\ ~In(m).binding.pending /\ In(m).node = In(m).binding.inst => ~In(m).down
=============================================================================
