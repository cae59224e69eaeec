----------------------------- MODULE PortsOperations -----------------------------
(***************************************************************************)
(* The other screens of the Ports client: the shell with its sections, the *)
(* operations of the VPN, backup and swarm screens, each on the screen's   *)
(* one worker thread and followed by a look at what came of it, the pop-ups*)
(* that ask before something is overwritten, and the threads that probe    *)
(* the peers of the overview (src/ports-client/ui).                        *)
(***************************************************************************)
EXTENDS Naturals, FiniteSets

CONSTANTS
  Peer,
  Backup,
  OperationBounds  \* how many presses, probes, failures...; see OperationInit

VARIABLES
  section,         \* the section that is being drawn
  entered,         \* those that were loaded once
  entering,        \* the shell's own action: a section's first load
  work,            \* the action of each screen's worker
  question,        \* the pop-up of each screen
  drone,           \* what the Drone has: VPN, references, backups, memberships
  shown,           \* what the screens were told of it
  peers,           \* the rows of the overview
  probes,          \* the threads that probe them
  generation,      \* which probes count
  agreed,          \* history: what the user agreed to since it was asked last
  operationLeft
operationVars ==
  <<section, entered, entering, work, question, drone, shown, peers, probes, generation, agreed,
    operationLeft>>

Screen == {"vpn", "backups", "swarm"}
Sections == Screen \cup {"about"}
NoWork == [op |-> "none", arg |-> "none", pc |-> "idle"]
NoQuestion == [arg |-> "none", open |-> FALSE, ack |-> FALSE]
NoVpn == [config |-> "none", up |-> FALSE, shared |-> FALSE]
NoProbe == [pc |-> "idle", gen |-> 0, rows |-> <<>>, found |-> "checking"]

Use(what) == operationLeft[what] > 0 /\ operationLeft' = [operationLeft EXCEPT ![what] = @ - 1]
Busy == entering.pc # "idle" \/ (section \in Screen /\ work[section].pc # "idle")
overview == <<peers, probes, generation>>
answers == <<drone, shown, agreed>>

OperationInit ==
  /\ section = "about" /\ entered = {"about"} /\ entering = [screen |-> "about", pc |-> "idle"]
  /\ work = [s \in Screen |-> NoWork] /\ question = [s \in Screen |-> NoQuestion]
  /\ \E config \in {"none", "own", "imported"} :
       drone = [vpn |-> [NoVpn EXCEPT !.config = config], refs |-> {}, applied |-> {}, joined |-> FALSE]
  /\ shown = [vpn |-> NoVpn, refs |-> {}, error |-> {}]
  /\ peers = [p \in Peer |-> [status |-> "none", gen |-> 0]] /\ probes = [p \in Peer |-> {}] /\ generation = 0
  /\ agreed = {} /\ operationLeft \in OperationBounds

\* A look at the swarm lists its peers and has each of them probed, anew.
StartProbes ==
  IF operationLeft.probes = 0 THEN UNCHANGED <<overview, operationLeft>>
  ELSE /\ Use("probes") /\ generation' = generation + 1
       /\ peers' = [p \in Peer |-> [status |-> "checking", gen |-> generation + 1]]
       /\ probes' = [p \in Peer |-> probes[p] \cup {[NoProbe EXCEPT !.pc = "ask", !.gen = generation + 1]}]

\* What a screen is told; the tabs of the swarm screen are taken as one.
Told(s) ==
  [vpn |-> IF s = "vpn" THEN drone.vpn ELSE shown.vpn, refs |-> IF s = "swarm" THEN drone.refs ELSE shown.refs,
   error |-> shown.error \ {s}]

-----------------------------------------------------------------------------
(* The shell.  A section is loaded when it is entered first; until then    *)
(* everything is disabled but the shoulder buttons.                        *)

Enter(s) ==
  IF s \in entered THEN section' = s /\ UNCHANGED entering
  ELSE entering.pc = "idle" /\ section' = s /\ entering' = [screen |-> s, pc |-> "call"]

SelectSection(s) ==
  /\ section # s /\ ~Busy /\ \A q \in Screen : ~question[q].open \/ q # section
  /\ Use("presses") /\ Enter(s)
  /\ UNCHANGED <<entered, work, question, answers, overview>>

\* A pop-up that is not drawn may be gone when the user comes back.
CycleSection(s) ==
  /\ section # s /\ Use("leaves") /\ Enter(s)
  /\ \E gone \in BOOLEAN :
       question' = [q \in Screen |-> [question[q] EXCEPT !.open = @ /\ ~gone]]
  /\ UNCHANGED <<entered, work, answers, overview>>

EnsureEntered ==
  /\ entering.pc = "call" /\ entering' = [entering EXCEPT !.pc = "done"]
  /\ entered' = entered \cup {entering.screen}
  /\ \/ /\ shown' = Told(entering.screen)
        /\ IF entering.screen = "swarm" THEN StartProbes ELSE UNCHANGED <<overview, operationLeft>>
     \/ Use("failures") /\ shown' = [shown EXCEPT !.error = @ \cup {entering.screen}] /\ UNCHANGED overview
  /\ UNCHANGED <<section, work, question, drone, agreed>>

Leave ==
  /\ entering.pc = "done" /\ entering' = [entering EXCEPT !.pc = "idle"]
  /\ UNCHANGED <<section, entered, work, question, answers, overview, operationLeft>>

-----------------------------------------------------------------------------
(* What the user may press, by what the screen was told.                   *)

At(s) == section = s /\ s \in entered /\ ~Busy /\ ~question[s].open
Defer(s, op, arg) == work' = [work EXCEPT ![s] = [op |-> op, arg |-> arg, pc |-> "queued"]]
Press(s, op, arg) ==
  /\ At(s) /\ Use("presses") /\ Defer(s, op, arg)
  /\ UNCHANGED <<section, entered, entering, question, answers, overview>>

Vpn == shown.vpn
Configured == "vpn" \notin shown.error /\ Vpn.config # "none"
PressRefresh(s) == Press(s, "refresh", "none")
PressConnect == Configured /\ ~Vpn.up /\ Press("vpn", "connect", "none")
PressDisconnect == Configured /\ Vpn.up /\ Press("vpn", "disconnect", "none")
PressCredentials == Configured /\ Press("vpn", "credentials", "none")
PressSharing == Configured /\ Vpn.config = "own" /\ Press("vpn", "sharing", IF Vpn.shared THEN "off" ELSE "on")
PressPull(p) == "vpn" \notin shown.error /\ ~Configured /\ Press("vpn", "pull", p)
PressImport == "vpn" \notin shown.error /\ ~Configured /\ Press("vpn", "import", "none")
PressCreate == Press("backups", "create", "none")
PressUnreference(p) == p \in shown.refs /\ Press("swarm", "unreference", p)
PressJoin == Press("swarm", "join", "none")
PressPair(p) == Press("swarm", "pair", p)

\* Before a backup is applied or a peer referenced, a pop-up asks; only the
\* former has a box to tick, which every new question clears.
\* Mutant: a box that was ticked for another backup stays so.
KeepsTick(s, arg) == [arg |-> arg, open |-> TRUE, ack |-> question[s].ack]
Asked(s, arg) == [arg |-> arg, open |-> TRUE, ack |-> s = "swarm"]

OpenQuestion(s, arg) ==
  /\ At(s) /\ Use("presses") /\ question' = [question EXCEPT ![s] = Asked(s, arg)]
  /\ agreed' = IF s = "swarm" THEN agreed \cup {arg} ELSE agreed \ {arg}
  /\ UNCHANGED <<section, entered, entering, work, drone, shown, overview>>

AskReference(p) == p \notin shown.refs /\ OpenQuestion("swarm", p)
AskApply(b) == OpenQuestion("backups", b)

Tick ==
  /\ section = "backups" /\ ~Busy /\ question["backups"].open
  /\ question' = [question EXCEPT !["backups"].ack = ~@]
  /\ LET b == question["backups"].arg IN agreed' = IF b \in agreed THEN agreed \ {b} ELSE agreed \cup {b}
  /\ Use("presses")
  /\ UNCHANGED <<section, entered, entering, work, drone, shown, overview>>

\* The tick stays where it was when the question is answered.
Answered(s) == [question[s] EXCEPT !.arg = "none", !.open = FALSE]
Cancel(s) ==
  /\ section = s /\ question[s].open /\ question' = [question EXCEPT ![s] = Answered(s)]
  /\ UNCHANGED <<section, entered, entering, work, answers, overview, operationLeft>>

Confirm(s, op) ==
  /\ section = s /\ question[s].open /\ question[s].ack /\ ~Busy
  /\ question' = [question EXCEPT ![s] = Answered(s)] /\ Defer(s, op, question[s].arg)
  /\ UNCHANGED <<section, entered, entering, answers, overview, operationLeft>>

ConfirmReference == Confirm("swarm", "reference")
ConfirmApply == Confirm("backups", "apply")

-----------------------------------------------------------------------------
(* The workers: the operation, then a look at what it changed.             *)

Step(s, pc) == work' = [work EXCEPT ![s].pc = pc]
StartAction(s) ==
  /\ section = s /\ work[s].pc = "queued" /\ Step(s, IF work[s].op = "refresh" THEN "look" ELSE "call")
  /\ UNCHANGED <<section, entered, entering, question, answers, overview, operationLeft>>
RetireAction(s) ==
  /\ section = s /\ work[s].pc = "done" /\ work' = [work EXCEPT ![s] = NoWork]
  /\ UNCHANGED <<section, entered, entering, question, answers, overview, operationLeft>>

\* A call ends with an answer or with an error, and either is followed by a look.
Calls(s, op, after) ==
  /\ work[s].pc = "call" /\ work[s].op = op /\ Step(s, "look")
  /\ \/ drone' = after /\ UNCHANGED operationLeft
     \/ drone' = drone /\ Use("failures")
  /\ UNCHANGED <<section, entered, entering, question, shown, agreed, overview>>

Arg(s) == work[s].arg
Connect == Calls("vpn", "connect", [drone EXCEPT !.vpn.up = drone.vpn.config # "none"])
Disconnect == Calls("vpn", "disconnect", [drone EXCEPT !.vpn.up = FALSE])
SaveCredentials == Calls("vpn", "credentials", drone)
SetSharing ==
  Calls("vpn", "sharing",
        IF Vpn.config = "imported" \/ drone.vpn.config = "imported" THEN drone
        ELSE [drone EXCEPT !.vpn.shared = Arg("vpn") = "on"])
PullFromPeer == Calls("vpn", "pull", [drone EXCEPT !.vpn = [NoVpn EXCEPT !.config = "imported"]])
ImportFromFolder == Calls("vpn", "import", [drone EXCEPT !.vpn = [NoVpn EXCEPT !.config = "own"]])
CreateBackup == Calls("backups", "create", drone)
ApplyBackup == Calls("backups", "apply", [drone EXCEPT !.applied = @ \cup {Arg("backups")}])
EnableReference == Calls("swarm", "reference", [drone EXCEPT !.refs = @ \cup {Arg("swarm")}])
DisableReference == Calls("swarm", "unreference", [drone EXCEPT !.refs = @ \ {Arg("swarm")}])
EnrollTailnet == Calls("swarm", "join", [drone EXCEPT !.joined = TRUE])
PairWith == Calls("swarm", "pair", drone)

LookOf(s) == work[s].pc = "look" /\ Step(s, "done") /\ shown' = Told(s)
LookVpn == LookOf("vpn") /\ UNCHANGED <<overview, operationLeft>>
LookBackups == LookOf("backups") /\ UNCHANGED <<overview, operationLeft>>

LookSwarm ==
  LookOf("swarm") /\ IF work["swarm"].op = "refresh" THEN StartProbes ELSE UNCHANGED <<overview, operationLeft>>

Look ==
  /\ LookVpn \/ LookBackups \/ LookSwarm
  /\ UNCHANGED <<section, entered, entering, question, drone, agreed>>

LookFails(s) ==
  /\ work[s].pc = "look" /\ Use("failures") /\ Step(s, "done") /\ shown' = [shown EXCEPT !.error = @ \cup {s}]
  /\ UNCHANGED <<section, entered, entering, question, drone, agreed, overview>>

\* Somebody uses the browser, or another Drone.
ElseWhere ==
  /\ Use("others")
  /\ \E config \in {"own", "imported"}, up \in BOOLEAN :
       drone' = [drone EXCEPT !.vpn = [NoVpn EXCEPT !.config = config, !.up = up]]
  /\ UNCHANGED <<section, entered, entering, work, question, shown, agreed, overview>>

-----------------------------------------------------------------------------
(* The probes of the overview, up to eight threads at a time.              *)

\* Mutant: an answer counts whenever it comes.
Always(probe) == TRUE
Counts(probe) == probe.gen = generation
Row(p, rows, probe) == [rows EXCEPT ![p] = [status |-> probe.found, gen |-> probe.gen]]

\* The probe is over when the request is answered or fails.
ProbePeer(p, probe) ==
  /\ probe.pc = "ask"
  /\ \E found \in {"online", "offline"} :
       LET over == IF Counts(probe) THEN {[probe EXCEPT !.pc = "found", !.found = found]} ELSE {}
       IN probes' = [probes EXCEPT ![p] = (@ \ {probe}) \cup over]
  /\ UNCHANGED <<section, entered, entering, work, question, answers, peers, generation, operationLeft>>

\* Its row replaces the last one, in a copy of the list; with race another
\* thread may do so between the copy and its assignment.
ShowProbe(p, probe) ==
  /\ probe.pc = "found"
  /\ \/ /\ Counts(probe) /\ peers' = Row(p, peers, probe) /\ probes' = [probes EXCEPT ![p] = @ \ {probe}]
        /\ UNCHANGED operationLeft
     \/ /\ ~Counts(probe) /\ probes' = [probes EXCEPT ![p] = @ \ {probe}] /\ UNCHANGED <<peers, operationLeft>>
     \/ /\ Counts(probe) /\ Use("race") /\ UNCHANGED peers
        /\ probes' = [probes EXCEPT ![p] = (@ \ {probe}) \cup {[probe EXCEPT !.pc = "copied", !.rows = peers]}]
  /\ UNCHANGED <<section, entered, entering, work, question, answers, generation>>

AssignRows(p, probe) ==
  /\ probe.pc = "copied" /\ peers' = Row(p, probe.rows, probe) /\ probes' = [probes EXCEPT ![p] = @ \ {probe}]
  /\ UNCHANGED <<section, entered, entering, work, question, answers, generation, operationLeft>>

OperationNext ==
  \/ \E s \in Sections : SelectSection(s) \/ CycleSection(s)
  \/ EnsureEntered \/ Leave
  \/ PressConnect \/ PressDisconnect \/ PressCredentials \/ PressSharing \/ PressImport
  \/ PressCreate \/ PressJoin
  \/ \E p \in Peer : PressPull(p) \/ PressUnreference(p) \/ PressPair(p) \/ AskReference(p)
  \/ \E b \in Backup : AskApply(b)
  \/ Tick \/ ConfirmReference \/ ConfirmApply
  \/ \E s \in Screen : PressRefresh(s) \/ Cancel(s) \/ StartAction(s) \/ RetireAction(s) \/ LookFails(s)
  \/ Connect \/ Disconnect \/ SaveCredentials \/ SetSharing \/ PullFromPeer \/ ImportFromFolder
  \/ CreateBackup \/ ApplyBackup \/ EnableReference \/ DisableReference \/ EnrollTailnet \/ PairWith
  \/ Look \/ ElseWhere
  \/ \E p \in Peer : \E probe \in probes[p] : ProbePeer(p, probe) \/ ShowProbe(p, probe) \/ AssignRows(p, probe)

OperationSpec == OperationInit /\ [][OperationNext]_operationVars

-----------------------------------------------------------------------------
\* What overwrites files is done only for what the user agreed to after it was
\* asked (docstring of backups.py: "an ack-checkbox-gated modal").
AgreedOnly ==
  \A s \in {"backups", "swarm"} : (work[s].op \in {"apply", "reference"}) => work[s].arg \in agreed

\* The overview shows no answer of an earlier round, and when no probe is
\* under way none of its peers is left "Checking...".
RowsAreOfTheRound ==
  \A p \in Peer :
    peers[p].gen = generation /\ ((generation > 0 /\ probes[p] = {}) => peers[p].status # "checking")

\* A screen that rests shows what its last operation has left, unless the
\* look at it failed or somebody else changed it meanwhile.
ShownIsSo ==
  (operationLeft.others > 0 /\ "vpn" \in entered \ shown.error /\ work["vpn"].pc = "idle")
    => shown.vpn = drone.vpn
OperationsAreMeant == AgreedOnly /\ RowsAreOfTheRound /\ ShownIsSo

\* RowsAreOfTheRound is not so with race: of two answers at a time one may be
\* lost, and that peer stays "Checking..." until the user refreshes.

\* Not so: "this screen can never even attempt the call" (vpn.py) to share a
\* configuration that was imported meanwhile.
SharesOnlyItsOwn == (work["vpn"].op = "sharing" /\ work["vpn"].pc = "call") => drone.vpn.config # "imported"
==============================================================================
