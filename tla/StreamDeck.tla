------------------------------ MODULE StreamDeck ------------------------------
(***************************************************************************)
(* The Stream Deck integration of a Drone (app/integrations/streamdeck),   *)
(* in two parts that share no state.                                       *)
(*                                                                         *)
(* The worker: the isolated process that drives the decks, and those that  *)
(* start and stop it under one lifecycle lock: jobs (enable, repair,       *)
(* reinstall), short requests (disable, remove) and the supervisor.        *)
(*                                                                         *)
(* One key, as the worker handles it: the deck's reader thread (on_key),   *)
(* hold timers, the loop that loads a newly compiled document and attaches *)
(* and detaches decks, and the threads that actions run in.  Games are     *)
(* launched under a lock that the worker shares with the Drone's own test. *)
(***************************************************************************)
EXTENDS Integers, Sequences

CONSTANTS
  Worker,     \* worker processes, in the order they may be spawned
  NoWorker,
  DeckBounds, \* how many requests, crashes and failures; see DeckInit
  Layout,     \* the action of the key, by document and profile
  Dangerous,  \* actions that have to be held for
  Launcher,   \* the processes that launch games: the worker and the Drone
  Program,    \* games
  NoProgram,
  KeyBounds   \* how many presses, documents, switches and faults; see KeyInit

VARIABLES
  deck,       \* config.json: it exists, it is enabled; the last answer to the user
  tooling,    \* the isolated libraries, as dependencies.status() sees them
  workers,    \* the processes: spawned, holding runtime.lock, or gone
  child,      \* _process: what this Drone spawned and has not reaped
  drone,      \* which Drone process this is; a worker ends with its own
  holder,     \* who holds the lifecycle lock, and how far it is
  repairing,  \* the supervisor has let go of the lock and is about to ask for a repair
  testing,    \* a test of an action runs in the browser's job
  port,       \* RetroArch's command port: switched on, and what it was is on record
  applying,   \* a request to apply the configuration has found it enabled
  deckLeft,
  document,   \* the generation that is loaded, and the one compiled last
  slot,       \* the attached deck's slot: its profile and the state of the key
  reader,     \* on_key, between its two sections
  timers,     \* by press: what the key showed, and its hold timer
  acting,     \* actions that run, with the slot they are of
  ran,        \* what was run: the action, what its press showed, held or not
  emulators,  \* games that run, and those EmulationStation is about to start
  launches,   \* each process's coordinator
  keysLeft
deckVars == <<deck, tooling, workers, child, drone, holder, repairing, testing, port, applying, deckLeft>>

Free == [op |-> "none", pc |-> "idle"]
Absent == [pc |-> "none", of |-> 0, term |-> FALSE]

DeckInit ==
  /\ deck = [exists |-> FALSE, enabled |-> FALSE, told |-> "nothing"] /\ tooling = "missing"
  /\ workers = [w \in Worker |-> Absent] /\ child = NoWorker /\ drone = 0
  /\ holder = Free /\ repairing = FALSE /\ testing = FALSE
  /\ port = [on |-> FALSE, saved |-> FALSE] /\ applying = FALSE
  /\ deckLeft \in DeckBounds

Use(what) == deckLeft[what] > 0 /\ deckLeft' = [deckLeft EXCEPT ![what] = @ - 1]
Locked == {w \in Worker : workers[w].pc = "running"}
Alive(w) == workers[w].pc \in {"spawned", "running"}
Gone(w) == [workers EXCEPT ![w].pc = "gone"]
At(pc) == holder.pc = pc
Go(pc) == holder' = [holder EXCEPT !.pc = pc]

-----------------------------------------------------------------------------
\* Requests.  A job is refused while a test runs, and so is the removal.  Disable and
\* remove do not wait for an Apply under way (late).
Request(op) ==
  /\ holder = Free /\ Use("requests")
  /\ (op # "disable" => ~testing)
  /\ (applying /\ op \in {"disable", "remove"} => deckLeft.late > 0)
  /\ deck' = [deck EXCEPT !.told = "nothing"]
  /\ holder' = [op |-> op, pc |-> CASE op = "enable" -> "ensure"
                                    [] op \in {"disable", "remove"} -> "off"
                                    [] OTHER -> "stop"]
  /\ UNCHANGED <<tooling, workers, child, drone, repairing, testing, port, applying>>

StartTest ==
  /\ holder = Free /\ ~testing /\ Use("tests") /\ testing' = TRUE
  /\ UNCHANGED <<deck, tooling, workers, child, drone, holder, repairing, port, applying>>

EndTest ==
  /\ testing /\ testing' = FALSE
  /\ UNCHANGED <<deck, tooling, workers, child, drone, holder, repairing, port, applying, deckLeft>>

\* set_enabled(False).
SwitchOff ==
  /\ At("off") /\ Go("stop")
  /\ deck' = [deck EXCEPT !.enabled = FALSE, !.exists = @ \/ holder.op = "disable"]
  /\ UNCHANGED <<tooling, workers, child, drone, repairing, testing, port, applying, deckLeft>>

\* What follows stop_runtime.
AfterStop == Go(CASE holder.op \in {"disable", "remove"} -> "restore"
                  [] holder.op = "reinstall" -> "uninstall"
                  [] OTHER -> "ensure")

\* stop_runtime: nobody holds runtime.lock, but a worker that was just spawned may.
StopNobody ==
  /\ IF child = NoWorker THEN UNCHANGED <<workers, child>>
     ELSE workers' = Gone(child) /\ child' = NoWorker
  /\ AfterStop

StopRuntime ==
  /\ At("stop")
  /\ \/ Locked = {} /\ StopNobody
     \/ \E w \in Locked : workers' = [workers EXCEPT ![w].term = TRUE] /\ Go("wait") /\ UNCHANGED child
  /\ UNCHANGED <<deck, tooling, drone, repairing, testing, port, applying, deckLeft>>

\* The worker let go of the lock, or is killed after ten seconds; so is the
\* Drone's own that took the lock meanwhile.
StopWaits ==
  /\ At("wait") /\ AfterStop
  /\ \/ Locked = {} /\ UNCHANGED workers
     \/ \E w \in Locked : (workers[w].term \/ w = child) /\ workers' = Gone(w)
  /\ child' = IF child # NoWorker /\ workers'[child].pc = "gone" THEN NoWorker ELSE child
  /\ UNCHANGED <<deck, tooling, drone, repairing, testing, port, applying, deckLeft>>

\* A worker of an earlier Drone did: the request fails, the libraries stay.
StopFails ==
  /\ At("wait") /\ (\E w \in Locked : ~workers[w].term /\ w # child)
  /\ holder' = Free
  /\ IF child = NoWorker THEN UNCHANGED <<workers, child>>
     ELSE workers' = Gone(child) /\ child' = NoWorker
  /\ UNCHANGED <<deck, tooling, drone, repairing, testing, port, applying, deckLeft>>

\* restore() gives RetroArch's settings back, if what they were is on record, and
\* forgets it.
RestorePort ==
  /\ At("restore") /\ Go(IF holder.op = "remove" THEN "uninstall" ELSE "end")
  /\ port' = [on |-> port.on /\ ~port.saved, saved |-> FALSE]
  /\ UNCHANGED <<deck, tooling, workers, child, drone, repairing, testing, applying, deckLeft>>

\* Neither may come about.  _restore_retroarch_network turns the OSError into a remark,
\* which the answer to a Disable carries; that to a removal says nothing of it (late).
RestoreFails ==
  /\ At("restore") /\ port.saved /\ Use("stuck") /\ (holder.op = "remove" => deckLeft.late > 0)
  /\ Go(IF holder.op = "remove" THEN "uninstall" ELSE "remark")
  /\ port' \in {port, [port EXCEPT !.on = FALSE]}
  /\ UNCHANGED <<deck, tooling, workers, child, drone, repairing, testing, applying>>

\* remove() of the libraries, and of the configuration when asked to.
Uninstall(everything) ==
  /\ At("uninstall") /\ (everything => holder.op = "remove")
  /\ tooling' = "missing"
  /\ deck' = [deck EXCEPT !.exists = @ /\ ~everything]
  /\ Go(IF holder.op = "remove" THEN "end" ELSE "ensure")
  /\ UNCHANGED <<workers, child, drone, repairing, testing, port, applying, deckLeft>>

\* Disable or remove answers.
Answer ==
  /\ holder.pc \in {"end", "remark"} /\ holder' = Free
  /\ deck' = [deck EXCEPT !.told = IF At("remark") THEN "not restored"
                                   ELSE IF holder.op = "remove" THEN "removed" ELSE "disabled"]
  /\ UNCHANGED <<tooling, workers, child, drone, repairing, testing, port, applying, deckLeft>>

-----------------------------------------------------------------------------
\* Mutant: a repair does not look again whether the integration is enabled.
RepairsAnyway == FALSE
\* The repair that the supervisor asks for does, when it has the lock.
Superfluous == ~deck.exists \/ ~deck.enabled

AutoRepair ==
  /\ repairing /\ repairing' = FALSE
  /\ holder' = IF holder = Free /\ ~testing /\ ~Superfluous THEN [op |-> "auto", pc |-> "stop"] ELSE holder
  /\ UNCHANGED <<deck, tooling, workers, child, drone, testing, port, applying, deckLeft>>

\* ensure(): staged, verified, swapped in, and the marker last.
Ensure ==
  /\ At("ensure") /\ tooling' = "ready"
  /\ deck' = IF holder.op = "enable" THEN [deck EXCEPT !.exists = TRUE, !.enabled = TRUE] ELSE deck
  /\ Go(IF holder.op = "enable" \/ deck.enabled THEN "start" ELSE "leave")
  /\ UNCHANGED <<workers, child, drone, repairing, testing, port, applying, deckLeft>>

EnsureFails ==
  /\ At("ensure") /\ tooling # "ready" /\ Use("failures") /\ holder' = Free
  /\ UNCHANGED <<deck, tooling, workers, child, drone, repairing, testing, port, applying>>

\* start_runtime: not when a worker runs or one is starting.
Start ==
  IF Locked # {} \/ (child # NoWorker /\ Alive(child)) \/ tooling # "ready"
  THEN UNCHANGED <<workers, child>>
  ELSE LET new == {w \in Worker : workers[w] = Absent}
           w == CHOOSE w \in new : TRUE
       IN
       /\ new # {} /\ child' = w
       /\ workers' = [workers EXCEPT ![w] = [pc |-> "spawned", of |-> drone, term |-> FALSE]]

\* The port is switched on and what it was is saved; a crash may come between.
SyncPort(torn) ==
  IF port.on THEN ~torn /\ UNCHANGED port
  ELSE port' = [on |-> TRUE, saved |-> port.saved \/ ~torn]

\* apply() of the configuration takes no lock: it looks whether the integration is
\* enabled, and switches the port on later.  It looks at a Disable under way that
\* has not switched off yet only with late.
ApplyLooks ==
  /\ ~applying /\ deck.enabled /\ Use("applies") /\ applying' = TRUE
  /\ (holder.op \in {"disable", "remove"} => deckLeft.late > 0)
  /\ UNCHANGED <<deck, tooling, workers, child, drone, holder, repairing, testing, port>>

ApplySyncs ==
  /\ applying /\ applying' = FALSE /\ SyncPort(FALSE)
  /\ UNCHANGED <<deck, tooling, workers, child, drone, holder, repairing, testing, deckLeft>>

StartWorker ==
  /\ At("start") /\ Go("leave") /\ Start /\ SyncPort(FALSE)
  /\ UNCHANGED <<deck, tooling, drone, repairing, testing, applying, deckLeft>>

\* A job waits for the worker up to fifteen seconds, and ends either way.
LeaveJob ==
  /\ At("leave") /\ holder' = Free
  /\ UNCHANGED <<deck, tooling, workers, child, drone, repairing, testing, port, applying, deckLeft>>

\* One pass of the supervisor, which skips it when the lock is taken.
Supervise ==
  /\ holder = Free /\ ~repairing /\ deck.exists /\ deck.enabled
  /\ IF tooling = "ready" THEN Start /\ UNCHANGED repairing
     ELSE repairing' = TRUE /\ UNCHANGED <<workers, child>>
  /\ UNCHANGED <<deck, tooling, drone, holder, testing, port, applying, deckLeft>>

-----------------------------------------------------------------------------
\* The worker: takes the lock, or gives up; ends when told to, when its Drone
\* is gone, or by a crash.
TakeLock(w) ==
  /\ workers[w].pc = "spawned" /\ Locked = {}
  /\ workers' = [workers EXCEPT ![w].pc = "running"]
  /\ UNCHANGED <<deck, tooling, child, drone, holder, repairing, testing, port, applying, deckLeft>>

WorkerEnds(w) ==
  /\ Alive(w) /\ workers' = Gone(w)
  /\ IF workers[w].term \/ workers[w].of # drone \/ (workers[w].pc = "spawned" /\ Locked # {})
     THEN UNCHANGED deckLeft ELSE Use("crashes")
  /\ UNCHANGED <<deck, tooling, child, drone, holder, repairing, testing, port, applying>>

\* The Drone restarts.  With late, its worker may not have taken the lock yet;
\* with torn, the port was on and what it was not yet saved.
RestartDrone(late, torn) ==
  /\ Use("restarts") /\ drone' = drone + 1
  /\ (late => deckLeft.late > 0) /\ (torn => deckLeft.late > 0 /\ (At("start") \/ applying))
  /\ (~late => \A w \in Worker : workers[w].pc # "spawned")
  /\ IF torn THEN SyncPort(TRUE) ELSE UNCHANGED port
  /\ child' = NoWorker /\ holder' = Free /\ repairing' = FALSE /\ testing' = FALSE /\ applying' = FALSE
  /\ deck' = [deck EXCEPT !.told = IF holder = Free THEN @ ELSE "nothing"]
  /\ UNCHANGED <<tooling, workers>>

\* Batocera was updated, and its Python with it.
ToolingBreaks ==
  /\ tooling = "ready" /\ Use("failures") /\ tooling' = "broken"
  /\ UNCHANGED <<deck, workers, child, drone, holder, repairing, testing, port, applying>>

DeckNext ==
  \/ \E op \in {"enable", "repair", "reinstall", "disable", "remove"} : Request(op)
  \/ StartTest \/ EndTest \/ SwitchOff \/ StopRuntime \/ StopWaits \/ StopFails \/ RestorePort \/ RestoreFails
  \/ \E everything \in BOOLEAN : Uninstall(everything)
  \/ Answer \/ ApplyLooks \/ ApplySyncs \/ AutoRepair \/ Ensure \/ EnsureFails \/ StartWorker \/ LeaveJob \/ Supervise
  \/ \E w \in Worker : TakeLock(w) \/ WorkerEnds(w)
  \/ \E late, torn \in BOOLEAN : RestartDrone(late, torn)
  \/ ToolingBreaks

DeckSpec == DeckInit /\ [][DeckNext]_deckVars

-----------------------------------------------------------------------------
\* Whoever is told that the Stream Deck is disabled has it disabled: no worker
\* of this Drone drives the decks or is about to, RetroArch's port is as it
\* was, or the answer says that it could not be restored, and what was removed is
\* not installed again unasked.  With late > 0 the code breaks it: an Apply that
\* overlaps a Disable switches the port on behind it, a removal does not say that
\* restoring failed, and a Drone that stops at the wrong moment leaves a worker of
\* its own or a port whose prior value nobody knows.
DisabledIsStopped ==
  /\ deck.told # "nothing" => \A w \in Worker : Alive(w) => workers[w].of # drone
  /\ deck.told \in {"disabled", "removed"} => ~port.on
  /\ deck.told = "removed" => tooling = "missing"

DeckTypes ==
  /\ deck \in [exists : BOOLEAN, enabled : BOOLEAN, told : {"nothing", "disabled", "not restored", "removed"}]
  /\ tooling \in {"missing", "ready", "broken"}
  /\ workers \in [Worker -> [pc : {"none", "spawned", "running", "gone"}, of : Nat, term : BOOLEAN]]
  /\ child \in Worker \cup {NoWorker} /\ drone \in Nat /\ repairing \in BOOLEAN
  /\ holder \in [op : {"none", "enable", "repair", "reinstall", "disable", "remove", "auto"},
                pc : {"idle", "ensure", "off", "stop", "wait", "restore", "uninstall", "end", "remark", "start", "leave"}]
  /\ port \in [on : BOOLEAN, saved : BOOLEAN]
  /\ deckLeft \in [{"requests", "tests", "failures", "crashes", "restarts", "applies", "stuck", "late"} -> Nat]

\* Without late one worker lives, and if it is this Drone's it is the child; one
\* without the lock is.
OneWorker ==
  /\ \A v, w \in Worker : Alive(v) /\ Alive(w) => v = w
  /\ \A w \in Worker : Alive(w) => workers[w].of <= drone
  /\ \A w \in Worker : Alive(w) /\ workers[w].of = drone => w = child
  /\ \A w \in Worker : workers[w].pc = "spawned" => workers[w].of = drone /\ ~At("wait")

NoneOfThisDrone == \A w \in Worker : Alive(w) => workers[w].of # drone

\* What whoever disables or removes has reached.
DisablingKnows ==
  /\ holder = Free <=> holder.pc = "idle"
  /\ holder.pc \in {"off", "restore", "end"} => holder.op \in {"disable", "remove"}
  /\ holder.pc = "remark" => holder.op = "disable"
  /\ holder.pc \in {"ensure", "start", "leave"} => holder.op \notin {"disable", "remove"}
  /\ holder.pc = "uninstall" => holder.op \in {"reinstall", "remove"}
  /\ holder.op \in {"disable", "remove"} /\ holder.pc \in {"stop", "wait", "restore", "uninstall", "end", "remark"} => ~deck.enabled
  /\ holder.pc \in {"restore", "end", "remark"} \/ (holder.op = "remove" /\ holder.pc = "uninstall") => NoneOfThisDrone
  /\ holder.op \in {"disable", "remove"} /\ holder.pc \in {"uninstall", "end"} => ~port.on
  /\ holder.op = "remove" /\ holder.pc = "end" => tooling = "missing"

\* An Apply that has looked is of an integration that stays enabled.
AppliesToEnabled == applying \in BOOLEAN /\ (applying => deck.enabled /\ holder.op \notin {"disable", "remove"})

\* What lasts, as long as the Drone does not stop while a worker or the port is
\* half started, no Apply overlaps a Disable, and no restore fails in a removal
\* (late).
DeckInv ==
  /\ DeckTypes /\ deckLeft["late"] = 0 /\ OneWorker /\ DisablingKnows /\ DisabledIsStopped /\ AppliesToEnabled
  /\ port.on => port.saved
  /\ holder # Free => deck.told = "nothing"
  /\ deck.told # "nothing" => ~deck.enabled

-----------------------------------------------------------------------------
(* A key.                                                                  *)

keyVars == <<document, slot, reader, timers, acting, ran, emulators, launches, keysLeft>>

NewSlot(n) == [id |-> n, profile |-> 1, down |-> 0, hold |-> FALSE, triggered |-> FALSE, leaving |-> FALSE]
NotReading == [pc |-> "idle", action |-> "none"]
NotLaunching == [pc |-> "idle", game |-> NoProgram]

KeyInit ==
  /\ document = [loaded |-> 1, compiled |-> 1] /\ slot = NewSlot(1) /\ reader = NotReading
  /\ timers = <<>> /\ acting = {} /\ ran = {}
  /\ emulators = [running |-> {}, starting |-> {}] /\ launches = [p \in Launcher |-> NotLaunching]
  /\ keysLeft \in KeyBounds

Spend(what) ==
  /\ \A w \in what : keysLeft[w] > 0
  /\ keysLeft' = [w \in DOMAIN keysLeft |-> keysLeft[w] - (IF w \in what THEN 1 ELSE 0)]
Attached == slot.id > 0
Button == Layout[document.loaded][slot.profile]
Press == Len(timers)
Cancelled == [n \in DOMAIN timers |-> IF timers[n].state = "waits" THEN [timers[n] EXCEPT !.state = "cancelled"]
                                       ELSE timers[n]]
\* Between the sections of on_key, or of detach, something changed.
Race == IF reader.pc = "idle" /\ ~slot.leaving THEN {} ELSE {"race"}

-----------------------------------------------------------------------------
\* A press: what the key does is looked up under the lock.  A press soon after
\* an action of the same key is only remembered as down.
KeyDown ==
  /\ Attached /\ reader.pc = "idle" /\ slot.down = 0 /\ Spend({"presses"})
  /\ timers' = Append(timers, [state |-> "none", seen |-> Button])
  /\ slot' = [slot EXCEPT !.down = Press + 1]
  /\ \/ reader' = [pc |-> "pressed", action |-> Button]
     \/ slot.triggered /\ UNCHANGED reader
  /\ UNCHANGED <<document, acting, ran, emulators, launches>>

\* The second section arms the timer of a dangerous action.
ArmHold ==
  /\ reader.pc = "pressed" /\ reader.action \in Dangerous
  /\ reader' = NotReading /\ slot' = [slot EXCEPT !.hold = TRUE]
  /\ timers' = [timers EXCEPT ![Press].state = "waits"]
  /\ UNCHANGED <<document, acting, ran, emulators, launches, keysLeft>>

\* _trigger: nothing while the previous action of the key runs.
Trigger(action) ==
  IF action = "none" \/ (\E a \in acting : a.slot = slot.id)
  THEN slot' = [slot EXCEPT !.hold = FALSE] /\ UNCHANGED <<acting, ran>>
  ELSE /\ slot' = [slot EXCEPT !.hold = FALSE, !.triggered = TRUE]
       /\ acting' = acting \cup {[slot |-> slot.id, action |-> action]}
       /\ ran' = ran \cup {[action |-> action, seen |-> timers[slot.down].seen,
                            held |-> timers[slot.down].state = "fired"]}

ActAtOnce ==
  /\ reader.pc = "pressed" /\ reader.action \notin Dangerous
  /\ reader' = NotReading /\ Trigger(reader.action)
  /\ UNCHANGED <<document, timers, emulators, launches, keysLeft>>

\* Letting go cancels the hold.
KeyUp ==
  /\ Attached /\ reader.pc = "idle" /\ slot.down # 0
  /\ slot' = [slot EXCEPT !.down = 0, !.hold = FALSE]
  /\ timers' = IF slot.hold THEN Cancelled ELSE timers
  /\ UNCHANGED <<document, reader, acting, ran, emulators, launches, keysLeft>>

\* The hold time is over: the timer's thread runs, and can no longer be cancelled.
HoldFires(n) ==
  /\ timers[n].state = "waits" /\ timers' = [timers EXCEPT ![n].state = "fired"]
  /\ UNCHANGED <<document, slot, reader, acting, ran, emulators, launches, keysLeft>>

\* Mutant: whichever press holds the key now.
AnyHold(n) == slot.down # 0 /\ slot.hold
\* _hold_elapsed: the key is down, for the same press, and the hold still stands.
StillHeld(n) == slot.down = n /\ slot.hold

HoldElapsed(n) ==
  /\ timers[n].state = "fired" /\ timers' = [timers EXCEPT ![n].state = "over"]
  /\ IF StillHeld(n) THEN Trigger(Button) ELSE UNCHANGED <<slot, acting, ran>>
  /\ UNCHANGED <<document, reader, emulators, launches, keysLeft>>

-----------------------------------------------------------------------------
Compile ==
  /\ document.compiled < Len(Layout) /\ document' = [document EXCEPT !.compiled = @ + 1]
  /\ UNCHANGED <<slot, reader, timers, acting, ran, emulators, launches, keysLeft>>

\* load_document, on a tick or when told to reload: no hold of an attached deck
\* outlives it.
LoadDocument ==
  /\ document.loaded < document.compiled /\ Spend(Race)
  /\ document' = [document EXCEPT !.loaded = document.compiled]
  /\ IF Attached
     THEN /\ slot' = [slot EXCEPT !.hold = FALSE, !.profile = IF @ \in DOMAIN Layout[document.compiled] THEN @ ELSE 1]
          /\ timers' = Cancelled
     ELSE UNCHANGED <<slot, timers>>
  /\ UNCHANGED <<reader, acting, ran, emulators, launches>>

\* switch_profile, by a button or by a rule about the game that runs.
SwitchProfile(n) ==
  /\ Attached /\ n # slot.profile /\ n \in DOMAIN Layout[document.loaded] /\ Spend(Race \cup {"switches"})
  /\ slot' = [slot EXCEPT !.profile = n, !.hold = FALSE] /\ timers' = Cancelled
  /\ UNCHANGED <<document, reader, acting, ran, emulators, launches>>

\* detach: the deck was unplugged, or does not answer.  Its slot is popped under the
\* lock, and its holds are cancelled without it; a key that was down stays down.
Detach ==
  /\ Attached /\ Spend(Race \cup {"unplugs"})
  /\ slot' = [slot EXCEPT !.id = 0 - @, !.leaving = TRUE]
  /\ UNCHANGED <<document, reader, timers, acting, ran, emulators, launches>>

CancelHolds ==
  /\ slot.leaving
  /\ slot' = [slot EXCEPT !.hold = FALSE, !.leaving = FALSE] /\ timers' = Cancelled
  /\ UNCHANGED <<document, reader, acting, ran, emulators, launches, keysLeft>>

\* attach: a new slot, and the startup profile.
Attach ==
  /\ ~Attached /\ ~slot.leaving /\ slot' = NewSlot(1 - slot.id)
  /\ UNCHANGED <<document, reader, timers, acting, ran, emulators, launches, keysLeft>>

\* An action ends; one that launches a game first waits for the coordinator.
ActionEnds(a) ==
  /\ a \in acting /\ acting' = acting \ {a}
  /\ UNCHANGED <<document, slot, reader, timers, ran, emulators, launches, keysLeft>>

-----------------------------------------------------------------------------
\* launch: the thread's lock and the lock file, neither of which it waits for.
Lockless(p) == {}     \* Mutant: each process has a lock of its own.
Rivals(p) == Launcher \ {p}

Launch(p, g) ==
  /\ launches[p].pc = "idle" /\ (\A q \in Rivals(p) : launches[q].pc = "idle") /\ Spend({"launches"})
  /\ launches' = [launches EXCEPT ![p] = [pc |-> "look", game |-> g]]
  /\ UNCHANGED <<document, slot, reader, timers, acting, ran, emulators>>

Step(p, pc) == launches' = [launches EXCEPT ![p] = IF pc = "idle" THEN NotLaunching ELSE [@ EXCEPT !.pc = pc]]
restOfKeys == <<document, slot, reader, timers, acting, ran>>

\* The game that runs is asked to exit, unless it is the one asked for.
LookForGame(p) ==
  /\ launches[p].pc = "look"
  /\ Step(p, IF emulators.running = {} THEN "launch"
             ELSE IF launches[p].game \in emulators.running THEN "idle" ELSE "exit")
  /\ UNCHANGED <<restOfKeys, emulators, keysLeft>>

\* It is gone; or it is not in time, and nothing is launched.
WaitForExit(p) ==
  /\ launches[p].pc = "exit"
  /\ \/ emulators.running = {} /\ Step(p, "launch")
     \/ emulators.running # {} /\ Step(p, "idle")
  /\ UNCHANGED <<restOfKeys, emulators, keysLeft>>

\* EmulationStation accepts the launch, or rejects it.
LaunchGame(p) ==
  /\ launches[p].pc = "launch"
  /\ \/ /\ emulators' = [emulators EXCEPT !.starting = @ \cup {launches[p].game}] /\ Step(p, "confirm")
     \/ Step(p, "idle") /\ UNCHANGED emulators
  /\ UNCHANGED <<restOfKeys, keysLeft>>

\* It is seen running; or it was given up on, and starts late or not at all.
ConfirmLaunch(p) ==
  /\ launches[p].pc = "confirm" /\ Step(p, "idle")
  /\ \/ launches[p].game \in emulators.running /\ UNCHANGED <<emulators, keysLeft>>
     \/ launches[p].game \notin emulators.running \cup emulators.starting /\ UNCHANGED <<emulators, keysLeft>>
     \/ launches[p].game \in emulators.starting /\ Spend({"late"}) /\ UNCHANGED emulators
  /\ UNCHANGED restOfKeys

\* EmulationStation and the emulators.
GameStarts(g) ==
  /\ g \in emulators.starting
  /\ emulators' = [running |-> emulators.running \cup {g}, starting |-> emulators.starting \ {g}]
  /\ UNCHANGED <<restOfKeys, launches, keysLeft>>

GameExits(g) ==
  /\ g \in emulators.running \cup emulators.starting
  /\ emulators' = [running |-> emulators.running \ {g}, starting |-> emulators.starting \ {g}]
  /\ UNCHANGED <<restOfKeys, launches, keysLeft>>

KeyNext ==
  \/ KeyDown \/ ArmHold \/ ActAtOnce \/ KeyUp \/ Compile \/ LoadDocument \/ Detach \/ CancelHolds \/ Attach
  \/ \E n \in DOMAIN timers : HoldFires(n) \/ HoldElapsed(n)
  \/ \E n \in 1..2 : SwitchProfile(n)
  \/ \E a \in acting : ActionEnds(a)
  \/ \E p \in Launcher : (\E g \in Program : Launch(p, g)) \/ LookForGame(p) \/ WaitForExit(p) \/ LaunchGame(p) \/ ConfirmLaunch(p)
  \/ \E g \in Program : GameStarts(g) \/ GameExits(g)

KeySpec == KeyInit /\ [][KeyNext]_keyVars

-----------------------------------------------------------------------------
\* A dangerous action runs only when its own press was held to the end, and it
\* is the one the key showed when it was pressed: a hold outlives neither the
\* document nor the profile, and no later press inherits it.  With race > 0 the
\* code breaks it: a document that is loaded between the two sections of on_key, or
\* while a slot is popped and its holds are not yet cancelled, finds no hold to
\* cancel, and the timer then runs what the new one says.
HeldIsMeant == \A r \in ran : r.action \in Dangerous => r.held /\ r.action = r.seen

\* There is never a second emulator.  With late > 0 there is: a launch that was
\* given up on may still start when the next one has looked.
OneEmulator == \A g, h \in emulators.running : g = h

KeyTypes ==
  /\ document = [loaded |-> document.loaded, compiled |-> document.compiled]
  /\ slot = [id |-> slot.id, profile |-> slot.profile, down |-> slot.down, hold |-> slot.hold,
             triggered |-> slot.triggered, leaving |-> slot.leaving]
  /\ slot.id \in Int /\ slot.hold \in BOOLEAN /\ slot.leaving \in BOOLEAN
  /\ reader = [pc |-> reader.pc, action |-> reader.action] /\ reader.pc \in {"idle", "pressed"}
  /\ Len(timers) \in Nat /\ timers = [n \in 1..Len(timers) |-> [state |-> timers[n].state, seen |-> timers[n].seen]]
  /\ slot.down \in 0..Len(timers)
  /\ emulators \in [running : SUBSET Program, starting : SUBSET Program]
  /\ launches \in [Launcher -> [pc : {"idle", "look", "exit", "launch", "confirm"}, game : Program \cup {NoProgram}]]
  /\ keysLeft \in [{"presses", "switches", "unplugs", "launches", "race", "late"} -> Nat]

\* A press that is read or held is the present one, and the key still does what
\* it showed then.
PressesAreSeen ==
  /\ reader.pc = "pressed" => /\ Attached /\ slot.down = Press /\ Press > 0
                              /\ reader.action = Button /\ timers[Press].seen = Button
  /\ slot.hold => (Attached \/ slot.leaving) /\ slot.down # 0 /\ timers[slot.down].seen = Button
  /\ Attached => ~slot.leaving

\* One launch is on its way; what starts is its game, and nothing else runs then.
OneLaunch ==
  /\ \A p, q \in Launcher : p # q => launches[p].pc = "idle" \/ launches[q].pc = "idle"
  /\ \A p \in Launcher :
       /\ launches[p].pc = "launch" => emulators.running = {}
       /\ launches[p].pc = "confirm" => emulators.running \cup emulators.starting \subseteq {launches[p].game}
       /\ launches[p].pc # "idle" => launches[p].game \in Program
  /\ emulators.starting # {} => \E p \in Launcher : launches[p].pc = "confirm"
  /\ emulators.running \cap emulators.starting = {}

\* What lasts, as long as nothing is loaded between the two sections of on_key
\* (race) and no launch is given up on that may still start (late).
KeyInv == /\ KeyTypes /\ keysLeft["race"] = 0 /\ keysLeft["late"] = 0
          /\ PressesAreSeen /\ HeldIsMeant /\ OneLaunch /\ OneEmulator
================================================================================
