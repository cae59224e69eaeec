---------------------------- MODULE IdleAutomation ----------------------------
(***************************************************************************)
(* What a Drone does to a machine that nobody touches: one poller sets the *)
(* volume, exits the game that runs and resets a Wi-Fi that is down, while *)
(* the input monitor records the last touch and the administrator changes  *)
(* the settings.  app/device/automation.py.                                *)
(***************************************************************************)
EXTENDS Naturals

CONSTANT IdleBounds  \* how many touches, games, edits and faults; see IdleInit

VARIABLES
  game,       \* the run of emulatorlauncher, 0 when none; how many there were
  touch,      \* last-input-activity: its stamp; the idle minutes have passed since
  automation, \* automation_config.json: each section is enabled
  idleEdits,  \* two handlers that save a section, and how far each is
  idlePoll,   \* the poller: where it is in its pass, the stamp it decided on
  armed,      \* the stamps the automations are done with, 0 for none
  failures,   \* _IDLE_GAME_EXIT_FAILURE_COUNT
  volume,     \* the volume is the target's
  wifi,       \* it is enabled; it has a route; a reset of the Drone's disabled it
  tries,      \* how often the game was to be exited, and the volume set, in this idle period
  idleLeft
idleVars == <<game, touch, automation, idleEdits, idlePoll, armed, failures, volume, wifi, tries, idleLeft>>

Section == {"volume", "exit", "wifi"}
Handler == {1, 2}
NoEdit == [pc |-> "idle", section |-> "volume", read |-> [s \in Section |-> FALSE], to |-> FALSE]
MaxTries == 2

IdleInit ==
  /\ game = [run |-> 0, runs |-> 0] /\ touch = [stamp |-> 1, idle |-> FALSE]
  /\ automation = [s \in Section |-> TRUE] /\ idleEdits = [h \in Handler |-> NoEdit]
  /\ idlePoll = [pc |-> "volume", seen |-> 0]
  /\ armed = [volume |-> 0, exit |-> 0] /\ failures = 0 /\ volume = FALSE
  /\ wifi = [on |-> TRUE, route |-> TRUE, reset |-> FALSE]
  /\ tries = [volume |-> 0, exit |-> 0] /\ idleLeft \in IdleBounds

Use(what) == idleLeft[what] > 0 /\ idleLeft' = [idleLeft EXCEPT ![what] = @ - 1]
At(pc) == idlePoll.pc = pc
Then(pc) == idlePoll' = [pc |-> pc, seen |-> 0]
Anew == tries' = [volume |-> 0, exit |-> 0]
Tried(what) == tries' = IF idlePoll.seen = touch.stamp THEN [tries EXCEPT ![what] = @ + 1] ELSE tries
Running == game.run # 0
pollerState == <<idlePoll, armed, failures>>
machine == <<game, touch, volume, wifi>>

-----------------------------------------------------------------------------
\* People.  The monitor records a touch, not more often than every two seconds.
Touch ==
  /\ Use("touches") /\ touch' = [stamp |-> touch.stamp + 1, idle |-> FALSE] /\ Anew
  /\ UNCHANGED <<game, automation, idleEdits, pollerState, volume, wifi>>

IdleMinutesPass ==
  /\ ~touch.idle /\ touch' = [touch EXCEPT !.idle = TRUE]
  /\ UNCHANGED <<game, automation, idleEdits, pollerState, volume, wifi, tries, idleLeft>>

\* A game starts at a touch, or from a distance; it ends.
StartGame ==
  /\ ~Running /\ Use("games") /\ Anew
  /\ game' = [run |-> game.runs + 1, runs |-> game.runs + 1]
  /\ UNCHANGED <<touch, automation, idleEdits, pollerState, volume, wifi>>

EndGame ==
  /\ Running /\ game' = [game EXCEPT !.run = 0] /\ Anew
  /\ UNCHANGED <<touch, automation, idleEdits, pollerState, volume, wifi, idleLeft>>

TurnVolume ==
  /\ volume /\ Use("touches") /\ volume' = FALSE
  /\ UNCHANGED <<game, touch, automation, idleEdits, pollerState, wifi, tries>>

LoseRoute ==
  /\ wifi.route /\ Use("faults") /\ wifi' = [wifi EXCEPT !.route = FALSE]
  /\ UNCHANGED <<game, touch, automation, idleEdits, pollerState, volume, tries>>

-----------------------------------------------------------------------------
\* A handler reads the settings, saves them with its section changed, and
\* makes the poller start afresh.
AskToEdit(h, s, on) ==
  /\ idleEdits[h].pc = "idle" /\ Use("edits")
  /\ (\A o \in Handler \ {h} : idleEdits[o].pc # "read" \/ idleLeft.late > 0)
  /\ idleEdits' = [idleEdits EXCEPT ![h] = [pc |-> "read", section |-> s, read |-> automation, to |-> on]]
  /\ UNCHANGED <<machine, automation, pollerState, tries>>

SaveEdit(h) ==
  /\ idleEdits[h].pc = "read"
  /\ automation' = [idleEdits[h].read EXCEPT ![idleEdits[h].section] = idleEdits[h].to]
  /\ idleEdits' = [idleEdits EXCEPT ![h].pc = "saved"] /\ Anew
  /\ UNCHANGED <<machine, pollerState, idleLeft>>

ResetArmed(h) ==
  /\ idleEdits[h].pc = "saved" /\ idleEdits' = [idleEdits EXCEPT ![h] = NoEdit] /\ Anew
  /\ LET s == idleEdits[h].section IN
     /\ armed' = IF s \in DOMAIN armed THEN [armed EXCEPT ![s] = 0] ELSE armed
     /\ failures' = IF s = "exit" THEN 0 ELSE failures
  /\ UNCHANGED <<machine, automation, idlePoll, idleLeft>>

-----------------------------------------------------------------------------
\* Any touch since the automation was done re-arms it.
Stale(s) == armed[s] # 0 /\ armed[s] # touch.stamp
Due(s) == touch.idle /\ (armed[s] = 0 \/ Stale(s))

\* The volume, not while a game runs, once in an idle period.
LookAtVolume ==
  /\ At("volume")
  /\ IF ~automation["volume"] \/ Running
     THEN armed' = [armed EXCEPT !.volume = 0] /\ Then("exit")
     ELSE IF Due("volume") /\ ~volume
     THEN /\ armed' = [armed EXCEPT !.volume = 0]
          /\ idlePoll' = [pc |-> "apply", seen |-> touch.stamp]
     ELSE /\ armed' = [armed EXCEPT !.volume = IF Due("volume") THEN touch.stamp
                                               ELSE IF Stale("volume") THEN 0 ELSE @]
          /\ Then("exit")
  /\ UNCHANGED <<machine, automation, idleEdits, failures, tries, idleLeft>>

ApplyVolume ==
  /\ At("apply") /\ Then("exit")
  /\ \/ /\ volume' = TRUE /\ Tried("volume")
        /\ armed' = [armed EXCEPT !.volume = idlePoll.seen] /\ UNCHANGED idleLeft
     \/ Use("faults") /\ UNCHANGED <<volume, armed, tries>>
  /\ UNCHANGED <<game, touch, wifi, automation, idleEdits, failures>>

\* The game that runs, until the command succeeds or failed twice.
LookAtGame ==
  /\ At("exit")
  /\ IF ~automation["exit"] \/ ~Running
     THEN armed' = [armed EXCEPT !.exit = 0] /\ failures' = 0 /\ Then("wifi")
     ELSE /\ armed' = [armed EXCEPT !.exit = IF Stale("exit") THEN 0 ELSE @]
          /\ failures' = IF Stale("exit") THEN 0 ELSE failures
          /\ IF Due("exit") THEN idlePoll' = [pc |-> "kill", seen |-> touch.stamp] ELSE Then("wifi")
  /\ UNCHANGED <<machine, automation, idleEdits, tries, idleLeft>>

\* The command returned no error; the game is gone, or takes its time.
GameExits ==
  /\ At("kill") /\ Then("wifi")
  /\ armed' = [armed EXCEPT !.exit = idlePoll.seen] /\ failures' = 0
  /\ \/ game' = [game EXCEPT !.run = 0] /\ Anew
     \/ UNCHANGED game /\ Tried("exit")
  /\ UNCHANGED <<touch, volume, wifi, automation, idleEdits, idleLeft>>

\* Mutant: it gives up one attempt too late.
OneTooMany == failures > MaxTries
GivesUp == failures + 1 >= MaxTries

ExitFails ==
  /\ At("kill") /\ Use("faults") /\ Then("wifi") /\ Tried("exit")
  /\ failures' = failures + 1
  /\ armed' = IF GivesUp THEN [armed EXCEPT !.exit = idlePoll.seen] ELSE armed
  /\ UNCHANGED <<machine, automation, idleEdits>>

\* Wi-Fi, once a minute: disabled, three seconds later enabled.
LookAtWifi ==
  /\ At("wifi")
  /\ \/ Then("volume")
     \/ automation["wifi"] /\ ~(wifi.on /\ wifi.route) /\ Then("disable")
  /\ UNCHANGED <<machine, automation, idleEdits, armed, failures, tries, idleLeft>>

DisableWifi ==
  /\ At("disable") /\ Then("enable") /\ wifi' = [on |-> FALSE, route |-> FALSE, reset |-> TRUE]
  /\ UNCHANGED <<game, touch, volume, automation, idleEdits, armed, failures, tries, idleLeft>>

EnableWifi ==
  /\ At("enable") /\ Then("volume")
  /\ \/ wifi' = [on |-> TRUE, route |-> TRUE, reset |-> FALSE] /\ UNCHANGED idleLeft
     \/ Use("faults") /\ UNCHANGED wifi
  /\ UNCHANGED <<game, touch, volume, automation, idleEdits, armed, failures, tries>>

\* A restart forgets what the automations are done with; the handlers end.
RestartPoller ==
  /\ Use("crashes") /\ Then("volume") /\ armed' = [volume |-> 0, exit |-> 0] /\ failures' = 0
  /\ idleEdits' = [h \in Handler |-> NoEdit] /\ Anew
  /\ UNCHANGED <<machine, automation>>

IdleNext ==
  \/ Touch \/ IdleMinutesPass \/ StartGame \/ EndGame \/ TurnVolume \/ LoseRoute
  \/ \E h \in Handler : \/ \E s \in Section, on \in BOOLEAN : AskToEdit(h, s, on)
                        \/ SaveEdit(h) \/ ResetArmed(h)
  \/ LookAtVolume \/ ApplyVolume \/ LookAtGame \/ GameExits \/ ExitFails
  \/ LookAtWifi \/ DisableWifi \/ EnableWifi
  \/ RestartPoller

-----------------------------------------------------------------------------
\* In one idle period, which a touch, a game's start or end and a change of
\* the settings end, a game is not to be exited more than twice and the volume
\* set once, however the handlers and the poller meet (automation.py:355-362:
\* repeated kills took EmulationStation's session down).
EachPeriodOnce == tries.exit <= MaxTries /\ tries.volume <= 1

\* EachPeriodOnce by induction: what was done in this period has armed the
\* automation with its stamp, or the period's game or setting is not there, and
\* the game was to be exited no more often than failed attempts are counted.
Idles == [stamp : Nat \ {0}, idle : BOOLEAN]
Polls == [pc : {"volume", "apply", "exit", "kill", "wifi", "disable", "enable"}, seen : Nat]
SettingEdits == [pc : {"idle", "read", "saved"}, section : Section, read : [Section -> BOOLEAN], to : BOOLEAN]
IdleTypes ==
  /\ touch \in Idles /\ automation \in [Section -> BOOLEAN] /\ idleEdits \in [Handler -> SettingEdits]
  /\ idlePoll \in Polls /\ (idlePoll.pc \in {"apply", "kill"} => idlePoll.seen # 0)
  /\ armed \in [volume : Nat, exit : Nat] /\ failures \in Nat /\ tries \in [volume : Nat, exit : Nat]

VolumeOnce ==
  /\ tries.volume <= 1
  /\ idlePoll.pc = "apply" => tries.volume = 0
  /\ tries.volume = 0 \/ armed.volume = touch.stamp \/ ~automation["volume"] \/ game.run # 0

ExitTwice ==
  /\ tries.exit <= MaxTries /\ failures <= MaxTries /\ (failures = MaxTries => armed.exit # 0)
  /\ idlePoll.pc = "kill" => armed.exit = 0 /\ tries.exit <= failures /\ (idlePoll.seen = touch.stamp \/ tries.exit = 0)
  /\ automation["exit"] /\ game.run # 0 =>
       /\ armed.exit = 0 => tries.exit <= failures
       /\ armed.exit # 0 /\ armed.exit # touch.stamp => tries.exit = 0

IdleInv == IdleTypes /\ VolumeOnce /\ ExitTwice

\* Not so, because what the poller decides on may be over when it acts: only a
\* game whose player has been away is exited.  A game that was started from a
\* distance on an idle machine is exited at once, too.
OnlyIdleGamesAreExited == At("kill") => touch.idle

\* Not so with a fault and an edit: a Wi-Fi that the Drone disabled is enabled.
WifiComesBack == wifi.reset => At("enable") \/ automation["wifi"]

\* Not so when two handlers overlap (late): a section keeps what was saved of
\* it last (automation.py docstring of _save_automation_config).
OtherSectionsStay ==
  [][\A h \in Handler : idleEdits[h].pc = "read" /\ idleEdits'[h].pc = "saved" =>
       \A s \in Section \ {idleEdits[h].section} : automation'[s] = automation[s]]_idleVars
==============================================================================
