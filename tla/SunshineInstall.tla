--------------------------- MODULE SunshineInstall ---------------------------
(***************************************************************************)
(* Sunshine, the streaming host that Drone installs on request: the job    *)
(* that downloads and promotes it, the Batocera service written for it,    *)
(* and the requests that start, stop and remove it, with an administrator  *)
(* who may put a service of his own in the same place.                     *)
(* app/multiplayer/dependencies.py.                                        *)
(*                                                                         *)
(* Drone knows its service by a receipt: a MAC, under a key of the         *)
(* installed tree, of the script's bytes and of its inode.                 *)
(***************************************************************************)
EXTENDS Naturals, FiniteSets, TLAPS

CONSTANTS
  Requester,      \* request threads
  Installer,   \* the thread of the job
  SunBounds    \* how many requests, faults, edits and crashes; see SunInit

VARIABLES
  staging,   \* what .sunshine-staging has: "none", "image", "bad" (another image), "app"
  tree,      \* what the managed directory has: its app, the wrapper, the key
  script,    \* the service script, as an inode and a text
  receipt,   \* what the receipt is a MAC of
  service,   \* whether it is enabled, and whether Sunshine runs
  job,       \* "idle", "running", "succeeded", "failed"
  hand,      \* what each thread does
  harmed,    \* what was done to a script that is not Drone's
  serial,    \* the last inode or key made
  sunLeft
sunVars == <<staging, tree, script, receipt, service, job, hand, harmed, serial, sunLeft>>

NoTree == [app |-> "none", previous |-> "none", wrapper |-> FALSE, key |-> 0]
NoScript == [ino |-> 0, text |-> "none"]
NoReceipt == [key |-> 0, of |-> NoScript]
AtRest == [op |-> "none", pc |-> "rest", key |-> 0, made |-> 0, owned |-> FALSE]

SunInit ==
  /\ staging = "none" /\ tree = NoTree /\ script = NoScript /\ receipt = NoReceipt
  /\ service = [enabled |-> FALSE, up |-> FALSE]
  /\ job = "idle" /\ hand = [t \in Requester \cup {Installer} |-> AtRest]
  /\ harmed = {} /\ serial = 0 /\ sunLeft \in SunBounds

SpendSun(what) == sunLeft[what] > 0 /\ sunLeft' = [sunLeft EXCEPT ![what] = @ - 1]
Thread == DOMAIN hand
Resting(t) == hand[t].pc = "rest"
Does(t, pc) == hand[t].pc = pc
To(t, pc) == hand' = [hand EXCEPT ![t].pc = pc]
Rest(t) == hand' = [hand EXCEPT ![t] = AtRest]

-----------------------------------------------------------------------------
(* What Drone recognises.                                                  *)
Managed == tree.wrapper /\ tree.app # "none"
Found == tree.wrapper

\* Mutant: the script is known by the line that says who wrote it.
HasMarker == Managed /\ script.text \in {"drone", "edited"}

Owns ==
  /\ Managed /\ tree.key # 0 /\ receipt # NoReceipt
  /\ receipt.key = tree.key /\ receipt.of = script

ServiceFree == script = NoScript \/ Owns
StartBlocked == ~Managed \/ (~Owns /\ (script # NoScript \/ tree.key = 0))

\* uninstall holds the lock for as long as it takes.
Locked == \E t \in Thread : hand[t].op = "uninstall"

\* Where overlaps are not allowed, a start has the installation for itself.
Apart(op) ==
  sunLeft.late \/ \A t \in Thread : Resting(t) \/ "start" \notin {op, hand[t].op}

\* dependency_action: one request at a time by each thread.
Ask(t, op) ==
  /\ Resting(t) /\ Apart(op) /\ SpendSun("requests")
  /\ UNCHANGED <<staging, tree, script, receipt, service, harmed, serial>>

-----------------------------------------------------------------------------
(* The job.                                                                *)
StartInstall ==
  /\ ~Locked /\ job # "running" /\ ~Managed /\ ~Found
  /\ Ask(Installer, "install")
  /\ job' = "running" /\ hand' = [hand EXCEPT ![Installer] = [AtRest EXCEPT !.op = "install", !.pc = "look"]]

\* The staging directory goes whatever happened.
FailJob == job' = "failed" /\ Rest(Installer) /\ staging' = "none"
Keep == UNCHANGED <<tree, script, receipt, service, harmed, serial>>

\* _check_service_free, the release document, and the download.
Download ==
  /\ Does(Installer, "look") /\ Keep
  /\ \/ ~ServiceFree /\ FailJob /\ UNCHANGED sunLeft
     \/ ServiceFree /\ staging' = "image" /\ To(Installer, "verify") /\ UNCHANGED <<job, sunLeft>>
     \/ /\ ServiceFree /\ SpendSun("faults")
        /\ FailJob \/ (staging' = "bad" /\ To(Installer, "verify") /\ UNCHANGED job)

VerifyAndExtract ==
  /\ Does(Installer, "verify") /\ Keep
  /\ \/ staging = "bad" /\ FailJob /\ UNCHANGED sunLeft
     \/ staging = "image" /\ staging' = "app" /\ To(Installer, "promote") /\ UNCHANGED <<job, sunLeft>>
     \/ staging = "image" /\ SpendSun("faults") /\ FailJob

\* _swap_in renames what is there, moves the new app in, writes the wrapper
\* and at last mints the key.  A failure puts back what was renamed, and the
\* whole tree is removed.
Promote ==
  /\ Does(Installer, "promote")
  /\ tree' = [tree EXCEPT !.previous = tree.app, !.app = "whole"] /\ staging' = "none" /\ To(Installer, "wrap")
  /\ UNCHANGED <<script, receipt, service, job, harmed, serial, sunLeft>>

Wrap ==
  /\ Does(Installer, "wrap")
  /\ \/ tree' = [tree EXCEPT !.wrapper = TRUE] /\ To(Installer, "mint") /\ UNCHANGED sunLeft
     \/ SpendSun("faults") /\ tree' = [tree EXCEPT !.app = tree.previous, !.previous = "none"] /\ To(Installer, "undo")
  /\ UNCHANGED <<staging, script, receipt, service, job, harmed, serial>>

Mint ==
  /\ Does(Installer, "mint")
  /\ tree' = [tree EXCEPT !.key = serial + 1, !.previous = "none"] /\ serial' = serial + 1 /\ To(Installer, "service")
  /\ UNCHANGED <<staging, script, receipt, service, job, harmed, sunLeft>>

-----------------------------------------------------------------------------
(* _write_service, by the job or by a start.                               *)
Erred(t) == IF t = Installer THEN To(t, "undo") ELSE Rest(t)

ReadKey(t) ==
  /\ Does(t, "service")
  /\ IF Owns THEN To(t, "enable")
     ELSE IF ~ServiceFree \/ tree.key = 0 THEN Erred(t)
     ELSE hand' = [hand EXCEPT ![t].pc = "script", ![t].key = tree.key]
  /\ UNCHANGED <<staging, tree, script, receipt, service, job, harmed, serial, sunLeft>>

\* The script is created exclusively.
CreateScript(t) ==
  /\ Does(t, "script")
  /\ IF script # NoScript
     THEN Erred(t) /\ UNCHANGED <<script, serial>>
     ELSE /\ script' = [ino |-> serial + 1, text |-> "drone"] /\ serial' = serial + 1
          /\ hand' = [hand EXCEPT ![t].pc = "receipt", ![t].made = serial + 1]
  /\ UNCHANGED <<staging, tree, receipt, service, job, harmed, sunLeft>>

\* Mutant: a script without its receipt stays.
Stranded(t) == script

\* Only the inode that this operation made is removed.
WithoutMine(t) == IF script.ino = hand[t].made THEN NoScript ELSE script

WriteReceipt(t) ==
  /\ Does(t, "receipt")
  /\ \/ /\ script # NoScript /\ receipt' = [key |-> hand[t].key, of |-> script]
        /\ To(t, "enable") /\ UNCHANGED <<script, sunLeft>>
     \/ /\ IF script = NoScript THEN UNCHANGED sunLeft ELSE SpendSun("faults")
        /\ script' = WithoutMine(t) /\ Erred(t) /\ UNCHANGED receipt
  /\ UNCHANGED <<staging, tree, service, job, harmed, serial>>

\* _discard_service, after which the tree is removed.
Undo ==
  /\ Does(Installer, "undo") /\ To(Installer, "remove")
  /\ IF Owns THEN script' = NoScript /\ receipt' = NoReceipt ELSE UNCHANGED <<script, receipt>>
  /\ UNCHANGED <<staging, tree, service, job, harmed, serial, sunLeft>>

-----------------------------------------------------------------------------
(* Starting: Batocera enables and runs whatever the service's name is.     *)
BeginStart(t) ==
  /\ job # "running" /\ Ask(t, "start") /\ UNCHANGED job
  /\ hand' = [hand EXCEPT ![t] = [AtRest EXCEPT !.op = "start", !.pc = "block"]]

Block(t) ==
  /\ Does(t, "block") /\ IF StartBlocked THEN Rest(t) ELSE To(t, IF Owns THEN "enable" ELSE "service")
  /\ UNCHANGED <<staging, tree, script, receipt, service, job, harmed, serial, sunLeft>>

Enable(t) ==
  /\ Does(t, "enable") /\ To(t, "start") /\ service' = [service EXCEPT !.enabled = TRUE]
  /\ UNCHANGED <<staging, tree, script, receipt, job, harmed, serial, sunLeft>>

Foreign == script # NoScript /\ script.text # "drone"

RunScript(t) ==
  /\ Does(t, "start") /\ Rest(t)
  /\ service' = [service EXCEPT !.up = @ \/ (script # NoScript /\ tree.wrapper)]
  /\ harmed' = IF Foreign THEN harmed \cup {"run"} ELSE harmed
  /\ job' = IF t = Installer THEN "succeeded" ELSE job
  /\ UNCHANGED <<staging, tree, script, receipt, serial, sunLeft>>

\* Stopping, which is also the first part of an uninstall.
BeginStop(t) ==
  /\ Ask(t, "stop") /\ UNCHANGED job
  /\ hand' = [hand EXCEPT ![t] = [AtRest EXCEPT !.op = "stop", !.pc = "stop", !.owned = Owns]]

BeginUninstall(t) ==
  /\ ~Locked /\ job # "running" /\ (Managed \/ Owns) /\ Ask(t, "uninstall") /\ UNCHANGED job
  /\ hand' = [hand EXCEPT ![t] = [AtRest EXCEPT !.op = "uninstall", !.pc = IF Owns THEN "stop" ELSE "remove", !.owned = Owns]]

StopService(t) ==
  /\ Does(t, "stop")
  /\ service' = IF Owns THEN [service EXCEPT !.up = FALSE] ELSE service
  /\ IF hand[t].op = "uninstall" THEN To(t, "unlink") ELSE Rest(t)
  /\ UNCHANGED <<staging, tree, script, receipt, job, harmed, serial, sunLeft>>

Unlink(t) ==
  /\ Does(t, "unlink") /\ To(t, "record")
  /\ service' = [service EXCEPT !.enabled = FALSE] /\ script' = NoScript
  /\ harmed' = IF Foreign THEN harmed \cup {"removed"} ELSE harmed
  /\ UNCHANGED <<staging, tree, receipt, job, serial, sunLeft>>

UnlinkRecord(t) ==
  /\ Does(t, "record") /\ To(t, "remove") /\ receipt' = NoReceipt
  /\ UNCHANGED <<staging, tree, script, service, job, harmed, serial, sunLeft>>

\* _remove_tree goes through the directory in any order.
RemoveTree(t) ==
  /\ Does(t, "remove")
  /\ \/ tree = NoTree /\ staging' = "none" /\ Rest(t)
        /\ job' = (IF t = Installer THEN "failed" ELSE "idle") /\ UNCHANGED tree
     \/ \E part \in {p \in DOMAIN tree : tree[p] # NoTree[p]} :
          tree' = [tree EXCEPT ![part] = NoTree[part]] /\ UNCHANGED <<hand, job, staging>>
  /\ UNCHANGED <<script, receipt, service, harmed, serial, sunLeft>>

-----------------------------------------------------------------------------
(* Others.  The administrator edits, replaces or writes the script; Drone  *)
(* is restarted, while Sunshine runs on.                                   *)
Unlooked == sunLeft.late \/ \A t \in Thread : Resting(t) \/ hand[t].pc \in {"look", "verify", "promote", "wrap", "mint", "block"}

Edit ==
  /\ Unlooked /\ SpendSun("edits")
  /\ \/ script.text = "drone" /\ script' = [script EXCEPT !.text = "edited"] /\ UNCHANGED serial
     \/ script' = [ino |-> serial + 1, text |-> "other"] /\ serial' = serial + 1
     \/ script.text = "drone" /\ script' = [ino |-> serial + 1, text |-> "edited"] /\ serial' = serial + 1
  /\ UNCHANGED <<staging, tree, receipt, service, job, hand, harmed>>

SunCrash ==
  /\ SpendSun("crashes") /\ (sunLeft.torn \/ \A t \in Thread : hand[t].pc # "receipt")
  /\ hand' = [t \in Thread |-> AtRest] /\ job' = "idle"
  /\ UNCHANGED <<staging, tree, script, receipt, service, harmed, serial>>

SunNext ==
  \/ StartInstall \/ Download \/ VerifyAndExtract \/ Promote \/ Wrap \/ Mint \/ Undo
  \/ \E t \in Thread : ReadKey(t) \/ CreateScript(t) \/ WriteReceipt(t) \/ Enable(t) \/ RunScript(t) \/ RemoveTree(t)
  \/ \E t \in Requester :
       \/ BeginStart(t) \/ Block(t) \/ BeginStop(t) \/ BeginUninstall(t)
       \/ StopService(t) \/ Unlink(t) \/ UnlinkRecord(t)
  \/ Edit \/ SunCrash

SunSpec == SunInit /\ [][SunNext]_sunVars

-----------------------------------------------------------------------------
\* What the administrator put in the service's place is neither run nor
\* removed, and no script of its own is left where Drone no longer knows it,
\* which would refuse every later install (_owns_service, _check_service_free).
SunshineIsContained ==
  /\ harmed = {}
  /\ (\A t \in Thread : Resting(t)) /\ script.text = "drone" => Owns

\* SunshineIsContained by induction, without late and torn: one thread at a time
\* changes what is installed; a script that says it is Drone's is known by its
\* receipt unless that is about to be written, and neither a job nor an
\* uninstall takes the tree apart while there is such a script.
Text == {"none", "drone", "edited", "other"}
Script == [ino : Nat, text : Text]
IsTree(t) == t = [app |-> t.app, previous |-> t.previous, wrapper |-> t.wrapper, key |-> t.key] /\ t.key \in Nat
Op == {"none", "install", "start", "stop", "uninstall"}
Step == {"rest", "look", "verify", "promote", "wrap", "mint", "service", "script", "receipt", "undo",
         "block", "enable", "start", "stop", "unlink", "record", "remove"}
HandTypes == hand \in [Requester \cup {Installer} -> [op : Op, pc : Step, key : Nat, made : Nat, owned : BOOLEAN]]
StateTypes ==
  /\ IsTree(tree) /\ script \in Script /\ serial \in Nat
  /\ (script.text = "none" <=> script = NoScript)
  /\ receipt \in [key : {receipt.key}, of : Script] /\ (receipt # NoReceipt => receipt.of.text = "drone")
  /\ {"late", "torn"} \subseteq DOMAIN sunLeft /\ ~sunLeft.late /\ ~sunLeft.torn

Owned == script.text = "drone" => Owns
Busy(t) == hand[t].op \in {"install", "start", "uninstall"}
Alone == \A t, u \in Thread : Busy(t) /\ Busy(u) => t = u
StartsAlone == \A t, u \in Thread : hand[t].op = "start" /\ ~Resting(u) => t = u

InOrder(t) ==
  /\ Resting(t) <=> hand[t] = AtRest
  /\ Resting(t) <=> hand[t].op = "none"
  /\ hand[t].op = "install" => t = Installer /\ job = "running" /\ hand[t].pc \in
       {"look", "verify", "promote", "wrap", "mint", "service", "script", "receipt", "undo", "enable", "start", "remove"}
  /\ hand[t].op = "stop" => Does(t, "stop")
  /\ hand[t].op = "start" => hand[t].pc \in {"block", "service", "script", "receipt", "enable", "start"}
  /\ hand[t].op = "uninstall" => hand[t].pc \in {"stop", "unlink", "record", "remove"}
  /\ t = Installer => hand[t].op \in {"none", "install"}

Prepared(t) ==
  /\ hand[t].pc \in {"look", "verify", "promote", "wrap", "mint", "undo", "record", "remove"} => script.text # "drone"
  /\ hand[t].pc = "mint" => tree.wrapper /\ tree.app # "none"
  /\ hand[t].pc = "wrap" => tree.app # "none"
  /\ hand[t].pc \in {"service", "script", "receipt"} => Managed
  /\ hand[t].pc \in {"script", "receipt"} => hand[t].key = tree.key /\ tree.key # 0
  /\ hand[t].pc = "script" => script = NoScript
  /\ hand[t].pc = "receipt" => script = [ino |-> hand[t].made, text |-> "drone"]
  /\ hand[t].pc \in {"enable", "start", "unlink"} \/ (hand[t].pc = "stop" /\ hand[t].op = "uninstall") => ~Foreign

SunInv ==
  /\ HandTypes /\ StateTypes /\ harmed = {} /\ Alone /\ StartsAlone
  /\ \A t \in Thread : InOrder(t) /\ Prepared(t)
  /\ (\A t \in Thread : ~Does(t, "receipt")) => Owned

\* Not held by the code: what is there can be installed or removed.  A
\* removal cut off may leave the wrapper without the app.
NeverStuck == (\A t \in Thread : Resting(t)) /\ Found => Managed

-----------------------------------------------------------------------------
(* SunInv is inductive.                                                    *)

JobApart == Installer \notin Requester

\* Where no request overlaps a start and no crash is torn.
LEMMA SunBegins == ASSUME SunInit, \A b \in SunBounds : {"late", "torn"} \subseteq DOMAIN b /\ ~b.late /\ ~b.torn
                   PROVE  SunInv
<1>1. HandTypes /\ StateTypes /\ Thread = Requester \cup {Installer}
  BY DEF SunInit, HandTypes, StateTypes, IsTree, NoTree, NoScript, NoReceipt, AtRest, Script, Text, Thread, Op, Step
<1>2. \A t \in Thread : hand[t] = AtRest
  BY DEF SunInit, Thread
<1> QED
  BY <1>1, <1>2 DEF SunInit, SunInv, Alone, StartsAlone, Busy, AtRest, InOrder, Prepared, Resting, Does, Owned, NoScript

\* What a turn of one thread does to the hands.
LEMMA HandTurns ==
  ASSUME HandTypes, NEW t \in Thread, NEW h \in [op : Op, pc : Step, key : Nat, made : Nat, owned : BOOLEAN],
         hand' = [hand EXCEPT ![t] = h]
  PROVE  HandTypes' /\ Thread' = Thread /\ hand'[t] = h /\ \A u \in Thread \ {t} : hand'[u] = hand[u]
BY DEF HandTypes, Thread

\* A thread that is busy has the installation for itself.
LEMMA BusyStep ==
  ASSUME SunInv, NEW t \in Thread, Busy(t), NEW h \in [op : Op, pc : Step, key : Nat, made : Nat, owned : BOOLEAN],
         hand' = [hand EXCEPT ![t] = h], h = AtRest \/ h.op = hand[t].op, StateTypes', harmed' = {},
         InOrder(t)', Prepared(t)', h.pc = "receipt" \/ Owned'
  PROVE  SunInv'
<1>0. HandTypes' /\ Thread' = Thread /\ hand'[t] = h /\ \A u \in Thread \ {t} : hand'[u] = hand[u]
  BY HandTurns DEF SunInv
<1>1. \A u \in Thread \ {t} : ~Busy(u)
  BY DEF SunInv, Alone
<1>2. \A u \in Thread \ {t} : ~Busy(u)' /\ hand[u].pc \in {"rest", "stop"} /\ (hand[u].pc = "stop" => hand[u].op = "stop")
  BY <1>0, <1>1 DEF SunInv, Busy, InOrder, Does, Resting, HandTypes, Thread, AtRest, Op
<1>3. \A u \in Thread \ {t} : InOrder(u)' /\ Prepared(u)'
  BY <1>0, <1>1, <1>2 DEF SunInv, Busy, InOrder, Prepared, Does, Resting
<1>4. Alone'
  BY <1>0, <1>2 DEF Alone
<1>5. StartsAlone'
  BY <1>0, <1>2 DEF SunInv, StartsAlone, Busy, Resting, AtRest
<1> QED
  BY <1>0, <1>3, <1>4, <1>5 DEF SunInv, Does

\* Such a thread comes to rest.
LEMMA RestStep ==
  ASSUME SunInv, NEW t \in Thread, Busy(t), Rest(t), StateTypes', harmed' = {}, Owned'
  PROVE  SunInv'
<1>1. AtRest \in [op : Op, pc : Step, key : Nat, made : Nat, owned : BOOLEAN]
  BY DEF AtRest, Op, Step
<1>2. hand'[t] = AtRest
  BY <1>1, HandTurns DEF Rest, SunInv
<1>3. InOrder(t)' /\ Prepared(t)'
  BY <1>2 DEF InOrder, Prepared, Resting, Does, AtRest
<1> QED
  BY <1>1, <1>3, BusyStep DEF Rest

\* It goes on; with is what it has made of its key and its script.
Follows(t, p) ==
  /\ p # "rest" /\ p # "stop"
  /\ hand[t].op = "install" => p \in
       {"look", "verify", "promote", "wrap", "mint", "service", "script", "receipt", "undo", "enable", "start", "remove"}
  /\ hand[t].op = "start" => p \in {"block", "service", "script", "receipt", "enable", "start"}
  /\ hand[t].op = "uninstall" => p \in {"stop", "unlink", "record", "remove"}
LEMMA TurnStep ==
  ASSUME SunInv, NEW t \in Thread, Busy(t), NEW p \in Step, NEW k \in Nat, NEW n \in Nat, Follows(t, p),
         hand' = [hand EXCEPT ![t] = [hand[t] EXCEPT !.pc = p, !.key = k, !.made = n]],
         StateTypes', harmed' = {}, job' = job,
         p \in {"look", "verify", "promote", "wrap", "mint", "undo", "record", "remove"} => script'.text # "drone",
         p = "mint" => tree'.wrapper /\ tree'.app # "none", p = "wrap" => tree'.app # "none",
         p \in {"service", "script", "receipt"} => Managed',
         p \in {"script", "receipt"} => k = tree'.key /\ tree'.key # 0,
         p = "script" => script' = NoScript,
         p = "receipt" => script' = [ino |-> n, text |-> "drone"],
         p \in {"enable", "start", "unlink"} => ~Foreign',
         p = "receipt" \/ Owned'
  PROVE  SunInv'
<1> DEFINE h == [hand[t] EXCEPT !.pc = p, !.key = k, !.made = n]
<1>1. /\ h \in [op : Op, pc : Step, key : Nat, made : Nat, owned : BOOLEAN]
      /\ h.op = hand[t].op /\ h.pc = p /\ h.key = k /\ h.made = n
  BY DEF SunInv, HandTypes, Thread
<1>2. hand' = [hand EXCEPT ![t] = h]
  OBVIOUS
<1> HIDE DEF h
<1>3. hand'[t] = h
  BY ZenonT(60), <1>1, <1>2, HandTurns DEF SunInv
<1>4. InOrder(t)'
  BY <1>1, <1>3 DEF SunInv, InOrder, Busy, Resting, Does, Follows, AtRest
<1>5. Prepared(t)'
  BY <1>1, <1>3 DEF Prepared, Does, Follows
<1> QED
  BY <1>1, <1>2, <1>4, <1>5, BusyStep

\* To changes the place and nothing else.
LEMMA ToIs ==
  ASSUME HandTypes, NEW t \in Thread, NEW p \in Step, To(t, p)
  PROVE  /\ hand' = [hand EXCEPT ![t] = [hand[t] EXCEPT !.pc = p, !.key = hand[t].key, !.made = hand[t].made]]
         /\ hand[t].key \in Nat /\ hand[t].made \in Nat
<1>1. hand[t] \in [op : Op, pc : Step, key : Nat, made : Nat, owned : BOOLEAN]
  BY DEF HandTypes, Thread
<1>2. [hand[t] EXCEPT !.pc = p] = [hand[t] EXCEPT !.pc = p, !.key = hand[t].key, !.made = hand[t].made]
  BY <1>1
<1>3. hand' = [hand EXCEPT ![t] = [hand[t] EXCEPT !.pc = p]]
  BY DEF To
<1> QED BY <1>1, <1>2, <1>3

\* A turn that only moves on.
LEMMA TurnTo ==
  ASSUME SunInv, NEW t \in Thread, Busy(t), NEW p \in Step, Follows(t, p), To(t, p),
         StateTypes', harmed' = {}, job' = job,
         p \in {"look", "verify", "promote", "wrap", "mint", "undo", "record", "remove"} => script'.text # "drone",
         p = "mint" => tree'.wrapper /\ tree'.app # "none", p = "wrap" => tree'.app # "none",
         p = "service" => Managed', p \notin {"script", "receipt"},
         p \in {"enable", "start", "unlink"} => ~Foreign', Owned'
  PROVE  SunInv'
<1>1. HandTypes
  BY DEF SunInv
<1> DEFINE Turned(k, n) == [hand EXCEPT ![t] = [hand[t] EXCEPT !.pc = p, !.key = k, !.made = n]]
<1>2. hand' = Turned(hand[t].key, hand[t].made) /\ hand[t].key \in Nat /\ hand[t].made \in Nat
  BY <1>1, ToIs
<1> HIDE DEF Turned
<1>6. PICK k \in Nat, n \in Nat : hand' = Turned(k, n)
  BY <1>2
<1>7. hand' = [hand EXCEPT ![t] = [hand[t] EXCEPT !.pc = p, !.key = k, !.made = n]]
  BY <1>6 DEF Turned
<1>3. p # "script" /\ p # "receipt"
  OBVIOUS
<1>4. p \in {"service", "script", "receipt"} => Managed'
  BY <1>3
<1>5. p \in {"script", "receipt"} => k = tree'.key /\ tree'.key # 0
  BY <1>3
<1> QED BY <1>7, <1>3, <1>4, <1>5, TurnStep

\* Whoever is about anything but a stop is busy.
LEMMA Busies == ASSUME SunInv, NEW t \in Thread, ~Resting(t), hand[t].op # "stop" PROVE Busy(t)
BY DEF SunInv, HandTypes, InOrder, Busy, Thread, Op

\* Only the busy thread can be about to write a receipt.
LEMMA OwnedNow == ASSUME SunInv, NEW t \in Thread, Busy(t), ~Does(t, "receipt") PROVE Owned
<1>1. \A u \in Thread \ {t} : hand[u].op \notin {"install", "start", "uninstall"}
  BY DEF SunInv, Alone, Busy
<1>2. \A u \in Thread \ {t} : ~Does(u, "receipt")
  BY <1>1 DEF SunInv, HandTypes, Thread, InOrder, Does, Resting, Op, AtRest
<1> QED BY <1>2 DEF SunInv

\* The places a thread may be at.
LEMMA Steps == /\ {"rest", "look", "verify", "promote", "wrap", "mint", "service", "script", "receipt", "undo",
                   "block", "enable", "start", "stop", "unlink", "record", "remove"} \subseteq Step
BY DEF Step


-----------------------------------------------------------------------------
(* Each action keeps SunInv: first those of a busy thread.                 *)
LEMMA DownloadKeeps == ASSUME SunInv, Download PROVE SunInv'
<1>1. Installer \in Thread /\ HandTypes /\ StateTypes /\ Prepared(Installer) /\ InOrder(Installer) /\ harmed = {}
  BY DEF SunInv, HandTypes, Thread
<1>2. Busy(Installer) /\ hand[Installer].op = "install"
  BY <1>1, Busies DEF Download, Does, InOrder, Resting, Busy, HandTypes, Op, Thread
<1>3. StateTypes'
  <2>1. IsTree(tree')
    BY <1>1 DEF Download, FailJob, Keep, ServiceFree, SpendSun, StateTypes, IsTree
  <2>2. script' \in Script /\ serial' \in Nat /\ (script'.text = "none" <=> script' = NoScript)
    BY <1>1 DEF Download, FailJob, Keep, ServiceFree, SpendSun, StateTypes, Script, Text, NoScript
  <2>3. receipt' \in [key : {receipt'.key}, of : Script] /\ (receipt' # NoReceipt => receipt'.of.text = "drone")
    BY <1>1 DEF Download, FailJob, Keep, ServiceFree, SpendSun, StateTypes, Prepared, Does, Script, Text, NoScript, NoReceipt
  <2>4. {"late", "torn"} \subseteq DOMAIN sunLeft' /\ ~sunLeft'.late /\ ~sunLeft'.torn
    BY <1>1 DEF Download, FailJob, Keep, ServiceFree, SpendSun, StateTypes
  <2> QED BY <2>1, <2>2, <2>3, <2>4 DEF StateTypes
<1>4. harmed' = {}
  BY <1>1 DEF Download, FailJob, Keep, ServiceFree, SpendSun, Prepared, Does
<1>5. ~Does(Installer, "receipt") => Owned
  BY <1>1, <1>2, OwnedNow
<1>6. CASE Rest(Installer)
  <2>1. Owned'
    BY <1>1, <1>2, <1>5, <1>6 DEF Download, FailJob, Keep, ServiceFree, SpendSun, SunInv, Prepared, Does, Follows, Owned, Owns, Managed, NoScript, NoReceipt, NoTree
  <2> QED BY <1>1, <1>2, <1>3, <1>4, <1>6, <2>1, RestStep
<1>7. CASE To(Installer, "verify") /\ job' = job
  <2>1. job' = job /\ Follows(Installer, "verify")
    BY <1>1, <1>2, <1>5, <1>7 DEF Download, FailJob, Keep, ServiceFree, SpendSun, To, InOrder, Follows, HandTypes, Thread, Does, AtRest
  <2>2. script'.text # "drone" /\ Owned'
    BY <1>1, <1>2, <1>5, <1>7 DEF Download, FailJob, Keep, ServiceFree, SpendSun, SunInv, StateTypes, IsTree, Prepared, Does, Foreign, Owned, Owns, Managed, NoScript, NoReceipt, NoTree
  <2> QED BY <1>1, <1>2, <1>3, <1>4, <1>7, <2>1, <2>2, TurnTo, Steps
<1> QED
  BY <1>1, <1>6, <1>7 DEF Download, FailJob, Keep, ServiceFree, SpendSun

LEMMA VerifyAndExtractKeeps == ASSUME SunInv, VerifyAndExtract PROVE SunInv'
<1>1. Installer \in Thread /\ HandTypes /\ StateTypes /\ Prepared(Installer) /\ InOrder(Installer) /\ harmed = {}
  BY DEF SunInv, HandTypes, Thread
<1>2. Busy(Installer) /\ hand[Installer].op = "install"
  BY <1>1, Busies DEF VerifyAndExtract, Does, InOrder, Resting, Busy, HandTypes, Op, Thread
<1>3. StateTypes'
  <2>1. IsTree(tree')
    BY <1>1 DEF VerifyAndExtract, FailJob, Keep, SpendSun, StateTypes, IsTree
  <2>2. script' \in Script /\ serial' \in Nat /\ (script'.text = "none" <=> script' = NoScript)
    BY <1>1 DEF VerifyAndExtract, FailJob, Keep, SpendSun, StateTypes, Script, Text, NoScript
  <2>3. receipt' \in [key : {receipt'.key}, of : Script] /\ (receipt' # NoReceipt => receipt'.of.text = "drone")
    BY <1>1 DEF VerifyAndExtract, FailJob, Keep, SpendSun, StateTypes, Prepared, Does, Script, Text, NoScript, NoReceipt
  <2>4. {"late", "torn"} \subseteq DOMAIN sunLeft' /\ ~sunLeft'.late /\ ~sunLeft'.torn
    BY <1>1 DEF VerifyAndExtract, FailJob, Keep, SpendSun, StateTypes
  <2> QED BY <2>1, <2>2, <2>3, <2>4 DEF StateTypes
<1>4. harmed' = {}
  BY <1>1 DEF VerifyAndExtract, FailJob, Keep, SpendSun, Prepared, Does
<1>5. ~Does(Installer, "receipt") => Owned
  BY <1>1, <1>2, OwnedNow
<1>6. CASE Rest(Installer)
  <2>1. Owned'
    BY <1>1, <1>2, <1>5, <1>6 DEF VerifyAndExtract, FailJob, Keep, SpendSun, SunInv, Prepared, Does, Follows, Owned, Owns, Managed, NoScript, NoReceipt, NoTree
  <2> QED BY <1>1, <1>2, <1>3, <1>4, <1>6, <2>1, RestStep
<1>7. CASE To(Installer, "promote") /\ job' = job
  <2>1. job' = job /\ Follows(Installer, "promote")
    BY <1>1, <1>2, <1>5, <1>7 DEF VerifyAndExtract, FailJob, Keep, SpendSun, To, InOrder, Follows, HandTypes, Thread, Does, AtRest
  <2>2. script'.text # "drone" /\ Owned'
    BY <1>1, <1>2, <1>5, <1>7 DEF VerifyAndExtract, FailJob, Keep, SpendSun, SunInv, StateTypes, IsTree, Prepared, Does, Foreign, Owned, Owns, Managed, NoScript, NoReceipt, NoTree
  <2> QED BY <1>1, <1>2, <1>3, <1>4, <1>7, <2>1, <2>2, TurnTo, Steps
<1> QED
  BY <1>1, <1>6, <1>7 DEF VerifyAndExtract, FailJob, Keep, SpendSun

LEMMA PromoteKeeps == ASSUME SunInv, Promote PROVE SunInv'
<1>1. Installer \in Thread /\ HandTypes /\ StateTypes /\ Prepared(Installer) /\ InOrder(Installer) /\ harmed = {}
  BY DEF SunInv, HandTypes, Thread
<1>2. Busy(Installer) /\ hand[Installer].op = "install"
  BY <1>1, Busies DEF Promote, Does, InOrder, Resting, Busy, HandTypes, Op, Thread
<1>3. StateTypes'
  <2>1. IsTree(tree')
    BY <1>1 DEF Promote, StateTypes, IsTree
  <2>2. script' \in Script /\ serial' \in Nat /\ (script'.text = "none" <=> script' = NoScript)
    BY <1>1 DEF Promote, StateTypes, Script, Text, NoScript
  <2>3. receipt' \in [key : {receipt'.key}, of : Script] /\ (receipt' # NoReceipt => receipt'.of.text = "drone")
    BY <1>1 DEF Promote, StateTypes, Prepared, Does, Script, Text, NoScript, NoReceipt
  <2>4. {"late", "torn"} \subseteq DOMAIN sunLeft' /\ ~sunLeft'.late /\ ~sunLeft'.torn
    BY <1>1 DEF Promote, StateTypes
  <2> QED BY <2>1, <2>2, <2>3, <2>4 DEF StateTypes
<1>4. harmed' = {}
  BY <1>1 DEF Promote, Prepared, Does
<1>5. ~Does(Installer, "receipt") => Owned
  BY <1>1, <1>2, OwnedNow
<1>6. CASE To(Installer, "wrap") /\ job' = job
  <2>1. job' = job /\ Follows(Installer, "wrap")
    BY <1>1, <1>2, <1>5, <1>6 DEF Promote, To, InOrder, Follows, HandTypes, Thread, Does, AtRest
  <2>2. script'.text # "drone" /\ tree'.app # "none" /\ Owned'
    BY <1>1, <1>2, <1>5, <1>6 DEF Promote, SunInv, StateTypes, IsTree, Prepared, Does, Foreign, Owned, Owns, Managed, NoScript, NoReceipt, NoTree
  <2> QED BY <1>1, <1>2, <1>3, <1>4, <1>6, <2>1, <2>2, TurnTo, Steps
<1> QED
  BY <1>1, <1>6 DEF Promote

LEMMA WrapKeeps == ASSUME SunInv, Wrap PROVE SunInv'
<1>1. Installer \in Thread /\ HandTypes /\ StateTypes /\ Prepared(Installer) /\ InOrder(Installer) /\ harmed = {}
  BY DEF SunInv, HandTypes, Thread
<1>2. Busy(Installer) /\ hand[Installer].op = "install"
  BY <1>1, Busies DEF Wrap, Does, InOrder, Resting, Busy, HandTypes, Op, Thread
<1>3. StateTypes'
  <2>1. IsTree(tree')
    BY <1>1 DEF Wrap, SpendSun, StateTypes, IsTree
  <2>2. script' \in Script /\ serial' \in Nat /\ (script'.text = "none" <=> script' = NoScript)
    BY <1>1 DEF Wrap, SpendSun, StateTypes, Script, Text, NoScript
  <2>3. receipt' \in [key : {receipt'.key}, of : Script] /\ (receipt' # NoReceipt => receipt'.of.text = "drone")
    BY <1>1 DEF Wrap, SpendSun, StateTypes, Prepared, Does, Script, Text, NoScript, NoReceipt
  <2>4. {"late", "torn"} \subseteq DOMAIN sunLeft' /\ ~sunLeft'.late /\ ~sunLeft'.torn
    BY <1>1 DEF Wrap, SpendSun, StateTypes
  <2> QED BY <2>1, <2>2, <2>3, <2>4 DEF StateTypes
<1>4. harmed' = {}
  BY <1>1 DEF Wrap, SpendSun, Prepared, Does
<1>5. ~Does(Installer, "receipt") => Owned
  BY <1>1, <1>2, OwnedNow
<1>6. CASE To(Installer, "mint") /\ job' = job /\ tree' = [tree EXCEPT !.wrapper = TRUE]
  <2>1. job' = job /\ Follows(Installer, "mint")
    BY <1>1, <1>2, <1>5, <1>6 DEF Wrap, SpendSun, To, InOrder, Follows, HandTypes, Thread, Does, AtRest
  <2>2. script'.text # "drone" /\ tree'.wrapper /\ tree'.app # "none" /\ Owned'
    BY <1>1, <1>2, <1>5, <1>6 DEF Wrap, SpendSun, SunInv, StateTypes, IsTree, Prepared, Does, Foreign, Owned, Owns, Managed, NoScript, NoReceipt, NoTree
  <2> QED BY <1>1, <1>2, <1>3, <1>4, <1>6, <2>1, <2>2, TurnTo, Steps
<1>7. CASE To(Installer, "undo") /\ job' = job /\ UNCHANGED script
  <2>1. job' = job /\ Follows(Installer, "undo")
    BY <1>1, <1>2, <1>5, <1>7 DEF Wrap, SpendSun, To, InOrder, Follows, HandTypes, Thread, Does, AtRest
  <2>2. script'.text # "drone" /\ Owned'
    BY <1>1, <1>2, <1>5, <1>7 DEF Wrap, SpendSun, SunInv, StateTypes, IsTree, Prepared, Does, Foreign, Owned, Owns, Managed, NoScript, NoReceipt, NoTree
  <2> QED BY <1>1, <1>2, <1>3, <1>4, <1>7, <2>1, <2>2, TurnTo, Steps
<1> QED
  BY <1>1, <1>6, <1>7 DEF Wrap, SpendSun

LEMMA MintKeeps == ASSUME SunInv, Mint PROVE SunInv'
<1>1. Installer \in Thread /\ HandTypes /\ StateTypes /\ Prepared(Installer) /\ InOrder(Installer) /\ harmed = {}
  BY DEF SunInv, HandTypes, Thread
<1>2. Busy(Installer) /\ hand[Installer].op = "install"
  BY <1>1, Busies DEF Mint, Does, InOrder, Resting, Busy, HandTypes, Op, Thread
<1>3. StateTypes'
  <2>1. IsTree(tree')
    <3>1. tree = [app |-> tree.app, previous |-> tree.previous, wrapper |-> tree.wrapper, key |-> tree.key]
      BY <1>1 DEF StateTypes, IsTree
    <3>2. tree' = [app |-> tree.app, previous |-> "none", wrapper |-> tree.wrapper, key |-> serial + 1]
      BY <3>1 DEF Mint
    <3>3. serial + 1 \in Nat
      BY <1>1 DEF StateTypes
    <3> QED BY <3>2, <3>3 DEF IsTree
  <2>2. script' \in Script /\ serial' \in Nat /\ (script'.text = "none" <=> script' = NoScript)
    BY <1>1 DEF Mint, StateTypes, Script, Text, NoScript
  <2>3. receipt' \in [key : {receipt'.key}, of : Script] /\ (receipt' # NoReceipt => receipt'.of.text = "drone")
    BY <1>1 DEF Mint, StateTypes, Prepared, Does, Script, Text, NoScript, NoReceipt
  <2>4. {"late", "torn"} \subseteq DOMAIN sunLeft' /\ ~sunLeft'.late /\ ~sunLeft'.torn
    BY <1>1 DEF Mint, StateTypes
  <2> QED BY <2>1, <2>2, <2>3, <2>4 DEF StateTypes
<1>4. harmed' = {}
  BY <1>1 DEF Mint, Prepared, Does
<1>5. ~Does(Installer, "receipt") => Owned
  BY <1>1, <1>2, OwnedNow
<1>6. CASE To(Installer, "service") /\ job' = job
  <2>1. job' = job /\ Follows(Installer, "service")
    BY <1>1, <1>2, <1>5, <1>6 DEF Mint, To, InOrder, Follows, HandTypes, Thread, Does, AtRest
  <2>2. Managed' /\ Owned'
    BY <1>1, <1>2, <1>5, <1>6 DEF Mint, SunInv, StateTypes, IsTree, Prepared, Does, Foreign, Owned, Owns, Managed, NoScript, NoReceipt, NoTree
  <2> QED BY <1>1, <1>2, <1>3, <1>4, <1>6, <2>1, <2>2, TurnTo, Steps
<1> QED
  BY <1>1, <1>6 DEF Mint

LEMMA UndoKeeps == ASSUME SunInv, Undo PROVE SunInv'
<1>1. Installer \in Thread /\ HandTypes /\ StateTypes /\ Prepared(Installer) /\ InOrder(Installer) /\ harmed = {}
  BY DEF SunInv, HandTypes, Thread
<1>2. Busy(Installer) /\ hand[Installer].op = "install"
  BY <1>1, Busies DEF Undo, Does, InOrder, Resting, Busy, HandTypes, Op, Thread
<1>3. StateTypes'
  <2>1. IsTree(tree')
    BY <1>1 DEF Undo, StateTypes, IsTree
  <2>2. script' \in Script /\ serial' \in Nat /\ (script'.text = "none" <=> script' = NoScript)
    BY <1>1 DEF Undo, StateTypes, Script, Text, NoScript
  <2>3. receipt' \in [key : {receipt'.key}, of : Script] /\ (receipt' # NoReceipt => receipt'.of.text = "drone")
    BY <1>1 DEF Undo, StateTypes, Prepared, Does, Script, Text, NoScript, NoReceipt
  <2>4. {"late", "torn"} \subseteq DOMAIN sunLeft' /\ ~sunLeft'.late /\ ~sunLeft'.torn
    BY <1>1 DEF Undo, StateTypes
  <2> QED BY <2>1, <2>2, <2>3, <2>4 DEF StateTypes
<1>4. harmed' = {}
  BY <1>1 DEF Undo, Prepared, Does
<1>5. ~Does(Installer, "receipt") => Owned
  BY <1>1, <1>2, OwnedNow
<1>6. CASE To(Installer, "remove") /\ job' = job
  <2>1. job' = job /\ Follows(Installer, "remove")
    BY <1>1, <1>2, <1>5, <1>6 DEF Undo, To, InOrder, Follows, HandTypes, Thread, Does, AtRest
  <2>2. script'.text # "drone" /\ Owned'
    BY <1>1, <1>2, <1>5, <1>6 DEF Undo, SunInv, StateTypes, IsTree, Prepared, Does, Foreign, Owned, Owns, Managed, NoScript, NoReceipt, NoTree
  <2> QED BY <1>1, <1>2, <1>3, <1>4, <1>6, <2>1, <2>2, TurnTo, Steps
<1> QED
  BY <1>1, <1>6 DEF Undo

LEMMA ReadKeyKeeps == ASSUME SunInv, NEW t \in Thread, ReadKey(t) PROVE SunInv'
<1>1. t \in Thread /\ HandTypes /\ StateTypes /\ Prepared(t) /\ InOrder(t) /\ harmed = {}
  BY DEF SunInv, HandTypes, Thread
<1>2. Busy(t) /\ hand[t].op \in {"install", "start"}
  BY <1>1, Busies DEF ReadKey, Does, InOrder, Resting, Busy, HandTypes, Op, Thread
<1>3. StateTypes'
  <2>1. IsTree(tree')
    BY <1>1 DEF ReadKey, Erred, ServiceFree, StateTypes, IsTree
  <2>2. script' \in Script /\ serial' \in Nat /\ (script'.text = "none" <=> script' = NoScript)
    BY <1>1 DEF ReadKey, Erred, ServiceFree, StateTypes, Script, Text, NoScript
  <2>3. receipt' \in [key : {receipt'.key}, of : Script] /\ (receipt' # NoReceipt => receipt'.of.text = "drone")
    BY <1>1 DEF ReadKey, Erred, ServiceFree, StateTypes, Prepared, Does, Script, Text, NoScript, NoReceipt
  <2>4. {"late", "torn"} \subseteq DOMAIN sunLeft' /\ ~sunLeft'.late /\ ~sunLeft'.torn
    BY <1>1 DEF ReadKey, Erred, ServiceFree, StateTypes
  <2> QED BY <2>1, <2>2, <2>3, <2>4 DEF StateTypes
<1>4. harmed' = {}
  BY <1>1 DEF ReadKey, Erred, ServiceFree, Prepared, Does
<1>5. ~Does(t, "receipt") => Owned
  BY <1>1, <1>2, OwnedNow
<1>6. CASE Rest(t)
  <2>1. Owned'
    BY <1>1, <1>2, <1>5, <1>6 DEF ReadKey, Erred, ServiceFree, SunInv, Prepared, Does, Follows, Owned, Owns, Managed, NoScript, NoReceipt, NoTree
  <2> QED BY <1>1, <1>2, <1>3, <1>4, <1>6, <2>1, RestStep
<1>7. CASE To(t, "enable") /\ job' = job /\ Owns
  <2>1. job' = job /\ Follows(t, "enable")
    BY <1>1, <1>2, <1>5, <1>7 DEF ReadKey, Erred, ServiceFree, To, InOrder, Follows, HandTypes, Thread, Does, AtRest
  <2>2. ~Foreign' /\ Owned'
    BY <1>1, <1>2, <1>5, <1>7 DEF ReadKey, Erred, ServiceFree, SunInv, StateTypes, IsTree, Prepared, Does, Foreign, Owned, Owns, Managed, NoScript, NoReceipt, NoTree
  <2> QED BY <1>1, <1>2, <1>3, <1>4, <1>7, <2>1, <2>2, TurnTo, Steps
<1>8. CASE To(t, "undo") /\ job' = job /\ t = Installer /\ ~Owns
  <2>1. job' = job /\ Follows(t, "undo")
    BY <1>1, <1>2, <1>5, <1>8 DEF ReadKey, Erred, ServiceFree, To, InOrder, Follows, HandTypes, Thread, Does, AtRest
  <2>2. script'.text # "drone" /\ Owned'
    BY <1>1, <1>2, <1>5, <1>8 DEF ReadKey, Erred, ServiceFree, SunInv, StateTypes, IsTree, Prepared, Does, Foreign, Owned, Owns, Managed, NoScript, NoReceipt, NoTree
  <2> QED BY <1>1, <1>2, <1>3, <1>4, <1>8, <2>1, <2>2, TurnTo, Steps
<1>9. CASE hand' = [hand EXCEPT ![t] = [hand[t] EXCEPT !.pc = "script", !.key = tree.key, !.made = hand[t].made]] /\ ~Owns /\ ServiceFree /\ tree.key # 0
  <2>1. job' = job /\ Follows(t, "script") /\ tree.key \in Nat /\ hand[t].made \in Nat
    BY <1>1, <1>2 DEF ReadKey, Erred, ServiceFree, Follows, StateTypes, IsTree, HandTypes, Thread
  <2>2. tree.key = tree'.key /\ tree'.key # 0 /\ Managed'
    BY <1>1, <1>2, <1>5, <1>9 DEF ReadKey, Erred, ServiceFree, Prepared, Does, Managed
  <2>3. script' = NoScript /\ Owned'
    BY <1>1, <1>2, <1>5, <1>9 DEF ReadKey, Erred, ServiceFree, Prepared, Does, SunInv, Owned, Owns, Managed, NoScript, NoReceipt, NoTree
  <2> QED BY <1>1, <1>2, <1>3, <1>4, <1>9, <2>1, <2>2, <2>3, TurnStep, Steps
<1> QED
  BY <1>1, <1>6, <1>7, <1>8, <1>9 DEF ReadKey, Erred, ServiceFree

LEMMA CreateScriptKeeps == ASSUME SunInv, NEW t \in Thread, CreateScript(t) PROVE SunInv'
<1>1. t \in Thread /\ HandTypes /\ StateTypes /\ Prepared(t) /\ InOrder(t) /\ harmed = {}
  BY DEF SunInv, HandTypes, Thread
<1>2. Busy(t) /\ hand[t].op \in {"install", "start"}
  BY <1>1, Busies DEF CreateScript, Does, InOrder, Resting, Busy, HandTypes, Op, Thread
<1>3. StateTypes'
  <2>1. IsTree(tree')
    BY <1>1 DEF CreateScript, Erred, StateTypes, IsTree
  <2>2. script' \in Script /\ serial' \in Nat /\ (script'.text = "none" <=> script' = NoScript)
    BY <1>1 DEF CreateScript, Erred, StateTypes, Script, Text, NoScript
  <2>3. receipt' \in [key : {receipt'.key}, of : Script] /\ (receipt' # NoReceipt => receipt'.of.text = "drone")
    BY <1>1 DEF CreateScript, Erred, StateTypes, Prepared, Does, Script, Text, NoScript, NoReceipt
  <2>4. {"late", "torn"} \subseteq DOMAIN sunLeft' /\ ~sunLeft'.late /\ ~sunLeft'.torn
    BY <1>1 DEF CreateScript, Erred, StateTypes
  <2> QED BY <2>1, <2>2, <2>3, <2>4 DEF StateTypes
<1>4. harmed' = {}
  BY <1>1 DEF CreateScript, Erred, Prepared, Does
<1>5. ~Does(t, "receipt") => Owned
  BY <1>1, <1>2, OwnedNow
<1>6. CASE hand' = [hand EXCEPT ![t] = [hand[t] EXCEPT !.pc = "receipt", !.key = hand[t].key, !.made = serial + 1]] /\ script' = [ino |-> serial + 1, text |-> "drone"]
  <2>1. job' = job /\ Follows(t, "receipt") /\ hand[t].key \in Nat /\ serial + 1 \in Nat
    BY <1>1, <1>2 DEF CreateScript, Erred, Follows, StateTypes, IsTree, HandTypes, Thread
  <2>2. hand[t].key = tree'.key /\ tree'.key # 0 /\ Managed'
    BY <1>1, <1>2, <1>5, <1>6 DEF CreateScript, Erred, Prepared, Does, Managed
  <2>3. script' = [ino |-> serial + 1, text |-> "drone"]
    BY <1>1, <1>2, <1>5, <1>6 DEF CreateScript, Erred, Prepared, Does, SunInv, Owned, Owns, Managed, NoScript, NoReceipt, NoTree
  <2> QED BY <1>1, <1>2, <1>3, <1>4, <1>6, <2>1, <2>2, <2>3, TurnStep, Steps
<1> QED
  BY <1>1, <1>6 DEF CreateScript, Erred, Prepared, Does

LEMMA WriteReceiptKeeps == ASSUME SunInv, NEW t \in Thread, WriteReceipt(t) PROVE SunInv'
<1>1. t \in Thread /\ HandTypes /\ StateTypes /\ Prepared(t) /\ InOrder(t) /\ harmed = {}
  BY DEF SunInv, HandTypes, Thread
<1>2. Busy(t) /\ hand[t].op \in {"install", "start"}
  BY <1>1, Busies DEF WriteReceipt, Does, InOrder, Resting, Busy, HandTypes, Op, Thread
<1>3. StateTypes'
  <2>1. IsTree(tree')
    BY <1>1 DEF WriteReceipt, Erred, SpendSun, WithoutMine, StateTypes, IsTree
  <2>2. script' \in Script /\ serial' \in Nat /\ (script'.text = "none" <=> script' = NoScript)
    BY <1>1 DEF WriteReceipt, Erred, SpendSun, WithoutMine, StateTypes, Script, Text, NoScript
  <2>3. receipt' \in [key : {receipt'.key}, of : Script] /\ (receipt' # NoReceipt => receipt'.of.text = "drone")
    BY <1>1 DEF WriteReceipt, Erred, SpendSun, WithoutMine, StateTypes, Prepared, Does, Script, Text, NoScript, NoReceipt
  <2>4. {"late", "torn"} \subseteq DOMAIN sunLeft' /\ ~sunLeft'.late /\ ~sunLeft'.torn
    BY <1>1 DEF WriteReceipt, Erred, SpendSun, WithoutMine, StateTypes
  <2> QED BY <2>1, <2>2, <2>3, <2>4 DEF StateTypes
<1>4. harmed' = {}
  BY <1>1 DEF WriteReceipt, Erred, SpendSun, WithoutMine, Prepared, Does
<1>5. ~Does(t, "receipt") => Owned
  BY <1>1, <1>2, OwnedNow
<1>6. CASE Rest(t)
  <2>1. Owned'
    BY <1>1, <1>2, <1>5, <1>6 DEF WriteReceipt, Erred, SpendSun, WithoutMine, SunInv, Prepared, Does, Follows, Owned, Owns, Managed, NoScript, NoReceipt, NoTree
  <2> QED BY <1>1, <1>2, <1>3, <1>4, <1>6, <2>1, RestStep
<1>7. CASE To(t, "enable") /\ job' = job /\ script # NoScript /\ receipt' = [key |-> hand[t].key, of |-> script] /\ UNCHANGED script
  <2>1. job' = job /\ Follows(t, "enable")
    BY <1>1, <1>2, <1>5, <1>7 DEF WriteReceipt, Erred, SpendSun, WithoutMine, To, InOrder, Follows, HandTypes, Thread, Does, AtRest
  <2>2. ~Foreign' /\ Owned'
    BY <1>1, <1>2, <1>5, <1>7 DEF WriteReceipt, Erred, SpendSun, WithoutMine, SunInv, StateTypes, IsTree, Prepared, Does, Foreign, Owned, Owns, Managed, NoScript, NoReceipt, NoTree
  <2> QED BY <1>1, <1>2, <1>3, <1>4, <1>7, <2>1, <2>2, TurnTo, Steps
<1>8. CASE To(t, "undo") /\ job' = job /\ t = Installer /\ script' = WithoutMine(t)
  <2>1. job' = job /\ Follows(t, "undo")
    BY <1>1, <1>2, <1>5, <1>8 DEF WriteReceipt, Erred, SpendSun, WithoutMine, To, InOrder, Follows, HandTypes, Thread, Does, AtRest
  <2>2. script'.text # "drone" /\ Owned'
    BY <1>1, <1>2, <1>5, <1>8 DEF WriteReceipt, Erred, SpendSun, WithoutMine, SunInv, StateTypes, IsTree, Prepared, Does, Foreign, Owned, Owns, Managed, NoScript, NoReceipt, NoTree
  <2> QED BY <1>1, <1>2, <1>3, <1>4, <1>8, <2>1, <2>2, TurnTo, Steps
<1> QED
  BY <1>1, <1>6, <1>7, <1>8 DEF WriteReceipt, Erred, SpendSun, WithoutMine

LEMMA EnableKeeps == ASSUME SunInv, NEW t \in Thread, Enable(t) PROVE SunInv'
<1>1. t \in Thread /\ HandTypes /\ StateTypes /\ Prepared(t) /\ InOrder(t) /\ harmed = {}
  BY DEF SunInv, HandTypes, Thread
<1>2. Busy(t) /\ hand[t].op \in {"install", "start"}
  BY <1>1, Busies DEF Enable, Does, InOrder, Resting, Busy, HandTypes, Op, Thread
<1>3. StateTypes'
  <2>1. IsTree(tree')
    BY <1>1 DEF Enable, StateTypes, IsTree
  <2>2. script' \in Script /\ serial' \in Nat /\ (script'.text = "none" <=> script' = NoScript)
    BY <1>1 DEF Enable, StateTypes, Script, Text, NoScript
  <2>3. receipt' \in [key : {receipt'.key}, of : Script] /\ (receipt' # NoReceipt => receipt'.of.text = "drone")
    BY <1>1 DEF Enable, StateTypes, Prepared, Does, Script, Text, NoScript, NoReceipt
  <2>4. {"late", "torn"} \subseteq DOMAIN sunLeft' /\ ~sunLeft'.late /\ ~sunLeft'.torn
    BY <1>1 DEF Enable, StateTypes
  <2> QED BY <2>1, <2>2, <2>3, <2>4 DEF StateTypes
<1>4. harmed' = {}
  BY <1>1 DEF Enable, Prepared, Does
<1>5. ~Does(t, "receipt") => Owned
  BY <1>1, <1>2, OwnedNow
<1>6. CASE To(t, "start") /\ job' = job
  <2>1. job' = job /\ Follows(t, "start")
    BY <1>1, <1>2, <1>5, <1>6 DEF Enable, To, InOrder, Follows, HandTypes, Thread, Does, AtRest
  <2>2. ~Foreign' /\ Owned'
    BY <1>1, <1>2, <1>5, <1>6 DEF Enable, SunInv, StateTypes, IsTree, Prepared, Does, Foreign, Owned, Owns, Managed, NoScript, NoReceipt, NoTree
  <2> QED BY <1>1, <1>2, <1>3, <1>4, <1>6, <2>1, <2>2, TurnTo, Steps
<1> QED
  BY <1>1, <1>6 DEF Enable

LEMMA RunScriptKeeps == ASSUME SunInv, NEW t \in Thread, RunScript(t) PROVE SunInv'
<1>1. t \in Thread /\ HandTypes /\ StateTypes /\ Prepared(t) /\ InOrder(t) /\ harmed = {}
  BY DEF SunInv, HandTypes, Thread
<1>2. Busy(t) /\ hand[t].op \in {"install", "start"}
  BY <1>1, Busies DEF RunScript, Does, InOrder, Resting, Busy, HandTypes, Op, Thread
<1>3. StateTypes'
  <2>1. IsTree(tree')
    BY <1>1 DEF RunScript, StateTypes, IsTree
  <2>2. script' \in Script /\ serial' \in Nat /\ (script'.text = "none" <=> script' = NoScript)
    BY <1>1 DEF RunScript, StateTypes, Script, Text, NoScript
  <2>3. receipt' \in [key : {receipt'.key}, of : Script] /\ (receipt' # NoReceipt => receipt'.of.text = "drone")
    BY <1>1 DEF RunScript, StateTypes, Prepared, Does, Script, Text, NoScript, NoReceipt
  <2>4. {"late", "torn"} \subseteq DOMAIN sunLeft' /\ ~sunLeft'.late /\ ~sunLeft'.torn
    BY <1>1 DEF RunScript, StateTypes
  <2> QED BY <2>1, <2>2, <2>3, <2>4 DEF StateTypes
<1>4. harmed' = {}
  BY <1>1 DEF RunScript, Prepared, Does
<1>5. ~Does(t, "receipt") => Owned
  BY <1>1, <1>2, OwnedNow
<1>6. CASE Rest(t)
  <2>1. Owned'
    BY <1>1, <1>2, <1>5, <1>6 DEF RunScript, SunInv, Prepared, Does, Follows, Owned, Owns, Managed, NoScript, NoReceipt, NoTree
  <2> QED BY <1>1, <1>2, <1>3, <1>4, <1>6, <2>1, RestStep
<1> QED
  BY <1>1, <1>6 DEF RunScript

LEMMA UnlinkKeeps == ASSUME SunInv, NEW t \in Thread, Unlink(t) PROVE SunInv'
<1>1. t \in Thread /\ HandTypes /\ StateTypes /\ Prepared(t) /\ InOrder(t) /\ harmed = {}
  BY DEF SunInv, HandTypes, Thread
<1>2. Busy(t) /\ hand[t].op = "uninstall"
  BY <1>1, Busies DEF Unlink, Does, InOrder, Resting, Busy, HandTypes, Op, Thread
<1>3. StateTypes'
  <2>1. IsTree(tree')
    BY <1>1 DEF Unlink, StateTypes, IsTree
  <2>2. script' \in Script /\ serial' \in Nat /\ (script'.text = "none" <=> script' = NoScript)
    BY <1>1 DEF Unlink, StateTypes, Script, Text, NoScript
  <2>3. receipt' \in [key : {receipt'.key}, of : Script] /\ (receipt' # NoReceipt => receipt'.of.text = "drone")
    BY <1>1 DEF Unlink, StateTypes, Prepared, Does, Script, Text, NoScript, NoReceipt
  <2>4. {"late", "torn"} \subseteq DOMAIN sunLeft' /\ ~sunLeft'.late /\ ~sunLeft'.torn
    BY <1>1 DEF Unlink, StateTypes
  <2> QED BY <2>1, <2>2, <2>3, <2>4 DEF StateTypes
<1>4. harmed' = {}
  BY <1>1 DEF Unlink, Prepared, Does
<1>5. ~Does(t, "receipt") => Owned
  BY <1>1, <1>2, OwnedNow
<1>6. CASE To(t, "record") /\ job' = job
  <2>1. job' = job /\ Follows(t, "record")
    BY <1>1, <1>2, <1>5, <1>6 DEF Unlink, To, InOrder, Follows, HandTypes, Thread, Does, AtRest
  <2>2. script'.text # "drone" /\ Owned'
    BY <1>1, <1>2, <1>5, <1>6 DEF Unlink, SunInv, StateTypes, IsTree, Prepared, Does, Foreign, Owned, Owns, Managed, NoScript, NoReceipt, NoTree
  <2> QED BY <1>1, <1>2, <1>3, <1>4, <1>6, <2>1, <2>2, TurnTo, Steps
<1> QED
  BY <1>1, <1>6 DEF Unlink

LEMMA UnlinkRecordKeeps == ASSUME SunInv, NEW t \in Thread, UnlinkRecord(t) PROVE SunInv'
<1>1. t \in Thread /\ HandTypes /\ StateTypes /\ Prepared(t) /\ InOrder(t) /\ harmed = {}
  BY DEF SunInv, HandTypes, Thread
<1>2. Busy(t) /\ hand[t].op = "uninstall"
  BY <1>1, Busies DEF UnlinkRecord, Does, InOrder, Resting, Busy, HandTypes, Op, Thread
<1>3. StateTypes'
  <2>1. IsTree(tree')
    BY <1>1 DEF UnlinkRecord, StateTypes, IsTree
  <2>2. script' \in Script /\ serial' \in Nat /\ (script'.text = "none" <=> script' = NoScript)
    BY <1>1 DEF UnlinkRecord, StateTypes, Script, Text, NoScript
  <2>3. receipt' \in [key : {receipt'.key}, of : Script] /\ (receipt' # NoReceipt => receipt'.of.text = "drone")
    BY <1>1 DEF UnlinkRecord, StateTypes, Prepared, Does, Script, Text, NoScript, NoReceipt
  <2>4. {"late", "torn"} \subseteq DOMAIN sunLeft' /\ ~sunLeft'.late /\ ~sunLeft'.torn
    BY <1>1 DEF UnlinkRecord, StateTypes
  <2> QED BY <2>1, <2>2, <2>3, <2>4 DEF StateTypes
<1>4. harmed' = {}
  BY <1>1 DEF UnlinkRecord, Prepared, Does
<1>5. ~Does(t, "receipt") => Owned
  BY <1>1, <1>2, OwnedNow
<1>6. CASE To(t, "remove") /\ job' = job
  <2>1. job' = job /\ Follows(t, "remove")
    BY <1>1, <1>2, <1>5, <1>6 DEF UnlinkRecord, To, InOrder, Follows, HandTypes, Thread, Does, AtRest
  <2>2. script'.text # "drone" /\ Owned'
    BY <1>1, <1>2, <1>5, <1>6 DEF UnlinkRecord, SunInv, StateTypes, IsTree, Prepared, Does, Foreign, Owned, Owns, Managed, NoScript, NoReceipt, NoTree
  <2> QED BY <1>1, <1>2, <1>3, <1>4, <1>6, <2>1, <2>2, TurnTo, Steps
<1> QED
  BY <1>1, <1>6 DEF UnlinkRecord

LEMMA BlockKeeps == ASSUME SunInv, NEW t \in Thread, Block(t) PROVE SunInv'
<1>1. t \in Thread /\ HandTypes /\ StateTypes /\ Prepared(t) /\ InOrder(t) /\ harmed = {}
  BY DEF SunInv, HandTypes, Thread
<1>2. Busy(t) /\ hand[t].op = "start"
  BY <1>1, Busies DEF Block, Does, InOrder, Resting, Busy, HandTypes, Op, Thread
<1>3. StateTypes'
  <2>1. IsTree(tree')
    BY <1>1 DEF Block, StartBlocked, StateTypes, IsTree
  <2>2. script' \in Script /\ serial' \in Nat /\ (script'.text = "none" <=> script' = NoScript)
    BY <1>1 DEF Block, StartBlocked, StateTypes, Script, Text, NoScript
  <2>3. receipt' \in [key : {receipt'.key}, of : Script] /\ (receipt' # NoReceipt => receipt'.of.text = "drone")
    BY <1>1 DEF Block, StartBlocked, StateTypes, Prepared, Does, Script, Text, NoScript, NoReceipt
  <2>4. {"late", "torn"} \subseteq DOMAIN sunLeft' /\ ~sunLeft'.late /\ ~sunLeft'.torn
    BY <1>1 DEF Block, StartBlocked, StateTypes
  <2> QED BY <2>1, <2>2, <2>3, <2>4 DEF StateTypes
<1>4. harmed' = {}
  BY <1>1 DEF Block, StartBlocked, Prepared, Does
<1>5. ~Does(t, "receipt") => Owned
  BY <1>1, <1>2, OwnedNow
<1>6. CASE Rest(t)
  <2>1. Owned'
    BY <1>1, <1>2, <1>5, <1>6 DEF Block, StartBlocked, SunInv, Prepared, Does, Follows, Owned, Owns, Managed, NoScript, NoReceipt, NoTree
  <2> QED BY <1>1, <1>2, <1>3, <1>4, <1>6, <2>1, RestStep
<1>7. CASE To(t, "enable") /\ job' = job /\ Owns
  <2>1. job' = job /\ Follows(t, "enable")
    BY <1>1, <1>2, <1>5, <1>7 DEF Block, StartBlocked, To, InOrder, Follows, HandTypes, Thread, Does, AtRest
  <2>2. ~Foreign' /\ Owned'
    BY <1>1, <1>2, <1>5, <1>7 DEF Block, StartBlocked, SunInv, StateTypes, IsTree, Prepared, Does, Foreign, Owned, Owns, Managed, NoScript, NoReceipt, NoTree
  <2> QED BY <1>1, <1>2, <1>3, <1>4, <1>7, <2>1, <2>2, TurnTo, Steps
<1>8. CASE To(t, "service") /\ job' = job /\ ~StartBlocked
  <2>1. job' = job /\ Follows(t, "service")
    BY <1>1, <1>2, <1>5, <1>8 DEF Block, StartBlocked, To, InOrder, Follows, HandTypes, Thread, Does, AtRest
  <2>2. Managed' /\ Owned'
    BY <1>1, <1>2, <1>5, <1>8 DEF Block, StartBlocked, SunInv, StateTypes, IsTree, Prepared, Does, Foreign, Owned, Owns, Managed, NoScript, NoReceipt, NoTree
  <2> QED BY <1>1, <1>2, <1>3, <1>4, <1>8, <2>1, <2>2, TurnTo, Steps
<1> QED
  BY <1>1, <1>6, <1>7, <1>8 DEF Block, StartBlocked

\* A thread at rest begins something, alone unless it is only a stop.
LEMMA BeginStep ==
  ASSUME SunInv, NEW t \in Thread, Resting(t), NEW h \in [op : Op, pc : Step, key : Nat, made : Nat, owned : BOOLEAN],
         hand' = [hand EXCEPT ![t] = h], StateTypes', harmed' = {}, UNCHANGED <<script, tree, receipt>>,
         h.op # "stop" => \A u \in Thread : ~Busy(u), h.op = "start" => \A u \in Thread : Resting(u),
         \A u \in Thread \ {t} : hand[u].op # "start", h.pc \notin {"rest", "receipt"},
         job' = job \/ \A u \in Thread : ~Busy(u), InOrder(t)', Prepared(t)'
  PROVE  SunInv'
<1>1. HandTypes' /\ Thread' = Thread /\ hand'[t] = h /\ \A u \in Thread \ {t} : hand'[u] = hand[u]
  BY HandTurns DEF SunInv
<1>2. \A u \in Thread \ {t} : InOrder(u)' /\ Prepared(u)'
  BY <1>1 DEF SunInv, InOrder, Prepared, Busy, Resting, Does, Foreign, Managed
<1>3. Alone'
  <2>1. h.op = "stop" => ~Busy(t)'
    BY <1>1 DEF Busy
  <2>2. \A u \in Thread \ {t} : Busy(u)' <=> Busy(u)
    BY <1>1 DEF Busy
  <2> QED BY <1>1, <2>1, <2>2 DEF SunInv, Alone
<1>4. StartsAlone'
  BY <1>1 DEF SunInv, StartsAlone, Resting, InOrder
<1>5. ~Does(t, "receipt") /\ \A u \in Thread \ {t} : Does(u, "receipt")' <=> Does(u, "receipt")
  BY <1>1 DEF Does, Resting
<1>6. (\A u \in Thread : ~Does(u, "receipt")') => Owned'
  BY <1>5 DEF SunInv, Owned, Owns, Managed
<1> QED
  BY <1>1, <1>2, <1>3, <1>4, <1>6 DEF SunInv, Does

\* What dependency_action has made sure of.
LEMMA Asked ==
  ASSUME SunInv, NEW t \in Thread, NEW op, Ask(t, op)
  PROVE  /\ Resting(t) /\ StateTypes' /\ harmed' = {} /\ UNCHANGED <<script, tree, receipt>>
         /\ \A u \in Thread \ {t} : hand[u].op # "start"
         /\ op = "start" => \A u \in Thread : Resting(u)
<1>1. StateTypes'
  BY DEF SunInv, StateTypes, Ask, SpendSun, IsTree, Script, NoScript, NoReceipt
<1>2. \A u \in Thread : Resting(u) \/ "start" \notin {op, hand[u].op}
  BY DEF SunInv, StateTypes, Ask, Apart
<1>3. \A u \in Thread : Resting(u) => hand[u].op = "none"
  BY DEF SunInv, InOrder
<1> QED BY <1>1, <1>2, <1>3 DEF Ask, SunInv

\* The requests.
LEMMA BeginStartKeeps == ASSUME JobApart, SunInv, NEW t \in Requester, BeginStart(t) PROVE SunInv'
<1>1. t \in Thread /\ t # Installer
  BY DEF SunInv, HandTypes, Thread, JobApart
<1>2. Ask(t, "start") /\ job' = job
  BY DEF BeginStart
<1> DEFINE h == [AtRest EXCEPT !.op = "start", !.pc = "block"]
<1>3. h \in [op : Op, pc : Step, key : Nat, made : Nat, owned : BOOLEAN] /\ h.op = "start" /\ h.pc = "block"
  BY DEF AtRest, Op, Step
<1>4. hand' = [hand EXCEPT ![t] = h]
  BY DEF BeginStart
<1> HIDE DEF h
<1>5. hand'[t] = h
  BY <1>1, <1>3, <1>4, HandTurns DEF SunInv
<1>6. InOrder(t)' /\ Prepared(t)'
  BY <1>1, <1>3, <1>5 DEF InOrder, Prepared, Resting, Does, AtRest
<1>7. \A u \in Thread : ~Busy(u)
  BY <1>1, <1>2, Asked DEF SunInv, InOrder, Busy
<1> QED
  BY <1>1, <1>2, <1>3, <1>4, <1>6, <1>7, Asked, BeginStep

LEMMA BeginStopKeeps == ASSUME JobApart, SunInv, NEW t \in Requester, BeginStop(t) PROVE SunInv'
<1>1. t \in Thread /\ t # Installer
  BY DEF SunInv, HandTypes, Thread, JobApart
<1>2. Ask(t, "stop") /\ job' = job
  BY DEF BeginStop
<1> DEFINE h == [AtRest EXCEPT !.op = "stop", !.pc = "stop", !.owned = Owns]
<1>3. h \in [op : Op, pc : Step, key : Nat, made : Nat, owned : BOOLEAN] /\ h.op = "stop" /\ h.pc = "stop"
  BY DEF AtRest, Op, Step, Owns
<1>4. hand' = [hand EXCEPT ![t] = h]
  BY DEF BeginStop
<1> HIDE DEF h
<1>5. hand'[t] = h
  BY <1>1, <1>3, <1>4, HandTurns DEF SunInv
<1>6. InOrder(t)' /\ Prepared(t)'
  BY <1>1, <1>3, <1>5 DEF InOrder, Prepared, Resting, Does, AtRest
<1> QED
  BY <1>1, <1>2, <1>3, <1>4, <1>6, Asked, BeginStep

LEMMA BeginUninstallKeeps == ASSUME JobApart, SunInv, NEW t \in Requester, BeginUninstall(t) PROVE SunInv'
<1>1. t \in Thread /\ t # Installer
  BY DEF SunInv, HandTypes, Thread, JobApart
<1>2. Ask(t, "uninstall") /\ job' = job /\ ~Locked /\ job # "running"
  BY DEF BeginUninstall
<1> DEFINE h == [AtRest EXCEPT !.op = "uninstall", !.pc = IF Owns THEN "stop" ELSE "remove", !.owned = Owns]
<1>3. /\ h \in [op : Op, pc : Step, key : Nat, made : Nat, owned : BOOLEAN] /\ h.op = "uninstall"
      /\ h.pc = IF Owns THEN "stop" ELSE "remove"
  BY DEF AtRest, Op, Step, Owns
<1>4. hand' = [hand EXCEPT ![t] = h]
  BY DEF BeginUninstall
<1> HIDE DEF h
<1>5. hand'[t] = h
  BY <1>1, <1>3, <1>4, HandTurns DEF SunInv
<1>6. \A u \in Thread : ~Busy(u)
  BY <1>1, <1>2, Asked DEF SunInv, InOrder, Busy, Locked, Resting, AtRest
<1>7. Owned
  BY <1>6 DEF SunInv, InOrder, Does, Busy, Resting, HandTypes, Thread, Op
<1>8. (Owns => ~Foreign) /\ (~Owns => script.text # "drone")
  BY <1>7 DEF SunInv, StateTypes, Owned, Owns, Foreign
<1>9. ~Foreign' <=> ~Foreign
  BY <1>1, <1>2, Asked DEF Foreign
<1>10. InOrder(t)'
  BY <1>1, <1>3, <1>5 DEF InOrder, Resting, Does, AtRest
<1>11. Prepared(t)'
  BY <1>1, <1>2, <1>3, <1>5, <1>8, <1>9, Asked DEF Prepared
<1> QED
  BY <1>1, <1>2, <1>3, <1>4, <1>6, <1>10, <1>11, Asked, BeginStep

LEMMA StartInstallKeeps == ASSUME SunInv, StartInstall PROVE SunInv'
<1>1. Installer \in Thread
  BY DEF SunInv, HandTypes, Thread
<1>2. Ask(Installer, "install") /\ job' = "running" /\ ~Locked /\ job # "running" /\ ~Managed
  BY DEF StartInstall
<1> DEFINE h == [AtRest EXCEPT !.op = "install", !.pc = "look"]
<1>3. h \in [op : Op, pc : Step, key : Nat, made : Nat, owned : BOOLEAN] /\ h.op = "install" /\ h.pc = "look"
  BY DEF AtRest, Op, Step
<1>4. hand' = [hand EXCEPT ![Installer] = h]
  BY DEF StartInstall
<1> HIDE DEF h
<1>5. hand'[Installer] = h
  BY <1>1, <1>3, <1>4, HandTurns DEF SunInv
<1>6. \A u \in Thread : ~Busy(u)
  BY <1>1, <1>2, Asked DEF SunInv, InOrder, Busy, Locked, Resting, AtRest
<1>7. Owned
  BY <1>6 DEF SunInv, InOrder, Does, Busy, Resting, HandTypes, Thread, Op
<1>8. script.text # "drone"
  BY <1>2, <1>7 DEF Owned, Owns
<1>9. InOrder(Installer)'
  BY <1>1, <1>2, <1>3, <1>5 DEF InOrder, Resting, Does, AtRest
<1>10. Prepared(Installer)'
  BY <1>1, <1>2, <1>3, <1>5, <1>8, Asked DEF Prepared
<1> QED
  BY <1>1, <1>2, <1>3, <1>4, <1>6, <1>9, <1>10, Asked, BeginStep

\* A stop by itself changes no file; an uninstall goes on to the script it owns.
LEMMA StopServiceKeeps == ASSUME SunInv, NEW t \in Thread, StopService(t) PROVE SunInv'
<1>1. HandTypes /\ StateTypes /\ Prepared(t) /\ InOrder(t) /\ harmed = {} /\ hand[t].op \in Op
  BY DEF SunInv, HandTypes, Thread
<1>2. StateTypes' /\ harmed' = {} /\ job' = job /\ UNCHANGED <<script, tree, receipt>>
  BY <1>1 DEF StopService, StateTypes, IsTree, Script, NoScript, NoReceipt
<1>3. CASE hand[t].op = "uninstall"
  <2>1. Busy(t) /\ ~Does(t, "receipt")
    BY <1>3 DEF StopService, Does, Busy
  <2>2. Owned'
    BY <2>1, <1>2, OwnedNow DEF Owned, Owns, Managed
  <2>3. ~Foreign' /\ Follows(t, "unlink") /\ To(t, "unlink")
    BY <1>1, <1>2, <1>3 DEF StopService, Prepared, Does, Foreign, Follows
  <2> QED BY <1>2, <2>1, <2>2, <2>3, TurnTo, Steps
<1>4. CASE hand[t].op # "uninstall"
  <2>1. Rest(t) /\ hand[t].op = "stop"
    BY <1>1, <1>4 DEF StopService, InOrder, Does, Resting, Op
  <2>2. AtRest \in [op : Op, pc : Step, key : Nat, made : Nat, owned : BOOLEAN]
    BY DEF AtRest, Op, Step
  <2>3. HandTypes' /\ Thread' = Thread /\ hand'[t] = AtRest /\ \A u \in Thread \ {t} : hand'[u] = hand[u]
    BY <1>1, <2>1, <2>2, HandTurns DEF Rest
  <2>4. InOrder(t)' /\ Prepared(t)' /\ ~Busy(t)' /\ ~Does(t, "receipt") /\ ~Does(t, "receipt")'
    BY <2>1, <2>3 DEF InOrder, Prepared, Resting, Does, AtRest, Busy, StopService
  <2>5. \A u \in Thread \ {t} : InOrder(u)' /\ Prepared(u)' /\ (Busy(u)' <=> Busy(u)) /\ (Does(u, "receipt")' <=> Does(u, "receipt"))
    BY <1>2, <2>3 DEF SunInv, InOrder, Prepared, Resting, Does, Busy, Foreign, Managed
  <2>6. Alone'
    BY <2>3, <2>4, <2>5 DEF SunInv, Alone
  <2>7. StartsAlone'
    BY <2>3 DEF SunInv, StartsAlone, Resting, AtRest
  <2>8. (\A u \in Thread : ~Does(u, "receipt")') => Owned'
    BY <1>2, <2>4, <2>5 DEF SunInv, Owned, Owns, Managed
  <2> QED BY <1>2, <2>3, <2>4, <2>5, <2>6, <2>7, <2>8 DEF SunInv, Does
<1> QED BY <1>3, <1>4

\* The tree goes part by part.
LEMMA RemoveTreeKeeps == ASSUME SunInv, NEW t \in Thread, RemoveTree(t) PROVE SunInv'
<1>1. HandTypes /\ StateTypes /\ Prepared(t) /\ InOrder(t) /\ harmed = {} /\ Does(t, "remove")
  BY DEF SunInv, HandTypes, Thread, RemoveTree
<1>2. Busy(t)
  BY <1>1, Busies DEF Does, InOrder, Resting
<1>3. script' = script /\ script.text # "drone" /\ harmed' = {}
  BY <1>1 DEF RemoveTree, Prepared, Does
<1>4. Owned'
  BY <1>3 DEF Owned
<1>5. CASE tree' = tree /\ Rest(t)
  <2>1. StateTypes'
    BY <1>1, <1>5 DEF RemoveTree, StateTypes, IsTree, Script, NoScript, NoReceipt
  <2> QED BY <1>2, <1>3, <1>4, <1>5, <2>1, RestStep
<1>6. CASE \E part \in {p \in DOMAIN tree : tree[p] # NoTree[p]} :
             tree' = [tree EXCEPT ![part] = NoTree[part]] /\ UNCHANGED <<hand, job, staging>>
  <2>1. PICK part \in DOMAIN tree : tree' = [tree EXCEPT ![part] = NoTree[part]] /\ hand' = hand /\ job' = job
    BY <1>6
  <2>2. tree = [app |-> tree.app, previous |-> tree.previous, wrapper |-> tree.wrapper, key |-> tree.key] /\ tree.key \in Nat
    BY <1>1 DEF StateTypes, IsTree
  <2>3. part \in {"app", "previous", "wrapper", "key"}
    BY <2>1, <2>2
  <2>4. IsTree(tree')
    <3>1. CASE part = "app"
      BY <2>1, <2>2, <3>1 DEF IsTree
    <3>2. CASE part = "previous"
      BY <2>1, <2>2, <3>2 DEF IsTree
    <3>3. CASE part = "wrapper"
      BY <2>1, <2>2, <3>3 DEF IsTree
    <3>4. CASE part = "key"
      <4>1. tree' = [tree EXCEPT !.key = 0]
        BY <2>1, <3>4 DEF NoTree
      <4> QED BY <2>2, <4>1 DEF IsTree
    <3> QED BY <2>3, <3>1, <3>2, <3>3, <3>4
  <2>5. StateTypes'
    BY <1>1, <1>6, <2>4 DEF RemoveTree, StateTypes, Script, NoScript, NoReceipt
  <2>6. hand[t] \in [op : Op, pc : Step, key : Nat, made : Nat, owned : BOOLEAN] /\ hand' = [hand EXCEPT ![t] = hand[t]]
    BY <1>1, <2>1 DEF HandTypes, Thread
  <2>7. InOrder(t)' /\ Prepared(t)'
    BY <1>1, <1>3, <2>1 DEF InOrder, Prepared, Does, Resting
  <2> QED BY <1>2, <1>3, <1>4, <2>5, <2>6, <2>7, BusyStep
<1> QED BY <1>5, <1>6 DEF RemoveTree

\* What others do: the administrator, between operations, and a restart.
LEMMA EditKeeps == ASSUME SunInv, Edit PROVE SunInv'
<1>1. hand' = hand /\ job' = job /\ tree' = tree /\ receipt' = receipt /\ harmed' = {}
  BY DEF Edit, SunInv
<1>2. script' \in Script /\ serial' \in Nat /\ script'.text \in {"edited", "other"} /\ script' # NoScript
  BY DEF Edit, SunInv, StateTypes, Script, Text, NoScript
<1>3. StateTypes'
  BY <1>1, <1>2 DEF Edit, SunInv, StateTypes, SpendSun, IsTree, NoReceipt
<1>4. \A t \in Thread : Resting(t) \/ hand[t].pc \in {"look", "verify", "promote", "wrap", "mint", "block"}
  BY DEF Edit, Unlooked, SunInv, StateTypes
<1>5. Owned'
  BY <1>2 DEF Owned
<1>6. \A t \in Thread : InOrder(t)' /\ Prepared(t)'
  BY <1>1, <1>2, <1>4 DEF SunInv, InOrder, Prepared, Resting, Does, Thread
<1>7. HandTypes' /\ Alone' /\ StartsAlone' /\ Thread' = Thread
  BY <1>1 DEF SunInv, HandTypes, Alone, StartsAlone, Busy, Resting, Thread
<1> QED BY <1>1, <1>3, <1>5, <1>6, <1>7 DEF SunInv

LEMMA SunCrashKeeps == ASSUME SunInv, SunCrash PROVE SunInv'
<1>1. /\ hand' = [t \in Thread |-> AtRest] /\ UNCHANGED <<tree, script, receipt, serial>> /\ harmed' = {}
      /\ \A t \in Thread : ~Does(t, "receipt")
  BY DEF SunCrash, SunInv, StateTypes, Does
<1>2. HandTypes'
  BY <1>1 DEF SunInv, HandTypes, Thread, AtRest, Op, Step
<1>3. Thread' = Thread /\ \A t \in Thread : hand'[t] = AtRest
  BY <1>1, <1>2 DEF SunInv, HandTypes, Thread
<1>4. StateTypes'
  BY <1>1 DEF SunCrash, SunInv, StateTypes, SpendSun, IsTree, NoScript, NoReceipt
<1>5. Owned'
  BY <1>1 DEF SunInv, Owned, Owns, Managed
<1>6. \A t \in Thread : InOrder(t)' /\ Prepared(t)' /\ ~Busy(t)'
  BY <1>3 DEF InOrder, Prepared, Resting, Does, AtRest, Busy
<1>7. StartsAlone'
  BY <1>3 DEF StartsAlone, AtRest
<1> QED BY <1>1, <1>2, <1>3, <1>4, <1>5, <1>6, <1>7 DEF SunInv, Alone

\* Every step.
LEMMA SunStep == ASSUME JobApart, SunInv, [SunNext]_sunVars PROVE SunInv'
<1>1. Requester \subseteq Thread
  BY DEF SunInv, HandTypes, Thread
<1>2. CASE StartInstall \/ Download \/ VerifyAndExtract \/ Promote \/ Wrap \/ Mint \/ Undo
  BY <1>2, StartInstallKeeps, DownloadKeeps, VerifyAndExtractKeeps, PromoteKeeps, WrapKeeps, MintKeeps, UndoKeeps
<1>3. CASE \E t \in Thread : ReadKey(t) \/ CreateScript(t) \/ WriteReceipt(t) \/ Enable(t) \/ RunScript(t) \/ RemoveTree(t)
  BY <1>3, ReadKeyKeeps, CreateScriptKeeps, WriteReceiptKeeps, EnableKeeps, RunScriptKeeps, RemoveTreeKeeps
<1>4. CASE \E t \in Requester :
             \/ BeginStart(t) \/ Block(t) \/ BeginStop(t) \/ BeginUninstall(t)
             \/ StopService(t) \/ Unlink(t) \/ UnlinkRecord(t)
  BY <1>1, <1>4, BeginStartKeeps, BlockKeeps, BeginStopKeeps, BeginUninstallKeeps, StopServiceKeeps, UnlinkKeeps, UnlinkRecordKeeps
<1>5. CASE Edit \/ SunCrash
  BY <1>5, EditKeeps, SunCrashKeeps
<1>6. CASE UNCHANGED sunVars
  BY <1>6 DEF sunVars, SunInv, HandTypes, StateTypes, Alone, StartsAlone, InOrder, Prepared, Thread, Busy, Resting, Does,
     Owned, Owns, Managed, Foreign
<1> QED BY <1>2, <1>3, <1>4, <1>5, <1>6 DEF SunNext

\* And it is what the promise needs.
LEMMA SunHolds == ASSUME SunInv PROVE SunshineIsContained
BY DEF SunInv, SunshineIsContained, Owned, Resting, Does

=============================================================================
