---------------------------- MODULE ConfigGuard ----------------------------
(***************************************************************************)
(* The emulator settings that a multiplayer session borrows:               *)
(* app/multiplayer/config_guard.py.                                        *)
(*                                                                         *)
(* apply notes the value of a setting in a journal, then writes the file;  *)
(* restore gives back what still has the session's value and then drops    *)
(* the journal.  A file that an emulator generates by itself is only       *)
(* watched: its journal says what to take out when it appears, and what    *)
(* has not appeared by the end is remembered for a while.  Transactions    *)
(* are serialized by the lock "config-files"; the process may die within   *)
(* one.  There is one setting per file, programs other than the emulator   *)
(* do not write a file within a transaction on it, and an hour             *)
(* (WATCH_TTL) is longer than an emulator takes to start.                  *)
(***************************************************************************)
EXTENDS Naturals, FiniteSets

CONSTANTS
  File,
  Generated,    \* those of File that emulators generate
  Session,
  Value,
  NoValue,      \* the setting is not in the file
  ValueOf,      \* [Session -> Value]: what a session sets
  Overlap,      \* may a session watch a file that an ended one still looks for?
  Torn,         \* may the process die between the two saves of a restore?
  Edits,        \* bound on edits by the user
  Faults        \* bound on failing writes and on crashes

VARIABLES
  content,      \* the value of the setting in each file
  journal,      \* [held, orig] of each session and file
  watching,     \* what is remembered of restored sessions, [Session -> SUBSET File]
  txn,          \* the transaction that holds the lock
  starting,     \* the sessions whose emulator, which starts once, may still generate its files
  ended,        \* the sessions that are over
  interventions,
  faults        \* what is left of Faults
ASSUME GuardAssumption ==
  /\ Generated \subseteq File /\ Session # {} /\ NoValue \notin Value
  /\ ValueOf \in [Session -> Value]
  /\ \A s, o \in Session : ValueOf[s] = ValueOf[o] => s = o     \* credentials are drawn

guardVars == <<content, journal, watching, txn, starting, ended, interventions, faults>>

Free == [held |-> FALSE, orig |-> NoValue]
NoTxn == [at |-> "idle", s |-> CHOOSE s \in Session : TRUE, files |-> {}, errors |-> FALSE, missed |-> {}]
Unlocked == txn.at = "idle"
HeldBy(s) == {f \in File : journal[s][f].held}

-----------------------------------------------------------------------------
(* _apply.                                                                  *)

\* Mutant: a second apply notes what it finds again.
NotedAgain(s, f) == [journal EXCEPT ![s][f] = [held |-> TRUE, orig |-> content[f]]]

\* A second apply of the session keeps the first original.
Noted(s, f) ==
  [journal EXCEPT ![s][f] = IF journal[s][f].held THEN @ ELSE [held |-> TRUE, orig |-> content[f]]]
\* It takes an edit made meanwhile for its own value, see SettingsAreBorrowed.
Overrides(s, f) == journal[s][f].held /\ content[f] # ValueOf[s] /\ content[f] # journal[s][f].orig

Apply(s, f) ==
  /\ Unlocked /\ f \notin Generated /\ s \notin ended
  /\ \A o \in Session \ {s} : ~journal[o][f].held
  /\ journal' = Noted(s, f)
  /\ txn' = [NoTxn EXCEPT !.at = "write", !.s = s, !.files = {f}]
  /\ UNCHANGED <<content, watching, starting, ended, interventions, faults>>

\* The write replaces the file or leaves it; a failed one restores the session.
Write ==
  /\ txn.at = "write"
  /\ \E f \in txn.files :
       \/ /\ content' = [content EXCEPT ![f] = ValueOf[txn.s]]
          /\ interventions' = IF Overrides(txn.s, f) THEN interventions + 1 ELSE interventions
          /\ txn' = NoTxn /\ UNCHANGED faults
       \/ /\ faults > 0 /\ faults' = faults - 1
          /\ txn' = [txn EXCEPT !.at = "restore", !.files = HeldBy(txn.s)]
          /\ UNCHANGED <<content, interventions>>
  /\ UNCHANGED <<journal, watching, starting, ended>>

\* watch_generated.
Watch(s, f) ==
  /\ Unlocked /\ f \in Generated /\ s \notin ended
  /\ \A o \in Session \ {s} : ~journal[o][f].held /\ (Overlap \/ f \notin watching[o])
  /\ journal' = Noted(s, f)
  /\ UNCHANGED <<content, watching, txn, starting, ended, interventions, faults>>

-----------------------------------------------------------------------------
(* _restore: at the end of a session, by hand, after a restart, or again    *)
(* after a failure (retry_restore).                                         *)
BeginRestore(s) ==
  /\ Unlocked /\ HeldBy(s) # {}
  /\ txn' = [NoTxn EXCEPT !.at = "restore", !.s = s, !.files = HeldBy(s)]
  /\ ended' = ended \cup {s}
  /\ UNCHANGED <<content, journal, watching, starting, interventions, faults>>

RestoreFile(f) ==
  LET s == txn.s
  IN /\ txn.at = "restore" /\ f \in txn.files
     /\ \/ /\ content' = IF content[f] = ValueOf[s] THEN [content EXCEPT ![f] = journal[s][f].orig] ELSE content
           /\ txn' = [txn EXCEPT !.files = @ \ {f},
                                 !.missed = IF f \in Generated /\ content[f] = NoValue THEN @ \cup {f} ELSE @]
           /\ UNCHANGED faults
        \/ /\ faults > 0 /\ faults' = faults - 1
           /\ txn' = [txn EXCEPT !.files = @ \ {f}, !.errors = TRUE]
           /\ UNCHANGED content
     /\ UNCHANGED <<journal, watching, starting, ended, interventions>>

\* The journal is kept if a file could not be restored.
DropJournal ==
  /\ txn.at = "restore" /\ txn.files = {}
  /\ journal' = IF txn.errors THEN journal ELSE [journal EXCEPT ![txn.s] = [f \in File |-> Free]]
  /\ txn' = [txn EXCEPT !.at = IF txn.errors \/ txn.missed = {} THEN "sweep" ELSE "remember"]
  /\ UNCHANGED <<content, watching, starting, ended, interventions, faults>>

Remember ==
  /\ txn.at = "remember" /\ txn' = [txn EXCEPT !.at = "sweep"]
  /\ watching' = [watching EXCEPT ![txn.s] = @ \cup txn.missed]
  /\ UNCHANGED <<content, journal, starting, ended, interventions, faults>>

\* _sweep, which ends a restore and which housekeeping repeats, and the end of
\* its patience.
Sweep(s, f) ==
  /\ Unlocked \/ (txn.at = "sweep" /\ txn.s = s)
  /\ f \in watching[s] /\ content[f] = ValueOf[s]
  /\ content' = [content EXCEPT ![f] = NoValue]
  /\ watching' = [watching EXCEPT ![s] = @ \ {f}]
  /\ UNCHANGED <<journal, txn, starting, ended, interventions, faults>>

EndRestore ==
  /\ txn.at = "sweep" /\ txn' = NoTxn
  /\ \A f \in watching[txn.s] : content[f] # ValueOf[txn.s]
  /\ UNCHANGED <<content, journal, watching, starting, ended, interventions, faults>>

Expire(s) ==
  /\ Unlocked /\ watching[s] # {} /\ s \notin starting
  /\ \A f \in watching[s] : content[f] # ValueOf[s] /\ \A o \in Session : ~journal[o][f].held
  /\ watching' = [watching EXCEPT ![s] = {}]
  /\ UNCHANGED <<content, journal, txn, starting, ended, interventions, faults>>

-----------------------------------------------------------------------------
(* The world.                                                               *)

\* The emulator of a session writes its files, at once or late, or never.
Generate(s) ==
  /\ s \in starting /\ starting' = starting \ {s}
  /\ \E S \in SUBSET Generated :
       content' = [f \in File |-> IF f \in S /\ (journal[s][f].held \/ f \in watching[s] \/
                                                 (txn.at = "remember" /\ txn.s = s /\ f \in txn.missed))
                                  THEN ValueOf[s] ELSE content[f]]
  /\ UNCHANGED <<journal, watching, txn, ended, interventions, faults>>

Edit(f, v) ==
  /\ Unlocked /\ f \notin Generated /\ interventions < Edits
  /\ content' = [content EXCEPT ![f] = v] /\ interventions' = interventions + 1
  /\ UNCHANGED <<journal, watching, txn, starting, ended, faults>>

\* _restore drops the journal (399) before it remembers what it missed (401).  A
\* process that dies in between has forgotten these files: unless Torn, their
\* emulator has not written them and never will; if Torn it has, or still does.
Crash ==
  /\ faults > 0 /\ faults' = faults - 1
  /\ ~Unlocked /\ txn' = NoTxn
  /\ IF txn.at = "remember"
     THEN /\ Torn \/ \A f \in txn.missed : content[f] # ValueOf[txn.s]
          /\ starting' = starting \ {txn.s}
          /\ \E S \in SUBSET txn.missed :
               /\ S # {} => Torn /\ txn.s \in starting
               /\ content' = [f \in File |-> IF f \in S THEN ValueOf[txn.s] ELSE content[f]]
     ELSE UNCHANGED <<content, starting>>
  /\ UNCHANGED <<journal, watching, ended, interventions>>

-----------------------------------------------------------------------------
GuardInit ==
  /\ content \in [File -> Value \cup {NoValue}] /\ \A f \in Generated : content[f] = NoValue
  /\ \A f \in File, s \in Session : content[f] # ValueOf[s]
  /\ journal = [s \in Session |-> [f \in File |-> Free]]
  /\ watching = [s \in Session |-> {}] /\ txn = NoTxn
  /\ starting = Session /\ ended = {} /\ interventions = 0 /\ faults = Faults

GuardNext ==
  \/ \E s \in Session :
       \/ \E f \in File : Apply(s, f) \/ Watch(s, f) \/ Sweep(s, f)
       \/ BeginRestore(s) \/ Expire(s) \/ Generate(s)
  \/ Write \/ DropJournal \/ Remember \/ EndRestore \/ Crash
  \/ \E f \in File : RestoreFile(f) \/ \E v \in Value : Edit(f, v)

GuardSpec == GuardInit /\ [][GuardNext]_guardVars

-----------------------------------------------------------------------------
(* What the owner of a setting would find if every session were over.       *)
Lent(s, f) == journal[s][f].held /\ content[f] = ValueOf[s]
Watched(s, f) == f \in watching[s] \/ (txn.at = "remember" /\ txn.s = s /\ f \in txn.missed)
Swept(f, v) == IF \E s \in Session : Watched(s, f) /\ v = ValueOf[s] THEN NoValue ELSE v
OwnContent ==
  [f \in File |-> Swept(f, IF \E s \in Session : Lent(s, f)
                           THEN journal[CHOOSE s \in Session : Lent(s, f)][f].orig ELSE content[f])]

Owner == INSTANCE OwnSettings WITH value <- OwnContent, touched <- interventions

\* Lending settings to sessions and giving them back implements settings that
\* only their owner changes, though writes fail and the process dies: unless
\* Overlap, for each of two sessions may then sweep what the other lent, and
\* unless Torn, for a restore cut off between its saves gives up the files it
\* missed.  What a second apply of a session does to an edit made meanwhile
\* counts as an intervention: the code keeps the first original.
SettingsAreBorrowed == Owner!OwnSpec
=============================================================================
