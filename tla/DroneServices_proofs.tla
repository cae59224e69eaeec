------------------------ MODULE DroneServices_proofs ------------------------
(***************************************************************************)
(* Theorems about the services of a Drone.  The service in focus stays, so *)
(* a step of the composition is one of its steps, and its inductive        *)
(* invariant, which its module states, is kept by each of its actions:     *)
(* EditsInv of GamelistEdits, FrontendInv of FrontendControl, TailnetInv   *)
(* of TailnetNode, IdleInv of IdleAutomation, UpdateInv of SelfUpdate,     *)
(* VpnInv of VpnTunnel, and SunInv of SunshineInstall, whose lemmas are in *)
(* that module.                                                            *)
(***************************************************************************)
EXTENDS DroneServices, TLAPS

LEMMA FocusStays == [Next]_vars => focus' = focus
  BY DEF Next, vars

LEMMA GamelistSteps == [Next]_vars /\ focus = "gamelist" => [Gamelist!GamelistNext]_Gamelist!gamelistVars
  BY DEF Next, vars, Gamelist!gamelistVars

LEMMA GamelistStarts == Init /\ focus = "gamelist" => Gamelist!GamelistInit
  BY DEF Init

-----------------------------------------------------------------------------
(* Gamelists.                                                              *)

LEMMA NoTaskIsTask == Gamelist!IsTask(Gamelist!NoTask)
  BY DEF Gamelist!IsTask, Gamelist!NoTask

LEMMA TasksStay ==
  ASSUME NEW t, Gamelist!IsTask(t), NEW p, NEW x
  PROVE  /\ Gamelist!IsTask([t EXCEPT !.pc = p]) /\ [t EXCEPT !.pc = p].pc = p /\ [t EXCEPT !.pc = p].tree = t.tree
         /\ Gamelist!IsTask([t EXCEPT !.pc = p, !.tree = x])
         /\ [t EXCEPT !.pc = p, !.tree = x].pc = p /\ [t EXCEPT !.pc = p, !.tree = x].tree = x
  BY DEF Gamelist!IsTask

LEMMA OutcomeStays ==
  ASSUME NEW t, NEW u, u.task = t.task, u.rom = t.rom, u.art = t.art, u.gone = t.gone, NEW in
  PROVE  Gamelist!Outcome(in, u) = Gamelist!Outcome(in, t)
  BY DEF Gamelist!Outcome

LEMMA EditsBegin == Gamelist!GamelistInit => Gamelist!EditsInv
<1> SUFFICES ASSUME Gamelist!GamelistInit PROVE Gamelist!EditsInv
  OBVIOUS
<1>1. PICK g \in Rom : x1 = [entries |-> [r \in Rom |-> IF r = g THEN [Gamelist!NoEntry EXCEPT !.there = TRUE] ELSE Gamelist!NoEntry],
                             whole |-> TRUE]
  BY DEF Gamelist!GamelistInit
<1>2. x1 \in [entries : {x1.entries}, whole : BOOLEAN]
  BY <1>1
<1>3. x4 = [e \in Editor |-> Gamelist!NoTask] /\ x5 = x1.entries
  BY DEF Gamelist!GamelistInit
<1>4. Gamelist!NoTask.pc = "free"
  BY DEF Gamelist!NoTask
<1>5. \A e \in Editor : x4[e] = Gamelist!NoTask
  BY <1>3
<1> QED
  BY <1>2, <1>3, <1>4, <1>5, NoTaskIsTask DEF Gamelist!EditsInv, Gamelist!In, Gamelist!NoEditIsLost

LEMMA TaskStep ==
  ASSUME Gamelist!EditsInv, NEW e \in Editor, NEW t, Gamelist!IsTask(t), x4' = [x4 EXCEPT ![e] = t],
         x1' \in [entries : {x1.entries'}, whole : BOOLEAN], x1.whole' => x1.entries' = x5',
         t.pc \in {"write", "writing"} => x3' = e /\ t.tree = Gamelist!Outcome(x5', t),
         t.pc = "writing" => ~x1.whole',
         \/ x1' = x1 /\ x5' = x5 /\ x3 \in {x3', "none"}
         \/ x3 = e
  PROVE  Gamelist!EditsInv'
<1>1. DOMAIN x4 = Editor /\ x4'[e] = t /\ DOMAIN x4' = Editor /\ \A f \in Editor \ {e} : x4'[f] = x4[f]
  BY DEF Gamelist!EditsInv
<1>2. ASSUME NEW f \in Editor, Gamelist!In(f, "write")' \/ Gamelist!In(f, "writing")'
      PROVE  /\ x3' = f /\ x4'[f].tree = Gamelist!Outcome(x5', x4'[f])
             /\ Gamelist!In(f, "writing")' => ~x1.whole'
  <2>1. CASE f = e
    BY <1>1, <1>2, <2>1 DEF Gamelist!In
  <2>2. CASE f # e
    <3>1. x4'[f] = x4[f] /\ (Gamelist!In(f, "write") \/ Gamelist!In(f, "writing"))
      BY <1>1, <1>2, <2>2 DEF Gamelist!In
    <3>2. x3 = f /\ x4[f].tree = Gamelist!Outcome(x5, x4[f]) /\ (Gamelist!In(f, "writing") => ~x1.whole)
      BY <3>1 DEF Gamelist!EditsInv
    <3>3. x3 # "none" /\ x3 # e
      BY <2>2, <3>2, EditorAssumption
    <3>4. x1' = x1 /\ x5' = x5 /\ x3' = x3
      BY <3>3
    <3> QED
      BY <3>1, <3>2, <3>4 DEF Gamelist!In
  <2> QED
    BY <2>1, <2>2
<1>3. \A f \in Editor : Gamelist!IsTask(x4[f])'
  BY <1>1 DEF Gamelist!EditsInv
<1> QED
  BY <1>1, <1>2, <1>3 DEF Gamelist!EditsInv, Gamelist!NoEditIsLost

LEMMA EditsStep ==
  ASSUME Gamelist!EditsInv, [Gamelist!GamelistNext]_Gamelist!gamelistVars
  PROVE  Gamelist!EditsInv'
<1> USE EditorAssumption
<1>a. /\ x1 \in [entries : {x1.entries}, whole : BOOLEAN] /\ (x1.whole => x1.entries = x5)
      /\ DOMAIN x4 = Editor /\ \A e \in Editor : Gamelist!IsTask(x4[e])
  BY DEF Gamelist!EditsInv, Gamelist!NoEditIsLost
<1>b. \A e \in Editor : Gamelist!In(e, "write") \/ Gamelist!In(e, "writing") =>
        x3 = e /\ x4[e].tree = Gamelist!Outcome(x5, x4[e])
  BY DEF Gamelist!EditsInv
<1>c. \A e \in Editor : Gamelist!In(e, "writing") => ~x1.whole
  BY DEF Gamelist!EditsInv
<1>1. ASSUME NEW e \in Editor, NEW g \in Rom, Gamelist!Request(e, g) PROVE Gamelist!EditsInv'
  <2>1. PICK t : t.pc = "lock" /\ Gamelist!IsTask(t) /\ x4' = [x4 EXCEPT ![e] = t]
    BY <1>1, NoTaskIsTask DEF Gamelist!Request, Gamelist!Set, Gamelist!IsTask
  <2> QED
    BY <1>1, <1>a, <2>1, TaskStep DEF Gamelist!Request
<1>2. ASSUME NEW e \in Editor, NEW g \in Rom, NEW over \in BOOLEAN, Gamelist!BeginScrape(e, g, over)
      PROVE Gamelist!EditsInv'
  <2>1. PICK t : t.pc \in {"fetch", "done"} /\ Gamelist!IsTask(t) /\ x4' = [x4 EXCEPT ![e] = t]
    BY <1>2, NoTaskIsTask DEF Gamelist!BeginScrape, Gamelist!Set, Gamelist!IsTask
  <2> QED
    BY <1>2, <1>a, <2>1, TaskStep DEF Gamelist!BeginScrape
<1>3. ASSUME NEW e \in Editor, Gamelist!Fetch(e) PROVE Gamelist!EditsInv'
  <2>1. PICK t : t.pc \in {"done", "lock"} /\ Gamelist!IsTask(t) /\ x4' = [x4 EXCEPT ![e] = t]
    BY <1>3, <1>a DEF Gamelist!Fetch, Gamelist!Set, Gamelist!IsTask
  <2> QED
    BY <1>3, <1>a, <2>1, TaskStep DEF Gamelist!Fetch
<1>4. ASSUME NEW e \in Editor, Gamelist!BeginSweep(e) PROVE Gamelist!EditsInv'
  <2>1. PICK t : t.pc = "lock" /\ Gamelist!IsTask(t) /\ x4' = [x4 EXCEPT ![e] = t]
    BY <1>4, NoTaskIsTask DEF Gamelist!BeginSweep, Gamelist!Set, Gamelist!IsTask
  <2> QED
    BY <1>4, <1>a, <2>1, TaskStep DEF Gamelist!BeginSweep
\* The task writes what it read under the lock, changed.
<1>5. ASSUME NEW e \in Editor, Gamelist!Lock(e) PROVE Gamelist!EditsInv'
  <2> DEFINE new == Gamelist!Outcome(x1.entries, x4[e])
             t == [x4[e] EXCEPT !.pc = "write", !.tree = new]
  <2>a. /\ Gamelist!IsTask(t) /\ t.pc = "write" /\ t.tree = new
        /\ t.task = x4[e].task /\ t.rom = x4[e].rom /\ t.art = x4[e].art /\ t.gone = x4[e].gone
    <3> HIDE DEF new
    <3> QED
      BY <1>a DEF Gamelist!IsTask
  <2>1. Gamelist!Outcome(x5, t) = Gamelist!Outcome(x5, x4[e])
    <3> HIDE DEF t
    <3> QED
      BY <2>a, OutcomeStays
  <2>2. x3 = "none" /\ UNCHANGED <<x1, x2, x5>>
    BY <1>5 DEF Gamelist!Lock, Gamelist!None
  <2>3. CASE x1.whole /\ x3' = e /\ x4' = [x4 EXCEPT ![e] = t]
    <3> HIDE DEF t
    <3> QED
      BY <1>a, <2>a, <2>1, <2>2, <2>3, TaskStep
  <2>4. CASE x3' = x3 /\ x4' = [x4 EXCEPT ![e] = [Gamelist!NoTask EXCEPT !.pc = "done"]]
    BY <1>a, <2>2, <2>4, NoTaskIsTask, TasksStay, TaskStep
  <2> QED
    BY <1>5, <2>3, <2>4 DEF Gamelist!Lock, Gamelist!Set, Gamelist!ReadAgain
<1>6. ASSUME NEW e \in Editor, Gamelist!BeginWrite(e) PROVE Gamelist!EditsInv'
  <2> DEFINE t == [x4[e] EXCEPT !.pc = "writing"]
  <2>a. /\ Gamelist!IsTask(t) /\ t.pc = "writing" /\ t.tree = x4[e].tree
        /\ t.task = x4[e].task /\ t.rom = x4[e].rom /\ t.art = x4[e].art /\ t.gone = x4[e].gone
    BY <1>a DEF Gamelist!IsTask
  <2>1. Gamelist!Outcome(x5, t) = Gamelist!Outcome(x5, x4[e])
    <3> HIDE DEF t
    <3> QED
      BY <2>a, OutcomeStays
  <2>2. /\ x3 = e /\ x4[e].tree = Gamelist!Outcome(x5, x4[e])
        /\ x1' \in [entries : {x1.entries'}, whole : BOOLEAN] /\ ~x1.whole'
        /\ x4' = [x4 EXCEPT ![e] = t] /\ x3' = x3 /\ x5' = x5
    BY <1>6, <1>a, <1>b DEF Gamelist!BeginWrite, Gamelist!Set
  <2> HIDE DEF t
  <2> QED
    BY <2>a, <2>1, <2>2, TaskStep
<1>7. ASSUME NEW e \in Editor, Gamelist!EndWrite(e) PROVE Gamelist!EditsInv'
  <2> DEFINE t == [x4[e] EXCEPT !.pc = "clear"]
  <2>1. Gamelist!IsTask(t) /\ t.pc = "clear"
    BY <1>a DEF Gamelist!IsTask
  <2>2. x3 = e /\ x1' = [whole |-> TRUE, entries |-> x4[e].tree] /\ x5' = x4[e].tree /\ x4' = [x4 EXCEPT ![e] = t]
    BY <1>7, <1>b DEF Gamelist!EndWrite, Gamelist!Set
  <2>3. x1' \in [entries : {x1.entries'}, whole : BOOLEAN] /\ x1.entries' = x5'
    BY <2>2
  <2> HIDE DEF t
  <2> QED
    BY <2>1, <2>2, <2>3, TaskStep
<1>8. ASSUME NEW e \in Editor, Gamelist!Forget(e) PROVE Gamelist!EditsInv'
  BY <1>8, <1>a, NoTaskIsTask, TasksStay, TaskStep DEF Gamelist!Forget, Gamelist!Set
<1>9. CASE Gamelist!BeginList \/ Gamelist!EndList \/ Gamelist!Expire
  BY <1>9 DEF Gamelist!BeginList, Gamelist!EndList, Gamelist!Expire, Gamelist!EditsInv, Gamelist!In,
              Gamelist!NoEditIsLost
\* A restart leaves a list that was cut short as it is.
<1>10. CASE Gamelist!Restart
  <2>1. UNCHANGED <<x1, x5>> /\ DOMAIN x4' = Editor
    BY <1>10 DEF Gamelist!Restart
  <2>2. \A e \in Editor : Gamelist!IsTask(x4[e])' /\ x4[e].pc' \in {"free", "done"}
    <3> DEFINE n == [Gamelist!NoTask EXCEPT !.pc = "done"]
    <3>1. Gamelist!IsTask(n) /\ n.pc = "done"
      BY NoTaskIsTask DEF Gamelist!IsTask
    <3> HIDE DEF n
    <3> QED
      BY <1>10, <1>a, <3>1 DEF Gamelist!Restart, Gamelist!In, n
  <2> QED
    BY <1>a, <2>1, <2>2 DEF Gamelist!EditsInv, Gamelist!In, Gamelist!NoEditIsLost
<1>11. ASSUME NEW g \in Rom, Gamelist!RomComesOrGoes(g) PROVE Gamelist!EditsInv'
  BY <1>11 DEF Gamelist!RomComesOrGoes, Gamelist!EditsInv, Gamelist!In, Gamelist!NoEditIsLost
<1>12. CASE UNCHANGED Gamelist!gamelistVars
  BY <1>12 DEF Gamelist!gamelistVars, Gamelist!EditsInv, Gamelist!In, Gamelist!NoEditIsLost
<1> QED
  BY <1>1, <1>2, <1>3, <1>4, <1>5, <1>6, <1>7, <1>8, <1>9, <1>10, <1>11, <1>12 DEF Gamelist!GamelistNext

\* What the writers of a gamelist leave behind is what the answered edits leave
\* one after the other, for any ROMs and tasks, wherever a write is cut off.
THEOREM EditsAreSerial == Spec => []NoEditIsLost
<1> DEFINE Inv == focus = "gamelist" => Gamelist!EditsInv
<1>1. Init => Inv
  BY GamelistStarts, EditsBegin
<1>2. Inv /\ [Next]_vars => Inv'
  BY FocusStays, GamelistSteps, EditsStep
<1>3. Inv => NoEditIsLost
  BY DEF NoEditIsLost, Gamelist!EditsInv
<1> QED
  BY <1>1, <1>2, <1>3, PTL DEF Spec

-----------------------------------------------------------------------------
(* EmulationStation.                                                       *)

LEMMA FrontendSteps == [Next]_vars /\ focus = "frontend" => [Frontend!FrontendNext]_Frontend!frontendVars
  BY DEF Next, vars, Frontend!frontendVars

LEMMA FrontendStarts == Init /\ focus = "frontend" => Frontend!FrontendInit
  BY DEF Init

\* What a step uses up, late stays at none.
LEMMA FrontendUses ==
  ASSUME Frontend!FrontendTypes, NEW what \in {"requests", "edits", "faults", "crashes"}, Frontend!Use(what)
  PROVE  x9' \in [{"requests", "edits", "faults", "crashes", "late"} -> Nat] /\ x9'["late"] = 0
  BY DEF Frontend!FrontendTypes, Frontend!Use

LEMMA FrontendBegins ==
  Frontend!FrontendInit /\ (\A b \in FrontendBounds : b.late = 0) => Frontend!FrontendInv
<1> SUFFICES ASSUME Frontend!FrontendInit, \A b \in FrontendBounds : b.late = 0 PROVE Frontend!FrontendInv
  OBVIOUS
<1>1. Frontend!FrontendTypes
  BY FrontendAssumption
  DEF Frontend!FrontendInit, Frontend!FrontendTypes, Frontend!Field, Frontend!Setting, Frontend!Choice,
      Frontend!Resting, Frontend!NoRow, Frontend!CallType, Frontend!BackupType, Frontend!Phase
<1> QED
  BY <1>1 DEF Frontend!FrontendInit, Frontend!FrontendInv, Frontend!HoldsLock, Frontend!Resting,
              Frontend!Field, Frontend!Setting

\* The calls after one of them went on or ended.
LEMMA CallGoes ==
  ASSUME Frontend!FrontendTypes, NEW c \in Frontend!Call, NEW p \in Frontend!Phase, Frontend!Go(c, p)
  PROVE  /\ x5' \in Frontend!CallType /\ x5'[c].pc = p /\ x5'[c].op = x5[c].op /\ x5'[c].of = x5[c].of
         /\ \A d \in Frontend!Call \ {c} : x5'[d] = x5[d]
<1>1. x5 \in Frontend!CallType
  BY DEF Frontend!FrontendTypes
<1> QED
  BY <1>1 DEF Frontend!CallType, Frontend!Go

LEMMA CallEnds ==
  ASSUME Frontend!FrontendTypes, NEW c \in Frontend!Call, Frontend!Ends(c)
  PROVE  /\ x5' \in Frontend!CallType /\ x5'[c].pc = "idle" /\ x5'[c].op = "none"
         /\ \A d \in Frontend!Call \ {c} : x5'[d] = x5[d]
<1>1. x5 \in Frontend!CallType
  BY DEF Frontend!FrontendTypes
<1> QED
  BY <1>1 DEF Frontend!CallType, Frontend!Ends, Frontend!Resting, Frontend!Phase, Frontend!Choice

\* The invariant after a step of a call's.
LEMMA CallStep ==
  ASSUME Frontend!FrontendInv, Frontend!FrontendTypes', NEW c \in Frontend!Call,
         \A d \in Frontend!Call \ {c} : x5'[d] = x5[d], Frontend!HoldsLock(c)',
         x1'.up => x1'.mem = x3' /\ \A f \in Frontend!Setting : x2'[f] = x3'[f], ~x1'.up => x2' = x3',
         x4' = x4 \/ x4' = c \/ x4' = 0, x4' = x4 \/ x4 = 0 \/ x4 = c,
         x1'.up => x1.up \/ x4 = c \/ x4 = 0,
         \/ x7' = "idle" /\ ~x6'.request
         \/ x7' = x7 /\ x6' = x6 /\ x4' = x4 /\ x4 # c
         \/ x4' = c /\ x5'[c].pc = "await",
         x7' # "idle" => ~x6'.request, x6'.result # "none" => x7' = "idle" /\ ~x6'.request
  PROVE  Frontend!FrontendInv'
<1>2. ASSUME NEW d \in Frontend!Call PROVE Frontend!HoldsLock(d)'
  <2>1. CASE d # c
    BY <2>1 DEF Frontend!FrontendInv, Frontend!FrontendTypes, Frontend!HoldsLock, Frontend!Call
  <2> QED
    BY <2>1
<1>3. x7' # "idle" \/ x6'.request => \E d \in Frontend!Call : x4' = d /\ Frontend!At(d, "await")'
  BY DEF Frontend!FrontendInv, Frontend!At, Frontend!Call
<1> QED
  BY <1>2, <1>3 DEF Frontend!FrontendInv

LEMMA FrontendStep ==
  ASSUME Frontend!FrontendInv, [Frontend!FrontendNext]_Frontend!frontendVars
  PROVE  Frontend!FrontendInv'
<1> USE DEF Frontend!At, Frontend!esState, Frontend!Belated, Frontend!Nobody
<1>a. Frontend!FrontendTypes
  BY DEF Frontend!FrontendInv
<1>b. \A c \in Frontend!Call : Frontend!HoldsLock(c)
  BY DEF Frontend!FrontendInv
<1>c. /\ x1.up => x1.mem = x3 /\ \A f \in Frontend!Setting : x2[f] = x3[f]
      /\ ~x1.up => x2 = x3
      /\ x7 # "idle" \/ x6.request => \E c \in Frontend!Call : x4 = c /\ x5[c].pc = "await"
      /\ x7 # "idle" => ~x6.request
      /\ x6.result # "none" => x7 = "idle" /\ ~x6.request
  BY DEF Frontend!FrontendInv
<1>d. /\ x1 \in [up : BOOLEAN, mem : [Frontend!Field -> Frontend!Choice]]
      /\ x2 \in [Frontend!Field -> Frontend!Choice] /\ x3 \in [Frontend!Field -> Frontend!Choice]
      /\ x5 \in Frontend!CallType /\ x6 \in [request : BOOLEAN, result : {"none", "ok", "failed"}]
      /\ x7 \in {"idle", "stop", "start"} /\ x8 \in Frontend!BackupType /\ x9["late"] = 0
      /\ x9 \in [{"requests", "edits", "faults", "crashes", "late"} -> Nat]
  BY DEF Frontend!FrontendInv, Frontend!FrontendTypes
<1>e. \A p \in {"idle", "lock", "stop", "write", "start", "request", "await"} : p \in Frontend!Phase
  BY DEF Frontend!Phase
<1>f. Frontend!Setting \subseteq Frontend!Field /\ "mode" \in Frontend!Setting
  BY DEF Frontend!Setting, Frontend!Field
<1>g. 0 \notin Frontend!Call
  BY DEF Frontend!Call
\* The call that has the lock and does not await is alone.
<1>h. ASSUME NEW c \in Frontend!Call, x4 = c \/ x4 = 0, x5[c].pc # "await" PROVE x7 = "idle" /\ ~x6.request
  BY <1>c, <1>h, <1>g
<1>1. ASSUME NEW f \in Frontend!Field, NEW v \in Frontend!Choice, Frontend!EditSetting(f, v)
      PROVE  Frontend!FrontendInv'
  <2>0. x9' \in [{"requests", "edits", "faults", "crashes", "late"} -> Nat] /\ x9'["late"] = 0
    BY <1>1, <1>a, FrontendUses DEF Frontend!EditSetting
  <2>1. x1.up /\ x1' = [x1 EXCEPT !.mem[f] = v] /\ x3' = [x3 EXCEPT ![f] = v]
        /\ x2' = IF f \in Frontend!Setting THEN x1'.mem ELSE x2
    BY <1>1 DEF Frontend!EditSetting
  <2>2. x1' \in [up : BOOLEAN, mem : [Frontend!Field -> Frontend!Choice]] /\ x1'.up /\ x1'.mem = x3'
        /\ x3' \in [Frontend!Field -> Frontend!Choice] /\ x2' \in [Frontend!Field -> Frontend!Choice]
    BY <1>c, <1>d, <2>1
  <2>3. \A g \in Frontend!Setting : x2'[g] = x3'[g]
    BY <1>c, <1>d, <1>f, <2>1, <2>2
  <2>4. UNCHANGED <<x4, x5, x6, x7, x8>>
    BY <1>1 DEF Frontend!EditSetting
  <2>5. \A c \in Frontend!Call : Frontend!HoldsLock(c)'
    BY <1>b, <2>1, <2>2, <2>4 DEF Frontend!HoldsLock
  <2> QED
    BY <1>c, <1>d, <2>0, <2>2, <2>3, <2>4, <2>5 DEF Frontend!FrontendInv, Frontend!FrontendTypes
<1>2. ASSUME NEW c \in Frontend!Call, NEW v \in Frontend!Choice, NEW b \in Backup \cup {NoBackup},
             NEW op \in {"mode", "collections", "reload", "restart", "restore"},
             b = NoBackup \/ (b \in Backup /\ op = "restore"), Frontend!Ask(c, op, v, b)
      PROVE  Frontend!FrontendInv'
  <2>1. op # "restart" /\ x9' \in [{"requests", "edits", "faults", "crashes", "late"} -> Nat] /\ x9'["late"] = 0
    BY <1>2, <1>a, <1>d, FrontendUses DEF Frontend!Ask
  <2>2. UNCHANGED <<x1, x2, x3, x4, x6, x7, x8>> /\ x5[c].pc = "idle"
        /\ x5' = [x5 EXCEPT ![c] = [pc |-> "lock", op |-> op, value |-> v, of |-> b]]
        /\ (op = "restore" => b \in Backup)
    BY <1>2, <2>1 DEF Frontend!Ask
  <2>3. x5' \in Frontend!CallType /\ x5'[c].pc = "lock" /\ x5'[c].op = op /\ x5'[c].of = b
        /\ \A d \in Frontend!Call \ {c} : x5'[d] = x5[d]
    BY <1>d, <1>e, <2>1, <2>2 DEF Frontend!CallType
  <2>4. Frontend!HoldsLock(c)' /\ Frontend!FrontendTypes'
    BY <1>d, <2>1, <2>2, <2>3 DEF Frontend!HoldsLock, Frontend!FrontendTypes
  <2>5. \A d \in Frontend!Call : Frontend!HoldsLock(d)'
    BY <1>b, <2>2, <2>3, <2>4 DEF Frontend!HoldsLock
  <2> QED
    BY <1>c, <2>2, <2>3, <2>4, <2>5 DEF Frontend!FrontendInv
<1>3. ASSUME NEW c \in Frontend!Call, Frontend!TakeLock(c) PROVE Frontend!FrontendInv'
  <2>0. x4 = 0 /\ x5[c].pc = "lock" /\ UNCHANGED <<x1, x2, x6, x7, x8, x9>>
    BY <1>3 DEF Frontend!TakeLock, Frontend!Serialized
  <2>1. CASE Frontend!Ends(c) /\ x2["mode"] = x5[c].value /\ x3' = [x3 EXCEPT !["mode"] = x5[c].value] /\ x4' = x4
    <3>1. x3' = x3
      BY <1>c, <1>d, <1>f, <2>1
    <3>2. Frontend!FrontendTypes' /\ Frontend!HoldsLock(c)'
      BY <1>a, <1>d, <2>0, <2>1, <3>1, CallEnds DEF Frontend!FrontendTypes, Frontend!HoldsLock
    <3> QED
      BY <1>a, <1>c, <1>h, <2>0, <2>1, <3>1, <3>2, CallEnds, CallStep
  <2>2. CASE x4' = c /\ x3' = x3 /\ Frontend!Go(c, IF x5[c].op = "reload" THEN "request" ELSE "stop")
    <3>1. x5'[c].pc = (IF x5[c].op = "reload" THEN "request" ELSE "stop") /\ x5'[c].op = x5[c].op
          /\ x5'[c].of = x5[c].of /\ x5' \in Frontend!CallType /\ \A d \in Frontend!Call \ {c} : x5'[d] = x5[d]
      BY <1>a, <1>e, <2>2, CallGoes
    <3>2. x5[c].op # "none"
      BY <1>b, <2>0 DEF Frontend!HoldsLock
    <3>3. Frontend!FrontendTypes' /\ Frontend!HoldsLock(c)'
      BY <1>b, <1>d, <2>0, <2>2, <3>1, <3>2 DEF Frontend!FrontendTypes, Frontend!HoldsLock, Frontend!CallType
    <3> QED
      BY <1>c, <1>h, <2>0, <2>2, <3>1, <3>3, CallStep
  <2> QED
    BY <1>3, <2>1, <2>2 DEF Frontend!TakeLock
<1>4. ASSUME NEW c \in Frontend!Call, Frontend!StopEs(c) PROVE Frontend!FrontendInv'
  <2>1. x5[c].pc = "stop" /\ UNCHANGED <<x3, x4, x6, x7, x8, x9>> /\ Frontend!Go(c, "write")
        /\ x1' = [x1 EXCEPT !.up = FALSE] /\ x2' = IF x1.up THEN x1.mem ELSE x2
    BY <1>4 DEF Frontend!StopEs, Frontend!Stopped
  <2>2. x1' \in [up : BOOLEAN, mem : [Frontend!Field -> Frontend!Choice]] /\ ~x1'.up /\ x2' = x3'
    BY <1>c, <1>d, <2>1
  <2>3. x5' \in Frontend!CallType /\ x5'[c].pc = "write" /\ x5'[c].op = x5[c].op /\ x5'[c].of = x5[c].of
        /\ \A d \in Frontend!Call \ {c} : x5'[d] = x5[d]
    BY <1>a, <1>e, <2>1, CallGoes
  <2>4. Frontend!FrontendTypes' /\ Frontend!HoldsLock(c)' /\ x4 = c
    BY <1>b, <1>d, <2>1, <2>2, <2>3 DEF Frontend!FrontendTypes, Frontend!HoldsLock
  <2> QED
    BY <1>c, <1>h, <2>1, <2>2, <2>3, <2>4, CallStep
<1>5. ASSUME NEW c \in Frontend!Call, Frontend!WriteFiles(c) PROVE Frontend!FrontendInv'
  <2>1. x5[c].pc = "write" /\ UNCHANGED <<x1, x4, x6, x7, x8, x9>> /\ Frontend!Go(c, "start")
        /\ x2' = Frontend!Changed(c, x2) /\ x3' = Frontend!Changed(c, x3)
    BY <1>5 DEF Frontend!WriteFiles
  <2>2. ~x1.up /\ x4 = c /\ x5[c].op \in {"mode", "collections", "restore"}
        /\ (x5[c].op = "restore" => x5[c].of \in Backup) /\ x2 = x3
    BY <1>b, <1>c, <2>1 DEF Frontend!HoldsLock
  <2>3. x5[c].value \in Frontend!Choice
    BY <1>d DEF Frontend!CallType
  <2>4. x5[c].op = "restore" => x8[x5[c].of].holds \in [Frontend!Field -> Frontend!Choice]
    BY <1>d, <2>2 DEF Frontend!BackupType
  <2>5. Frontend!Changed(c, x2) \in [Frontend!Field -> Frontend!Choice]
    BY <1>d, <2>2, <2>3, <2>4 DEF Frontend!Changed
  <2>6. x5' \in Frontend!CallType /\ x5'[c].pc = "start" /\ x5'[c].op = x5[c].op /\ x5'[c].of = x5[c].of
        /\ \A d \in Frontend!Call \ {c} : x5'[d] = x5[d]
    BY <1>a, <1>e, <2>1, CallGoes
  <2>7. Frontend!FrontendTypes' /\ Frontend!HoldsLock(c)'
    BY <1>d, <2>1, <2>2, <2>5, <2>6 DEF Frontend!FrontendTypes, Frontend!HoldsLock
  <2> QED
    BY <1>c, <1>h, <2>1, <2>2, <2>6, <2>7, CallStep
<1>6. ASSUME NEW c \in Frontend!Call, Frontend!CannotRead(c) \/ Frontend!StartFails(c) PROVE Frontend!FrontendInv'
  <2>0. x9' \in [{"requests", "edits", "faults", "crashes", "late"} -> Nat] /\ x9'["late"] = 0
    BY <1>6, <1>a, <1>d, FrontendUses DEF Frontend!CannotRead, Frontend!StartFails
  <2>1. x5[c].pc \in {"write", "start"} /\ UNCHANGED <<x1, x2, x3, x6, x7, x8>> /\ Frontend!Ends(c)
        /\ x4' = IF x4 = c THEN 0 ELSE x4
    BY <1>6 DEF Frontend!CannotRead, Frontend!StartFails, Frontend!Release
  <2>2. Frontend!FrontendTypes' /\ Frontend!HoldsLock(c)' /\ x4 = c
    BY <1>a, <1>b, <1>d, <2>0, <2>1, CallEnds DEF Frontend!FrontendTypes, Frontend!HoldsLock
  <2> QED
    BY <1>a, <1>c, <1>h, <2>1, <2>2, CallEnds, CallStep
<1>7. ASSUME NEW c \in Frontend!Call, Frontend!StartEs(c) PROVE Frontend!FrontendInv'
  <2>1. x5[c].pc = "start" /\ UNCHANGED <<x2, x3, x6, x7, x8, x9>> /\ Frontend!Ends(c)
        /\ x4' = (IF x4 = c THEN 0 ELSE x4) /\ x1' = IF x1.up THEN x1 ELSE [up |-> TRUE, mem |-> x2]
    BY <1>7 DEF Frontend!StartEs, Frontend!Started, Frontend!Release
  <2>2. /\ x1' \in [up : BOOLEAN, mem : [Frontend!Field -> Frontend!Choice]] /\ x1'.up /\ x1'.mem = x3
        /\ \A f \in Frontend!Setting : x2[f] = x3[f]
    BY <1>c, <1>d, <2>1
  <2>3. Frontend!FrontendTypes' /\ Frontend!HoldsLock(c)' /\ x4 = c
    BY <1>a, <1>b, <1>d, <2>1, <2>2, CallEnds DEF Frontend!FrontendTypes, Frontend!HoldsLock
  <2> QED
    BY <1>a, <1>c, <1>h, <2>1, <2>2, <2>3, CallEnds, CallStep
<1>8. ASSUME NEW c \in Frontend!Call, Frontend!RequestRestart(c) PROVE Frontend!FrontendInv'
  <2>1. x5[c].pc = "request" /\ UNCHANGED <<x1, x2, x3, x4, x7, x8, x9>> /\ Frontend!Go(c, "await")
        /\ x6' = [request |-> TRUE, result |-> "none"]
    BY <1>8 DEF Frontend!RequestRestart
  <2>2. x5' \in Frontend!CallType /\ x5'[c].pc = "await" /\ x5'[c].op = x5[c].op /\ x5'[c].of = x5[c].of
        /\ \A d \in Frontend!Call \ {c} : x5'[d] = x5[d]
    BY <1>a, <1>e, <2>1, CallGoes
  <2>3. Frontend!FrontendTypes' /\ Frontend!HoldsLock(c)' /\ x4 = c
    BY <1>b, <1>d, <2>1, <2>2 DEF Frontend!FrontendTypes, Frontend!HoldsLock
  <2> QED
    BY <1>c, <1>h, <2>1, <2>2, <2>3, CallStep
<1>9. ASSUME NEW c \in Frontend!Call, Frontend!HearResult(c) \/ Frontend!GiveUpWaiting(c) PROVE Frontend!FrontendInv'
  <2>0. x9' \in [{"requests", "edits", "faults", "crashes", "late"} -> Nat] /\ x9'["late"] = 0
    BY <1>9, <1>a, <1>d, FrontendUses DEF Frontend!HearResult, Frontend!GiveUpWaiting
  <2>1. x5[c].pc = "await" /\ UNCHANGED <<x1, x2, x3, x7, x8>> /\ Frontend!Ends(c)
        /\ x4' = IF x4 = c THEN 0 ELSE x4
    BY <1>9 DEF Frontend!HearResult, Frontend!GiveUpWaiting, Frontend!Release
  <2>2. /\ x7 = "idle" /\ ~x6'.request /\ x6' \in [request : BOOLEAN, result : {"none", "ok", "failed"}]
    <3>1. \/ x6.result # "none" /\ x6' = [x6 EXCEPT !.result = "none"]
          \/ x6.result = "none" /\ x7 = "idle" /\ x6' = [x6 EXCEPT !.request = FALSE]
      BY <1>9, <1>d DEF Frontend!HearResult, Frontend!GiveUpWaiting
    <3> QED
      BY <1>c, <1>d, <3>1
  <2>3. Frontend!FrontendTypes' /\ Frontend!HoldsLock(c)' /\ x4 = c
    BY <1>a, <1>b, <1>d, <2>0, <2>1, <2>2, CallEnds DEF Frontend!FrontendTypes, Frontend!HoldsLock
  <2> QED
    BY <1>a, <1>c, <2>1, <2>2, <2>3, CallEnds, CallStep
<1>10. CASE Frontend!TakeRequest
  BY <1>10, <1>a, <1>b, <1>c DEF Frontend!TakeRequest, Frontend!FrontendInv, Frontend!FrontendTypes, Frontend!HoldsLock
<1>11. CASE Frontend!WorkerStopsEs
  <2>1. x7 = "stop" /\ x7' = "start" /\ UNCHANGED <<x3, x4, x5, x6, x8, x9>>
        /\ x1' = [x1 EXCEPT !.up = FALSE] /\ x2' = IF x1.up THEN x1.mem ELSE x2
    BY <1>11 DEF Frontend!WorkerStopsEs, Frontend!Stopped
  <2>2. x1' \in [up : BOOLEAN, mem : [Frontend!Field -> Frontend!Choice]] /\ ~x1'.up /\ x2' = x3'
    BY <1>c, <1>d, <2>1
  <2>3. \A c \in Frontend!Call : Frontend!HoldsLock(c)'
    BY <1>b, <2>1, <2>2 DEF Frontend!HoldsLock
  <2> QED
    BY <1>c, <1>d, <2>1, <2>2, <2>3 DEF Frontend!FrontendInv, Frontend!FrontendTypes
\* The control worker starts it for the call that holds the lock and awaits it.
<1>12. CASE Frontend!WorkerStartsEs
  <2>0. x9' \in [{"requests", "edits", "faults", "crashes", "late"} -> Nat] /\ x9'["late"] = 0
    BY <1>12, <1>a, <1>d, FrontendUses DEF Frontend!WorkerStartsEs
  <2>1. x7 = "start" /\ x7' = "idle" /\ UNCHANGED <<x2, x3, x4, x5, x8>>
        /\ \/ x6' = [x6 EXCEPT !.result = "ok"] /\ x1' = IF x1.up THEN x1 ELSE [up |-> TRUE, mem |-> x2]
           \/ x6' = [x6 EXCEPT !.result = "failed"] /\ x1' = x1
    BY <1>12 DEF Frontend!WorkerStartsEs, Frontend!Started
  <2>2. \A c \in Frontend!Call : x5[c].pc \notin {"write", "start"}
    BY <1>b, <1>c, <2>1 DEF Frontend!HoldsLock
  <2>3. \A c \in Frontend!Call : Frontend!HoldsLock(c)'
    BY <1>b, <2>1, <2>2 DEF Frontend!HoldsLock
  <2>4. /\ x1' \in [up : BOOLEAN, mem : [Frontend!Field -> Frontend!Choice]]
        /\ x6' \in [request : BOOLEAN, result : {"none", "ok", "failed"}] /\ ~x6'.request
        /\ x1'.up => x1'.mem = x3 /\ \A f \in Frontend!Setting : x2[f] = x3[f]
        /\ ~x1'.up => x2 = x3
    <3>1. CASE x1.up \/ x1' = x1
      BY <1>c, <1>d, <2>1, <3>1
    <3>2. CASE ~x1.up /\ x1' = [up |-> TRUE, mem |-> x2]
      BY <1>c, <1>d, <2>1, <3>2
    <3> QED
      BY <2>1, <3>1, <3>2
  <2> QED
    BY <1>d, <2>0, <2>1, <2>3, <2>4 DEF Frontend!FrontendInv, Frontend!FrontendTypes
<1>13. ASSUME NEW b \in Backup, \/ Frontend!AskToBackUp(b) \/ Frontend!BeginBackup(b) \/ Frontend!BuildTarball(b)
                                \/ Frontend!EndBackup(b) \/ Frontend!DeleteBackup(b)
       PROVE  Frontend!FrontendInv'
  <2>0. x9' \in [{"requests", "edits", "faults", "crashes", "late"} -> Nat] /\ x9'["late"] = 0
    BY <1>13, <1>a, <1>d, FrontendUses
    DEF Frontend!AskToBackUp, Frontend!BeginBackup, Frontend!BuildTarball, Frontend!EndBackup, Frontend!DeleteBackup
  <2>1. UNCHANGED <<x1, x2, x3, x4, x5, x6, x7>>
    BY <1>13 DEF Frontend!AskToBackUp, Frontend!BeginBackup, Frontend!BuildTarball, Frontend!EndBackup,
                 Frontend!DeleteBackup
  <2>2. x8' \in Frontend!BackupType
    <3>0. CASE Frontend!AskToBackUp(b)
      <4>1. x8' = [x8 EXCEPT ![b].row = "asked"]
        BY <3>0 DEF Frontend!AskToBackUp
      <4> QED
        BY SMTT(40), <1>d, <4>1 DEF Frontend!BackupType
    <3>1. CASE Frontend!BeginBackup(b)
      <4>1. x8' = [x8 EXCEPT ![b] = [@ EXCEPT !.row = "creating", !.thread = "build"]]
        BY <3>1 DEF Frontend!BeginBackup
      <4> QED
        BY ZenonT(60), <1>d, <4>1 DEF Frontend!BackupType
    <3>2. CASE Frontend!BuildTarball(b)
      BY ZenonT(60), <1>d, <3>2 DEF Frontend!BuildTarball, Frontend!BackupType
    <3>3. CASE Frontend!EndBackup(b)
      <4> DEFINE outcome == IF x8[b].thread = "complete" THEN "complete" ELSE "error"
                 row == IF x8[b].row = "creating" THEN outcome ELSE x8[b].row
      <4>1. x8' = [x8 EXCEPT ![b] = [x8[b] EXCEPT !.thread = "none", !.row = row]]
        BY <3>3 DEF Frontend!EndBackup
      <4>2. row \in {"none", "asked", "creating", "complete", "error", "deleted"}
        BY <1>d DEF Frontend!BackupType
      <4> HIDE DEF row
      <4> DEFINE after == [x8[b] EXCEPT !.thread = "none", !.row = row]
      <4>3. after \in [row : {"none", "asked", "creating", "complete", "error", "deleted"}, tar : BOOLEAN,
                       thread : {"none", "build", "complete"}, holds : [Frontend!Field -> Frontend!Choice]]
        BY ZenonT(60), <1>d, <4>2 DEF Frontend!BackupType
      <4>4. x8' = [x8 EXCEPT ![b] = after]
        BY <4>1
      <4> HIDE DEF after
      <4> QED
        BY <1>d, <4>3, <4>4 DEF Frontend!BackupType
    <3>4. CASE Frontend!DeleteBackup(b)
      BY ZenonT(60), <1>d, <3>4 DEF Frontend!DeleteBackup, Frontend!BackupType
    <3> QED
      BY <1>13, <3>0, <3>1, <3>2, <3>3, <3>4
  <2> QED
    BY <1>b, <1>c, <1>d, <2>0, <2>1, <2>2 DEF Frontend!FrontendInv, Frontend!FrontendTypes, Frontend!HoldsLock
<1>14. CASE Frontend!RestartDrone
  <2>0. x9' \in [{"requests", "edits", "faults", "crashes", "late"} -> Nat] /\ x9'["late"] = 0
    BY <1>14, <1>a, FrontendUses DEF Frontend!RestartDrone
  <2>1. /\ UNCHANGED <<x1, x2, x3, x6, x7>> /\ x4' = 0 /\ x5' = [c \in Frontend!Call |-> Frontend!Resting]
        /\ x7 # "idle" \/ x6.request => x9.late > 0
    BY <1>14 DEF Frontend!RestartDrone
  <2>a. x7 = "idle" /\ ~x6.request
    BY <1>d, <2>1
  <2>2. x5' \in Frontend!CallType /\ \A c \in Frontend!Call : x5'[c].pc = "idle" /\ x5'[c].op = "none"
    BY <2>1 DEF Frontend!CallType, Frontend!Resting, Frontend!Phase, Frontend!Choice
  <2>3. x8' \in Frontend!BackupType
    BY ZenonT(60), <1>14, <1>d DEF Frontend!RestartDrone, Frontend!BackupType
  <2>4. \A c \in Frontend!Call : Frontend!HoldsLock(c)'
    BY <2>2 DEF Frontend!HoldsLock
  <2> QED
    BY <1>c, <1>d, <2>0, <2>1, <2>a, <2>2, <2>3, <2>4 DEF Frontend!FrontendInv, Frontend!FrontendTypes
<1>15. CASE UNCHANGED Frontend!frontendVars
  BY <1>15 DEF Frontend!frontendVars, Frontend!FrontendInv, Frontend!FrontendTypes, Frontend!HoldsLock
<1> QED
  BY <1>1, <1>2, <1>3, <1>4, <1>5, <1>6, <1>7, <1>8, <1>9, <1>10, <1>11, <1>12, <1>13, <1>14, <1>15
  DEF Frontend!FrontendNext, Frontend!Choice

\* What was applied to EmulationStation is what it runs with, for any requests,
\* edits and backups, as long as nobody restarts it past the lifecycle lock
\* (_ES_LIFECYCLE_LOCK) and no worker outlives its request.
THEOREM AppliedStays ==
  ASSUME \A b \in FrontendBounds : b.late = 0
  PROVE  Spec => []AppliedIsKept
<1> DEFINE Inv == focus = "frontend" => Frontend!FrontendInv
<1>1. Init => Inv
  BY FrontendStarts, FrontendBegins
<1>2. Inv /\ [Next]_vars => Inv'
  BY FocusStays, FrontendSteps, FrontendStep
<1>3. Inv => AppliedIsKept
  BY DEF AppliedIsKept, Frontend!AppliedIsKept, Frontend!FrontendInv
<1> QED
  BY <1>1, <1>2, <1>3, PTL DEF Spec

-----------------------------------------------------------------------------
(* The node on the tailnet.                                                *)

LEMMA TailnetSteps == [Next]_vars /\ focus = "tailnet" => [Tailnet!TailnetNext]_Tailnet!tailnetVars
  BY DEF Next, vars, Tailnet!tailnetVars

LEMMA TailnetStarts == Init /\ focus = "tailnet" => Tailnet!TailnetInit
  BY DEF Init

LEMMA TailnetUses ==
  ASSUME Tailnet!TailnetTypes, NEW what \in Tailnet!TailnetCount \ {"late"}, Tailnet!Use(what)
  PROVE  x9' \in [Tailnet!TailnetCount -> Nat] /\ x9'["late"] = 0
  BY DEF Tailnet!TailnetTypes, Tailnet!Use, Tailnet!TailnetCount

LEMMA TailnetBegins ==
  Tailnet!TailnetInit /\ (\A b \in TailnetBounds : b.late = 0) => Tailnet!TailnetInv
<1> SUFFICES ASSUME Tailnet!TailnetInit, \A b \in TailnetBounds : b.late = 0 PROVE Tailnet!TailnetInv
  OBVIOUS
<1>1. x2 = [key |-> NoKey, source |-> Here, revoked |-> FALSE]
      /\ x5 = [c \in Tailnet!Asker |-> [pc |-> "idle", key |-> NoKey, from |-> Here, todo |-> {}]] /\ x8 = {}
  BY DEF Tailnet!TailnetInit, Tailnet!NothingShared, Tailnet!NoCall
<1>2. x5 \in [Tailnet!Asker -> Tailnet!KeyCall] /\ \A c \in Tailnet!Asker : x5[c].pc = "idle" /\ x5[c].from = Here
  BY <1>1 DEF Tailnet!KeyCall, Tailnet!KeyStep
<1>3. x3 \in [KeyPeer -> [paired : BOOLEAN, key : AuthKey \cup {NoKey}]] /\ \A p \in KeyPeer : Origin[x3[p].key] = p
  <2>1. x3 \in [KeyPeer -> {[paired |-> TRUE, key |-> k] : k \in AuthKey}] /\ \A p \in KeyPeer : Origin[x3[p].key] = p
    BY DEF Tailnet!TailnetInit
  <2>2. ASSUME NEW p \in KeyPeer PROVE x3[p] \in [paired : BOOLEAN, key : AuthKey \cup {NoKey}]
    <3>1. PICK k \in AuthKey : x3[p] = [paired |-> TRUE, key |-> k]
      BY <2>1
    <3> QED
      BY <3>1
  <2> QED
    BY <2>1, <2>2
<1>4. x9 \in [Tailnet!TailnetCount -> Nat] /\ x9["late"] = 0
  BY TailnetAssumption DEF Tailnet!TailnetInit, Tailnet!TailnetCount
<1> QED
  BY <1>1, <1>2, <1>3, <1>4
  DEF Tailnet!TailnetInv, Tailnet!TailnetTypes, Tailnet!CarriesKey, Tailnet!KeysKeepTheirOrigin

\* The invariant after a step of a call's.
LEMMA KeyCallStep ==
  ASSUME Tailnet!TailnetInv, Tailnet!TailnetTypes', NEW c \in Tailnet!Asker,
         \A d \in Tailnet!Asker \ {c} : x5'[d] = x5[d], Tailnet!CarriesKey(c)', x3' = x3,
         x6' = x6 \/ x6' = c \/ x6' = "nobody", x6' = x6 \/ x6 = c \/ x6 = "nobody",
         x2' = x2 \/ x6 = c \/ x6 = "nobody",
         \/ Tailnet!KeysKeepTheirOrigin'
         \/ x2' = x2 /\ x8' = x8 /\ x5[c].pc # "source"
  PROVE  Tailnet!TailnetInv'
<1>1. ASSUME NEW d \in Tailnet!Asker PROVE Tailnet!CarriesKey(d)'
  <2>1. CASE d # c
    <3>1. x5'[d] = x5[d] /\ Tailnet!CarriesKey(d) /\ d # "nobody"
      BY <2>1 DEF Tailnet!TailnetInv, Tailnet!Asker
    <3> QED
      BY <2>1, <3>1 DEF Tailnet!CarriesKey
  <2> QED
    BY <2>1
<1>2. Tailnet!KeysKeepTheirOrigin'
  <2>1. CASE x2' = x2 /\ x8' = x8 /\ x5[c].pc # "source"
    <3>1. Tailnet!BetweenSaves => Tailnet!BetweenSaves'
      BY <2>1 DEF Tailnet!BetweenSaves, Tailnet!At
    <3> QED
      BY <2>1, <3>1 DEF Tailnet!TailnetInv, Tailnet!KeysKeepTheirOrigin
  <2> QED
    BY <2>1
<1> QED
  BY <1>1, <1>2 DEF Tailnet!TailnetInv

LEMMA KeyCallGoes ==
  ASSUME Tailnet!TailnetTypes, NEW c \in Tailnet!Asker, NEW p \in Tailnet!KeyStep, Tailnet!Go(c, p)
  PROVE  /\ x5' \in [Tailnet!Asker -> Tailnet!KeyCall] /\ x5'[c].pc = p /\ x5'[c].key = x5[c].key
         /\ x5'[c].from = x5[c].from /\ \A d \in Tailnet!Asker \ {c} : x5'[d] = x5[d]
<1>1. x5 \in [Tailnet!Asker -> Tailnet!KeyCall]
  BY DEF Tailnet!TailnetTypes
<1> QED
  BY <1>1 DEF Tailnet!KeyCall, Tailnet!Go

LEMMA KeyCallEnds ==
  ASSUME Tailnet!TailnetTypes, NEW c \in Tailnet!Asker, Tailnet!Done(c)
  PROVE  /\ x5' \in [Tailnet!Asker -> Tailnet!KeyCall] /\ x5'[c].pc = "idle" /\ x5'[c].from = Here
         /\ \A d \in Tailnet!Asker \ {c} : x5'[d] = x5[d]
<1>1. x5 \in [Tailnet!Asker -> Tailnet!KeyCall]
  BY DEF Tailnet!TailnetTypes
<1> QED
  BY <1>1 DEF Tailnet!KeyCall, Tailnet!Done, Tailnet!NoCall, Tailnet!KeyStep

\* A key that a peer offers is its own.
LEMMA OffersOwn ==
  ASSUME Tailnet!TailnetInv, NEW p \in KeyPeer, Tailnet!Offers(p)
  PROVE  x3[p].key \in AuthKey /\ Origin[x3[p].key] = p
  BY DEF Tailnet!TailnetInv, Tailnet!TailnetTypes, Tailnet!Offers

LEMMA TailnetStep ==
  ASSUME Tailnet!TailnetInv, [Tailnet!TailnetNext]_Tailnet!tailnetVars
  PROVE  Tailnet!TailnetInv'
<1> USE DEF Tailnet!At, Tailnet!Nobody
<1>a. /\ Tailnet!TailnetTypes /\ Tailnet!KeysKeepTheirOrigin
      /\ \A p \in KeyPeer : x3[p].key # NoKey => Origin[x3[p].key] = p
      /\ \A c \in Tailnet!Asker : Tailnet!CarriesKey(c)
  BY DEF Tailnet!TailnetInv
<1>d. /\ x2 \in [key : AuthKey \cup {NoKey}, source : KeyPeer \cup {Here}, revoked : BOOLEAN]
      /\ x3 \in [KeyPeer -> [paired : BOOLEAN, key : AuthKey \cup {NoKey}]]
      /\ x5 \in [Tailnet!Asker -> Tailnet!KeyCall]
      /\ x9 \in [Tailnet!TailnetCount -> Nat] /\ x9["late"] = 0
  BY <1>a DEF Tailnet!TailnetTypes
<1>e. /\ \A p \in {"idle", "peers", "lock", "up", "expiry", "save", "source", "ask", "revoke"} : p \in Tailnet!KeyStep
      /\ "user" \in Tailnet!Asker /\ "retry" \in Tailnet!Asker /\ "revoker" \in Tailnet!Asker /\ "nobody" \notin Tailnet!Asker
  BY DEF Tailnet!KeyStep, Tailnet!Asker
<1>f. Here \notin KeyPeer /\ NoKey \notin AuthKey
  BY TailnetAssumption
<1>g. {"calls", "looks", "failures", "checks", "changes", "faults", "crashes"} \subseteq Tailnet!TailnetCount \ {"late"}
  BY DEF Tailnet!TailnetCount
<1>h. ASSUME NEW what \in {"calls", "looks", "failures", "checks", "changes", "faults", "crashes"}, Tailnet!Use(what)
      PROVE  x9' \in [Tailnet!TailnetCount -> Nat] /\ x9'["late"] = 0
  BY <1>a, <1>g, <1>h, TailnetUses
\* A step that moves no call, no lock and nothing on file.
<1>s. ASSUME UNCHANGED <<x2, x3, x5, x6, x8>>, x9' \in [Tailnet!TailnetCount -> Nat] /\ x9'["late"] = 0
      PROVE  Tailnet!TailnetInv'
  BY <1>a, <1>d, <1>s DEF Tailnet!TailnetInv, Tailnet!TailnetTypes, Tailnet!CarriesKey, Tailnet!KeysKeepTheirOrigin,
                          Tailnet!BetweenSaves
<1>1. ASSUME NEW k \in AuthKey, Tailnet!AskToEnroll(k) \/ Tailnet!AskToRotate(k) PROVE Tailnet!TailnetInv'
  <2>1. x5["user"].pc = "idle" /\ Origin[k] = Here /\ UNCHANGED <<x2, x3, x6, x8>>
        /\ x5' = [x5 EXCEPT !["user"] = [@ EXCEPT !.pc = "up", !.key = k]]
        /\ x9' \in [Tailnet!TailnetCount -> Nat] /\ x9'["late"] = 0
    BY <1>1, <1>h DEF Tailnet!AskToEnroll, Tailnet!AskToRotate
  <2>2. x5["user"].from = Here
    BY <1>a, <1>e, <2>1 DEF Tailnet!CarriesKey
  <2>3. x5' \in [Tailnet!Asker -> Tailnet!KeyCall] /\ x5'["user"].pc = "up" /\ x5'["user"].key = k
        /\ x5'["user"].from = Here /\ \A d \in Tailnet!Asker \ {"user"} : x5'[d] = x5[d]
    BY ZenonT(60), <1>d, <1>e, <2>1, <2>2 DEF Tailnet!KeyCall
  <2>4. Tailnet!TailnetTypes' /\ Tailnet!CarriesKey("user")'
    BY <1>d, <2>1, <2>3 DEF Tailnet!TailnetTypes, Tailnet!CarriesKey
  <2> QED
    BY <1>e, <2>1, <2>3, <2>4, KeyCallStep
<1>2. ASSUME NEW p \in KeyPeer, Tailnet!AskToPull(p) PROVE Tailnet!TailnetInv'
  <2>1. x5["user"].pc = "idle" /\ Tailnet!Offers(p) /\ UNCHANGED <<x2, x3, x6, x8>>
        /\ x5' = [x5 EXCEPT !["user"] = [@ EXCEPT !.pc = "lock", !.key = x3[p].key, !.from = p]]
        /\ x9' \in [Tailnet!TailnetCount -> Nat] /\ x9'["late"] = 0
    BY <1>2, <1>h DEF Tailnet!AskToPull, Tailnet!Fetched
  <2>2. x3[p].key \in AuthKey /\ Origin[x3[p].key] = p
    BY <2>1, OffersOwn
  <2>3. /\ x5' \in [Tailnet!Asker -> Tailnet!KeyCall] /\ x5'["user"].pc = "lock" /\ x5'["user"].key = x3[p].key
        /\ x5'["user"].from = p /\ \A d \in Tailnet!Asker \ {"user"} : x5'[d] = x5[d]
    BY ZenonT(60), <1>d, <1>e, <2>1, <2>2 DEF Tailnet!KeyCall
  <2>4. Tailnet!TailnetTypes' /\ Tailnet!CarriesKey("user")'
    BY <1>d, <2>1, <2>2, <2>3 DEF Tailnet!TailnetTypes, Tailnet!CarriesKey
  <2> QED
    BY <1>e, <2>1, <2>3, <2>4, KeyCallStep
<1>3. ASSUME NEW p \in KeyPeer, Tailnet!Unpair(p) \/ \E k \in AuthKey \cup {NoKey} : Tailnet!PeerChanges(p, k)
      PROVE  Tailnet!TailnetInv'
  <2>1. UNCHANGED <<x2, x5, x6, x8>> /\ x9' \in [Tailnet!TailnetCount -> Nat] /\ x9'["late"] = 0
        /\ \/ x3' = [x3 EXCEPT ![p].paired = FALSE]
           \/ \E k \in AuthKey \cup {NoKey} : (k # NoKey => Origin[k] = p) /\ x3' = [x3 EXCEPT ![p].key = k]
    BY <1>3, <1>h DEF Tailnet!Unpair, Tailnet!PeerChanges
  <2>2. /\ x3' \in [KeyPeer -> [paired : BOOLEAN, key : AuthKey \cup {NoKey}]]
        /\ \A q \in KeyPeer : x3'[q].key # NoKey => Origin[x3'[q].key] = q
    BY ZenonT(60), <1>a, <1>d, <2>1
  <2> QED
    BY <1>a, <1>d, <2>1, <2>2 DEF Tailnet!TailnetInv, Tailnet!TailnetTypes, Tailnet!CarriesKey,
                                  Tailnet!KeysKeepTheirOrigin, Tailnet!BetweenSaves
<1>4. CASE Tailnet!Bootstrap
  <2>1. PICK todo \in SUBSET KeyPeer : x5["retry"].pc = "idle" /\ UNCHANGED <<x2, x3, x6, x8>>
        /\ x5' = [x5 EXCEPT !["retry"] = [@ EXCEPT !.pc = "peers", !.todo = todo]]
        /\ x9' \in [Tailnet!TailnetCount -> Nat] /\ x9'["late"] = 0
    BY <1>4, <1>h DEF Tailnet!Bootstrap
  <2>2. x5["retry"].from = Here
    BY <1>a, <1>e, <2>1 DEF Tailnet!CarriesKey
  <2>a. x5["retry"] \in Tailnet!KeyCall /\ [x5["retry"] EXCEPT !.pc = "peers", !.todo = todo] \in Tailnet!KeyCall
    BY <1>d, <1>e DEF Tailnet!KeyCall
  <2>3. x5' \in [Tailnet!Asker -> Tailnet!KeyCall] /\ x5'["retry"].pc = "peers"
        /\ x5'["retry"].from = Here /\ \A d \in Tailnet!Asker \ {"retry"} : x5'[d] = x5[d]
    BY <1>d, <1>e, <2>1, <2>2, <2>a DEF Tailnet!KeyCall
  <2>4. Tailnet!TailnetTypes' /\ Tailnet!CarriesKey("retry")'
    BY <1>d, <2>1, <2>3 DEF Tailnet!TailnetTypes, Tailnet!CarriesKey
  <2> QED
    BY <1>e, <2>1, <2>3, <2>4, KeyCallStep
<1>5. CASE Tailnet!TryPeer
  <2>1. x5["retry"].pc = "peers" /\ UNCHANGED <<x2, x3, x6, x8, x9>>
    BY <1>5 DEF Tailnet!TryPeer
  <2>2. CASE Tailnet!Done("retry")
    <3>1. Tailnet!TailnetTypes' /\ Tailnet!CarriesKey("retry")'
      BY <1>a, <1>d, <1>e, <2>1, <2>2, KeyCallEnds DEF Tailnet!TailnetTypes, Tailnet!CarriesKey
    <3> QED
      BY <1>a, <1>e, <2>1, <2>2, <3>1, KeyCallEnds, KeyCallStep
  <2>3. ASSUME NEW p \in KeyPeer, Tailnet!Offers(p), x5' = [Tailnet!Fetched("retry", p) EXCEPT !["retry"].todo = @ \ {p}]
        PROVE  Tailnet!TailnetInv'
    <3>1. x5["retry"].todo \in SUBSET KeyPeer
      BY <1>d, <1>e DEF Tailnet!KeyCall
    <3>2. x5' = [x5 EXCEPT !["retry"] = [@ EXCEPT !.pc = "lock", !.key = x3[p].key, !.from = p,
                                                !.todo = x5["retry"].todo \ {p}]]
      BY <1>d, <1>e, <2>3 DEF Tailnet!Fetched, Tailnet!KeyCall
    <3>a. x3[p].key \in AuthKey /\ Origin[x3[p].key] = p
      BY <2>3, OffersOwn
    <3>3. /\ x5' \in [Tailnet!Asker -> Tailnet!KeyCall] /\ x5'["retry"].pc = "lock" /\ x5'["retry"].key = x3[p].key
          /\ x5'["retry"].from = p /\ \A d \in Tailnet!Asker \ {"retry"} : x5'[d] = x5[d]
      BY <1>d, <1>e, <3>1, <3>2, <3>a DEF Tailnet!KeyCall
    <3>4. Tailnet!TailnetTypes' /\ Tailnet!CarriesKey("retry")'
      BY <1>d, <2>1, <3>3, <3>a DEF Tailnet!TailnetTypes, Tailnet!CarriesKey
    <3> QED
      BY <1>e, <2>1, <3>3, <3>4, KeyCallStep
  <2>4. ASSUME NEW p, x5' = [x5 EXCEPT !["retry"].todo = @ \ {p}] PROVE Tailnet!TailnetInv'
    <3>1. x5["retry"].from = Here
      BY <1>a, <1>e, <2>1 DEF Tailnet!CarriesKey
    <3>2. x5' \in [Tailnet!Asker -> Tailnet!KeyCall] /\ x5'["retry"].pc = "peers"
          /\ x5'["retry"].from = Here /\ \A d \in Tailnet!Asker \ {"retry"} : x5'[d] = x5[d]
      BY SMTT(40), <1>d, <1>e, <2>1, <2>4, <3>1 DEF Tailnet!KeyCall
    <3>3. Tailnet!TailnetTypes' /\ Tailnet!CarriesKey("retry")'
      BY <1>d, <2>1, <3>2 DEF Tailnet!TailnetTypes, Tailnet!CarriesKey
    <3> QED
      BY <1>e, <2>1, <3>2, <3>3, KeyCallStep
  <2>5. x5["retry"].todo \subseteq KeyPeer
    BY <1>d, <1>e DEF Tailnet!KeyCall
  <2> QED
    BY <1>5, <2>2, <2>3, <2>4, <2>5 DEF Tailnet!TryPeer
<1>6. CASE Tailnet!Check
  <2>1. x5["revoker"].pc = "idle" /\ UNCHANGED <<x2, x3, x6, x8>>
        /\ x5' = [x5 EXCEPT !["revoker"] = [@ EXCEPT !.pc = "ask", !.from = x2.source]]
        /\ x9' \in [Tailnet!TailnetCount -> Nat] /\ x9'["late"] = 0
    BY <1>6, <1>h DEF Tailnet!Check
  <2>3. x5' \in [Tailnet!Asker -> Tailnet!KeyCall] /\ x5'["revoker"].pc = "ask"
        /\ \A d \in Tailnet!Asker \ {"revoker"} : x5'[d] = x5[d]
    BY ZenonT(60), <1>d, <1>e, <2>1 DEF Tailnet!KeyCall
  <2>4. Tailnet!TailnetTypes' /\ Tailnet!CarriesKey("revoker")'
    BY <1>d, <2>1, <2>3 DEF Tailnet!TailnetTypes, Tailnet!CarriesKey
  <2> QED
    BY <1>e, <2>1, <2>3, <2>4, KeyCallStep
<1>7. CASE Tailnet!Ask
  <2>1. x5["revoker"].pc = "ask" /\ UNCHANGED <<x2, x3, x6, x8, x9>>
        /\ (Tailnet!Go("revoker", "revoke") \/ Tailnet!Done("revoker"))
    BY <1>7 DEF Tailnet!Ask
  <2>2. x5' \in [Tailnet!Asker -> Tailnet!KeyCall] /\ \A d \in Tailnet!Asker \ {"revoker"} : x5'[d] = x5[d]
    BY <1>a, <1>e, <2>1, KeyCallGoes, KeyCallEnds
  <2>3. x5'["revoker"].pc = "revoke" \/ (x5'["revoker"].pc = "idle" /\ x5'["revoker"].from = Here)
    BY <1>a, <1>e, <2>1, KeyCallGoes, KeyCallEnds
  <2>4. Tailnet!TailnetTypes' /\ Tailnet!CarriesKey("revoker")'
    BY <1>d, <2>1, <2>2, <2>3 DEF Tailnet!TailnetTypes, Tailnet!CarriesKey
  <2> QED
    BY <1>e, <2>1, <2>2, <2>4, KeyCallStep
\* Nothing is between the two saves of an import, so the key is of whom it names.
<1>8. CASE Tailnet!Revoke
  <2>1. x5["revoker"].pc = "revoke" /\ (x6 = "nobody" \/ x6 = "revoker") /\ UNCHANGED <<x3, x6, x9>>
        /\ Tailnet!Done("revoker")
        /\ \/ UNCHANGED <<x2, x8>>
           \/ /\ x2.source = x5["revoker"].from /\ x2.key # NoKey
              /\ x2' = [x2 EXCEPT !.key = NoKey, !.revoked = TRUE]
              /\ x8' = x8 \cup {[key |-> x2.key, from |-> x5["revoker"].from]}
    BY <1>8 DEF Tailnet!Revoke, Tailnet!MayHold
  <2>2. x5' \in [Tailnet!Asker -> Tailnet!KeyCall] /\ x5'["revoker"].pc = "idle" /\ x5'["revoker"].from = Here
        /\ \A d \in Tailnet!Asker \ {"revoker"} : x5'[d] = x5[d]
    BY <1>a, <1>e, <2>1, KeyCallEnds
  <2>3. x2' \in [key : AuthKey \cup {NoKey}, source : KeyPeer \cup {Here}, revoked : BOOLEAN]
    BY <1>d, <2>1
  <2>4. Tailnet!TailnetTypes' /\ Tailnet!CarriesKey("revoker")'
    BY <1>d, <2>1, <2>2, <2>3 DEF Tailnet!TailnetTypes, Tailnet!CarriesKey
  <2>5. ~Tailnet!BetweenSaves
    BY <1>a, <1>e, <2>1 DEF Tailnet!BetweenSaves, Tailnet!CarriesKey
  <2>6. Tailnet!KeysKeepTheirOrigin'
    <3>1. CASE UNCHANGED <<x2, x8>>
      BY <1>a, <2>5, <3>1 DEF Tailnet!KeysKeepTheirOrigin
    <3>2. CASE /\ x2.source = x5["revoker"].from /\ x2.key # NoKey
               /\ x2' = [x2 EXCEPT !.key = NoKey, !.revoked = TRUE]
               /\ x8' = x8 \cup {[key |-> x2.key, from |-> x5["revoker"].from]}
      <4>1. Origin[x2.key] = x5["revoker"].from
        BY <1>a, <2>5, <3>2 DEF Tailnet!KeysKeepTheirOrigin
      <4>2. x2'.key = NoKey
        BY <1>d, <3>2
      <4> QED
        BY <1>a, <3>2, <4>1, <4>2 DEF Tailnet!KeysKeepTheirOrigin
    <3> QED
      BY <2>1, <3>1, <3>2
  <2> QED
    BY <1>e, <2>1, <2>2, <2>4, <2>6, KeyCallStep
<1>9. ASSUME NEW c \in {"user", "retry"}, Tailnet!Import(c) PROVE Tailnet!TailnetInv'
  <2>1. x5[c].pc = "lock" /\ (x6 = "nobody" \/ x6 = c) /\ UNCHANGED <<x2, x3, x8, x9>> /\ x6' = c
        /\ Tailnet!Go(c, "up") /\ c \in Tailnet!Asker
    BY <1>9, <1>e DEF Tailnet!Import, Tailnet!MayHold
  <2>2. x5' \in [Tailnet!Asker -> Tailnet!KeyCall] /\ x5'[c].pc = "up" /\ x5'[c].key = x5[c].key
        /\ x5'[c].from = x5[c].from /\ \A d \in Tailnet!Asker \ {c} : x5'[d] = x5[d]
    BY <1>a, <1>e, <2>1, KeyCallGoes
  <2>3. Tailnet!TailnetTypes' /\ Tailnet!CarriesKey(c)'
    BY <1>a, <1>d, <2>1, <2>2 DEF Tailnet!TailnetTypes, Tailnet!CarriesKey
  <2> QED
    BY <2>1, <2>2, <2>3, KeyCallStep
<1>10. ASSUME NEW c \in {"user", "retry"}, Tailnet!Up(c) \/ Tailnet!KeepKey(c) PROVE Tailnet!TailnetInv'
  <2>1. PICK p \in {"expiry", "save"} : x5[c].pc \in {"up", "expiry"} /\ UNCHANGED <<x2, x3, x6, x8, x9>>
        /\ Tailnet!Go(c, p) /\ c \in Tailnet!Asker
    BY <1>10, <1>e DEF Tailnet!Up, Tailnet!KeepKey
  <2>2. x5' \in [Tailnet!Asker -> Tailnet!KeyCall] /\ x5'[c].pc = p /\ x5'[c].key = x5[c].key
        /\ x5'[c].from = x5[c].from /\ \A d \in Tailnet!Asker \ {c} : x5'[d] = x5[d]
    BY <1>a, <1>e, <2>1, KeyCallGoes
  <2>3. Tailnet!TailnetTypes' /\ Tailnet!CarriesKey(c)'
    BY <1>a, <1>d, <2>1, <2>2 DEF Tailnet!TailnetTypes, Tailnet!CarriesKey
  <2> QED
    BY <2>1, <2>2, <2>3, KeyCallStep
<1>11. ASSUME NEW c \in {"user", "retry"}, Tailnet!UpFails(c) PROVE Tailnet!TailnetInv'
  <2>1. x5[c].pc = "up" /\ UNCHANGED <<x2, x3, x8>> /\ x6' = (IF x6 = c THEN "nobody" ELSE x6) /\ c \in Tailnet!Asker
        /\ (Tailnet!Done(c) \/ x5' = [x5 EXCEPT ![c] = [Tailnet!NoCall EXCEPT !.pc = "peers", !.todo = x5[c].todo]])
        /\ x9' \in [Tailnet!TailnetCount -> Nat] /\ x9'["late"] = 0
    BY <1>11, <1>e, <1>h DEF Tailnet!UpFails, Tailnet!Release
  <2>2. x5' \in [Tailnet!Asker -> Tailnet!KeyCall] /\ x5'[c].pc \in {"idle", "peers"} /\ x5'[c].from = Here
        /\ \A d \in Tailnet!Asker \ {c} : x5'[d] = x5[d]
    <3>1. CASE Tailnet!Done(c)
      BY <1>a, <2>1, <3>1, KeyCallEnds
    <3>2. CASE x5' = [x5 EXCEPT ![c] = [Tailnet!NoCall EXCEPT !.pc = "peers", !.todo = x5[c].todo]]
      <4>1. x5[c].todo \in SUBSET KeyPeer
        BY <1>d, <2>1 DEF Tailnet!KeyCall
      <4>2. Tailnet!NoCall \in Tailnet!KeyCall /\ Tailnet!NoCall.from = Here
        BY DEF Tailnet!NoCall, Tailnet!KeyCall, Tailnet!KeyStep
      <4> HIDE DEF Tailnet!NoCall
      <4> QED
        BY <1>d, <1>e, <2>1, <3>2, <4>1, <4>2 DEF Tailnet!KeyCall
    <3> QED
      BY <2>1, <3>1, <3>2
  <2>3. Tailnet!TailnetTypes' /\ Tailnet!CarriesKey(c)'
    BY <1>a, <1>d, <2>1, <2>2 DEF Tailnet!TailnetTypes, Tailnet!CarriesKey
  <2> QED
    BY <2>1, <2>2, <2>3, KeyCallStep
<1>12. ASSUME NEW c \in {"user", "retry"}, Tailnet!SaveOwn(c) PROVE Tailnet!TailnetInv'
  <2>1. x5[c].pc = "save" /\ (x6 = "nobody" \/ x6 = c) /\ UNCHANGED <<x3, x6, x8, x9>> /\ c \in Tailnet!Asker
        /\ x2' = [key |-> x5[c].key, source |-> Here, revoked |-> FALSE]
        /\ IF x5[c].from # Here THEN Tailnet!Go(c, "source") ELSE Tailnet!Done(c)
    BY <1>12, <1>e DEF Tailnet!SaveOwn, Tailnet!MayHold, Tailnet!Importing
  <2>2. x5[c].key \in AuthKey /\ Origin[x5[c].key] = x5[c].from /\ (x5[c].from = Here \/ x6 = c)
    BY <1>a, <2>1 DEF Tailnet!CarriesKey
  <2>3. x2' \in [key : AuthKey \cup {NoKey}, source : KeyPeer \cup {Here}, revoked : BOOLEAN]
    BY <2>1, <2>2
  <2>4. CASE x5[c].from # Here
    <3>1. x5' \in [Tailnet!Asker -> Tailnet!KeyCall] /\ x5'[c].pc = "source" /\ x5'[c].key = x5[c].key
          /\ x5'[c].from = x5[c].from /\ \A d \in Tailnet!Asker \ {c} : x5'[d] = x5[d]
      BY <1>a, <1>e, <2>1, <2>4, KeyCallGoes
    <3>2. Tailnet!TailnetTypes' /\ Tailnet!CarriesKey(c)'
      BY <1>d, <2>1, <2>2, <2>3, <2>4, <3>1 DEF Tailnet!TailnetTypes, Tailnet!CarriesKey
    <3>3. Tailnet!KeysKeepTheirOrigin'
      BY <1>a, <2>1, <3>1 DEF Tailnet!KeysKeepTheirOrigin, Tailnet!BetweenSaves
    <3> QED
      BY <2>1, <3>1, <3>2, <3>3, KeyCallStep
  <2>5. CASE x5[c].from = Here
    <3>1. x5' \in [Tailnet!Asker -> Tailnet!KeyCall] /\ x5'[c].pc = "idle" /\ x5'[c].from = Here
          /\ \A d \in Tailnet!Asker \ {c} : x5'[d] = x5[d]
      BY <1>a, <2>1, <2>5, KeyCallEnds
    <3>2. Tailnet!TailnetTypes' /\ Tailnet!CarriesKey(c)'
      BY <1>d, <2>1, <2>3, <3>1 DEF Tailnet!TailnetTypes, Tailnet!CarriesKey
    <3>3. Tailnet!KeysKeepTheirOrigin'
      BY <1>a, <2>1, <2>2, <2>5 DEF Tailnet!KeysKeepTheirOrigin
    <3> QED
      BY <2>1, <3>1, <3>2, <3>3, KeyCallStep
  <2> QED
    BY <2>4, <2>5
<1>13. ASSUME NEW c \in {"user", "retry"}, Tailnet!SaveSource(c) PROVE Tailnet!TailnetInv'
  <2>1. x5[c].pc = "source" /\ UNCHANGED <<x3, x8, x9>> /\ x6' = (IF x6 = c THEN "nobody" ELSE x6) /\ c \in Tailnet!Asker
        /\ x2' = [x2 EXCEPT !.source = x5[c].from] /\ Tailnet!Done(c)
    BY <1>13, <1>e DEF Tailnet!SaveSource, Tailnet!Release
  <2>2. x6 = c /\ x2.key = x5[c].key /\ Origin[x2.key] = x5[c].from
    BY <1>a, <2>1 DEF Tailnet!CarriesKey
  <2>3. x5[c].from \in KeyPeer \cup {Here}
    BY <1>d, <2>1 DEF Tailnet!KeyCall
  <2>4. x2' \in [key : AuthKey \cup {NoKey}, source : KeyPeer \cup {Here}, revoked : BOOLEAN]
        /\ x2'.key = x2.key /\ x2'.source = x5[c].from
    BY <1>d, <2>1, <2>3
  <2>5. x5' \in [Tailnet!Asker -> Tailnet!KeyCall] /\ x5'[c].pc = "idle" /\ x5'[c].from = Here
        /\ \A d \in Tailnet!Asker \ {c} : x5'[d] = x5[d]
    BY <1>a, <2>1, KeyCallEnds
  <2>6. Tailnet!TailnetTypes' /\ Tailnet!CarriesKey(c)'
    BY <1>d, <2>1, <2>4, <2>5 DEF Tailnet!TailnetTypes, Tailnet!CarriesKey
  <2>7. Tailnet!KeysKeepTheirOrigin'
    BY <1>a, <2>1, <2>2, <2>4 DEF Tailnet!KeysKeepTheirOrigin
  <2> QED
    BY <2>1, <2>2, <2>5, <2>6, <2>7, KeyCallStep
<1>14. ASSUME NEW b \in BOOLEAN, Tailnet!SetOauth(b) \/ Tailnet!Networking(b) \/ Tailnet!RepairPath(b)
       PROVE  Tailnet!TailnetInv'
  <2>1. UNCHANGED <<x2, x3, x5, x6, x8>> /\ x9' \in [Tailnet!TailnetCount -> Nat] /\ x9'["late"] = 0
    BY <1>14, <1>d, <1>h DEF Tailnet!SetOauth, Tailnet!Networking, Tailnet!RepairPath
  <2> QED
    BY <1>s, <2>1
<1>15. CASE Tailnet!CoolDown \/ Tailnet!NodeFails \/ UNCHANGED Tailnet!tailnetVars
  <2>1. UNCHANGED <<x2, x3, x5, x6, x8>> /\ x9' \in [Tailnet!TailnetCount -> Nat] /\ x9'["late"] = 0
    BY <1>15, <1>d, <1>h DEF Tailnet!CoolDown, Tailnet!NodeFails, Tailnet!tailnetVars
  <2> QED
    BY <1>s, <2>1
<1>16. CASE Tailnet!RestartProcess
  <2>1. UNCHANGED <<x2, x3, x8>> /\ x5' = [c \in Tailnet!Asker |-> Tailnet!NoCall] /\ x9.crashes > 0
        /\ (Tailnet!BetweenSaves => x9.late > 0)
        /\ x9' = [x9 EXCEPT !.crashes = @ - 1, !.late = @ - IF Tailnet!BetweenSaves THEN 1 ELSE 0]
    BY <1>16 DEF Tailnet!RestartProcess
  <2>2. ~Tailnet!BetweenSaves
    BY <1>d, <2>1
  <2>a. PICK n : n = (IF Tailnet!BetweenSaves THEN 1 ELSE 0) /\ x9' = [x9 EXCEPT !.crashes = @ - 1, !.late = @ - n]
    BY <2>1
  <2>b. n = 0
    BY <2>2, <2>a
  <2>3. x9' \in [Tailnet!TailnetCount -> Nat] /\ x9'["late"] = 0
    <3>1. x9["crashes"] \in Nat /\ x9["crashes"] > 0 /\ x9["late"] - 0 = 0
      BY <1>d, <2>1 DEF Tailnet!TailnetCount
    <3>2. x9' = [x9 EXCEPT !["crashes"] = x9["crashes"] - 1, !["late"] = x9["late"] - n]
      BY <2>a
    <3> QED
      BY <1>d, <2>b, <3>1, <3>2 DEF Tailnet!TailnetCount
  <2>4. x5' \in [Tailnet!Asker -> Tailnet!KeyCall] /\ \A c \in Tailnet!Asker : x5'[c].pc = "idle" /\ x5'[c].from = Here
    BY <2>1 DEF Tailnet!NoCall, Tailnet!KeyCall, Tailnet!KeyStep
  <2>5. \A c \in Tailnet!Asker : Tailnet!CarriesKey(c)'
    BY <2>4 DEF Tailnet!CarriesKey
  <2>6. Tailnet!KeysKeepTheirOrigin'
    BY <1>a, <2>1, <2>2 DEF Tailnet!KeysKeepTheirOrigin
  <2> QED
    BY <1>a, <1>d, <2>1, <2>3, <2>4, <2>5, <2>6 DEF Tailnet!TailnetInv, Tailnet!TailnetTypes
<1> QED
  BY <1>1, <1>2, <1>3, <1>4, <1>5, <1>6, <1>7, <1>8, <1>9, <1>10, <1>11, <1>12, <1>13, <1>14, <1>15, <1>16
  DEF Tailnet!TailnetNext

\* A key is on file as that of the Drone it was pasted on, whatever imports,
\* enrollments and revocations meet, when no process ends between two saves.
THEOREM KeysStay ==
  ASSUME \A b \in TailnetBounds : b.late = 0
  PROVE  Spec => []KeysKeepTheirOrigin
<1> DEFINE Inv == focus = "tailnet" => Tailnet!TailnetInv
<1>1. Init => Inv
  BY TailnetStarts, TailnetBegins
<1>2. Inv /\ [Next]_vars => Inv'
  BY FocusStays, TailnetSteps, TailnetStep
<1>3. Inv => KeysKeepTheirOrigin
  BY DEF KeysKeepTheirOrigin, Tailnet!TailnetInv
<1> QED
  BY <1>1, <1>2, <1>3, PTL DEF Spec

-----------------------------------------------------------------------------
(* The idle machine.                                                       *)

LEMMA IdleSteps == [Next]_vars /\ focus = "idle" => [Idle!IdleNext]_Idle!idleVars
  BY DEF Next, vars, Idle!idleVars

LEMMA IdleStarts == Init /\ focus = "idle" => Idle!IdleInit
  BY DEF Init

LEMMA IdleBegins == Idle!IdleInit => Idle!IdleInv
  BY DEF Idle!IdleInit, Idle!IdleInv, Idle!IdleTypes, Idle!VolumeOnce, Idle!ExitTwice, Idle!Idles, Idle!Polls,
         Idle!SettingEdits, Idle!NoEdit, Idle!MaxTries, Idle!Section

\* A step that begins the period anew, and leaves the poller where it is.
LEMMA AnewStep ==
  ASSUME Idle!IdleInv, Idle!IdleTypes', x10' = [volume |-> 0, exit |-> 0], x5' = x5,
         x6'.exit = x6.exit \/ (x6'.exit = 0 /\ x7' = 0), x7' = x7 \/ x7' = 0
  PROVE  Idle!IdleInv'
  BY DEF Idle!IdleInv, Idle!IdleTypes, Idle!VolumeOnce, Idle!ExitTwice, Idle!MaxTries

LEMMA IdleStep ==
  ASSUME Idle!IdleInv, [Idle!IdleNext]_Idle!idleVars
  PROVE  Idle!IdleInv'
<1> USE DEF Idle!At, Idle!Then, Idle!Anew, Idle!Running, Idle!pollerState, Idle!machine
<1>a. /\ x2 \in Idle!Idles /\ x3 \in [Idle!Section -> BOOLEAN] /\ x4 \in [Idle!Handler -> Idle!SettingEdits]
      /\ x5 \in Idle!Polls /\ (x5.pc \in {"apply", "kill"} => x5.seen # 0)
      /\ x6 \in [volume : Nat, exit : Nat] /\ x7 \in Nat /\ x10 \in [volume : Nat, exit : Nat]
  BY DEF Idle!IdleInv, Idle!IdleTypes
<1>v. /\ x10.volume <= 1 /\ (x5.pc = "apply" => x10.volume = 0)
      /\ x10.volume = 0 \/ x6.volume = x2.stamp \/ ~x3["volume"] \/ x1.run # 0
  BY DEF Idle!IdleInv, Idle!VolumeOnce
<1>x. /\ x10.exit <= 2 /\ x7 <= 2 /\ (x7 = 2 => x6.exit # 0)
      /\ x5.pc = "kill" => x6.exit = 0 /\ x10.exit <= x7 /\ (x5.seen = x2.stamp \/ x10.exit = 0)
      /\ x3["exit"] /\ x1.run # 0 =>
           /\ x6.exit = 0 => x10.exit <= x7
           /\ x6.exit # 0 /\ x6.exit # x2.stamp => x10.exit = 0
  BY DEF Idle!IdleInv, Idle!ExitTwice, Idle!MaxTries
<1>s. x2.stamp \in Nat /\ x2.stamp # 0 /\ x6.exit \in Nat /\ x6.volume \in Nat /\ x10.exit \in Nat /\ x10.volume \in Nat
      /\ x5.seen \in Nat
  BY <1>a DEF Idle!Idles, Idle!Polls
<1>1. CASE Idle!Touch
  <2>1. x2' = [stamp |-> x2.stamp + 1, idle |-> FALSE] /\ x10' = [volume |-> 0, exit |-> 0]
        /\ UNCHANGED <<x1, x3, x4, x5, x6, x7>>
    BY <1>1 DEF Idle!Touch
  <2>2. Idle!IdleTypes'
    BY <1>a, <2>1 DEF Idle!IdleTypes, Idle!Idles
  <2> QED
    BY <2>1, <2>2, AnewStep
<1>2. CASE Idle!IdleMinutesPass
  <2>1. x2' = [x2 EXCEPT !.idle = TRUE] /\ UNCHANGED <<x1, x3, x4, x5, x6, x7, x10>>
    BY <1>2 DEF Idle!IdleMinutesPass
  <2>2. x2' \in Idle!Idles /\ x2'.stamp = x2.stamp
    BY <1>a, <2>1 DEF Idle!Idles
  <2> QED
    BY <1>a, <1>v, <1>x, <2>1, <2>2 DEF Idle!IdleInv, Idle!IdleTypes, Idle!VolumeOnce, Idle!ExitTwice, Idle!MaxTries
<1>3. CASE Idle!StartGame \/ Idle!EndGame
  <2>1. x10' = [volume |-> 0, exit |-> 0] /\ UNCHANGED <<x2, x3, x4, x5, x6, x7>>
    BY <1>3 DEF Idle!StartGame, Idle!EndGame
  <2>2. Idle!IdleTypes'
    BY <1>a, <2>1 DEF Idle!IdleTypes
  <2> QED
    BY <2>1, <2>2, AnewStep
<1>4. CASE Idle!TurnVolume \/ Idle!LoseRoute \/ UNCHANGED Idle!idleVars
  <2>1. UNCHANGED <<x1, x2, x3, x4, x5, x6, x7, x10>>
    BY <1>4 DEF Idle!TurnVolume, Idle!LoseRoute, Idle!idleVars
  <2> QED
    BY <2>1 DEF Idle!IdleInv, Idle!IdleTypes, Idle!VolumeOnce, Idle!ExitTwice
<1>5. ASSUME NEW h \in Idle!Handler, NEW s \in Idle!Section, NEW on \in BOOLEAN, Idle!AskToEdit(h, s, on)
      PROVE  Idle!IdleInv'
  <2>1. x4' = [x4 EXCEPT ![h] = [pc |-> "read", section |-> s, read |-> x3, to |-> on]]
        /\ UNCHANGED <<x1, x2, x3, x5, x6, x7, x10>>
    BY <1>5 DEF Idle!AskToEdit
  <2>2. x4' \in [Idle!Handler -> Idle!SettingEdits]
    BY <1>a, <2>1 DEF Idle!SettingEdits
  <2> QED
    BY <1>a, <1>v, <1>x, <2>1, <2>2 DEF Idle!IdleInv, Idle!IdleTypes, Idle!VolumeOnce, Idle!ExitTwice, Idle!MaxTries
<1>6. ASSUME NEW h \in Idle!Handler, Idle!SaveEdit(h) PROVE Idle!IdleInv'
  <2>1. x3' = [x4[h].read EXCEPT ![x4[h].section] = x4[h].to] /\ x4' = [x4 EXCEPT ![h].pc = "saved"]
        /\ x10' = [volume |-> 0, exit |-> 0] /\ UNCHANGED <<x1, x2, x5, x6, x7>>
    BY <1>6 DEF Idle!SaveEdit
  <2>2. x4' \in [Idle!Handler -> Idle!SettingEdits] /\ x3' \in [Idle!Section -> BOOLEAN]
    BY <1>a, <2>1 DEF Idle!SettingEdits
  <2>3. Idle!IdleTypes'
    BY <1>a, <2>1, <2>2 DEF Idle!IdleTypes
  <2> QED
    BY <2>1, <2>3, AnewStep
<1>7. ASSUME NEW h \in Idle!Handler, Idle!ResetArmed(h) PROVE Idle!IdleInv'
  <2>1. x4' = [x4 EXCEPT ![h] = Idle!NoEdit] /\ x10' = [volume |-> 0, exit |-> 0] /\ UNCHANGED <<x1, x2, x3, x5>>
        /\ x6' = (IF x4[h].section \in DOMAIN x6 THEN [x6 EXCEPT ![x4[h].section] = 0] ELSE x6)
        /\ x7' = IF x4[h].section = "exit" THEN 0 ELSE x7
    BY <1>7 DEF Idle!ResetArmed
  <2>2. x4' \in [Idle!Handler -> Idle!SettingEdits]
    BY <1>a, <2>1 DEF Idle!SettingEdits, Idle!NoEdit, Idle!Section
  <2>3. /\ x6' \in [volume : Nat, exit : Nat] /\ x7' \in Nat
        /\ x6'.exit = x6.exit \/ (x6'.exit = 0 /\ x7' = 0)
    <3>1. x4[h].section \in {"volume", "exit", "wifi"} /\ DOMAIN x6 = {"volume", "exit"}
      BY <1>a DEF Idle!SettingEdits, Idle!Section
    <3> QED
      BY <1>a, <2>1, <3>1
  <2>4. Idle!IdleTypes'
    BY <1>a, <2>1, <2>2, <2>3 DEF Idle!IdleTypes
  <2> QED
    BY <2>1, <2>3, <2>4, AnewStep
\* What was done in this period is not due, and the poller passes on.
<1>8. CASE Idle!LookAtVolume
  <2>1. x5.pc = "volume" /\ UNCHANGED <<x1, x2, x3, x4, x7, x10>>
    BY <1>8 DEF Idle!LookAtVolume
  <2>2. PICK v : /\ x6' = [x6 EXCEPT !.volume = v]
                 /\ \/ (~x3["volume"] \/ x1.run # 0) /\ v = 0 /\ x5' = [pc |-> "exit", seen |-> 0]
                    \/ /\ (x6.volume = 0 \/ x6.volume # x2.stamp) /\ x3["volume"] /\ x1.run = 0
                       /\ v = 0 /\ x5' = [pc |-> "apply", seen |-> x2.stamp]
                    \/ /\ v = x2.stamp \/ (v = 0 /\ x6.volume # x2.stamp) \/ v = x6.volume
                       /\ x5' = [pc |-> "exit", seen |-> 0]
    <3>1. CASE ~x3["volume"] \/ x1.run # 0
      BY <1>8, <3>1 DEF Idle!LookAtVolume
    <3>2. CASE x3["volume"] /\ x1.run = 0 /\ Idle!Due("volume") /\ ~x8
      BY <1>8, <3>2 DEF Idle!LookAtVolume, Idle!Due, Idle!Stale
    <3>3. CASE x3["volume"] /\ x1.run = 0 /\ ~(Idle!Due("volume") /\ ~x8)
      BY <1>8, <3>3 DEF Idle!LookAtVolume, Idle!Due, Idle!Stale
    <3> QED
      BY <3>1, <3>2, <3>3
  <2>3. v \in Nat /\ x6'.volume = v /\ x6'.exit = x6.exit /\ x6' \in [volume : Nat, exit : Nat]
    BY <1>a, <1>s, <2>2
  <2>4. x5' \in Idle!Polls /\ (x5'.pc = "apply" => x5'.seen = x2.stamp) /\ x5'.pc # "kill"
    BY <1>s, <2>2 DEF Idle!Polls
  <2>5. Idle!IdleTypes'
    BY <1>a, <1>s, <2>1, <2>3, <2>4 DEF Idle!IdleTypes
  <2>6. Idle!VolumeOnce'
    BY <1>v, <1>s, <2>1, <2>2, <2>3 DEF Idle!VolumeOnce
  <2>7. Idle!ExitTwice'
    BY <1>x, <2>1, <2>3, <2>4 DEF Idle!ExitTwice, Idle!MaxTries
  <2> QED
    BY <2>5, <2>6, <2>7 DEF Idle!IdleInv
<1>9. CASE Idle!ApplyVolume
  <2>1. x5.pc = "apply" /\ x5' = [pc |-> "exit", seen |-> 0] /\ UNCHANGED <<x1, x2, x3, x4, x7>>
        /\ \/ UNCHANGED <<x6, x10>>
           \/ /\ x6' = [x6 EXCEPT !.volume = x5.seen]
              /\ x10' = IF x5.seen = x2.stamp THEN [x10 EXCEPT !["volume"] = @ + 1] ELSE x10
    BY <1>9 DEF Idle!ApplyVolume, Idle!Tried
  <2>2. /\ x6' \in [volume : Nat, exit : Nat] /\ x6'.exit = x6.exit
        /\ x10' \in [volume : Nat, exit : Nat] /\ x10'.exit = x10.exit
        /\ x10'.volume = 0 \/ (x10'.volume = 1 /\ x6'.volume = x2.stamp)
    BY <1>a, <1>v, <1>s, <2>1
  <2>3. x5' \in Idle!Polls /\ x5'.pc = "exit"
    BY <2>1 DEF Idle!Polls
  <2>4. Idle!IdleTypes'
    BY <1>a, <2>1, <2>2, <2>3 DEF Idle!IdleTypes
  <2>5. Idle!VolumeOnce'
    BY <2>1, <2>2, <2>3 DEF Idle!VolumeOnce
  <2>6. Idle!ExitTwice'
    BY <1>x, <2>1, <2>2, <2>3 DEF Idle!ExitTwice, Idle!MaxTries
  <2> QED
    BY <2>4, <2>5, <2>6 DEF Idle!IdleInv
<1>10. CASE Idle!LookAtGame
  <2>1. x5.pc = "exit" /\ UNCHANGED <<x1, x2, x3, x4, x10>>
    BY <1>10 DEF Idle!LookAtGame
  <2>2. PICK a : /\ x6' = [x6 EXCEPT !.exit = a]
                 /\ \/ (~x3["exit"] \/ x1.run = 0) /\ a = 0 /\ x7' = 0 /\ x5' = [pc |-> "wifi", seen |-> 0]
                    \/ /\ x3["exit"] /\ x1.run # 0
                       /\ \/ x6.exit # 0 /\ x6.exit # x2.stamp /\ a = 0 /\ x7' = 0
                          \/ (x6.exit = 0 \/ x6.exit = x2.stamp) /\ a = x6.exit /\ x7' = x7
                       /\ \/ a = 0 /\ x5' = [pc |-> "kill", seen |-> x2.stamp]
                          \/ x5' = [pc |-> "wifi", seen |-> 0]
    <3>1. CASE ~x3["exit"] \/ x1.run = 0
      BY <1>10, <3>1 DEF Idle!LookAtGame
    <3>2. CASE x3["exit"] /\ x1.run # 0
      <4>1. x6' = [x6 EXCEPT !.exit = IF Idle!Stale("exit") THEN 0 ELSE x6.exit]
            /\ x7' = (IF Idle!Stale("exit") THEN 0 ELSE x7)
            /\ IF Idle!Due("exit") THEN x5' = [pc |-> "kill", seen |-> x2.stamp] ELSE x5' = [pc |-> "wifi", seen |-> 0]
        BY <1>10, <3>2 DEF Idle!LookAtGame
      <4>2. CASE Idle!Stale("exit")
        BY <3>2, <4>1, <4>2 DEF Idle!Stale, Idle!Due
      <4>3. CASE ~Idle!Stale("exit")
        BY <3>2, <4>1, <4>3 DEF Idle!Stale, Idle!Due
      <4> QED
        BY <4>2, <4>3
    <3> QED
      BY <3>1, <3>2
  <2>3. a \in Nat /\ x6'.exit = a /\ x6'.volume = x6.volume /\ x6' \in [volume : Nat, exit : Nat] /\ x7' \in Nat
    BY <1>a, <1>s, <2>2
  <2>4. x5' \in Idle!Polls /\ x5'.pc \in {"kill", "wifi"} /\ (x5'.pc = "kill" => x5'.seen = x2.stamp)
    BY <1>s, <2>2 DEF Idle!Polls
  <2>5. Idle!IdleTypes'
    BY <1>a, <1>s, <2>1, <2>3, <2>4 DEF Idle!IdleTypes
  <2>6. Idle!VolumeOnce'
    BY <1>v, <2>1, <2>3, <2>4 DEF Idle!VolumeOnce
  <2>7. Idle!ExitTwice'
    BY <1>x, <1>s, <1>a, <2>1, <2>2, <2>3, <2>4 DEF Idle!ExitTwice, Idle!MaxTries
  <2> QED
    BY <2>5, <2>6, <2>7 DEF Idle!IdleInv
<1>11. CASE Idle!GameExits
  <2>1. x5.pc = "kill" /\ x5' = [pc |-> "wifi", seen |-> 0] /\ x6' = [x6 EXCEPT !.exit = x5.seen] /\ x7' = 0
        /\ UNCHANGED <<x2, x3, x4>>
        /\ \/ x10' = [volume |-> 0, exit |-> 0]
           \/ x1' = x1 /\ x10' = IF x5.seen = x2.stamp THEN [x10 EXCEPT !["exit"] = @ + 1] ELSE x10
    BY <1>11 DEF Idle!GameExits, Idle!Tried
  <2>2. x6' \in [volume : Nat, exit : Nat] /\ x6'.exit = x5.seen /\ x6'.volume = x6.volume /\ x5.seen # 0
        /\ x10' \in [volume : Nat, exit : Nat]
    BY <1>a, <1>s, <2>1
  <2>3. x10'.exit <= 2 /\ (x10'.exit = 0 \/ x5.seen = x2.stamp)
    BY <1>a, <1>s, <1>x, <2>1
  <2>4. x10'.volume = 0 \/ (x1' = x1 /\ x10'.volume = x10.volume)
    BY <1>a, <2>1
  <2>5. x5' \in Idle!Polls /\ x5'.pc = "wifi"
    BY <2>1 DEF Idle!Polls
  <2>6. Idle!IdleTypes'
    BY <1>a, <2>1, <2>2, <2>5 DEF Idle!IdleTypes
  <2>7. Idle!VolumeOnce'
    BY <1>v, <2>1, <2>2, <2>4, <2>5 DEF Idle!VolumeOnce
  <2>8. Idle!ExitTwice'
    BY <2>1, <2>2, <2>3, <2>5 DEF Idle!ExitTwice, Idle!MaxTries
  <2> QED
    BY <2>6, <2>7, <2>8 DEF Idle!IdleInv
<1>12. CASE Idle!ExitFails
  <2>1. x5.pc = "kill" /\ x5' = [pc |-> "wifi", seen |-> 0] /\ x7' = x7 + 1 /\ UNCHANGED <<x1, x2, x3, x4>>
        /\ x6' = (IF x7 + 1 >= 2 THEN [x6 EXCEPT !.exit = x5.seen] ELSE x6)
        /\ x10' = IF x5.seen = x2.stamp THEN [x10 EXCEPT !["exit"] = @ + 1] ELSE x10
    BY <1>12 DEF Idle!ExitFails, Idle!Tried, Idle!GivesUp, Idle!MaxTries
  <2>2. /\ x6' \in [volume : Nat, exit : Nat] /\ x6'.volume = x6.volume /\ x5.seen # 0
        /\ x6'.exit = IF x7 + 1 >= 2 THEN x5.seen ELSE x6.exit
        /\ x10' \in [volume : Nat, exit : Nat] /\ x10'.volume = x10.volume
        /\ x10'.exit = IF x5.seen = x2.stamp THEN x10.exit + 1 ELSE x10.exit
    BY <1>a, <1>s, <2>1
  <2>3. x6.exit = 0 /\ x10.exit <= x7 /\ (x5.seen = x2.stamp \/ x10.exit = 0) /\ x7 <= 1
    BY <1>a, <1>x, <2>1
  <2>4. x5' \in Idle!Polls /\ x5'.pc = "wifi"
    BY <2>1 DEF Idle!Polls
  <2>5. Idle!IdleTypes'
    BY <1>a, <2>1, <2>2, <2>4 DEF Idle!IdleTypes
  <2>6. Idle!VolumeOnce'
    BY <1>v, <2>1, <2>2, <2>4 DEF Idle!VolumeOnce
  <2>7. Idle!ExitTwice'
    BY <1>a, <1>s, <2>1, <2>2, <2>3, <2>4 DEF Idle!ExitTwice, Idle!MaxTries
  <2> QED
    BY <2>5, <2>6, <2>7 DEF Idle!IdleInv
<1>13. CASE Idle!LookAtWifi \/ Idle!DisableWifi \/ Idle!EnableWifi
  <2>1. UNCHANGED <<x1, x2, x3, x4, x6, x7, x10>> /\ x5.pc \in {"wifi", "disable", "enable"}
        /\ \E p \in {"volume", "disable", "enable"} : x5' = [pc |-> p, seen |-> 0]
    BY <1>13 DEF Idle!LookAtWifi, Idle!DisableWifi, Idle!EnableWifi
  <2>2. x5' \in Idle!Polls /\ x5'.pc \in {"volume", "disable", "enable"}
    BY <2>1 DEF Idle!Polls
  <2> QED
    BY <1>a, <1>v, <1>x, <2>1, <2>2 DEF Idle!IdleInv, Idle!IdleTypes, Idle!VolumeOnce, Idle!ExitTwice, Idle!MaxTries
<1>14. CASE Idle!RestartPoller
  <2>1. x5' = [pc |-> "volume", seen |-> 0] /\ x6' = [volume |-> 0, exit |-> 0] /\ x7' = 0
        /\ x4' = [h \in Idle!Handler |-> Idle!NoEdit] /\ x10' = [volume |-> 0, exit |-> 0]
        /\ UNCHANGED <<x1, x2, x3>>
    BY <1>14 DEF Idle!RestartPoller
  <2>2. x5' \in Idle!Polls /\ x4' \in [Idle!Handler -> Idle!SettingEdits]
    BY <2>1 DEF Idle!Polls, Idle!SettingEdits, Idle!NoEdit, Idle!Section
  <2> QED
    BY <1>a, <2>1, <2>2 DEF Idle!IdleInv, Idle!IdleTypes, Idle!VolumeOnce, Idle!ExitTwice, Idle!MaxTries
<1> QED
  BY <1>1, <1>2, <1>3, <1>4, <1>5, <1>6, <1>7, <1>8, <1>9, <1>10, <1>11, <1>12, <1>13, <1>14
  DEF Idle!IdleNext

\* No game is to be exited more than twice, and no volume set more than once,
\* in an idle period, however the handlers and the poller meet.
THEOREM PeriodsAreDoneOnce == Spec => []EachPeriodOnce
<1> DEFINE Inv == focus = "idle" => Idle!IdleInv
<1>1. Init => Inv
  BY IdleStarts, IdleBegins
<1>2. Inv /\ [Next]_vars => Inv'
  BY FocusStays, IdleSteps, IdleStep
<1>3. Inv => EachPeriodOnce
  BY DEF EachPeriodOnce, Idle!EachPeriodOnce, Idle!IdleInv, Idle!VolumeOnce, Idle!ExitTwice
<1> QED
  BY <1>1, <1>2, <1>3, PTL DEF Spec

-----------------------------------------------------------------------------
(* The update of Drone.                                                    *)

LEMMA UpdateSteps == [Next]_vars /\ focus = "update" => [Update!UpdateNext]_Update!updateVars
  BY DEF Next, vars, Update!updateVars

LEMMA UpdateStarts == Init /\ focus = "update" => Update!UpdateInit
  BY DEF Init

LEMMA UpdateBegins == ASSUME Update!UpdateInit PROVE Update!UpdateInv
<1>1. Update!UpdateTypes
  BY DEF Update!UpdateInit, Update!UpdateTypes, Update!UpdateWorker, Update!NoUpdater, Update!Dev, Update!AllOf,
     Update!Tree
<1>2. Update!Installed <= x1 /\ Update!PortsNeverLag
  BY UpdateAssumption DEF Update!UpdateInit, Update!Installed, Update!PortsNeverLag, Update!AllOf, Update!Dev
<1> QED BY <1>1, <1>2 DEF Update!UpdateInit, Update!UpdateInv, Update!Between, Update!FirstPorts,
   Update!NoUpdater, Update!At, Update!Tree

\* Whatever ends or begins a worker.
LEMMA BetweenUpdates ==
  ASSUME Update!UpdateInv, x5' \in Update!UpdateWorker, x5'.at \in {"idle", "check"}, x5'.done = {},
         UNCHANGED <<x1, x3, x4>>
  PROVE  Update!UpdateInv'
<1>1. Update!UpdateTypes'
  BY DEF Update!UpdateInv, Update!UpdateTypes
<1> QED BY <1>1 DEF Update!UpdateInv, Update!Between, Update!FirstPorts, Update!PortsNeverLag, Update!Installed,
   Update!At

LEMMA UpdateEnds == ASSUME Update!UpdateInv, x5' = Update!NoUpdater, UNCHANGED <<x1, x3, x4>> PROVE Update!UpdateInv'
<1>1. x5' \in Update!UpdateWorker /\ x5'.at = "idle" /\ x5'.done = {}
  BY DEF Update!UpdateWorker, Update!NoUpdater, Update!Dev, Update!Tree
<1> QED BY <1>1, BetweenUpdates

LEMMA CheckKeepsIt == ASSUME Update!UpdateInv, Update!Check PROVE Update!UpdateInv'
<1>1. UNCHANGED <<x1, x3, x4>> /\ x1 \in Nat /\ Update!Installed \in Nat /\ x5 \in Update!UpdateWorker
  BY UpdateAssumption DEF Update!Check, Update!UpdateInv, Update!UpdateTypes, Update!Installed
<1>2. CASE Update!Disabled
  BY <1>1, <1>2, UpdateEnds DEF Update!Check, Update!Ends
<1>3. CASE ~Update!Disabled
  <2>1. x5' = [x5 EXCEPT !.at = "found", !.current = Update!Installed, !.target = x1] /\ x5.done = {}
    BY <1>3 DEF Update!Check, Update!UpdateInv, Update!FirstPorts, Update!At
  <2>2. x5' \in Update!UpdateWorker /\ x5'.at = "found" /\ x5'.target = x1 /\ x5'.done = {}
    BY <1>1, <2>1 DEF Update!UpdateWorker
  <2>3. Update!Installed' = Update!Installed /\ Update!PortsNeverLag'
    BY <1>1 DEF Update!UpdateInv, Update!Installed, Update!PortsNeverLag
  <2> QED BY <1>1, <2>2, <2>3 DEF Update!UpdateInv, Update!UpdateTypes, Update!Between, Update!FirstPorts, Update!At
<1> QED BY <1>2, <1>3

LEMMA FoundKeepsIt == ASSUME Update!UpdateInv, Update!Found PROVE Update!UpdateInv'
<1>1. UNCHANGED <<x1, x3, x4>> /\ x5 \in Update!UpdateWorker /\ Update!At("found") /\ x5.done = {}
  BY DEF Update!Found, Update!UpdateInv, Update!UpdateTypes, Update!FirstPorts, Update!At
<1>2. x5' = Update!NoUpdater \/ x5' = [x5 EXCEPT !.at = "stage"]
  BY DEF Update!Found, Update!Ends
<1>3. CASE x5' = [x5 EXCEPT !.at = "stage"]
  <2>1. x5' \in Update!UpdateWorker /\ x5'.at = "stage" /\ x5'.target = x5.target /\ x5'.done = {}
    BY <1>1, <1>3 DEF Update!UpdateWorker
  <2>2. Update!Installed' = Update!Installed /\ Update!PortsNeverLag'
    BY <1>1 DEF Update!UpdateInv, Update!Installed, Update!PortsNeverLag
  <2> QED BY <1>1, <2>1, <2>2 DEF Update!UpdateInv, Update!UpdateTypes, Update!Between, Update!FirstPorts, Update!At
<1> QED BY <1>1, <1>2, <1>3, UpdateEnds

LEMMA StageKeepsIt == ASSUME Update!UpdateInv, Update!Stage PROVE Update!UpdateInv'
<1>1. UNCHANGED <<x1, x3, x4>> /\ x5 \in Update!UpdateWorker /\ Update!At("stage")
  BY DEF Update!Stage, Update!UpdateInv, Update!UpdateTypes
<1> DEFINE n == Update!NextTree(x5.done)
<1>2. n \in Update!Tree /\ Update!FilesOf(n) \subseteq PortsFile \cup AppFile \cup ContentFile
  BY DEF Update!NextTree, Update!FilesOf, Update!Tree
<1>3. /\ n = "ports" => Update!FilesOf(n) = PortsFile
      /\ n \in {"app", "content"} => "ports" \in x5.done /\ Update!FilesOf(n) \subseteq AppFile \cup ContentFile
  BY DEF Update!NextTree, Update!FilesOf
<1>4. x5' = [x5 EXCEPT !.at = n, !.files = Update!FilesOf(n)]
  BY DEF Update!Stage
<1> HIDE DEF n
<1>5. /\ x5' \in Update!UpdateWorker /\ x5'.at = n /\ x5'.files = Update!FilesOf(n)
      /\ x5'.target = x5.target /\ x5'.done = x5.done
  BY <1>1, <1>2, <1>4 DEF Update!UpdateWorker
<1>6. Update!Installed' = Update!Installed /\ Update!PortsNeverLag'
  BY <1>1 DEF Update!UpdateInv, Update!Installed, Update!PortsNeverLag
<1>7. Update!FirstPorts'
  BY <1>1, <1>2, <1>3, <1>5 DEF Update!UpdateInv, Update!FirstPorts, Update!At, Update!Tree
<1> QED BY <1>1, <1>5, <1>6, <1>7 DEF Update!UpdateInv, Update!UpdateTypes, Update!Between, Update!At

LEMMA OverlayKeepsIt == ASSUME Update!UpdateInv, Update!Overlay PROVE Update!UpdateInv'
<1>1. x1' = x1 /\ x5 \in Update!UpdateWorker /\ x5.at \in Update!Tree /\ Update!UpdateTypes /\ Update!Between /\ Update!FirstPorts /\ Update!PortsNeverLag
  BY DEF Update!Overlay, Update!UpdateInv, Update!UpdateTypes
<1>2. Update!Installed \in Nat /\ Update!Installed <= x5.target /\ x5.target \in Nat /\ x5.target <= x1
  BY <1>1, UpdateAssumption DEF Update!Between, Update!Tree, Update!Installed, Update!UpdateTypes, Update!UpdateWorker
<1>3. CASE x5.files = {}
  <2>1. x5' = [x5 EXCEPT !.at = "stage", !.done = @ \cup {x5.at}] /\ UNCHANGED <<x3, x4>>
    BY <1>3 DEF Update!Overlay
  <2>2. x5' \in Update!UpdateWorker /\ x5'.at = "stage" /\ x5'.target = x5.target
        /\ x5'.done = x5.done \cup {x5.at}
    BY <1>1, <2>1 DEF Update!UpdateWorker
  <2>3. "ports" \in x5'.done => \A f \in PortsFile : x3[f] >= x5.target
    BY <1>1, <1>3, <2>2 DEF Update!FirstPorts, Update!At
  <2> QED BY <1>1, <1>2, <2>1, <2>2, <2>3 DEF Update!UpdateInv, Update!UpdateTypes, Update!Between,
     Update!FirstPorts, Update!PortsNeverLag, Update!Installed, Update!At
<1>4. ASSUME NEW f \in x5.files,
             x5' = [x5 EXCEPT !.files = @ \ {f}],
             IF Update!At("ports") THEN x3' = [x3 EXCEPT ![f] = x5.target] /\ UNCHANGED x4
             ELSE x4' = [x4 EXCEPT ![f] = x5.target] /\ UNCHANGED x3
      PROVE  Update!UpdateInv'
  <2>1. /\ x5' \in Update!UpdateWorker /\ x5'.at = x5.at /\ x5'.target = x5.target
        /\ x5'.done = x5.done /\ x5'.files = x5.files \ {f}
    BY <1>1, <1>4 DEF Update!UpdateWorker
  <2>2. CASE Update!At("ports")
    <3>1. f \in PortsFile /\ x3' \in [PortsFile -> Nat] /\ x4' = x4 /\ x3'[f] = x5.target
          /\ \A g \in PortsFile \ {f} : x3'[g] = x3[g]
      BY <1>1, <1>2, <1>4, <2>2 DEF Update!FirstPorts, Update!UpdateTypes
    <3>2. \A g \in PortsFile : x3[g] \in Nat /\ x3[g] >= Update!Installed
      BY <1>1 DEF Update!UpdateTypes, Update!PortsNeverLag
    <3>3. Update!PortsNeverLag' /\ Update!Installed' = Update!Installed
      BY <1>2, <3>1, <3>2 DEF Update!PortsNeverLag, Update!Installed
    <3>4. Update!FirstPorts'
      BY <1>1, <1>2, <2>1, <2>2, <3>1 DEF Update!FirstPorts, Update!At
    <3> QED BY <1>1, <1>2, <2>1, <3>1, <3>3, <3>4 DEF Update!UpdateInv, Update!UpdateTypes, Update!Between
  <2>3. CASE ~Update!At("ports")
    <3>1. /\ x5.at \in {"app", "content"} /\ f \in AppFile \cup ContentFile /\ x3' = x3
          /\ x4' \in [AppFile \cup ContentFile -> Nat] /\ Update!Installed' \in {Update!Installed, x5.target}
      BY <1>1, <1>2, <1>4, <2>3, UpdateAssumption DEF Update!FirstPorts, Update!UpdateTypes, Update!Tree,
         Update!At, Update!Installed
    <3>2. \A g \in PortsFile : x3[g] >= x5.target
      BY <1>1, <3>1 DEF Update!FirstPorts
    <3>3. Update!PortsNeverLag' /\ Update!Installed' <= x5.target
      BY <1>1, <1>2, <3>1, <3>2 DEF Update!PortsNeverLag
    <3>4. Update!FirstPorts'
      BY <1>1, <2>1, <2>3, <3>1 DEF Update!FirstPorts, Update!At
    <3>5. Update!Installed' <= x1
      BY <1>1, <1>2, <3>1 DEF Update!UpdateInv
    <3> QED BY <1>1, <1>2, <2>1, <3>1, <3>3, <3>4, <3>5 DEF Update!UpdateInv, Update!UpdateTypes, Update!Between
  <2> QED BY <2>2, <2>3
<1> QED BY <1>3, <1>4 DEF Update!Overlay

LEMMA ReleaseKeepsIt == ASSUME Update!UpdateInv, Update!Release PROVE Update!UpdateInv'
<1>1. x1 \in Nat /\ x1' = x1 + 1 /\ UNCHANGED <<x3, x4, x5>> /\ Update!Installed \in Nat /\ x5.target \in Nat
  BY UpdateAssumption DEF Update!Release, Update!UpdateInv, Update!UpdateTypes, Update!Installed, Update!UpdateWorker
<1> QED BY <1>1 DEF Update!UpdateInv, Update!UpdateTypes, Update!Between, Update!FirstPorts,
   Update!PortsNeverLag, Update!Installed, Update!At

LEMMA UpdateStep == ASSUME Update!UpdateInv, [Update!UpdateNext]_Update!updateVars PROVE Update!UpdateInv'
<1>1. ASSUME NEW automatic \in BOOLEAN, Update!RequestCheck(automatic) PROVE Update!UpdateInv'
  <2>1. x5' \in Update!UpdateWorker /\ x5'.at = "check" /\ x5'.done = {}
    BY <1>1 DEF Update!RequestCheck, Update!UpdateWorker, Update!NoUpdater, Update!Dev, Update!Tree
  <2> QED BY <1>1, <2>1, BetweenUpdates DEF Update!RequestCheck
<1>2. CASE Update!Installs \/ Update!Fails \/ Update!RestartDrone
  BY <1>2, UpdateEnds DEF Update!Installs, Update!Fails, Update!RestartDrone, Update!Ends
<1>3. CASE Update!Toggle \/ UNCHANGED Update!updateVars
  BY <1>3 DEF Update!Toggle, Update!updateVars, Update!UpdateInv, Update!UpdateTypes, Update!Between,
     Update!FirstPorts, Update!PortsNeverLag, Update!Installed, Update!At
<1> QED BY <1>1, <1>2, <1>3, CheckKeepsIt, FoundKeepsIt, StageKeepsIt, OverlayKeepsIt, ReleaseKeepsIt DEF Update!UpdateNext

-----------------------------------------------------------------------------
(* Sunshine, whose lemmas are in its module.                               *)

LEMMA SunshineSteps == [Next]_vars /\ focus = "sunshine" => [Sunshine!SunNext]_Sunshine!sunVars
  BY DEF Next, vars, Sunshine!sunVars

LEMMA SunshineStarts ==
  ASSUME \A b \in SunBounds : ~b.late /\ ~b.torn
  PROVE  Init /\ focus = "sunshine" => Sunshine!SunInv
<1>1. \A b \in SunBounds : {"late", "torn"} \subseteq DOMAIN b /\ ~b.late /\ ~b.torn
  BY SunAssumption
<1>2. Init /\ focus = "sunshine" => Sunshine!SunInit
  BY DEF Init
<1> QED BY <1>1, <1>2, Sunshine!SunBegins

\* Whatever ends an update, no file of the Ports client is older than VERSION
\* says; and whatever requests, faults and administrators do, what Drone runs or
\* removes in Sunshine's place is its own, and it knows its own script again, as
\* long as no request to start overlaps another (_service_start_block reads the
\* evidence outside any lock) and no crash falls between script and receipt.
THEOREM InstallsStayContained ==
  ASSUME \A b \in SunBounds : ~b.late /\ ~b.torn
  PROVE  Spec => []InstallsAreContained
<1> DEFINE Inv == /\ focus = "update" => Update!UpdateInv
                  /\ focus = "sunshine" => Sunshine!SunInv
<1>1. Init => Inv
  BY UpdateStarts, UpdateBegins, SunshineStarts
<1>2. Inv /\ [Next]_vars => Inv'
  <2>1. Sunshine!JobApart
    BY SunAssumption DEF Sunshine!JobApart
  <2> QED BY <2>1, FocusStays, UpdateSteps, UpdateStep, SunshineSteps, Sunshine!SunStep
<1>3. Inv => InstallsAreContained
  BY Sunshine!SunHolds DEF InstallsAreContained, Update!UpdateInv
<1> QED
  BY <1>1, <1>2, <1>3, PTL DEF Spec

-----------------------------------------------------------------------------
(* The tunnel, its revocation, and RGS on its address.                      *)

LEMMA VpnSteps == [Next]_vars /\ focus = "vpn" => [Vpn!VpnNext]_Vpn!vpnVars
  BY DEF Next, vars, Vpn!vpnVars

LEMMA VpnStarts == Init /\ focus = "vpn" => Vpn!VpnInit
  BY DEF Init

\* Steps that change nothing of what the invariant is about.
LEMMA TunnelStays ==
  ASSUME Vpn!VpnInv, UNCHANGED <<x1, x2, x4, x7, x8, x9, x11>>
  PROVE  Vpn!VpnInv'
<1>1. Vpn!VpnShapes' /\ Vpn!VpnTypes'
  BY DEF Vpn!VpnInv, Vpn!VpnShapes, Vpn!VpnTypes, Vpn!Retries, Vpn!Addresses
<1>2. Vpn!TunnelKnows' /\ Vpn!NewerIsSpared'
  BY DEF Vpn!VpnInv, Vpn!TunnelKnows, Vpn!NewerIsSpared
<1>3. Vpn!ReviserKnows'
  BY DEF Vpn!VpnInv, Vpn!ReviserKnows, Vpn!RetryKnows, Vpn!NotOurs, Vpn!Replaced, Vpn!NewSince
<1>4. ~SameAddress => Vpn!RgsKnows'
  BY DEF Vpn!VpnInv, Vpn!RgsKnows, Vpn!TunnelAddress
<1> QED
  BY <1>1, <1>2, <1>3, <1>4 DEF Vpn!VpnInv

\* The tunnel and the clock stay, RGS too.
LEMMA RgsStays ==
  ASSUME Vpn!VpnInv, UNCHANGED <<x2, x7, x9, x11>>
  PROVE  ~SameAddress => Vpn!RgsKnows'
  BY DEF Vpn!VpnInv, Vpn!RgsKnows, Vpn!TunnelAddress

\* With the tunnel goes all that is known of it.
LEMMA RgsAlone ==
  ASSUME Vpn!VpnInv, UNCHANGED <<x7, x9, x11>>, x2' = Vpn!NoTunnel
  PROVE  ~SameAddress => Vpn!RgsKnows'
  BY DEF Vpn!VpnInv, Vpn!RgsKnows, Vpn!TunnelAddress

LEMMA NewCredentials ==
  ASSUME Vpn!VpnInv, Vpn!SaveOwn \/ Vpn!UploadConfig \/ Vpn!Import
  PROVE  Vpn!VpnInv'
<1>0. Vpn!VpnShapes /\ Vpn!VpnTypes /\ Vpn!TunnelKnows /\ Vpn!ReviserKnows /\ Vpn!NewerIsSpared
  BY DEF Vpn!VpnInv
<1>1. UNCHANGED <<x2, x4, x7, x8, x9, x11>>
  BY DEF Vpn!SaveOwn, Vpn!UploadConfig, Vpn!Import, Vpn!watched
<1>2. /\ Vpn!VpnShapes' /\ x1'.revoked = x1.revoked /\ x1'.retry = x1.retry
      /\ (x1'.gen = x1.gen /\ x1'.file = x1.file) \/ (x1'.gen = x1.gen + 1 /\ x1'.file = x1.gen + 1)
  <2>1. CASE Vpn!SaveOwn
    BY <1>0, <1>1, <2>1 DEF Vpn!VpnShapes, Vpn!SaveOwn
  <2>2. CASE Vpn!UploadConfig
    BY <1>0, <1>1, <2>2 DEF Vpn!VpnShapes, Vpn!UploadConfig
  <2>3. CASE Vpn!Import
    BY <1>0, <1>1, <2>3 DEF Vpn!VpnShapes, Vpn!Import
  <2> QED
    BY <2>1, <2>2, <2>3
<1>3. x4.pc # "wipe"
  BY DEF Vpn!SaveOwn, Vpn!UploadConfig, Vpn!Import, Vpn!CredentialsLocked
<1>4. Vpn!VpnTypes'
  BY <1>0, <1>1, <1>2 DEF Vpn!VpnTypes
<1>5. Vpn!TunnelKnows' /\ Vpn!NewerIsSpared'
  BY <1>0, <1>1, <1>2 DEF Vpn!VpnTypes, Vpn!TunnelKnows, Vpn!NewerIsSpared
<1>6. Vpn!ReviserKnows'
  BY <1>0, <1>1, <1>2, <1>3 DEF Vpn!ReviserKnows, Vpn!RetryKnows, Vpn!NotOurs, Vpn!Replaced, Vpn!NewSince
<1>7. ~SameAddress => Vpn!RgsKnows'
  BY <1>1, RgsStays
<1> QED
  BY <1>2, <1>4, <1>5, <1>6, <1>7 DEF Vpn!VpnInv

\* A tunnel that ends leaves nothing to be spared or noted.
LEMMA VpnEnds ==
  ASSUME Vpn!VpnInv, UNCHANGED <<x1, x4, x7, x8, x9, x11>>, x2' = Vpn!NoTunnel
  PROVE  Vpn!VpnInv'
<1>0. Vpn!VpnShapes /\ Vpn!VpnTypes /\ Vpn!TunnelKnows /\ Vpn!ReviserKnows /\ Vpn!NewerIsSpared
  BY DEF Vpn!VpnInv
<1>1. Vpn!VpnShapes' /\ Vpn!VpnTypes'
  BY <1>0 DEF Vpn!VpnShapes, Vpn!VpnTypes, Vpn!Retries, Vpn!Addresses, Vpn!NoTunnel, Vpn!NoPid
<1>2. Vpn!TunnelKnows' /\ Vpn!NewerIsSpared'
  BY <1>0 DEF Vpn!VpnShapes, Vpn!VpnTypes, Vpn!Retries, Vpn!Addresses, Vpn!TunnelKnows, Vpn!NewerIsSpared, Vpn!NoTunnel
<1>3. Vpn!ReviserKnows'
  BY <1>0 DEF Vpn!VpnShapes, Vpn!VpnTypes, Vpn!Retries, Vpn!Addresses, Vpn!ReviserKnows, Vpn!RetryKnows, Vpn!NoTunnel
<1>4. ~SameAddress => Vpn!RgsKnows'
  BY RgsAlone
<1> QED
  BY <1>1, <1>2, <1>3, <1>4 DEF Vpn!VpnInv

\* A new tunnel has a number that nobody noted.
LEMMA VpnConnects ==
  ASSUME Vpn!VpnInv, NEW c \in Caller, Vpn!Connect(c)
  PROVE  Vpn!VpnInv'
<1>0. Vpn!VpnShapes /\ Vpn!VpnTypes /\ Vpn!TunnelKnows /\ Vpn!ReviserKnows /\ Vpn!NewerIsSpared
  BY DEF Vpn!VpnInv
<1>a. UNCHANGED <<x1, x4, x8, x11>>
  BY DEF Vpn!Connect
<1>1. CASE Vpn!Launch /\ x1.file # 0
  <2> USE DEF Vpn!Launch
  <2>1. Vpn!VpnShapes' /\ Vpn!VpnTypes'
    BY <1>0, <1>a, <1>1 DEF Vpn!VpnShapes, Vpn!VpnTypes, Vpn!Retries, Vpn!Addresses
  <2>2. Vpn!TunnelKnows' /\ Vpn!NewerIsSpared'
    BY <1>0, <1>a, <1>1 DEF Vpn!VpnShapes, Vpn!VpnTypes, Vpn!Retries, Vpn!Addresses, Vpn!TunnelKnows, Vpn!NewerIsSpared
  <2>3. \A retry, upTo : retry \in Vpn!Retries /\ Vpn!RetryKnows(retry, upTo)
           /\ retry.boot = x7.boot /\ retry.pending => x7'.pid > retry.pid /\ x7'.boot = x7.boot /\ x7'.tick = x7.tick
              /\ x2' # Vpn!NoTunnel /\ (retry.pid # 0 => x2'.pid # retry.pid) /\ x2'.since >= retry.since
    BY <1>0, <1>a, <1>1 DEF Vpn!VpnShapes, Vpn!VpnTypes, Vpn!Retries, Vpn!Addresses, Vpn!RetryKnows, Vpn!NoTunnel, Vpn!NoPid
  <2>4. Vpn!ReviserKnows'
    BY <1>0, <1>a, <1>1, <2>3 DEF Vpn!VpnShapes, Vpn!VpnTypes, Vpn!Retries, Vpn!Addresses, Vpn!ReviserKnows, Vpn!RetryKnows, Vpn!NotOurs, Vpn!Replaced, Vpn!NewSince,
         Vpn!NoPid
  <2>5. ~SameAddress => Vpn!RgsKnows'
    BY <1>0, <1>a, <1>1 DEF Vpn!VpnInv, Vpn!VpnShapes, Vpn!VpnTypes, Vpn!Retries, Vpn!Addresses, Vpn!RgsKnows, Vpn!TunnelAddress
  <2> QED
    BY <2>1, <2>2, <2>4, <2>5 DEF Vpn!VpnInv
<1>2. CASE Vpn!Launch /\ x1.file = 0
  BY <1>a, <1>2, VpnEnds DEF Vpn!Launch
<1>3. CASE UNCHANGED <<x2, x7, x9>>
  BY <1>a, <1>3, TunnelStays
<1> QED
  BY <1>1, <1>2, <1>3 DEF Vpn!Connect

-----------------------------------------------------------------------------
(* check_sharing_revocation.                                                *)

\* Only the check moves, and what it knows of the tunnel is true.
LEMMA ReviserMoves ==
  ASSUME Vpn!VpnInv, UNCHANGED <<x1, x2, x7, x8, x9, x11>>, Vpn!VpnShapes',
         x4'.since \in Nat, x4'.retry \in Vpn!Retries, x4'.pc = "stop" => x4'.since <= x7.tick,
         x4'.pc \in {"asked", "stop"} => ~x4'.retry.pending, x4'.pc = "wipe" => Vpn!RetryKnows(x4'.retry, x1.gen),
         x4'.pc \in {"retry", "rewipe"} => Vpn!RetryKnows(x4'.retry, x1.revoked),
         x4'.pc = "retry" => x4'.retry.pending /\ x4'.retry.boot = x7.boot
  PROVE  Vpn!VpnInv'
<1>0. Vpn!VpnTypes /\ Vpn!TunnelKnows /\ Vpn!ReviserKnows /\ Vpn!NewerIsSpared
  BY DEF Vpn!VpnInv
<1>1. Vpn!VpnTypes'
  BY <1>0 DEF Vpn!VpnTypes
<1>2. Vpn!TunnelKnows' /\ Vpn!NewerIsSpared'
  BY <1>0 DEF Vpn!TunnelKnows, Vpn!NewerIsSpared
<1>3. Vpn!ReviserKnows'
  BY <1>0 DEF Vpn!ReviserKnows, Vpn!RetryKnows, Vpn!NotOurs, Vpn!Replaced, Vpn!NewSince
<1>4. ~SameAddress => Vpn!RgsKnows'
  BY RgsStays
<1> QED
  BY <1>1, <1>2, <1>3, <1>4 DEF Vpn!VpnInv

LEMMA VpnAsks ==
  ASSUME Vpn!VpnInv, Vpn!Ask \/ Vpn!Answer \/ Vpn!Transient
  PROVE  Vpn!VpnInv'
<1>0. Vpn!VpnShapes /\ Vpn!VpnTypes
  BY DEF Vpn!VpnInv
<1>1. UNCHANGED <<x1, x2, x7, x8, x9, x11>>
  BY DEF Vpn!Ask, Vpn!Answer, Vpn!Transient, Vpn!watched
<1>2. /\ x4' = [pc |-> x4'.pc, source |-> x4'.source, since |-> x4'.since, retry |-> x4'.retry]
      /\ x4'.pc \in {"idle", "asked", "stop"} /\ x4'.since \in {0, x4.since, x7.tick}
      /\ x4'.retry \in {Vpn!NoRetry, x4.retry} /\ (x4'.pc = "stop" => x4'.since = x7.tick)
      /\ (x4'.retry = Vpn!NoRetry \/ x4.pc = "asked")
  <2>1. CASE Vpn!Ask
    BY <2>1 DEF Vpn!Ask, Vpn!NoReviser
  <2>2. CASE Vpn!Answer
    BY <1>0, <2>2 DEF Vpn!Answer, Vpn!NoReviser, Vpn!VpnShapes
  <2>3. CASE Vpn!Transient
    BY <2>3 DEF Vpn!Transient, Vpn!NoReviser
  <2> QED
    BY <2>1, <2>2, <2>3
<1>3. Vpn!VpnShapes' /\ x4'.since \in Nat /\ x4'.retry \in Vpn!Retries /\ (x4'.pc = "stop" => x4'.since <= x7.tick)
  <2>1. Vpn!NoRetry \in Vpn!Retries
    BY DEF Vpn!NoRetry, Vpn!Retries, Vpn!NoPid
  <2>2. Vpn!VpnShapes'
    BY <1>0, <1>1, <1>2 DEF Vpn!VpnShapes
  <2> QED
    BY <1>0, <1>2, <2>1, <2>2 DEF Vpn!VpnTypes
<1>4. ~Vpn!NoRetry.pending /\ (x4.pc = "asked" => ~x4.retry.pending)
  BY DEF Vpn!NoRetry, Vpn!VpnInv, Vpn!ReviserKnows
<1>5. ~x4'.retry.pending
  BY <1>2, <1>4
<1> QED
  BY <1>1, <1>2, <1>3, <1>5, ReviserMoves

\* A stop that succeeds is of credentials up to those it is meant for.
LEMMA StopEnds ==
  ASSUME Vpn!VpnInv, UNCHANGED <<x1, x7, x9, x11>>, NEW upTo \in Nat, Vpn!Stopping(upTo), x2 # Vpn!NoTunnel => x2.gen <= upTo,
         Vpn!VpnShapes', x4'.since \in Nat, x4'.retry \in Vpn!Retries, x4'.pc \in {"wipe", "rewipe"}, ~x4'.retry.pending
  PROVE  Vpn!VpnInv'
<1>0. Vpn!VpnTypes /\ Vpn!TunnelKnows /\ Vpn!ReviserKnows /\ Vpn!NewerIsSpared
  BY DEF Vpn!VpnInv
<1>1. x2' = [pid |-> 0, gen |-> 0, since |-> 0] /\ x2' = Vpn!NoTunnel
  BY DEF Vpn!Stopping, Vpn!NoTunnel, Vpn!NoPid
<1>2. Vpn!VpnTypes' /\ Vpn!TunnelKnows'
  BY <1>0, <1>1 DEF Vpn!VpnTypes, Vpn!TunnelKnows
<1>3. Vpn!NewerIsSpared'
  BY <1>0 DEF Vpn!Stopping, Vpn!NewerIsSpared
<1>4. Vpn!ReviserKnows'
  BY <1>0, <1>1 DEF Vpn!ReviserKnows, Vpn!RetryKnows, Vpn!VpnTypes, Vpn!Retries
<1>5. ~SameAddress => Vpn!RgsKnows'
  BY <1>1, RgsAlone
<1> QED
  BY <1>2, <1>3, <1>4, <1>5 DEF Vpn!VpnInv

\* A first stop ends a tunnel of credentials that there are, which nobody can
\* replace before they are revoked.
LEMMA VpnStops ==
  ASSUME Vpn!VpnInv, Vpn!StopRevoked
  PROVE  Vpn!VpnInv'
<1>0. Vpn!VpnShapes /\ Vpn!VpnTypes /\ Vpn!TunnelKnows /\ Vpn!ReviserKnows /\ x4.pc = "stop"
  BY DEF Vpn!VpnInv, Vpn!StopRevoked
<1>1. UNCHANGED <<x1, x7, x9, x11>>
  BY DEF Vpn!StopRevoked, Vpn!watched
<1>2. CASE x4' = [x4 EXCEPT !.pc = "wipe"] /\ Vpn!Stopping(x1.gen)
  <2>1. x4' = [pc |-> "wipe", source |-> x4.source, since |-> x4.since, retry |-> x4.retry]
    BY <1>0, <1>2 DEF Vpn!VpnShapes
  <2>2. /\ Vpn!VpnShapes' /\ x4'.since \in Nat /\ x4'.retry \in Vpn!Retries /\ x4'.pc = "wipe" /\ ~x4'.retry.pending
        /\ x1.gen \in Nat /\ x2.gen <= x1.gen
    BY <1>0, <1>1, <2>1 DEF Vpn!VpnShapes, Vpn!VpnTypes, Vpn!ReviserKnows, Vpn!TunnelKnows
  <2> QED
    BY <1>1, <1>2, <2>2, StopEnds
<1>3. CASE x2 # Vpn!NoTunnel /\ UNCHANGED <<x2, x8>>
           /\ \E pid \in {x2.pid, Vpn!NoPid} :
                 x4' = [x4 EXCEPT !.pc = "wipe",
                          !.retry = [pending |-> TRUE, pid |-> pid, since |-> x4.since, boot |-> x7.boot]]
  <2>1. PICK pid \in {x2.pid, Vpn!NoPid} :
          x4' = [pc |-> "wipe", source |-> x4.source, since |-> x4.since,
                 retry |-> [pending |-> TRUE, pid |-> pid, since |-> x4.since, boot |-> x7.boot]]
    BY <1>0, <1>3 DEF Vpn!VpnShapes
  <2>2. pid \in Nat /\ pid < x7.pid /\ x4.since <= x7.tick /\ x2.gen <= x1.gen
    BY <1>0, <1>3 DEF Vpn!VpnTypes, Vpn!TunnelKnows, Vpn!ReviserKnows, Vpn!NoPid
  <2>3. Vpn!VpnShapes' /\ x4'.since \in Nat /\ x4'.retry \in Vpn!Retries /\ x4'.pc = "wipe"
    BY <1>0, <1>1, <2>1, <2>2 DEF Vpn!VpnShapes, Vpn!VpnTypes, Vpn!Retries
  <2>4. Vpn!RetryKnows(x4'.retry, x1.gen)
    BY <1>0, <2>1, <2>2 DEF Vpn!RetryKnows, Vpn!VpnTypes
  <2> QED
    BY <1>1, <1>3, <2>3, <2>4, ReviserMoves
<1> QED
  BY <1>2, <1>3 DEF Vpn!StopRevoked

LEMMA VpnWipes ==
  ASSUME Vpn!VpnInv, Vpn!Wipe \/ Vpn!WipeAgain
  PROVE  Vpn!VpnInv'
<1>0. Vpn!VpnShapes /\ Vpn!VpnTypes /\ Vpn!TunnelKnows /\ Vpn!ReviserKnows /\ Vpn!NewerIsSpared
  BY DEF Vpn!VpnInv
<1>1. UNCHANGED <<x2, x7, x8, x9, x11>> /\ x4' = Vpn!NoReviser /\ x4.pc \in {"wipe", "rewipe"}
  BY DEF Vpn!Wipe, Vpn!WipeAgain, Vpn!watched
<1>2. /\ x1' = [source |-> x1'.source, has |-> x1'.has, file |-> x1'.file, gen |-> x1.gen, wipe |-> x1'.wipe,
                retry |-> x4.retry, revoked |-> x1'.revoked]
      /\ x1'.file \in {0, x1.file} /\ x1'.revoked = IF x4.pc = "wipe" THEN x1.gen ELSE x1.revoked
  <2>1. CASE Vpn!Wipe
    <3>1. PICK removed \in BOOLEAN :
            x1' = [x1 EXCEPT !.has = FALSE, !.file = IF removed THEN 0 ELSE @, !.wipe = ~removed,
                             !.retry = x4.retry, !.revoked = x1.gen]
      BY <2>1 DEF Vpn!Wipe
    <3>2. x4.pc = "wipe"
      BY <2>1 DEF Vpn!Wipe
    <3> QED
      BY <1>0, <3>1, <3>2 DEF Vpn!VpnShapes
  <2>2. CASE Vpn!WipeAgain
    BY <1>0, <2>2 DEF Vpn!WipeAgain, Vpn!VpnShapes
  <2> QED
    BY <2>1, <2>2
<1>3. x4' = [pc |-> "idle", source |-> Own, since |-> 0, retry |-> Vpn!NoRetry] /\ Vpn!NoRetry \in Vpn!Retries
  BY <1>1 DEF Vpn!NoReviser, Vpn!NoRetry, Vpn!NoPid, Vpn!Retries
<1>4. Vpn!VpnShapes'
  BY <1>0, <1>1, <1>2, <1>3 DEF Vpn!VpnShapes
<1>5. Vpn!VpnTypes'
  BY <1>0, <1>1, <1>2, <1>3 DEF Vpn!VpnTypes
<1>6. Vpn!TunnelKnows' /\ Vpn!NewerIsSpared'
  BY <1>0, <1>1, <1>2 DEF Vpn!VpnTypes, Vpn!TunnelKnows, Vpn!NewerIsSpared
<1>7. Vpn!RetryKnows(x4.retry, x1'.revoked) /\ x1'.retry = x4.retry /\ x4'.pc = "idle"
  BY <1>0, <1>1, <1>2, <1>3 DEF Vpn!ReviserKnows
<1>8. Vpn!ReviserKnows'
  BY <1>1, <1>7 DEF Vpn!ReviserKnows, Vpn!RetryKnows, Vpn!NotOurs, Vpn!Replaced, Vpn!NewSince
<1>9. ~SameAddress => Vpn!RgsKnows'
  BY <1>1, RgsStays
<1> QED
  BY <1>4, <1>5, <1>6, <1>8, <1>9 DEF Vpn!VpnInv

LEMMA VpnRetries ==
  ASSUME Vpn!VpnInv, Vpn!Retry
  PROVE  Vpn!VpnInv'
<1>0. Vpn!VpnShapes /\ Vpn!VpnTypes /\ Vpn!RetryKnows(x1.retry, x1.revoked)
  BY DEF Vpn!VpnInv, Vpn!ReviserKnows
<1>1. UNCHANGED <<x1, x2, x7, x8, x9, x11>>
  BY DEF Vpn!Retry, Vpn!watched
<1>2. /\ x4' = [pc |-> x4'.pc, source |-> x4'.source, since |-> x4'.since, retry |-> x4'.retry] /\ x4'.since = 0
      /\ \/ x4'.pc = "retry" /\ x4'.retry = x1.retry /\ x1.retry.pending /\ x1.retry.boot = x7.boot
         \/ x4'.pc = "rewipe" /\ x4'.retry = Vpn!NoRetry
  BY DEF Vpn!Retry, Vpn!NoReviser
<1>3. Vpn!NoRetry \in Vpn!Retries /\ ~Vpn!NoRetry.pending
  BY DEF Vpn!NoRetry, Vpn!Retries, Vpn!NoPid
<1>4. Vpn!VpnShapes' /\ x4'.since \in Nat /\ x4'.retry \in Vpn!Retries
  BY <1>0, <1>1, <1>2, <1>3 DEF Vpn!VpnShapes, Vpn!VpnTypes
<1>5. x4'.pc \in {"retry", "rewipe"} /\ Vpn!RetryKnows(x4'.retry, x1.revoked)
  BY <1>0, <1>2, <1>3 DEF Vpn!RetryKnows
<1> QED
  BY <1>1, <1>2, <1>4, <1>5, ReviserMoves

\* What a late stop finds under its lock is either not what it is about, or of
\* credentials that were revoked.
LEMMA VpnStopsAgain ==
  ASSUME Vpn!VpnInv, Vpn!StopAgain
  PROVE  Vpn!VpnInv'
<1>0. Vpn!VpnShapes /\ Vpn!VpnTypes /\ Vpn!TunnelKnows /\ Vpn!ReviserKnows /\ x4.pc = "retry"
  BY DEF Vpn!VpnInv, Vpn!StopAgain
<1>1. UNCHANGED <<x1, x7, x9, x11>>
  BY DEF Vpn!StopAgain, Vpn!watched
<1>2. ~Vpn!NotOurs(x4.retry) => x2.gen <= x1.revoked
  BY <1>0 DEF Vpn!ReviserKnows, Vpn!RetryKnows
<1>3. Vpn!NoRetry \in Vpn!Retries /\ ~Vpn!NoRetry.pending
  BY DEF Vpn!NoRetry, Vpn!Retries, Vpn!NoPid
<1>4. CASE x4' = [x4 EXCEPT !.pc = "rewipe", !.retry = Vpn!NoRetry]
  <2>1. x4' = [pc |-> "rewipe", source |-> x4.source, since |-> x4.since, retry |-> Vpn!NoRetry]
    BY <1>0, <1>4 DEF Vpn!VpnShapes
  <2>2. /\ Vpn!VpnShapes' /\ x4'.since \in Nat /\ x4'.retry \in Vpn!Retries /\ x4'.pc = "rewipe" /\ ~x4'.retry.pending
        /\ x1.revoked \in Nat /\ Vpn!RetryKnows(x4'.retry, x1.revoked)
    BY <1>0, <1>1, <1>3, <2>1 DEF Vpn!VpnShapes, Vpn!VpnTypes, Vpn!RetryKnows
  <2>3. CASE UNCHANGED <<x2, x8>>
    BY <1>1, <2>2, <2>3, ReviserMoves
  <2>4. CASE ~Vpn!NotOurs(x4.retry) /\ Vpn!Stopping(x1.revoked)
    BY <1>1, <1>2, <2>2, <2>4, StopEnds
  <2> QED
    BY <2>3, <2>4 DEF Vpn!StopAgain
<1>5. CASE x4' = [x4 EXCEPT !.pc = "rewipe"] /\ UNCHANGED <<x2, x8>>
  <2>1. x4' = [pc |-> "rewipe", source |-> x4.source, since |-> x4.since, retry |-> x4.retry]
    BY <1>0, <1>5 DEF Vpn!VpnShapes
  <2>2. Vpn!VpnShapes' /\ x4'.since \in Nat /\ x4'.retry \in Vpn!Retries /\ x4'.pc = "rewipe"
    BY <1>0, <1>1, <2>1 DEF Vpn!VpnShapes, Vpn!VpnTypes
  <2>3. Vpn!RetryKnows(x4'.retry, x1.revoked)
    BY <1>0, <2>1 DEF Vpn!ReviserKnows
  <2> QED
    BY <1>1, <1>5, <2>2, <2>3, ReviserMoves
<1>6. CASE ~Vpn!NotOurs(x4.retry) /\ x2 # Vpn!NoTunnel /\ UNCHANGED <<x2, x8>>
           /\ x4' = [x4 EXCEPT !.pc = "rewipe", !.retry.pid = x2.pid]
  <2>1. x4' = [pc |-> "rewipe", source |-> x4.source, since |-> x4.since, retry |-> [x4.retry EXCEPT !.pid = x2.pid]]
    BY <1>0, <1>6 DEF Vpn!VpnShapes
  <2>2. /\ x4'.retry \in Vpn!Retries /\ x4'.retry.pid = x2.pid /\ x4'.retry.boot = x4.retry.boot
        /\ x4'.retry.since = x4.retry.since
    BY <1>0, <2>1 DEF Vpn!VpnTypes, Vpn!Retries
  <2>3. Vpn!VpnShapes' /\ x4'.since \in Nat /\ x4'.pc = "rewipe"
    BY <1>0, <1>1, <2>1 DEF Vpn!VpnShapes, Vpn!VpnTypes
  <2>4. x4.retry.boot = x7.boot /\ x4.retry.since <= x7.tick /\ x2.pid < x7.pid /\ x2.gen <= x1.revoked
    BY <1>0, <1>2, <1>6 DEF Vpn!ReviserKnows, Vpn!RetryKnows, Vpn!TunnelKnows, Vpn!VpnTypes
  <2>5. Vpn!RetryKnows(x4'.retry, x1.revoked)
    BY <1>0, <2>2, <2>4 DEF Vpn!RetryKnows, Vpn!VpnTypes
  <2> QED
    BY <1>1, <1>6, <2>2, <2>3, <2>5, ReviserMoves
<1> QED
  BY <1>4, <1>5, <1>6 DEF Vpn!StopAgain

-----------------------------------------------------------------------------
(* The address.                                                             *)

\* Nothing but RGS or the log of the tunnel changes.
LEMMA TunnelSteady ==
  ASSUME Vpn!VpnInv, UNCHANGED <<x1, x2, x4, x7, x8>>, Vpn!VpnShapes', Vpn!VpnTypes', x9 # "none" => x9' # "none"
  PROVE  Vpn!TunnelKnows' /\ Vpn!NewerIsSpared' /\ Vpn!ReviserKnows'
<1>1. Vpn!TunnelKnows' /\ Vpn!NewerIsSpared'
  BY DEF Vpn!VpnInv, Vpn!TunnelKnows, Vpn!NewerIsSpared
<1>2. Vpn!ReviserKnows'
  BY DEF Vpn!VpnInv, Vpn!ReviserKnows, Vpn!RetryKnows, Vpn!NotOurs, Vpn!Replaced, Vpn!NewSince
<1> QED
  BY <1>1, <1>2

LEMMA HealthTurns ==
  ASSUME Vpn!VpnInv, NEW h \in {"connected", "error", "flooded", "mute"}, Vpn!Turns(h)
  PROVE  Vpn!VpnInv'
<1>1. UNCHANGED <<x1, x2, x4, x7, x8, x11>> /\ x9' = h /\ Vpn!VpnShapes' /\ Vpn!VpnTypes'
  BY DEF Vpn!VpnInv, Vpn!Turns, Vpn!VpnShapes, Vpn!VpnTypes, Vpn!Retries, Vpn!Addresses
<1>2. Vpn!TunnelKnows' /\ Vpn!NewerIsSpared' /\ Vpn!ReviserKnows'
  BY <1>1, TunnelSteady
<1>3. ~SameAddress => Vpn!RgsKnows'
  BY <1>1 DEF Vpn!VpnInv, Vpn!RgsKnows, Vpn!TunnelAddress, Vpn!Turns
<1> QED
  BY <1>1, <1>2, <1>3 DEF Vpn!VpnInv

\* The address of a tunnel that is up, and only of such a one.
LEMMA AddressOfUp ==
  ASSUME Vpn!VpnInv, ~SameAddress
  PROVE  /\ Vpn!tunnel_is_up => Vpn!_tunnel_ip = Vpn!TunnelAddress
         /\ ~Vpn!tunnel_is_up => Vpn!_tunnel_ip = Vpn!NoAddress
         /\ x2 # Vpn!NoTunnel /\ x9 # "connecting" => Vpn!tunnel_is_up \/ x9 \in {"error", "mute"}
         /\ Vpn!TunnelAddress # Vpn!NoAddress
  BY DEF Vpn!_tunnel_ip, Vpn!TunnelAddress, Vpn!NoAddress, Vpn!tunnel_is_up, Vpn!VpnInv, Vpn!VpnShapes, Vpn!VpnTypes, Vpn!Retries, Vpn!Addresses, Vpn!TunnelKnows

\* What an action of RGS may make of its record.
RgsFields ==
  /\ x11'.enabled \in {x11.enabled, TRUE, FALSE} /\ x11'.running \in {x11.running, TRUE, FALSE}
  /\ x11'.guess \in {x11.guess, TRUE, FALSE} /\ x11'.on \in {x11.on, Vpn!_tunnel_ip, Vpn!NoAddress}
  /\ x11'.noted \in {x11.noted, x11.seen, Vpn!_tunnel_ip, Vpn!NoAddress}
  /\ x11'.seen \in {x11.seen, Vpn!_tunnel_ip, Vpn!NoAddress}

LEMMA RgsTyped ==
  ASSUME Vpn!VpnTypes, UNCHANGED <<x1, x2, x4, x7, x8, x9>>, RgsFields,
         Vpn!_tunnel_ip \in Vpn!Addresses, Vpn!NoAddress \in Vpn!Addresses
  PROVE  Vpn!VpnTypes'
<1>1. x11'.enabled \in BOOLEAN /\ x11'.running \in BOOLEAN /\ x11'.guess \in BOOLEAN
  BY DEF Vpn!VpnTypes, RgsFields
<1>2. x11'.on \in Vpn!Addresses /\ x11'.noted \in Vpn!Addresses /\ x11'.seen \in Vpn!Addresses
  BY DEF Vpn!VpnTypes, RgsFields
<1> QED
  BY <1>1, <1>2 DEF Vpn!VpnTypes

LEMMA RgsSteps ==
  ASSUME Vpn!VpnInv, Vpn!RgsLooks \/ Vpn!RgsActs \/ Vpn!RgsFails \/ Vpn!RgsSwitched
  PROVE  Vpn!VpnInv'
<1>0. Vpn!VpnShapes /\ Vpn!VpnTypes /\ Vpn!TunnelKnows
  BY DEF Vpn!VpnInv
<1>1. UNCHANGED <<x1, x2, x4, x7, x8, x9>>
  BY DEF Vpn!RgsLooks, Vpn!RgsActs, Vpn!RgsFails, Vpn!RgsSwitched
<1>2. Vpn!_tunnel_ip \in Vpn!Addresses /\ Vpn!NoAddress \in Vpn!Addresses
  BY <1>0 DEF Vpn!_tunnel_ip, Vpn!NoAddress, Vpn!VpnTypes, Vpn!Retries, Vpn!Addresses, Vpn!NoPid
<1>3. Vpn!VpnShapes' /\ Vpn!VpnTypes'
  <2>1. CASE Vpn!RgsLooks
    <3>1. Vpn!VpnShapes'
      BY <1>0, <1>1, <2>1 DEF Vpn!RgsLooks, Vpn!VpnShapes
    <3>2. RgsFields
      BY <1>0, <2>1 DEF Vpn!RgsLooks, Vpn!VpnShapes, RgsFields
    <3> QED
      BY <3>1, <3>2, <1>0, <1>1, <1>2, RgsTyped
  <2>2. CASE Vpn!RgsActs
    <3>1. Vpn!VpnShapes'
      BY <1>0, <1>1, <2>2 DEF Vpn!RgsActs, Vpn!VpnShapes, Vpn!Noted, Vpn!Started, Vpn!RgsIdle
    <3>2. RgsFields
      BY <1>0, <2>2 DEF Vpn!RgsActs, Vpn!VpnShapes, RgsFields, Vpn!Noted, Vpn!Started, Vpn!RgsIdle
    <3> QED
      BY <3>1, <3>2, <1>0, <1>1, <1>2, RgsTyped
  <2>3. CASE Vpn!RgsFails
    <3>0. \/ x11' = [x11 EXCEPT !.pc = "idle", !.seen = Vpn!NoAddress]
          \/ x11' = [x11 EXCEPT !.running = FALSE, !.on = Vpn!NoAddress, !.pc = "idle", !.seen = Vpn!NoAddress]
      BY <1>0, <2>3 DEF Vpn!RgsFails, Vpn!VpnShapes, Vpn!Deferred, Vpn!RgsIdle
    <3>1. Vpn!VpnShapes'
      BY <1>0, <1>1, <3>0 DEF Vpn!VpnShapes
    <3>2. RgsFields
      BY <1>0, <3>0 DEF Vpn!VpnShapes, RgsFields
    <3> QED
      BY <3>1, <3>2, <1>0, <1>1, <1>2, RgsTyped
  <2>4. CASE Vpn!RgsSwitched
    <3>1. Vpn!VpnShapes'
      BY <1>0, <1>1, <2>4 DEF Vpn!RgsSwitched, Vpn!VpnShapes
    <3>2. RgsFields
      BY <1>0, <2>4 DEF Vpn!RgsSwitched, Vpn!VpnShapes, RgsFields
    <3> QED
      BY <3>1, <3>2, <1>0, <1>1, <1>2, RgsTyped
  <2> QED
    BY <2>1, <2>2, <2>3, <2>4
<1>4. Vpn!TunnelKnows' /\ Vpn!NewerIsSpared' /\ Vpn!ReviserKnows'
  BY <1>1, <1>3, TunnelSteady
<1>5. ASSUME ~SameAddress PROVE Vpn!RgsKnows'
  <2>1. Vpn!RgsKnows
    BY <1>5 DEF Vpn!VpnInv
  <2>2. Vpn!TunnelAddress' = Vpn!TunnelAddress
    BY <1>1 DEF Vpn!TunnelAddress
  <2>3. /\ Vpn!tunnel_is_up => x2.pid < x7.pid
        /\ Vpn!TunnelAddress.boot = x7.boot /\ Vpn!TunnelAddress.pid = x2.pid
        /\ Vpn!NoAddress.boot # x7.boot /\ Vpn!NoAddress.boot <= x7.boot
    BY <1>0 DEF Vpn!VpnShapes, Vpn!VpnTypes, Vpn!Retries, Vpn!Addresses, Vpn!TunnelKnows, Vpn!TunnelAddress, Vpn!NoAddress, Vpn!tunnel_is_up
  <2>4. CASE Vpn!RgsLooks
    BY <1>0, <1>1, <1>5, <2>1, <2>2, <2>3, <2>4, AddressOfUp DEF Vpn!RgsLooks, Vpn!RgsKnows, Vpn!VpnTypes, Vpn!Retries, Vpn!Addresses, Vpn!tunnel_is_up
  <2>5. CASE Vpn!RgsActs
    BY <1>0, <1>1, <1>2, <1>5, <2>1, <2>2, <2>3, <2>5, AddressOfUp DEF Vpn!RgsActs, Vpn!RgsKnows, Vpn!VpnTypes, Vpn!Retries, Vpn!Addresses, Vpn!Noted, Vpn!Started, Vpn!RgsIdle
  <2>6. CASE Vpn!RgsFails
    BY <1>0, <1>1, <1>5, <2>1, <2>2, <2>3, <2>6, AddressOfUp DEF Vpn!RgsFails, Vpn!RgsKnows, Vpn!VpnTypes, Vpn!Retries, Vpn!Addresses, Vpn!Deferred, Vpn!RgsIdle
  <2>7. CASE Vpn!RgsSwitched
    <3>1. /\ x11'.noted = x11.noted /\ x11'.guess = x11.guess /\ x11'.pc = x11.pc /\ x11'.seen = x11.seen
          /\ x11'.running => x11'.on = IF x11.running THEN x11.on ELSE Vpn!_tunnel_ip
      BY <1>0, <2>7 DEF Vpn!RgsSwitched, Vpn!VpnShapes
    <3> QED
      BY <1>0, <1>1, <1>5, <2>1, <2>2, <2>3, <3>1, AddressOfUp DEF Vpn!RgsKnows, Vpn!VpnTypes
  <2> QED
    BY <2>4, <2>5, <2>6, <2>7
<1> QED
  BY <1>3, <1>4, <1>5 DEF Vpn!VpnInv

LEMMA VpnTicks ==
  ASSUME Vpn!VpnInv, Vpn!Tick
  PROVE  Vpn!VpnInv'
<1> USE DEF Vpn!Tick, Vpn!watched
<1>0. Vpn!VpnShapes /\ Vpn!VpnTypes /\ Vpn!TunnelKnows /\ Vpn!ReviserKnows /\ Vpn!NewerIsSpared
  BY DEF Vpn!VpnInv
<1>1. Vpn!VpnShapes' /\ Vpn!VpnTypes'
  BY <1>0 DEF Vpn!VpnShapes, Vpn!VpnTypes, Vpn!Retries, Vpn!Addresses
<1>2. Vpn!TunnelKnows' /\ Vpn!NewerIsSpared'
  BY <1>0 DEF Vpn!VpnShapes, Vpn!VpnTypes, Vpn!Retries, Vpn!Addresses, Vpn!TunnelKnows, Vpn!NewerIsSpared
<1>3. Vpn!ReviserKnows'
  BY <1>0 DEF Vpn!VpnShapes, Vpn!VpnTypes, Vpn!Retries, Vpn!Addresses, Vpn!ReviserKnows, Vpn!RetryKnows, Vpn!NotOurs, Vpn!Replaced, Vpn!NewSince
<1>4. ~SameAddress => Vpn!RgsKnows'
  BY <1>0 DEF Vpn!VpnInv, Vpn!VpnShapes, Vpn!VpnTypes, Vpn!Retries, Vpn!Addresses, Vpn!RgsKnows, Vpn!TunnelAddress
<1> QED
  BY <1>1, <1>2, <1>3, <1>4 DEF Vpn!VpnInv

\* What is known of another boot is of no consequence.
LEMMA VpnRestarts ==
  ASSUME Vpn!VpnInv, NEW machine \in BOOLEAN, Vpn!RestartVpn(machine)
  PROVE  Vpn!VpnInv'
<1> USE DEF Vpn!RestartVpn, Vpn!NoReviser, Vpn!NoRetry, Vpn!NoPid, Vpn!NoTunnel, Vpn!RgsIdle, Vpn!NoAddress
<1>0. Vpn!VpnShapes /\ Vpn!VpnTypes /\ Vpn!TunnelKnows /\ Vpn!ReviserKnows /\ Vpn!NewerIsSpared
  BY DEF Vpn!VpnInv
<1>1. Vpn!VpnShapes' /\ Vpn!VpnTypes'
  <2>1. x11' = IF machine THEN [x11 EXCEPT !.running = FALSE, !.on = [boot |-> 0, pid |-> 0], !.pc = "idle", !.seen = [boot |-> 0, pid |-> 0]]
               ELSE [x11 EXCEPT !.pc = "idle", !.seen = [boot |-> 0, pid |-> 0]]
    BY <1>0 DEF Vpn!VpnShapes
  <2>2. [boot |-> 0, pid |-> 0] \in Vpn!Addresses /\ x4'.retry \in Vpn!Retries /\ x4'.since \in Nat
    BY DEF Vpn!Addresses, Vpn!Retries
  <2>3. Vpn!VpnShapes'
    BY <1>0, <2>1 DEF Vpn!VpnShapes
  <2>4. /\ x11'.enabled = x11.enabled /\ x11'.running \in {x11.running, FALSE} /\ x11'.guess = x11.guess
        /\ x11'.on \in {x11.on, [boot |-> 0, pid |-> 0]} /\ x11'.noted = x11.noted /\ x11'.seen = [boot |-> 0, pid |-> 0]
    BY <1>0, <2>1 DEF Vpn!VpnShapes
  <2>5. x2' \in [pid : Nat, gen : Nat, since : Nat] /\ x7' \in [tick : Nat, boot : Nat \ {0}, pid : Nat \ {0}]
    BY <1>0 DEF Vpn!VpnTypes
  <2> QED
    BY <1>0, <2>2, <2>3, <2>4, <2>5 DEF Vpn!VpnTypes
<1>2. Vpn!TunnelKnows' /\ Vpn!NewerIsSpared'
  BY <1>0 DEF Vpn!VpnShapes, Vpn!VpnTypes, Vpn!Retries, Vpn!Addresses, Vpn!TunnelKnows, Vpn!NewerIsSpared
<1>3. Vpn!ReviserKnows'
  BY <1>0 DEF Vpn!VpnShapes, Vpn!VpnTypes, Vpn!Retries, Vpn!Addresses, Vpn!ReviserKnows, Vpn!RetryKnows, Vpn!NotOurs, Vpn!Replaced, Vpn!NewSince
<1>4. ~SameAddress => Vpn!RgsKnows'
  BY <1>0 DEF Vpn!VpnInv, Vpn!VpnShapes, Vpn!VpnTypes, Vpn!Retries, Vpn!Addresses, Vpn!RgsKnows, Vpn!TunnelAddress
<1> QED
  BY <1>1, <1>2, <1>3, <1>4 DEF Vpn!VpnInv

LEMMA VpnBegins == Vpn!VpnInit => Vpn!VpnInv
<1> SUFFICES ASSUME Vpn!VpnInit PROVE Vpn!VpnInv
  OBVIOUS
<1> USE DEF Vpn!VpnInit, Vpn!NoRetry, Vpn!NoPid, Vpn!NoTunnel, Vpn!NoReviser, Vpn!NoAddress
<1>1. x11 = [enabled |-> TRUE, running |-> FALSE, on |-> Vpn!NoAddress, noted |-> Vpn!NoAddress, guess |-> FALSE,
             soon |-> FALSE, pc |-> "idle", seen |-> Vpn!NoAddress]
  OBVIOUS
<1>2. Vpn!NoRetry \in Vpn!Retries /\ Vpn!NoAddress \in Vpn!Addresses
  BY DEF Vpn!Retries, Vpn!Addresses
<1>3. Vpn!VpnShapes /\ Vpn!VpnTypes
  BY <1>1, <1>2 DEF Vpn!VpnShapes, Vpn!VpnTypes
<1>4. Vpn!TunnelKnows /\ Vpn!NewerIsSpared
  BY DEF Vpn!TunnelKnows, Vpn!NewerIsSpared
<1>5. Vpn!ReviserKnows
  BY DEF Vpn!ReviserKnows, Vpn!RetryKnows
<1>6. Vpn!RgsKnows
  BY <1>1 DEF Vpn!RgsKnows
<1> QED
  BY <1>3, <1>4, <1>5, <1>6 DEF Vpn!VpnInv

LEMMA VpnStep == Vpn!VpnInv /\ [Vpn!VpnNext]_Vpn!vpnVars => Vpn!VpnInv'
<1> SUFFICES ASSUME Vpn!VpnInv, [Vpn!VpnNext]_Vpn!vpnVars PROVE Vpn!VpnInv'
  OBVIOUS
<1>1. CASE \/ Vpn!PullFails \/ (\E p \in Sharer : Vpn!PullFromPeer(p) \/ Vpn!bootstrap_vpn_from_swarm(p) \/ Vpn!StopSharing(p))
           \/ (\E c \in Caller : Vpn!Validate(c) \/ Vpn!Suffix(c) \/ Vpn!NotReady(c))
           \/ Vpn!HealerLooks \/ Vpn!HealerNotes \/ Vpn!AttemptsAge \/ UNCHANGED Vpn!vpnVars
  <2>1. UNCHANGED <<x1, x2, x4, x7, x8, x9, x11>>
    BY <1>1 DEF Vpn!PullFails, Vpn!PullFromPeer, Vpn!bootstrap_vpn_from_swarm, Vpn!StopSharing, Vpn!Validate, Vpn!Suffix,
         Vpn!NotReady,
         Vpn!HealerLooks, Vpn!HealerNotes, Vpn!AttemptsAge, Vpn!vpnVars, Vpn!watched
  <2> QED
    BY <2>1, TunnelStays
<1>2. CASE Vpn!SaveOwn \/ Vpn!UploadConfig \/ Vpn!Import
  BY <1>2, NewCredentials
<1>3. CASE \E c \in Caller : Vpn!Connect(c)
  BY <1>3, VpnConnects
<1>4. CASE Vpn!Disconnect \/ Vpn!HealerReconnects \/ \E c \in Caller : Vpn!Reconnect(c)
  <2>1. UNCHANGED <<x1, x4, x7, x8, x9, x11>> /\ x2' = Vpn!NoTunnel
    BY <1>4 DEF Vpn!Disconnect, Vpn!HealerReconnects, Vpn!Reconnect, Vpn!watched
  <2> QED
    BY <2>1, VpnEnds
<1>5. CASE Vpn!Ask \/ Vpn!Answer \/ Vpn!Transient
  BY <1>5, VpnAsks
<1>6. CASE Vpn!StopRevoked \/ Vpn!Wipe \/ Vpn!Retry \/ Vpn!StopAgain \/ Vpn!WipeAgain
  BY <1>6, VpnStops, VpnWipes, VpnRetries, VpnStopsAgain
<1>7. CASE Vpn!RgsLooks \/ Vpn!RgsActs \/ Vpn!RgsFails \/ Vpn!RgsSwitched
  BY <1>7, RgsSteps
<1>8. CASE (\E h \in {"connected", "error", "flooded", "mute"} : Vpn!Turns(h)) \/ Vpn!Tick
           \/ \E machine \in BOOLEAN : Vpn!RestartVpn(machine)
  BY <1>8, HealthTurns, VpnTicks, VpnRestarts
<1> QED
  BY <1>1, <1>2, <1>3, <1>4, <1>5, <1>6, <1>7, <1>8 DEF Vpn!VpnNext

LEMMA VpnAlways == Spec => [](focus = "vpn" => Vpn!VpnInv)
<1> DEFINE Inv == focus = "vpn" => Vpn!VpnInv
<1>1. Init => Inv
  BY VpnStarts, VpnBegins
<1>2. Inv /\ [Next]_vars => Inv'
  BY FocusStays, VpnSteps, VpnStep
<1> QED
  BY <1>1, <1>2, PTL DEF Spec

LEMMA VpnSays == Vpn!VpnInv /\ ~SameAddress => Vpn!TunnelStaysRight
<1> SUFFICES ASSUME Vpn!VpnInv, ~SameAddress PROVE Vpn!RgsIsWhereNoted
  BY DEF Vpn!VpnInv, Vpn!TunnelStaysRight
<1> QED
  BY AddressOfUp DEF Vpn!VpnInv, Vpn!RgsKnows, Vpn!RgsIsWhereNoted, Vpn!tunnel_is_up

\* However late the retry of a revocation comes, and whatever was saved, connected
\* or restarted meanwhile, it stops no tunnel of newer credentials than those it
\* revokes (check_sharing_revocation, disconnect).
THEOREM LateStopsSpareNewTunnels == Spec => [](focus = "vpn" => Vpn!NewerIsSpared)
<1>1. (focus = "vpn" => Vpn!VpnInv) => (focus = "vpn" => Vpn!NewerIsSpared)
  BY DEF Vpn!VpnInv
<1> QED
  BY <1>1, VpnAlways, PTL

\* And if no address is given twice, RGS runs on the tunnel that it is noted to
\* have been reconciled with, so that one it does not run on is noticed
\* (reconcile_rgs_with_tunnel).
THEOREM TunnelsStayRight == ~SameAddress => (Spec => []TunnelStaysRight)
<1> SUFFICES ASSUME ~SameAddress PROVE Spec => []TunnelStaysRight
  OBVIOUS
<1>1. (focus = "vpn" => Vpn!VpnInv) => TunnelStaysRight
  BY VpnSays DEF TunnelStaysRight
<1> QED
  BY <1>1, VpnAlways, PTL

=============================================================================
