------------------------ MODULE ServiceRecords_proofs ------------------------
(***************************************************************************)
(* Theorems about services that keep records of what they gave, took or    *)
(* borrowed: the exports to peers, the references to their libraries, the  *)
(* password and its sessions, the servers and their threads, and the       *)
(* journals of the configuration guard.  That guard implements settings    *)
(* that only their owner changes, as long as no session watches a file     *)
(* that an ended one still looks for.                                      *)
(***************************************************************************)
EXTENDS DroneServices, TLAPS

LEMMA FocusStays == [Next]_vars => focus' = focus
  BY DEF Next, vars

-----------------------------------------------------------------------------
(* Exports to peers.                                                       *)

LEMMA ExportSteps == [Next]_vars /\ focus = "exports" => [Exports!ExportNext]_Exports!exportVars
  BY DEF Next, vars, Exports!exportVars

LEMMA ExportStarts == Init /\ focus = "exports" => Exports!ExportInit
  BY DEF Init

LEMMA ExportUses ==
  ASSUME Exports!ExportTypes, NEW what \in {"requests", "changes", "prepare", "unexport", "crashes"}, Exports!Use(what)
  PROVE  /\ x7' \in [{"requests", "changes", "prepare", "export", "unexport", "crashes"} -> Nat]
         /\ x7'["export"] = x7["export"]
  BY DEF Exports!ExportTypes, Exports!Use

LEMMA ExportsBegin ==
  Exports!ExportInit /\ (\A b \in ExportBounds : b.export = 0) => Exports!ExportInv
<1> SUFFICES ASSUME Exports!ExportInit, \A b \in ExportBounds : b.export = 0 PROVE Exports!ExportInv
  OBVIOUS
<1>1. Exports!ExportTypes
  BY ExportAssumption
  DEF Exports!ExportInit, Exports!ExportTypes, Exports!NoGrant, Exports!NoGranting
<1>2. \A p \in Client : x2[p].status = "none"
  BY DEF Exports!ExportInit, Exports!NoGrant
<1> QED
  BY <1>1, <1>2 DEF Exports!ExportInit, Exports!ExportInv, Exports!ActiveIsExported, Exports!NoGranting

\* A revocation spares the addresses that others have.
LEMMA OthersKeepTheirs ==
  ASSUME Exports!ExportTypes, NEW p \in Client, NEW q \in Client \ {p}, NEW out \in SUBSET Address,
         out \cap Exports!SharedElsewhere(p) = {}, x2[q].addresses \subseteq x3
  PROVE  x2[q].addresses \subseteq x3 \ out
  BY DEF Exports!SharedElsewhere

LEMMA RevokedKeeps ==
  ASSUME Exports!ExportInv, NEW p \in Client, NEW failed \in SUBSET x2[p].addresses, Exports!Revoked(p, failed),
         UNCHANGED <<x4, x6>>, x1' \in [Client -> SUBSET Address]
  PROVE  Exports!ExportInv'
<1> DEFINE own == x2[p].addresses \ Exports!SharedElsewhere(p)
<1>1. Exports!ExportTypes /\ x4.pc \in {"idle", "asked"} /\ x3' = x3 \ (own \ failed) /\ own \subseteq Address
  BY DEF Exports!ExportInv, Exports!ExportTypes, Exports!Revoked, Exports!LockFree
<1>2. x7' \in [{"requests", "changes", "prepare", "export", "unexport", "crashes"} -> Nat] /\ x7'["export"] = 0
  BY ExportUses DEF Exports!ExportInv, Exports!ExportTypes, Exports!Revoked
<1>3. PICK g \in [addresses : SUBSET Address, status : {"none", "authorizing", "active", "error"}] :
        x2' = [x2 EXCEPT ![p] = g] /\ g.status # "active"
  <2>1. Exports!NoGrant \in [addresses : SUBSET Address, status : {"none", "authorizing", "active", "error"}]
        /\ Exports!NoGrant.status # "active"
    BY DEF Exports!NoGrant
  <2>2. [x2[p] EXCEPT !.status = "error"] \in [addresses : SUBSET Address, status : {"none", "authorizing", "active", "error"}]
        /\ [x2[p] EXCEPT !.status = "error"].status # "active"
    BY <1>1 DEF Exports!ExportTypes
  <2> QED
    BY <2>1, <2>2 DEF Exports!Revoked
<1>4. \A q \in Client \ {p} : x2'[q] = x2[q]
  BY <1>1, <1>3 DEF Exports!ExportTypes
<1>5. x2'[p].status # "active"
  BY <1>1, <1>3 DEF Exports!ExportTypes
<1>6. ASSUME x6, NEW q \in Client \ {p}, x2[q].status = "active" PROVE x2[q].addresses \subseteq x3'
  <2>1. x2[q].addresses \subseteq x3
    BY <1>6 DEF Exports!ExportInv, Exports!ActiveIsExported
  <2>2. (own \ failed) \cap Exports!SharedElsewhere(p) = {} /\ own \ failed \in SUBSET Address
    BY <1>1
  <2> HIDE DEF own
  <2> QED
    BY <1>1, <2>1, <2>2, OthersKeepTheirs
<1>7. Exports!ActiveIsExported'
  BY <1>4, <1>5, <1>6 DEF Exports!ActiveIsExported
<1>8. Exports!ExportTypes'
  BY <1>1, <1>2, <1>3 DEF Exports!ExportTypes
<1> QED
  BY <1>1, <1>2, <1>7, <1>8 DEF Exports!ExportInv

LEMMA ExportsStep ==
  ASSUME Exports!ExportInv, [Exports!ExportNext]_Exports!exportVars
  PROVE  Exports!ExportInv'
<1> USE DEF Exports!ExportInv
<1>a. Exports!ExportTypes /\ x7["export"] = 0
  OBVIOUS
<1>b. \A p \in Client : x6 /\ x2[p].status = "active" => x2[p].addresses \subseteq x3
  BY DEF Exports!ActiveIsExported
<1>1. ASSUME NEW p \in Client, NEW a \in Address, Exports!AskForExport(p, a) PROVE Exports!ExportInv'
  <2>1. Exports!ExportTypes' /\ x7'["export"] = 0 /\ UNCHANGED <<x2, x3, x6>> /\ x4'.pc = "asked"
    BY <1>1, <1>a, ExportUses DEF Exports!AskForExport, Exports!ExportTypes, Exports!NoGranting
  <2> QED
    BY <1>b, <2>1 DEF Exports!ActiveIsExported
<1>2. ASSUME NEW p \in Client, NEW a \in Address, Exports!PeerMoves(p, a) PROVE Exports!ExportInv'
  <2>1. Exports!ExportTypes' /\ x7'["export"] = 0 /\ UNCHANGED <<x2, x3, x4, x6>>
    BY <1>2, <1>a, ExportUses DEF Exports!PeerMoves, Exports!ExportTypes
  <2> QED
    BY <1>b, <2>1 DEF Exports!ActiveIsExported
<1>3. ASSUME NEW p \in Client, NEW failed \in SUBSET x2[p].addresses,
             Exports!RevokeForPeer(p, failed) \/ Exports!RevokeForForget(p, failed)
      PROVE  Exports!ExportInv'
  <2>1. Exports!Revoked(p, failed) /\ UNCHANGED <<x1, x4, x6>>
    BY <1>3 DEF Exports!RevokeForPeer, Exports!RevokeForForget
  <2> QED
    BY <1>a, <2>1, RevokedKeeps DEF Exports!ExportTypes
<1>4. ASSUME NEW p \in Client, Exports!PeerRemoved(p) PROVE Exports!ExportInv'
  <2>1. Exports!ExportTypes' /\ x7'["export"] = 0 /\ UNCHANGED <<x2, x3, x4, x6>>
    BY <1>4, <1>a, ExportUses DEF Exports!PeerRemoved, Exports!ExportTypes
  <2> QED
    BY <1>b, <2>1 DEF Exports!ActiveIsExported
<1>5. CASE Exports!RecordGrant
  <2>1. x4.client \in Client /\ x4.pc = "asked" /\ UNCHANGED <<x1, x3, x5, x6, x7>>
    BY <1>5, <1>a DEF Exports!RecordGrant, Exports!ExportTypes
  <2>2. x2' = [x2 EXCEPT ![x4.client] = [addresses |-> x4.addresses, status |-> "authorizing"]]
    BY <1>5 DEF Exports!RecordGrant
  <2>3. x4' = [x4 EXCEPT !.pc = "recorded", !.prior = x2[x4.client].addresses]
    BY <1>5 DEF Exports!RecordGrant
  <2>4. \A p \in Client : x2'[p].status = "active" => x2'[p] = x2[p]
    BY <1>a, <2>1, <2>2 DEF Exports!ExportTypes
  <2>5. x2' \in [Client -> [addresses : SUBSET Address, status : {"none", "authorizing", "active", "error"}]]
    BY <1>a, <2>1, <2>2 DEF Exports!ExportTypes
  <2> QED
    BY <1>a, <1>b, <2>1, <2>3, <2>4, <2>5 DEF Exports!ExportTypes, Exports!ActiveIsExported
<1>6. CASE Exports!FailGrant
  <2>1. x4.client \in Client /\ UNCHANGED <<x1, x3, x6>> /\ x4' = Exports!NoGranting
        /\ x2' = [x2 EXCEPT ![x4.client].status = "error"] /\ Exports!Use("prepare")
    BY <1>6, <1>a DEF Exports!FailGrant, Exports!ExportTypes, Exports!Use
  <2>2. x2' \in [Client -> [addresses : SUBSET Address, status : {"none", "authorizing", "active", "error"}]]
        /\ \A p \in Client : x2'[p].status = "active" => x2'[p] = x2[p]
    BY <1>a, <2>1 DEF Exports!ExportTypes
  <2>3. x4'.pc = "idle" /\ x4'.addresses = {} /\ x4'.prior = {}
    BY <2>1 DEF Exports!NoGranting
  <2> QED
    BY <1>a, <1>b, <2>1, <2>2, <2>3, ExportUses DEF Exports!ExportTypes, Exports!ActiveIsExported
<1>7. CASE Exports!ExportClients
  <2>1. x4' = [x4 EXCEPT !.pc = "exported"] /\ x3' = x3 \cup x4.addresses /\ UNCHANGED <<x1, x2, x6, x7>>
    BY <1>7 DEF Exports!ExportClients
  <2>2. x4.pc = "recorded"
    BY <1>7 DEF Exports!ExportClients
  <2> QED
    BY <1>a, <1>b, <2>1, <2>2 DEF Exports!ExportTypes, Exports!ActiveIsExported
\* What is retired nobody else has, and it is none of the new addresses.
<1>8. ASSUME NEW failed \in SUBSET x4.prior, Exports!Retire(failed) PROVE Exports!ExportInv'
  <2> DEFINE p == x4.client
             retired == (x4.prior \ x4.addresses) \ Exports!SharedElsewhere(p)
  <2>1. p \in Client /\ x4.addresses \subseteq x3 /\ retired \subseteq Address /\ failed \subseteq retired
        /\ x3' = x3 \ (retired \ failed) /\ UNCHANGED <<x1, x6>> /\ x4' = Exports!NoGranting
        /\ x4.addresses \subseteq Address
    BY <1>8, <1>a DEF Exports!Retire, Exports!ExportTypes
  <2>2. PICK g \in [addresses : SUBSET Address, status : {"none", "authorizing", "active", "error"}] :
          x2' = [x2 EXCEPT ![p] = g] /\ (g.status = "active" => g.addresses \subseteq x3')
    <3> DEFINE g == [addresses |-> x4.addresses \cup failed, status |-> IF failed = {} THEN "active" ELSE "error"]
    <3>1. g \in [addresses : SUBSET Address, status : {"none", "authorizing", "active", "error"}]
      BY <2>1
    <3>2. g.status = "active" => g.addresses = x4.addresses
      OBVIOUS
    <3>3. x4.addresses \subseteq x3'
      BY <2>1
    <3>4. x2' = [x2 EXCEPT ![p] = g]
      BY <1>8 DEF Exports!Retire
    <3> HIDE DEF g
    <3> QED
      BY <3>1, <3>2, <3>3, <3>4
  <2>3. x7' \in [{"requests", "changes", "prepare", "export", "unexport", "crashes"} -> Nat] /\ x7'["export"] = 0
    BY <1>8, <1>a, ExportUses DEF Exports!Retire, Exports!ExportTypes
  <2>4. \A q \in Client \ {p} : x2'[q] = x2[q]
    BY <1>a, <2>1, <2>2 DEF Exports!ExportTypes
  <2>5. x2'[p] = g
    BY <1>a, <2>1, <2>2 DEF Exports!ExportTypes
  <2>6. ASSUME x6, NEW q \in Client \ {p}, x2[q].status = "active" PROVE x2[q].addresses \subseteq x3'
    <3>1. (retired \ failed) \cap Exports!SharedElsewhere(p) = {} /\ retired \ failed \in SUBSET Address
      BY <2>1
    <3> HIDE DEF p, retired
    <3> QED
      BY <1>a, <1>b, <2>1, <2>6, <3>1, OthersKeepTheirs
  <2>7. x2' \in [Client -> [addresses : SUBSET Address, status : {"none", "authorizing", "active", "error"}]]
    BY <1>a, <2>1, <2>2 DEF Exports!ExportTypes
  <2>8. x4'.pc = "idle" /\ x4'.addresses = {} /\ x4'.prior = {}
    BY <2>1 DEF Exports!NoGranting
  <2> HIDE DEF p
  <2> QED
    BY <1>a, <2>1, <2>2, <2>3, <2>4, <2>5, <2>6, <2>7, <2>8 DEF Exports!ExportTypes, Exports!ActiveIsExported
<1>9. CASE Exports!ForgetClient
  <2>1. Exports!ExportTypes' /\ UNCHANGED <<x2, x3, x4, x6, x7>>
    BY <1>9, <1>a DEF Exports!ForgetClient, Exports!ExportTypes
  <2> QED
    BY <1>b, <2>1 DEF Exports!ActiveIsExported
\* After a restart every kept record is exported again.
<1>10. CASE Exports!RestoreExports
  <2> DEFINE kept == {p \in Client : x2[p] # Exports!NoGrant /\ Exports!IsPaired(p)}
  <2>1. \A p \in kept : x2[p].addresses \subseteq x3'
    BY <1>10 DEF Exports!RestoreExports
  <2>2. \A p \in Client : /\ x2'[p] \in [addresses : SUBSET Address, status : {"none", "authorizing", "active", "error"}]
                          /\ x2'[p].status = "active" => p \in kept /\ x2'[p].addresses = x2[p].addresses
    <3> SUFFICES ASSUME NEW p \in Client
                 PROVE  /\ x2'[p] \in [addresses : SUBSET Address, status : {"none", "authorizing", "active", "error"}]
                        /\ x2'[p].status = "active" => p \in kept /\ x2'[p].addresses = x2[p].addresses
      OBVIOUS
    <3>1. CASE p \in kept
      <4>1. x2'[p] = [x2[p] EXCEPT !.status = "active"]
        BY <1>10, <3>1 DEF Exports!RestoreExports
      <4> QED
        BY <1>a, <3>1, <4>1 DEF Exports!ExportTypes
    <3>2. CASE p \notin kept
      <4>1. x2'[p] = Exports!NoGrant
        BY <1>10, <3>2 DEF Exports!RestoreExports
      <4> QED
        BY <4>1 DEF Exports!NoGrant
    <3> QED
      BY <3>1, <3>2
  <2>3. UNCHANGED <<x1, x4, x7>> /\ x4.pc # "exported" /\ DOMAIN x2' = Client /\ x2' = [p \in Client |-> x2'[p]]
    BY <1>10 DEF Exports!RestoreExports, Exports!LockFree
  <2> HIDE DEF kept
  <2>4. x2' \in [Client -> [addresses : SUBSET Address, status : {"none", "authorizing", "active", "error"}]]
    BY <2>2, <2>3
  <2> QED
    BY <1>a, <2>1, <2>2, <2>3, <2>4 DEF Exports!ExportTypes, Exports!ActiveIsExported
<1>11. ASSUME NEW machine \in BOOLEAN, Exports!RestartExports(machine) PROVE Exports!ExportInv'
  <2>1. Exports!ExportTypes' /\ x7'["export"] = 0 /\ ~x6' /\ x4'.pc = "idle"
    BY <1>11, <1>a, ExportUses DEF Exports!RestartExports, Exports!ExportTypes, Exports!NoGranting
  <2> QED
    BY <2>1 DEF Exports!ActiveIsExported
<1>12. CASE UNCHANGED Exports!exportVars
  BY <1>12 DEF Exports!exportVars, Exports!ExportTypes, Exports!ActiveIsExported
<1> QED
  BY <1>1, <1>2, <1>3, <1>4, <1>5, <1>6, <1>7, <1>8, <1>9, <1>10, <1>11, <1>12 DEF Exports!ExportNext

-----------------------------------------------------------------------------
(* References to the libraries of peers.                                   *)

LEMMA ShareSteps == [Next]_vars /\ focus = "shares" => [Shares!ShareNext]_Shares!shareVars
  BY DEF Next, vars, Shares!shareVars

LEMMA ShareStarts == Init /\ focus = "shares" => Shares!ShareInit
  BY DEF Init

LEMMA SharesBegin == Shares!ShareInit => Shares!ShareInv
<1> SUFFICES ASSUME Shares!ShareInit PROVE Shares!ShareInv
  OBVIOUS
<1>1. x1 \in [Source -> Shares!ShareRecord]
  BY DEF Shares!ShareInit, Shares!NoShare, Shares!ShareRecord, Shares!ShareStatus
<1>2. x2 \in [Source -> Shares!Section] /\ \A p \in Source : x2[p].pc = "free"
  BY DEF Shares!ShareInit, Shares!Free, Shares!Section, Shares!SectionStep
<1> QED
  BY <1>1, <1>2 DEF Shares!ShareInit, Shares!ShareInv, Shares!ShareTypes, Shares!Recorded

\* The invariant after a step of whoever holds one peer's lock.
LEMMA ShareStep ==
  ASSUME Shares!ShareInv, NEW p \in Source,
         x1' \in [Source -> Shares!ShareRecord], x2' \in [Source -> Shares!Section],
         x6' \in {"user", "on"},
         \A q \in Source \ {p} : x1'[q] = x1[q] /\ x2'[q] = x2[q],
         x3' \subseteq x3 \cup {p}, x4' \subseteq x4 \cup {p}, x5' \in {x5, NoSource, p},
         p \in x3' \cup x4' \/ x5' = p => x1'[p] # Shares!NoShare,
         Shares!Recorded(p)'
  PROVE  Shares!ShareInv'
<1>1. ASSUME NEW q \in Source \ {p} PROVE Shares!Recorded(q)'
  <2>1. Shares!Recorded(q) /\ x1'[q] = x1[q] /\ x2'[q] = x2[q]
    BY <1>1 DEF Shares!ShareInv
  <2>2. (q \in x3' => q \in x3) /\ (q \in x4' => q \in x4) /\ (x5' = q => x5 = q)
    BY <1>1, SourceAssumption
  <2> QED
    BY <2>1, <2>2 DEF Shares!Recorded
<1>2. \A q \in Source : Shares!Recorded(q)'
  BY <1>1
<1>3. \A q \in (x3 \cup x4) \ {p} : q \in Source /\ x1'[q] # Shares!NoShare
  BY DEF Shares!ShareInv
<1>4. x3' \cup x4' \subseteq {q \in Source : x1'[q] # Shares!NoShare}
  BY <1>3
<1>5. x5' # NoSource => x5' \in Source /\ x1'[x5'] # Shares!NoShare
  <2>1. CASE x5' = p
    BY <2>1
  <2>2. CASE x5' = x5 /\ x5 # p /\ x5 # NoSource
    <3>1. x5 \in Source \ {p} /\ x1[x5] # Shares!NoShare
      BY <2>2 DEF Shares!ShareInv
    <3> QED
      BY <2>2, <3>1
  <2> QED
    BY <2>1, <2>2
<1>6. Shares!ShareTypes'
  BY DEF Shares!ShareTypes
<1> QED
  BY <1>2, <1>4, <1>5, <1>6 DEF Shares!ShareInv

\* How the record of a peer and the holder of its lock may change.
LEMMA ShareFacts ==
  ASSUME Shares!ShareInv, NEW p \in Source
  PROVE  /\ x1 \in [Source -> Shares!ShareRecord] /\ x2 \in [Source -> Shares!Section]
         /\ x1[p] \in Shares!ShareRecord /\ x2[p] \in Shares!Section /\ x6 \in {"user", "on"}
         /\ p \in x3 \cup x4 => x1[p] # Shares!NoShare
         /\ x5 = p /\ p # NoSource => x1[p] # Shares!NoShare
         /\ Shares!Recorded(p)
  BY DEF Shares!ShareInv, Shares!ShareTypes

LEMMA Upserts ==
  ASSUME NEW p \in Source, x1 \in [Source -> Shares!ShareRecord], NEW r \in Shares!ShareRecord, Shares!Upsert(p, r)
  PROVE  /\ x1' \in [Source -> Shares!ShareRecord] /\ x1'[p] = r
         /\ \A q \in Source \ {p} : x1'[q] = x1[q]
  BY DEF Shares!Upsert

LEMMA Leaves ==
  ASSUME NEW p \in Source, x2 \in [Source -> Shares!Section], Shares!Leave(p)
  PROVE  /\ x2' \in [Source -> Shares!Section] /\ x2'[p].pc = "free"
         /\ \A q \in Source \ {p} : x2'[q] = x2[q]
<1>1. Shares!Free \in Shares!Section /\ Shares!Free.pc = "free"
  BY DEF Shares!Free, Shares!Section, Shares!SectionStep
<1> QED
  BY <1>1 DEF Shares!Leave

LEMMA Goes ==
  ASSUME NEW p \in Source, x2 \in [Source -> Shares!Section], NEW pc \in Shares!SectionStep, Shares!To(p, pc)
  PROVE  /\ x2' \in [Source -> Shares!Section] /\ x2'[p].pc = pc
         /\ \A q \in Source \ {p} : x2'[q] = x2[q]
  BY DEF Shares!To, Shares!Section

LEMMA Takes ==
  ASSUME NEW p \in Source, x2 \in [Source -> Shares!Section], NEW by \in {"request", "job", "watchdog", "boot", "bios"}, NEW pc \in Shares!SectionStep,
         Shares!Take(p, by, pc)
  PROVE  /\ x2' \in [Source -> Shares!Section] /\ x2'[p].pc = pc
         /\ \A q \in Source \ {p} : x2'[q] = x2[q]
  BY DEF Shares!Take, Shares!Section

\* A record that says something is one.
LEMMA Says ==
  ASSUME NEW r \in Shares!ShareRecord, r.status # "none" \/ r.enabled \/ r.linked
  PROVE  r # Shares!NoShare
  BY DEF Shares!NoShare

LEMMA RecordFits ==
  ASSUME NEW p \in Source, x1[p] \in Shares!ShareRecord PROVE Shares!Record(p) \in Shares!ShareRecord
  BY DEF Shares!Record, Shares!NewShare, Shares!NoShare, Shares!ShareRecord, Shares!ShareStatus

\* What a request, a job, the watchdog or the replay makes of a record.
LEMMA StatusSays ==
  ASSUME NEW r \in Shares!ShareRecord, NEW s \in Shares!ShareStatus \ {"none"}
  PROVE  [r EXCEPT !.status = s] \in Shares!ShareRecord /\ [r EXCEPT !.status = s] # Shares!NoShare
<1>1. [r EXCEPT !.status = s] \in Shares!ShareRecord /\ [r EXCEPT !.status = s].status = s
  BY DEF Shares!ShareRecord
<1> QED
  BY <1>1, Says

LEMMA WishSays ==
  ASSUME NEW r \in Shares!ShareRecord, NEW e \in BOOLEAN, NEW s \in Shares!ShareStatus \ {"none"}
  PROVE  /\ [r EXCEPT !.enabled = e, !.status = s] \in Shares!ShareRecord
         /\ [r EXCEPT !.enabled = e, !.status = s] # Shares!NoShare
<1>1. /\ [r EXCEPT !.enabled = e, !.status = s] \in Shares!ShareRecord
      /\ [r EXCEPT !.enabled = e, !.status = s].status = s
  BY DEF Shares!ShareRecord
<1> QED
  BY <1>1, Says

LEMMA FailureSays ==
  ASSUME NEW r \in Shares!ShareRecord, NEW s \in Shares!ShareStatus \ {"none"}, NEW l \in BOOLEAN
  PROVE  /\ [r EXCEPT !.status = s, !.linked = l] \in Shares!ShareRecord
         /\ [r EXCEPT !.status = s, !.linked = l] # Shares!NoShare
<1>1. /\ [r EXCEPT !.status = s, !.linked = l] \in Shares!ShareRecord
      /\ [r EXCEPT !.status = s, !.linked = l].status = s
  BY DEF Shares!ShareRecord
<1> QED
  BY <1>1, Says

LEMMA MountSays ==
  ASSUME NEW r \in Shares!ShareRecord, NEW v \in {"user", "on"}
  PROVE  /\ [r EXCEPT !.status = "mounted", !.previous = v] \in Shares!ShareRecord
         /\ [r EXCEPT !.status = "mounted", !.previous = v] # Shares!NoShare
<1>1. /\ [r EXCEPT !.status = "mounted", !.previous = v] \in Shares!ShareRecord
      /\ [r EXCEPT !.status = "mounted", !.previous = v].status = "mounted"
  BY DEF Shares!ShareRecord, Shares!ShareStatus
<1> QED
  BY <1>1, Says

LEMMA LinkSays ==
  ASSUME NEW r \in Shares!ShareRecord, NEW l \in BOOLEAN
  PROVE  [r EXCEPT !.linked = l] \in Shares!ShareRecord /\ (l => [r EXCEPT !.linked = l] # Shares!NoShare)
<1>1. [r EXCEPT !.linked = l] \in Shares!ShareRecord /\ [r EXCEPT !.linked = l].linked = l
  BY DEF Shares!ShareRecord
<1> QED
  BY <1>1, Says

\* Restoring takes the setting back to a value that it had.
LEMMA SettingComesBack ==
  ASSUME NEW p \in Source, Shares!ShareInv, x6' = IF x1[p].previous = "unknown" THEN x6 ELSE x1[p].previous
  PROVE  x6' \in {"user", "on"}
  BY ShareFacts DEF Shares!ShareRecord

LEMMA SharesStep ==
  ASSUME Shares!ShareInv, [Shares!ShareNext]_Shares!shareVars
  PROVE  Shares!ShareInv'
<1> USE DEF Shares!effects, Shares!threads
<1>r. Shares!NoShare \in Shares!ShareRecord
  BY DEF Shares!NoShare, Shares!ShareRecord, Shares!ShareStatus
<1>x. \A p \in Source : Shares!Restore(p) => /\ x3' \subseteq x3 /\ x4' \subseteq x4 /\ p \notin x3' \cup x4' /\ x5' = NoSource
                                           /\ x6' = IF x1[p].previous = "unknown" THEN x6 ELSE x1[p].previous
  BY DEF Shares!Restore, Shares!OwnedLinksRemoved
<1>1. ASSUME NEW p \in Source, Shares!RequestEnable(p) PROVE Shares!ShareInv'
  <2>1. UNCHANGED <<x1, x3, x4, x5, x6>> /\ Shares!Take(p, "request", "accept")
    BY <1>1 DEF Shares!RequestEnable
  <2>2. x2' \in [Source -> Shares!Section] /\ x2'[p].pc = "accept" /\ \A q \in Source \ {p} : x2'[q] = x2[q]
    BY <2>1, ShareFacts, Takes DEF Shares!SectionStep
  <2> QED
    BY <2>1, <2>2, ShareFacts, ShareStep, SourceAssumption DEF Shares!Recorded
<1>2. ASSUME NEW p \in Source, Shares!AcceptEnable(p) PROVE Shares!ShareInv'
  <2> DEFINE r == [Shares!Record(p) EXCEPT !.enabled = TRUE, !.status = "enabling"]
  <2>1. UNCHANGED <<x3, x4, x5, x6>> /\ Shares!Leave(p) /\ Shares!Upsert(p, r)
    BY <1>2 DEF Shares!AcceptEnable
  <2>2. r \in Shares!ShareRecord /\ r # Shares!NoShare
    BY ShareFacts, RecordFits, WishSays DEF Shares!ShareStatus
  <2> HIDE DEF r
  <2>3. x1' \in [Source -> Shares!ShareRecord] /\ x1'[p] = r /\ \A q \in Source \ {p} : x1'[q] = x1[q]
    BY <2>1, <2>2, ShareFacts, Upserts
  <2> QED
    BY <2>1, <2>2, <2>3, ShareFacts, ShareStep, Leaves DEF Shares!Recorded
<1>3. ASSUME NEW p \in Source, Shares!RequestDisable(p) PROVE Shares!ShareInv'
  <2> DEFINE r == [x1[p] EXCEPT !.enabled = FALSE, !.status = "detaching"]
  <2>1. UNCHANGED <<x2, x3, x4, x5, x6>> /\ x2[p].pc = "free" /\ Shares!Upsert(p, r)
    BY <1>3 DEF Shares!RequestDisable, Shares!Unlocked, Shares!Free
  <2>2. r \in Shares!ShareRecord /\ r # Shares!NoShare
    BY ShareFacts, StatusSays, WishSays DEF Shares!ShareStatus
  <2> HIDE DEF r
  <2>3. x1' \in [Source -> Shares!ShareRecord] /\ x1'[p] = r /\ \A q \in Source \ {p} : x1'[q] = x1[q]
    BY <2>1, <2>2, ShareFacts, Upserts
  <2> QED
    BY <2>1, <2>2, <2>3, ShareFacts, ShareStep DEF Shares!Recorded
<1>4. ASSUME NEW p \in Source, Shares!EnableJob(p) PROVE Shares!ShareInv'
  <2>1. UNCHANGED <<x1, x3, x4, x5, x6>> /\ Shares!Take(p, "job", "enter")
    BY <1>4 DEF Shares!EnableJob
  <2>2. x2' \in [Source -> Shares!Section] /\ x2'[p].pc = "enter" /\ \A q \in Source \ {p} : x2'[q] = x2[q]
    BY <2>1, ShareFacts, Takes DEF Shares!SectionStep
  <2> QED
    BY <2>1, <2>2, ShareFacts, ShareStep, SourceAssumption DEF Shares!Recorded
<1>5. ASSUME NEW p \in Source, Shares!EnterRefused(p) PROVE Shares!ShareInv'
  <2>1. UNCHANGED <<x3, x4, x5, x6>> /\ Shares!Leave(p)
    BY <1>5 DEF Shares!EnterRefused, Shares!Returned
  <2>2. PICK r \in Shares!ShareRecord : (x1[p] # Shares!NoShare => r # Shares!NoShare) /\ ((x1' = x1 /\ r = x1[p]) \/ Shares!Upsert(p, r))
    <3>1. CASE x1' = x1
      BY <3>1, ShareFacts
    <3>2. ASSUME NEW s \in {"error", "peer_unreachable"}, x1' = [x1 EXCEPT ![p].status = s]
          PROVE  \E r \in Shares!ShareRecord : (x1[p] # Shares!NoShare => r # Shares!NoShare) /\ ((x1' = x1 /\ r = x1[p]) \/ Shares!Upsert(p, r))
      <4>1. [x1[p] EXCEPT !.status = s] \in Shares!ShareRecord /\ [x1[p] EXCEPT !.status = s] # Shares!NoShare
        BY ShareFacts, StatusSays, WishSays DEF Shares!ShareStatus
      <4>2. Shares!Upsert(p, [x1[p] EXCEPT !.status = s])
        BY <3>2 DEF Shares!Upsert
      <4> QED
        BY <4>1, <4>2
    <3> QED
      BY <1>5, <3>1, <3>2 DEF Shares!EnterRefused
  <2>3. x1' \in [Source -> Shares!ShareRecord] /\ x1'[p] = r /\ \A q \in Source \ {p} : x1'[q] = x1[q]
    BY <2>2, ShareFacts, Upserts
  <2> QED
    BY <2>1, <2>2, <2>3, ShareFacts, ShareStep, SourceAssumption, Leaves DEF Shares!Recorded
<1>6. ASSUME NEW p \in Source, Shares!Enter(p) PROVE Shares!ShareInv'
  <2>1. UNCHANGED <<x1, x3, x4, x5, x6>>
        /\ \/ Shares!To(p, "recover") /\ x1[p].status \in {"pending", "enabling"}
           \/ Shares!To(p, "begin")
    BY <1>6 DEF Shares!Enter
  <2>2. x2' \in [Source -> Shares!Section] /\ (x2'[p].pc = "begin" \/ (x2'[p].pc = "recover" /\ x1[p].status # "none"
                                                                /\ x1[p].status \in {"pending", "enabling"}))
        /\ \A q \in Source \ {p} : x2'[q] = x2[q]
    BY <2>1, ShareFacts, Goes DEF Shares!SectionStep
  <2>3. x1[p].status # "none" => x1[p] # Shares!NoShare
    BY ShareFacts, Says
  <2> QED
    BY <2>1, <2>2, <2>3, ShareFacts, ShareStep, SourceAssumption DEF Shares!Recorded
<1>7. ASSUME NEW p \in Source, Shares!RemoveOverlay(p) PROVE Shares!ShareInv'
  <2>1. UNCHANGED <<x1, x2, x3, x4, x6>> /\ x5' = NoSource /\ x2[p].pc # "detached"
    BY <1>7 DEF Shares!RemoveOverlay
  <2> QED
    BY <2>1, ShareFacts, ShareStep, SourceAssumption DEF Shares!Recorded
<1>8. ASSUME NEW p \in Source, Shares!Recover(p) PROVE Shares!ShareInv'
  <2> DEFINE r == [x1[p] EXCEPT !.linked = FALSE]
  <2>1. Shares!Restore(p) /\ Shares!Upsert(p, r) /\ Shares!To(p, "begin")
    BY <1>8 DEF Shares!Recover
  <2>2. r \in Shares!ShareRecord /\ x6' \in {"user", "on"}
    BY <1>x, <2>1, ShareFacts, LinkSays, SettingComesBack
  <2> HIDE DEF r
  <2>3. x1' \in [Source -> Shares!ShareRecord] /\ x1'[p] = r /\ \A q \in Source \ {p} : x1'[q] = x1[q]
    BY <2>1, <2>2, ShareFacts, Upserts
  <2>4. x2' \in [Source -> Shares!Section] /\ x2'[p].pc = "begin" /\ \A q \in Source \ {p} : x2'[q] = x2[q]
    BY <2>1, ShareFacts, Goes DEF Shares!SectionStep
  <2> QED
    BY <1>x, <2>1, <2>2, <2>3, <2>4, ShareStep, SourceAssumption DEF Shares!Recorded
<1>9. ASSUME NEW p \in Source, Shares!Begin(p) PROVE Shares!ShareInv'
  <2> DEFINE r == [Shares!Record(p) EXCEPT !.enabled = TRUE, !.status = "enabling"]
  <2>1. UNCHANGED <<x3, x4, x5, x6>> /\ Shares!Upsert(p, r) /\ (Shares!To(p, "install") \/ Shares!To(p, "mount"))
    BY <1>9 DEF Shares!Begin
  <2>2. r \in Shares!ShareRecord /\ r # Shares!NoShare
    BY ShareFacts, RecordFits, WishSays DEF Shares!ShareStatus
  <2> HIDE DEF r
  <2>3. x1' \in [Source -> Shares!ShareRecord] /\ x1'[p] = r /\ \A q \in Source \ {p} : x1'[q] = x1[q]
    BY <2>1, <2>2, ShareFacts, Upserts
  <2>4. x2' \in [Source -> Shares!Section] /\ x2'[p].pc \in {"install", "mount"} /\ \A q \in Source \ {p} : x2'[q] = x2[q]
    BY <2>1, ShareFacts, Goes DEF Shares!SectionStep
  <2> QED
    BY <2>1, <2>2, <2>3, <2>4, ShareFacts, ShareStep DEF Shares!Recorded
<1>10. ASSUME NEW p \in Source, Shares!Mount(p) PROVE Shares!ShareInv'
  <2>1. UNCHANGED <<x1, x4, x5, x6>> /\ x3' = x3 \cup {p} /\ Shares!To(p, "install") /\ x1[p] # Shares!NoShare
    BY <1>10, ShareFacts DEF Shares!Mount, Shares!Recorded
  <2>2. x2' \in [Source -> Shares!Section] /\ x2'[p].pc = "install" /\ \A q \in Source \ {p} : x2'[q] = x2[q]
    BY <2>1, ShareFacts, Goes DEF Shares!SectionStep
  <2> QED
    BY <2>1, <2>2, ShareFacts, ShareStep DEF Shares!Recorded
<1>11. ASSUME NEW p \in Source, Shares!FailEnable(p) PROVE Shares!ShareInv'
  <2>1. PICK s \in {"peer_unreachable", "error"} : Shares!Upsert(p, [x1[p] EXCEPT !.status = s, !.linked = FALSE])
    BY <1>11 DEF Shares!FailEnable
  <2> DEFINE r == [x1[p] EXCEPT !.status = s, !.linked = FALSE]
  <2>2. Shares!Restore(p) /\ Shares!Upsert(p, r) /\ Shares!Leave(p)
    BY <1>11, <2>1 DEF Shares!FailEnable, Shares!Returned
  <2>3. r \in Shares!ShareRecord /\ r # Shares!NoShare /\ x6' \in {"user", "on"}
    BY <1>x, <2>2, ShareFacts, FailureSays, SettingComesBack DEF Shares!ShareStatus
  <2> HIDE DEF r
  <2>4. x1' \in [Source -> Shares!ShareRecord] /\ x1'[p] = r /\ \A q \in Source \ {p} : x1'[q] = x1[q]
    BY <2>2, <2>3, ShareFacts, Upserts
  <2>5. x2' \in [Source -> Shares!Section] /\ x2'[p].pc = "free" /\ \A q \in Source \ {p} : x2'[q] = x2[q]
    BY <2>2, ShareFacts, Leaves
  <2> QED
    BY <1>x, <2>2, <2>3, <2>4, <2>5, ShareStep, SourceAssumption DEF Shares!Recorded
<1>12. ASSUME NEW p \in Source, Shares!InstallOverlay(p) PROVE Shares!ShareInv'
  <2>1. UNCHANGED <<x1, x3, x4, x6>> /\ x5' = p /\ Shares!To(p, "setting") /\ x1[p] # Shares!NoShare
    BY <1>12, ShareFacts DEF Shares!InstallOverlay, Shares!Recorded
  <2>2. x2' \in [Source -> Shares!Section] /\ x2'[p].pc = "setting" /\ \A q \in Source \ {p} : x2'[q] = x2[q]
    BY <2>1, ShareFacts, Goes DEF Shares!SectionStep
  <2> QED
    BY <2>1, <2>2, ShareFacts, ShareStep DEF Shares!Recorded
<1>13. ASSUME NEW p \in Source, Shares!InstallSetting(p) PROVE Shares!ShareInv'
  <2>1. UNCHANGED <<x1, x3, x4, x5>> /\ x6' = "on" /\ x1[p] # Shares!NoShare
    BY <1>13, ShareFacts DEF Shares!InstallSetting, Shares!Recorded
  <2>2. PICK v \in {"user", "on"} : x2' = [x2 EXCEPT ![p].pc = v]
    BY <1>13, ShareFacts DEF Shares!InstallSetting, Shares!ShareRecord
  <2>3. x2' \in [Source -> Shares!Section] /\ x2'[p].pc = v /\ \A q \in Source \ {p} : x2'[q] = x2[q]
    BY <2>2, ShareFacts, Goes DEF Shares!SectionStep, Shares!To
  <2> QED
    BY <2>1, <2>3, ShareFacts, ShareStep DEF Shares!Recorded
<1>14. ASSUME NEW p \in Source, Shares!FinishEnable(p) PROVE Shares!ShareInv'
  <2> DEFINE r == [x1[p] EXCEPT !.status = "mounted", !.previous = x2[p].pc]
  <2>1. UNCHANGED <<x3, x4, x5, x6>> /\ Shares!Upsert(p, r) /\ Shares!Leave(p) /\ x2[p].pc \in {"user", "on"}
    BY <1>14 DEF Shares!FinishEnable, Shares!Returned
  <2>2. r \in Shares!ShareRecord /\ r # Shares!NoShare
    BY <2>1, ShareFacts, MountSays
  <2> HIDE DEF r
  <2>3. x1' \in [Source -> Shares!ShareRecord] /\ x1'[p] = r /\ \A q \in Source \ {p} : x1'[q] = x1[q]
    BY <2>1, <2>2, ShareFacts, Upserts
  <2> QED
    BY <2>1, <2>2, <2>3, ShareFacts, ShareStep, Leaves DEF Shares!Recorded
<1>15. ASSUME NEW p \in Source, Shares!DisableJob(p) PROVE Shares!ShareInv'
  <2> DEFINE r == [x1[p] EXCEPT !.enabled = FALSE, !.status = "detaching"]
  <2>1. UNCHANGED <<x3, x4, x5, x6>> /\ (UNCHANGED <<x1, x2>> \/ (Shares!Upsert(p, r) /\ Shares!Take(p, "job", "detach")))
    BY <1>15 DEF Shares!DisableJob
  <2>2. r \in Shares!ShareRecord /\ r # Shares!NoShare
    BY ShareFacts, StatusSays, WishSays DEF Shares!ShareStatus
  <2> HIDE DEF r
  <2>3. CASE UNCHANGED <<x1, x2>>
    BY <2>1, <2>3, ShareFacts, ShareStep, SourceAssumption DEF Shares!Recorded
  <2>4. CASE Shares!Upsert(p, r) /\ Shares!Take(p, "job", "detach")
    <3>1. x1' \in [Source -> Shares!ShareRecord] /\ x1'[p] = r /\ \A q \in Source \ {p} : x1'[q] = x1[q]
      BY <2>2, <2>4, ShareFacts, Upserts
    <3>2. x2' \in [Source -> Shares!Section] /\ x2'[p].pc = "detach" /\ \A q \in Source \ {p} : x2'[q] = x2[q]
      BY <2>4, ShareFacts, Takes DEF Shares!SectionStep
    <3> QED
      BY <2>1, <2>2, <3>1, <3>2, ShareFacts, ShareStep DEF Shares!Recorded
  <2> QED
    BY <2>1, <2>3, <2>4
\* What is taken back is the peer's own; only then is its record forgotten.
<1>16. ASSUME NEW p \in Source, Shares!Detach(p) PROVE Shares!ShareInv'
  <2>1. UNCHANGED x1 /\ Shares!Restore(p) /\ Shares!To(p, "detached") /\ x1[p] # Shares!NoShare /\ x6' \in {"user", "on"}
    BY <1>16, <1>x, ShareFacts DEF Shares!Detach, Shares!Recorded, Shares!ShareRecord
  <2>2. x2' \in [Source -> Shares!Section] /\ x2'[p].pc = "detached" /\ \A q \in Source \ {p} : x2'[q] = x2[q]
    BY <2>1, ShareFacts, Goes DEF Shares!SectionStep
  <2> QED
    BY <1>x, <2>1, <2>2, ShareFacts, ShareStep, SourceAssumption DEF Shares!Recorded
<1>17. ASSUME NEW p \in Source, Shares!FailDetach(p) PROVE Shares!ShareInv'
  <2> DEFINE r == [x1[p] EXCEPT !.status = "error"]
  <2>1. UNCHANGED <<x4, x5, x6>> /\ x3' = x3 \ {p} /\ Shares!Upsert(p, r) /\ Shares!Leave(p)
    BY <1>17 DEF Shares!FailDetach
  <2>2. r \in Shares!ShareRecord /\ r # Shares!NoShare
    BY ShareFacts, StatusSays, WishSays DEF Shares!ShareStatus
  <2> HIDE DEF r
  <2>3. x1' \in [Source -> Shares!ShareRecord] /\ x1'[p] = r /\ \A q \in Source \ {p} : x1'[q] = x1[q]
    BY <2>1, <2>2, ShareFacts, Upserts
  <2> QED
    BY <2>1, <2>2, <2>3, ShareFacts, ShareStep, Leaves DEF Shares!Recorded
<1>18. ASSUME NEW p \in Source, Shares!Forget(p) PROVE Shares!ShareInv'
  <2>1. UNCHANGED <<x3, x4, x5, x6>> /\ Shares!Upsert(p, Shares!NoShare) /\ Shares!Leave(p) /\ p \notin x3 \cup x4 /\ x5 # p
    BY <1>18, ShareFacts DEF Shares!Forget, Shares!Recorded, Shares!Upsert
  <2>2. x1' \in [Source -> Shares!ShareRecord] /\ \A q \in Source \ {p} : x1'[q] = x1[q]
    BY <1>r, <2>1, ShareFacts, Upserts
  <2> QED
    BY <2>1, <2>2, ShareFacts, ShareStep, Leaves DEF Shares!Recorded
<1>19. ASSUME NEW p \in Source, Shares!BiosBegins(p) \/ Shares!BiosUnavailable(p) \/ \E alive \in BOOLEAN : Shares!Probe(p, alive)
       PROVE  Shares!ShareInv'
  <2>1. UNCHANGED <<x1, x2, x3, x4, x5, x6>>
    BY <1>19 DEF Shares!BiosBegins, Shares!BiosUnavailable, Shares!Probe
  <2> QED
    BY <2>1, ShareFacts, ShareStep, SourceAssumption DEF Shares!Recorded
<1>20. ASSUME NEW p \in Source, Shares!BiosLinks(p) PROVE Shares!ShareInv'
  <2>1. UNCHANGED <<x1, x3, x5, x6>>
        /\ (UNCHANGED <<x2, x4>> \/ (x4' = x4 \cup {p} /\ Shares!Take(p, "bios", "links") /\ x1[p] # Shares!NoShare))
    BY <1>20 DEF Shares!BiosLinks, Shares!StillReferenced, Shares!Wanted
  <2>2. CASE UNCHANGED <<x2, x4>>
    BY <2>1, <2>2, ShareFacts, ShareStep, SourceAssumption DEF Shares!Recorded
  <2>3. CASE x4' = x4 \cup {p} /\ Shares!Take(p, "bios", "links") /\ x1[p] # Shares!NoShare
    <3>1. x2' \in [Source -> Shares!Section] /\ x2'[p].pc = "links" /\ \A q \in Source \ {p} : x2'[q] = x2[q]
      BY <2>3, ShareFacts, Takes DEF Shares!SectionStep
    <3> QED
      BY <2>1, <2>3, <3>1, ShareFacts, ShareStep DEF Shares!Recorded
  <2> QED
    BY <2>1, <2>2, <2>3
<1>21. ASSUME NEW p \in Source, Shares!BiosRecorded(p) PROVE Shares!ShareInv'
  <2> DEFINE r == [x1[p] EXCEPT !.linked = TRUE]
  <2>1. UNCHANGED <<x3, x4, x5, x6>> /\ Shares!Upsert(p, r) /\ Shares!Leave(p)
    BY <1>21 DEF Shares!BiosRecorded
  <2>2. r \in Shares!ShareRecord /\ r # Shares!NoShare
    BY ShareFacts, LinkSays
  <2> HIDE DEF r
  <2>3. x1' \in [Source -> Shares!ShareRecord] /\ x1'[p] = r /\ \A q \in Source \ {p} : x1'[q] = x1[q]
    BY <2>1, <2>2, ShareFacts, Upserts
  <2> QED
    BY <2>1, <2>2, <2>3, ShareFacts, ShareStep, Leaves DEF Shares!Recorded
<1>22. ASSUME NEW p \in Source, Shares!ActOnProbe(p) PROVE Shares!ShareInv'
  <2> DEFINE r == [x1[p] EXCEPT !.status = "mounted"]
  <2>1. /\ UNCHANGED <<x4, x5, x6>> /\ x2[p].pc = "free"
        /\ \/ UNCHANGED <<x1, x2, x3>>
           \/ UNCHANGED <<x2, x3>> /\ Shares!Upsert(p, r)
           \/ UNCHANGED x1 /\ x3' = x3 \ {p} /\ Shares!Take(p, "watchdog", "enter")
    BY <1>22 DEF Shares!ActOnProbe, Shares!Unlocked, Shares!Free
  <2>2. r \in Shares!ShareRecord /\ r # Shares!NoShare
    BY ShareFacts, StatusSays, WishSays DEF Shares!ShareStatus
  <2> HIDE DEF r
  <2>3. CASE UNCHANGED <<x1, x2, x3>>
    BY <2>1, <2>3, ShareFacts, ShareStep, SourceAssumption DEF Shares!Recorded
  <2>4. CASE UNCHANGED <<x2, x3>> /\ Shares!Upsert(p, r)
    <3>1. x1' \in [Source -> Shares!ShareRecord] /\ x1'[p] = r /\ \A q \in Source \ {p} : x1'[q] = x1[q]
      BY <2>2, <2>4, ShareFacts, Upserts
    <3> QED
      BY <2>1, <2>2, <2>4, <3>1, ShareFacts, ShareStep DEF Shares!Recorded
  <2>5. CASE UNCHANGED x1 /\ x3' = x3 \ {p} /\ Shares!Take(p, "watchdog", "enter")
    <3>1. x2' \in [Source -> Shares!Section] /\ x2'[p].pc = "enter" /\ \A q \in Source \ {p} : x2'[q] = x2[q]
      BY <2>5, ShareFacts, Takes DEF Shares!SectionStep
    <3> QED
      BY <2>1, <2>5, <3>1, ShareFacts, ShareStep, SourceAssumption DEF Shares!Recorded
  <2> QED
    BY <2>1, <2>3, <2>4, <2>5
<1>23. ASSUME NEW p \in Source, Shares!Replay(p) PROVE Shares!ShareInv'
  <2> DEFINE r == [x1[p] EXCEPT !.enabled = FALSE, !.status = "detaching"]
  <2>1. /\ UNCHANGED <<x3, x4, x5, x6>>
        /\ \/ UNCHANGED <<x1, x2>>
           \/ UNCHANGED x1 /\ Shares!Take(p, "boot", "enter")
           \/ Shares!Upsert(p, r) /\ Shares!Take(p, "boot", "detach")
    BY <1>23 DEF Shares!Replay
  <2>2. r \in Shares!ShareRecord /\ r # Shares!NoShare
    BY ShareFacts, StatusSays, WishSays DEF Shares!ShareStatus
  <2> HIDE DEF r
  <2>3. CASE UNCHANGED <<x1, x2>>
    BY <2>1, <2>3, ShareFacts, ShareStep, SourceAssumption DEF Shares!Recorded
  <2>4. CASE UNCHANGED x1 /\ Shares!Take(p, "boot", "enter")
    <3>1. x2' \in [Source -> Shares!Section] /\ x2'[p].pc = "enter" /\ \A q \in Source \ {p} : x2'[q] = x2[q]
      BY <2>4, ShareFacts, Takes DEF Shares!SectionStep
    <3> QED
      BY <2>1, <2>4, <3>1, ShareFacts, ShareStep, SourceAssumption DEF Shares!Recorded
  <2>5. CASE Shares!Upsert(p, r) /\ Shares!Take(p, "boot", "detach")
    <3>1. x1' \in [Source -> Shares!ShareRecord] /\ x1'[p] = r /\ \A q \in Source \ {p} : x1'[q] = x1[q]
      BY <2>2, <2>5, ShareFacts, Upserts
    <3>2. x2' \in [Source -> Shares!Section] /\ x2'[p].pc = "detach" /\ \A q \in Source \ {p} : x2'[q] = x2[q]
      BY <2>5, ShareFacts, Takes DEF Shares!SectionStep
    <3> QED
      BY <2>1, <2>2, <3>1, <3>2, ShareFacts, ShareStep DEF Shares!Recorded
  <2> QED
    BY <2>1, <2>3, <2>4, <2>5
<1>24. ASSUME NEW machine \in BOOLEAN, Shares!Restart(machine) PROVE Shares!ShareInv'
  <2>1. UNCHANGED <<x1, x4, x5, x6>> /\ x3' \subseteq x3 /\ x2' = [p \in Source |-> Shares!Free]
    BY <1>24 DEF Shares!Restart
  <2>2. Shares!Free \in Shares!Section /\ Shares!Free.pc = "free"
    BY DEF Shares!Free, Shares!Section, Shares!SectionStep
  <2>3. x2' \in [Source -> Shares!Section] /\ \A p \in Source : x2'[p].pc = "free"
    BY <2>1, <2>2
  <2> QED
    BY <2>1, <2>3 DEF Shares!ShareInv, Shares!ShareTypes, Shares!Recorded
<1>25. CASE UNCHANGED Shares!shareVars
  BY <1>25 DEF Shares!shareVars, Shares!ShareInv, Shares!ShareTypes, Shares!Recorded
<1> QED
  BY <1>1, <1>2, <1>3, <1>4, <1>5, <1>6, <1>7, <1>8, <1>9, <1>10, <1>11, <1>12, <1>13, <1>14, <1>15, <1>16, <1>17,
     <1>18, <1>19, <1>20, <1>21, <1>22, <1>23, <1>24, <1>25 DEF Shares!ShareNext

\* What a reference set up belongs to a record of its peer, wherever a crash
\* cuts an enabling or a disabling off; and as long as the kernel takes every
\* export, the addresses of an active authorization are in its table, whichever
\* peers share them, for any peers, addresses, requests, faults and restarts.
THEOREM SharesStayOwned ==
  ASSUME \A b \in ExportBounds : b.export = 0
  PROVE  Spec => []SharesAreOwned
<1> DEFINE Inv == (focus = "exports" => Exports!ExportInv) /\ (focus = "shares" => Shares!ShareInv)
<1>1. Init => Inv
  BY ExportStarts, ExportsBegin, ShareStarts, SharesBegin
<1>2. Inv /\ [Next]_vars => Inv'
  BY FocusStays, ExportSteps, ExportsStep, ShareSteps, SharesStep
<1>3. Inv => SharesAreOwned
  BY DEF SharesAreOwned, Exports!ExportInv, Shares!ShareInv, Shares!NothingIsLeftBehind
<1> QED
  BY <1>1, <1>2, <1>3, PTL DEF Spec

-----------------------------------------------------------------------------
(* The password and its sessions.                                          *)

LEMMA AccessSteps == [Next]_vars /\ focus = "access" => [Access!AccessNext]_Access!accessVars
  BY DEF Next, vars, Access!accessVars

LEMMA AccessStarts == Init /\ focus = "access" => Access!AccessInit
  BY DEF Init

LEMMA AccessUses ==
  ASSUME Access!AccessTypes, NEW what \in {"passwords", "faults", "crashes", "deletions", "clones"}, Access!Use(what)
  PROVE  /\ x10' \in [{"passwords", "faults", "crashes", "deletions", "clones", "late"} -> Nat]
         /\ x10'["late"] = x10["late"]
  BY DEF Access!AccessTypes, Access!Use

LEMMA AccessBegins ==
  Access!AccessInit /\ (\A b \in AccessBounds : b.late = 0) => Access!AccessInv
<1> SUFFICES ASSUME Access!AccessInit, \A b \in AccessBounds : b.late = 0 PROVE Access!AccessInv
  OBVIOUS
<1>1. Access!AccessTypes /\ x10["late"] = 0
  BY AccessAssumption DEF Access!AccessInit, Access!AccessTypes, Access!NoSession, Access!NoChange, Access!NoLogin
<1>2. x7.pc = "idle" /\ x7.done = 0
  BY DEF Access!AccessInit, Access!NoChange
<1> QED
  BY <1>1, <1>2 DEF Access!AccessInit, Access!AccessInv, Access!NoSession, Access!NoLogin, Access!ChosenStays

\* What an idle change, an empty login and a session that is over say.
LEMMA Nothing ==
  /\ Access!NoLogin \in [checked : BOOLEAN, at : Nat] /\ ~Access!NoLogin.checked
  /\ Access!NoSession \in [live : BOOLEAN, at : Nat] /\ ~Access!NoSession.live
  BY DEF Access!NoLogin, Access!NoSession

LEMMA ChangeIsOver ==
  ASSUME NEW d \in Nat
  PROVE  /\ Access!NoChange(d).pc = "idle" /\ Access!NoChange(d).done = d /\ Access!NoChange(d).to \in Nat
         /\ Access!NoChange(d) = [pc |-> Access!NoChange(d).pc, by |-> Access!NoChange(d).by,
                                  to |-> Access!NoChange(d).to, done |-> Access!NoChange(d).done]
  BY DEF Access!NoChange

LEMMA ChangeGoesOn ==
  ASSUME Access!AccessTypes, NEW pc \in {"unlink", "revoke"}, x7.pc # "idle", x7' = [x7 EXCEPT !.pc = pc]
  PROVE  /\ x7'.pc = pc /\ x7'.by = x7.by /\ x7'.to = x7.to /\ x7'.done = x7.done
         /\ x7' = [pc |-> x7'.pc, by |-> x7'.by, to |-> x7'.to, done |-> x7'.done]
  BY DEF Access!AccessTypes

\* The invariant of the sessions, as long as neither the credentials nor the
\* change move.
LEMMA SameChange ==
  ASSUME Access!AccessInv, Access!AccessTypes', x10'["late"] = 0, UNCHANGED <<x1, x7, x8>>,
         x4' = x4,
         \A c \in Login : x5'[c] = x5[c] \/ ~x5'[c].checked \/ (x7.pc # "save" /\ x5'[c].at = x1.choice),
         \A s \in Token : x6'[s] = x6[s] \/ ~x6'[s].live \/ Access!InTime(x6'[s].at)
  PROVE  Access!AccessInv'
<1> USE DEF Access!AccessInv
<1>1. x1.choice \in Nat /\ x7.done \in Nat /\ x7.done <= x1.choice /\ (x7.pc # "idle" => x7.by \in Token)
  BY DEF Access!AccessTypes
<1>2. x7.pc = "save" => \A c \in Login : ~x5'[c].checked
  OBVIOUS
<1>3. \A c \in Login : x5'[c].checked => Access!InTime(x5'[c].at)
  BY <1>1 DEF Access!InTime
<1>4. \A s \in Token : x6'[s].live => x6'[s].at >= x7.done
  BY DEF Access!InTime
<1>5. x7.pc \in {"unlink", "revoke"} /\ x6'[x7.by].live => x6'[x7.by].at = x1.choice
  BY <1>1 DEF Access!InTime
<1>6. \A at : Access!InTime(at) <=> Access!InTime(at)'
  BY DEF Access!InTime
<1> QED
  BY <1>1, <1>2, <1>3, <1>4, <1>5, <1>6 DEF Access!ChosenStays, Access!Up, Access!InTime

LEMMA AccessStep ==
  ASSUME Access!AccessInv, [Access!AccessNext]_Access!accessVars
  PROVE  Access!AccessInv'
<1> USE DEF Access!AccessInv
<1>a. Access!AccessTypes /\ x10["late"] = 0
  OBVIOUS
<1>b. /\ x1.choice \in Nat /\ x7.done \in Nat /\ x7.done <= x1.choice
      /\ x5 \in [Login -> [checked : BOOLEAN, at : Nat]] /\ x6 \in [Token -> [live : BOOLEAN, at : Nat]]
  BY <1>a DEF Access!AccessTypes
\* Before a password was chosen, a start may draw one.
<1>1. ASSUME Access!Start \/ Access!WriteFile \/ Access!SaveHash PROVE Access!AccessInv'
  <2>1. UNCHANGED <<x5, x6, x7, x8, x9>> /\ ~Access!Up
    BY <1>1 DEF Access!Start, Access!WriteFile, Access!SaveHash, Access!requests, Access!Up
  <2>2. x7.pc = "idle"
    BY <2>1
  <2>3. x10' \in [{"passwords", "faults", "crashes", "deletions", "clones", "late"} -> Nat] /\ x10'["late"] = 0
    <3>1. x10' = x10 \/ Access!Use("passwords") \/ Access!Use("faults")
      BY <1>1 DEF Access!Start, Access!WriteFile, Access!SaveHash
    <3> QED
      BY <1>a, <3>1, AccessUses DEF Access!AccessTypes
  <2>4. /\ x1' \in [password : Nat, initial : BOOLEAN, choice : Nat] /\ x1'.choice = x1.choice /\ x3' \in Nat
        /\ x4' \in [pc : {"off", "write", "save", "up"}, draw : Nat]
        /\ x8 # 0 => x1' = x1 /\ x4'.pc = "up"
    <3>1. CASE Access!Start
      BY <1>a, <3>1 DEF Access!Start, Access!AccessTypes, Access!Needed, Access!ChosenStays
    <3>2. CASE Access!WriteFile
      BY <1>a, <3>2 DEF Access!WriteFile, Access!AccessTypes
    <3>3. CASE Access!SaveHash
      BY <1>a, <3>3 DEF Access!SaveHash, Access!AccessTypes
    <3> QED
      BY <1>1, <3>1, <3>2, <3>3
  <2>5. Access!AccessTypes'
    BY <1>a, <2>1, <2>3, <2>4 DEF Access!AccessTypes
  <2> QED
    BY <2>1, <2>2, <2>3, <2>4, <2>5 DEF Access!ChosenStays, Access!InTime
<1>2. CASE Access!DeleteFile
  <2>1. UNCHANGED <<x1, x3, x4, x5, x6, x7, x8, x9>>
    BY <1>2 DEF Access!DeleteFile, Access!requests
  <2>2. Access!AccessTypes' /\ x10'["late"] = 0
    BY <1>2, <1>a, <2>1, AccessUses DEF Access!AccessTypes, Access!DeleteFile
  <2> QED
    BY <2>1, <2>2, SameChange
<1>3. CASE Access!PowerOff
  <2>1. /\ UNCHANGED <<x1, x3, x6, x8, x9>> /\ x4' = [pc |-> "off", draw |-> 0]
        /\ x5' = [c \in Login |-> Access!NoLogin] /\ x7' = Access!NoChange(x7.done)
    BY <1>3 DEF Access!PowerOff
  <2>2. x7'.pc = "idle" /\ x7'.done = x7.done
    BY <1>b, <2>1, ChangeIsOver
  <2>3. Access!AccessTypes' /\ x10'["late"] = 0
    BY <1>3, <1>a, <1>b, <2>1, <2>2, AccessUses, ChangeIsOver, Nothing DEF Access!AccessTypes, Access!PowerOff
  <2> QED
    BY <1>b, <2>1, <2>2, <2>3, Nothing DEF Access!ChosenStays
<1>4. CASE Access!Quarantine
  <2>1. UNCHANGED <<x1, x3, x4, x5, x7, x8>>
    BY <1>4 DEF Access!Quarantine, Access!requests
  <2>2. x6' \in [Token -> [live : BOOLEAN, at : Nat]] /\ \A s \in Token : x6'[s] = x6[s] \/ ~x6'[s].live
    BY <1>4, <1>b, Nothing DEF Access!Quarantine
  <2>3. Access!AccessTypes' /\ x10'["late"] = 0
    BY <1>4, <1>a, <2>1, <2>2, AccessUses DEF Access!AccessTypes, Access!Quarantine
  <2> QED
    BY <2>1, <2>2, <2>3, SameChange
<1>5. ASSUME NEW c \in Login, Access!Check(c) PROVE Access!AccessInv'
  <2>1. UNCHANGED <<x1, x3, x4, x6, x7, x8, x9, x10>> /\ x7.pc # "save"
        /\ x5' = [x5 EXCEPT ![c] = [checked |-> TRUE, at |-> x1.choice]]
    BY <1>5, <1>a DEF Access!Check
  <2>2. /\ x5' \in [Login -> [checked : BOOLEAN, at : Nat]] /\ x5'[c].at = x1.choice
        /\ \A d \in Login \ {c} : x5'[d] = x5[d]
    BY <1>b, <2>1
  <2>3. Access!AccessTypes'
    BY <1>a, <2>1, <2>2 DEF Access!AccessTypes
  <2> QED
    BY <1>a, <2>1, <2>2, <2>3, SameChange
<1>6. ASSUME NEW c \in Login, NEW s \in Token, Access!Create(c, s) PROVE Access!AccessInv'
  <2>1. UNCHANGED <<x1, x3, x4, x7, x8, x9, x10>> /\ x5' = [x5 EXCEPT ![c] = Access!NoLogin]
        /\ x6' = [x6 EXCEPT ![s] = [live |-> TRUE, at |-> x5[c].at]] /\ Access!InTime(x5[c].at)
    BY <1>6 DEF Access!Create
  <2>2. x5' \in [Login -> [checked : BOOLEAN, at : Nat]] /\ \A d \in Login : x5'[d] = x5[d] \/ ~x5'[d].checked
    BY <1>b, <2>1, Nothing
  <2>3. x6' \in [Token -> [live : BOOLEAN, at : Nat]] /\ x6'[s].at = x5[c].at /\ \A t \in Token \ {s} : x6'[t] = x6[t]
    BY <1>b, <2>1
  <2>4. Access!AccessTypes'
    BY <1>a, <2>1, <2>2, <2>3 DEF Access!AccessTypes
  <2> QED
    BY <1>a, <2>1, <2>2, <2>3, <2>4, SameChange
<1>7. ASSUME NEW s \in Token, Access!End(s) PROVE Access!AccessInv'
  <2>1. UNCHANGED <<x1, x3, x4, x5, x7, x8, x9, x10>> /\ x6' = [x6 EXCEPT ![s] = Access!NoSession]
    BY <1>7 DEF Access!End, Access!requests
  <2>2. x6' \in [Token -> [live : BOOLEAN, at : Nat]] /\ \A t \in Token : x6'[t] = x6[t] \/ ~x6'[t].live
    BY <1>b, <2>1, Nothing
  <2>3. Access!AccessTypes'
    BY <1>a, <2>1, <2>2 DEF Access!AccessTypes
  <2> QED
    BY <1>a, <2>1, <2>2, <2>3, SameChange
\* With no login on its way, nothing that was checked before is left.
<1>8. ASSUME NEW s \in Token, Access!Change(s) PROVE Access!AccessInv'
  <2>1. UNCHANGED <<x1, x4, x5, x6, x8, x9>> /\ (\A c \in Login : ~x5[c].checked) /\ Access!Up
        /\ x7' = [pc |-> "save", by |-> s, to |-> x3 + 1, done |-> x7.done]
    BY <1>8, <1>a DEF Access!Change
  <2>2. Access!AccessTypes' /\ x10'["late"] = 0
    BY <1>8, <1>a, <2>1, AccessUses DEF Access!AccessTypes, Access!Change
  <2> QED
    BY <1>b, <2>1, <2>2 DEF Access!ChosenStays, Access!Up
<1>9. CASE Access!SaveChoice
  <2>1. /\ UNCHANGED <<x3, x4, x5, x9, x10>> /\ x7.pc = "save" /\ x7.by \in Token /\ x7.to \in Nat
        /\ x1' = [password |-> x7.to, initial |-> FALSE, choice |-> x1.choice + 1] /\ x8' = x7.to
        /\ x6' = [x6 EXCEPT ![x7.by].at = x1.choice + 1] /\ x7' = [x7 EXCEPT !.pc = "unlink"]
    BY <1>9, <1>a DEF Access!SaveChoice, Access!NewRow, Access!AccessTypes
  <2>2. x7'.pc = "unlink" /\ x7'.by = x7.by /\ x7'.to = x7.to /\ x7'.done = x7.done
        /\ x7' = [pc |-> x7'.pc, by |-> x7'.by, to |-> x7'.to, done |-> x7'.done]
    BY <1>a, <2>1, ChangeGoesOn
  <2>3. /\ x6' \in [Token -> [live : BOOLEAN, at : Nat]] /\ x6'[x7.by].at = x1.choice + 1
        /\ \A s \in Token \ {x7.by} : x6'[s] = x6[s]
    BY <1>b, <2>1
  <2>4. \A s \in Token : x6'[s].live => x6'[s].at >= x7.done
    BY <1>b, <2>3
  <2>5. Access!AccessTypes'
    BY <1>a, <1>b, <2>1, <2>2, <2>3 DEF Access!AccessTypes
  <2> QED
    BY <1>a, <1>b, <2>1, <2>2, <2>3, <2>4, <2>5 DEF Access!ChosenStays, Access!Up
<1>10. CASE Access!UnlinkFile
  <2>1. UNCHANGED <<x1, x3, x4, x5, x6, x8, x9, x10>> /\ x7.pc = "unlink" /\ x7' = [x7 EXCEPT !.pc = "revoke"]
    BY <1>10 DEF Access!UnlinkFile
  <2>2. x7'.pc = "revoke" /\ x7'.by = x7.by /\ x7'.to = x7.to /\ x7'.done = x7.done
        /\ x7' = [pc |-> x7'.pc, by |-> x7'.by, to |-> x7'.to, done |-> x7'.done]
    BY <1>a, <2>1, ChangeGoesOn
  <2>3. Access!AccessTypes'
    BY <1>a, <2>1, <2>2 DEF Access!AccessTypes
  <2> QED
    BY <1>a, <1>b, <2>1, <2>2, <2>3 DEF Access!ChosenStays, Access!Up, Access!InTime
<1>11. CASE Access!RevokeOthers
  <2>1. /\ UNCHANGED <<x1, x3, x4, x5, x8, x9, x10>> /\ x7.pc = "revoke" /\ x7.by \in Token
        /\ x7' = Access!NoChange(x1.choice)
        /\ x6' = [s \in Token |-> IF s = x7.by THEN x6[s] ELSE Access!NoSession]
    BY <1>11, <1>a DEF Access!RevokeOthers, Access!AccessTypes
  <2>2. x7'.pc = "idle" /\ x7'.done = x1.choice
    BY <1>b, <2>1, ChangeIsOver
  <2>3. x6' \in [Token -> [live : BOOLEAN, at : Nat]] /\ \A s \in Token : x6'[s].live => s = x7.by /\ x6'[s] = x6[s]
    BY <1>b, <2>1, Nothing
  <2>4. Access!AccessTypes'
    BY <1>a, <1>b, <2>1, <2>2, <2>3, ChangeIsOver DEF Access!AccessTypes
  <2>5. \A c \in Login : x5[c].checked => x5[c].at = x1.choice
    BY <2>1 DEF Access!InTime
  <2>6. \A s \in Token : x6'[s].live => x6'[s].at = x1.choice
    BY <2>1, <2>3
  <2> QED
    BY <1>a, <1>b, <2>1, <2>2, <2>4, <2>5, <2>6 DEF Access!ChosenStays, Access!InTime
<1>12. CASE UNCHANGED Access!accessVars
  BY <1>12 DEF Access!accessVars, Access!AccessTypes, Access!ChosenStays, Access!Up, Access!InTime
<1> QED
  BY <1>1, <1>2, <1>3, <1>4, <1>5, <1>6, <1>7, <1>8, <1>9, <1>10, <1>11, <1>12 DEF Access!AccessNext

-----------------------------------------------------------------------------
(* The servers and their threads.                                          *)

LEMMA ServerSteps == [Next]_vars /\ focus = "server" => [Server!LifecycleNext]_Server!lifecycleVars
  BY DEF Next, vars, Server!lifecycleVars

LEMMA ServerStarts == Init /\ focus = "server" => Server!LifecycleInit
  BY DEF Init

LEMMA ServersBegin == Server!LifecycleInit => Server!LifecycleInv
<1> SUFFICES ASSUME Server!LifecycleInit PROVE Server!LifecycleInv
  OBVIOUS
<1>1. Server!LifecycleTypes
  BY DEF Server!LifecycleInit, Server!LifecycleTypes, Server!NoPoller
<1>2. Server!PollersServe /\ Server!RetiredIsQuiet
  BY DEF Server!LifecycleInit, Server!PollersServe, Server!RetiredIsQuiet, Server!NoPoller
<1>3. Server!ListenersAreListed /\ Server!CrewsAreQuiet
  BY DEF Server!LifecycleInit, Server!ListenersAreListed, Server!CrewsAreQuiet, Server!Joined, Server!Hand
<1> QED
  BY <1>1, <1>2, <1>3 DEF Server!LifecycleInv

ServerStep == {"idle", "services", "main", "compat", "peer", "plain", "lan", "stop", "serving", "failing",
               "failed", "closed", "retired"}

LEMMA ServerTypes ==
  ASSUME Server!LifecycleInv
  PROVE  /\ x1 = [pc |-> x1.pc, listeners |-> x1.listeners, swarm |-> x1.swarm]
         /\ x1.pc \in ServerStep /\ x1.listeners \subseteq Server!Listener /\ x1.swarm \in BOOLEAN
         /\ x2 \in Nat /\ x6 \in Nat /\ x3 \in [Server!Listener -> {"free", "ours", "theirs"}]
         /\ x7 \in [Poller -> [pc : {"none", "born", "asleep", "working"}, kind : {"none"} \cup PollerKind,
                            of : Nat, gen : Nat, began : Nat]]
         /\ x8 \in [event : {"none", "live", "set"}, crew : {0} \cup Server!Crew]
         /\ x9 \in [Server!Crew -> [Server!Hand -> {"none", "waiting", "writing", "gone"}]]
  BY DEF Server!LifecycleInv, Server!LifecycleTypes, ServerStep

LEMMA ServerGoes ==
  ASSUME Server!LifecycleInv, NEW pc \in ServerStep, Server!Go(pc)
  PROVE  x1'.pc = pc /\ x1'.listeners = x1.listeners /\ x1'.swarm = x1.swarm
         /\ x1' = [pc |-> x1'.pc, listeners |-> x1'.listeners, swarm |-> x1'.swarm]
  BY ServerTypes DEF Server!Go

\* A step of the server that leaves its pollers and the local network alone.
LEMMA ServerAlone ==
  ASSUME Server!LifecycleInv, UNCHANGED <<x2, x5, x6, x7>>, UNCHANGED <<x8, x9>>,
         x1' = [pc |-> x1'.pc, listeners |-> x1'.listeners, swarm |-> x1'.swarm],
         x1'.pc \in ServerStep \ {"retired"}, x1'.listeners \subseteq Server!Listener, x1'.swarm \in BOOLEAN,
         x3' \in [Server!Listener -> {"free", "ours", "theirs"}], Server!ListenersAreListed'
  PROVE  Server!LifecycleInv'
<1>1. Server!LifecycleTypes'
  BY ServerTypes DEF Server!LifecycleTypes, ServerStep
<1>2. Server!PollersServe' /\ Server!RetiredIsQuiet'
  BY DEF Server!LifecycleInv, Server!PollersServe, Server!RetiredIsQuiet, Server!Retired, Server!At
<1>3. Server!CrewsAreQuiet'
  BY DEF Server!LifecycleInv, Server!CrewsAreQuiet
<1> QED
  BY <1>1, <1>2, <1>3 DEF Server!LifecycleInv

\* A step of a poller, or of the local network, that leaves the server alone.
LEMMA PollerAlone ==
  ASSUME Server!LifecycleInv, UNCHANGED <<x1, x2, x3, x4, x6>>, UNCHANGED <<x8, x9>>,
         x7' \in [Poller -> [pc : {"none", "born", "asleep", "working"}, kind : {"none"} \cup PollerKind,
                         of : Nat, gen : Nat, began : Nat]],
         Server!PollersServe', Server!RetiredIsQuiet'
  PROVE  Server!LifecycleInv'
  BY ServerTypes DEF Server!LifecycleInv, Server!LifecycleTypes, Server!ListenersAreListed, Server!CrewsAreQuiet, ServerStep

LEMMA NetworkAlone ==
  ASSUME Server!LifecycleInv, UNCHANGED <<x1, x2, x3, x4>>, UNCHANGED <<x5, x6, x7>>,
         x8' \in [event : {"none", "live", "set"}, crew : {0} \cup Server!Crew],
         x9' \in [Server!Crew -> [Server!Hand -> {"none", "waiting", "writing", "gone"}]],
         Server!CrewsAreQuiet'
  PROVE  Server!LifecycleInv'
<1>1. Server!LifecycleTypes'
  BY ServerTypes DEF Server!LifecycleTypes, ServerStep
<1>2. Server!PollersServe' /\ Server!RetiredIsQuiet' /\ Server!ListenersAreListed'
  BY DEF Server!LifecycleInv, Server!PollersServe, Server!RetiredIsQuiet, Server!Retired, Server!At,
         Server!ListenersAreListed
<1> QED
  BY <1>1, <1>2 DEF Server!LifecycleInv

\* What a poller in use is, and what becomes of the pollers when one of them
\* moves on.
LEMMA PollerFacts ==
  ASSUME Server!LifecycleInv, NEW p \in Poller, x7[p] # Server!NoPoller
  PROVE  /\ x7[p].gen \in 1..(x6 + 1) /\ x7[p].kind \in PollerKind /\ x7[p].pc # "none"
         /\ ~Server!Retired(p) => x7[p].of = x2 /\ x7[p].kind \in x5 /\ x1.pc # "retired"
         /\ x7[p].pc = "working" => x7[p].began = x7[p].of
  BY DEF Server!LifecycleInv, Server!PollersServe, Server!RetiredIsQuiet, Server!At

LEMMA NoPollerSays ==
  /\ Server!NoPoller.pc = "none" /\ Server!NoPoller.kind = "none"
  /\ Server!NoPoller \in [pc : {"none", "born", "asleep", "working"}, kind : {"none"} \cup PollerKind,
                          of : Nat, gen : Nat, began : Nat]
  BY DEF Server!NoPoller

LEMMA PollerMoves ==
  ASSUME Server!LifecycleInv, UNCHANGED <<x1, x2, x3, x4, x5, x6>>, UNCHANGED <<x8, x9>>, NEW p \in Poller,
         x7[p] # Server!NoPoller,
         NEW r \in [pc : {"none", "born", "asleep", "working"}, kind : {"none"} \cup PollerKind,
                    of : Nat, gen : Nat, began : Nat],
         x7' = [x7 EXCEPT ![p] = r],
         \/ r = Server!NoPoller
         \/ /\ r.kind = x7[p].kind /\ r.of = x7[p].of /\ r.gen = x7[p].gen /\ r.pc # "none"
            /\ r.pc = "working" => r.began = r.of
  PROVE  Server!LifecycleInv'
<1>1. x7' \in [Poller -> [pc : {"none", "born", "asleep", "working"}, kind : {"none"} \cup PollerKind,
                         of : Nat, gen : Nat, began : Nat]]
      /\ x7'[p] = r /\ \A q \in Poller \ {p} : x7'[q] = x7[q]
  BY ServerTypes
<1>2. \A q \in Poller : x7'[q] # Server!NoPoller =>
        x7[q] # Server!NoPoller /\ x7'[q].gen = x7[q].gen /\ x7'[q].kind = x7[q].kind /\ x7'[q].of = x7[q].of
        /\ x7'[q].pc # "none"
  BY <1>1, PollerFacts
<1>3. Server!RetiredIsQuiet'
  BY <1>1, NoPollerSays DEF Server!LifecycleInv, Server!RetiredIsQuiet
<1>4. Server!PollersServe'
  BY <1>2, PollerFacts DEF Server!LifecycleInv, Server!PollersServe, Server!Retired, Server!At
<1> QED
  BY <1>1, <1>3, <1>4, PollerAlone

LEMMA ServersStep ==
  ASSUME Server!LifecycleInv, [Server!LifecycleNext]_Server!lifecycleVars
  PROVE  Server!LifecycleInv'
<1>a. Server!ListenersAreListed /\ Server!PollersServe /\ Server!RetiredIsQuiet /\ Server!CrewsAreQuiet
  BY DEF Server!LifecycleInv
<1>l. /\ \A l \in Server!Listener : x3[l] = "ours" => l \in x1.listeners
      /\ x1.pc \in {"idle", "services", "main", "failed", "closed", "retired"} => x1.listeners = {}
      /\ \A t \in x4 : t \in Nat \X Server!Listener /\ t[1] <= x2
      /\ x1.pc \notin {"stop", "serving", "failing", "closed", "retired"} => \A l \in Server!Listener : <<x2, l>> \notin x4
      /\ x1.pc \in {"stop", "failing"} => \A l \in Server!Listener : <<x2, l>> \in x4 => l \in x1.listeners
  BY <1>a DEF Server!ListenersAreListed
<1>1. ASSUME NEW s \in BOOLEAN, Server!Create(s) PROVE Server!LifecycleInv'
  <2>1. /\ x1.pc \in {"idle", "failed"} /\ x1' = [pc |-> "services", listeners |-> {}, swarm |-> s]
        /\ UNCHANGED <<x2, x3, x4, x5, x6, x7, x8, x9>>
    BY <1>1 DEF Server!Create, Server!listening, Server!polling, Server!network
  <2>2. Server!ListenersAreListed'
    BY <1>l, <2>1 DEF Server!ListenersAreListed
  <2> QED
    BY <2>1, <2>2, ServerTypes, ServerAlone DEF ServerStep
\* A poller is started in the present generation, and its kind is latched.
<1>2. ASSUME NEW k \in PollerKind, Server!StartPoller(k) PROVE Server!LifecycleInv'
  <2>1. PICK p \in Poller : x7[p] = Server!NoPoller
          /\ x7' = [x7 EXCEPT ![p] = [pc |-> "born", kind |-> k, of |-> x2, gen |-> x6 + 1, began |-> x2]]
    <3>1. Server!Unused # {} /\ (CHOOSE p \in Server!Unused : TRUE) \in Server!Unused
      BY <1>2 DEF Server!StartPoller
    <3> QED
      BY <1>2, <3>1 DEF Server!StartPoller, Server!Generation, Server!Unused
  <2>2. UNCHANGED <<x1, x2, x3, x4, x6, x8, x9>> /\ x5' = x5 \cup {k} /\ k \notin x5 /\ x1.pc = "services"
    BY <1>2 DEF Server!StartPoller, Server!listening, Server!network, Server!At
  <2>3. /\ x7' \in [Poller -> [pc : {"none", "born", "asleep", "working"}, kind : {"none"} \cup PollerKind,
                              of : Nat, gen : Nat, began : Nat]]
        /\ x7'[p] = [pc |-> "born", kind |-> k, of |-> x2, gen |-> x6 + 1, began |-> x2]
        /\ \A q \in Poller \ {p} : x7'[q] = x7[q]
    BY <2>1, ServerTypes
  <2>4. Server!RetiredIsQuiet'
    BY <1>a, <2>3 DEF Server!RetiredIsQuiet
  <2>5. \A q \in Poller \ {p} : x7[q] # Server!NoPoller /\ ~Server!Retired(q) => x7[q].kind # k
    BY <2>2, PollerFacts
  <2>6. Server!PollersServe'
    <3>1. x7'[p].gen \in 1..(x6 + 1) /\ x7'[p].kind \in PollerKind /\ x7'[p].pc # "none" /\ x7'[p].of = x2'
          /\ x7'[p].kind \in x5'
      BY <2>2, <2>3, ServerTypes
    <3>2. \A q \in Poller \ {p} : Server!Retired(q)' <=> Server!Retired(q)
      BY <2>2, <2>3 DEF Server!Retired
    <3>3. \A q \in Poller : x7'[q] # Server!NoPoller =>
            /\ x7'[q].gen \in 1..(x6' + 1) /\ x7'[q].kind \in PollerKind /\ x7'[q].pc # "none"
            /\ (~Server!Retired(q))' => x7'[q].of = x2' /\ x7'[q].kind \in x5' /\ x1'.pc # "retired"
      BY <2>2, <2>3, <3>1, <3>2, PollerFacts
    <3>4. \A q \in Poller \ {p}, r \in Poller \ {p} :
            q # r /\ x7[q] # Server!NoPoller /\ x7[r] # Server!NoPoller /\ ~Server!Retired(q) /\ ~Server!Retired(r)
              => x7[q].kind # x7[r].kind
      BY <1>a DEF Server!PollersServe
    <3>5. \A q, r \in Poller :
            q # r /\ x7'[q] # Server!NoPoller /\ x7'[r] # Server!NoPoller /\ (~Server!Retired(q))' /\ (~Server!Retired(r))'
              => x7'[q].kind # x7'[r].kind
      BY <2>3, <2>5, <3>2, <3>4
    <3> QED
      BY <3>3, <3>5 DEF Server!PollersServe, Server!At, Server!NoPoller
  <2>7. Server!LifecycleTypes' /\ Server!ListenersAreListed' /\ Server!CrewsAreQuiet'
    BY <1>a, <2>2, <2>3, ServerTypes DEF Server!LifecycleTypes, Server!ListenersAreListed, Server!CrewsAreQuiet, ServerStep
  <2> QED
    BY <2>4, <2>6, <2>7 DEF Server!LifecycleInv
<1>3. CASE Server!PollersStarted
  <2>1. x1.pc = "services" /\ Server!Go("main") /\ UNCHANGED <<x2, x3, x4, x5, x6, x7, x8, x9>>
    BY <1>3 DEF Server!PollersStarted, Server!listening, Server!polling, Server!network, Server!At
  <2>2. /\ x1'.pc = "main" /\ x1'.listeners = x1.listeners /\ x1'.swarm = x1.swarm
        /\ x1' = [pc |-> x1'.pc, listeners |-> x1'.listeners, swarm |-> x1'.swarm]
    BY <2>1, ServerGoes DEF ServerStep
  <2>3. Server!ListenersAreListed'
    BY <1>l, <2>1, <2>2 DEF Server!ListenersAreListed
  <2> QED
    BY <2>1, <2>2, <2>3, ServerTypes, ServerAlone DEF ServerStep
<1>4. ASSUME NEW l \in Server!Listener, Server!Bind(l) PROVE Server!LifecycleInv'
  <2>1. /\ x1.pc = l /\ x3' = [x3 EXCEPT ![l] = "ours"] /\ UNCHANGED <<x2, x4, x5, x6, x7, x8, x9>>
        /\ x1' = [x1 EXCEPT !.listeners = @ \cup {l}, !.pc = Server!Following[l]]
    BY <1>4 DEF Server!Bind, Server!polling, Server!network, Server!At
  <2>2. Server!Following[l] \in {"compat", "peer", "plain", "lan"} /\ l \in {"main", "compat", "peer", "plain"}
    BY DEF Server!Following, Server!Listener
  <2>3. /\ x1'.pc = Server!Following[l] /\ x1'.listeners = x1.listeners \cup {l} /\ x1'.swarm = x1.swarm
        /\ x1' = [pc |-> x1'.pc, listeners |-> x1'.listeners, swarm |-> x1'.swarm]
    BY <2>1, ServerTypes
  <2>4. x3' \in [Server!Listener -> {"free", "ours", "theirs"}] /\ \A m \in Server!Listener \ {l} : x3'[m] = x3[m]
    BY <2>1, ServerTypes
  <2>5. Server!ListenersAreListed'
    BY <1>l, <2>1, <2>2, <2>3, <2>4 DEF Server!ListenersAreListed
  <2> QED
    BY <2>1, <2>2, <2>3, <2>4, <2>5, ServerTypes, ServerAlone DEF ServerStep
<1>5. ASSUME NEW l \in Server!Listener, Server!Skip(l) PROVE Server!LifecycleInv'
  <2>1. /\ x1.pc = l /\ Server!Go(Server!Following[l]) /\ UNCHANGED <<x2, x3, x4, x5, x6, x7, x8, x9>>
    BY <1>5 DEF Server!Skip, Server!listening, Server!polling, Server!network, Server!At
  <2>2. Server!Following[l] \in {"compat", "peer", "plain", "lan"} /\ l \in {"main", "compat", "peer", "plain"}
    BY DEF Server!Following, Server!Listener
  <2>3. /\ x1'.pc = Server!Following[l] /\ x1'.listeners = x1.listeners /\ x1'.swarm = x1.swarm
        /\ x1' = [pc |-> x1'.pc, listeners |-> x1'.listeners, swarm |-> x1'.swarm]
    BY <2>1, <2>2, ServerGoes DEF ServerStep
  <2>4. Server!ListenersAreListed'
    BY <1>l, <2>1, <2>2, <2>3 DEF Server!ListenersAreListed
  <2> QED
    BY <2>1, <2>2, <2>3, <2>4, ServerTypes, ServerAlone DEF ServerStep
\* The main listener is in the list before its TLS context is loaded.
<1>6. CASE Server!CannotBind
  <2>1. /\ x1.pc = "main" /\ UNCHANGED <<x2, x4, x5, x6, x7, x8, x9>>
        /\ \/ Server!Go("failing") /\ UNCHANGED x3
           \/ x3' = [x3 EXCEPT !["main"] = "ours"] /\ x1' = [x1 EXCEPT !.pc = "failing", !.listeners = {"main"}]
    BY <1>6 DEF Server!CannotBind, Server!Recorded, Server!polling, Server!network, Server!At
  <2>2. "main" \in Server!Listener
    BY DEF Server!Listener
  <2>3. /\ x1'.pc = "failing" /\ x1'.listeners \subseteq Server!Listener /\ x1'.swarm = x1.swarm
        /\ x1' = [pc |-> x1'.pc, listeners |-> x1'.listeners, swarm |-> x1'.swarm]
    <3>1. CASE Server!Go("failing")
      BY <3>1, ServerGoes, ServerTypes DEF ServerStep
    <3>2. CASE x1' = [x1 EXCEPT !.pc = "failing", !.listeners = {"main"}]
      BY <2>2, <3>2, ServerTypes
    <3> QED
      BY <2>1, <3>1, <3>2
  <2>4. /\ x3' \in [Server!Listener -> {"free", "ours", "theirs"}]
        /\ \A l \in Server!Listener : x3'[l] = "ours" => l \in x1'.listeners
    <3>1. CASE Server!Go("failing") /\ UNCHANGED x3
      BY <1>l, <3>1, ServerGoes, ServerTypes DEF ServerStep
    <3>2. CASE x3' = [x3 EXCEPT !["main"] = "ours"] /\ x1' = [x1 EXCEPT !.pc = "failing", !.listeners = {"main"}]
      <4>1. x1'.listeners = {"main"} /\ \A l \in Server!Listener \ {"main"} : x3'[l] = x3[l]
        BY <3>2, ServerTypes
      <4> QED
        BY <1>l, <2>1, <2>2, <3>2, <4>1, ServerTypes
    <3> QED
      BY <2>1, <3>1, <3>2
  <2>5. Server!ListenersAreListed'
    BY <1>l, <2>1, <2>3, <2>4 DEF Server!ListenersAreListed
  <2> QED
    BY <2>1, <2>3, <2>4, <2>5, ServerTypes, ServerAlone DEF ServerStep
<1>7. ASSUME NEW l \in Server!Listener, Server!Neighbour(l) PROVE Server!LifecycleInv'
  <2>1. UNCHANGED <<x1, x2, x4, x5, x6, x7, x8, x9>>
        /\ (x3' = [x3 EXCEPT ![l] = "theirs"] \/ x3' = [x3 EXCEPT ![l] = "free"])
    BY <1>7 DEF Server!Neighbour, Server!polling, Server!network
  <2>2. /\ x3' \in [Server!Listener -> {"free", "ours", "theirs"}]
        /\ \A m \in Server!Listener : x3'[m] = "ours" => x3[m] = "ours"
    BY <2>1, ServerTypes
  <2>3. Server!ListenersAreListed'
    BY <1>l, <2>1, <2>2 DEF Server!ListenersAreListed
  <2>4. Server!LifecycleTypes' /\ Server!PollersServe' /\ Server!RetiredIsQuiet' /\ Server!CrewsAreQuiet'
    BY <1>a, <2>1, <2>2, ServerTypes DEF Server!LifecycleTypes, Server!PollersServe, Server!RetiredIsQuiet,
       Server!CrewsAreQuiet, Server!Retired, Server!At, ServerStep
  <2> QED
    BY <2>3, <2>4 DEF Server!LifecycleInv
<1>8. CASE Server!Register
  <2>1. /\ x1.pc = "lan" /\ x4' = x4 \cup {<<x2, l>> : l \in x1.listeners \ {"plain"}}
        /\ (Server!Go("serving") \/ Server!Go("stop")) /\ UNCHANGED <<x2, x3, x5, x6, x7, x8, x9>>
    BY <1>8 DEF Server!Register, Server!polling, Server!network, Server!At
  <2>2. /\ x1'.pc \in {"serving", "stop"} /\ x1'.listeners = x1.listeners /\ x1'.swarm = x1.swarm
        /\ x1' = [pc |-> x1'.pc, listeners |-> x1'.listeners, swarm |-> x1'.swarm]
    BY <2>1, ServerGoes DEF ServerStep
  <2>3. \A t \in x4' : t \in Nat \X Server!Listener /\ t[1] <= x2
    BY <1>l, <2>1, ServerTypes
  <2>4. \A l \in Server!Listener : <<x2, l>> \in x4' => l \in x1.listeners
    BY <1>l, <2>1
  <2>5. Server!ListenersAreListed'
    BY <1>l, <2>1, <2>2, <2>3, <2>4 DEF Server!ListenersAreListed
  <2> QED
    BY <2>1, <2>2, <2>5, ServerTypes, ServerAlone DEF ServerStep
<1>9. CASE Server!SignalStop
  <2>1. UNCHANGED <<x1, x2, x3, x4, x5, x6, x7, x9>> /\ x8' = [x8 EXCEPT !.event = "set"] /\ x8.event = "live"
    BY <1>9 DEF Server!SignalStop, Server!listening, Server!polling
  <2>2. x8' \in [event : {"none", "live", "set"}, crew : {0} \cup Server!Crew] /\ x8'.event = "set" /\ x8'.crew = x8.crew
    BY <2>1, ServerTypes
  <2>3. Server!CrewsAreQuiet'
    BY <1>a, <2>1, <2>2 DEF Server!CrewsAreQuiet
  <2> QED
    BY <2>1, <2>2, <2>3, ServerTypes, NetworkAlone
\* The generation before is quiet when the next one starts.
<1>10. CASE Server!StartLan
  <2>1. /\ x1.pc = "stop" /\ Server!Quiet /\ Server!Go("serving") /\ UNCHANGED <<x2, x3, x4, x5, x6, x7>>
        /\ \E c \in Server!Crew : /\ x8' = [event |-> "live", crew |-> c]
                                  /\ x9' = [x9 EXCEPT ![c] = [h \in Server!Hand |-> "waiting"]]
    BY <1>10 DEF Server!StartLan, Server!listening, Server!polling, Server!At
  <2>2. PICK c \in Server!Crew : x8' = [event |-> "live", crew |-> c] /\ x9' = [x9 EXCEPT ![c] = [h \in Server!Hand |-> "waiting"]]
    BY <2>1
  <2>3. /\ x9' \in [Server!Crew -> [Server!Hand -> {"none", "waiting", "writing", "gone"}]]
        /\ \A d \in Server!Crew \ {c} : x9'[d] = x9[d]
    BY <2>2, ServerTypes
  <2>4. \A d \in Server!Crew, h \in Server!Joined : x9[d][h] \in {"none", "gone"}
    BY <1>a, <2>1 DEF Server!CrewsAreQuiet, Server!Quiet, Server!Awaited
  <2>5. Server!CrewsAreQuiet'
    BY <2>2, <2>3, <2>4 DEF Server!CrewsAreQuiet
  <2>6. /\ x1'.pc = "serving" /\ x1'.listeners = x1.listeners /\ x1'.swarm = x1.swarm
        /\ x1' = [pc |-> x1'.pc, listeners |-> x1'.listeners, swarm |-> x1'.swarm]
    BY <2>1, ServerGoes DEF ServerStep
  <2>7. Server!ListenersAreListed'
    BY <1>l, <2>1, <2>6 DEF Server!ListenersAreListed
  <2>8. Server!LifecycleTypes'
    BY <2>1, <2>2, <2>3, <2>6, ServerTypes DEF Server!LifecycleTypes, ServerStep
  <2>9. Server!PollersServe' /\ Server!RetiredIsQuiet'
    BY <1>a, <2>1, <2>6 DEF Server!PollersServe, Server!RetiredIsQuiet, Server!Retired, Server!At
  <2> QED
    BY <2>5, <2>7, <2>8, <2>9 DEF Server!LifecycleInv
<1>11. CASE Server!CannotStop
  <2>1. x1.pc = "stop" /\ Server!Go("failing") /\ UNCHANGED <<x2, x3, x4, x5, x6, x7, x8, x9>>
    BY <1>11 DEF Server!CannotStop, Server!listening, Server!polling, Server!network, Server!At
  <2>2. /\ x1'.pc = "failing" /\ x1'.listeners = x1.listeners /\ x1'.swarm = x1.swarm
        /\ x1' = [pc |-> x1'.pc, listeners |-> x1'.listeners, swarm |-> x1'.swarm]
    BY <2>1, ServerGoes DEF ServerStep
  <2>3. Server!ListenersAreListed'
    BY <1>l, <2>1, <2>2 DEF Server!ListenersAreListed
  <2> QED
    BY <2>1, <2>2, <2>3, ServerTypes, ServerAlone DEF ServerStep
\* What is registered for this root is in the list that is given up.
<1>12. CASE Server!Abandon
  <2>1. /\ x1.pc = "failing" /\ x4' = x4 \ {<<x2, l>> : l \in x1.listeners} /\ UNCHANGED <<x2, x5, x6, x7, x8, x9>>
        /\ x3' = [l \in Server!Listener |-> IF l \in x1.listeners THEN "free" ELSE x3[l]]
        /\ x1' = [x1 EXCEPT !.pc = "failed", !.listeners = {}]
    BY <1>12 DEF Server!Abandon, Server!polling, Server!network, Server!At
  <2>2. /\ x1'.pc = "failed" /\ x1'.listeners = {} /\ x1'.swarm = x1.swarm
        /\ x1' = [pc |-> x1'.pc, listeners |-> x1'.listeners, swarm |-> x1'.swarm]
    BY <2>1, ServerTypes
  <2>3. x3' \in [Server!Listener -> {"free", "ours", "theirs"}] /\ \A l \in Server!Listener : x3'[l] # "ours"
    BY <1>l, <2>1, ServerTypes
  <2>4. \A l \in Server!Listener : <<x2, l>> \notin x4'
    BY <1>l, <2>1
  <2>5. Server!ListenersAreListed'
    BY <1>l, <2>1, <2>2, <2>3, <2>4 DEF Server!ListenersAreListed
  <2> QED
    BY <2>1, <2>2, <2>3, <2>5, ServerTypes, ServerAlone DEF ServerStep
<1>13. CASE Server!Close
  <2>1. /\ x1.pc = "serving" /\ UNCHANGED <<x2, x4, x5, x6, x7, x8, x9>>
        /\ x3' = [l \in Server!Listener |-> IF l \in x1.listeners THEN "free" ELSE x3[l]]
        /\ x1' = [x1 EXCEPT !.pc = "closed", !.listeners = {}]
    BY <1>13 DEF Server!Close, Server!polling, Server!network, Server!At
  <2>2. /\ x1'.pc = "closed" /\ x1'.listeners = {} /\ x1'.swarm = x1.swarm
        /\ x1' = [pc |-> x1'.pc, listeners |-> x1'.listeners, swarm |-> x1'.swarm]
    BY <2>1, ServerTypes
  <2>3. x3' \in [Server!Listener -> {"free", "ours", "theirs"}] /\ \A l \in Server!Listener : x3'[l] # "ours"
    BY <1>l, <2>1, ServerTypes
  <2>4. Server!ListenersAreListed'
    BY <1>l, <2>1, <2>2, <2>3 DEF Server!ListenersAreListed
  <2> QED
    BY <2>1, <2>2, <2>3, <2>4, ServerTypes, ServerAlone DEF ServerStep
<1>14. CASE Server!LanStopped
  <2>1. UNCHANGED <<x1, x2, x3, x4, x5, x6, x7, x9>> /\ x8' = [x8 EXCEPT !.event = "none"] /\ Server!Quiet
    BY <1>14 DEF Server!LanStopped, Server!listening, Server!polling
  <2>2. x8' \in [event : {"none", "live", "set"}, crew : {0} \cup Server!Crew]
    BY <2>1, ServerTypes
  <2>3. \A d \in Server!Crew, h \in Server!Joined : x9[d][h] \in {"none", "gone"}
    BY <1>a, <2>1 DEF Server!CrewsAreQuiet, Server!Quiet, Server!Awaited
  <2>4. Server!CrewsAreQuiet'
    BY <2>1, <2>3 DEF Server!CrewsAreQuiet
  <2> QED
    BY <2>1, <2>2, <2>4, ServerTypes, NetworkAlone
\* Every poller is now of an earlier generation.
<1>15. CASE Server!Retire
  <2>1. /\ x1.pc \in {"closed", "failed"} /\ Server!Go("retired") /\ x6' = x6 + 1 /\ x5' = {}
        /\ UNCHANGED <<x2, x3, x4, x7, x8, x9>>
    BY <1>15 DEF Server!Retire, Server!Down, Server!listening, Server!network
  <2>2. /\ x1'.pc = "retired" /\ x1'.listeners = x1.listeners /\ x1'.swarm = x1.swarm
        /\ x1' = [pc |-> x1'.pc, listeners |-> x1'.listeners, swarm |-> x1'.swarm]
    BY <2>1, ServerGoes DEF ServerStep
  <2>3. Server!ListenersAreListed'
    BY <1>l, <2>1, <2>2 DEF Server!ListenersAreListed
  <2>4. \A p \in Poller : x7[p] # Server!NoPoller =>
          /\ x7[p].gen \in 1..(x6 + 1) /\ x7[p].gen # x6 + 2 /\ x7[p].kind \in PollerKind /\ x7[p].pc # "none"
    BY PollerFacts, ServerTypes
  <2>5. Server!PollersServe' /\ Server!RetiredIsQuiet'
    BY <1>a, <2>1, <2>4, ServerTypes DEF Server!PollersServe, Server!RetiredIsQuiet, Server!Retired, Server!NoPoller
  <2>6. Server!LifecycleTypes' /\ Server!CrewsAreQuiet'
    BY <1>a, <2>1, <2>2, ServerTypes DEF Server!LifecycleTypes, Server!CrewsAreQuiet, ServerStep
  <2> QED
    BY <2>3, <2>5, <2>6 DEF Server!LifecycleInv
<1>16. CASE Server!SelectRoot
  <2>1. x1.pc = "retired" /\ Server!Go("idle") /\ x2' = x2 + 1 /\ UNCHANGED <<x3, x4, x5, x6, x7, x8, x9>>
    BY <1>16 DEF Server!SelectRoot, Server!At, Server!listening, Server!polling, Server!network
  <2>2. /\ x1'.pc = "idle" /\ x1'.listeners = x1.listeners /\ x1'.swarm = x1.swarm
        /\ x1' = [pc |-> x1'.pc, listeners |-> x1'.listeners, swarm |-> x1'.swarm]
    BY <2>1, ServerGoes DEF ServerStep
  <2>3. \A l \in Server!Listener : <<x2 + 1, l>> \notin x4
    BY <1>l, ServerTypes
  <2>4. Server!ListenersAreListed'
    BY <1>l, <2>1, <2>2, <2>3, ServerTypes DEF Server!ListenersAreListed
  <2>5. \A p \in Poller : x7[p] # Server!NoPoller => Server!Retired(p)
    BY <2>1, PollerFacts
  <2>6. Server!PollersServe' /\ Server!RetiredIsQuiet'
    BY <1>a, <2>1, <2>5, PollerFacts DEF Server!PollersServe, Server!RetiredIsQuiet, Server!Retired, Server!NoPoller
  <2>7. Server!LifecycleTypes' /\ Server!CrewsAreQuiet'
    BY <1>a, <2>1, <2>2, ServerTypes DEF Server!LifecycleTypes, Server!CrewsAreQuiet, ServerStep
  <2> QED
    BY <2>4, <2>6, <2>7 DEF Server!LifecycleInv
<1>17. ASSUME NEW p \in Poller, Server!Enter(p) PROVE Server!LifecycleInv'
  <2> DEFINE r == [x7[p] EXCEPT !.pc = "asleep"]
  <2>1. x7[p].pc = "born" /\ x7[p] # Server!NoPoller /\ UNCHANGED <<x1, x2, x3, x4, x5, x6, x8, x9>>
    BY <1>17, NoPollerSays DEF Server!Enter, Server!listening, Server!network
  <2>2. x7[p].gen # 0
    BY <2>1, PollerFacts
  <2>3. x7' = [x7 EXCEPT ![p] = r]
    BY <1>17, <2>2, ServerTypes DEF Server!Enter
  <2>4. r \in [pc : {"none", "born", "asleep", "working"}, kind : {"none"} \cup PollerKind, of : Nat, gen : Nat, began : Nat]
        /\ r.kind = x7[p].kind /\ r.of = x7[p].of /\ r.gen = x7[p].gen /\ r.pc = "asleep"
    BY ServerTypes
  <2> HIDE DEF r
  <2> QED
    BY <2>1, <2>3, <2>4, PollerMoves
\* One that is not retired serves the present root, whenever it wakes.
<1>18. ASSUME NEW p \in Poller, Server!Wake(p) PROVE Server!LifecycleInv'
  <2>1. x7[p].pc = "asleep" /\ x7[p] # Server!NoPoller /\ UNCHANGED <<x1, x2, x3, x4, x5, x6, x8, x9>>
    BY <1>18, NoPollerSays DEF Server!Wake, Server!listening, Server!network
  <2>2. CASE Server!Retired(p)
    <3>1. x7' = [x7 EXCEPT ![p] = Server!NoPoller]
      BY <1>18, <2>2 DEF Server!Wake
    <3> QED
      BY <2>1, <3>1, NoPollerSays, PollerMoves
  <2>3. CASE ~Server!Retired(p)
    <3> DEFINE r == [x7[p] EXCEPT !.pc = "working", !.began = x2]
    <3>1. x7' = [x7 EXCEPT ![p] = r] /\ x7[p].of = x2
      BY <1>18, <2>1, <2>3, PollerFacts DEF Server!Wake
    <3>2. r \in [pc : {"none", "born", "asleep", "working"}, kind : {"none"} \cup PollerKind, of : Nat, gen : Nat, began : Nat]
          /\ r.kind = x7[p].kind /\ r.of = x7[p].of /\ r.gen = x7[p].gen /\ r.pc = "working" /\ r.began = x2
      BY ServerTypes
    <3> HIDE DEF r
    <3> QED
      BY <2>1, <3>1, <3>2, PollerMoves
  <2> QED
    BY <2>2, <2>3
<1>19. ASSUME NEW p \in Poller, Server!Rest(p) PROVE Server!LifecycleInv'
  <2> DEFINE r == [x7[p] EXCEPT !.pc = "asleep"]
  <2>1. x7[p].pc = "working" /\ x7[p] # Server!NoPoller /\ UNCHANGED <<x1, x2, x3, x4, x5, x6, x8, x9>>
        /\ (x7' = [x7 EXCEPT ![p] = r] \/ x7' = [x7 EXCEPT ![p] = Server!NoPoller])
    BY <1>19, NoPollerSays DEF Server!Rest, Server!listening, Server!network
  <2>2. r \in [pc : {"none", "born", "asleep", "working"}, kind : {"none"} \cup PollerKind, of : Nat, gen : Nat, began : Nat]
        /\ r.kind = x7[p].kind /\ r.of = x7[p].of /\ r.gen = x7[p].gen /\ r.pc = "asleep"
    BY ServerTypes
  <2> HIDE DEF r
  <2>3. CASE x7' = [x7 EXCEPT ![p] = r]
    BY <2>1, <2>2, <2>3, PollerMoves
  <2>4. CASE x7' = [x7 EXCEPT ![p] = Server!NoPoller]
    BY <2>1, <2>4, NoPollerSays, PollerMoves
  <2> QED
    BY <2>1, <2>3, <2>4
<1>20. ASSUME NEW c \in Server!Crew, NEW h \in Server!Hand, Server!Turn(c, h) PROVE Server!LifecycleInv'
  <2>1. /\ UNCHANGED <<x1, x2, x3, x4, x5, x6, x7, x8>> /\ x9[c][h] \in {"waiting", "writing"}
        /\ \E v \in {"none", "waiting", "writing", "gone"} : x9' = [x9 EXCEPT ![c][h] = v]
    BY <1>20 DEF Server!Turn, Server!listening, Server!polling
  <2>2. PICK v \in {"none", "waiting", "writing", "gone"} : x9' = [x9 EXCEPT ![c][h] = v]
    BY <2>1
  <2>3. /\ x9' \in [Server!Crew -> [Server!Hand -> {"none", "waiting", "writing", "gone"}]]
        /\ \A d \in Server!Crew, g \in Server!Hand : d # c \/ g # h => x9'[d][g] = x9[d][g]
    BY <2>2, ServerTypes
  <2>4. h \in Server!Joined => x8.event # "none" /\ x8.crew = c
    BY <1>a, <2>1 DEF Server!CrewsAreQuiet
  <2>5. Server!Joined \subseteq Server!Hand
    BY DEF Server!Joined, Server!Hand
  <2>6. Server!CrewsAreQuiet'
    BY <1>a, <2>1, <2>3, <2>4, <2>5 DEF Server!CrewsAreQuiet
  <2> QED
    BY <2>1, <2>3, <2>6, ServerTypes, NetworkAlone
<1>21. CASE UNCHANGED Server!lifecycleVars
  <2>1. UNCHANGED <<x1, x2, x3, x4, x5, x6, x7, x8, x9>>
    BY <1>21 DEF Server!lifecycleVars
  <2> QED
    BY <1>a, <2>1, ServerTypes DEF Server!LifecycleInv, Server!LifecycleTypes, Server!PollersServe,
       Server!RetiredIsQuiet, Server!ListenersAreListed, Server!CrewsAreQuiet, Server!Retired, Server!At, ServerStep
<1> QED
  BY <1>1, <1>2, <1>3, <1>4, <1>5, <1>6, <1>7, <1>8, <1>9, <1>10, <1>11, <1>12, <1>13, <1>14, <1>15, <1>16, <1>17,
     <1>18, <1>19, <1>20, <1>21 DEF Server!LifecycleNext

LEMMA NothingOutlives ==
  ASSUME Server!LifecycleInv
  PROVE  Server!NothingOutlivesItsServer
<1>1. Server!OnePollerOfAKind
  <2> SUFFICES ASSUME NEW p \in Poller, NEW q \in Poller, p # q, x7[p].kind = x7[q].kind, x7[p].kind # "none"
               PROVE  \E r \in {p, q} : x7[r].gen # 0 /\ Server!Retired(r)
    BY DEF Server!OnePollerOfAKind
  <2>1. x7[p] # Server!NoPoller /\ x7[q] # Server!NoPoller
    BY NoPollerSays
  <2>2. x7[p].gen # 0 /\ x7[q].gen # 0
    BY <2>1, PollerFacts
  <2> QED
    BY <2>1, <2>2 DEF Server!LifecycleInv, Server!PollersServe
<1>2. Server!FailedLeavesNothing
  BY DEF Server!LifecycleInv, Server!ListenersAreListed, Server!FailedLeavesNothing, Server!At
<1>3. Server!StoppedIsQuiet
  BY DEF Server!LifecycleInv, Server!CrewsAreQuiet, Server!StoppedIsQuiet
<1> QED
  BY <1>1, <1>2, <1>3 DEF Server!NothingOutlivesItsServer, Server!LifecycleInv

\* What a server started ends with it: no retired poller works in a database
\* that was selected later, no two pollers of a kind are not retired, a
\* create_server that failed leaves no port bound and no listener registered,
\* and a local network that was stopped is quiet; and the password that the
\* operator chose stays, and its change ends the sessions of the one before,
\* as long as no login overlaps it, for any pollers, sessions, faults, crashes.
THEOREM ServerStaysTheOperators ==
  ASSUME \A b \in AccessBounds : b.late = 0
  PROVE  Spec => []ServerIsTheOperators
<1> DEFINE Inv == (focus = "server" => Server!LifecycleInv) /\ (focus = "access" => Access!AccessInv)
<1>1. Init => Inv
  BY ServerStarts, ServersBegin, AccessStarts, AccessBegins
<1>2. Inv /\ [Next]_vars => Inv'
  BY FocusStays, ServerSteps, ServersStep, AccessSteps, AccessStep
<1>3. Inv => ServerIsTheOperators
  <2>1. Access!AccessInv => Access!AccessIsTheOperators
    BY DEF Access!AccessInv, Access!AccessIsTheOperators, Access!OthersAreOut, Access!Live
  <2> QED
    BY <2>1, NothingOutlives DEF ServerIsTheOperators
<1> QED
  BY <1>1, <1>2, <1>3, PTL DEF Spec

-----------------------------------------------------------------------------
(* The journals of the configuration guard.                                *)

Txn == [at : {"idle", "write", "restore", "remember", "sweep"}, s : Session, files : SUBSET File,
        errors : BOOLEAN, missed : SUBSET Generated]

GuardTypeOK ==
  /\ content \in [File -> Value \cup {NoValue}]
  /\ journal \in [Session -> [File -> [held : BOOLEAN, orig : Value \cup {NoValue}]]]
  /\ watching \in [Session -> SUBSET Generated]
  /\ txn \in Txn

Held(s, f) == journal[s][f].held
Orig(s, f) == journal[s][f].orig
Claims(s, f) == Held(s, f) \/ Watched(s, f)

\* No two sessions have to do with one file.
OneClaim == \A s, o \in Session, f \in File : Claims(s, f) /\ Claims(o, f) => s = o

\* What a transaction is about is in the journal.
TxnHolds ==
  /\ txn.at = "write" => txn.missed = {} /\ txn.files \cap Generated = {} /\ ~txn.errors
  /\ txn.at \in {"write", "restore"} => \A f \in txn.files \cup txn.missed : Held(txn.s, f)

\* A session's value in a generated file came from its emulator, and the
\* session still knows of the file.
LateValues ==
  \A f \in Generated :
    content[f] = NoValue \/ \E s \in Session : content[f] = ValueOf[s] /\ s \notin starting /\ Claims(s, f)

\* What a journal would put back in a generated file is nothing, or is swept.
Harmless(s, f) == f \in watching[s] \/ (s \notin starting /\ content[f] # ValueOf[s])
GeneratedOrig ==
  \A s \in Session, f \in Generated :
    Held(s, f) => Orig(s, f) = NoValue \/ (Orig(s, f) = ValueOf[s] /\ Harmless(s, f))

\* A file that a restore is done with no longer needs its journal.
Processed ==
  txn.at = "restore" /\ ~txn.errors =>
    \A f \in File \ txn.files : Held(txn.s, f) =>
      IF f \in Generated THEN f \in txn.missed \/ Harmless(txn.s, f)
      ELSE content[f] = ValueOf[txn.s] => Orig(txn.s, f) = ValueOf[txn.s]

GuardInv == GuardTypeOK /\ OneClaim /\ TxnHolds /\ LateValues /\ GeneratedOrig /\ Processed

-----------------------------------------------------------------------------
LEMMA GuardStarts == GuardInit => GuardInv
<1> SUFFICES ASSUME GuardInit PROVE GuardInv
  OBVIOUS
<1> USE GuardAssumption DEF GuardInit
<1>1. /\ NoTxn \in Txn /\ NoTxn.at = "idle"
      /\ \A s \in Session, f \in File : ~Held(s, f)
      /\ \A s \in Session, f \in File : ~Watched(s, f)
  BY DEF NoTxn, Txn, Held, Free, Watched
<1>2. GuardTypeOK
  BY <1>1 DEF GuardTypeOK, Free
<1> QED  BY <1>1, <1>2 DEF GuardInv, OneClaim, Claims, TxnHolds, LateValues, GeneratedOrig, Processed

\* What Noted makes of a journal.
LEMMA NotedJournal ==
  ASSUME GuardTypeOK, NEW s \in Session, NEW f \in File
  PROVE  /\ Noted(s, f) \in [Session -> [File -> [held : BOOLEAN, orig : Value \cup {NoValue}]]]
         /\ Noted(s, f)[s][f].held
         /\ \A o \in Session, g \in File :
              (o # s \/ g # f \/ Held(o, g)) => Noted(s, f)[o][g] = journal[o][g]
         /\ ~Held(s, f) => Noted(s, f)[s][f].orig = content[f]
<1> USE DEF GuardTypeOK, Noted, Held
<1> DEFINE e == IF journal[s][f].held THEN journal[s][f] ELSE [held |-> TRUE, orig |-> content[f]]
<1>1. e \in [held : BOOLEAN, orig : Value \cup {NoValue}] /\ e.held
  OBVIOUS
<1>2. Noted(s, f) = [journal EXCEPT ![s] = [journal[s] EXCEPT ![f] = e]]
  OBVIOUS
<1>3. [journal[s] EXCEPT ![f] = e] \in [File -> [held : BOOLEAN, orig : Value \cup {NoValue}]]
  BY <1>1
<1> QED  BY <1>1, <1>2, <1>3

LEMMA ApplyKeeps ==
  ASSUME GuardInv, NEW s \in Session, NEW f \in File, Apply(s, f) PROVE GuardInv'
<1> USE GuardAssumption DEF GuardInv
<1>1. /\ journal' = Noted(s, f) /\ f \notin Generated /\ txn.at = "idle"
      /\ \A o \in Session \ {s} : ~Held(o, f)
      /\ content' = content /\ watching' = watching /\ starting' = starting
  BY DEF Apply, Unlocked, Held
<1>2. txn' \in Txn /\ txn'.at = "write" /\ txn'.s = s /\ txn'.files = {f} /\ txn'.missed = {} /\ ~txn'.errors
  <2>1. txn' = [NoTxn EXCEPT !.at = "write", !.s = s, !.files = {f}]
    BY DEF Apply
  <2> QED  BY <2>1 DEF NoTxn, Txn
<1>3. GuardTypeOK'
  BY <1>1, <1>2, NotedJournal DEF GuardTypeOK
<1>4. /\ \A o \in Session, g \in File : Held(o, g)' => Held(o, g) \/ (o = s /\ g = f)
      /\ \A o \in Session, g \in Generated : Held(o, g)' = Held(o, g) /\ Orig(o, g)' = Orig(o, g)
      /\ \A o \in Session, g \in File : Held(o, g) => Held(o, g)'
      /\ Held(s, f)'
  <2>1. /\ \A o \in Session, g \in File : (o # s \/ g # f \/ Held(o, g)) => journal'[o][g] = journal[o][g]
        /\ journal'[s][f].held
    BY <1>1, NotedJournal
  <2> HIDE DEF GuardInv
  <2> QED  BY <1>1, <2>1 DEF Held, Orig
<1>5. \A o \in Session, g \in File : Watched(o, g)' = Watched(o, g) /\ (Watched(o, g) => g \in Generated)
  BY <1>1, <1>2 DEF Watched, GuardTypeOK, Txn
<1>6. OneClaim'
  BY <1>1, <1>4, <1>5 DEF OneClaim, Claims
<1>7. TxnHolds'
  BY <1>1, <1>2, <1>4 DEF TxnHolds
<1>8. LateValues'
  BY <1>1, <1>4, <1>5 DEF LateValues, Claims
<1>9. GeneratedOrig'
  BY <1>1, <1>4 DEF GeneratedOrig, Harmless
<1>10. Processed'
  BY <1>2 DEF Processed
<1> QED  BY <1>3, <1>6, <1>7, <1>8, <1>9, <1>10

LEMMA WriteKeeps ==
  ASSUME GuardInv, Write PROVE GuardInv'
<1> USE GuardAssumption DEF GuardInv
<1>1. /\ journal' = journal /\ watching' = watching /\ starting' = starting
      /\ txn.at = "write" /\ txn.s \in Session /\ txn.files \subseteq File /\ txn.missed = {}
      /\ txn.files \cap Generated = {} /\ ~txn.errors
  <2>1. ~txn.errors
    BY DEF Write, TxnHolds
  <2> QED  BY <2>1 DEF Write, GuardTypeOK, Txn, TxnHolds
<1>2. /\ \A o \in Session, g \in File : Held(o, g)' = Held(o, g) /\ Orig(o, g)' = Orig(o, g)
  BY <1>1 DEF Held, Orig
<1>3. PICK f \in txn.files :
       \/ content' = [content EXCEPT ![f] = ValueOf[txn.s]] /\ txn' = NoTxn
       \/ content' = content /\ txn' = [txn EXCEPT !.at = "restore", !.files = HeldBy(txn.s)]
  BY DEF Write
<1>4. /\ txn' \in Txn /\ txn'.missed = {} /\ ~txn'.errors /\ txn'.at \in {"idle", "restore"}
      /\ txn'.at = "restore" => txn'.s = txn.s /\ txn'.files = HeldBy(txn.s)
  <2>1. HeldBy(txn.s) \subseteq File
    BY DEF HeldBy
  <2>2. NoTxn \in Txn /\ NoTxn.missed = {} /\ ~NoTxn.errors /\ NoTxn.at = "idle"
    BY DEF NoTxn, Txn
  <2> QED  BY <1>1, <1>3, <2>1, <2>2 DEF GuardTypeOK, Txn
<1>5. content' \in [File -> Value \cup {NoValue}] /\ \A g \in Generated : content'[g] = content[g]
  BY <1>1, <1>3 DEF GuardTypeOK
<1>6. GuardTypeOK'
  BY <1>1, <1>4, <1>5 DEF GuardTypeOK
<1>7. \A o \in Session, g \in File : Watched(o, g)' = Watched(o, g)
  BY <1>1, <1>4 DEF Watched
<1>8. OneClaim'
  BY <1>2, <1>7 DEF OneClaim, Claims
<1>9. TxnHolds'
  BY <1>1, <1>4 DEF TxnHolds, HeldBy, Held
<1>10. LateValues'
  BY <1>1, <1>2, <1>5, <1>7 DEF LateValues, Claims
<1>11. GeneratedOrig'
  BY <1>1, <1>2, <1>5 DEF GeneratedOrig, Harmless
<1>12. Processed'
  BY <1>1, <1>4 DEF Processed, HeldBy, Held
<1> QED  BY <1>6, <1>8, <1>9, <1>10, <1>11, <1>12

LEMMA WatchKeeps ==
  ASSUME GuardInv, ~Overlap, NEW s \in Session, NEW f \in File, Watch(s, f) PROVE GuardInv'
<1> USE GuardAssumption DEF GuardInv
<1>1. /\ journal' = Noted(s, f) /\ f \in Generated /\ txn.at = "idle" /\ txn' = txn
      /\ \A o \in Session \ {s} : ~Held(o, f) /\ f \notin watching[o]
      /\ content' = content /\ watching' = watching /\ starting' = starting
  BY DEF Watch, Unlocked, Held
<1>2. GuardTypeOK'
  BY <1>1, NotedJournal DEF GuardTypeOK
<1>3. /\ \A o \in Session, g \in File : Held(o, g)' => Held(o, g) \/ (o = s /\ g = f)
      /\ \A o \in Session, g \in File : Held(o, g) => Held(o, g)' /\ Orig(o, g)' = Orig(o, g)
      /\ ~Held(s, f) => Orig(s, f)' = content[f]
  <2>1. /\ \A o \in Session, g \in File : (o # s \/ g # f \/ Held(o, g)) => journal'[o][g] = journal[o][g]
        /\ ~Held(s, f) => journal'[s][f].orig = content[f]
    BY <1>1, NotedJournal
  <2> HIDE DEF GuardInv
  <2> QED  BY <1>1, <2>1 DEF Held, Orig
<1>4. \A o \in Session, g \in File : Watched(o, g)' = Watched(o, g) /\ (Watched(o, g) <=> g \in watching[o])
  BY <1>1 DEF Watched
<1>5. OneClaim'
  BY <1>1, <1>3, <1>4 DEF OneClaim, Claims
<1>6. TxnHolds'
  BY <1>1 DEF TxnHolds
<1>7. LateValues'
  BY <1>1, <1>3, <1>4 DEF LateValues, Claims
<1>8. ~Held(s, f) => content[f] = NoValue \/ (content[f] = ValueOf[s] /\ f \in watching[s])
  BY <1>1, <1>4 DEF LateValues, Claims
<1>9. GeneratedOrig'
  BY <1>1, <1>3, <1>8 DEF GeneratedOrig, Harmless
<1>10. Processed'
  BY <1>1 DEF Processed
<1> QED  BY <1>2, <1>5, <1>6, <1>7, <1>9, <1>10

LEMMA BeginRestoreKeeps ==
  ASSUME GuardInv, NEW s \in Session, BeginRestore(s) PROVE GuardInv'
<1> USE GuardAssumption DEF GuardInv
<1>1. /\ journal' = journal /\ watching' = watching /\ starting' = starting /\ content' = content
      /\ txn.at = "idle"
  BY DEF BeginRestore, Unlocked
<1>2. txn' \in Txn /\ txn'.at = "restore" /\ txn'.s = s /\ txn'.files = HeldBy(s) /\ txn'.missed = {} /\ ~txn'.errors
  <2>1. txn' = [NoTxn EXCEPT !.at = "restore", !.s = s, !.files = HeldBy(s)] /\ HeldBy(s) \subseteq File
    BY DEF BeginRestore, HeldBy
  <2> QED  BY <2>1 DEF NoTxn, Txn
<1>3. GuardTypeOK'
  BY <1>1, <1>2 DEF GuardTypeOK
<1>4. \A o \in Session, g \in File : Held(o, g)' = Held(o, g) /\ Orig(o, g)' = Orig(o, g)
  BY <1>1 DEF Held, Orig
<1>5. \A o \in Session, g \in File : Watched(o, g)' = Watched(o, g)
  BY <1>1, <1>2 DEF Watched
<1>6. OneClaim'
  BY <1>4, <1>5 DEF OneClaim, Claims
<1>7. TxnHolds'
  BY <1>1, <1>2 DEF TxnHolds, HeldBy, Held
<1>8. LateValues'
  BY <1>1, <1>4, <1>5 DEF LateValues, Claims
<1>9. GeneratedOrig'
  BY <1>1, <1>4 DEF GeneratedOrig, Harmless
<1>10. Processed'
  BY <1>1, <1>2 DEF Processed, HeldBy, Held
<1> QED  BY <1>3, <1>6, <1>7, <1>8, <1>9, <1>10

LEMMA RestoreFileKeeps ==
  ASSUME GuardInv, NEW f \in File, RestoreFile(f) PROVE GuardInv'
<1> USE GuardAssumption DEF GuardInv
<1>0. PICK s \in Session : s = txn.s
  BY DEF GuardTypeOK, Txn
<1>1. /\ journal' = journal /\ watching' = watching /\ starting' = starting
      /\ txn.at = "restore" /\ f \in txn.files /\ s = txn.s /\ Held(s, f) /\ txn \in Txn
  BY <1>0 DEF RestoreFile, GuardTypeOK, Txn, TxnHolds
<1>2. /\ txn' \in Txn /\ txn'.at = "restore" /\ txn'.s = s /\ txn'.files = txn.files \ {f}
      /\ \/ /\ txn'.errors = txn.errors
            /\ txn'.missed = IF f \in Generated /\ content[f] = NoValue THEN txn.missed \cup {f} ELSE txn.missed
         \/ txn'.errors /\ txn'.missed = txn.missed
  <2>1. \/ txn' = [txn EXCEPT !.files = txn.files \ {f},
                             !.missed = IF f \in Generated /\ content[f] = NoValue
                                        THEN txn.missed \cup {f} ELSE txn.missed]
        \/ txn' = [txn EXCEPT !.files = txn.files \ {f}, !.errors = TRUE]
    BY DEF RestoreFile
  <2> DEFINE m == IF f \in Generated /\ content[f] = NoValue THEN txn.missed \cup {f} ELSE txn.missed
  <2>2. m \subseteq Generated
    BY <1>1 DEF Txn
  <2>3. \/ txn' = [txn EXCEPT !.files = txn.files \ {f}, !.missed = m]
        \/ txn' = [txn EXCEPT !.files = txn.files \ {f}, !.errors = TRUE]
    BY <2>1
  <2> HIDE DEF GuardInv, m
  <2>4. /\ txn' \in Txn /\ txn'.at = "restore" /\ txn'.s = s /\ txn'.files = txn.files \ {f}
        /\ (txn'.errors = txn.errors /\ txn'.missed = m) \/ (txn'.errors /\ txn'.missed = txn.missed)
    BY <1>1, <2>2, <2>3 DEF Txn
  <2> QED  BY <2>4 DEF m
<1>3. \/ ~txn'.errors /\ content' = IF content[f] = ValueOf[s] THEN [content EXCEPT ![f] = Orig(s, f)] ELSE content
      \/ txn'.errors /\ content' = content
      \/ txn'.errors /\ content' = IF content[f] = ValueOf[s] THEN [content EXCEPT ![f] = Orig(s, f)] ELSE content
  BY <1>1, <1>2 DEF RestoreFile, Orig, GuardTypeOK, Txn
<1>4. /\ content' \in [File -> Value \cup {NoValue}]
      /\ \A g \in File \ {f} : content'[g] = content[g]
      /\ content'[f] = content[f] \/ (content[f] = ValueOf[s] /\ content'[f] = Orig(s, f))
      /\ ~txn'.errors /\ content[f] = ValueOf[s] => content'[f] = Orig(s, f)
  <2>1. Orig(s, f) \in Value \cup {NoValue} /\ content \in [File -> Value \cup {NoValue}]
    BY <1>1 DEF GuardTypeOK, Orig
  <2> HIDE DEF GuardInv
  <2> QED  BY <1>3, <2>1
<1>5. GuardTypeOK'
  BY <1>1, <1>2, <1>4 DEF GuardTypeOK
<1>6. \A o \in Session, g \in File : Held(o, g)' = Held(o, g) /\ Orig(o, g)' = Orig(o, g)
  BY <1>1 DEF Held, Orig
<1>7. \A o \in Session, g \in File : Watched(o, g)' = Watched(o, g) /\ (Watched(o, g) <=> g \in watching[o])
  BY <1>1, <1>2 DEF Watched
<1>8. OneClaim'
  BY <1>6, <1>7 DEF OneClaim, Claims
<1>9. TxnHolds'
  <2>1. txn'.files \cup txn'.missed \subseteq txn.files \cup txn.missed
    BY <1>1, <1>2
  <2>2. txn'.files \cup txn'.missed \subseteq File
    BY <1>2 DEF Txn
  <2> QED  BY <1>1, <1>2, <1>6, <2>1, <2>2 DEF TxnHolds
<1>10. f \in Generated => \/ content'[f] = content[f]
                          \/ content'[f] = NoValue
                          \/ content'[f] = ValueOf[s] /\ content[f] = ValueOf[s]
  BY <1>1, <1>4 DEF GeneratedOrig
<1>11. LateValues'
  BY <1>1, <1>4, <1>6, <1>7, <1>10 DEF LateValues, Claims
<1>12. GeneratedOrig'
  BY <1>1, <1>4, <1>6, <1>10 DEF GeneratedOrig, Harmless
<1>13. Processed'
  <2> SUFFICES ASSUME ~txn'.errors, NEW g \in File \ txn'.files, Held(s, g)
               PROVE  IF g \in Generated THEN g \in txn'.missed \/ Harmless(s, g)'
                      ELSE content'[g] = ValueOf[s] => Orig(s, g) = ValueOf[s]
    BY <1>1, <1>2, <1>6 DEF Processed
  <2>1. CASE g # f
    BY <1>1, <1>2, <1>4, <2>1 DEF Processed, Harmless
  <2>2. CASE g = f /\ f \notin Generated
    BY <1>4, <2>2
  <2>3. CASE g = f /\ f \in Generated
    <3>1. CASE content[f] = NoValue
      BY <1>2, <2>3, <3>1
    <3>2. CASE content[f] # NoValue
      <4>1. content[f] = ValueOf[s] /\ s \notin starting
        BY <1>1, <2>3, <3>2 DEF LateValues, OneClaim, Claims
      <4>2. content'[f] = Orig(s, f)
        BY <1>4, <4>1
      <4>3. Orig(s, f) = NoValue \/ f \in watching[s]
        BY <1>1, <2>3, <4>1 DEF GeneratedOrig, Harmless
      <4>4. f \in watching[s] \/ (s \notin starting /\ content'[f] # ValueOf[s])
        BY <1>1, <4>1, <4>2, <4>3
      <4> QED  BY <1>1, <1>2, <2>3, <4>4 DEF Harmless
    <3> QED  BY <3>1, <3>2
  <2> QED  BY <2>1, <2>2, <2>3
<1> QED  BY <1>5, <1>8, <1>9, <1>11, <1>12, <1>13

LEMMA DropJournalKeeps ==
  ASSUME GuardInv, DropJournal PROVE GuardInv'
<1> USE GuardAssumption DEF GuardInv
<1>0. PICK s \in Session : s = txn.s
  BY DEF GuardTypeOK, Txn
<1>1. /\ content' = content /\ watching' = watching /\ starting' = starting
      /\ txn.at = "restore" /\ txn.files = {} /\ s = txn.s /\ txn \in Txn
      /\ journal' = IF txn.errors THEN journal ELSE [journal EXCEPT ![s] = [f \in File |-> Free]]
  BY <1>0 DEF DropJournal, GuardTypeOK, Txn
<1>2. /\ txn' \in Txn /\ txn'.s = s /\ txn'.missed = txn.missed
      /\ txn'.at = IF txn.errors \/ txn.missed = {} THEN "sweep" ELSE "remember"
  BY <1>1 DEF DropJournal, Txn
<1>3. GuardTypeOK'
  BY <1>1, <1>2 DEF GuardTypeOK, Free
<1>4. /\ \A o \in Session, g \in File : o # s \/ txn.errors => Held(o, g)' = Held(o, g) /\ Orig(o, g)' = Orig(o, g)
      /\ ~txn.errors => \A g \in File : ~Held(s, g)'
  <2>1. CASE txn.errors
    BY <1>1, <2>1 DEF Held, Orig
  <2>2. CASE ~txn.errors
    <3>1. /\ \A o \in Session : o # s => journal'[o] = journal[o]
          /\ journal'[s] = [f \in File |-> Free]
      BY <1>1, <2>2 DEF GuardTypeOK
    <3> QED  BY <2>2, <3>1 DEF Held, Orig, Free
  <2> QED  BY <2>1, <2>2
<1>5. /\ \A o \in Session, g \in File : Watched(o, g) <=> g \in watching[o]
      /\ \A o \in Session, g \in File : Watched(o, g)' <=>
           g \in watching[o] \/ (~txn.errors /\ o = s /\ g \in txn.missed)
  BY <1>1, <1>2 DEF Watched
<1>6. \A g \in txn.missed : Held(s, g)
  BY <1>1 DEF TxnHolds
<1>7. OneClaim'
  <2>1. ASSUME NEW o \in Session, NEW g \in File, Claims(o, g)' PROVE Claims(o, g)
    <3>1. CASE Held(o, g)'
      BY <1>4, <3>1 DEF Claims
    <3>2. CASE Watched(o, g)'
      BY <1>5, <1>6, <3>2 DEF Claims
    <3> QED  BY <2>1, <3>1, <3>2 DEF Claims
  <2> QED  BY <2>1 DEF OneClaim
<1>8. TxnHolds'
  BY <1>2 DEF TxnHolds
<1>9. LateValues'
  <2> SUFFICES ASSUME NEW g \in Generated, content[g] # NoValue
               PROVE  \E o \in Session : content[g] = ValueOf[o] /\ o \notin starting /\ Claims(o, g)'
    BY <1>1 DEF LateValues
  <2>1. PICK o \in Session : content[g] = ValueOf[o] /\ o \notin starting /\ Claims(o, g)
    BY DEF LateValues
  <2>2. CASE o # s \/ txn.errors \/ g \in watching[o]
    BY <1>4, <1>5, <2>1, <2>2 DEF Claims
  <2>3. CASE o = s /\ ~txn.errors /\ g \notin watching[o]
    <3>1. Held(s, g)
      BY <1>5, <2>1, <2>3 DEF Claims
    <3>2. g \in txn.missed
      BY <1>1, <2>1, <2>3, <3>1 DEF Processed, Harmless
    <3> QED  BY <1>5, <2>1, <2>3, <3>2 DEF Claims
  <2> QED  BY <2>2, <2>3
<1>10. GeneratedOrig'
  <2>1. ASSUME NEW o \in Session, NEW g \in Generated, Held(o, g)' PROVE Held(o, g) /\ Orig(o, g)' = Orig(o, g)
    BY <1>4, <2>1
  <2> HIDE DEF GuardInv
  <2>2. GeneratedOrig
    BY DEF GuardInv
  <2> QED  BY <1>1, <2>1, <2>2 DEF GeneratedOrig, Harmless
<1>11. Processed'
  BY <1>2 DEF Processed
<1> QED  BY <1>3, <1>7, <1>8, <1>9, <1>10, <1>11

LEMMA RememberKeeps ==
  ASSUME GuardInv, Remember PROVE GuardInv'
<1> USE GuardAssumption DEF GuardInv, Remember, GuardTypeOK, Txn, Unlocked, Noted, NoTxn, HeldBy, Free
<1>1. GuardTypeOK'
  OBVIOUS
<1> USE DEF Held, Orig, Claims, Watched
<1>2. OneClaim'
  BY <1>1 DEF OneClaim, TxnHolds
<1>3. TxnHolds'
  BY <1>1 DEF TxnHolds
<1>4. LateValues'
  BY ZenonT(60), <1>1 DEF LateValues, OneClaim, TxnHolds
<1>5. GeneratedOrig'
  BY <1>1 DEF GeneratedOrig, Harmless, LateValues, OneClaim
<1>6. Processed'
  BY <1>1 DEF Processed, Harmless, LateValues, OneClaim, GeneratedOrig
<1> QED  BY <1>1, <1>2, <1>3, <1>4, <1>5, <1>6

LEMMA SweepKeeps ==
  ASSUME GuardInv, NEW s \in Session, NEW f \in File, Sweep(s, f) PROVE GuardInv'
<1> USE GuardAssumption DEF GuardInv, Sweep, GuardTypeOK, Txn, Unlocked, Noted, NoTxn, HeldBy, Free
<1>1. GuardTypeOK'
  OBVIOUS
<1> USE DEF Held, Orig, Claims, Watched
<1>2. OneClaim'
  BY <1>1 DEF OneClaim, TxnHolds
<1>3. TxnHolds'
  BY <1>1 DEF TxnHolds
<1>4. LateValues'
  BY <1>1 DEF LateValues, OneClaim, TxnHolds
<1>5. GeneratedOrig'
  BY <1>1 DEF GeneratedOrig, Harmless, LateValues, OneClaim
<1>6. Processed'
  BY <1>1 DEF Processed, Harmless, LateValues, OneClaim, GeneratedOrig
<1> QED  BY <1>1, <1>2, <1>3, <1>4, <1>5, <1>6

LEMMA EndRestoreKeeps ==
  ASSUME GuardInv, EndRestore PROVE GuardInv'
<1> USE GuardAssumption DEF GuardInv, EndRestore, GuardTypeOK, Txn, Unlocked, Noted, NoTxn, HeldBy, Free
<1>1. GuardTypeOK'
  OBVIOUS
<1> USE DEF Held, Orig, Claims, Watched
<1>2. OneClaim'
  BY <1>1 DEF OneClaim, TxnHolds
<1>3. TxnHolds'
  BY <1>1 DEF TxnHolds
<1>4. LateValues'
  BY <1>1 DEF LateValues, OneClaim, TxnHolds
<1>5. GeneratedOrig'
  BY <1>1 DEF GeneratedOrig, Harmless, LateValues, OneClaim
<1>6. Processed'
  BY <1>1 DEF Processed, Harmless, LateValues, OneClaim, GeneratedOrig
<1> QED  BY <1>1, <1>2, <1>3, <1>4, <1>5, <1>6

LEMMA ExpireKeeps ==
  ASSUME GuardInv, NEW s \in Session, Expire(s) PROVE GuardInv'
<1> USE GuardAssumption DEF GuardInv, Expire, GuardTypeOK, Txn, Unlocked, Noted, NoTxn, HeldBy, Free
<1>1. GuardTypeOK'
  OBVIOUS
<1> USE DEF Held, Orig, Claims, Watched
<1>2. OneClaim'
  BY <1>1 DEF OneClaim, TxnHolds
<1>3. TxnHolds'
  BY <1>1 DEF TxnHolds
<1>4. LateValues'
  BY <1>1 DEF LateValues, OneClaim, TxnHolds
<1>5. GeneratedOrig'
  BY <1>1 DEF GeneratedOrig, Harmless, LateValues, OneClaim
<1>6. Processed'
  BY <1>1 DEF Processed, Harmless, LateValues, OneClaim, GeneratedOrig
<1> QED  BY <1>1, <1>2, <1>3, <1>4, <1>5, <1>6

LEMMA GenerateKeeps ==
  ASSUME GuardInv, ~Torn, NEW s \in Session, Generate(s) PROVE GuardInv'
<1> USE GuardAssumption DEF GuardInv, Generate, GuardTypeOK, Txn, Unlocked, Noted, NoTxn, HeldBy, Free
<1>1. GuardTypeOK'
  OBVIOUS
<1> USE DEF Held, Orig, Claims, Watched
<1>2. OneClaim'
  BY <1>1 DEF OneClaim, TxnHolds
<1>3. TxnHolds'
  BY <1>1 DEF TxnHolds
<1>4. LateValues'
  BY <1>1 DEF LateValues, OneClaim, TxnHolds
<1>5. GeneratedOrig'
  BY <1>1 DEF GeneratedOrig, Harmless, LateValues, OneClaim
<1>6. Processed'
  BY <1>1 DEF Processed, Harmless, LateValues, OneClaim, GeneratedOrig
<1> QED  BY <1>1, <1>2, <1>3, <1>4, <1>5, <1>6

LEMMA EditKeeps ==
  ASSUME GuardInv, NEW f \in File, NEW v \in Value, Edit(f, v) PROVE GuardInv'
<1> USE GuardAssumption DEF GuardInv, Edit, GuardTypeOK, Txn, Unlocked, Noted, NoTxn, HeldBy, Free
<1>1. GuardTypeOK'
  OBVIOUS
<1> USE DEF Held, Orig, Claims, Watched
<1>2. OneClaim'
  BY <1>1 DEF OneClaim, TxnHolds
<1>3. TxnHolds'
  BY <1>1 DEF TxnHolds
<1>4. LateValues'
  BY <1>1 DEF LateValues, OneClaim, TxnHolds
<1>5. GeneratedOrig'
  BY <1>1 DEF GeneratedOrig, Harmless, LateValues, OneClaim
<1>6. Processed'
  BY <1>1 DEF Processed, Harmless, LateValues, OneClaim, GeneratedOrig
<1> QED  BY <1>1, <1>2, <1>3, <1>4, <1>5, <1>6

LEMMA CrashKeeps ==
  ASSUME GuardInv, ~Torn, Crash PROVE GuardInv'
<1>0. /\ ~Unlocked /\ txn' = NoTxn /\ content' = content /\ starting' \subseteq starting
      /\ txn.at = "remember" =>
           txn.s \notin starting' /\ \A f \in txn.missed : content[f] # ValueOf[txn.s]
      /\ txn.at # "remember" => starting' = starting
      /\ faults > 0 /\ faults' = faults - 1 /\ UNCHANGED <<journal, watching, ended, interventions>>
  BY DEF GuardInv, GuardTypeOK, Crash
<1> USE GuardAssumption DEF GuardInv, GuardTypeOK, Txn, Unlocked, Noted, NoTxn, HeldBy, Free
<1>1. GuardTypeOK'
  BY <1>0
<1> USE DEF Held, Orig, Claims, Watched
<1>2. OneClaim'
  BY <1>0, <1>1 DEF OneClaim, TxnHolds
<1>3. TxnHolds'
  BY <1>0, <1>1 DEF TxnHolds
<1>4. LateValues'
  BY <1>0, <1>1 DEF LateValues, OneClaim, TxnHolds
<1>5. GeneratedOrig'
  BY <1>0, <1>1 DEF GeneratedOrig, Harmless, LateValues, OneClaim
<1>6. Processed'
  BY <1>0, <1>1 DEF Processed, Harmless, LateValues, OneClaim, GeneratedOrig
<1> QED  BY <1>1, <1>2, <1>3, <1>4, <1>5, <1>6

\* While no session watches what an ended one looks for, and no restore dies
\* between its two saves, GuardInv is inductive.
LEMMA GuardKeeps ==
  ASSUME ~Overlap, ~Torn, GuardInv, [GuardNext]_guardVars PROVE GuardInv'
<1>1. CASE UNCHANGED guardVars
  BY <1>1 DEF guardVars, GuardInv, GuardTypeOK, OneClaim, TxnHolds, LateValues, GeneratedOrig, Processed, Harmless,
              Claims, Held, Orig, Watched
<1>2. CASE GuardNext
  BY <1>2, ApplyKeeps, WatchKeeps, SweepKeeps, BeginRestoreKeeps, ExpireKeeps, GenerateKeeps, WriteKeeps,
     DropJournalKeeps, RememberKeeps, EndRestoreKeeps, CrashKeeps, RestoreFileKeeps, EditKeeps DEF GuardNext
<1> QED  BY <1>1, <1>2

-----------------------------------------------------------------------------
(* The refinement.                                                          *)

\* What the owner would find: nothing in a generated file, the original of what
\* is lent, and what is there otherwise.
OwnView ==
  \A f \in File :
    IF f \in Generated THEN OwnContent[f] = NoValue
    ELSE /\ \A s \in Session : Lent(s, f) => OwnContent[f] = Orig(s, f)
         /\ (\A s \in Session : ~Lent(s, f)) => OwnContent[f] = content[f]

LEMMA OwnShape == GuardInv => OwnView
<1> SUFFICES ASSUME GuardInv, NEW f \in File
             PROVE  IF f \in Generated THEN OwnContent[f] = NoValue
                    ELSE /\ \A s \in Session : Lent(s, f) => OwnContent[f] = Orig(s, f)
                         /\ (\A s \in Session : ~Lent(s, f)) => OwnContent[f] = content[f]
  BY DEF OwnView
<1> DEFINE base == IF \E s \in Session : Lent(s, f)
                   THEN journal[CHOOSE s \in Session : Lent(s, f)][f].orig ELSE content[f]
<1>1. OwnContent[f] = Swept(f, base)
  BY DEF OwnContent
<1>2. /\ \A s \in Session : Lent(s, f) => base = Orig(s, f)
      /\ (\A s \in Session : ~Lent(s, f)) => base = content[f]
  <2>1. ASSUME NEW s \in Session, Lent(s, f) PROVE base = Orig(s, f)
    <3>1. PICK o \in Session : o = (CHOOSE s1 \in Session : Lent(s1, f)) /\ Lent(o, f)
      BY <2>1
    <3>2. o = s
      BY <2>1, <3>1 DEF GuardInv, OneClaim, Claims, Held, Lent
    <3> QED  BY <2>1, <3>1, <3>2 DEF Orig
  <2> QED  BY <2>1
<1> HIDE DEF base
<1>3. CASE f \notin Generated
  <2>1. \A s \in Session : ~Watched(s, f)
    BY <1>3 DEF GuardInv, GuardTypeOK, Txn, Watched
  <2>2. OwnContent[f] = base
    BY <1>1, <2>1 DEF Swept
  <2> QED  BY <1>2, <1>3, <2>2
<1>4. CASE f \in Generated
  <2>1. CASE \E s \in Session : Lent(s, f)
    <3>1. PICK s \in Session : Lent(s, f)
      BY <2>1
    <3>2. base = Orig(s, f) /\ content[f] = ValueOf[s] /\ Held(s, f)
      BY <1>2, <3>1 DEF Lent, Held
    <3>3. Orig(s, f) = NoValue \/ (Orig(s, f) = ValueOf[s] /\ f \in watching[s])
      BY <1>4, <3>2 DEF GuardInv, GeneratedOrig, Harmless
    <3> QED  BY <1>1, <1>4, <3>2, <3>3 DEF Swept, Watched
  <2>2. CASE \A s \in Session : ~Lent(s, f)
    <3>1. base = content[f]
      BY <1>2, <2>2
    <3>2. content[f] = NoValue \/ \E s \in Session : content[f] = ValueOf[s] /\ Watched(s, f)
      BY <1>4, <2>2 DEF GuardInv, LateValues, Claims, Held, Lent
    <3> QED  BY <1>1, <1>4, <3>1, <3>2 DEF Swept
  <2> QED  BY <1>4, <2>1, <2>2
<1> QED  BY <1>3, <1>4

\* Where neither what is in the file nor what the journal says of it changes,
\* its owner notices nothing.
LEMMA Unnoticed ==
  ASSUME OwnView, OwnView', NEW f \in File,
         \/ f \in Generated
         \/ /\ content'[f] = content[f]
            /\ \A s \in Session : (Held(s, f)' <=> Held(s, f)) /\ (Held(s, f) => Orig(s, f)' = Orig(s, f))
  PROVE  OwnContent'[f] = OwnContent[f]
BY DEF OwnView, Lent, Held

\* Each step of the guard is invisible to the owners, or an intervention.
LEMMA StepRefines ==
  ASSUME GuardInv, GuardInv', OwnView, OwnView', [GuardNext]_guardVars
  PROVE  [\E f \in File : Owner!Intervene(f)]_<<OwnContent, interventions>>
<1> USE GuardAssumption
<1>0. /\ OwnContent = [f \in File |-> OwnContent[f]] /\ OwnContent' = [f \in File |-> OwnContent'[f]]
  BY DEF OwnContent
<1>1. ASSUME \A f \in File : OwnContent'[f] = OwnContent[f], interventions' = interventions
      PROVE  UNCHANGED <<OwnContent, interventions>>
  BY <1>0, <1>1
<1>2. ASSUME content' = content, interventions' = interventions,
             \A s \in Session, f \in File \ Generated :
               (Held(s, f)' <=> Held(s, f)) /\ (Held(s, f) => Orig(s, f)' = Orig(s, f))
      PROVE  UNCHANGED <<OwnContent, interventions>>
  BY <1>1, <1>2, Unnoticed
<1>3. ASSUME journal' = journal, interventions' = interventions,
             \A f \in File \ Generated : content'[f] = content[f]
      PROVE  UNCHANGED <<OwnContent, interventions>>
  BY <1>1, <1>3, Unnoticed DEF Held, Orig
<1>4. CASE UNCHANGED guardVars
  BY <1>3, <1>4 DEF guardVars
<1>5. ASSUME NEW s \in Session, NEW f \in File, Apply(s, f) PROVE UNCHANGED <<OwnContent, interventions>>
  <2>1. /\ content' = content /\ interventions' = interventions /\ f \notin Generated
        /\ journal' = Noted(s, f) /\ \A o \in Session \ {s} : ~Held(o, f)
    BY <1>5 DEF Apply, Held
  <2>2. /\ \A o \in Session, g \in File : (o # s \/ g # f \/ Held(o, g)) => journal'[o][g] = journal[o][g]
        /\ ~Held(s, f) => journal'[s][f].orig = content[f]
    BY <2>1, NotedJournal DEF GuardInv
  <2>3. ASSUME NEW g \in File, g # f \/ Held(s, f) PROVE OwnContent'[g] = OwnContent[g]
    <3>1. \A o \in Session : Held(o, g)' = Held(o, g) /\ Orig(o, g)' = Orig(o, g)
      BY <2>1, <2>2, <2>3 DEF Held, Orig
    <3> QED  BY <2>1, <3>1, Unnoticed
  <2>4. CASE ~Held(s, f)
    <3>1. OwnContent[f] = content[f]
      BY <2>1, <2>4 DEF OwnView, Lent, Held
    <3>2. \A o \in Session : Lent(o, f)' => o = s
      BY <2>1, <2>2 DEF Lent, Held
    <3>3. Orig(s, f)' = content[f]
      BY <2>2, <2>4 DEF Orig
    <3>4. OwnContent'[f] = content[f]
      BY <2>1, <3>2, <3>3 DEF OwnView
    <3> QED  BY <1>1, <2>1, <2>3, <3>1, <3>4
  <2> QED  BY <1>1, <2>1, <2>3, <2>4
<1>6. ASSUME Write PROVE [\E f \in File : Owner!Intervene(f)]_<<OwnContent, interventions>>
  <2>1. PICK s \in Session, f \in txn.files :
          /\ s = txn.s
          /\ \/ /\ content' = [content EXCEPT ![f] = ValueOf[s]]
                /\ interventions' = IF Overrides(s, f) THEN interventions + 1 ELSE interventions
             \/ content' = content /\ interventions' = interventions
    BY <1>6 DEF Write, GuardInv, GuardTypeOK, Txn
  <2>2. journal' = journal /\ f \in File \ Generated /\ Held(s, f)
    BY <1>6, <2>1 DEF Write, GuardInv, GuardTypeOK, Txn, TxnHolds
  <2>3. CASE content' = content /\ interventions' = interventions
    BY <1>3, <2>2, <2>3
  <2>4. CASE /\ content' = [content EXCEPT ![f] = ValueOf[s]]
             /\ interventions' = IF Overrides(s, f) THEN interventions + 1 ELSE interventions
    <3>1. content'[f] = ValueOf[s] /\ \A g \in File \ {f} : content'[g] = content[g]
      BY <2>2, <2>4 DEF GuardInv, GuardTypeOK
    <3>2. \A g \in File \ {f} : OwnContent'[g] = OwnContent[g]
      BY <2>2, <3>1, Unnoticed DEF Held, Orig
    <3>3. CASE Overrides(s, f)
      <4>1. interventions' = interventions + 1
        BY <2>4, <3>3
      <4> QED  BY <2>2, <3>2, <4>1 DEF Owner!Intervene
    <3>4. CASE ~Overrides(s, f)
      <4>1. \A o \in Session : Held(o, f) => o = s
        BY <2>2 DEF GuardInv, OneClaim, Claims
      <4>2. OwnContent[f] = Orig(s, f)
        <5>1. CASE content[f] = ValueOf[s]
          BY <2>2, <5>1 DEF OwnView, Lent, Held
        <5>2. CASE content[f] # ValueOf[s]
          <6>1. content[f] = Orig(s, f)
            BY <2>2, <3>4, <5>2 DEF Overrides, Held, Orig
          <6>2. \A o \in Session : ~Lent(o, f)
            BY <4>1, <5>2 DEF Lent, Held
          <6> QED  BY <2>2, <6>1, <6>2 DEF OwnView
        <5> QED  BY <5>1, <5>2
      <4>3. Lent(s, f)' /\ Orig(s, f)' = Orig(s, f)
        BY <2>2, <3>1 DEF Lent, Held, Orig
      <4>4. OwnContent'[f] = Orig(s, f)
        BY <2>2, <4>3 DEF OwnView
      <4> QED  BY <1>1, <2>4, <3>2, <3>4, <4>2, <4>4
    <3> QED  BY <3>3, <3>4
  <2> QED  BY <2>1, <2>3, <2>4
<1>7. ASSUME NEW s \in Session, NEW f \in File, Watch(s, f) PROVE UNCHANGED <<OwnContent, interventions>>
  <2>1. content' = content /\ interventions' = interventions /\ f \in Generated /\ journal' = Noted(s, f)
    BY <1>7 DEF Watch
  <2>2. \A o \in Session, g \in File \ {f} : journal'[o][g] = journal[o][g]
    BY <2>1, NotedJournal DEF GuardInv
  <2> QED  BY <1>2, <2>1, <2>2 DEF Held, Orig
<1>8. ASSUME NEW f \in File, RestoreFile(f) PROVE UNCHANGED <<OwnContent, interventions>>
  <2>1. PICK s \in Session : s = txn.s
    BY DEF GuardInv, GuardTypeOK, Txn
  <2>2. /\ journal' = journal /\ interventions' = interventions /\ Held(s, f)
        /\ \/ content' = content
           \/ content[f] = ValueOf[s] /\ content' = [content EXCEPT ![f] = Orig(s, f)]
    BY <1>8, <2>1 DEF RestoreFile, GuardInv, TxnHolds, Orig
  <2>3. CASE content' = content \/ f \in Generated
    BY <1>3, <2>2, <2>3 DEF GuardInv, GuardTypeOK
  <2>4. CASE f \notin Generated /\ content[f] = ValueOf[s] /\ content' = [content EXCEPT ![f] = Orig(s, f)]
    <3>1. content'[f] = Orig(s, f) /\ \A g \in File \ {f} : content'[g] = content[g]
      BY <2>4 DEF GuardInv, GuardTypeOK
    <3>2. \A g \in File \ {f} : OwnContent'[g] = OwnContent[g]
      BY <2>2, <3>1, Unnoticed DEF Held, Orig
    <3>3. OwnContent[f] = Orig(s, f)
      BY <2>2, <2>4 DEF OwnView, Lent, Held
    <3>4. \A o \in Session : Lent(o, f)' => o = s
      BY <2>2 DEF GuardInv, OneClaim, Claims, Lent, Held
    <3>5. OwnContent'[f] = Orig(s, f)
      <4>1. Orig(s, f)' = Orig(s, f)
        BY <2>2 DEF Orig
      <4> QED  BY <2>4, <3>1, <3>4, <4>1 DEF OwnView
    <3> QED  BY <1>1, <2>2, <3>2, <3>3, <3>5
  <2> QED  BY <2>2, <2>3, <2>4
<1>9. ASSUME DropJournal PROVE UNCHANGED <<OwnContent, interventions>>
  <2>1. PICK s \in Session : s = txn.s
    BY DEF GuardInv, GuardTypeOK, Txn
  <2>2. /\ content' = content /\ interventions' = interventions /\ txn.at = "restore" /\ txn.files = {}
        /\ journal' = IF txn.errors THEN journal ELSE [journal EXCEPT ![s] = [f \in File |-> Free]]
    BY <1>9, <2>1 DEF DropJournal
  <2>3. CASE txn.errors
    BY <1>3, <2>2, <2>3
  <2>4. CASE ~txn.errors
    <3>1. /\ \A o \in Session : o # s => journal'[o] = journal[o]
          /\ journal'[s] = [f \in File |-> Free]
      BY <2>2, <2>4 DEF GuardInv, GuardTypeOK
    <3>2. /\ \A o \in Session \ {s}, g \in File : Held(o, g)' = Held(o, g) /\ Orig(o, g)' = Orig(o, g)
          /\ \A g \in File : ~Held(s, g)'
      BY <3>1 DEF Held, Orig, Free
    <3>3. ASSUME NEW g \in File PROVE OwnContent'[g] = OwnContent[g]
      <4>1. CASE ~Held(s, g) \/ g \in Generated
        <5>1. g \in Generated \/ \A o \in Session :
                (Held(o, g)' <=> Held(o, g)) /\ (Held(o, g) => Orig(o, g)' = Orig(o, g))
          BY <3>2, <4>1
        <5> QED  BY <2>2, <5>1, Unnoticed
      <4>2. CASE Held(s, g) /\ g \notin Generated
        <5>1. \A o \in Session : Held(o, g) => o = s
          BY <4>2 DEF GuardInv, OneClaim, Claims
        <5>2. content[g] = ValueOf[s] => Orig(s, g) = ValueOf[s]
          BY <2>1, <2>2, <2>4, <4>2 DEF GuardInv, Processed
        <5>3. OwnContent[g] = content[g]
          BY <4>2, <5>1, <5>2 DEF OwnView, Lent, Held
        <5>4. \A o \in Session : ~Lent(o, g)'
          BY <3>2, <5>1 DEF Lent, Held
        <5> QED  BY <2>2, <4>2, <5>3, <5>4 DEF OwnView
      <4> QED  BY <4>1, <4>2
    <3> QED  BY <1>1, <2>2, <3>3
  <2> QED  BY <2>3, <2>4
<1>10. ASSUME NEW f \in File, NEW v \in Value, Edit(f, v) PROVE Owner!Intervene(f)
  <2>1. /\ journal' = journal /\ interventions' = interventions + 1
        /\ \A g \in File \ {f} : content'[g] = content[g]
    BY <1>10 DEF Edit, GuardInv, GuardTypeOK
  <2>2. \A g \in File \ {f} : OwnContent'[g] = OwnContent[g]
    BY <2>1, Unnoticed DEF Held, Orig
  <2> QED  BY <2>1, <2>2 DEF Owner!Intervene
<1>11. ASSUME NEW s \in Session, NEW f \in File, Sweep(s, f) PROVE UNCHANGED <<OwnContent, interventions>>
  BY <1>3, <1>11 DEF Sweep, GuardInv, GuardTypeOK
<1>12. ASSUME NEW s \in Session, Generate(s) PROVE UNCHANGED <<OwnContent, interventions>>
  BY <1>3, <1>12 DEF Generate
<1>13. ASSUME \/ \E s \in Session : BeginRestore(s) \/ Expire(s)
              \/ Remember \/ EndRestore \/ Crash
       PROVE  UNCHANGED <<OwnContent, interventions>>
  <2>1. Crash => /\ journal' = journal /\ interventions' = interventions
                 /\ \A f \in File \ Generated : content'[f] = content[f]
    BY DEF Crash, GuardInv, GuardTypeOK, Txn
  <2> QED  BY <1>3, <1>13, <2>1 DEF BeginRestore, Expire, Remember, EndRestore
<1> QED  BY <1>4, <1>5, <1>6, <1>7, <1>8, <1>9, <1>10, <1>11, <1>12, <1>13 DEF GuardNext

\* Borrowing the settings of emulators is invisible to their owners, for any
\* files, sessions, edits, failing writes and crashes but two: no session watches
\* a file that an ended one still looks for, and the process does not die between
\* the two saves of a restore (_restore drops the journal before it remembers
\* what it missed).
THEOREM SettingsComeBack ==
  ASSUME ~Overlap, ~Torn PROVE GuardSpec => SettingsAreBorrowed
<1>1. GuardInit => GuardInv /\ interventions = 0
  BY GuardStarts DEF GuardInit
<1>2. GuardInv /\ [GuardNext]_guardVars => GuardInv'
  BY GuardKeeps
<1>3. GuardInv => OwnView
  BY OwnShape
<1>4. GuardInv /\ GuardInv' /\ OwnView /\ OwnView' /\ [GuardNext]_guardVars
        => [\E f \in File : Owner!Intervene(f)]_<<OwnContent, interventions>>
  BY StepRefines
<1> QED  BY <1>1, <1>2, <1>3, <1>4, PTL DEF GuardSpec, SettingsAreBorrowed, Owner!OwnSpec

=============================================================================
