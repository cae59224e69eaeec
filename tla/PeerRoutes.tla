------------------------------- MODULE PeerRoutes -------------------------------
(***************************************************************************)
(* How a Drone reaches a paired peer: the routes that it tries in turn and *)
(* the certificate that it expects there, and how pairing, asked for or    *)
(* answered, pins that certificate (app/transfer/peer_connectivity.py,     *)
(* app/web/handlers_network.py and handlers_peer.py).                      *)
(***************************************************************************)
EXTENDS Naturals, FiniteSets

CONSTANTS
  Route,        \* the addresses that the peer's metadata may name
  Order,        \* how they are tried: by kind, then as the metadata names them
  Named,        \* those with a host name to resolve
  Secure,       \* those that speak TLS
  Cert,         \* certificates; the peer's first one is Original
  Original, NoCert,
  Metadata,     \* the routes of a paired peer at first
  Dialer, Pairer,
  RouteBounds   \* how many calls, pairings, faults...; see RouteInit

VARIABLES
  row,          \* the paired peer: its pin, whether it was paired over TLS, its routes
  pinFile,      \* the certificate that connections to it are checked against
  answers,      \* who answers on a route: the peer, somebody else, nobody
  peerCert,     \* the certificate that the peer has
  held,         \* this Drone's identity is unresolved
  remembered,   \* the route that worked last
  unresolved,   \* names that lately failed to resolve
  callers, pairers,
  told,         \* the requests that were delivered
  routeLeft
routeVars == <<row, pinFile, answers, peerCert, held, remembered, unresolved, callers, pairers, told, routeLeft>>

NoRow == [pin |-> NoCert, tls |-> FALSE, routes |-> {}]
NoCall == [pc |-> "idle", left |-> {}, first |-> {}, tls |-> FALSE, kind |-> "ask", steady |-> TRUE]
NoPairing == [pc |-> "idle", anchor |-> NoCert, hint |-> NoCert, cert |-> NoCert, prior |-> NoCert, routes |-> {}]

Use(what) == routeLeft[what] > 0 /\ routeLeft' = [routeLeft EXCEPT ![what] = @ - 1]
At(c, pc) == callers[c].pc = pc
Put(p, pairing) == pairers' = [pairers EXCEPT ![p] = pairing]
Quiet == \A p \in Pairer : pairers[p].pc = "idle"
MayPair == (Quiet \/ routeLeft.late > 0) /\ Use("pairs")

RouteInit ==
  /\ \E tls \in BOOLEAN, routes \in Metadata :
       /\ \/ row = [pin |-> Original, tls |-> tls, routes |-> routes] /\ pinFile = Original
          \/ row = NoRow /\ pinFile = NoCert /\ tls /\ routes = Route
  /\ answers \in {[r \in Route |-> IF r = up THEN "peer" ELSE other] : up \in Route, other \in {"other", "nobody"}}
  /\ peerCert = Original /\ held = FALSE /\ remembered = {} /\ unresolved = {} /\ told = {}
  /\ callers = [c \in Dialer |-> NoCall] /\ pairers = [p \in Pairer |-> NoPairing]
  /\ routeLeft \in RouteBounds

-----------------------------------------------------------------------------
(* A call tries the routes in turn.                                        *)

\* Mutant: the routes as the metadata has them.
AllRoutes == row.routes
\* A peer that was paired over TLS has no other routes.
Candidates == IF row.tls THEN row.routes \cap Secure ELSE row.routes

\* The route that worked last goes first, if it is still one of them.  Only a
\* timely call has a deadline.
BeginCall(c) ==
  /\ At(c, "idle") /\ row # NoRow /\ Use("calls")
  /\ \E kind \in {"ask", "timely", "file", "stream"} :
       callers' = [callers EXCEPT ![c] = [NoCall EXCEPT !.pc = IF Candidates = {} THEN "failed" ELSE "dial",
                     !.left = Candidates, !.first = remembered \cap Candidates, !.tls = row.tls, !.kind = kind]]
  /\ UNCHANGED <<row, pinFile, answers, peerCert, held, remembered, unresolved, pairers, told>>

NextRoute(call) ==
  CHOOSE r \in call.left : IF call.first # {} THEN r \in call.first ELSE \A q \in call.left : Order[r] <= Order[q]
Without(call, r) == [call EXCEPT !.left = @ \ {r}, !.first = {}, !.pc = IF call.left = {r} THEN "failed" ELSE @]

\* On a TLS route the certificate decides before anything is sent.
Proven(r) == r \in Secure => (pinFile # NoCert /\ answers[r] = "peer" /\ peerCert = pinFile)
Reaches(r) == answers[r] # "nobody" /\ Proven(r)
Remember(r, good) == remembered' = IF good THEN {r} ELSE remembered

\* An answer ends the call, whatever it says, and a good one is remembered.
Deliver(c, r) ==
  /\ told' = told \cup {[tls |-> callers[c].tls, secure |-> r \in Secure, who |-> answers[r]]}
  /\ \E good \in BOOLEAN : Remember(r, good)
  /\ callers' = [callers EXCEPT ![c] = [@ EXCEPT !.pc = "answered"]]

Skip(c, r) == callers' = [callers EXCEPT ![c] = Without(@, r)] /\ UNCHANGED <<told, remembered>>

\* A name that lately failed is not looked up again; any failure to get through
\* leads to the next route.
Resolves(r) == r \notin Named \/ (r \notin unresolved /\ answers[r] # "nobody")
Looked(r) == IF r \notin Named THEN unresolved ELSE IF Resolves(r) THEN unresolved \ {r} ELSE unresolved \cup {r}

Dial(c) ==
  /\ At(c, "dial") /\ callers[c].kind \notin {"file", "stream"} /\ ~held
  /\ LET r == NextRoute(callers[c]) IN
       /\ unresolved' = Looked(r)
       /\ IF Resolves(r) /\ Reaches(r) THEN Deliver(c, r) ELSE Skip(c, r)
  /\ UNCHANGED <<row, pinFile, answers, peerCert, held, pairers, routeLeft>>

\* Files and streams are asked for without looking up names, and not at all
\* without a pin to check.
DialUnnamed(c, kind) ==
  /\ At(c, "dial") /\ callers[c].kind = kind /\ ~held
  /\ LET r == NextRoute(callers[c]) IN
       IF r \in Secure /\ pinFile = NoCert
       THEN callers' = [callers EXCEPT ![c].pc = "unpinned"] /\ UNCHANGED <<told, remembered>>
       ELSE IF Reaches(r) THEN Deliver(c, r) ELSE Skip(c, r)
  /\ UNCHANGED <<row, pinFile, answers, peerCert, held, unresolved, pairers, routeLeft>>

DialFile(c) == DialUnnamed(c, "file")
DialStream(c) == DialUnnamed(c, "stream")

\* The identity is held: nothing is sent to anybody.
Withhold(c) ==
  /\ At(c, "dial") /\ held /\ callers' = [callers EXCEPT ![c].pc = "held"]
  /\ UNCHANGED <<row, pinFile, answers, peerCert, held, remembered, unresolved, pairers, told, routeLeft>>

\* A call with a deadline may run out of time between two routes.
RunOut(c) ==
  /\ At(c, "dial") /\ callers[c].kind = "timely" /\ callers[c].first = {}
  /\ callers' = [callers EXCEPT ![c].pc = "late"]
  /\ UNCHANGED <<row, pinFile, answers, peerCert, held, remembered, unresolved, pairers, told, routeLeft>>

EndCall(c) ==
  /\ callers[c].pc \in {"answered", "failed", "held", "late", "unpinned"}
  /\ callers' = [callers EXCEPT ![c] = NoCall]
  /\ UNCHANGED <<row, pinFile, answers, peerCert, held, remembered, unresolved, pairers, told, routeLeft>>

-----------------------------------------------------------------------------
(* What changes meanwhile.  With late, two pairings or removals overlap.   *)

Disturb == callers' = [c \in Dialer |-> [callers[c] EXCEPT !.steady = FALSE]]

NetworkChanges ==
  /\ Use("changes") /\ Disturb
  /\ \/ \E r \in Route, who \in {"peer", "other", "nobody"} : answers' = [answers EXCEPT ![r] = who]
        /\ UNCHANGED <<peerCert, held, unresolved>>
     \/ peerCert' \in Cert \ {peerCert} /\ UNCHANGED <<answers, held, unresolved>>
     \/ held' = ~held /\ UNCHANGED <<answers, peerCert, unresolved>>
  /\ UNCHANGED <<row, pinFile, remembered, pairers, told>>

\* After two minutes, or for a new discovery, names are looked up again.
NamesExpire ==
  /\ unresolved # {} /\ Use("changes") /\ unresolved' = {} /\ Disturb
  /\ UNCHANGED <<row, pinFile, answers, peerCert, held, remembered, pairers, told>>

\* The operator forgets the peer: first the row and its route, then the file.
Forget(p) ==
  /\ pairers[p].pc = "idle" /\ row # NoRow /\ MayPair /\ Disturb
  /\ row' = NoRow /\ remembered' = {} /\ Put(p, [NoPairing EXCEPT !.pc = "unlink"])
  /\ UNCHANGED <<pinFile, answers, peerCert, held, unresolved, told>>

Unlink(p) ==
  /\ pairers[p].pc = "unlink" /\ pinFile' = NoCert /\ Put(p, NoPairing) /\ Disturb
  /\ UNCHANGED <<row, answers, peerCert, held, remembered, unresolved, told, routeLeft>>

-----------------------------------------------------------------------------
(* Pairing.                                                                *)

\* A peer that was paired over TLS is asked over TLS only.
NotDowngraded(routes) == row.tls => routes \cap Secure # {}
Request(p, anchor, hint) ==
  /\ pairers[p].pc = "idle" /\ ~held /\ MayPair
  /\ \E routes \in Metadata :
       /\ NotDowngraded(routes)
       /\ Put(p, [NoPairing EXCEPT !.pc = "ask", !.hint = hint, !.routes = routes, !.anchor = anchor])
  /\ UNCHANGED <<row, pinFile, answers, peerCert, held, remembered, unresolved, callers, told>>

\* The operator's request needs the pinned certificate or one that the operator
\* read from the peer's screen, which may not contradict it.
AskPinned(p) == row.pin # NoCert /\ Request(p, row.pin, NoCert)
AskConfirmed(p) == row.pin \in {NoCert, peerCert} /\ Request(p, peerCert, NoCert)

\* Between nodes of a tailnet neither is needed: what the peer said of itself
\* is checked afterwards.
AskTailnet(p) == \E hint \in Cert \cup {NoCert} : Request(p, row.pin, hint)

\* Over TLS whoever answers must prove to have the expected certificate.
Presented(p) == IF pairers[p].anchor # NoCert /\ pairers[p].routes \cap Secure # {} THEN {peerCert} ELSE Cert

\* The answer has the certificate of whoever answers; one that is not the
\* expected one changes nothing.
Answer(p) ==
  /\ pairers[p].pc = "ask"
  /\ \E cert \in Presented(p) :
       Put(p, IF pairers[p].anchor \notin {NoCert, cert} THEN NoPairing
            ELSE [pairers[p] EXCEPT !.pc = "save", !.cert = cert, !.prior = pinFile])
  /\ UNCHANGED <<row, pinFile, answers, peerCert, held, remembered, unresolved, callers, told, routeLeft>>

Pins == {row.pin, pinFile} \ {NoCert}

\* The peer asks: with the pairing code it may replace the pin, from the
\* tailnet it may not.
Asked(p) ==
  /\ pairers[p].pc = "idle" /\ MayPair
  /\ \E cert \in Cert, byCode \in BOOLEAN, routes \in Metadata :
       /\ NotDowngraded(routes)
       /\ byCode \/ Pins \subseteq {cert}
       /\ Put(p, [NoPairing EXCEPT !.pc = "save", !.anchor = cert, !.cert = cert, !.prior = pinFile,
                                      !.routes = routes])
  /\ UNCHANGED <<row, pinFile, answers, peerCert, held, remembered, unresolved, callers, told>>

SavePin(p) ==
  /\ pairers[p].pc = "save" /\ pinFile' = pairers[p].cert /\ Put(p, [pairers[p] EXCEPT !.pc = "check"]) /\ Disturb
  /\ UNCHANGED <<row, answers, peerCert, held, remembered, unresolved, told, routeLeft>>

\* A pin that turns out to be wrong is put back.
Expected(p) == IF pairers[p].anchor # NoCert THEN pairers[p].anchor ELSE pairers[p].hint
\* Mutant: a rejected pin stays where it was saved.
LeftBehind(p) == pinFile
PutBack(p) == pairers[p].prior

Check(p) ==
  /\ pairers[p].pc = "check" /\ Disturb
  /\ IF Expected(p) \in {NoCert, pairers[p].cert}
     THEN Put(p, [pairers[p] EXCEPT !.pc = "row"]) /\ UNCHANGED pinFile
     ELSE Put(p, NoPairing) /\ pinFile' = PutBack(p)
  /\ UNCHANGED <<row, answers, peerCert, held, remembered, unresolved, told, routeLeft>>

\* A peer that was paired over TLS stays so.
SaveRow(p) ==
  /\ pairers[p].pc = "row" /\ Put(p, NoPairing) /\ Disturb
  /\ LET tls == row.tls \/ pairers[p].routes \cap Secure # {} IN
     row' = [pin |-> pairers[p].cert, tls |-> tls, routes |-> row.routes \cup pairers[p].routes]
  /\ UNCHANGED <<pinFile, answers, peerCert, held, remembered, unresolved, told, routeLeft>>

\* The row cannot be saved, or the Drone stops: the pin stays.
Break(p) ==
  /\ pairers[p].pc \in {"check", "row"} /\ Use("faults") /\ Put(p, NoPairing)
  /\ UNCHANGED <<row, pinFile, answers, peerCert, held, remembered, unresolved, callers, told>>

RouteNext ==
  \/ NetworkChanges \/ NamesExpire
  \/ \E c \in Dialer :
       BeginCall(c) \/ Dial(c) \/ DialFile(c) \/ DialStream(c) \/ Withhold(c) \/ RunOut(c) \/ EndCall(c)
  \/ \E p \in Pairer :
       \/ Forget(p) \/ Unlink(p) \/ AskPinned(p) \/ AskConfirmed(p) \/ AskTailnet(p) \/ Answer(p) \/ Asked(p)
       \/ SavePin(p) \/ Check(p) \/ SaveRow(p) \/ Break(p)

RouteSpec == RouteInit /\ [][RouteNext]_routeVars

-----------------------------------------------------------------------------
\* "This is address failover, never a TLS downgrade" (docstring of
\* _peer_get_json_for_peer): what is meant for a peer that was paired over TLS
\* reaches nobody else, and a call without a deadline fails only if the peer
\* answers nowhere, unless a name is still remembered as one that fails.
NeverToAnother == \A t \in told : t.tls => (t.secure /\ t.who = "peer")
ReachableIsReached ==
  \A c \in Dialer : (At(c, "failed") /\ callers[c].steady) =>
    \A r \in Candidates : ~Reaches(r) \/ r \in unresolved
RoutesLeadToThePeer == NeverToAnother /\ ReachableIsReached

\* At rest the row and the file have the same pin: a rejected pairing leaves
\* no trace (comments in _local_pair_peer: "a rejected response must not
\* overwrite", "must not leave a pin on disk with no paired-peer row").
PinsAgree == Quiet => row.pin = pinFile

\* A call for a peer paired over TLS has TLS routes only, and those that it has
\* tried do not reach the peer, unless something changed since.
CallsKnow ==
  \A c \in Dialer :
    LET call == callers[c] IN
      /\ call.first \subseteq call.left
      /\ At(c, "dial") => call.left # {} /\ call.left \subseteq Route /\ (call.tls => call.left \subseteq Secure)
      /\ At(c, "failed") => call.left = {}
      /\ (call.pc \in {"dial", "failed"} /\ call.steady) =>
           \A r \in Candidates \ call.left : ~Reaches(r) \/ r \in unresolved

\* Without late one pairing or removal is on its way at a time, and knows what
\* the pin was.
PairingKnows(p) ==
  LET pairing == pairers[p] IN
    /\ pairing.pc \in {"ask", "save"} => row.pin = pinFile
    /\ pairing.pc = "save" => pairing.prior = pinFile
    /\ pairing.pc = "check" => pairing.prior = row.pin
    /\ pairing.pc \in {"check", "row"} => pairing.cert = pinFile
    /\ pairing.pc = "unlink" => row = NoRow
OnePairing == \A p, q \in Pairer : p # q => pairers[p].pc = "idle" \/ pairers[q].pc = "idle"

RouteTypes ==
  /\ row = [pin |-> row.pin, tls |-> row.tls, routes |-> row.routes] /\ row.tls \in BOOLEAN
  /\ row.routes \subseteq Route
  /\ callers \in [Dialer -> [pc : {"idle", "dial", "answered", "failed", "held", "late", "unpinned"},
                            left : SUBSET Route, first : SUBSET Route, tls : BOOLEAN,
                            kind : {"ask", "timely", "file", "stream"}, steady : BOOLEAN]]
  /\ pairers = [p \in Pairer |-> [pc |-> pairers[p].pc, anchor |-> pairers[p].anchor, hint |-> pairers[p].hint,
                               cert |-> pairers[p].cert, prior |-> pairers[p].prior, routes |-> pairers[p].routes]]
  /\ \A p \in Pairer : pairers[p].pc \in {"idle", "ask", "save", "check", "row", "unlink"} /\ pairers[p].routes \subseteq Route
  /\ routeLeft \in [{"calls", "pairs", "changes", "faults", "late"} -> Nat]

\* What lasts, and what lasts as long as pairings do not overlap (late) and
\* every row is saved (faults).
RouteInv == RouteTypes /\ NeverToAnother /\ CallsKnow
PinInv ==
  /\ RouteTypes /\ routeLeft["late"] = 0 /\ routeLeft["faults"] = 0
  /\ OnePairing /\ (\A p \in Pairer : PairingKnows(p)) /\ PinsAgree

\* PinsAgree is not so with overlapping pairings and removals (late), which
\* nothing serializes, nor when the row cannot be saved after the pin (faults).

\* Not so: a name that failed once is not tried again for two minutes, although
\* the peer may be reached by it.
NamesAreTried ==
  \A c \in Dialer : (At(c, "failed") /\ callers[c].steady) => \A r \in Candidates : ~Reaches(r)
==============================================================================
