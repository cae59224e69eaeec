---------------------------- MODULE TorrentQueue ----------------------------
(***************************************************************************)
(* The torrents of a Drone: app/transfer/torrent_manager.py with the       *)
(* daemon of transfer/aria2_runtime.py.                                    *)
(*                                                                         *)
(* The manager keeps rows, the aria2 daemon keeps downloads, and a row     *)
(* knows its download by a gid that does not outlive the daemon.  The      *)
(* worker's tick (_tick) goes round: it looks at the rows under the lock,  *)
(* releases it for its calls to aria2, applies the answers under the lock  *)
(* and releases it again.  Commands of the user run in between and call    *)
(* aria2 themselves.  Moves of partial downloads are in TorrentMoves.      *)
(***************************************************************************)
EXTENDS Naturals, Sequences, FiniteSets, SequencesExt

CONSTANTS
  Torrent,   \* contents, each with an info-hash, a .torrent file and a magnet
  Gid,       \* the ids aria2 gives; one that nothing refers to may come again
  RowId,     \* ids of rows, natural numbers
  NoGid, NoRow,
  Slots,     \* max_concurrent_downloads
  Setting    \* what may happen, see Left

VARIABLES
  rows,      \* _torrents, a sequence in the order of their queue positions
  gids,      \* _pending_removal_gids
  hashes,    \* _pending_removal_info_hashes, as the contents they stand for
  files,     \* [watched, stuck]: .torrent files in the folder, _pending_removal_torrent_files
  paused,    \* _paused
  notified,  \* _notified_info_hashes
  config,    \* [vpn: vpn_required, tunnel: whether tun0 is up]
  daemon,    \* "down", "plain" or "bound" to the tunnel
  aria,      \* aria2's downloads
  have,      \* how much of each content is on disk: 0 none, 1 some, 2 all
  alien,     \* contents whose files lie there without a control file of aria2
  tick,      \* what the worker is in the middle of
  todo,      \* calls to aria2 that commands still have to make
  gone,      \* history: contents that the user removed and has not added again
  told,      \* history: how often the completion of a content was announced
  left       \* the setting, with what is left of its bounds

manager == <<rows, gids, hashes, files, paused, notified, config>>
disk == <<have, alien>>
history == <<gone, told>>
vars == <<manager, daemon, aria, disk, tick, todo, history, left>>

-----------------------------------------------------------------------------
(* Rows.                                                                   *)

\* _ENTRY_LIVE_DEFAULTS and the registration of a new row.  why says what an
\* error row waits for: "retry" until its delay is over, "due", "canceled"
\* and "conflict" for the user.  bytes is what aria2 last reported, old that
\* download_dir is not the current one, pend is _pending_complete_gid.
NewRow(id, source, t) ==
  [id |-> id, source |-> source, of |-> t, hash |-> source = "magnet", status |-> "queued",
   gid |-> NoGid, why |-> "", force |-> FALSE, adopt |-> FALSE, content |-> FALSE,
   pend |-> NoGid, done |-> FALSE, seeding |-> FALSE, bytes |-> 0, old |-> FALSE]

Row(id) == CHOOSE r \in ToSet(rows) : r.id = id
Has(id) == \E r \in ToSet(rows) : r.id = id
Without(rs, ids) == SelectSeq(rs, LAMBDA r : r.id \notin ids)
Put(rs, r) == [i \in DOMAIN rs |-> IF rs[i].id = r.id THEN r ELSE rs[i]]
ToBack(rs, r) == Append(Without(rs, {r.id}), r)       \* _take_queue_position_locked
Sourced(r) == r.source # "none"

FreeIds(rs) == SetToSortSeq(RowId \ {r.id : r \in ToSet(rs)}, <)

\* _schedule_retry_locked, _mark_destination_conflict_locked: an error row has no download.
Failed(r, why) ==
  [r EXCEPT !.status = "error", !.why = why, !.gid = NoGid, !.force = FALSE, !.seeding = FALSE,
            !.pend = IF why = "conflict" THEN NoGid ELSE @]

\* Which rows a row makes redundant: those of the same download, and those of
\* the same info-hash that came without a source.
SameGid(rs, k) == {r \in ToSet(rs) : r.gid = k.gid /\ r.gid # NoGid /\ r.id # k.id}
SameHash(rs, k) == {r \in ToSet(rs) : r.hash /\ k.hash /\ r.of = k.of /\ r.id # k.id}
First(S) == CHOOSE r \in S : \A other \in S : r.id <= other.id

\* First pass of _deduplicate_shared_gid_entries_locked.
GidTwins(rs, k) ==
  LET twins == SameGid(rs, k)
      sources == {r \in twins \cup {k} : Sourced(r)}
      adopted == (twins \cup {k}) \ sources
  IN CASE sources # {} /\ adopted # {} -> IF k = First(sources) THEN adopted ELSE {}
       [] sources = {} -> IF k = First(adopted) THEN twins ELSE {}
       [] OTHER -> IF /\ k = First(sources)
                      /\ \A r \in sources : r.source = "magnet" /\ r.of = k.of
                   THEN twins ELSE {}

\* Second pass.
HashTwins(rs, k) ==
  LET twins == SameHash(rs, k)
  IN IF Sourced(k) /\ k = First({r \in twins \cup {k} : Sourced(r)})
     THEN {r \in twins : ~Sourced(r)} ELSE {}

\* _merge_and_remove_duplicates_locked: the row that has come furthest gives
\* the one that is kept its state, but not its gid.
Merged(k, twins) ==
  LET best == IF \E r \in twins : r.bytes > k.bytes
              THEN CHOOSE r \in twins : \A other \in twins : r.bytes >= other.bytes ELSE k
  IN [k EXCEPT !.status = best.status, !.why = best.why, !.done = best.done, !.bytes = best.bytes,
               !.old = best.old, !.force = best.force, !.seeding = best.seeding, !.pend = best.pend]

Collapsed(rs, Twins(_, _)) ==
  LET redundant == UNION {{r.id : r \in Twins(rs, k)} : k \in ToSet(rs)}
  IN Without([i \in DOMAIN rs |-> IF Twins(rs, rs[i]) = {} THEN rs[i]
                                  ELSE Merged(rs[i], Twins(rs, rs[i]))], redundant)

Deduplicated(rs) == Collapsed(Collapsed(rs, GidTwins), HashTwins)

-----------------------------------------------------------------------------
(* The daemon.  kind "meta" is the fetch of a magnet's metadata; when it is *)
(* done, aria2 starts the content under a gid of its own (child).           *)

NoDownload == [st |-> "gone", of |-> CHOOSE t \in Torrent : TRUE, kind |-> "content", child |-> NoGid]
Empty == [g \in Gid |-> NoDownload]
Alive(g) == aria[g].st \in {"paused", "active"}
Copies(t) == {g \in Gid : Alive(g) /\ aria[g].of = t}

InHand(t) == {c.gid : c \in ToSet(t.calls)} \cup {r.gid : r \in ToSet(t.got)} \cup t.orphans
             \cup {s.gid : s \in t.seen} \cup t.drain.gids

\* Another gid than those that somebody knows.
Held == {r.gid : r \in ToSet(rows)} \cup {r.pend : r \in ToSet(rows)} \cup gids
        \cup {c.gid : c \in todo} \cup {g \in Gid : aria[g].st # "gone"} \cup InHand(tick)
RoomForGid == \E g \in Gid : g \notin Held
NewGid == CHOOSE g \in Gid : g \notin Held

\* What tellStatus, tellActive and tellWaiting say.
Report(g) ==
  [gid |-> g, st |-> aria[g].st, of |-> aria[g].of, kind |-> aria[g].kind, child |-> aria[g].child,
   parents |-> {p \in Gid : aria[p].child = g},
   bytes |-> IF aria[g].kind = "content" THEN have[aria[g].of] ELSE IF aria[g].st = "done" THEN 2 ELSE 0]
\* Mutant: tellWaiting is not asked.
ActiveOnly == {Report(g) : g \in {h \in Gid : aria[h].st = "active"}}
Inventory == {Report(g) : g \in {h \in Gid : Alive(h)}}

\* Aria2Daemon.stop: no download survives it, and who holds the RPC of the
\* old daemon gets errors.
Halt ==
  /\ daemon' = "down" /\ aria' = Empty

Cut(t) == [t EXCEPT !.rpc = IF @ = "live" THEN "dead" ELSE @]

Started(g, t, kind, st) == [aria EXCEPT ![g] = [st |-> st, of |-> t, kind |-> kind, child |-> NoGid]]
Gone(S) == [g \in Gid |-> IF g \in S THEN NoDownload ELSE aria[g]]

\* _find_existing_gid_for_infohash.
Recovered(t) == IF Copies(t) = {} THEN NoGid ELSE CHOOSE g \in Copies(t) : TRUE

-----------------------------------------------------------------------------
(* The answers of aria2, _apply_aria2_status_locked.                        *)

\* _confirm_finished_and_notify_locked: the same gid is finished twice.
Confirmed(r) == IF r.pend = r.gid THEN [r EXCEPT !.done = TRUE] ELSE [r EXCEPT !.pend = r.gid]

Reported(r, rep) ==
  LET k == [r EXCEPT !.hash = TRUE]
      b == [k EXCEPT !.bytes = rep.bytes]
  IN CASE rep.child # NoGid -> [k EXCEPT !.gid = rep.child, !.content = TRUE]
       [] rep.child = NoGid /\ rep.st = "failed" -> Failed(k, "retry")
       [] rep.child = NoGid /\ rep.st = "conflict" -> Failed(k, "conflict")
       [] rep.child = NoGid /\ rep.st \notin {"failed", "conflict"}
            /\ r.source = "magnet" /\ ~r.content /\ rep.kind = "meta" ->
            \* _is_magnet_metadata_blip: the numbers are those of the metadata
            [k EXCEPT !.status = "downloading", !.done = FALSE, !.pend = NoGid, !.seeding = FALSE]
       [] OTHER ->
            CASE rep.st = "active" /\ rep.bytes = 2 ->
                   Confirmed([b EXCEPT !.seeding = TRUE, !.status = "complete", !.force = FALSE])
              [] rep.st = "active" /\ rep.bytes # 2 ->
                   [b EXCEPT !.seeding = FALSE, !.status = "downloading", !.pend = NoGid, !.force = FALSE]
              [] rep.st = "paused" -> [b EXCEPT !.seeding = FALSE, !.status = "queued"]
              [] rep.st = "done" -> Confirmed([b EXCEPT !.seeding = FALSE, !.status = "complete"])
              [] OTHER -> \* removed
                   [b EXCEPT !.seeding = FALSE, !.gid = NoGid, !.pend = NoGid,
                             !.why = IF r.status = "complete" THEN @ ELSE "canceled",
                             !.status = IF @ = "complete" THEN @ ELSE "error"]

\* A gid that aria2 does not know: the row is queued for another add.
Vanished(r) ==
  [r EXCEPT !.gid = NoGid, !.seeding = FALSE,
            !.status = IF @ = "downloading" THEN "queued" ELSE @]

\* What the answer to an add or to a query makes of its row.
Answered(r, a) ==
  CASE a.kind = "gid" /\ r.status # "error" ->
         [r EXCEPT !.gid = a.gid, !.adopt = FALSE, !.why = "",
                   !.status = IF a.started THEN "downloading" ELSE @, !.force = @ /\ ~a.started]
    [] a.kind = "refused" /\ r.status # "error" -> Failed(r, "retry")
    [] a.kind = "unknown" -> Vanished(r)
    [] a.kind = "recovered" -> [r EXCEPT !.gid = a.gid]
    [] a.kind = "report" -> Reported(r, a.rep)
    [] OTHER -> r

\* The gid that nobody needs any more after that answer.
Doomed(r, a) ==
  IF \/ a.kind = "recovered"
     \/ a.kind = "report" /\ a.rep.child = NoGid /\ a.rep.st \in {"failed", "conflict"}
  THEN {r.gid} \ {NoGid} ELSE {}

\* The contents whose completion a change of the rows announces.
Announced(before, after) ==
  {r.of : r \in {s \in ToSet(after) :
     s.done /\ \E o \in ToSet(before) : o.id = s.id /\ ~o.done}} \ notified

-----------------------------------------------------------------------------
(* The tick.                                                                *)

Nothing == [gids |-> {}, hashes |-> {}]
Idle == [at |-> "idle", rpc |-> "none", bind |-> FALSE, blocked |-> FALSE, calls |-> <<>>, got |-> <<>>,
         orphans |-> {}, seen |-> {}, drain |-> Nothing]
Call(op, r, g) == [op |-> op, row |-> r, gid |-> g]

\* _reset_daemon_state_locked.
Reset(rs) ==
  [i \in DOMAIN rs |->
     [rs[i] EXCEPT !.force = @ /\ rs[i].gid = NoGid /\ rs[i].status # "downloading" /\ ~rs[i].seeding,
                   !.gid = NoGid, !.seeding = FALSE, !.status = IF @ = "downloading" THEN "queued" ELSE @]]

\* Without the tunnel the daemon is stopped before anything else.
TickPolicy ==
  /\ tick.at = "idle"
  /\ IF config.vpn /\ ~config.tunnel
     THEN /\ Halt
          /\ rows' = Reset(rows) /\ gids' = {}
          /\ tick' = [Idle EXCEPT !.at = "scan", !.blocked = TRUE]
     ELSE /\ tick' = [Idle EXCEPT !.at = "scan"]
          /\ UNCHANGED <<daemon, aria, rows, gids>>
  /\ UNCHANGED <<hashes, files, paused, notified, config, disk, todo, history, left>>

\* Phase A: _scan_watch_directory_locked with the removals it tries again,
\* _requeue_due_errors_locked, _refresh_pending_download_dirs_locked, and the
\* calls to make.
Unregistered == (files.watched \ files.stuck) \ {r.of : r \in {s \in ToSet(rows) : s.source = "file"}}
Scanned ==
  LET new == SetToSeq(Unregistered) IN rows \o [i \in DOMAIN new |-> NewRow(FreeIds(rows)[i], "file", new[i])]

IsDue(r) == r.status = "error" /\ r.why = "due"
Requeued(r) == [r EXCEPT !.status = "queued", !.why = ""]
DueRequeued(rs) ==
  LET due == SelectSeq(rs, IsDue)
  IN SelectSeq(rs, LAMBDA r : ~IsDue(r)) \o [i \in DOMAIN due |-> Requeued(due[i])]

Movable(r) == r.status \in {"queued", "error"} /\ r.bytes = 0 /\ r.old /\ have[r.of] = 0
Refreshed(rs) ==
  [i \in DOMAIN rs |-> IF ~Movable(rs[i]) THEN rs[i]
     ELSE [rs[i] EXCEPT !.old = FALSE, !.gid = IF rs[i].status = "queued" THEN NoGid ELSE @]]
StaleGids(rs) == {r.gid : r \in {s \in ToSet(rs) : Movable(s) /\ s.status = "queued"}} \ {NoGid}

Work(rs, stale) ==
  LET dead == SetToSeq(stale)
      adds == SelectSeq(rs, LAMBDA r : r.status = "queued" /\ r.gid = NoGid)
      asks == SelectSeq(rs, LAMBDA r : r.gid # NoGid /\ r.status # "error")
  IN [i \in DOMAIN dead |-> Call("remove", NoRow, dead[i])]
       \o [i \in DOMAIN adds |-> Call("add", adds[i], NoGid)]
       \o [i \in DOMAIN asks |-> Call("ask", asks[i], asks[i].gid)]

TickScan ==
  /\ tick.at = "scan"
  /\ Cardinality(Unregistered) <= Len(FreeIds(rows))
  /\ \E unlinked \in SUBSET files.stuck :
       LET current == DueRequeued(Scanned)
       IN /\ files' = [watched |-> files.watched \ unlinked, stuck |-> files.stuck \ unlinked]
          /\ rows' = Refreshed(current)
          /\ tick' = IF tick.blocked THEN Idle
                     ELSE [tick EXCEPT !.at = "connect", !.bind = config.vpn,
                                       !.calls = Work(Refreshed(current), StaleGids(current))]
  /\ UNCHANGED <<gids, hashes, paused, notified, config, daemon, aria, disk, todo, history, left>>

\* _ensure_rpc: the daemon is started only if there is something to call it
\* for, and replaced if it is not bound as it should be.
Wanted(bind) == IF bind THEN "bound" ELSE "plain"
TickConnect ==
  /\ tick.at = "connect"
  /\ \/ /\ daemon = Wanted(tick.bind)
        /\ tick' = [tick EXCEPT !.at = "call", !.rpc = "live"]
        /\ UNCHANGED <<daemon, aria>>
     \/ /\ daemon # Wanted(tick.bind) /\ tick.calls = <<>> /\ gids = {} /\ hashes = {}
        /\ tick' = [tick EXCEPT !.at = "call"]
        /\ UNCHANGED <<daemon, aria>>
     \/ /\ daemon # Wanted(tick.bind) /\ (tick.calls # <<>> \/ gids # {} \/ hashes # {})
        /\ daemon' = Wanted(tick.bind) /\ aria' = Empty
        /\ tick' = [tick EXCEPT !.at = "call", !.rpc = "live"]
  /\ UNCHANGED <<manager, disk, todo, history, left>>

\* What aria2 does with an add: _add_torrent_via_rpc, _add_magnet_via_rpc.
\* A .torrent of a content it has is refused and the registered download is
\* taken instead; a second magnet is taken in and fails later.  A call that
\* times out has its effect at once, or later (Lands; bound: late), or never.
Readable(r) == r.source = "magnet" \/ (r.source = "file" /\ r.of \in files.watched)
Kind(r) == IF r.source = "magnet" THEN "meta" ELSE "content"
Result(r, kind, g, started) == [id |-> r.id, kind |-> kind, gid |-> g, started |-> started]
Got(result) == tick' = [tick EXCEPT !.calls = Tail(@), !.got = Append(@, result)]
Slow == left.slow > 0 /\ left' = [left EXCEPT !.slow = @ - 1]

TickAdd ==
  /\ tick.at = "call" /\ tick.calls # <<>> /\ Head(tick.calls).op = "add"
  /\ LET r == Head(tick.calls).row
     IN \/ /\ tick.rpc = "dead" \/ ~Readable(r)
           /\ Got(Result(r, "refused", NoGid, FALSE))
           /\ UNCHANGED <<aria, alien, left>>
        \/ /\ tick.rpc = "live" /\ r.source = "file" /\ Readable(r) /\ Copies(r.of) # {}
           /\ Got(Result(r, "gid", Recovered(r.of), FALSE))
           /\ UNCHANGED <<aria, alien, left>>
        \/ /\ tick.rpc = "live" /\ Readable(r) /\ RoomForGid
           /\ r.source = "file" => Copies(r.of) = {}
           /\ alien' = IF r.adopt THEN alien \ {r.of} ELSE alien
           /\ LET now == Started(NewGid, r.of, Kind(r), IF r.force THEN "active" ELSE "paused")
                  later == Started(NewGid, r.of, Kind(r), IF r.force THEN "late active" ELSE "late paused")
              IN \/ aria' = now /\ Got(Result(r, "gid", NewGid, r.force)) /\ UNCHANGED left
                 \/ /\ Slow /\ aria' \in (IF left.late THEN {now, later} ELSE {now})
                    /\ Got(Result(r, "refused", NoGid, FALSE))
  /\ UNCHANGED <<manager, daemon, have, todo, history>>

\* _query_torrent_via_rpc.  A second registration is told from a failure by
\* its message, and the first one is looked up.  A call that times out (bound:
\* late) is taken for an aria2 that knows no such gid.
TickAsk ==
  /\ tick.at = "call" /\ tick.calls # <<>> /\ Head(tick.calls).op = "ask"
  /\ LET r == Head(tick.calls).row
         g == Head(tick.calls).gid
         unknown == Result(r, "unknown", NoGid, FALSE)
     IN \/ /\ UNCHANGED left
           /\ Got(CASE tick.rpc # "live" \/ aria[g].st = "gone" -> unknown
                    [] tick.rpc = "live" /\ aria[g].st = "dup" /\ Recovered(aria[g].of) # NoGid ->
                         Result(r, "recovered", Recovered(aria[g].of), FALSE)
                    [] OTHER -> [id |-> r.id, kind |-> "report", gid |-> g,
                                 rep |-> [Report(g) EXCEPT !.st = IF @ = "dup" THEN "failed" ELSE @]])
        \/ tick.rpc = "live" /\ aria[g].st # "gone" /\ left.late /\ Slow /\ Got(unknown)
  /\ UNCHANGED <<manager, daemon, aria, disk, todo, history>>

TickRemove ==     \* a gid whose row moves to another directory
  /\ tick.at = "call" /\ tick.calls # <<>> /\ Head(tick.calls).op = "remove"
  /\ LET g == Head(tick.calls).gid
     IN \/ /\ tick.rpc = "live" /\ aria' = Gone({g})
           /\ UNCHANGED <<gids, left>>
        \/ /\ tick.rpc # "live" \/ left.slow > 0
           /\ left' = [left EXCEPT !.slow = IF tick.rpc = "live" THEN @ - 1 ELSE @]
           /\ gids' = gids \cup {g}
           /\ UNCHANGED aria
  /\ tick' = [tick EXCEPT !.calls = Tail(@)]
  /\ UNCHANGED <<rows, hashes, files, paused, notified, config, daemon, disk, todo, history>>

\* Phase C.  The answers are applied to the rows as they are by now.
AnswerTo(r) == SelectSeq(tick.got, LAMBDA a : a.id = r.id)
Apply(rs) ==
  [i \in DOMAIN rs |-> IF AnswerTo(rs[i]) = <<>> THEN rs[i] ELSE Answered(rs[i], Head(AnswerTo(rs[i])))]
Orphans ==
  {a.gid : a \in {b \in ToSet(tick.got) : b.kind = "gid" /\
                    ~\E r \in ToSet(rows) : r.id = b.id /\ r.status # "error"}}
    \cup UNION {Doomed(r, Head(AnswerTo(r))) : r \in {s \in ToSet(rows) : AnswerTo(s) # <<>>}}

\* _pick_startable_gids_locked.
Startable(r) == r.status = "queued" /\ r.gid # NoGid
Picked(rs) ==
  LET active == Cardinality({i \in DOMAIN rs : rs[i].status = "downloading"})
  IN {i \in DOMAIN rs : Startable(rs[i]) /\
        active + Cardinality({j \in 1 .. i : Startable(rs[j])}) <= Slots}

TickApply ==
  LET applied == Apply(rows)
      current == Deduplicated(applied)
      picked == IF tick.rpc = "none" \/ paused THEN {} ELSE Picked(current)
      new == Announced(rows, applied)
      start == SetToSeq({current[i].gid : i \in picked})
      drop == SetToSeq(Orphans)
  IN /\ tick.at = "call" /\ tick.calls = <<>>
     /\ rows' = [i \in DOMAIN current |->
                   IF i \in picked THEN [current[i] EXCEPT !.status = "downloading", !.force = FALSE]
                   ELSE current[i]]
     /\ notified' = notified \cup new
     /\ told' = [t \in Torrent |-> told[t] + IF t \in new THEN 1 ELSE 0]
     /\ tick' = [tick EXCEPT !.at = "order", !.got = <<>>,
                             !.calls = [i \in DOMAIN start |-> Call("unpause", NoRow, start[i])]
                                         \o [i \in DOMAIN drop |-> Call("drop", NoRow, drop[i])]]
     /\ UNCHANGED <<gids, hashes, files, paused, config, daemon, aria, disk, todo, gone, left>>

\* Phase D: picked downloads are started, those nobody needs are removed.
Unpaused(g) == [aria EXCEPT ![g].st = IF @ = "paused" THEN "active" ELSE @]
TickOrder ==
  /\ tick.at = "order" /\ tick.calls # <<>>
  /\ LET c == Head(tick.calls)
         answers == (c.op = "drop" /\ daemon # "down" /\ tick.rpc # "dead") \/ (c.op = "unpause" /\ tick.rpc = "live")
     IN \/ /\ answers /\ aria' = IF c.op = "drop" THEN Gone({c.gid}) ELSE Unpaused(c.gid)
           /\ UNCHANGED <<gids, left>>
        \/ /\ ~answers \/ left.slow > 0
           /\ left' = [left EXCEPT !.slow = IF answers THEN @ - 1 ELSE @]
           /\ gids' = IF c.op = "drop" THEN gids \cup {c.gid} ELSE gids
           /\ UNCHANGED aria
  /\ tick' = [tick EXCEPT !.calls = Tail(@)]
  /\ UNCHANGED <<rows, hashes, files, paused, notified, config, daemon, disk, todo, history>>

\* Phase E, first part: _retry_pending_removals.  The removals and the
\* inventory that tells whether a hash is drained are one step here.
TickDrain ==
  /\ tick.at = "order" /\ tick.calls = <<>>
  /\ IF tick.rpc = "none" THEN tick' = Idle /\ UNCHANGED <<aria, left>>
     ELSE LET twins == UNION {Copies(t) : t \in hashes} \ gids
              Drains(left_gids, left_hashes) ==
                tick' = [tick EXCEPT !.at = "drained",
                                     !.drain = [gids |-> gids, hashes |-> hashes,
                                                keptGids |-> left_gids, keptHashes |-> left_hashes]]
          IN \/ /\ tick.rpc = "live"
                /\ aria' = Gone(gids \cup twins)
                /\ Drains({}, IF twins = {} THEN {} ELSE hashes)
                /\ UNCHANGED left
             \/ /\ tick.rpc = "dead" \/ (left.slow > 0 /\ (gids # {} \/ hashes # {}))
                /\ left' = [left EXCEPT !.slow = IF tick.rpc = "live" THEN @ - 1 ELSE @]
                /\ Drains(gids, hashes)
                /\ UNCHANGED aria
  /\ UNCHANGED <<manager, daemon, disk, todo, history>>

\* What was registered meanwhile is kept.
TickDrained ==
  /\ tick.at = "drained"
  /\ gids' = tick.drain.keptGids \cup (gids \ tick.drain.gids)
  /\ hashes' = tick.drain.keptHashes \cup (hashes \ tick.drain.hashes)
  /\ tick' = [tick EXCEPT !.at = "inventory", !.drain = Nothing]
  /\ UNCHANGED <<rows, files, paused, notified, config, daemon, aria, disk, todo, history, left>>

\* Second part: _adopt_orphaned_gids, the inventory and what is made of it.
TickInventory ==
  /\ tick.at = "inventory"
  /\ \/ tick.rpc = "live" /\ tick' = [tick EXCEPT !.at = "adopt", !.seen = Inventory] /\ UNCHANGED left
     \/ tick.rpc = "dead" /\ tick' = Idle /\ UNCHANGED left
     \/ tick.rpc = "live" /\ left.slow > 0 /\ left' = [left EXCEPT !.slow = @ - 1] /\ tick' = Idle
  /\ UNCHANGED <<manager, daemon, aria, disk, todo, history>>

Owners(rs, t) == {r \in ToSet(rs) : r.hash /\ r.of = t}
Keeper(rs, t) ==
  CHOOSE r \in Owners(rs, t) : \A o \in Owners(rs, t) :
    IF Sourced(r) = Sourced(o) THEN r.id <= o.id ELSE Sourced(r)
Further(s, r) ==
  \/ s.bytes > r.bytes
  \/ s.bytes = r.bytes /\ s.st = "active" /\ r.status \notin {"downloading", "complete"}

\* One download of the inventory: the manager knows it or is about to remove
\* it, or a row has its info-hash and keeps the one that has come further, or
\* it becomes a row of its own.
Adopted(m, s) ==
  LET known == {r.gid : r \in ToSet(m.rows)} \ {NoGid}
  IN IF \/ s.gid \in known \cup m.gids \/ s.child # NoGid \/ s.of \in hashes
        \/ s.parents \cap known # {}
     THEN m
     ELSE IF Owners(m.rows, s.of) # {}
     THEN LET k == Keeper(m.rows, s.of)
              loser == (IF Further(s, k) THEN {k.gid} ELSE {s.gid}) \ {NoGid}
          IN [rows |-> IF Further(s, k) THEN Put(m.rows, Reported([k EXCEPT !.gid = s.gid], s)) ELSE m.rows,
              gids |-> m.gids \cup loser]
     ELSE IF FreeIds(m.rows) = <<>> THEN m
     ELSE [m EXCEPT !.rows = Append(@, Reported([NewRow(FreeIds(@)[1], "none", s.of) EXCEPT !.gid = s.gid], s))]

TickAdopt ==
  /\ tick.at = "adopt"
  /\ LET after == FoldLeft(Adopted, [rows |-> rows, gids |-> gids], SetToSeq(tick.seen))
         new == Announced(rows, after.rows)
     IN /\ rows' = after.rows /\ gids' = after.gids
        /\ todo' = todo \cup {[op |-> "remove", gid |-> g] : g \in after.gids \ gids}
        /\ notified' = notified \cup new
        /\ told' = [t \in Torrent |-> told[t] + IF t \in new THEN 1 ELSE 0]
  /\ tick' = Idle
  /\ UNCHANGED <<hashes, files, paused, config, daemon, aria, disk, gone, left>>

-----------------------------------------------------------------------------
(* Commands of the user, and the calls that follow them outside the lock.   *)

May(name) == left.command > 0 /\ name \in left.may /\ left' = [left EXCEPT !.command = @ - 1]
Ask(ops) == todo' = todo \cup {c \in ops : c.gid # NoGid}

AddMagnet(t) ==
  /\ May("magnet") /\ FreeIds(rows) # <<>>
  /\ ~\E r \in ToSet(rows) : r.source = "magnet" /\ r.of = t
  /\ rows' = Append(rows, NewRow(FreeIds(rows)[1], "magnet", t))
  /\ gone' = gone \ {t}
  /\ UNCHANGED <<gids, hashes, files, paused, notified, config, daemon, aria, disk, tick, todo, told>>

\* save_uploaded_torrents; a row comes with the next scan.
UploadTorrent(t) ==
  /\ May("upload") /\ t \notin files.watched
  /\ files' = [files EXCEPT !.watched = @ \cup {t}]
  /\ gone' = gone \ {t}
  /\ UNCHANGED <<rows, gids, hashes, paused, notified, config, daemon, aria, disk, tick, todo, told>>

Blocked == config.vpn /\ ~config.tunnel
ForceStart(r) ==
  LET stale == r.status = "queued" /\ r.gid # NoGid /\ r.bytes = 0 /\ r.old /\ have[r.of] = 0
      kept == IF stale \/ r.status = "error" THEN NoGid ELSE r.gid
  IN /\ May("force") /\ ~Blocked
     /\ r.status \notin {"complete", "downloading"} /\ r.why # "conflict"
     /\ LET now == [r EXCEPT !.old = @ /\ ~stale, !.gid = kept, !.why = "",
                             !.status = IF kept # NoGid THEN "downloading" ELSE "queued",
                             !.force = kept = NoGid]
        IN rows' = IF r.status = "error" THEN ToBack(rows, now) ELSE Put(rows, now)
     /\ Ask(IF stale THEN {[op |-> "stop", gid |-> r.gid]}
            ELSE {[op |-> IF r.status = "error" THEN "forget" ELSE "unpause", gid |-> r.gid]})
     /\ UNCHANGED <<gids, hashes, files, paused, notified, config, daemon, aria, disk, tick, history>>

Cancel(r) ==
  /\ May("cancel")
  /\ r.status = "complete" => r.seeding
  /\ LET now == [r EXCEPT !.gid = NoGid, !.force = FALSE, !.why = "", !.seeding = FALSE,
                          !.status = IF @ = "complete" THEN @ ELSE "queued"]
     IN rows' = IF r.status = "complete" THEN Put(rows, now) ELSE ToBack(rows, now)
  /\ gids' = gids \cup ({r.gid} \ {NoGid})
  /\ Ask({[op |-> "remove", gid |-> r.gid]})
  /\ UNCHANGED <<hashes, files, paused, notified, config, daemon, aria, disk, tick, history>>

\* Mutant: a removal registers the gids only, as it did before info-hashes.
NoHashes(S) == {}
HashesOf(S) == {r.of : r \in {s \in S : s.hash}}

\* The removals that an info-hash vouches for: it is known, and not one that a
\* drain under way is about to strike out.  strict, a bound, counts the others.
Covered(r) == r.hash /\ r.of \notin tick.drain.hashes

\* What delete, remove_from_list and clear do to the rows S: they are dropped,
\* their downloads and info-hashes marked for removal, their .torrent files
\* unlinked, or marked if that fails.
Dismiss(S, unlinks) ==
  LET of == {r.of : r \in {s \in S : s.source = "file"}}
      rest == Without(rows, {r.id : r \in S})
      watched == IF unlinks THEN files.watched \ of ELSE files.watched
      stuck == IF unlinks THEN files.stuck ELSE files.stuck \cup (of \cap files.watched)
  IN /\ rows' = rest
     /\ gids' = gids \cup ({r.gid : r \in S} \ {NoGid})
     /\ hashes' = hashes \cup HashesOf(S)
     /\ files' = [watched |-> watched, stuck |-> stuck]
     /\ gone' = gone \cup {r.of : r \in {s \in S : /\ left.strict \/ Covered(s)
                                                 /\ s.of \notin watched \ stuck
                                                 /\ ~\E o \in ToSet(rest) : o.of = s.of}}

Removals(S) == {[op |-> "remove", gid |-> r.gid] : r \in S}
Erasures(S) == {[op |-> "erase", gid |-> r.gid, of |-> r.of] : r \in S}

\* delete takes the payload too, remove_from_list leaves it.
Delete(r, payload, unlinks) ==
  /\ May("delete") /\ (unlinks \/ left.fail > 0)
  /\ Dismiss({r}, unlinks)
  /\ todo' = todo \cup {c \in Removals({r}) : c.gid # NoGid} \cup (IF payload THEN Erasures({r}) ELSE {})
  /\ UNCHANGED <<paused, notified, config, daemon, aria, disk, tick, told>>

\* clear: scope and what to delete.
Clear(all, fromList, payload) ==
  LET S == {r \in ToSet(rows) : all \/ r.status = "complete"}
  IN /\ May("clear") /\ S # {} /\ (fromList \/ payload)
     /\ IF fromList THEN Dismiss(S, TRUE)
        ELSE UNCHANGED <<rows, gids, hashes, files, gone>>
     /\ todo' = todo \cup {c \in Removals(S) : c.gid # NoGid} \cup (IF payload THEN Erasures(S) ELSE {})
     /\ UNCHANGED <<paused, notified, config, daemon, aria, disk, tick, told>>

AdoptPayload(r) ==
  /\ May("adopt") /\ r.why = "conflict"
  /\ rows' = ToBack(rows, [r EXCEPT !.status = "queued", !.gid = NoGid, !.why = "", !.adopt = TRUE, !.force = FALSE])
  /\ UNCHANGED <<gids, hashes, files, paused, notified, config, daemon, aria, disk, tick, todo, history>>

Pause ==
  /\ May("pause") /\ ~paused /\ paused' = TRUE
  /\ todo' = todo \cup {[op |-> "pause", gid |-> NoGid]}
  /\ UNCHANGED <<rows, gids, hashes, files, notified, config, daemon, aria, disk, tick, history>>

\* resume wakes only what the scheduler had given a slot.
Resume ==
  /\ May("pause") /\ paused
  /\ IF Blocked THEN /\ Halt /\ rows' = Reset(rows) /\ gids' = {} /\ tick' = Cut(tick)
                     /\ UNCHANGED <<paused, todo>>
     ELSE /\ paused' = FALSE
          /\ Ask({[op |-> "unpause", gid |-> r.gid] : r \in {s \in ToSet(rows) : s.status = "downloading"}})
          /\ UNCHANGED <<rows, gids, daemon, aria, tick>>
  /\ UNCHANGED <<hashes, files, notified, config, disk, history>>

\* update_settings: the download directory, or the VPN policy, where the lock
\* is released before the daemon is stopped.
ChangeDirectory ==
  /\ May("directory")
  /\ rows' = [i \in DOMAIN rows |-> [rows[i] EXCEPT !.old = TRUE]]
  /\ UNCHANGED <<gids, hashes, files, paused, notified, config, daemon, aria, disk, tick, todo, history>>

ChangePolicy ==
  /\ May("vpn")
  /\ config' = [config EXCEPT !.vpn = ~@]
  /\ rows' = Reset(rows) /\ gids' = {}
  /\ todo' = todo \cup {[op |-> "halt", gid |-> NoGid]}
  /\ UNCHANGED <<hashes, files, paused, notified, daemon, aria, disk, tick, history>>

\* One call of a command, answered or, with slow, not.
Did(c) == todo' = todo \ {c}
CommandCall(c) ==
  \/ /\ c.op \in {"remove", "stop", "forget"} /\ daemon # "down"
     /\ IF c.op # "forget" /\ aria[c.gid].st # "gone"
        THEN /\ aria' = [aria EXCEPT ![c.gid].st = "stopped"]
             /\ todo' = (todo \ {c}) \cup {[c EXCEPT !.op = IF c.op = "stop" THEN "forget" ELSE "removed"]}
             /\ UNCHANGED gids
        ELSE /\ Did(c) /\ aria' = Gone({c.gid})
             /\ gids' = IF c.op = "remove" THEN gids \ {c.gid} ELSE gids
     /\ UNCHANGED <<daemon, disk, tick, left>>
  \/ /\ c.op = "removed" /\ daemon # "down" /\ Did(c)     \* removeDownloadResult
     /\ aria' = Gone({c.gid}) /\ gids' = gids \ {c.gid}
     /\ UNCHANGED <<daemon, disk, tick, left>>
  \/ /\ c.op \in {"remove", "removed"} /\ (daemon = "down" \/ left.slow > 0)
     /\ left' = [left EXCEPT !.slow = IF daemon = "down" THEN @ ELSE @ - 1]
     /\ Did(c) /\ gids' = gids \cup {c.gid}
     /\ UNCHANGED <<daemon, aria, disk, tick>>
  \/ /\ c.op \in {"stop", "forget", "unpause", "pause"} /\ daemon = "down" /\ Did(c)
     /\ UNCHANGED <<gids, daemon, aria, disk, tick, left>>
  \/ /\ c.op \in {"unpause", "pause"} /\ daemon # "down" /\ Did(c)
     /\ aria' = IF c.op = "unpause" THEN Unpaused(c.gid)
                ELSE [g \in Gid |-> [aria[g] EXCEPT !.st = IF @ = "active" THEN "paused" ELSE @]]
     /\ UNCHANGED <<gids, daemon, disk, tick, left>>
  \/ /\ c.op = "erase" /\ Did(c)
     /\ have' = [have EXCEPT ![c.of] = 0] /\ alien' = alien \ {c.of}
     /\ UNCHANGED <<gids, daemon, aria, tick, left>>
  \/ /\ c.op = "halt" /\ Did(c)
     /\ Halt /\ tick' = Cut(tick)
     /\ UNCHANGED <<gids, disk, left>>

FollowUp ==
  /\ \E c \in todo : CommandCall(c)
  /\ UNCHANGED <<rows, hashes, files, paused, notified, config, history>>

Command ==
  \/ \E t \in Torrent : AddMagnet(t) \/ UploadTorrent(t)
  \/ \E r \in ToSet(rows) :
       \/ ForceStart(r) \/ Cancel(r) \/ AdoptPayload(r)
       \/ \E payload, unlinks \in BOOLEAN : Delete(r, payload, unlinks)
  \/ \E all, fromList, payload \in BOOLEAN : Clear(all, fromList, payload)
  \/ Pause \/ Resume \/ ChangeDirectory \/ ChangePolicy

-----------------------------------------------------------------------------
(* The world: aria2's downloads, delays, the tunnel, a restart.             *)

\* A content lands on disk piece by piece; one whose files are there without
\* a control file is not touched.
Fetch(g) ==
  LET t == aria[g].of
  IN /\ aria[g].st = "active" /\ aria[g].kind = "content"
     /\ IF t \in alien THEN aria' = [aria EXCEPT ![g].st = "conflict"] /\ UNCHANGED have
        ELSE have[t] < 2 /\ have' = [have EXCEPT ![t] = @ + 1] /\ UNCHANGED aria
     /\ UNCHANGED <<manager, daemon, alien, tick, todo, history, left>>

\* The metadata of a magnet; the content is found to be registered already or
\* gets a gid, a moment later.
Metadata(g) ==
  /\ aria[g].st = "active" /\ aria[g].kind = "meta"
  /\ aria' = [aria EXCEPT ![g].st = IF Copies(aria[g].of) = {g} THEN "done" ELSE "dup"]
  /\ UNCHANGED <<manager, daemon, disk, tick, todo, history, left>>

\* An add that was not answered takes effect, unless the content is there by now.
Lands(g) ==
  /\ aria[g].st \in {"late active", "late paused"}
  /\ aria' = IF aria[g].kind = "content" /\ Copies(aria[g].of) # {} THEN Gone({g})
             ELSE [aria EXCEPT ![g].st = IF @ = "late active" THEN "active" ELSE "paused"]
  /\ UNCHANGED <<manager, daemon, disk, tick, todo, history, left>>

HandOff(g) ==
  /\ aria[g].st = "done" /\ aria[g].kind = "meta" /\ aria[g].child = NoGid /\ RoomForGid
  /\ aria' = [Started(NewGid, aria[g].of, "content", "active") EXCEPT ![g].child = NewGid]
  /\ UNCHANGED <<manager, daemon, disk, tick, todo, history, left>>

SeedingEnds(g) ==
  /\ aria[g].st = "active" /\ aria[g].kind = "content" /\ have[aria[g].of] = 2
  /\ aria' = [aria EXCEPT ![g].st = "done"]
  /\ UNCHANGED <<manager, daemon, disk, tick, todo, history, left>>

DownloadFails(g) ==
  /\ aria[g].st = "active" /\ left.fail > 0
  /\ aria' = [aria EXCEPT ![g].st = "failed"]
  /\ left' = [left EXCEPT !.fail = @ - 1]
  /\ UNCHANGED <<manager, daemon, disk, tick, todo, history>>

DelayEnds(i) ==
  /\ i \in DOMAIN rows /\ rows[i].status = "error" /\ rows[i].why = "retry"
  /\ rows' = [rows EXCEPT ![i].why = "due"]
  /\ UNCHANGED <<gids, hashes, files, paused, notified, config, daemon, aria, disk, tick, todo, history, left>>

Tunnel ==
  /\ left.tunnel > 0 /\ left' = [left EXCEPT !.tunnel = @ - 1]
  /\ config' = [config EXCEPT !.tunnel = ~@]
  /\ UNCHANGED <<rows, gids, hashes, files, paused, notified, daemon, aria, disk, tick, todo, history>>

\* _restore_state.  aria2 stops with the process (--stop-with-process).
Restored(r) ==
  LET unresolved == r.source = "magnet" /\ r.status = "complete" /\ ~r.content /\ r.bytes # 2
      status == IF r.status = "downloading" \/ unresolved THEN "queued" ELSE r.status
  IN [r EXCEPT !.status = status, !.gid = NoGid, !.force = FALSE, !.seeding = FALSE, !.pend = NoGid,
               !.done = @ /\ ~unresolved, !.bytes = IF unresolved THEN 0 ELSE @]

Restart ==
  /\ left.crash > 0 /\ left' = [left EXCEPT !.crash = @ - 1]
  /\ LET kept == SelectSeq(rows, Sourced) IN rows' = [i \in DOMAIN kept |-> Restored(kept[i])]
  /\ Halt /\ tick' = Idle /\ todo' = {} /\ notified' = {}
  /\ told' = [t \in Torrent |-> 0]
  /\ UNCHANGED <<gids, hashes, files, paused, config, disk, gone>>

-----------------------------------------------------------------------------
Init ==
  /\ left \in Setting
  /\ rows = <<>> /\ gids = {} /\ hashes = {} /\ paused = FALSE /\ notified = {}
  /\ files = [watched |-> left.watched, stuck |-> {}]
  /\ config = [vpn |-> left.tunnel > 0, tunnel |-> TRUE]
  /\ daemon = "down" /\ aria = Empty
  /\ have = [t \in Torrent |-> IF t \in left.alien THEN 2 ELSE 0] /\ alien = left.alien
  /\ tick = Idle /\ todo = {} /\ gone = {} /\ told = [t \in Torrent |-> 0]

Tick ==
  \/ TickPolicy \/ TickScan \/ TickConnect \/ TickAdd \/ TickAsk \/ TickRemove \/ TickApply
  \/ TickOrder \/ TickDrain \/ TickDrained \/ TickInventory \/ TickAdopt

Transfer ==
  \E g \in Gid : Fetch(g) \/ Metadata(g) \/ Lands(g) \/ HandOff(g) \/ SeedingEnds(g) \/ DownloadFails(g)

Delay == \E i \in 1 .. Cardinality(RowId) : DelayEnds(i)

Next == Tick \/ Command \/ FollowUp \/ Transfer \/ Delay \/ Tunnel \/ Restart

Spec == Init /\ [][Next]_vars

\* The worker's loop goes round, handlers make their calls (which time out),
\* and no delay lasts for ever.  Only Tick and, finitely often, a halt change
\* tick, and every call leaves todo.
Waits(id) == \E r \in ToSet(rows) : r.id = id /\ r.status = "error" /\ r.why = "retry"
FairSpec ==
  /\ Spec
  /\ []<><<tick' # tick>>_tick
  /\ <>[](todo # {}) => []<><<todo' # todo>>_todo
  /\ \A id \in RowId : []<>~Waits(id)

-----------------------------------------------------------------------------
TypeOK ==
  /\ \A r \in ToSet(rows) :
       r \in [id : RowId, source : {"file", "magnet", "none"}, of : Torrent, hash : BOOLEAN,
              status : {"queued", "downloading", "complete", "error"}, gid : Gid \cup {NoGid},
              why : {"", "retry", "due", "canceled", "conflict"}, force : BOOLEAN, adopt : BOOLEAN,
              content : BOOLEAN, pend : Gid \cup {NoGid}, done : BOOLEAN, seeding : BOOLEAN,
              bytes : 0 .. 2, old : BOOLEAN]
  /\ gids \subseteq Gid /\ hashes \subseteq Torrent
  /\ aria \in [Gid -> [st : {"gone", "late paused", "late active", "paused", "active", "done", "stopped", "failed", "conflict", "dup"},
                       of : Torrent, kind : {"meta", "content"}, child : Gid \cup {NoGid}]]

\* A torrent that the user removed does not come back by itself: not with an
\* answer under way, from a stale inventory, as a twin that aria2 still has
\* or by a scan of the folder, before or after a restart.  This is about
\* removals of the last row of a content, which its info-hash covers.  It is not
\* so for three others: of a row whose hash no status has told yet, of one that
\* is removed again while the drain of an earlier removal runs, which strikes
\* out its hash at the end (bound: strict), and of one for which aria2 starts a
\* download when the drain is over (bound: late), because of an add that was
\* never answered, or of a magnet whose row has lost its gid.
RemovedStaysRemoved == \A r \in ToSet(rows) : r.of \notin gone

\* Not held by the code: what is announced as complete is complete on disk,
\* and it is announced once while the process runs, however many rows and
\* gids it had.  A row whose gid went counts as finished twice at once.
AnnouncedWhenComplete ==
  [][\A t \in Torrent : told'[t] > told[t] => told[t] = 0 /\ have[t] = 2]_vars

\* Nothing that aria2 does stays hidden: a download that neither a row nor a
\* pending removal accounts for becomes one of theirs, or ends.
Accounted(g) == ~Alive(g) \/ (\E r \in ToSet(rows) : r.gid = g) \/ g \in gids
HiddenComesToLight == \A g \in Gid : ~Accounted(g) ~> Accounted(g)

\* Not held by the code: a row that says it downloads has a download.  A
\* cancel between a tick's scan and its answers leaves one that has none.
DownloadingIsRegistered == \A r \in ToSet(rows) : r.status = "downloading" => r.gid # NoGid

\* Not held by the code: with the VPN required, no daemon runs outside it.  A
\* tick that looked at the settings before the change starts one after it.
VpnIsRespected == config.vpn => daemon # "plain" \/ [op |-> "halt", gid |-> NoGid] \in todo
=============================================================================
