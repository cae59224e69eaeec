------------------------------ MODULE PortsRequests ------------------------------
(***************************************************************************)
(* The screen of the Ports client that requests assets of a paired peer:   *)
(* the render thread with its buttons, the one worker thread of a screen,  *)
(* the thread that polls the download queue, and what the screen follows   *)
(* (src/ports-client/ui/screens/swarm.py, base.py, ui/shell.py).           *)
(***************************************************************************)
EXTENDS Naturals, FiniteSets, Sequences

CONSTANTS
  Peer, NoPeer, System, NoSystem,
  Collection,     \* what a peer has in a system
  Narrow,         \* the items that a search finds
  Recent,         \* how many ended jobs the queue lists
  RequestBounds   \* how many presses, failures...; see RequestInit

VARIABLES
  queue,          \* the jobs of the Drone's download queue, in the order of their creation
  here,           \* the request tab is being drawn
  chosen,         \* what the user has chosen
  rows,           \* the games that were loaded last, and those marked as downloaded
  films,          \* the same for the peer's movies
  action,         \* the action of the screen's worker
  followed,       \* the downloads that the screen follows: an item's job and its status
  batch,          \* the last "Download All"
  poll,           \* the thread that asks for the queue, and its answer
  requestLeft
requestVars == <<queue, here, chosen, rows, films, action, followed, batch, poll, requestLeft>>

Nothing == [job |-> 0, status |-> "none"]
NoChoice == [peer |-> NoPeer, kind |-> "games", system |-> NoSystem, query |-> FALSE]
NoRows == [peer |-> NoPeer, system |-> NoSystem, query |-> FALSE, items |-> {}, marked |-> {}, error |-> FALSE]
NoFilms == [peer |-> NoPeer, error |-> NoPeer]
NoAction == [what |-> "none", pc |-> "idle", item |-> 0, jobs |-> {}]
NoBatch == [jobs |-> {}, status |-> "none"]
NoPoll == [pc |-> "idle", seen |-> <<>>]

Title == UNION {Collection[p, s] : p \in Peer, s \in System}
Terminal == {"completed", "failed"}
Use(what) == requestLeft[what] > 0 /\ requestLeft' = [requestLeft EXCEPT ![what] = @ - 1]
screen == <<here, chosen, rows, films, followed, batch>>

RequestInit ==
  /\ queue = <<>> /\ here = TRUE /\ chosen = NoChoice /\ rows = NoRows /\ films = NoFilms /\ action = NoAction
  /\ followed = [i \in Title |-> Nothing] /\ batch = NoBatch /\ poll = NoPoll
  /\ requestLeft \in RequestBounds

-----------------------------------------------------------------------------
(* The Drone's queue.  Its answer lists every job that waits or runs and   *)
(* the newest of those that ended.                                         *)

Ended(j) == queue[j].status \in Terminal
Listed(j) ==
  /\ ~queue[j].cleared
  /\ Ended(j) => Cardinality({k \in j + 1..Len(queue) : Ended(k) /\ ~queue[k].cleared}) < Recent
Snapshot == [j \in DOMAIN queue |-> IF Listed(j) THEN queue[j].status ELSE "unlisted"]
Held == {queue[j].item : j \in {k \in DOMAIN queue : queue[k].status = "completed"}}

Advance(j) ==
  /\ ~Ended(j) /\ Use("work")
  /\ \E status \in IF queue[j].status = "queued" THEN {"downloading"} ELSE Terminal :
       queue' = [queue EXCEPT ![j].status = status]
  /\ UNCHANGED <<screen, action, poll>>

\* The user of the browser clears the downloads that have ended.
Clear ==
  /\ Use("clears") /\ queue' = [j \in DOMAIN queue |-> [queue[j] EXCEPT !.cleared = Ended(j)]]
  /\ UNCHANGED <<screen, action, poll>>

-----------------------------------------------------------------------------
(* What the user does.  Buttons are disabled while an action is under way. *)

Free == action.pc = "idle"
Defer(what, item) == action' = [NoAction EXCEPT !.what = what, !.pc = "queued", !.item = item]
Press == here /\ Free /\ Use("presses")

\* The shoulder buttons change the section at any time.
CycleSection ==
  /\ Use("leaves") /\ here' = ~here
  /\ UNCHANGED <<queue, chosen, rows, films, action, followed, batch, poll>>

\* Another peer: nothing of the last one is kept, but for the error of its movies.
ChoosePeer(p) ==
  /\ Press /\ chosen.peer = NoPeer /\ Defer("summary", 0)
  /\ chosen' = [NoChoice EXCEPT !.peer = p] /\ rows' = [NoRows EXCEPT !.error = rows.error]
  /\ films' = [films EXCEPT !.peer = NoPeer]
  /\ followed' = [i \in Title |-> Nothing] /\ batch' = NoBatch
  /\ UNCHANGED <<queue, here, poll>>

LeavePeer ==
  /\ Press /\ chosen.peer # NoPeer /\ chosen' = [chosen EXCEPT !.peer = NoPeer]
  /\ UNCHANGED <<queue, here, rows, films, action, followed, batch, poll>>

\* Mutant: the system is taken although its games cannot be asked for now.
ChooseSystemAnyway(s) ==
  /\ here /\ Use("presses") /\ chosen.peer # NoPeer /\ chosen.kind = "games" /\ chosen.system # s
  /\ IF Free THEN Defer("rows", 0) ELSE UNCHANGED action
  /\ chosen' = [chosen EXCEPT !.system = s, !.query = FALSE]
  /\ UNCHANGED <<queue, here, rows, films, followed, batch, poll>>
ChooseSystem(s) ==
  /\ Press /\ chosen.peer # NoPeer /\ chosen.kind = "games" /\ chosen.system # s
  /\ Defer("rows", 0) /\ chosen' = [chosen EXCEPT !.system = s, !.query = FALSE]
  /\ UNCHANGED <<queue, here, rows, films, followed, batch, poll>>

\* The movies are loaded once, unless loading them failed before.
ChooseKind(kind) ==
  /\ Press /\ chosen.peer # NoPeer /\ chosen.kind # kind /\ chosen' = [chosen EXCEPT !.kind = kind]
  /\ IF kind = "movies" /\ films.peer = NoPeer /\ films.error = NoPeer THEN Defer("films", 0) ELSE UNCHANGED action
  /\ UNCHANGED <<queue, here, rows, films, followed, batch, poll>>

\* What is typed counts at once; the search button asks for the games.
Type ==
  /\ Press /\ chosen.system # NoSystem /\ chosen.peer # NoPeer /\ chosen' = [chosen EXCEPT !.query = ~@]
  /\ UNCHANGED <<queue, here, rows, films, action, followed, batch, poll>>

Search ==
  /\ Press /\ chosen.system # NoSystem /\ chosen.peer # NoPeer /\ chosen.kind = "games" /\ Defer("rows", 0)
  /\ UNCHANGED <<queue, here, chosen, rows, films, followed, batch, poll>>

SearchFilms ==
  /\ Press /\ chosen.peer # NoPeer /\ chosen.kind = "movies" /\ Defer("films", 0)
  /\ UNCHANGED <<queue, here, chosen, rows, films, followed, batch, poll>>

\* A game that is not followed has a button; one that is there, another.
Busy(i) == followed[i].status \notin Terminal \cup {"none"}
RequestItem(i) ==
  /\ Press /\ chosen.peer # NoPeer /\ chosen.kind = "games" /\ chosen.system # NoSystem /\ i \in rows.items
  /\ IF i \in rows.marked THEN ~Busy(i) ELSE followed[i] = Nothing
  /\ Defer("item", i)
  /\ UNCHANGED <<queue, here, chosen, rows, films, followed, batch, poll>>

DownloadAll ==
  /\ Press /\ chosen.peer # NoPeer /\ chosen.kind = "games" /\ chosen.system # NoSystem
  /\ \A i \in Title : ~Busy(i)
  /\ Defer("all", 0)
  /\ UNCHANGED <<queue, here, chosen, rows, films, followed, batch, poll>>

-----------------------------------------------------------------------------
(* The worker.                                                             *)

\* The next frame starts it, a later one takes note of its end.
StartAction ==
  /\ action.pc = "queued" /\ here /\ action' = [action EXCEPT !.pc = "call"]
  /\ UNCHANGED <<queue, screen, poll, requestLeft>>

RetireAction ==
  /\ action.pc = "done" /\ here /\ action' = NoAction
  /\ UNCHANGED <<queue, screen, poll, requestLeft>>

Call(what) == action.pc = "call" /\ action.what = what
Finish == action' = [action EXCEPT !.pc = "done"]
Found(p, s, query) == IF query THEN Collection[p, s] \cap Narrow ELSE Collection[p, s]

LoadSummary == Call("summary") /\ Finish /\ UNCHANGED <<queue, screen, poll, requestLeft>>

LoadRows ==
  /\ Call("rows") /\ Finish
  /\ LET items == Found(chosen.peer, chosen.system, chosen.query) IN
       rows' = [peer |-> chosen.peer, system |-> chosen.system, query |-> chosen.query, items |-> items,
                marked |-> items \cap Held, error |-> FALSE]
  /\ UNCHANGED <<queue, here, chosen, films, followed, batch, poll, requestLeft>>

LoadFilms ==
  /\ Call("films") /\ Finish /\ films' = [peer |-> chosen.peer, error |-> NoPeer]
  /\ UNCHANGED <<queue, here, chosen, rows, followed, batch, poll, requestLeft>>

\* No answer, or an error: a list of games that could not be loaded is empty.
CallFails ==
  /\ action.pc = "call" /\ Finish /\ Use("failures")
  /\ rows' = IF action.what = "rows" THEN [rows EXCEPT !.items = {}, !.marked = {}, !.error = TRUE] ELSE rows
  /\ films' = IF action.what = "films" THEN [films EXCEPT !.error = chosen.peer] ELSE films
  /\ UNCHANGED <<queue, here, chosen, followed, batch, poll>>

\* The Drone queues what is not there yet and, asked for one game, also one that is.
Wanted == IF action.what = "item" THEN {action.item} \ (Held \ rows.marked)
          ELSE Found(chosen.peer, chosen.system, chosen.query) \ Held
NewJobs(items) == {[item |-> i, peer |-> chosen.peer, status |-> "queued", cleared |-> FALSE] : i \in items}
InOrder(jobs) == CHOOSE s \in [1..Cardinality(jobs) -> jobs] : \A m, n \in DOMAIN s : m < n => s[m].item < s[n].item
Waiting(i) == {j \in DOMAIN queue : queue[j].item = i /\ ~Ended(j)}

\* The answer may be lost although the Drone has queued everything.
Ask ==
  /\ action.pc = "call" /\ action.what \in {"item", "all"}
  /\ LET new == {i \in Wanted : Waiting(i) = {}} IN
       /\ queue' = queue \o InOrder(NewJobs(new))
       /\ \/ action' = [action EXCEPT !.pc = "answer", !.jobs = Len(queue) + 1..Len(queue) + Cardinality(new)]
             /\ UNCHANGED requestLeft
          \/ Finish /\ Use("failures")
  /\ UNCHANGED <<screen, poll>>

Marked(status, items) == IF status = "completed" THEN items ELSE {}
Follow(i, job, status) ==
  /\ followed' = [followed EXCEPT ![i] = [job |-> job, status |-> status]]
  /\ rows' = [rows EXCEPT !.marked = @ \cup (rows.items \cap Marked(status, {i}))]

\* One game: its job is followed; one without a job is taken for downloaded.
FollowItem ==
  /\ action.pc = "answer" /\ action.what = "item" /\ Finish
  /\ IF action.jobs = {}
     THEN Follow(action.item, 0, "completed")
     ELSE \E j \in action.jobs : Follow(action.item, j, "queued")
  /\ UNCHANGED <<queue, here, chosen, films, batch, poll, requestLeft>>

\* All games: the queue is asked once more; a job that is missing there has
\* come to its end meanwhile.
\* Mutant: the queue is asked before the jobs are there.
Earlier == [j \in DOMAIN queue \ action.jobs |-> Snapshot[j]]
Later == Snapshot
StatusIn(seen, j) == IF j \in DOMAIN seen /\ seen[j] # "unlisted" THEN seen[j] ELSE "completed"

FollowAll ==
  /\ action.pc = "answer" /\ action.what = "all" /\ action' = [action EXCEPT !.pc = "settle"]
  /\ LET status == [j \in action.jobs |-> StatusIn(Later, j)]
         done == {queue[j].item : j \in {k \in action.jobs : status[k] = "completed"}}
     IN /\ followed' = [i \in Title |->
             IF \E j \in action.jobs : queue[j].item = i
             THEN LET j == CHOOSE k \in action.jobs : queue[k].item = i IN [job |-> j, status |-> status[j]]
             ELSE followed[i]]
        /\ rows' = [rows EXCEPT !.marked = @ \cup (rows.items \cap done)]
  /\ UNCHANGED <<queue, here, chosen, films, batch, poll, requestLeft>>

SettleBatch ==
  /\ action.pc = "settle" /\ Finish
  /\ batch' = [jobs |-> action.jobs, status |-> IF action.jobs = {} THEN "completed" ELSE "queued"]
  /\ UNCHANGED <<queue, here, chosen, rows, films, followed, poll, requestLeft>>

-----------------------------------------------------------------------------
(* The poll: while the tab is drawn, the queue is asked once a second.     *)

StartPoll ==
  /\ here /\ poll.pc = "idle" /\ Use("polls") /\ poll' = [NoPoll EXCEPT !.pc = "asking"]
  /\ UNCHANGED <<queue, screen, action>>

FetchQueue ==
  /\ poll.pc = "asking" /\ poll' = [pc |-> "answered", seen |-> Snapshot]
  /\ UNCHANGED <<queue, screen, action, requestLeft>>

FetchFails ==
  /\ poll.pc = "asking" /\ Use("failures") /\ poll' = [pc |-> "failed", seen |-> <<>>]
  /\ UNCHANGED <<queue, screen, action>>

\* A job that the answer does not list keeps the status that it had.
Seen(f) == IF f.job \in DOMAIN poll.seen /\ poll.seen[f.job] # "unlisted" THEN poll.seen[f.job] ELSE f.status
Known(items, j) == {i \in items : followed'[i].job = j}
StatusOf(j) == followed'[CHOOSE i \in Known(Title, j) : TRUE].status

\* A batch ends when each of its jobs is known to have ended.
BatchStatus ==
  LET known == {j \in batch.jobs : Known(Title, j) # {}} IN
  IF batch.jobs # {} /\ known = batch.jobs /\ \A j \in known : StatusOf(j) \in Terminal
  THEN IF \E j \in known : StatusOf(j) = "failed" THEN "failed" ELSE "completed"
  ELSE IF known # {} THEN "downloading" ELSE batch.status

ApplyQueue ==
  /\ here /\ poll.pc = "answered" /\ poll' = NoPoll
  /\ followed' = [i \in Title |-> IF followed[i].job = 0 THEN followed[i]
                              ELSE [followed[i] EXCEPT !.status = Seen(followed[i])]]
  /\ rows' = [rows EXCEPT !.marked =
               @ \cup {i \in rows.items : followed'[i].job # 0 /\ followed'[i].status = "completed"}]
  /\ batch' = [batch EXCEPT !.status = BatchStatus]
  /\ UNCHANGED <<queue, here, chosen, films, action, requestLeft>>

EndPoll ==
  /\ here /\ poll.pc = "failed" /\ poll' = NoPoll
  /\ UNCHANGED <<queue, screen, action, requestLeft>>

RequestNext ==
  \/ \E j \in DOMAIN queue : Advance(j)
  \/ Clear \/ CycleSection \/ LeavePeer \/ Type \/ Search \/ SearchFilms \/ DownloadAll
  \/ \E p \in Peer : ChoosePeer(p)
  \/ \E s \in System : ChooseSystem(s)
  \/ \E kind \in {"games", "movies"} : ChooseKind(kind)
  \/ \E i \in Title : RequestItem(i)
  \/ StartAction \/ RetireAction \/ LoadSummary \/ LoadRows \/ LoadFilms \/ CallFails
  \/ Ask \/ FollowItem \/ FollowAll \/ SettleBatch
  \/ StartPoll \/ FetchQueue \/ FetchFails \/ ApplyQueue \/ EndPoll

RequestSpec == RequestInit /\ [][RequestNext]_requestVars

-----------------------------------------------------------------------------
\* What the screen says is so: a download or a batch that has ended has no
\* job that still waits or runs, and at rest the games are those of the peer
\* and the system that are chosen.
EndedHasEnded ==
  /\ \A i \in Title : (followed[i].job # 0 /\ followed[i].status \in Terminal) => Ended(followed[i].job)
  /\ batch.status \in Terminal => \A j \in batch.jobs : Ended(j)
RowsAreOfTheChoice ==
  (Free /\ chosen.peer # NoPeer /\ chosen.system # NoSystem /\ ~rows.error) =>
    (rows.peer = chosen.peer /\ rows.system = chosen.system)
ScreenIsTrue == EndedHasEnded /\ RowsAreOfTheChoice

\* Not so: a game is shown as "Already downloaded" as soon as the Drone queues
\* no job for it, which is so too while an earlier job for it still waits.
MarkedIsHere == rows.marked \subseteq Held

\* Not so: a download that ended while its job was no longer listed (more
\* than Recent have ended since, or they were cleared) is followed for ever,
\* and "Download All" stays disabled.
NothingIsStuck ==
  \A i \in Title : (Busy(i) /\ Ended(followed[i].job)) => (Listed(followed[i].job) \/ poll.pc = "answered")

\* Not so: "Download All" takes what was typed, although the games shown are
\* those of the last search ("the current filtered collection", module docstring).
AllIsWhatIsShown ==
  (action.what = "all" /\ action.pc = "queued" /\ ~rows.error) => chosen.query = rows.query

\* Not so: the error of one peer's movies keeps those of the next from being loaded.
FilmsAreOfTheChoice ==
  (Free /\ chosen.peer # NoPeer /\ chosen.kind = "movies") => chosen.peer \in {films.peer, films.error}
==============================================================================
