----------------------------- MODULE MailRelay -----------------------------
(***************************************************************************)
(* Notifications and e-mail of a swarm: app/device/smtp_manager.py with    *)
(* app/storage/audit_store.py and app/storage/mail_queue_store.py.         *)
(*                                                                         *)
(* One Drone owns an SMTP configuration, the others may import it.  A      *)
(* Drone with a configuration of its own mails digests of its audit rows   *)
(* and the jobs of its queue; one that imported it (a satellite) relays    *)
(* rows and jobs to the owner and marks them when the owner accepts them.  *)
(* Rows and jobs carry where they came from, so that a relay repeated      *)
(* after a lost answer is ingested once.                                   *)
(***************************************************************************)
EXTENDS Naturals, Sequences, FiniteSets

CONSTANTS
  Drone, NoDrone,
  Matter,      \* what there is to tell: events, and mails of other features
  IsEvent,     \* those of Matter that are events
  IsBackup,    \* those that are mails with a backup attached
  MailBounds   \* [owner: satellites' initial owner, newcomer: who has no configuration,
               \* tells: what of Matter there is; config, crash, fail, lost, unpair: bounds]

VARIABLES
  mail,        \* the SMTP state of each Drone
  audit,       \* the audit rows of each Drone
  queue,       \* the outbound queue of each Drone
  poller,      \* where each Drone's mail loop is
  importing,   \* [Drone -> Drone]: an import between its two saves
  revoker,     \* [Drone -> Drone]: a revocation check that got a 404 from this peer
  paired,      \* whether the Drones are paired
  recorded,    \* what has happened so far
  inbox,       \* history: how often each matter reached the recipient
  excused,     \* history: what may have reached the recipient twice
  mailLeft
mailVars == <<mail, audit, queue, poller, importing, revoker, paired, recorded, inbox, excused, mailLeft>>

\* A row or job is known by its path: the Drone that recorded it, and those
\* it was relayed by (source_drone_id, source_event_id of the row there).
\* What _load_state makes of an empty store.
NoConfig == [has |-> FALSE, src |-> NoDrone, pw |-> FALSE, sharing |-> FALSE, enabled |-> TRUE, wants |-> TRUE]

EventRow(m, path) == [of |-> m, path |-> path, sent |-> FALSE]
Job(kind, of, path, rows) == [kind |-> kind, of |-> of, path |-> path, rows |-> rows, st |-> "queued"]
Open(j) == j.st \in {"queued", "error"}
Resting == [at |-> "idle", jobs |-> {}, rows |-> {}, to |-> NoDrone]

Unsent(d) == {r \in audit[d] : ~r.sent}
Pending(d) == {j \in queue[d] : Open(j)}
Marked(rows, paths) == {[r EXCEPT !.sent = @ \/ r.path \in paths] : r \in rows}
With(jobs, j, st) == (jobs \ {k \in jobs : k.path = j.path /\ k.rows = j.rows}) \cup {[j EXCEPT !.st = st]}

\* export_payload, and what an owner asks before it ingests anything.
Shares(d) == mail[d].has /\ mail[d].sharing /\ mail[d].src = NoDrone

Spend(name) == mailLeft[name] > 0 /\ mailLeft' = [mailLeft EXCEPT ![name] = @ - 1]

-----------------------------------------------------------------------------
(* What there is to tell.                                                   *)
Recording(m) == m \in mailLeft.tells \ recorded /\ recorded' = recorded \cup {m}
RecordEvent(d, m) ==
  /\ m \in IsEvent /\ Recording(m)
  /\ audit' = [audit EXCEPT ![d] = @ \cup {EventRow(m, <<d>>)}]
  /\ UNCHANGED <<mail, queue, poller, importing, revoker, paired, inbox, excused, mailLeft>>

\* A mail is queued by a Drone that has a configuration, whoever's it is.
Queue(d, m) ==
  /\ Recording(m) /\ mail[d].has
  /\ queue' = [queue EXCEPT ![d] = @ \cup {Job("mail", {m}, <<d>>, {})}]
  /\ UNCHANGED <<mail, audit, poller, importing, revoker, paired, inbox, excused, mailLeft>>
QueueTest(d, m) == m \notin IsEvent \cup IsBackup /\ Queue(d, m)
QueueMail(d, m) == m \in IsBackup /\ Queue(d, m)

-----------------------------------------------------------------------------
(* The mail loop, run_audit_email_digest_poller.                            *)
At(d, step) == poller[d].at = step
Goes(d, p) == poller' = [poller EXCEPT ![d] = p]
Rests(d) == Goes(d, Resting)

PollerTurn(d) ==
  /\ At(d, "idle")
  /\ Goes(d, [Resting EXCEPT !.at = IF mail[d].src = NoDrone THEN "digest" ELSE "relay"])
  /\ UNCHANGED <<mail, audit, queue, importing, revoker, paired, recorded, inbox, excused, mailLeft>>

\* A digest lists the rows it was made of.
DigestJob(rows) == Job("digest", {r.of : r \in rows}, <<>>, {r.path : r \in rows})

\* send_digest_if_needed.  Whether the interval is over is left open.
QueueDigest(d) ==
  /\ At(d, "digest") /\ Goes(d, [Resting EXCEPT !.at = "queue"])
  /\ \/ UNCHANGED queue
     \/ /\ mail[d].src = NoDrone /\ mail[d].enabled /\ mail[d].has /\ mail[d].wants
        /\ ~\E j \in Pending(d) : j.kind = "digest"
        /\ Unsent(d) # {}
        /\ queue' = [queue EXCEPT ![d] = @ \cup {DigestJob(Unsent(d))}]
  /\ UNCHANGED <<mail, audit, importing, revoker, paired, recorded, inbox, excused, mailLeft>>

\* _process_outbound_mail_queue_unlocked: whose configuration it is is asked
\* once, the jobs are those that are due then.
TakeJobs(d) ==
  /\ At(d, "queue")
  /\ IF mail[d].src # NoDrone \/ ~mail[d].has THEN Rests(d)
     ELSE \E later \in SUBSET {j \in Pending(d) : j.st = "error"} :
            Goes(d, [Resting EXCEPT !.at = "send", !.jobs = Pending(d) \ later])
  /\ UNCHANGED <<mail, audit, queue, importing, revoker, paired, recorded, inbox, excused, mailLeft>>

\* A relayed mail's attachment is fetched from the Drone that queued it, which
\* must still be paired; a Drone's own is on its disk.
HasAttachment(d, j) == (j.kind = "mail" /\ j.of \subseteq IsBackup /\ Len(j.path) > 1) => paired

\* send_mail, send_mail_with_attachment: the password is that of the moment.
CanSend(d, j) == mail[d].has /\ mail[d].pw /\ HasAttachment(d, j)

\* One job: the message goes out (send_mail), or not, or it goes out and the
\* connection fails at its end.  A digest waits while digests are switched off.
Reaches(j) == inbox' = [m \in Matter |-> inbox[m] + IF m \in j.of THEN 1 ELSE 0]
SendJob(d) ==
  /\ At(d, "send")
  /\ IF poller[d].jobs = {} THEN Rests(d) /\ UNCHANGED <<queue, inbox, excused, mailLeft>>
     ELSE \E j \in poller[d].jobs :
       \/ /\ j.kind = "digest" /\ ~mail[d].enabled
          /\ Goes(d, [poller[d] EXCEPT !.jobs = @ \ {j}]) /\ UNCHANGED <<queue, inbox, excused, mailLeft>>
       \/ /\ j.kind = "digest" => mail[d].enabled
          /\ CanSend(d, j)
          /\ Reaches(j)
          /\ Goes(d, [poller[d] EXCEPT !.at = IF j.kind = "digest" THEN "rows" ELSE "mark", !.jobs = {j} \cup @,
                                       !.rows = {j}])
          /\ UNCHANGED <<queue, excused, mailLeft>>
       \/ /\ j.kind = "digest" => mail[d].enabled
          /\ \/ /\ ~CanSend(d, j) \/ mailLeft.fail > 0
                /\ mailLeft' = [mailLeft EXCEPT !.fail = IF CanSend(d, j) THEN @ - 1 ELSE @]
                /\ UNCHANGED <<inbox, excused>>
             \/ /\ CanSend(d, j) /\ Spend("fail") /\ Reaches(j) /\ excused' = excused \cup j.of
          /\ queue' = [queue EXCEPT ![d] = With(@, j, "error")]
          /\ Goes(d, [poller[d] EXCEPT !.jobs = @ \ {j}])
  /\ UNCHANGED <<mail, audit, importing, revoker, paired, recorded>>

\* Rows of a digest are marked first, then the job.
MarkRows(d) ==
  /\ At(d, "rows")
  /\ audit' = [audit EXCEPT ![d] = Marked(@, UNION {j.rows : j \in poller[d].rows})]
  /\ Goes(d, [poller[d] EXCEPT !.at = "mark"])
  /\ UNCHANGED <<mail, queue, importing, revoker, paired, recorded, inbox, excused, mailLeft>>

MarkSent(d) ==
  /\ At(d, "mark")
  /\ \E j \in poller[d].rows :
       /\ queue' = [queue EXCEPT ![d] = With(@, j, "sent")]
       /\ Goes(d, [poller[d] EXCEPT !.at = "send", !.jobs = @ \ {j}, !.rows = {}])
  /\ UNCHANGED <<mail, audit, importing, revoker, paired, recorded, inbox, excused, mailLeft>>

-----------------------------------------------------------------------------
(* The relay: _run_relay_pass, first the rows, then the jobs.               *)

Relayed(d, events) == IF events THEN Unsent(d) ELSE {j \in Pending(d) : j.kind = "mail"}
\* Mutant: rows are marked when they are posted.
PostAndMark(d) ==
  /\ At(d, "relay") /\ mail[d].src # NoDrone
  /\ Goes(d, [Resting EXCEPT !.at = "posted", !.to = mail[d].src, !.rows = Unsent(d)])
  /\ audit' = [audit EXCEPT ![d] = Marked(@, {r.path : r \in @})]
  /\ UNCHANGED <<mail, queue, importing, revoker, paired, recorded, inbox, excused, mailLeft>>
Post(d) ==
  /\ poller[d].at \in {"relay", "relay jobs"}
  /\ LET events == At(d, "relay")
         next == IF events THEN [Resting EXCEPT !.at = "relay jobs"] ELSE Resting
     IN IF mail[d].src = NoDrone \/ Relayed(d, events) = {} \/ ~paired THEN Goes(d, next)
        ELSE Goes(d, [Resting EXCEPT !.at = IF events THEN "posted" ELSE "posted jobs",
                                     !.to = mail[d].src, !.rows = Relayed(d, events)])
  /\ UNCHANGED <<mail, audit, queue, importing, revoker, paired, recorded, inbox, excused, mailLeft>>

\* The owner ingests what it does not have yet (INSERT OR IGNORE), whatever
\* has become of what it has; the answer may be lost.
Owns(o, path) == \E r \in audit[o] : r.path = path
\* Mutant: a job that is sent is not recognised any more.
OwnsOpenJob(o, path) == \E j \in queue[o] : j.path = path /\ Open(j)
OwnsJob(o, path) == \E j \in queue[o] : j.path = path
Via(r, o) == Append(r.path, o)
IngestEvents(o, rows) == {EventRow(r.of, Via(r, o)) : r \in {s \in rows : ~Owns(o, Via(s, o))}}
IngestJobs(o, jobs) == {Job("mail", j.of, Via(j, o), {}) : j \in {k \in jobs : ~OwnsJob(o, Via(k, o))}}

\* _handle_peer_smtp_notifications and _handle_peer_smtp_mail at the owner o:
\* the sender is the paired peer of the certificate.
ServeEvents(o, rows) == paired /\ Shares(o) /\ audit' = [audit EXCEPT ![o] = @ \cup IngestEvents(o, rows)]
ServeMail(o, jobs) == paired /\ Shares(o) /\ queue' = [queue EXCEPT ![o] = @ \cup IngestJobs(o, jobs)]
Refuses(o) == ~Shares(o) \/ ~paired

EventsArrive(d) ==
  LET o == poller[d].to IN
  /\ At(d, "posted")
  /\ \/ /\ Refuses(o) /\ Goes(d, [Resting EXCEPT !.at = "relay jobs"]) /\ UNCHANGED <<audit, mailLeft>>
     \/ /\ ServeEvents(o, poller[d].rows)
        /\ \/ Goes(d, [poller[d] EXCEPT !.at = "accepted"]) /\ UNCHANGED mailLeft
           \/ Goes(d, [Resting EXCEPT !.at = "relay jobs"]) /\ Spend("lost")
  /\ UNCHANGED <<mail, queue, importing, revoker, paired, recorded, inbox, excused>>

MailArrives(d) ==
  LET o == poller[d].to IN
  /\ At(d, "posted jobs")
  /\ \/ Refuses(o) /\ Rests(d) /\ UNCHANGED <<queue, mailLeft>>
     \/ /\ ServeMail(o, poller[d].rows)
        /\ \/ Goes(d, [poller[d] EXCEPT !.at = "accepted jobs"]) /\ UNCHANGED mailLeft
           \/ Rests(d) /\ Spend("lost")
  /\ UNCHANGED <<mail, audit, importing, revoker, paired, recorded, inbox, excused>>

\* mark_events_emailed, mark_relayed: what was accepted is somebody else's now.
AcceptedPaths(d) == {r.path : r \in poller[d].rows}
EventsAccepted(d) ==
  /\ At(d, "accepted") /\ Goes(d, [Resting EXCEPT !.at = "relay jobs"])
  /\ audit' = [audit EXCEPT ![d] = Marked(@, AcceptedPaths(d))]
  /\ UNCHANGED <<mail, queue, importing, revoker, paired, recorded, inbox, excused, mailLeft>>
MailAccepted(d) ==
  /\ At(d, "accepted jobs") /\ Rests(d)
  /\ queue' = [queue EXCEPT ![d] = {IF j.path \in AcceptedPaths(d) THEN [j EXCEPT !.st = "relayed"] ELSE j : j \in @}]
  /\ UNCHANGED <<mail, audit, importing, revoker, paired, recorded, inbox, excused, mailLeft>>

-----------------------------------------------------------------------------
(* The configuration.                                                       *)

\* What a satellite has not handed over for certain when it leaves its owner,
\* if only between the two saves of an import, may be mailed by both.
LeavesOpen(d) ==
  IF mail[d].src = NoDrone THEN {} ELSE {r.of : r \in Unsent(d)} \cup UNION {j.of : j \in Pending(d)}

\* update_settings: the configuration is the Drone's own from now on.
OwnConfig(d) == [mail[d] EXCEPT !.has = TRUE, !.src = NoDrone, !.pw = TRUE]
SaveSettings(d) ==
  /\ Spend("config") /\ importing[d] = NoDrone
  /\ mail' = [mail EXCEPT ![d] = OwnConfig(d)]
  /\ excused' = excused \cup LeavesOpen(d)
  /\ UNCHANGED <<audit, queue, poller, importing, revoker, paired, recorded, inbox>>

\* import_from_peer saves the settings as the Drone's own and then whose they
\* are; what else writes credentials waits for both.
Import(d, o) ==
  /\ o # d /\ importing[d] = NoDrone
  /\ mail' = [mail EXCEPT ![d] = OwnConfig(d)]
  /\ importing' = [importing EXCEPT ![d] = o]
  /\ excused' = excused \cup LeavesOpen(d)

\* _handle_admin_smtp_pull_from_peer: a person asks a paired peer for them.
PullFromPeer(d, o) ==
  /\ Spend("config") /\ paired /\ Shares(o) /\ Import(d, o)
  /\ UNCHANGED <<audit, queue, poller, revoker, paired, recorded, inbox>>

\* maybe_bootstrap_smtp when a Drone starts, bootstrap_smtp_from_swarm: a Drone
\* that has none takes what a paired peer shares.
MayBootstrap(d) == ~mail[d].has /\ poller[d] = Resting
Bootstrap(d, o) ==
  /\ MayBootstrap(d) /\ Spend("config") /\ paired /\ Shares(o) /\ Import(d, o)
  /\ UNCHANGED <<audit, queue, poller, revoker, paired, recorded, inbox>>

EndImport(d) ==
  /\ importing[d] # NoDrone /\ importing' = [importing EXCEPT ![d] = NoDrone]
  /\ mail' = [mail EXCEPT ![d].src = importing[d], ![d].enabled = FALSE]
  /\ UNCHANGED <<audit, queue, poller, revoker, paired, recorded, inbox, excused, mailLeft>>

SetSharing(d, on) ==
  /\ Spend("config") /\ (on => mail[d].src = NoDrone)
  /\ mail[d].sharing # on /\ mail' = [mail EXCEPT ![d].sharing = on]
  /\ UNCHANGED <<audit, queue, poller, importing, revoker, paired, recorded, inbox, excused>>

SetEnabled(d, on) ==
  /\ Spend("config")
  /\ mail[d].enabled # on /\ mail' = [mail EXCEPT ![d].enabled = on /\ mail[d].src = NoDrone]
  /\ UNCHANGED <<audit, queue, poller, importing, revoker, paired, recorded, inbox, excused>>

\* update_notification_toggles, of the events there are.
SetWanted(d, on) ==
  /\ Spend("config")
  /\ mail[d].wants # on /\ mail' = [mail EXCEPT ![d].wants = on]
  /\ UNCHANGED <<audit, queue, poller, importing, revoker, paired, recorded, inbox, excused>>

Unpair ==
  /\ Spend("unpair") /\ paired /\ paired' = FALSE
  /\ UNCHANGED <<mail, audit, queue, poller, importing, revoker, recorded, inbox, excused>>

\* check_sharing_revocation: the peer is asked without a lock, and what it
\* said is applied if the password is still that peer's.
CheckRevocation(d) ==
  /\ revoker[d] = NoDrone /\ importing[d] = NoDrone
  /\ mail[d].src # NoDrone /\ mail[d].has /\ mail[d].pw
  /\ ~paired \/ ~Shares(mail[d].src)
  /\ revoker' = [revoker EXCEPT ![d] = mail[d].src]
  /\ UNCHANGED <<mail, audit, queue, poller, importing, paired, recorded, inbox, excused, mailLeft>>

\* _revoke_local_credentials takes the password alone.
Wiped(m) == [m EXCEPT !.pw = FALSE]
Revoke(d) ==
  /\ revoker[d] # NoDrone /\ importing[d] = NoDrone
  /\ revoker' = [revoker EXCEPT ![d] = NoDrone]
  /\ mail' = [mail EXCEPT ![d] = IF @.src = revoker[d] THEN Wiped(@) ELSE @]
  /\ UNCHANGED <<audit, queue, poller, importing, paired, recorded, inbox, excused, mailLeft>>

\* A restart: a mail that was on its way out is sent again.
MailRestart(d) ==
  /\ Spend("crash")
  /\ Rests(d) /\ importing' = [importing EXCEPT ![d] = NoDrone] /\ revoker' = [revoker EXCEPT ![d] = NoDrone]
  /\ excused' = excused \cup (IF poller[d].at \in {"rows", "mark"} THEN UNION {j.of : j \in poller[d].rows} ELSE {})
  /\ UNCHANGED <<mail, audit, queue, paired, recorded, inbox>>

-----------------------------------------------------------------------------
\* Drones of a swarm where one has set up mail and shares it with the others.
MailInit ==
  /\ mailLeft \in MailBounds
  /\ mail = [d \in Drone |->
              IF d = mailLeft.newcomer THEN NoConfig
              ELSE [has |-> TRUE, src |-> IF d = mailLeft.owner THEN NoDrone ELSE mailLeft.owner, pw |-> TRUE,
                    sharing |-> d = mailLeft.owner, enabled |-> d = mailLeft.owner, wants |-> TRUE]]
  /\ audit = [d \in Drone |-> {}] /\ queue = [d \in Drone |-> {}]
  /\ poller = [d \in Drone |-> Resting]
  /\ importing = [d \in Drone |-> NoDrone] /\ revoker = [d \in Drone |-> NoDrone]
  /\ paired = TRUE /\ recorded = {} /\ excused = {}
  /\ inbox = [m \in Matter |-> 0]

MailLoop(d) ==
  \/ PollerTurn(d) \/ QueueDigest(d) \/ TakeJobs(d) \/ SendJob(d) \/ MarkRows(d) \/ MarkSent(d)
  \/ Post(d) \/ EventsArrive(d) \/ EventsAccepted(d) \/ MailArrives(d) \/ MailAccepted(d)

MailNext ==
  \/ \E d \in Drone :
       \/ MailLoop(d)
       \/ \E m \in Matter : RecordEvent(d, m) \/ QueueTest(d, m) \/ QueueMail(d, m)
       \/ SaveSettings(d) \/ EndImport(d) \/ \E o \in Drone : PullFromPeer(d, o) \/ Bootstrap(d, o)
       \/ \E on \in BOOLEAN : SetSharing(d, on) \/ SetEnabled(d, on) \/ SetWanted(d, on)
       \/ CheckRevocation(d) \/ Revoke(d) \/ MailRestart(d)
  \/ Unpair

MailSpec == MailInit /\ [][MailNext]_mailVars

-----------------------------------------------------------------------------
\* Whatever is recorded has reached the recipient, or somebody still has it
\* to send, whatever answers are lost, processes die and owners change.
NothingIsForgotten ==
  \A m \in recorded :
    \/ inbox[m] > 0
    \/ \E d \in Drone : (\E r \in Unsent(d) : r.of = m) \/ (\E j \in Pending(d) : m \in j.of)

\* And it reaches the recipient once: a lost answer never makes a second mail.
\* The exceptions are those the code cannot tell apart: a process that dies
\* before it has noted a mail, a connection that fails after the message was
\* taken, and a satellite that leaves its owner with mail open.
MailedOnce == \A m \in Matter \ excused : inbox[m] <= 1
=============================================================================
