-------------------------- MODULE MCDownloadQueue --------------------------
(* Instances of DownloadQueue: one or two workers, up to two requests.      *)
EXTENDS DownloadQueue

CONSTANTS w1, w2, r1, r2, r3

Given(command, reconnect, crash, size, total, workers, requests, artwork) ==
  [command |-> command, reconnect |-> reconnect, crash |-> crash, size |-> size, jobs |-> total,
   workers |-> workers, requests |-> requests, artwork |-> artwork]

\* r1 writes every job, r2 and r3 write the queue once, at their end.
Commanded == Given(3, 0, 0, 2, 2, {w1, w2}, {r1}, {FALSE})
Retried == Given(2, 1, 1, 1, 2, {w1, w2}, {r1}, {FALSE})
Deferred == Given(1, 0, 1, 1, 2, {w1}, {r2, r3}, {FALSE})
Adorned == Given(1, 1, 1, 1, 2, {w1, w2}, {r2}, {TRUE})

MCSetting == {Commanded, Retried, Deferred, Adorned}
ResumedSetting == {Given(2, 0, 0, 1, 1, {w1, w2}, {r1}, {FALSE})}
=============================================================================
