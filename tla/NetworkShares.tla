---------------------------- MODULE NetworkShares ----------------------------
(***************************************************************************)
(* References to the library of a peer, app/device/network_share_manager.py*)
(* with app/device/network_es_overlay.py: the peer's share is mounted, one *)
(* EmulationStation overlay points at it, a setting of EmulationStation is *)
(* turned on for as long, and BIOS files that are missing become links.    *)
(*                                                                         *)
(* A request only records what is wanted; workers, the boot replay, the    *)
(* watchdog and the BIOS job do the work, one at a time for each peer but  *)
(* side by side for two peers, and all of them may be cut off by a crash.  *)
(***************************************************************************)
EXTENDS Naturals

CONSTANTS
  Source,        \* peers whose library may be referenced
  NoSource,
  ShareBounds    \* how many requests, crashes, failures; see ShareInit

VARIABLES
  share,     \* the record of each peer, or NoShare
  section,   \* who holds the lock of a peer, and how far it is
  mounted,   \* peers whose share is mounted
  linked,    \* peers that BIOS links point to
  overlay,   \* the peer the overlay points to
  gamelistOnly,  \* ParseGamelistOnly: as the user left it, or on
  enabling, disabling,  \* _ACTIVE_ENABLE_JOBS, _ACTIVE_DISABLE_JOBS
  biosJob,   \* _ACTIVE_BIOS_JOBS, with how far each is
  watch,     \* what the watchdog saw
  replay,    \* peers the boot replay still has to see
  sharesLeft
shareVars == <<share, section, mounted, linked, overlay, gamelistOnly, enabling, disabling, biosJob, watch, replay, sharesLeft>>
effects == <<mounted, linked, overlay, gamelistOnly>>
threads == <<enabling, disabling, biosJob, watch, replay>>

NoShare == [enabled |-> FALSE, status |-> "none", linked |-> FALSE, previous |-> "unknown"]
NewShare == [NoShare EXCEPT !.enabled = TRUE, !.status = "pending"]
Free == [pc |-> "free", by |-> "nobody"]
Unwatched == [peer |-> NoSource, alive |-> FALSE]

ShareInit ==
  /\ share = [p \in Source |-> NoShare] /\ section = [p \in Source |-> Free]
  /\ mounted = {} /\ linked = {} /\ overlay = NoSource /\ gamelistOnly = "user"
  /\ enabling = {} /\ disabling = {} /\ biosJob = [p \in Source |-> "none"]
  /\ watch = Unwatched /\ replay = {}
  /\ sharesLeft \in ShareBounds

Spend(what) == sharesLeft[what] > 0 /\ sharesLeft' = [sharesLeft EXCEPT ![what] = @ - 1]
Record(p) == IF share[p] = NoShare THEN NewShare ELSE share[p]
Upsert(p, updated) == share' = [share EXCEPT ![p] = updated]
Wanted(p) == share[p] # NoShare /\ share[p].enabled /\ share[p].status # "detaching"
Active == {p \in Source : Wanted(p)}   \* active_reference_peer_id is the first of them
IsFirst(p) == p \in Active /\ \A q \in Active : q = p \/ p = CHOOSE r \in {p, q} : TRUE
RefusedFor(p) == \E q \in Active \ {p} : IsFirst(q)
Unlocked(p) == section[p] = Free
To(p, pc) == section' = [section EXCEPT ![p].pc = pc]
Take(p, by, pc) == section' = [section EXCEPT ![p] = [pc |-> pc, by |-> by]]
Leave(p) == section' = [section EXCEPT ![p] = Free]

-----------------------------------------------------------------------------
(* Requests.  The lock is that of one peer: between the check of           *)
(* request_enable and its record, another peer may be asked for.           *)
RequestEnable(p) ==
  /\ Unlocked(p) /\ Spend("requests") /\ ~RefusedFor(p)
  /\ share[p] = NoShare \/ (Wanted(p) /\ share[p].status # "mounted")
  /\ Take(p, "request", "accept")
  /\ UNCHANGED <<share, effects, threads>>

AcceptEnable(p) ==
  /\ section[p].pc = "accept"
  /\ Upsert(p, [Record(p) EXCEPT !.enabled = TRUE, !.status = "enabling"])
  /\ enabling' = enabling \cup {p}
  /\ Leave(p)
  /\ UNCHANGED <<effects, disabling, biosJob, watch, replay, sharesLeft>>

RequestDisable(p) ==
  /\ Unlocked(p) /\ share[p] # NoShare /\ Spend("requests")
  /\ Upsert(p, [share[p] EXCEPT !.enabled = FALSE, !.status = "detaching"])
  /\ disabling' = disabling \cup {p}
  /\ UNCHANGED <<section, effects, enabling, biosJob, watch, replay>>

-----------------------------------------------------------------------------
(* _enable_locked, step by step: the record says "enabling" before the     *)
(* mount, the overlay and the setting come after, "mounted" is last.       *)
EnableJob(p) ==
  /\ p \in enabling /\ Unlocked(p) /\ Take(p, "job", "enter")
  /\ UNCHANGED <<share, effects, threads, sharesLeft>>

\* Back to whoever called it.
Returned(p) ==
  /\ Leave(p)
  /\ enabling' = IF section[p].by = "job" THEN enabling \ {p} ELSE enabling
  /\ UNCHANGED <<disabling, watch, replay>>

\* The checks that raise, and what the callers make of it.
EnterRefused(p) ==
  /\ section[p].pc = "enter"
  /\ RefusedFor(p) \/ (share[p] # NoShare /\ ~Wanted(p))
  /\ Returned(p)
  /\ share' = IF ~share[p].enabled THEN share
              ELSE CASE section[p].by = "job" /\ Wanted(p) -> [share EXCEPT ![p].status = "error"]
                     [] section[p].by = "watchdog" -> [share EXCEPT ![p].status = "peer_unreachable"]
                     [] OTHER -> share
  /\ UNCHANGED <<effects, biosJob, sharesLeft>>

Enter(p) ==
  /\ section[p].pc = "enter"
  /\ ~RefusedFor(p) /\ (share[p] = NoShare \/ Wanted(p))
  /\ To(p, IF share[p].status \in {"pending", "enabling"} THEN "recover" ELSE "begin")
  /\ UNCHANGED <<share, effects, threads, sharesLeft>>

\* _restore_local_fallback: the overlay, the setting if the record has it,
\* the links of the record, and links that are not in it yet.
\* Mutant: links that are not in the record yet are not looked for.
RecordedOnly(p) == IF share[p].linked THEN linked \ {p} ELSE linked
OwnedLinksRemoved(p) == linked \ {p}
Restore(p) ==
  /\ overlay' = NoSource
  /\ gamelistOnly' = IF share[p].previous = "unknown" THEN gamelistOnly ELSE share[p].previous
  /\ linked' = OwnedLinksRemoved(p)
  /\ mounted' = mounted \ {p}

\* Its first file: a crash may come before the rest.
RemoveOverlay(p) ==
  /\ section[p].pc \in {"recover", "detach"} /\ overlay # NoSource
  /\ overlay' = NoSource
  /\ UNCHANGED <<share, section, mounted, linked, gamelistOnly, threads, sharesLeft>>

Recover(p) ==
  /\ section[p].pc = "recover" /\ Restore(p)
  /\ Upsert(p, [share[p] EXCEPT !.linked = FALSE])
  /\ To(p, "begin")
  /\ UNCHANGED <<threads, sharesLeft>>

Begin(p) ==
  /\ section[p].pc = "begin"
  /\ Upsert(p, [Record(p) EXCEPT !.enabled = TRUE, !.status = "enabling"])
  /\ To(p, IF p \in mounted THEN "install" ELSE "mount")
  /\ UNCHANGED <<effects, threads, sharesLeft>>

Mount(p) ==
  /\ section[p].pc = "mount" /\ mounted' = mounted \cup {p}
  /\ To(p, "install")
  /\ UNCHANGED <<share, linked, overlay, gamelistOnly, threads, sharesLeft>>

\* No mount, a share that is not complete, no overlay for it: what there was
\* is taken back, and the watchdog tries again.
FailEnable(p) ==
  /\ section[p].pc \in {"mount", "install"} /\ Spend("failures")
  /\ Restore(p)
  /\ Upsert(p, [share[p] EXCEPT !.status = IF section[p].pc = "mount" THEN "peer_unreachable" ELSE "error", !.linked = FALSE])
  /\ Returned(p)
  /\ UNCHANGED biosJob

InstallOverlay(p) ==
  /\ section[p].pc = "install" /\ overlay' = p
  /\ To(p, "setting")
  /\ UNCHANGED <<share, mounted, linked, gamelistOnly, threads, sharesLeft>>

\* What the setting was is known to this call only, until the last record.
InstallSetting(p) ==
  /\ section[p].pc = "setting" /\ gamelistOnly' = "on"
  /\ section' = [section EXCEPT ![p].pc = IF share[p].previous # "unknown" THEN share[p].previous ELSE gamelistOnly]
  /\ UNCHANGED <<share, mounted, linked, overlay, threads, sharesLeft>>

FinishEnable(p) ==
  /\ section[p].pc \in {"user", "on"}
  /\ Upsert(p, [share[p] EXCEPT !.status = "mounted", !.previous = section[p].pc])
  /\ biosJob' = IF biosJob[p] = "none" THEN [biosJob EXCEPT ![p] = "queued"] ELSE biosJob
  /\ Returned(p)
  /\ UNCHANGED <<effects, sharesLeft>>

-----------------------------------------------------------------------------
(* disable.                                                                 *)
DisableJob(p) ==
  /\ p \in disabling /\ Unlocked(p)
  /\ IF share[p] = NoShare
     THEN disabling' = disabling \ {p} /\ UNCHANGED <<share, section>>
     ELSE /\ Take(p, "job", "detach") /\ UNCHANGED disabling
          /\ Upsert(p, [share[p] EXCEPT !.enabled = FALSE, !.status = "detaching"])
  /\ UNCHANGED <<effects, enabling, biosJob, watch, replay, sharesLeft>>

Detach(p) ==
  /\ section[p].pc = "detach" /\ Restore(p)
  /\ To(p, "detached")
  /\ UNCHANGED <<share, threads, sharesLeft>>

\* Something could not be removed: the record stays until a restart.
FailDetach(p) ==
  /\ section[p].pc = "detach" /\ Spend("failures")
  /\ mounted' = mounted \ {p}
  /\ Upsert(p, [share[p] EXCEPT !.status = "error"])
  /\ Leave(p) /\ disabling' = disabling \ {p}
  /\ UNCHANGED <<linked, overlay, gamelistOnly, enabling, biosJob, watch, replay>>

Forget(p) ==
  /\ section[p].pc = "detached"
  /\ share' = [share EXCEPT ![p] = NoShare]
  /\ Leave(p) /\ disabling' = IF section[p].by = "job" THEN disabling \ {p} ELSE disabling
  /\ UNCHANGED <<effects, enabling, biosJob, watch, replay, sharesLeft>>

-----------------------------------------------------------------------------
(* _run_bios_reconciliation: the inventory is fetched without the lock.    *)
BiosBegins(p) ==
  /\ biosJob[p] = "queued" /\ Unlocked(p)
  /\ biosJob' = [biosJob EXCEPT ![p] = IF Wanted(p) THEN "fetching" ELSE "none"]
  /\ UNCHANGED <<share, section, effects, enabling, disabling, watch, replay, sharesLeft>>

\* Mutant: what was seen before the fetch is taken for granted.
SeenBefore(p) == TRUE
StillReferenced(p) == Wanted(p) /\ share[p].status = "mounted"

BiosLinks(p) ==
  /\ biosJob[p] = "fetching" /\ Unlocked(p)
  /\ IF StillReferenced(p) THEN linked' = linked \cup {p} /\ Take(p, "bios", "links") /\ UNCHANGED biosJob
     ELSE biosJob' = [biosJob EXCEPT ![p] = "none"] /\ UNCHANGED <<linked, section>>
  /\ UNCHANGED <<share, mounted, overlay, gamelistOnly, enabling, disabling, watch, replay, sharesLeft>>

BiosUnavailable(p) ==
  /\ biosJob[p] = "fetching" /\ Unlocked(p) /\ Spend("failures")
  /\ biosJob' = [biosJob EXCEPT ![p] = "none"]
  /\ UNCHANGED <<share, section, effects, enabling, disabling, watch, replay>>

BiosRecorded(p) ==
  /\ section[p].pc = "links"
  /\ Upsert(p, [share[p] EXCEPT !.linked = TRUE])
  /\ biosJob' = [biosJob EXCEPT ![p] = "none"] /\ Leave(p)
  /\ UNCHANGED <<effects, enabling, disabling, watch, replay, sharesLeft>>

-----------------------------------------------------------------------------
(* run_watchdog_poller probes without the lock, and looks again with it.   *)
Probe(p, alive) ==
  /\ watch = Unwatched /\ Wanted(p) /\ (alive => p \in mounted)
  /\ IF ~alive /\ p \in mounted THEN Spend("failures") ELSE UNCHANGED sharesLeft
  /\ watch' = [peer |-> p, alive |-> alive]
  /\ UNCHANGED <<share, section, effects, enabling, disabling, biosJob, replay>>

ActOnProbe(p) ==
  /\ watch.peer = p /\ Unlocked(p) /\ watch' = Unwatched
  /\ \/ ~Wanted(p) /\ UNCHANGED <<share, section, mounted>>
     \/ /\ Wanted(p) /\ watch.alive /\ UNCHANGED <<section, mounted>>
        /\ Upsert(p, [share[p] EXCEPT !.status = "mounted"])
     \/ /\ Wanted(p) /\ ~watch.alive /\ UNCHANGED share
        /\ mounted' = mounted \ {p} /\ Take(p, "watchdog", "enter")
  /\ UNCHANGED <<linked, overlay, gamelistOnly, enabling, disabling, biosJob, replay, sharesLeft>>

\* maybe_reconnect_all_on_boot.
Replay(p) ==
  /\ p \in replay /\ Unlocked(p) /\ replay' = replay \ {p}
  /\ \/ Wanted(p) /\ Take(p, "boot", "enter") /\ UNCHANGED share
     \/ /\ share[p] # NoShare /\ ~Wanted(p) /\ Take(p, "boot", "detach")
        /\ Upsert(p, [share[p] EXCEPT !.enabled = FALSE, !.status = "detaching"])
     \/ share[p] = NoShare /\ UNCHANGED <<share, section>>
  /\ UNCHANGED <<effects, enabling, disabling, biosJob, watch, sharesLeft>>

\* The process, or the machine and with it the mounts.
Restart(machine) ==
  /\ Spend("crashes")
  /\ mounted' = IF machine THEN {} ELSE mounted
  /\ section' = [p \in Source |-> Free] /\ enabling' = {} /\ disabling' = {}
  /\ biosJob' = [p \in Source |-> "none"] /\ watch' = Unwatched
  /\ replay' = {p \in Source : share[p] # NoShare}
  /\ UNCHANGED <<share, linked, overlay, gamelistOnly>>

ShareNext ==
  \/ \E p \in Source :
       \/ RequestEnable(p) \/ AcceptEnable(p) \/ RequestDisable(p)
       \/ EnableJob(p) \/ EnterRefused(p) \/ Enter(p) \/ RemoveOverlay(p) \/ Recover(p) \/ Begin(p) \/ Mount(p)
       \/ FailEnable(p) \/ InstallOverlay(p) \/ InstallSetting(p) \/ FinishEnable(p)
       \/ DisableJob(p) \/ Detach(p) \/ FailDetach(p) \/ Forget(p)
       \/ BiosBegins(p) \/ BiosUnavailable(p) \/ BiosLinks(p) \/ BiosRecorded(p)
       \/ (\E alive \in BOOLEAN : Probe(p, alive)) \/ ActOnProbe(p) \/ Replay(p)
  \/ \E machine \in BOOLEAN : Restart(machine)

ShareSpec == ShareInit /\ [][ShareNext]_shareVars

-----------------------------------------------------------------------------
\* What is not recorded is not there: a peer without a record has no mount and
\* no links, and when no peer has one there is no overlay.  Whatever a crash
\* cuts off is still owned by a record, so that the boot replay removes it.
NothingIsLeftBehind ==
  /\ \A p \in mounted \cup linked : share[p] # NoShare
  /\ overlay # NoSource => \E p \in Source : share[p] # NoShare

ShareStatus == {"none", "pending", "enabling", "mounted", "error", "peer_unreachable", "detaching"}
ShareRecord ==
  [enabled : BOOLEAN, status : ShareStatus, linked : BOOLEAN, previous : {"unknown", "user", "on"}]
SectionStep == {"free", "accept", "enter", "recover", "begin", "mount", "install", "setting", "user", "on",
                "detach", "detached", "links"}
Section == [pc : SectionStep, by : {"nobody", "request", "job", "watchdog", "boot", "bios"}]
ShareTypes ==
  /\ share \in [Source -> ShareRecord] /\ section \in [Source -> Section]
  /\ gamelistOnly \in {"user", "on"}

\* Whoever holds the lock of a peer, and is past its first look, has a record
\* of that peer; when it is about to forget it nothing of the peer is left.
Recorded(p) ==
  /\ section[p].pc \in {"recover", "mount", "install", "setting", "user", "on", "detach", "detached", "links"}
       => share[p] # NoShare
  /\ section[p].pc = "recover" => share[p].status \in {"pending", "enabling"}
  /\ section[p].pc = "detached" => p \notin mounted \cup linked /\ overlay # p

\* What lasts: mounts, links and the overlay have the record of their own peer.
ShareInv ==
  /\ ShareTypes /\ \A p \in Source : Recorded(p)
  /\ mounted \cup linked \subseteq {p \in Source : share[p] # NoShare}
  /\ overlay # NoSource => overlay \in Source /\ share[overlay] # NoShare

\* Not held by the code: with no record left, the setting is the user's.  It is
\* recorded after it was changed, so a crash in between makes "on" the value
\* that the next reference gives back.
SettingIsGivenBack == (\A p \in Source : share[p] = NoShare /\ Unlocked(p)) => gamelistOnly = "user"

\* Not held by the code: one machine at a time.  Two requests each find no
\* other before either is recorded.
OneMachineAtATime == \A p, q \in Source : p \in mounted /\ q \in mounted => p = q

\* Not held by the code: a record that says mounted has its overlay, while
\* nobody works on it.
MountedIsReferenced == \A p \in Source : Unlocked(p) /\ share[p].status = "mounted" => overlay = p
=============================================================================
