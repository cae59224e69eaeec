------------------------ MODULE MCMultiplayerSession ------------------------
(* Instances of MultiplayerSession: one guest in the lobby, during a start, *)
(* and after it; two guests who play.                                       *)
EXTENDS MultiplayerSession

CONSTANTS g1, g2

\* Everybody is ready, and the session may be started once.
Quiet == [stage |-> "ready", guests |-> {g1}, start |-> 1, retry |-> 0, invite |-> 0, remove |-> 0,
          change |-> 0, leave |-> 0, end |-> 0, lose |-> 0, drop |-> 0, fail |-> 0, stuck |-> 0, exit |-> 0,
          crash |-> 0, reboot |-> 0, sweep |-> 0, endless |-> FALSE]
Playing == [Quiet EXCEPT !.stage = "playing", !.start = 0, !.sweep = 1, !.guests = {g1, g2}]
Lobby0 == [Quiet EXCEPT !.stage = "invited", !.start = 0]

\* One start and one thing that disturbs it, or a failure and a retry.
Starts ==
  {[Quiet EXCEPT !.sweep = 1],
   [Quiet EXCEPT !.leave = 1, !.lose = 1],
   [Quiet EXCEPT !.crash = 1],
   [Quiet EXCEPT !.reboot = 1],
   [Quiet EXCEPT !.end = 1],
   [Quiet EXCEPT !.drop = 1],
   [Quiet EXCEPT !.leave = 1, !.retry = 1],
   [Quiet EXCEPT !.fail = 1, !.retry = 1],
   [Quiet EXCEPT !.fail = 1, !.end = 1, !.stuck = 1]}

\* Guests play, after a start that nothing disturbed.
Plays ==
  {[Playing EXCEPT !.drop = 1, !.retry = 1],
   [Playing EXCEPT !.drop = 1, !.end = 1],
   [Playing EXCEPT !.exit = 1, !.leave = 1],
   [Playing EXCEPT !.reboot = 1, !.exit = 1],
   [Playing EXCEPT !.guests = {g1}, !.crash = 1, !.exit = 1, !.end = 1]}

\* Invitations and what is done with them.
Lobbies ==
  {[Lobby0 EXCEPT !.stage = "joined", !.guests = {g1, g2}, !.change = 3],
   [Lobby0 EXCEPT !.change = 1, !.lose = 1, !.end = 1],
   [Lobby0 EXCEPT !.invite = 1, !.change = 1, !.remove = 1, !.leave = 1]}

\* Housekeeping sweeps for ever.
Lasting == {[Quiet EXCEPT !.sweep = 1, !.endless = TRUE],
            [Playing EXCEPT !.guests = {g1}, !.drop = 1, !.end = 1, !.crash = 1, !.endless = TRUE],
            [Playing EXCEPT !.end = 1, !.endless = TRUE]}

AllSettings == Starts \cup Plays \cup Lobbies
=============================================================================
