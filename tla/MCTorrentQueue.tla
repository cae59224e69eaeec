--------------------------- MODULE MCTorrentQueue ---------------------------
EXTENDS TorrentQueue

CONSTANTS t1, g1, g2, g3, g4, g5

\* Two commands and at most one fault of a kind in each setting.
Plain == [command |-> 2, may |-> {}, slow |-> 0, fail |-> 0, crash |-> 0, tunnel |-> 0,
          watched |-> {t1}, alien |-> {}, strict |-> FALSE, late |-> FALSE]
Settings ==
  {[Plain EXCEPT !.may = {"magnet", "delete"}, !.slow = 1, !.watched = {}],
   [Plain EXCEPT !.command = 1, !.may = {"magnet"}, !.slow = 1, !.late = TRUE],
   [Plain EXCEPT !.may = {"directory", "force"}, !.fail = 1],
   [Plain EXCEPT !.may = {"adopt", "delete"}, !.alien = {t1}],
   [Plain EXCEPT !.command = 1, !.may = {"vpn"}, !.tunnel = 1],
   [Plain EXCEPT !.may = {"pause", "directory"}],
   [Plain EXCEPT !.command = 1, !.may = {"cancel"}],
   [Plain EXCEPT !.may = {"delete"}, !.tunnel = 1],
   [Plain EXCEPT !.may = {"upload", "delete"}, !.fail = 1],
   [Plain EXCEPT !.command = 1, !.may = {"clear"}, !.crash = 1]}
=============================================================================
