--------------------------- MODULE MCDroneIdentity ---------------------------
(* Instances of DroneIdentity: machine A with an installable disk, and       *)
(* machine B, whose disk is empty until A's is imaged onto it.               *)
EXTENDS DroneIdentity

CONSTANTS A, B, disk1, disk2, uuid, board, a1, a2, b1, b2

\* Two units of one model: every serial differs.
MCOwned == [m \in {A, B} |-> [k \in {uuid, board} |-> IF m = A THEN IF k = uuid THEN a1 ELSE a2
                                                      ELSE IF k = uuid THEN b1 ELSE b2]]
MCFitted == [m \in {A, B} |-> IF m = A THEN disk1 ELSE disk2]

Full == [kinds |-> {uuid, board}, ambiguous |-> FALSE]
Unreadable == [kinds |-> {}, ambiguous |-> FALSE]

\* Readings are complete, or complete and sometimes empty.
Steady == {Full}
Unsteady == {Full, Unreadable}

\* Disk images, disk moves, crashes, failing steps and administrator's requests.
Setting(image, move, crash, fault, request, tokens, readings, tailscale) ==
  [image |-> image, move |-> move, crash |-> crash, fault |-> fault, request |-> request,
   tokens |-> tokens, readings |-> readings, tailscale |-> tailscale, pinned |-> NoToken,
   legacy |-> {FALSE}]
Pin(setting) == [setting EXCEPT !.pinned = <<A, 0>>]
Upgraded(setting) == [setting EXCEPT !.legacy = BOOLEAN]

Cloned == Setting(1, 0, 1, 0, 0, 4, Unsteady, FALSE)
OnTailnet == Setting(1, 0, 1, 0, 0, 4, Steady, TRUE)
Pinned == Pin(Setting(1, 0, 0, 0, 1, 4, Steady, FALSE))
Damaged == Upgraded(Setting(1, 0, 0, 1, 0, 4, Unsteady, FALSE))
Moved == Setting(0, 2, 0, 0, 2, 5, Unsteady, FALSE)
Rotated == Upgraded(Setting(0, 0, 1, 0, 2, 6, Unsteady, FALSE))
Faulted == Setting(0, 1, 0, 1, 0, 4, Unsteady, TRUE)
Interrupted == Upgraded(Setting(0, 1, 2, 0, 0, 6, Steady, FALSE))
Authorized == Setting(0, 2, 1, 0, 1, 4, Steady, FALSE)
Undisturbed == Setting(0, 0, 0, 0, 0, 4, Unsteady, TRUE)

EverySite == {Cloned, OnTailnet, Pinned, Damaged, Moved, Rotated, Faulted}
InterruptedSite == {Interrupted}
AuthorizedSite == {Authorized}
UndisturbedSite == {Undisturbed}
=====
