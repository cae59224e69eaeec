---------------------------- MODULE OwnSettings ----------------------------
(***************************************************************************)
(* What multiplayer promises about the emulator settings it borrows: each  *)
(* setting has the value its owner gave it, and only an intervention       *)
(* changes that.  Lending a setting to a session, giving it back, dying in *)
(* between and trying again are all invisible here.                        *)
(***************************************************************************)
EXTENDS Naturals

CONSTANTS File

VARIABLES
  value,    \* the value the owner of each setting gave it
  touched   \* how often somebody intervened

Intervene(f) ==
  /\ touched' = touched + 1
  /\ \A g \in File \ {f} : value'[g] = value[g]

OwnSpec == touched = 0 /\ [][\E f \in File : Intervene(f)]_<<value, touched>>
=============================================================================
