-------------------------- MODULE HardwareReadings --------------------------
(***************************************************************************)
(* A machine whose hardware was recorded once, and whose later readings    *)
(* lose identifiers one by one: a kernel without DMI, files only root may  *)
(* read, firmware that blanks a serial.                                    *)
(***************************************************************************)
EXTENDS HardwareIdentity

VARIABLES
  stored,  \* the evidence in the binding
  reading  \* what HardwareIdentityProvider.collect returns now

readingVars == <<stored, reading>>

ReadingInit == stored \in Evidence /\ reading \in Snapshot

Without(evidence, k) == [i \in DOMAIN evidence \ {k} |-> evidence[i]]

\* One identifier can no longer be read.
Lose(k) ==
  /\ k \in DOMAIN reading.components
  /\ reading' = [reading EXCEPT !.components = Without(@, k)]
  /\ UNCHANGED stored

\* Two sources of one kind disagree from now on.
Blur ==
  /\ ~reading.ambiguous
  /\ reading' = [reading EXCEPT !.ambiguous = TRUE]
  /\ UNCHANGED stored

ReadingNext == (\E k \in Kind : Lose(k)) \/ Blur

ReadingSpec == ReadingInit /\ [][ReadingNext]_readingVars

Verdict == Compare(stored, reading)

\* A missing identifier is never taken for new hardware: once a reading is
\* judged to be of the recorded machine, losing identifiers or losing the
\* agreement between two sources only ever makes the Drone hold and ask
\* (compare_hardware, and "a missing identifier is never treated as new
\* hardware" of identity_provisioning.py).
MissingIsNeverNew ==
  [][Verdict = "same" => Verdict' \in {"same", "insufficient", "contradictory"}]_readingVars
=============================================================================
