-------------------------- MODULE HardwareIdentity --------------------------
(***************************************************************************)
(* compare_hardware of app/common/hardware_identity.py: is the machine     *)
(* that reads `current` the one on which `stored` was recorded?            *)
(*                                                                         *)
(* The evidence of a machine is a function from the kinds of identifier it *)
(* has to their digests.  A binding that recorded no hardware and one that *)
(* recorded no component are the same to every caller, and are NoEvidence. *)
(***************************************************************************)
EXTENDS Naturals

CONSTANTS
  Primary,    \* PRIMARY_KINDS: identifiers unique to a unit
  Secondary,  \* SECONDARY_KINDS: serials often left at a vendor-wide value
  Digest      \* the digests of identifiers

Kind == Primary \cup Secondary

ASSUME KindAssumption == Primary \cap Secondary = {}

Evidence == UNION {[K -> Digest] : K \in SUBSET Kind}
NoEvidence == [k \in {} |-> k]

\* A reading of the machine; ambiguous when two sources of one kind disagree.
Snapshot == [components : Evidence, ambiguous : BOOLEAN]

Usable(reading) == reading.components # NoEvidence /\ ~reading.ambiguous

Verdicts == {"same", "different", "insufficient", "contradictory", "baseline"}

Comparable(kinds, stored, current) == kinds \cap DOMAIN stored \cap DOMAIN current
Agree(kinds, stored, current) == \A k \in kinds : stored[k] = current[k]
Differ(kinds, stored, current) == \A k \in kinds : stored[k] # current[k]

\* Kinds that all agree or all differ decide; a mixture is contradictory.
Judge(kinds, stored, current) ==
  IF Agree(kinds, stored, current) THEN "same"
  ELSE IF Differ(kinds, stored, current) THEN "different"
  ELSE "contradictory"

\* Mutant: an agreeing primary identifier hides a secondary one that differs.
CompareSecondaryIgnored(stored, reading) ==
  LET current == reading.components
      primary == Comparable(Primary, stored, current)
      secondary == Comparable(Secondary, stored, current)
  IN  IF reading.ambiguous THEN "contradictory"
      ELSE IF stored = NoEvidence THEN IF current = NoEvidence THEN "insufficient" ELSE "baseline"
      ELSE IF primary # {} THEN Judge(primary, stored, current)
      ELSE IF secondary # {} THEN Judge(secondary, stored, current)
      ELSE "insufficient"

\* The version check of the source compares two snapshots of fingerprint
\* version 1, the only one there is, and is left out.
Compare(stored, reading) ==
  LET current == reading.components
      primary == Comparable(Primary, stored, current)
      secondary == Comparable(Secondary, stored, current)
      byPrimary == Judge(primary, stored, current)
  IN  IF reading.ambiguous THEN "contradictory"
      ELSE IF stored = NoEvidence THEN IF current = NoEvidence THEN "insufficient" ELSE "baseline"
      ELSE IF primary # {}
           THEN IF byPrimary = "same" /\ ~Agree(secondary, stored, current) THEN "contradictory" ELSE byPrimary
      ELSE IF secondary # {} THEN Judge(secondary, stored, current)
      ELSE "insufficient"
=============================================================================
