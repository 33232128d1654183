----------------------------- MODULE MCEntryRisk -----------------------------
(* Small instances of EntryRiskReservation for TLC. *)
EXTENDS EntryRiskReservation, TLC

CONSTANTS i1, i2, i3, s1, s2, s3

\* Two intents for the first symbol, one for the second; the third holds a
\* position older than the policy.
TwoSymbols == [i \in Intent |-> IF i = i3 THEN s2 ELSE s1]
Margins == [i \in Intent |->
  CASE i = i1 -> 1 [] i = i2 -> 3 [] i = i3 -> 2]
UnitMargins == [i \in Intent |-> 1]
OldPosition == [x \in Symbol |-> IF x = s3 THEN 1 ELSE 0]
NoLegacy == [x \in Symbol |-> 0]

\* The workers are interchangeable.
Workers == Permutations(Worker)

Reduced == {[mode |-> "reduced", cap |-> 4]}
Modes == Reduced \cup {[mode |-> "monitor_only", cap |-> 0]}
=============================================================================
