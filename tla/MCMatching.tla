------------------------------ MODULE MCMatching ------------------------------
(* Small instances of Matching for TLC. *)
EXTENDS Matching, TLC

CONSTANTS t1, t2, d1, d2

\* Drivers, and riders, may be renamed where they all have the same habits.
SameDrivers == Permutations({d1, d2})
SameRiders == Permutations({t1, t2})
SameHabits == SameRiders \cup SameDrivers
================================================================================
