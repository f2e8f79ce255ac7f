---------------------------- MODULE MCEventSignup ----------------------------
(* EventSignup with small sets for TLC: two persons, one place or two, and  *)
(* a series of two days, the same days an hour later, or the first alone.   *)
EXTENDS EventSignup, TLC

CONSTANTS p1, p2

MCSchedules == {(1 :> 0 @@ 2 :> 0), (1 :> 1 @@ 2 :> 1), (1 :> 0)}
Symmetry == Permutations(Persons)
=============================================================================
