-------------------------- MODULE MCSlotCatalogue --------------------------
(* Two days of six hours around a clock that does not shift, one that      *)
(* jumps from 02 to 03, and one that falls back from 03 to 02, on day 1.   *)
EXTENDS SlotCatalogue

MCZones == {[at |-> 0, before |-> 1, after |-> 1],
            [at |-> 7, before |-> 1, after |-> 2],
            [at |-> 7, before |-> 2, after |-> 1]}
=============================================================================
