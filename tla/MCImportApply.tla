---------------------------- MODULE MCImportApply ----------------------------
(* ImportApply with small sets for TLC: a file that lists one address      *)
(* twice, for one person or for two of a household, and two files that     *)
(* list the same person.                                                   *)
EXTENDS ImportApply

CONSTANTS s1, s2, a, m, n, p1, q1, q2, w1, w2, j1

Anna == [email |-> a, name |-> n]
Maja == [email |-> a, name |-> m]

MCFiles == {[s \in {s1, s2} |-> IF s = s1 THEN <<Anna, Anna>> ELSE <<>>],
            [s \in {s1, s2} |-> IF s = s1 THEN <<Anna, Maja>> ELSE <<>>],
            [s \in {s1, s2} |-> <<Anna>>]}
TwoRows == {[s \in {s1} |-> <<Anna, Anna>>]}
=============================================================================
