--------------------------- MODULE MCBoardMailbox ---------------------------
(* BoardMailbox with small sets for TLC: one process with a bad letter in  *)
(* front of a good one, or with a conversation whose writer asked to be    *)
(* erased; and two processes over one letter.                              *)
EXTENDS BoardMailbox

First(S) == CHOOSE x \in S : TRUE

MCInit ==
    /\ Init
    /\ \/ /\ alive = {First(Collectors)}
          /\ ~asked /\ past = {} /\ files = {}
       \/ /\ alive = {First(Collectors)}
          /\ asked /\ past = {} /\ files = {First(Files)} /\ ~Stored(Max(Letters))
       \/ /\ alive = Collectors
          /\ past = Letters \ {Max(Letters)} /\ files = {}

MCFairSpec == MCInit /\ [][Next]_vars /\ Fairness
=============================================================================
