------------------------------ MODULE HeldCall ------------------------------
(***************************************************************************)
(* What two parts promise, without their tables, workers or clocks: an act *)
(* somebody asked for is held, and is carried out on a one-shot permit.    *)
(* The permit can be spent or lost, and a call can be offered again only   *)
(* while nothing was done for it.  For the pending-change queue a call is  *)
(* a proposed action (ADR 0039); for a news mailing it is one copy to one  *)
(* member.  PendingChange and NewsDelivery refine this module.             *)
(***************************************************************************)
EXTENDS Naturals

CONSTANT Calls              \* the calls that may be proposed

VARIABLES
    phase,                  \* what became of each call
    permit,                 \* the calls whose action may run now
    ran                     \* how often each call's action wrote

vars == <<phase, permit, ran>>

Phases == {"absent", "open", "taken", "over"}

TypeOK ==
    /\ phase \in [Calls -> Phases]
    /\ permit \in SUBSET Calls
    /\ ran \in [Calls -> Nat]

Init ==
    /\ phase = [c \in Calls |-> "absent"]
    /\ permit = {}
    /\ ran = [c \in Calls |-> 0]

Hold(S) ==
    /\ \A c \in S : phase[c] = "absent"
    /\ phase' = [c \in Calls |-> IF c \in S THEN "open" ELSE phase[c]]
    /\ UNCHANGED <<permit, ran>>

(* An open call is taken: with a permit, or without one when whoever took *)
(* it never learned that it had.                                          *)
Take(c) ==
    /\ phase[c] = "open"
    /\ phase' = [phase EXCEPT ![c] = "taken"]
    /\ permit' \in {permit, permit \union {c}}
    /\ UNCHANGED ran

Run(c) ==
    /\ c \in permit
    /\ permit' = permit \ {c}
    /\ ran' = [ran EXCEPT ![c] = @ + 1]
    /\ UNCHANGED phase

(* Permits are lost together when the process dies, one by one otherwise. *)
Lose(S) ==
    /\ S \subseteq permit
    /\ permit' = permit \ S
    /\ UNCHANGED <<phase, ran>>

Reopen(c) ==
    /\ phase[c] = "taken"
    /\ c \notin permit
    /\ ran[c] = 0
    /\ phase' = [phase EXCEPT ![c] = "open"]
    /\ UNCHANGED <<permit, ran>>

(* A call can end while its action still runs; an open one has no permit. *)
Close(S) ==
    /\ \A c \in S : phase[c] \in {"open", "taken"}
    /\ phase' = [c \in Calls |-> IF c \in S THEN "over" ELSE phase[c]]
    /\ UNCHANGED <<permit, ran>>

Next ==
    \/ \E c \in Calls : Take(c) \/ Run(c) \/ Reopen(c)
    \/ \E S \in SUBSET Calls : Hold(S) \/ Lose(S) \/ Close(S)

Spec == Init /\ [][Next]_vars
=============================================================================
