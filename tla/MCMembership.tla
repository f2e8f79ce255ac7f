---------------------------- MODULE MCMembership ----------------------------
(* Two persons, two apartments and four days.  Membership states three     *)
(* walks of the code by what they find; here each is also walked as the    *)
(* code walks it, and the two agree.                                       *)
EXTENDS Membership, SequencesExt

CONSTANTS p, q, a, b

MCStay(who, where, role, from, to) ==
    [person |-> who, apartment |-> where, role |-> role,
     movedInOn |-> from, movedOutOn |-> to]
Member(who, where, from) == MCStay(who, where, "MEMBER", from, None)
Enter(stay) == [stay |-> stay, deed |-> None]
By(stay, kind, from, day) ==
    [stay |-> stay, deed |-> [kind |-> kind, fromPerson |-> from, transferredOn |-> day]]
Leave(day) == [movedOutOn |-> day, deed |-> None]

(* p's moves overlap and bridge each other, or pass a to and from q. *)
MCArrivals == {Enter(Member(p, a, 1)), Enter(Member(p, b, 2)),
               Enter(Member(p, b, 4)), Enter(MCStay(p, b, "RESIDENT", 3, None)),
               By(Member(p, a, 2), "GRANT", None, 2),
               By(Member(q, a, 1), "GRANT", None, 1),
               By(Member(p, a, 3), "TRANSFER", q, 3)}
MCDepartures == {Leave(day) : day \in {1, 3, 4}}
    \union {[movedOutOn |-> 3, deed |-> [toPerson |-> p, transferredOn |-> 3]]}
MCFiles == {{MCStay(p, a, "MEMBER", 1, 3), MCStay(p, b, "MEMBER", 2, 4)}}
MCSymmetry == Permutations(Ids) \union Permutations(Moves)

-----------------------------------------------------------------------------
(* Up to two residencies within three days, and up to three rows in the    *)
(* order they were written.                                                *)
SomeStays == UNION {{{MCStay(p, a, "MEMBER", d, e), MCStay(p, a, "MEMBER", f, g)} :
                        e \in d..4 \union {None}, g \in f..4 \union {None}} :
                      d \in 1..3, f \in 1..3}
SomeRows == {{[person |-> p, eventType |-> t[i], eventOn |-> d[i], at |-> i] : i \in 1..n} :
               t \in [1..3 -> {"ENTRY", "EXIT"}], d \in [1..3 -> 1..3], n \in 0..3}

InOrder(days) == SetToSortSeq(days, <)

(* owedMembershipEvents, for (const time of days). *)
OwedStep(before, after, walk, day) ==
    LET registered == IF Held(before, day) # Held(before, day - 1)
                      THEN Held(before, day) ELSE walk.registered
    IN  [registered |-> Held(after, day),
         owed |-> IF Held(after, day) = registered THEN walk.owed
                  ELSE walk.owed \union {day}]
OwedWalk(before, after) ==
    FoldLeft(LAMBDA walk, day : OwedStep(before, after, walk, day),
             [registered |-> FALSE, owed |-> {}],
             InOrder(Ends(before) \union Ends(after))).owed

ASSUME OwedIsWalked ==
    \A before, after \in SomeStays \union {{}} :
        Owed(before, after) = OwedWalk(before, after)

(* membershipPeriods, for (const event of personEvents). *)
PeriodsStep(walk, e) ==
    IF e.eventType = "EXIT"
    THEN [open |-> None, periods |-> Append(walk.periods, [entry |-> walk.open, exit |-> e])]
    ELSE [walk EXCEPT !.open = IF @ = None THEN e ELSE @]
Periods(rows) ==
    LET walk == FoldLeft(PeriodsStep, [open |-> None, periods |-> <<>>],
                         SetToSortSeq(rows, Precedes))
    IN  IF walk.open = None THEN walk.periods
        ELSE Append(walk.periods, [entry |-> walk.open, exit |-> None])

ASSUME MembersAreOfPeriods ==
    \A rows \in SomeRows, day \in 0..4 :
        MemberOn(rows, day) <=>
            \E i \in DOMAIN Periods(rows) : LET period == Periods(rows)[i] IN
                /\ period.entry # None => period.entry.eventOn <= day
                /\ period.exit # None => period.exit.eventOn > day

(* reconcileMembership, for (const time of days). *)
ReconcileStep(rows, stays, walk, day) ==
    LET passed == SelectSeq(walk.pending, LAMBDA e : e.eventOn <= day)
        registered == IF passed = <<>> THEN walk.registered
                      ELSE Last(passed).eventType = "ENTRY"
    IN  [pending |-> SelectSeq(walk.pending, LAMBDA e : e.eventOn > day),
         registered |-> Held(stays, day),
         owed |-> IF Held(stays, day) = registered THEN walk.owed
                  ELSE walk.owed \union {day}]
ReconcileWalk(rows, stays) ==
    FoldLeft(LAMBDA walk, day : ReconcileStep(rows, stays, walk, day),
             [pending |-> SetToSortSeq(rows, Precedes),
              registered |-> FALSE, owed |-> {}],
             InOrder({day \in Ends(stays) \union {e.eventOn : e \in rows} :
                        Begun(stays, day)})).owed

ASSUME UnreconciledIsWalked ==
    \A rows \in SomeRows, stays \in SomeStays \union {{}} :
        Unreconciled(rows, stays) = ReconcileWalk(rows, stays)
=============================================================================
