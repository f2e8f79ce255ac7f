----------------------------- MODULE Membership -----------------------------
(***************************************************************************)
(* Who is a member, and since when: the moves (moves/move.service.ts) and  *)
(* the import's chunks (import/import-apply.service.ts) write residencies, *)
(* and with them the rows they owe the append-only member register         *)
(* (registers/membership-transitions.ts); it is read back as memberships   *)
(* (registers/membership-periods.ts) and can be compared with the          *)
(* residencies (registers/member-register-reconciliation.ts).              *)
(*                                                                         *)
(* A move or a chunk is one transaction: it waits for its locks, reads and *)
(* commits.  It reads as it gets its locks, which leaves the others the    *)
(* longest time to change what it read.  A refusal is a rollback.          *)
(***************************************************************************)
EXTENDS Integers

CONSTANTS
    Persons, Apartments,
    Ids,            \* of the residency rows
    Days,           \* the calendar days a move may be dated
    Moves,          \* transactions that may be under way at once
    Arrivals,       \* the move-ins the board may enter
    Departures,     \* what it may enter of a move-out
    Files,          \* the chunks of imported rows
    None            \* SQL's NULL, and nothing

VARIABLES
    residency,      \* the residency table
    register,       \* the member_register_entry table
    transfer,       \* the transfer table
    writes,         \* transactions committed so far: the clock of createdAt
    move            \* what each transaction is doing

tables == <<residency, register, transfer, writes>>
vars == <<tables, move>>

Stay == [person : Persons, apartment : Apartments,
         role : {"MEMBER", "RESIDENT"},
         movedInOn : Days, movedOutOn : Days \union {None}]

Residency == [id : Ids, stay : Stay]

Row == [person : Persons, eventType : {"ENTRY", "EXIT"},
        eventOn : Days, at : Nat]

Deed == [apartment : Apartments, kind : {"GRANT", "TRANSFER"},
         fromPerson : Persons \union {None}, toPerson : Persons,
         transferredOn : Days]

(* A move-in states an open stay and, of a member, how it was acquired;    *)
(* a move-out the day and, of a member, who acquires; a chunk the stays    *)
(* of one person.                                                          *)
Arrival == [stay : Stay,
            deed : [kind : {"GRANT", "TRANSFER"}, transferredOn : Days,
                    fromPerson : Persons \union {None}] \union {None}]
Departure == [movedOutOn : Days,
              deed : [toPerson : Persons, transferredOn : Days] \union {None}]

(* A transaction: the rows it adds, or the one it ends and the day, and    *)
(* the deed it records; before is what its person held when it got its     *)
(* locks.                                                                  *)
Move == [at : {"asked", "locked"}, person : Persons,
         adds : SUBSET Residency,
         ends : Ids \union {None}, movedOutOn : Days \union {None},
         deed : Deed \union {None}, before : SUBSET Stay]

ASSUME DaysAssumption == Days \subseteq Nat
ASSUME NoneAssumption ==
    None \notin Days \union Persons \union Ids \union Deed \union Move
ASSUME AsksAssumption ==
    /\ Arrivals \subseteq {a \in Arrival : a.stay.movedOutOn = None}
    /\ Departures \subseteq Departure
    /\ Files \subseteq SUBSET Stay
    /\ \A a \in Arrivals : a.deed # None => a.stay.role = "MEMBER"
    /\ \A file \in Files : \A s, t \in file : s.person = t.person
    /\ \A file \in Files : \A s \in file :
          s.movedOutOn # None => s.movedOutOn >= s.movedInOn

TypeOK ==
    /\ residency \subseteq Residency
    /\ register \subseteq Row
    /\ transfer \subseteq [deed : Deed, at : Nat]
    /\ writes \in Nat
    /\ move \in [Moves -> Move \union {None}]

Init ==
    /\ residency = {}
    /\ register = {}
    /\ transfer = {}
    /\ writes = 0
    /\ move = [m \in Moves |-> None]

-----------------------------------------------------------------------------
(* held-on.ts: the move-in day is the first day held, the move-out day the *)
(* first that is not.                                                      *)
IsResidencyHeldOn(s, day) ==
    s.movedInOn <= day /\ (s.movedOutOn # None => s.movedOutOn > day)

Held(stays, day) == \E s \in stays : IsResidencyHeldOn(s, day)

MemberStays(table, p) ==
    {s \in {r.stay : r \in table} : s.person = p /\ s.role = "MEMBER"}

Ends(stays) ==
    {s.movedInOn : s \in stays}
      \union {s.movedOutOn : s \in {t \in stays : t.movedOutOn # None}}

(* What the register reads on a day as owedMembershipEvents comes to it:   *)
(* what `before` wrote there, or else what the walk left, which is what    *)
(* `after` holds the day before.                                           *)
Registered(before, after, day) ==
    IF Held(before, day) # Held(before, day - 1)
    THEN Held(before, day) ELSE Held(after, day - 1)

Owed(before, after) ==
    {day \in Ends(before) \union Ends(after) :
        Held(after, day) # Registered(before, after, day)}

RowsOf(p, days, stays) ==
    {[person |-> p, eventOn |-> day, at |-> writes,
      eventType |-> IF Held(stays, day) THEN "ENTRY" ELSE "EXIT"] : day \in days}

-----------------------------------------------------------------------------
(* Reading the register back: by day, and one day's rows as written. *)
Precedes(e, f) ==
    \/ e.eventOn < f.eventOn
    \/ e.eventOn = f.eventOn /\ e.at < f.at

LastOf(e, rows) == e \in rows /\ \A f \in rows : ~Precedes(e, f)

Events(p) == {e \in register : e.person = p}

(* The membership an entry opens runs to the next exit; an exit with none  *)
(* open shows as a membership that has no first day.                       *)
OpenOn(rows, day) ==
    \E e \in rows : /\ e.eventType = "ENTRY"
                    /\ LastOf(e, {f \in rows : f.eventOn <= day})

Orphan(rows, e) ==
    /\ e.eventType = "EXIT"
    /\ ~\E f \in rows : /\ f.eventType = "ENTRY"
                        /\ LastOf(f, {g \in rows : Precedes(g, e)})

(* membersOn: the day is covered by a membership, one with no first day    *)
(* included.                                                               *)
MemberOn(rows, day) ==
    OpenOn(rows, day) \/ \E e \in rows : Orphan(rows, e) /\ e.eventOn > day

-----------------------------------------------------------------------------
Overlaps(s, t) ==
    /\ t.movedOutOn # None => s.movedInOn < t.movedOutOn
    /\ s.movedOutOn # None => t.movedInOn < s.movedOutOn

Joint(s, t) == s.person = t.person /\ s.apartment = t.apartment

(* Persons and apartments a transaction takes the keys of. *)
PersonKeys(o) ==
    {o.person} \union
    (IF o.deed = None THEN {}
     ELSE {o.deed.fromPerson, o.deed.toPerson} \ {None})
ApartmentKeys(o) == {r.stay.apartment : r \in o.adds}

Locked(m) == move[m] # None /\ move[m].at = "locked"

(* Variant: nobody waits for a person. *)
ApartmentsAreFree(o) ==
    \A n \in Moves : Locked(n) => ApartmentKeys(o) \intersect ApartmentKeys(move[n]) = {}

KeysAreFree(o) ==
    \A n \in Moves : Locked(n) =>
        /\ PersonKeys(o) \intersect PersonKeys(move[n]) = {}
        /\ ApartmentKeys(o) \intersect ApartmentKeys(move[n]) = {}

(* recordTransfer: an apartment is granted once, nobody sells to           *)
(* themselves, and the seller held it that day or the day before.          *)
HeldByMember(table, p, apartment, day) ==
    \E s \in MemberStays(table, p) :
        s.apartment = apartment /\ IsResidencyHeldOn(s, day)

SellerHeld(deed, table) ==
    deed.fromPerson # None =>
        \/ HeldByMember(table, deed.fromPerson, deed.apartment, deed.transferredOn)
        \/ HeldByMember(table, deed.fromPerson, deed.apartment, deed.transferredOn - 1)

Granted(apartment) ==
    \E t \in transfer : t.deed.apartment = apartment /\ t.deed.kind = "GRANT"

MayRecord(deed, table) ==
    /\ deed.kind = "GRANT" => deed.fromPerson = None /\ ~Granted(deed.apartment)
    /\ deed.fromPerson # deed.toPerson
    /\ SellerHeld(deed, table)

Unused == Ids \ ({r.id : r \in residency} \union
                 UNION {{r.id : r \in move[n].adds} : n \in {k \in Moves : move[k] # None}})

Adding(p, rows, deed) ==
    [at |-> "locked", person |-> p, adds |-> rows, ends |-> None,
     movedOutOn |-> None, deed |-> deed, before |-> MemberStays(residency, p)]

-----------------------------------------------------------------------------
(* Variant: a residency that has its end is over. *)
LivesOpenly(s) ==
    \E r \in residency : Joint(r.stay, s) /\ r.stay.movedOutOn = None

(* enterResidency: one that is open or ends after the day. *)
AlreadyLives(s) ==
    \E r \in residency :
        /\ Joint(r.stay, s)
        /\ r.stay.movedOutOn # None => r.stay.movedOutOn > s.movedInOn

(* moveIn(): not where the person lives already; the deed is read with the *)
(* keys held.                                                              *)
MoveIn(m, a, id) ==
    LET s == a.stay
        deed == IF a.deed = None THEN None
                ELSE [apartment |-> s.apartment, kind |-> a.deed.kind,
                      fromPerson |-> a.deed.fromPerson, toPerson |-> s.person,
                      transferredOn |-> a.deed.transferredOn]
        o == Adding(s.person, {[id |-> id, stay |-> s]}, deed)
    IN  /\ move[m] = None
        /\ KeysAreFree(o)
        /\ ~AlreadyLives(s)
        /\ deed # None => MayRecord(deed, residency)
        /\ move' = [move EXCEPT ![m] = o]
        /\ UNCHANGED tables

(* write() of one chunk: the rows of a person that are not there yet and   *)
(* that share no day with what is, or with another of them.                *)
Import(m, p, rows) ==
    LET o == Adding(p, rows, None)
    IN  /\ move[m] = None
        /\ KeysAreFree(o)
        /\ \A r \in rows, q \in residency \union rows :
              r # q /\ Joint(r.stay, q.stay) =>
                  r.stay # q.stay /\ ~Overlaps(r.stay, q.stay)
        /\ move' = [move EXCEPT ![m] = o]
        /\ UNCHANGED tables

(* moveOut(), before its transaction: the residency is read open ...       *)
AskMoveOut(m, r, d) ==
    /\ move[m] = None
    /\ r.stay.movedOutOn = None
    /\ d.movedOutOn >= r.stay.movedInOn
    /\ d.deed # None => r.stay.role = "MEMBER"
    /\ move' = [move EXCEPT ![m] =
         [at |-> "asked", person |-> r.stay.person, adds |-> {},
          ends |-> r.id, movedOutOn |-> d.movedOutOn, before |-> {},
          deed |-> IF d.deed = None THEN None
                   ELSE [apartment |-> r.stay.apartment, kind |-> "TRANSFER",
                         fromPerson |-> r.stay.person, toPerson |-> d.deed.toPerson,
                         transferredOn |-> d.deed.transferredOn]]]
    /\ UNCHANGED tables

(* ... and then the keys are waited for, and what its person holds is read *)
LockMoveOut(m) ==
    /\ move[m] # None /\ move[m].at = "asked"
    /\ KeysAreFree(move[m])
    /\ move' = [move EXCEPT ![m].at = "locked",
                            ![m].before = MemberStays(residency, move[m].person)]
    /\ UNCHANGED tables

(* The residency table as a transaction leaves it. *)
Changed(o) ==
    {IF r.id = o.ends THEN [r EXCEPT !.stay.movedOutOn = o.movedOutOn] ELSE r :
        r \in residency} \union o.adds

(* The end of a residency is written while it has none, the register's     *)
(* rows and the deed with it, and all keys are let go.                     *)
Commit(m) ==
    LET o == move[m]
        after == MemberStays(Changed(o), o.person)
    IN  /\ Locked(m)
        /\ o.ends # None =>
             /\ \E r \in residency : r.id = o.ends /\ r.stay.movedOutOn = None
             /\ o.deed # None => MayRecord(o.deed, Changed(o))
        /\ residency' = Changed(o)
        /\ register' = register \union RowsOf(o.person, Owed(o.before, after), after)
        /\ transfer' = transfer \union
             (IF o.deed = None THEN {} ELSE {[deed |-> o.deed, at |-> writes]})
        /\ writes' = writes + 1
        /\ move' = [move EXCEPT ![m] = None]

(* Refused, timed out, or lost with its process. *)
RollBack(m) ==
    /\ move[m] # None
    /\ move' = [move EXCEPT ![m] = None]
    /\ UNCHANGED tables

Begun(stays, day) == \E s \in stays : s.movedInOn <= day

(* What reconcileMembership reads as it comes to a day: the rows of the    *)
(* day, on the first one all before it too, or else what the walk left.    *)
Reads(rows, stays, day) ==
    IF (\E e \in rows : e.eventOn = day) \/ ~Begun(stays, day - 1)
    THEN OpenOn(rows, day) ELSE Held(stays, day - 1)

(* Its walk passes every day a residency or a row names, from the first    *)
(* residency on.                                                           *)
Unreconciled(rows, stays) ==
    {day \in Ends(stays) \union {e.eventOn : e \in rows} :
        Begun(stays, day) /\ Held(stays, day) # Reads(rows, stays, day)}

PersonIsFree(p) == \A m \in Moves : Locked(m) => p \notin PersonKeys(move[m])

(* Variant: what the residencies alone would have had written. *)
ReconcileBlindly(p) ==
    LET stays == MemberStays(residency, p)
    IN  /\ PersonIsFree(p)
        /\ Unreconciled(Events(p), stays) # {}
        /\ register' = register \union RowsOf(p, Owed({}, stays), stays)
        /\ writes' = writes + 1
        /\ UNCHANGED <<residency, transfer, move>>

(* reconcile() of one person, in a transaction of its own. *)
Reconcile(p) ==
    LET stays == MemberStays(residency, p)
        owed == Unreconciled(Events(p), stays)
    IN  /\ PersonIsFree(p)
        /\ owed # {}
        /\ register' = register \union RowsOf(p, owed, stays)
        /\ writes' = writes + 1
        /\ UNCHANGED <<residency, transfer, move>>

Next ==
    \/ \E m \in Moves, a \in Arrivals, id \in Unused : MoveIn(m, a, id)
    \/ \E m \in Moves, p \in Persons, file \in Files :
          \E kept \in (SUBSET {s \in file : s.person = p}) \ {{}} :
             \E id \in [kept -> Unused] :
                /\ \A s, t \in kept : s # t => id[s] # id[t]
                /\ Import(m, p, {[id |-> id[s], stay |-> s] : s \in kept})
    \/ \E m \in Moves, r \in residency, d \in Departures : AskMoveOut(m, r, d)
    \/ \E m \in Moves : LockMoveOut(m) \/ Commit(m) \/ RollBack(m)
    \/ \E p \in Persons : Reconcile(p)

Spec == Init /\ [][Next]_vars

-----------------------------------------------------------------------------
SameDayStay(p) ==
    \E s \in MemberStays(residency, p) : s.movedInOn = s.movedOutOn

ReadsAsHeld(p) ==
    \A day \in Days : MemberOn(Events(p), day) <=> Held(MemberStays(residency, p), day)

(* owedMembershipEvents: in whatever order a person's residencies are      *)
(* entered, ended and imported, the register reads as a member exactly the *)
(* days a tenant-ownership is held, so long as none ended as it began.     *)
RegisterTellsMembership == \A p \in Persons : SameDayStay(p) \/ ReadsAsHeld(p)

(* member-register-reconciliation.ts:22, "a register they write agrees     *)
(* with the residencies", without the exception.                           *)
RegisterAgrees == \A p \in Persons : ReadsAsHeld(p)

(* apartmentOf in membership-transitions.ts, "Unreachable": an exit is     *)
(* written for a day a tenant-ownership of the person ends, and is always  *)
(* there to be named.                                                      *)
AnExitHasItsMoveOut ==
    \A e \in register : e.eventType = "EXIT" =>
        \E s \in MemberStays(residency, e.person) : s.movedOutOn = e.eventOn

(* enterResidency and conflictsWith: no day of an apartment is held twice  *)
(* by one person, however the moves and the chunks are interleaved.        *)
NoDayHeldTwice ==
    \A r, q \in residency :
        r # q /\ Joint(r.stay, q.stay) => ~Overlaps(r.stay, q.stay)

(* recordTransfer: when a transfer is written its seller holds the         *)
(* apartment, that day or the day before, and no apartment is granted a    *)
(* second time.                                                            *)
ADeedIsTrue ==
    [][\A t \in transfer' \ transfer :
         /\ SellerHeld(t.deed, residency')
         /\ t.deed.kind = "GRANT" => ~Granted(t.deed.apartment)]_vars

OpenAsHeld(p) ==
    LET stays == MemberStays(residency, p)
    IN  \A day \in Days : Begun(stays, day) =>
            (OpenOn(Events(p), day) <=> Held(stays, day))

(* reconcile(): from the first tenant-ownership on, a membership is open   *)
(* exactly the days one is held, and "running it again finds nothing".     *)
ReconciledOnce ==
    [][\A p \in Persons : Reconcile(p) =>
         (/\ OpenAsHeld(p)
          /\ Unreconciled(Events(p), MemberStays(residency, p)) = {})']_vars
=============================================================================
