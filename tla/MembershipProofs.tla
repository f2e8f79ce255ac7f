-------------------------- MODULE MembershipProofs --------------------------
(***************************************************************************)
(* The member register tells who holds a tenant-ownership, for any number  *)
(* of persons, apartments, days and moves under way.                       *)
(*                                                                         *)
(* The first half is about a register and the residencies of one person,   *)
(* as sets: what a change of the residencies owes keeps the two in step    *)
(* (ChangeIsTold), and a register in step reads as it should (InStep).     *)
(* The second half is about the transactions, whose locks make every       *)
(* commit such a change.                                                   *)
(***************************************************************************)
EXTENDS Membership, TLAPS, WellFoundedInduction

(* No stay ends before it begins, and none as it begins. *)
Forward(stays) ==
    \A s \in stays : s.movedOutOn # None => s.movedOutOn >= s.movedInOn
SameDay(stays) == \E s \in stays : s.movedInOn = s.movedOutOn

(* The row that was written last on a day says what is held on it. *)
DaysAreSettled(rows, stays) ==
    /\ \A e \in rows :
          e.eventType = "EXIT" /\ Held(stays, e.eventOn) =>
             \E f \in rows : /\ f.eventType = "ENTRY"
                             /\ f.eventOn = e.eventOn /\ f.at > e.at
    /\ \A e \in rows :
          e.eventType = "ENTRY" /\ ~Held(stays, e.eventOn) =>
             \E f \in rows : /\ f.eventType = "EXIT"
                             /\ f.eventOn = e.eventOn /\ f.at > e.at

ChangesAreWritten(rows, stays) ==
    \A day \in Nat : Held(stays, day) # Held(stays, day - 1) =>
        \E e \in rows : e.eventOn = day

(* Between two exits of one day an entry was written. *)
ExitsAreApart(rows) ==
    \A e, f \in rows :
        e.eventType = "EXIT" /\ f.eventType = "EXIT" /\ e.eventOn = f.eventOn /\ f.at < e.at =>
            \E g \in rows : /\ g.eventType = "ENTRY" /\ g.eventOn = e.eventOn
                            /\ f.at < g.at /\ g.at < e.at

InStep(rows, stays) ==
    /\ DaysAreSettled(rows, stays)
    /\ ChangesAreWritten(rows, stays)
    /\ ExitsAreApart(rows)

(* A row is dated by the first or the last day of a stay, an exit by the   *)
(* last.                                                                   *)
Dated(rows, stays) ==
    /\ \A e \in rows : e.eventOn \in Ends(stays)
    /\ \A e \in rows : e.eventType = "EXIT" =>
          \E s \in stays : s.movedOutOn = e.eventOn

(* What a move does to the residencies of a person: none is taken away,    *)
(* and only an open one is changed.                                        *)
Grown(before, after) ==
    /\ \A s \in before : \E t \in after : t.movedInOn = s.movedInOn
    /\ \A s \in before : s.movedOutOn # None => s \in after

-----------------------------------------------------------------------------
(* Facts about numbers and days. *)
LEMMA Smallest ==
  ASSUME NEW T, T \subseteq Nat, T # {}
  PROVE  \E x \in T : \A y \in T : x <= y
<1>1. PICK x \in T : \A y \in T : ~(<<y, x>> \in OpToRel(<, Nat))
  BY NatLessThanWellFounded, WFMin
<1>2. ASSUME NEW y \in T, y < x PROVE FALSE
  <2>1. <<y, x>> \in Nat \X Nat /\ <<y, x>>[1] = y /\ <<y, x>>[2] = x
    OBVIOUS
  <2>2. <<y, x>>[1] < <<y, x>>[2]
    BY <1>2, <2>1
  <2>3. <<y, x>> \in OpToRel(<, Nat)
    BY <2>1, <2>2, Zenon DEF OpToRel
  <2> QED
    BY <1>1, <2>3
<1> QED
  BY <1>2

LEMMA Largest ==
  ASSUME NEW T, T \subseteq Nat, T # {}, NEW b \in Nat, \A x \in T : x <= b
  PROVE  \E x \in T : \A y \in T : y <= x
<1> DEFINE U == {n \in Nat : \E x \in T : n = b - x}
<1>1. U # {}
  <2>1. PICK x \in T : TRUE
    OBVIOUS
  <2>2. b - x \in U
    BY <2>1
  <2> QED
    BY <2>2
<1>2. PICK n \in U : \A k \in U : n <= k
  <2> HIDE DEF U
  <2>1. U \subseteq Nat
    BY DEF U
  <2> QED
    BY <1>1, <2>1, Smallest
<1>3. PICK x \in T : n = b - x
  BY <1>2
<1>4. ASSUME NEW y \in T PROVE y <= x
  <2>1. b - y \in U
    BY <1>4
  <2>2. n <= b - y
    BY <1>2, <2>1
  <2> QED
    BY <1>3, <2>2
<1> QED
  BY <1>4

LEMMA HeldIsBoolean == \A stays, day : Held(stays, day) \in BOOLEAN
BY DEF Held

LEMMA StayTypes ==
  ASSUME NEW stays, stays \subseteq Stay
  PROVE  /\ \A s \in stays : s.movedInOn \in Nat
         /\ \A s \in stays : s.movedOutOn # None => s.movedOutOn \in Nat
         /\ Ends(stays) \subseteq Nat
BY DaysAssumption DEF Stay, Ends

(* Nothing is held before the first day there is. *)
LEMMA NothingBefore ==
  ASSUME NEW stays, stays \subseteq Stay, NEW day \in Int, day < 0
  PROVE  ~Held(stays, day)
BY StayTypes DEF Held, IsResidencyHeldOn

(* What is held changes at an end of a stay only. *)
LEMMA ChangesAtEnds ==
  ASSUME NEW stays, stays \subseteq Stay, NEW day \in Int,
         Held(stays, day) # Held(stays, day - 1)
  PROVE  day \in Ends(stays)
<1>1. ASSUME NEW s \in stays, IsResidencyHeldOn(s, day), ~IsResidencyHeldOn(s, day - 1)
      PROVE  s.movedInOn = day
  BY <1>1, StayTypes DEF IsResidencyHeldOn
<1>2. ASSUME NEW s \in stays, ~IsResidencyHeldOn(s, day), IsResidencyHeldOn(s, day - 1)
      PROVE  s.movedOutOn # None /\ s.movedOutOn = day
  BY <1>2, StayTypes DEF IsResidencyHeldOn
<1>3. \E s \in stays : \/ IsResidencyHeldOn(s, day) /\ ~IsResidencyHeldOn(s, day - 1)
                       \/ ~IsResidencyHeldOn(s, day) /\ IsResidencyHeldOn(s, day - 1)
  BY DEF Held
<1> QED
  BY <1>1, <1>2, <1>3 DEF Ends

(* On an end of a stay, that day or the day before is held. *)
LEMMA HeldAroundEnds ==
  ASSUME NEW stays, stays \subseteq Stay, Forward(stays), ~SameDay(stays),
         NEW day \in Ends(stays)
  PROVE  Held(stays, day) \/ Held(stays, day - 1)
<1>1. CASE \E s \in stays : s.movedInOn = day
  BY <1>1, StayTypes DEF Held, IsResidencyHeldOn, Forward, SameDay
<1>2. CASE \E s \in stays : s.movedOutOn # None /\ s.movedOutOn = day
  BY <1>2, StayTypes DEF Held, IsResidencyHeldOn, Forward, SameDay
<1> QED
  BY <1>1, <1>2 DEF Ends

LEMMA HeldBeforeMoveOut ==
  ASSUME NEW stays, stays \subseteq Stay, Forward(stays), ~SameDay(stays),
         NEW s \in stays, s.movedOutOn # None
  PROVE  Held(stays, s.movedOutOn - 1)
BY StayTypes DEF Held, IsResidencyHeldOn, Forward, SameDay

(* While what is held does not change it stays as it was. *)
LEMMA Unchanged ==
  ASSUME NEW stays, NEW a \in Int, NEW d \in Int, a <= d,
         Held(stays, a) # Held(stays, d)
  PROVE  \E x \in Int : a < x /\ x <= d /\ Held(stays, x) # Held(stays, x - 1)
<1> DEFINE T == {n \in Nat : a + n <= d /\ Held(stays, a + n) # Held(stays, a)}
<1>1. d - a \in T
  OBVIOUS
<1>2. PICK n \in T : \A k \in T : n <= k
  <2>1. T \subseteq Nat /\ T # {}
    BY <1>1
  <2> HIDE DEF T
  <2> QED
    BY <2>1, Smallest
<1>3. n # 0 /\ n \in Nat /\ n - 1 \in Nat
  BY <1>2
<1>4. n - 1 \notin T
  BY <1>2, <1>3
<1>5. Held(stays, a + (n - 1)) = Held(stays, a)
  BY <1>2, <1>3, <1>4, HeldIsBoolean
<1>6. a + (n - 1) = (a + n) - 1
  BY <1>3
<1> QED
  BY <1>2, <1>3, <1>5, <1>6

-----------------------------------------------------------------------------
(* A change of one person's residencies and the rows it owes. *)
LEMMA RowsSay ==
  ASSUME NEW p, NEW days, NEW stays
  PROVE  /\ \A e \in RowsOf(p, days, stays) :
               /\ e.person = p /\ e.eventOn \in days /\ e.at = writes
               /\ e.eventType = "ENTRY" <=> Held(stays, e.eventOn)
               /\ e.eventType = "EXIT" <=> ~Held(stays, e.eventOn)
         /\ \A day \in days : \E e \in RowsOf(p, days, stays) : e.eventOn = day
<1> DEFINE row(day) == [person |-> p, eventOn |-> day, at |-> writes,
                        eventType |-> IF Held(stays, day) THEN "ENTRY" ELSE "EXIT"]
<1>1. RowsOf(p, days, stays) = {row(day) : day \in days}
  BY DEF RowsOf
<1>2. \A day \in days : row(day).eventOn = day
  OBVIOUS
<1>3. \A day \in days :
         /\ row(day).person = p /\ row(day).at = writes
         /\ row(day).eventType = IF Held(stays, day) THEN "ENTRY" ELSE "EXIT"
  OBVIOUS
<1>4. \A e \in RowsOf(p, days, stays) : \E day \in days : e = row(day)
  BY <1>1
<1>5. \A day \in days : row(day) \in RowsOf(p, days, stays)
  BY <1>1
<1> HIDE DEF row
<1> QED
  BY <1>2, <1>3, <1>4, <1>5

LEMMA RowsAreRows ==
  ASSUME NEW p \in Persons, NEW days \in SUBSET Days, NEW stays, writes \in Nat
  PROVE  RowsOf(p, days, stays) \subseteq Row
BY DEF RowsOf, Row

LEMMA EndsGrow ==
  ASSUME NEW before, before \subseteq Stay, NEW after, Grown(before, after)
  PROVE  Ends(before) \subseteq Ends(after)
<1>1. ASSUME NEW s \in before PROVE s.movedInOn \in Ends(after)
  BY <1>1 DEF Grown, Ends
<1>2. ASSUME NEW s \in before, s.movedOutOn # None PROVE s.movedOutOn \in Ends(after)
  BY <1>2 DEF Grown, Ends
<1> QED
  BY <1>1, <1>2 DEF Ends

LEMMA StaysApartGrow ==
  ASSUME NEW before, before \subseteq Stay, NEW after, Grown(before, after),
         Forward(after), ~SameDay(after)
  PROVE  Forward(before) /\ ~SameDay(before)
<1>1. \A s \in before : s.movedInOn # None
  BY NoneAssumption DEF Stay
<1> QED
  BY <1>1 DEF Grown, Forward, SameDay

(* On a day that has rows and is owed none, nothing changes. *)
LEMMA NotOwedIsKept ==
  ASSUME NEW before, before \subseteq Stay, NEW after, after \subseteq Stay,
         Grown(before, after), Forward(after), ~SameDay(after),
         NEW day \in Ends(before), day \notin Owed(before, after)
  PROVE  Held(after, day) = Held(before, day)
<1>1. Held(after, day) = Registered(before, after, day)
  BY DEF Owed
<1>2. CASE Held(before, day) # Held(before, day - 1)
  BY <1>1, <1>2 DEF Registered
<1>3. CASE Held(before, day) = Held(before, day - 1)
  <2>1. Held(after, day) = Held(after, day - 1)
    BY <1>1, <1>3 DEF Registered
  <2>2. Held(after, day) \/ Held(after, day - 1)
    BY EndsGrow, HeldAroundEnds
  <2>3. Held(before, day) \/ Held(before, day - 1)
    BY StaysApartGrow, HeldAroundEnds
  <2> QED
    BY <1>3, <2>1, <2>2, <2>3, HeldIsBoolean
<1> QED
  BY <1>2, <1>3

LEMMA ChangeIsTold ==
  ASSUME NEW rows, rows \subseteq Row, NEW p, writes \in Nat,
         \A e \in rows : e.at < writes,
         NEW before, before \subseteq Stay, NEW after, after \subseteq Stay,
         Grown(before, after), Forward(after), ~SameDay(after),
         InStep(rows, before), Dated(rows, before)
  PROVE  InStep(rows \union RowsOf(p, Owed(before, after), after), after)
<1> DEFINE new == RowsOf(p, Owed(before, after), after)
           all == rows \union new
<1>1. /\ \A e \in new : /\ e.eventOn \in Owed(before, after) /\ e.at = writes
                        /\ e.eventType = "ENTRY" <=> Held(after, e.eventOn)
                        /\ e.eventType = "EXIT" <=> ~Held(after, e.eventOn)
      /\ \A day \in Owed(before, after) : \E e \in new : e.eventOn = day
  BY RowsSay
<1> HIDE DEF new
<1>2. \A e \in rows : /\ e.eventOn \in Ends(before) /\ e.eventOn \in Nat
                      /\ e.at \in Nat /\ e.at < writes
                      /\ e.eventType \in {"ENTRY", "EXIT"}
  BY DaysAssumption DEF Dated, Row
<1>3. \A e \in rows : e.eventOn \notin Owed(before, after) =>
          Held(after, e.eventOn) = Held(before, e.eventOn)
  BY <1>2, NotOwedIsKept
<1>4. DaysAreSettled(all, after)
  <2>1. ASSUME NEW e \in rows, e.eventOn \in Owed(before, after)
        PROVE  \E f \in new : /\ f.eventOn = e.eventOn /\ f.at > e.at
                              /\ f.eventType = "ENTRY" <=> Held(after, e.eventOn)
                              /\ f.eventType = "EXIT" <=> ~Held(after, e.eventOn)
    BY <1>1, <1>2, <2>1
  <2>2. ASSUME NEW e \in all, e.eventType = "EXIT", Held(after, e.eventOn)
        PROVE  \E f \in all : /\ f.eventType = "ENTRY"
                              /\ f.eventOn = e.eventOn /\ f.at > e.at
    BY <1>1, <1>3, <2>1, <2>2 DEF InStep, DaysAreSettled
  <2>3. ASSUME NEW e \in all, e.eventType = "ENTRY", ~Held(after, e.eventOn)
        PROVE  \E f \in all : /\ f.eventType = "EXIT"
                              /\ f.eventOn = e.eventOn /\ f.at > e.at
    BY <1>1, <1>3, <2>1, <2>3 DEF InStep, DaysAreSettled
  <2> QED
    BY <2>2, <2>3 DEF DaysAreSettled
<1>5. ChangesAreWritten(all, after)
  <2> SUFFICES ASSUME NEW day \in Nat, Held(after, day) # Held(after, day - 1)
               PROVE  \E e \in all : e.eventOn = day
    BY DEF ChangesAreWritten
  <2>1. CASE day \in Owed(before, after)
    BY <1>1, <2>1
  <2>2. CASE day \notin Owed(before, after)
    <3>1. day \in Ends(after)
      BY ChangesAtEnds
    <3>2. Held(after, day) = Registered(before, after, day)
      BY <2>2, <3>1 DEF Owed
    <3>3. Held(before, day) # Held(before, day - 1)
      BY <3>2 DEF Registered
    <3> QED
      BY <3>3 DEF InStep, ChangesAreWritten
  <2> QED
    BY <2>1, <2>2
<1>6. ExitsAreApart(all)
  <2> SUFFICES ASSUME NEW e \in all, NEW f \in all,
                      e.eventType = "EXIT", f.eventType = "EXIT",
                      e.eventOn = f.eventOn, f.at < e.at
               PROVE  \E g \in all : /\ g.eventType = "ENTRY" /\ g.eventOn = e.eventOn
                                     /\ f.at < g.at /\ g.at < e.at
    BY DEF ExitsAreApart
  <2>1. f \in rows
    BY <1>1, <1>2
  <2>2. CASE e \in rows
    BY <2>1, <2>2 DEF InStep, ExitsAreApart
  <2>3. CASE e \in new
    <3> DEFINE day == e.eventOn
    <3>1. ~Held(after, day) /\ Held(after, day) # Registered(before, after, day)
      BY <1>1, <2>3 DEF Owed
    <3>2. PICK s \in before : s.movedOutOn = day /\ s.movedOutOn # None
      <4>1. PICK s \in before : s.movedOutOn = day
        BY <2>1 DEF Dated
      <4>2. day # None
        BY <1>2, <2>1, NoneAssumption DEF Row
      <4> QED
        BY <4>1, <4>2
    <3>3. Held(before, day - 1) /\ Held(after, day - 1)
      <4>1. s \in after
        BY <3>2 DEF Grown
      <4>2. Forward(before) /\ ~SameDay(before)
        BY StaysApartGrow
      <4> QED
        BY <3>2, <4>1, <4>2, HeldBeforeMoveOut
    <3>4. Held(before, day)
      <4>1. Registered(before, after, day) = TRUE
        BY <3>1, HeldIsBoolean DEF Registered
      <4>2. CASE Held(before, day) # Held(before, day - 1)
        BY <4>1, <4>2 DEF Registered
      <4>3. CASE Held(before, day) = Held(before, day - 1)
        BY <3>3, <4>3
      <4> QED
        BY <4>2, <4>3
    <3>5. PICK g \in rows : /\ g.eventType = "ENTRY"
                            /\ g.eventOn = f.eventOn /\ g.at > f.at
      BY <2>1, <3>4 DEF InStep, DaysAreSettled
    <3>6. g.at < e.at
      BY <1>1, <1>2, <2>3, <3>5
    <3> QED
      BY <1>2, <2>1, <3>5, <3>6
  <2> QED
    BY <2>2, <2>3
<1> QED
  BY <1>4, <1>5, <1>6 DEF InStep, new

(* What a change or the reconciliation writes is dated by a stay. *)
LEMMA NewRowsAreDated ==
  ASSUME NEW stays, stays \subseteq Stay, Forward(stays),
         NEW days, days \subseteq Ends(stays), NEW p
  PROVE  Dated(RowsOf(p, days, stays), stays)
<1>1. ASSUME NEW day \in days, ~Held(stays, day)
      PROVE  \E s \in stays : s.movedOutOn = day
  <2>1. CASE \E s \in stays : s.movedInOn = day
    BY <1>1, <2>1, StayTypes DEF Held, IsResidencyHeldOn, Forward
  <2>2. CASE \E s \in stays : s.movedOutOn # None /\ s.movedOutOn = day
    BY <2>2
  <2> QED
    BY <1>1, <2>1, <2>2 DEF Ends
<1> QED
  BY <1>1, RowsSay DEF Dated

LEMMA DatesAreKept ==
  ASSUME NEW rows, rows \subseteq Row, NEW before, before \subseteq Stay, NEW after,
         Grown(before, after), Dated(rows, before)
  PROVE  Dated(rows, after)
<1>1. \A e \in rows : e.eventOn # None
  BY NoneAssumption DEF Row
<1> QED
  BY <1>1, EndsGrow DEF Dated, Grown

-----------------------------------------------------------------------------
(* Reading a register that is in step. *)
LEMMA LastExists ==
  ASSUME NEW rows, rows \subseteq Row, rows # {}, NEW b \in Nat, NEW c \in Nat,
         \A e \in rows : e.eventOn <= b /\ e.at <= c
  PROVE  \E e \in rows : LastOf(e, rows)
<1>1. \A e \in rows : e.eventOn \in Nat /\ e.at \in Nat
  BY DaysAssumption DEF Row
<1>2. PICK d : d \in {e.eventOn : e \in rows} /\ \A x \in {e.eventOn : e \in rows} : x <= d
  <2>1. {e.eventOn : e \in rows} \subseteq Nat /\ {e.eventOn : e \in rows} # {}
    BY <1>1
  <2>2. \A x \in {e.eventOn : e \in rows} : x <= b
    OBVIOUS
  <2> QED
    BY <2>1, <2>2, Largest
<1> DEFINE last == {e \in rows : e.eventOn = d}
<1>3. PICK t : t \in {e.at : e \in last} /\ \A x \in {e.at : e \in last} : x <= t
  <2>1. {e.at : e \in last} \subseteq Nat /\ {e.at : e \in last} # {}
    BY <1>1, <1>2
  <2>2. \A x \in {e.at : e \in last} : x <= c
    OBVIOUS
  <2> QED
    BY <2>1, <2>2, Largest
<1>4. PICK e \in last : e.at = t
  BY <1>3
<1>5. ASSUME NEW f \in rows PROVE ~Precedes(e, f)
  <2>1. f.eventOn <= d
    BY <1>2
  <2>2. f.eventOn = d => f.at <= t
    BY <1>3
  <2> QED
    BY <1>1, <1>4, <2>1, <2>2 DEF Precedes
<1> QED
  BY <1>4, <1>5 DEF LastOf

LEMMA LastTells ==
  ASSUME NEW rows, rows \subseteq Row, NEW stays, stays \subseteq Stay,
         InStep(rows, stays), NEW day \in Int, NEW e,
         LastOf(e, {f \in rows : f.eventOn <= day})
  PROVE  e.eventType = "ENTRY" <=> Held(stays, day)
<1>1. /\ e \in rows /\ e.eventOn <= day /\ e.eventOn \in Nat
      /\ e.eventType \in {"ENTRY", "EXIT"} /\ e.at \in Nat
  BY DaysAssumption DEF LastOf, Row
<1>2. \A f \in rows : f.eventOn \in Nat /\ f.at \in Nat
  BY DaysAssumption DEF Row
<1>3. \A f \in rows : f.eventOn <= day => ~Precedes(e, f)
  BY DEF LastOf
<1>4. Held(stays, e.eventOn) = Held(stays, day)
  <2> SUFFICES ASSUME Held(stays, e.eventOn) # Held(stays, day) PROVE FALSE
    OBVIOUS
  <2>1. PICK x \in Int : /\ e.eventOn < x /\ x <= day
                         /\ Held(stays, x) # Held(stays, x - 1)
    BY <1>1, Unchanged
  <2>2. x \in Nat
    BY <1>1, <2>1
  <2>3. PICK f \in rows : f.eventOn = x
    BY <2>1, <2>2 DEF InStep, ChangesAreWritten
  <2> QED
    BY <1>3, <2>1, <2>3 DEF Precedes
<1>5. ~\E f \in rows : f.eventOn = e.eventOn /\ f.at > e.at
  BY <1>1, <1>2, <1>3 DEF Precedes
<1>6. e.eventType = "ENTRY" <=> Held(stays, e.eventOn)
  BY <1>1, <1>5 DEF InStep, DaysAreSettled
<1> QED
  BY <1>4, <1>6, HeldIsBoolean

LEMMA OpenIsHeld ==
  ASSUME NEW rows, rows \subseteq Row, NEW stays, stays \subseteq Stay,
         InStep(rows, stays), NEW c \in Nat, \A e \in rows : e.at <= c,
         NEW day \in Nat
  PROVE  OpenOn(rows, day) <=> Held(stays, day)
<1> DEFINE upTo == {f \in rows : f.eventOn <= day}
<1>1. OpenOn(rows, day) => Held(stays, day)
  BY LastTells DEF OpenOn
<1>2. ASSUME Held(stays, day) PROVE OpenOn(rows, day)
  <2>1. upTo # {}
    <3>1. ~Held(stays, -1)
      BY NothingBefore
    <3>2. PICK x \in Int : /\ -1 < x /\ x <= day
                           /\ Held(stays, x) # Held(stays, x - 1)
      BY <1>2, <3>1, Unchanged
    <3>3. x \in Nat
      BY <3>2
    <3> QED
      BY <3>2, <3>3 DEF InStep, ChangesAreWritten
  <2>2. PICK e \in upTo : LastOf(e, upTo)
    BY <2>1, LastExists
  <2>3. e.eventType = "ENTRY"
    BY <1>2, <2>2, LastTells
  <2> QED
    BY <2>2, <2>3 DEF OpenOn
<1> QED
  BY <1>1, <1>2

LEMMA NoOrphans ==
  ASSUME NEW rows, rows \subseteq Row, NEW stays, stays \subseteq Stay,
         Forward(stays), ~SameDay(stays),
         InStep(rows, stays), Dated(rows, stays),
         NEW c \in Nat, \A e \in rows : e.at <= c,
         NEW e \in rows
  PROVE  ~Orphan(rows, e)
<1> SUFFICES ASSUME e.eventType = "EXIT"
             PROVE  \E f \in rows : /\ f.eventType = "ENTRY"
                                    /\ LastOf(f, {g \in rows : Precedes(g, e)})
  BY DEF Orphan
<1> DEFINE d == e.eventOn
           earlier == {g \in rows : Precedes(g, e)}
           upTo == {g \in rows : g.eventOn <= d - 1}
<1>1. \A f \in rows : /\ f.eventOn \in Nat /\ f.at \in Nat
                      /\ f.eventType \in {"ENTRY", "EXIT"}
  BY DaysAssumption DEF Row
<1>2. Held(stays, d - 1)
  <2>1. PICK s \in stays : s.movedOutOn = d
    BY DEF Dated
  <2>2. d # None
    BY NoneAssumption DEF Row
  <2> QED
    BY <2>1, <2>2, HeldBeforeMoveOut
<1>3. d - 1 \in Nat
  BY <1>1, <1>2, NothingBefore
<1>4. PICK h \in rows : h.eventOn <= d - 1
  <2>1. OpenOn(rows, d - 1)
    BY <1>2, <1>3, OpenIsHeld
  <2> QED
    BY <2>1 DEF OpenOn, LastOf
<1>5. h \in earlier
  BY <1>1, <1>4 DEF Precedes
<1>6. \A g \in earlier : g.eventOn <= d /\ g.at <= c
  BY <1>1 DEF Precedes
<1>7. PICK f \in earlier : LastOf(f, earlier)
  BY <1>1, <1>5, <1>6, LastExists
<1>8. CASE f.eventOn = d
  <2>1. f.at < e.at
    BY <1>1, <1>7, <1>8 DEF Precedes
  <2>2. ASSUME f.eventType = "EXIT" PROVE FALSE
    <3>1. PICK g \in rows : /\ g.eventType = "ENTRY" /\ g.eventOn = d
                            /\ f.at < g.at /\ g.at < e.at
      BY <1>8, <2>1, <2>2 DEF InStep, ExitsAreApart
    <3>2. g \in earlier /\ Precedes(f, g)
      BY <1>8, <3>1 DEF Precedes
    <3> QED
      BY <1>7, <3>2 DEF LastOf
  <2> QED
    BY <1>1, <1>7, <2>2
<1>9. CASE f.eventOn # d
  <2>1. f \in upTo
    BY <1>1, <1>6, <1>9
  <2>2. upTo \subseteq earlier
    BY <1>1 DEF Precedes
  <2>3. LastOf(f, upTo)
    BY <1>7, <2>1, <2>2 DEF LastOf
  <2>4. f.eventType = "ENTRY"
    BY <1>2, <1>3, <2>3, LastTells
  <2> QED
    BY <1>7, <2>4
<1> QED
  BY <1>8, <1>9

(* A register in step reads as a member the days one is. *)
LEMMA InStepReadsAsHeld ==
  ASSUME NEW rows, rows \subseteq Row, NEW stays, stays \subseteq Stay,
         Forward(stays), ~SameDay(stays),
         InStep(rows, stays), Dated(rows, stays),
         NEW c \in Nat, \A e \in rows : e.at <= c,
         NEW day \in Nat
  PROVE  MemberOn(rows, day) <=> Held(stays, day)
<1>1. OpenOn(rows, day) <=> Held(stays, day)
  BY OpenIsHeld
<1>2. \A e \in rows : ~Orphan(rows, e)
  BY NoOrphans
<1> QED
  BY <1>1, <1>2 DEF MemberOn

-----------------------------------------------------------------------------
(* The transactions.  What one that is under way has read stays true until *)
(* it ends: its new rows are of one person and new, the row it ends is     *)
(* there, and what it read under its locks is as it read it.               *)
AddsAreNew(o) ==
    /\ \A r \in o.adds :
          /\ r.stay.person = o.person
          /\ r.stay.movedOutOn # None => r.stay.movedOutOn >= r.stay.movedInOn
    /\ \A r \in o.adds, q \in residency : q.id # r.id
    /\ \A r, q \in o.adds : q.id = r.id => q = r

AddsAreFree(o) ==
    \A r \in o.adds, q \in residency \union o.adds :
        r # q /\ Joint(r.stay, q.stay) => ~Overlaps(r.stay, q.stay)

EndsWhatIsThere(o) ==
    o.ends # None =>
        /\ o.adds = {}
        /\ o.movedOutOn \in Days
        /\ \E r \in residency : /\ r.id = o.ends /\ r.stay.person = o.person
                                /\ r.stay.movedInOn <= o.movedOutOn

ReadIsTrue(o) ==
    /\ o.at = "asked" => o.adds = {}
    /\ o.at = "locked" => o.before = MemberStays(residency, o.person)

DeedStands(o) ==
    o.deed # None =>
        IF o.ends # None THEN o.deed.kind = "TRANSFER"
        ELSE /\ o.at = "locked"
             /\ SellerHeld(o.deed, residency)
             /\ o.deed.kind = "GRANT" => ~Granted(o.deed.apartment)
             /\ o.deed.apartment \in ApartmentKeys(o)

Proper(o) ==
    /\ AddsAreNew(o) /\ AddsAreFree(o) /\ EndsWhatIsThere(o)
    /\ ReadIsTrue(o) /\ DeedStands(o)

IdsAreApart == \A r, q \in residency : r.id = q.id => r = q

UnderWay == {move[m] : m \in Moves} \ {None}

MovesAreProper == \A o \in UnderWay : Proper(o)

(* Two transactions write no row under one id, and two that hold their     *)
(* locks hold different ones.                                              *)
Apart(o, q) ==
    /\ \A r \in o.adds, s \in q.adds : r.id # s.id
    /\ o.at = "locked" /\ q.at = "locked" =>
          /\ PersonKeys(o) \intersect PersonKeys(q) = {}
          /\ ApartmentKeys(o) \intersect ApartmentKeys(q) = {}

MovesAreApart ==
    \A m, n \in Moves : m # n =>
        \A o \in {move[m]} \ {None}, q \in {move[n]} \ {None} : Apart(o, q)

AllForward == \A r \in residency :
    r.stay.movedOutOn # None => r.stay.movedOutOn >= r.stay.movedInOn

StampsArePast == \A e \in register : e.at < writes

Told(p) ==
    LET stays == MemberStays(residency, p)
    IN  Dated(Events(p), stays) /\ (SameDay(stays) \/ InStep(Events(p), stays))

TablesOK == IdsAreApart /\ AllForward /\ NoDayHeldTwice /\ StampsArePast

IInv ==
    /\ TypeOK /\ TablesOK /\ MovesAreProper /\ MovesAreApart
    /\ \A p \in Persons : Told(p)

LEMMA NoneIsNothing ==
  /\ None \notin Days /\ None \notin Persons /\ None \notin Ids
  /\ None \notin Deed /\ None \notin Move
BY NoneAssumption

LEMMA MemberStaysAre ==
  ASSUME NEW table, table \subseteq Residency, NEW p
  PROVE  /\ MemberStays(table, p) \subseteq Stay
         /\ \A s : s \in MemberStays(table, p) <=>
              /\ s.person = p /\ s.role = "MEMBER"
              /\ \E r \in table : r.stay = s
BY DEF MemberStays, Residency

LEMMA ForwardStays ==
  ASSUME TypeOK, AllForward, NEW p
  PROVE  Forward(MemberStays(residency, p))
BY MemberStaysAre DEF TypeOK, AllForward, Forward

LEMMA SameStays ==
  ASSUME NEW table, NEW other, NEW p, table \subseteq Residency, other \subseteq Residency,
         \A r \in table : r.stay.person = p => r \in other,
         \A r \in other : r.stay.person = p => r \in table
  PROVE  MemberStays(table, p) = MemberStays(other, p)
<1>1. \A s : s \in MemberStays(table, p) => s \in MemberStays(other, p)
  BY MemberStaysAre
<1>2. \A s : s \in MemberStays(other, p) => s \in MemberStays(table, p)
  BY MemberStaysAre
<1> QED
  BY <1>1, <1>2

-----------------------------------------------------------------------------
(* What a commit makes of the residencies. *)
LEMMA ChangedIs ==
  ASSUME TypeOK, NEW o \in Move
  PROVE  /\ \A r \in Changed(o) :
              \/ r \in o.adds
              \/ r \in residency /\ r.id # o.ends
              \/ \E q \in residency :
                   q.id = o.ends /\ r = [q EXCEPT !.stay.movedOutOn = o.movedOutOn]
         /\ o.adds \subseteq Changed(o)
         /\ \A q \in residency : q.id # o.ends => q \in Changed(o)
         /\ \A q \in residency : q.id = o.ends =>
              [q EXCEPT !.stay.movedOutOn = o.movedOutOn] \in Changed(o)
BY DEF Changed

LEMMA EndedIs ==
  ASSUME NEW q \in Residency, NEW day \in Days
  PROVE  LET r == [q EXCEPT !.stay.movedOutOn = day]
         IN  /\ r \in Residency /\ r.id = q.id
             /\ r.stay.person = q.stay.person /\ r.stay.role = q.stay.role
             /\ r.stay.apartment = q.stay.apartment
             /\ r.stay.movedInOn = q.stay.movedInOn /\ r.stay.movedOutOn = day
BY DEF Residency, Stay

(* A commit either adds rows or ends one that was open. *)
LEMMA CommitAddsOrEnds ==
  ASSUME IInv, NEW m \in Moves, Commit(m)
  PROVE  LET o == move[m] IN
         \/ residency' = residency \union o.adds
         \/ \E q \in residency, day \in Days :
              /\ o.adds = {} /\ o.ends # None
              /\ q.stay.person = o.person /\ q.stay.movedOutOn = None
              /\ q.stay.movedInOn <= day
              /\ residency' = (residency \ {q})
                                \union {[q EXCEPT !.stay.movedOutOn = day]}
<1> DEFINE o == move[m]
<1>1. o \in Move /\ Proper(o) /\ o # None /\ residency' = Changed(o)
  BY DEF IInv, TypeOK, Commit, Locked, UnderWay, MovesAreProper
<1> HIDE DEF o
<1>2. CASE o.ends = None
  <2>1. \A q \in residency : q.id # o.ends
    BY <1>2, NoneIsNothing DEF IInv, TypeOK, Residency
  <2> QED
    BY <1>1, <2>1, ChangedIs DEF IInv, o
<1>3. CASE o.ends # None
  <2>1. o.adds = {} /\ o.movedOutOn \in Days
    BY <1>1, <1>3 DEF Proper, EndsWhatIsThere
  <2>2. PICK q \in residency : q.id = o.ends /\ q.stay.movedOutOn = None
    BY <1>3 DEF Commit, o
  <2>3. \A r \in residency : r.id = o.ends <=> r = q
    BY <2>2 DEF IInv, TablesOK, IdsAreApart
  <2>4. q.stay.person = o.person /\ q.stay.movedInOn <= o.movedOutOn
    BY <1>1, <1>3, <2>3 DEF Proper, EndsWhatIsThere
  <2>5. residency' = (residency \ {q})
                       \union {[q EXCEPT !.stay.movedOutOn = o.movedOutOn]}
    BY <1>1, <2>1, <2>3, ChangedIs DEF IInv
  <2> QED
    BY <1>3, <2>1, <2>2, <2>4, <2>5 DEF o
<1> QED
  BY <1>2, <1>3

LEMMA CommitKeepsTables ==
  ASSUME IInv, NEW m \in Moves, Commit(m)
  PROVE  /\ residency' \subseteq Residency
         /\ IdsAreApart' /\ AllForward' /\ NoDayHeldTwice'
         /\ \A p : p # move[m].person =>
               MemberStays(residency', p) = MemberStays(residency, p)
         /\ Grown(MemberStays(residency, move[m].person),
                  MemberStays(residency', move[m].person))
<1> DEFINE o == move[m]
<1>1. o \in Move /\ Proper(o) /\ o # None /\ residency \subseteq Residency
  BY DEF IInv, TypeOK, Commit, Locked, UnderWay, MovesAreProper
<1>2. IdsAreApart /\ AllForward /\ NoDayHeldTwice
  BY DEF IInv, TablesOK
<1>3. CASE residency' = residency \union o.adds
  <2>1. residency' \subseteq Residency
    BY <1>1, <1>3 DEF Move
  <2>2. IdsAreApart'
    BY <1>1, <1>2, <1>3 DEF IdsAreApart, Proper, AddsAreNew
  <2>3. AllForward'
    BY <1>1, <1>2, <1>3 DEF AllForward, Proper, AddsAreNew
  <2>4. NoDayHeldTwice'
    <3>1. ASSUME NEW r \in residency, NEW q \in o.adds, r # q, Joint(r.stay, q.stay)
          PROVE  ~Overlaps(r.stay, q.stay)
      BY <1>1, <3>1 DEF Proper, AddsAreFree, Joint, Overlaps
    <3> QED
      BY <1>1, <1>2, <1>3, <3>1 DEF NoDayHeldTwice, Proper, AddsAreFree
  <2>5. ASSUME NEW p, p # o.person
        PROVE  MemberStays(residency', p) = MemberStays(residency, p)
    <3>1. \A r \in residency' : r.stay.person = p => r \in residency
      BY <1>1, <1>3, <2>5 DEF Proper, AddsAreNew
    <3> QED
      BY <1>1, <1>3, <2>1, <3>1, SameStays
  <2>6. Grown(MemberStays(residency, o.person), MemberStays(residency', o.person))
    BY <1>1, <1>3, <2>1, MemberStaysAre DEF Grown
  <2> QED
    BY <2>1, <2>2, <2>3, <2>4, <2>5, <2>6
<1>4. ASSUME NEW q \in residency, NEW day \in Days,
             q.stay.person = o.person, q.stay.movedOutOn = None,
             q.stay.movedInOn <= day,
             residency' = (residency \ {q}) \union {[q EXCEPT !.stay.movedOutOn = day]}
      PROVE  /\ residency' \subseteq Residency
             /\ IdsAreApart' /\ AllForward' /\ NoDayHeldTwice'
             /\ \A p : p # o.person =>
                   MemberStays(residency', p) = MemberStays(residency, p)
             /\ Grown(MemberStays(residency, o.person), MemberStays(residency', o.person))
  <2> DEFINE e == [q EXCEPT !.stay.movedOutOn = day]
  <2>1. /\ e \in Residency /\ e.id = q.id
        /\ e.stay.person = q.stay.person /\ e.stay.role = q.stay.role
        /\ e.stay.apartment = q.stay.apartment
        /\ e.stay.movedInOn = q.stay.movedInOn /\ e.stay.movedOutOn = day
    BY <1>1, EndedIs
  <2>2. residency' = (residency \ {q}) \union {e}
    BY <1>4
  <2> HIDE DEF e
  <2>3. residency' \subseteq Residency
    BY <1>1, <2>1, <2>2
  <2>4. IdsAreApart'
    BY <1>2, <2>1, <2>2 DEF IdsAreApart
  <2>5. AllForward'
    <3>1. day >= e.stay.movedInOn
      BY <1>1, <1>4, <2>1, DaysAssumption DEF Residency, Stay
    <3> QED
      BY <1>2, <2>1, <2>2, <3>1 DEF AllForward
  <2>6. NoDayHeldTwice'
    <3>1. ASSUME NEW r \in residency, r # q, Joint(r.stay, e.stay)
          PROVE  ~Overlaps(r.stay, e.stay) /\ ~Overlaps(e.stay, r.stay)
      <4>1. ~Overlaps(r.stay, q.stay) /\ ~Overlaps(q.stay, r.stay)
        BY <1>2, <2>1, <3>1 DEF NoDayHeldTwice, Joint
      <4> QED
        BY <1>4, <2>1, <4>1 DEF Overlaps
    <3>2. ASSUME NEW r \in residency, r # q, Joint(e.stay, r.stay)
          PROVE  Joint(r.stay, e.stay)
      BY <3>2 DEF Joint
    <3> QED
      BY <1>2, <2>2, <3>1, <3>2 DEF NoDayHeldTwice
  <2>7. ASSUME NEW p, p # o.person
        PROVE  MemberStays(residency', p) = MemberStays(residency, p)
    <3>1. /\ \A r \in residency : r.stay.person = p => r \in residency'
          /\ \A r \in residency' : r.stay.person = p => r \in residency
      BY <1>4, <2>1, <2>2, <2>7
    <3> QED
      BY <1>1, <2>3, <3>1, SameStays
  <2>8. Grown(MemberStays(residency, o.person), MemberStays(residency', o.person))
    <3>1. ASSUME NEW s \in MemberStays(residency, o.person)
          PROVE  /\ \E t \in MemberStays(residency', o.person) : t.movedInOn = s.movedInOn
                 /\ s.movedOutOn # None => s \in MemberStays(residency', o.person)
      <4>1. PICK r \in residency : r.stay = s
        BY <1>1, <3>1, MemberStaysAre
      <4>2. s.person = o.person /\ s.role = "MEMBER"
        BY <1>1, <3>1, MemberStaysAre
      <4>3. CASE r = q
        <5>1. e.stay \in MemberStays(residency', o.person)
          BY <2>1, <2>2, <2>3, <4>1, <4>2, <4>3, MemberStaysAre
        <5> QED
          BY <1>4, <2>1, <4>1, <4>3, <5>1
      <4>4. CASE r # q
        BY <2>2, <2>3, <4>1, <4>2, <4>4, MemberStaysAre
      <4> QED
        BY <4>3, <4>4
    <3> QED
      BY <3>1 DEF Grown
  <2> QED
    BY <2>3, <2>4, <2>5, <2>6, <2>7, <2>8
<1> QED
  BY <1>3, <1>4, CommitAddsOrEnds

-----------------------------------------------------------------------------
(* What a commit and the reconciliation make of the register. *)
LEMMA EndsAreDays ==
  ASSUME NEW stays, stays \subseteq Stay
  PROVE  Ends(stays) \subseteq Days
BY DEF Ends, Stay

LEMMA RowsOfTwo ==
  ASSUME NEW rows, NEW more, NEW stays, Dated(rows, stays), Dated(more, stays)
  PROVE  Dated(rows \union more, stays)
BY DEF Dated

LEMMA EventsAre ==
  ASSUME NEW p, NEW q, NEW days, NEW stays,
         register' = register \union RowsOf(q, days, stays)
  PROVE  /\ p = q => Events(p)' = Events(p) \union RowsOf(q, days, stays)
         /\ p # q => Events(p)' = Events(p)
BY RowsSay DEF Events

LEMMA StampsStayPast ==
  ASSUME TypeOK, StampsArePast, NEW q, NEW days, NEW stays,
         register' = register \union RowsOf(q, days, stays), writes' = writes + 1
  PROVE  StampsArePast'
<1>1. \A e \in register : e.at \in Nat
  BY DEF TypeOK, Row
<1> QED
  BY <1>1, RowsSay DEF TypeOK, StampsArePast

LEMMA CommitTells ==
  ASSUME IInv, NEW m \in Moves, Commit(m)
  PROVE  register' \subseteq Row /\ StampsArePast' /\ \A p \in Persons : Told(p)'
<1> DEFINE o == move[m]
           before == MemberStays(residency, o.person)
           after == MemberStays(residency', o.person)
           new == RowsOf(o.person, Owed(before, after), after)
<1>1. /\ o \in Move /\ Proper(o) /\ residency \subseteq Residency
      /\ register \subseteq Row /\ writes \in Nat
      /\ o.before = before
  BY DEF IInv, TypeOK, Commit, Locked, UnderWay, MovesAreProper, Proper, ReadIsTrue
<1>2. /\ register' = register \union new /\ writes' = writes + 1
  BY <1>1 DEF Commit
<1>3. /\ residency' \subseteq Residency /\ AllForward'
      /\ \A p : p # o.person => MemberStays(residency', p) = MemberStays(residency, p)
      /\ Grown(before, after)
  BY CommitKeepsTables
<1>4. before \subseteq Stay /\ after \subseteq Stay
  BY <1>1, <1>3, MemberStaysAre
<1>5. Owed(before, after) \subseteq Ends(after)
  BY <1>3, <1>4, EndsGrow DEF Owed
<1>6. o.person \in Persons
  BY <1>1 DEF Move
<1>7. Forward(after)
  BY <1>3, MemberStaysAre DEF Forward, AllForward
<1>8. register' \subseteq Row
  BY <1>1, <1>2, <1>4, <1>5, <1>6, EndsAreDays, RowsAreRows
<1>9. StampsArePast'
  BY <1>2, StampsStayPast DEF IInv, TablesOK
<1> HIDE DEF o, before, after
<1>10. ASSUME NEW p \in Persons, p # o.person PROVE Told(p)'
  <2>1. MemberStays(residency, p)' = MemberStays(residency, p)
    BY <1>3, <1>10 DEF MemberStays
  <2>2. Events(p)' = Events(p)
    BY <1>2, <1>10, EventsAre
  <2>3. Told(p)
    BY DEF IInv
  <2> QED
    BY <2>1, <2>2, <2>3 DEF Told
<1>11. ASSUME NEW p \in Persons, p = o.person PROVE Told(p)'
  <2> DEFINE rows == Events(p)
  <2>1. rows \subseteq Row /\ \A e \in rows : e.at < writes
    BY <1>1 DEF Events, IInv, TablesOK, StampsArePast
  <2>2. Events(p)' = rows \union new
    BY <1>2, <1>11, EventsAre
  <2>3. Dated(rows, before) /\ (SameDay(before) \/ InStep(rows, before))
    BY <1>11 DEF IInv, Told, before
  <2>4. MemberStays(residency, p)' = after
    BY <1>11 DEF after
  <2> HIDE DEF rows
  <2>5. Dated(rows \union new, after)
    BY <1>3, <1>4, <1>5, <1>7, <2>1, <2>3, DatesAreKept, NewRowsAreDated, RowsOfTwo
  <2>6. ASSUME ~SameDay(after) PROVE InStep(rows \union new, after)
    <3>1. InStep(rows, before)
      BY <1>3, <1>4, <1>7, <2>3, <2>6, StaysApartGrow
    <3> QED
      BY <1>1, <1>3, <1>4, <1>7, <2>1, <2>3, <2>6, <3>1, ChangeIsTold
  <2> QED
    BY <2>2, <2>4, <2>5, <2>6 DEF Told
<1> QED
  BY <1>8, <1>9, <1>10, <1>11

LEMMA NothingToReconcile ==
  ASSUME NEW rows, rows \subseteq Row, NEW stays, stays \subseteq Stay,
         InStep(rows, stays), NEW c \in Nat, \A e \in rows : e.at <= c
  PROVE  Unreconciled(rows, stays) = {}
<1> SUFFICES ASSUME NEW day \in Ends(stays) \union {e.eventOn : e \in rows},
                    Held(stays, day) # Reads(rows, stays, day)
             PROVE  FALSE
  BY DEF Unreconciled
<1>1. day \in Nat
  BY StayTypes, DaysAssumption DEF Row
<1>2. CASE (\E e \in rows : e.eventOn = day) \/ ~Begun(stays, day - 1)
  <2>1. Held(stays, day) # OpenOn(rows, day)
    BY <1>2 DEF Reads
  <2>2. OpenOn(rows, day) \in BOOLEAN
    BY DEF OpenOn
  <2> QED
    BY <1>1, <2>1, <2>2, OpenIsHeld, HeldIsBoolean
<1>3. CASE ~((\E e \in rows : e.eventOn = day) \/ ~Begun(stays, day - 1))
  <2>1. Held(stays, day) # Held(stays, day - 1)
    BY <1>3 DEF Reads
  <2> QED
    BY <1>1, <1>3, <2>1 DEF InStep, ChangesAreWritten
<1> QED
  BY <1>2, <1>3

-----------------------------------------------------------------------------
(* What the reconciliation leaves: rows as they were and one, written      *)
(* later, on each day that was not reconciled.  It rests on nothing but    *)
(* the dates of the rows, so it holds also where a stay ended as it began. *)
Mended(rows, after, new, stays, c) ==
    /\ stays \subseteq Stay /\ Forward(stays)
    /\ rows \subseteq Row /\ Dated(rows, stays)
    /\ c \in Nat /\ \A e \in rows : e.at < c
    /\ after = rows \union new /\ after \subseteq Row
    /\ \A e \in new : /\ e.eventOn \in Unreconciled(rows, stays) /\ e.at = c
                      /\ e.eventType = "ENTRY" <=> Held(stays, e.eventOn)
    /\ \A day \in Unreconciled(rows, stays) : \E e \in new : e.eventOn = day

LEMMA EndsHaveBegun ==
  ASSUME NEW stays, stays \subseteq Stay, Forward(stays), NEW day \in Ends(stays)
  PROVE  Begun(stays, day)
<1>1. CASE \E s \in stays : s.movedInOn = day
  BY <1>1, StayTypes DEF Begun
<1>2. CASE \E s \in stays : s.movedOutOn # None /\ s.movedOutOn = day
  BY <1>2, StayTypes DEF Begun, Forward
<1> QED
  BY <1>1, <1>2 DEF Ends

(* On a day with no row after it, nothing was left to write. *)
LEMMA UnwrittenIsAsRead ==
  ASSUME NEW rows, NEW after, NEW new, NEW stays, NEW c,
         Mended(rows, after, new, stays, c),
         NEW x \in Ends(stays), ~\E e \in after : e.eventOn = x
  PROVE  Held(stays, x) = Reads(rows, stays, x)
<1>1. Begun(stays, x)
  BY EndsHaveBegun DEF Mended
<1>2. x \notin Unreconciled(rows, stays)
  BY DEF Mended
<1> QED
  BY <1>1, <1>2 DEF Unreconciled

(* From the first day on, what is held changes on days with a row only. *)
LEMMA NothingUnwritten ==
  ASSUME NEW rows, NEW after, NEW new, NEW stays, NEW c,
         Mended(rows, after, new, stays, c),
         NEW d \in Nat, Begun(stays, d), NEW day \in Nat, d <= day,
         ~\E e \in after : d < e.eventOn /\ e.eventOn <= day
  PROVE  Held(stays, d) = Held(stays, day)
<1> SUFFICES ASSUME Held(stays, d) # Held(stays, day) PROVE FALSE
  OBVIOUS
<1>1. PICK x \in Int : /\ d < x /\ x <= day
                       /\ Held(stays, x) # Held(stays, x - 1)
  BY Unchanged
<1>2. stays \subseteq Stay
  BY DEF Mended
<1>3. x \in Ends(stays)
  BY <1>1, <1>2, ChangesAtEnds
<1>4. Begun(stays, x - 1)
  <2>1. PICK s \in stays : s.movedInOn <= d
    BY DEF Begun
  <2>2. s.movedInOn <= x - 1
    BY <1>1, <1>2, <2>1, StayTypes
  <2> QED
    BY <2>2 DEF Begun
<1>5. ~\E e \in after : e.eventOn = x
  BY <1>1
<1>6. ~\E e \in rows : e.eventOn = x
  BY <1>5 DEF Mended
<1>7. Reads(rows, stays, x) = Held(stays, x - 1)
  BY <1>4, <1>6 DEF Reads
<1> QED
  BY <1>1, <1>3, <1>5, <1>7, UnwrittenIsAsRead

(* On a day with a row, the last of the day says what is held: it is new,  *)
(* or the register read the day so before.                                 *)
LEMMA LastIsTrue ==
  ASSUME NEW rows, NEW after, NEW new, NEW stays, NEW c,
         Mended(rows, after, new, stays, c),
         NEW day \in Nat, NEW e, LastOf(e, {f \in after : f.eventOn <= day})
  PROVE  /\ e.eventType = "ENTRY" => Held(stays, e.eventOn)
         /\ Held(stays, e.eventOn) => OpenOn(after, day)
<1> DEFINE d == e.eventOn
           upTo == {f \in after : f.eventOn <= day}
<1>1. \A f \in after : f.eventOn \in Nat /\ f.at \in Nat
  BY DaysAssumption DEF Mended, Row
<1>2. e \in after /\ d \in Nat /\ d <= day /\ e.at \in Nat
  BY <1>1 DEF LastOf
<1>3. \A f \in after : f.eventOn <= day => ~Precedes(e, f)
  BY DEF LastOf
<1>4. CASE e \in new
  <2>1. e.eventType = "ENTRY" <=> Held(stays, d)
    BY <1>4 DEF Mended
  <2> QED
    BY <1>2, <2>1 DEF OpenOn
<1>5. CASE e \notin new
  <2>1. e \in rows
    BY <1>2, <1>5 DEF Mended
  <2>2. d \notin Unreconciled(rows, stays)
    <3> SUFFICES ASSUME d \in Unreconciled(rows, stays) PROVE FALSE
      OBVIOUS
    <3>1. PICK f \in new : f.eventOn = d /\ f.at = c
      BY DEF Mended
    <3>2. f \in after /\ e.at < f.at
      BY <2>1, <3>1 DEF Mended
    <3> QED
      BY <1>2, <1>3, <3>1, <3>2 DEF Precedes
  <2>3. d \in Ends(stays) /\ Begun(stays, d)
    BY <2>1, EndsHaveBegun DEF Mended, Dated
  <2>4. Reads(rows, stays, d) = OpenOn(rows, d)
    BY <2>1 DEF Reads
  <2>5. Held(stays, d) = OpenOn(rows, d)
    BY <2>2, <2>3, <2>4 DEF Unreconciled
  <2>6. rows \subseteq after
    BY DEF Mended
  <2>7. ASSUME e.eventType = "ENTRY" PROVE OpenOn(rows, d)
    <3>1. \A f \in rows : f.eventOn <= d => ~Precedes(e, f)
      BY <1>1, <1>2, <1>3, <2>6
    <3> QED
      BY <1>2, <2>1, <2>7, <3>1 DEF OpenOn, LastOf
  <2>8. ASSUME OpenOn(rows, d) PROVE OpenOn(after, day)
    <3>1. PICK f \in rows : /\ f.eventType = "ENTRY"
                            /\ f.eventOn <= d
                            /\ \A g \in rows : g.eventOn <= d => ~Precedes(f, g)
      BY <2>8 DEF OpenOn, LastOf
    <3>2. f \in after /\ f.eventOn \in Nat /\ f.at \in Nat
      BY <1>1, <2>6
    <3>3. ~Precedes(f, e)
      BY <1>2, <2>1, <3>1
    <3>4. f.eventOn = d /\ f.at >= e.at
      BY <1>2, <3>1, <3>2, <3>3 DEF Precedes
    <3>5. ASSUME NEW g \in after, g.eventOn <= day PROVE ~Precedes(f, g)
      BY <1>1, <1>2, <1>3, <3>2, <3>4, <3>5 DEF Precedes
    <3>6. LastOf(f, upTo)
      BY <1>2, <3>2, <3>4, <3>5 DEF LastOf
    <3> QED
      BY <3>1, <3>2, <3>6 DEF OpenOn
  <2> QED
    BY <2>5, <2>7, <2>8
<1> QED
  BY <1>4, <1>5

LEMMA MendedIsOpenAsHeld ==
  ASSUME NEW rows, NEW after, NEW new, NEW stays, NEW c,
         Mended(rows, after, new, stays, c),
         NEW day \in Nat
  PROVE  OpenOn(after, day) <=> Held(stays, day)
<1> DEFINE upTo == {f \in after : f.eventOn <= day}
<1>1. \A f \in after : f.eventOn \in Nat /\ f.at \in Nat
  BY DaysAssumption DEF Mended, Row
<1>2. \A f \in after : f.eventOn \in Ends(stays) /\ Begun(stays, f.eventOn)
  <2>1. \A f \in after : f.eventOn \in Ends(stays)
    BY DEF Mended, Dated, Unreconciled
  <2> QED
    BY <2>1, EndsHaveBegun DEF Mended
<1>3. ASSUME NEW e, LastOf(e, upTo)
      PROVE  /\ Held(stays, e.eventOn) = Held(stays, day)
             /\ e.eventType = "ENTRY" => Held(stays, e.eventOn)
             /\ Held(stays, e.eventOn) => OpenOn(after, day)
  <2>1. e \in after /\ e.eventOn <= day
    BY <1>3 DEF LastOf
  <2>2. ~\E f \in after : e.eventOn < f.eventOn /\ f.eventOn <= day
    BY <1>1, <1>3, <2>1 DEF LastOf, Precedes
  <2>3. Held(stays, e.eventOn) = Held(stays, day)
    BY <1>1, <1>2, <2>1, <2>2, NothingUnwritten
  <2> QED
    BY <1>3, <2>3, LastIsTrue
<1>4. OpenOn(after, day) => Held(stays, day)
  BY <1>3 DEF OpenOn
<1>5. ASSUME Held(stays, day) PROVE OpenOn(after, day)
  <2>1. stays \subseteq Stay
    BY DEF Mended
  <2>2. upTo # {}
    <3>1. ~Held(stays, -1)
      BY <2>1, NothingBefore
    <3>2. PICK x \in Int : /\ -1 < x /\ x <= day
                           /\ Held(stays, x) # Held(stays, x - 1)
      BY <1>5, <3>1, Unchanged
    <3>3. x \in Ends(stays)
      BY <2>1, <3>2, ChangesAtEnds
    <3>4. CASE \E e \in after : e.eventOn = x
      BY <3>2, <3>4
    <3>5. CASE ~\E e \in after : e.eventOn = x
      <4>1. Held(stays, x) = Reads(rows, stays, x)
        BY <3>3, <3>5, UnwrittenIsAsRead
      <4>2. Reads(rows, stays, x) = OpenOn(rows, x)
        BY <3>2, <4>1 DEF Reads
      <4>3. CASE OpenOn(rows, x)
        <5>1. PICK e \in rows : e.eventOn <= x
          BY <4>3 DEF OpenOn, LastOf
        <5>2. e \in after
          BY DEF Mended
        <5> QED
          BY <1>1, <3>2, <5>1, <5>2
      <4>4. CASE ~OpenOn(rows, x)
        <5>1. ~Held(stays, x) /\ Held(stays, x - 1)
          BY <3>2, <4>1, <4>2, <4>4, HeldIsBoolean
        <5>2. PICK s \in stays : s.movedInOn <= x - 1
          BY <5>1 DEF Held, IsResidencyHeldOn
        <5>3. Begun(stays, x - 1)
          BY <5>2 DEF Begun
        <5>4. Reads(rows, stays, x) = Held(stays, x - 1)
          BY <3>5, <5>3 DEF Reads, Mended
        <5> QED
          BY <4>1, <5>1, <5>4
      <4> QED
        BY <4>3, <4>4
    <3> QED
      BY <3>4, <3>5
  <2>3. \A e \in upTo : e.eventOn <= day /\ e.at <= c
    <3>1. \A e \in rows \union new : e.at <= c
      BY <1>1 DEF Mended
    <3> QED
      BY <3>1 DEF Mended
  <2>4. PICK e \in upTo : LastOf(e, upTo)
    <3>1. c \in Nat /\ upTo \subseteq Row
      BY DEF Mended
    <3> QED
      BY <2>2, <2>3, <3>1, LastExists
  <2> QED
    BY <1>3, <1>5, <2>4
<1> QED
  BY <1>4, <1>5

LEMMA MendedIsReconciled ==
  ASSUME NEW rows, NEW after, NEW new, NEW stays, NEW c,
         Mended(rows, after, new, stays, c)
  PROVE  Unreconciled(after, stays) = {}
<1> SUFFICES ASSUME NEW day \in Ends(stays) \union {e.eventOn : e \in after},
                    Held(stays, day) # Reads(after, stays, day)
             PROVE  FALSE
  BY DEF Unreconciled
<1>1. day \in Ends(stays) /\ day \in Nat
  <2>1. \A f \in after : f.eventOn \in Ends(stays)
    BY DEF Mended, Dated, Unreconciled
  <2> QED
    BY <2>1, StayTypes DEF Mended
<1>2. CASE (\E e \in after : e.eventOn = day) \/ ~Begun(stays, day - 1)
  <2>1. Reads(after, stays, day) = OpenOn(after, day)
    BY <1>2 DEF Reads
  <2>2. OpenOn(after, day) \in BOOLEAN
    BY DEF OpenOn
  <2> QED
    BY <1>1, <2>1, <2>2, MendedIsOpenAsHeld, HeldIsBoolean
<1>3. CASE ~((\E e \in after : e.eventOn = day) \/ ~Begun(stays, day - 1))
  <2>1. Reads(after, stays, day) = Held(stays, day - 1)
    BY <1>3 DEF Reads
  <2>2. Reads(rows, stays, day) = Held(stays, day - 1)
    BY <1>3 DEF Reads, Mended
  <2> QED
    BY <1>1, <1>3, <2>1, <2>2, UnwrittenIsAsRead
<1> QED
  BY <1>2, <1>3

LEMMA ReconcileTells ==
  ASSUME IInv, NEW p \in Persons, Reconcile(p)
  PROVE  register' \subseteq Row /\ StampsArePast' /\ \A q \in Persons : Told(q)'
<1> DEFINE stays == MemberStays(residency, p)
           owed == Unreconciled(Events(p), stays)
           new == RowsOf(p, owed, stays)
<1>1. /\ register' = register \union new /\ writes' = writes + 1
      /\ residency' = residency /\ owed # {}
  BY DEF Reconcile
<1>2. /\ stays \subseteq Stay /\ Forward(stays) /\ Events(p) \subseteq Row
      /\ \A e \in Events(p) : e.at <= writes
      /\ writes \in Nat /\ register \subseteq Row
  BY MemberStaysAre, ForwardStays
     DEF IInv, TypeOK, TablesOK, StampsArePast, Events, Row
<1>3. Dated(Events(p), stays) /\ (SameDay(stays) \/ InStep(Events(p), stays))
  BY DEF IInv, Told
<1>4. owed \subseteq Ends(stays)
  BY <1>3 DEF Unreconciled, Dated
<1>5. SameDay(stays)
  BY <1>1, <1>2, <1>3, NothingToReconcile
<1>6. register' \subseteq Row
  BY <1>1, <1>2, <1>4, EndsAreDays, RowsAreRows
<1>7. StampsArePast'
  BY <1>1, StampsStayPast DEF IInv, TablesOK
<1>8. ASSUME NEW q \in Persons PROVE Told(q)'
  <2>1. MemberStays(residency, q)' = MemberStays(residency, q)
    BY <1>1
  <2>2. CASE q = p
    <3>1. Events(q)' = Events(p) \union new
      BY <1>1, <2>2, EventsAre
    <3>2. Dated(Events(p) \union new, stays)
      BY <1>2, <1>3, <1>4, NewRowsAreDated, RowsOfTwo
    <3> QED
      BY <1>5, <2>1, <2>2, <3>1, <3>2 DEF Told
  <2>3. CASE q # p
    <3>1. Events(q)' = Events(q)
      BY <1>1, <2>3, EventsAre
    <3>2. Told(q)
      BY DEF IInv
    <3> QED
      BY <2>1, <3>1, <3>2 DEF Told
  <2> QED
    BY <2>2, <2>3
<1> QED
  BY <1>6, <1>7, <1>8

-----------------------------------------------------------------------------
(* A transaction begins, gets its locks or is rolled back. *)
LEMMA TablesStay ==
  ASSUME IInv, UNCHANGED tables
  PROVE  /\ TablesOK' /\ \A p \in Persons : Told(p)'
         /\ \A o : Proper(o) => Proper(o)'
         /\ residency' \subseteq Residency /\ register' \subseteq Row
         /\ transfer' \subseteq [deed : Deed, at : Nat] /\ writes' \in Nat
<1>1. /\ residency' = residency /\ register' = register
      /\ transfer' = transfer /\ writes' = writes
  BY DEF tables
<1>2. TablesOK'
  BY <1>1 DEF IInv, TablesOK, IdsAreApart, AllForward, NoDayHeldTwice, StampsArePast
<1>3. ASSUME NEW p \in Persons PROVE Told(p)'
  <2>1. MemberStays(residency, p)' = MemberStays(residency, p) /\ Events(p)' = Events(p)
    BY <1>1 DEF Events
  <2> QED
    BY <2>1 DEF IInv, Told
<1>4. ASSUME NEW o, Proper(o) PROVE Proper(o)'
  <2>1. MemberStays(residency, o.person)' = MemberStays(residency, o.person)
    BY <1>1
  <2>2. SellerHeld(o.deed, residency)' = SellerHeld(o.deed, residency)
    BY <1>1
  <2>3. Granted(o.deed.apartment)' = Granted(o.deed.apartment)
    BY <1>1 DEF Granted
  <2>4. AddsAreNew(o)' /\ AddsAreFree(o)' /\ EndsWhatIsThere(o)'
    BY <1>1, <1>4 DEF Proper, AddsAreNew, AddsAreFree, EndsWhatIsThere
  <2>5. ReadIsTrue(o)'
    BY <1>4, <2>1 DEF Proper, ReadIsTrue
  <2>6. DeedStands(o)'
    BY <1>4, <2>2, <2>3 DEF Proper, DeedStands
  <2> QED
    BY <2>4, <2>5, <2>6 DEF Proper
<1> QED
  BY <1>1, <1>2, <1>3, <1>4 DEF IInv, TypeOK

LEMMA SetMove ==
  ASSUME IInv, UNCHANGED tables,
         NEW m \in Moves, NEW o \in Move, move' = [move EXCEPT ![m] = o], Proper(o),
         o.at = "locked" => KeysAreFree(o) /\ ~Locked(m),
         \A n \in Moves : n # m /\ move[n] # None =>
             \A r \in o.adds, q \in move[n].adds : r.id # q.id
  PROVE  IInv'
<1>1. o # None /\ move \in [Moves -> Move \union {None}]
  BY NoneIsNothing DEF IInv, TypeOK
<1>2. /\ move'[m] = o /\ \A n \in Moves : n # m => move'[n] = move[n]
      /\ move' \in [Moves -> Move \union {None}]
  BY <1>1
<1>3. TypeOK'
  BY <1>2, TablesStay DEF TypeOK
<1>4. \A q \in UnderWay' : q \in UnderWay \/ q = o
  BY <1>2 DEF UnderWay
<1>5. MovesAreProper'
  <2>1. \A q \in UnderWay : Proper(q)
    BY DEF IInv, MovesAreProper
  <2>2. \A q \in UnderWay' : Proper(q)'
    BY <1>4, <2>1, TablesStay
  <2> QED
    BY <2>2 DEF MovesAreProper
<1>6. \A n \in Moves : n # m => \A q \in {move[n]} \ {None} : Apart(o, q) /\ Apart(q, o)
  <2> SUFFICES ASSUME NEW n \in Moves, n # m, NEW q, q = move[n], q # None
               PROVE  Apart(o, q) /\ Apart(q, o)
    OBVIOUS
  <2>1. \A r \in o.adds, s \in q.adds : r.id # s.id
    OBVIOUS
  <2>2. ASSUME o.at = "locked", q.at = "locked"
        PROVE  /\ PersonKeys(o) \intersect PersonKeys(q) = {}
               /\ ApartmentKeys(o) \intersect ApartmentKeys(q) = {}
    BY <2>2 DEF KeysAreFree, Locked
  <2> QED
    BY <2>1, <2>2 DEF Apart
<1>7. MovesAreApart'
  <2> SUFFICES ASSUME NEW k \in Moves, NEW n \in Moves, k # n,
                      NEW p, p = move'[k], p # None, NEW q, q = move'[n], q # None
               PROVE  Apart(p, q)
    BY DEF MovesAreApart
  <2>1. CASE k # m /\ n # m
    <3>1. p = move[k] /\ q = move[n]
      BY <1>2, <2>1
    <3> QED
      BY <3>1 DEF IInv, MovesAreApart
  <2>2. CASE k = m
    <3>1. p = o /\ q = move[n]
      BY <1>2, <2>2
    <3> QED
      BY <1>6, <2>2, <3>1
  <2>3. CASE n = m
    <3>1. q = o /\ p = move[k]
      BY <1>2, <2>3
    <3> QED
      BY <1>6, <2>3, <3>1
  <2> QED
    BY <2>1, <2>2, <2>3
<1> QED
  BY <1>3, <1>5, <1>7, TablesStay DEF IInv

LEMMA EndingKeepsApart ==
  ASSUME MovesAreApart, NEW m \in Moves,
         move'[m] = None, \A n \in Moves : n # m => move'[n] = move[n]
  PROVE  MovesAreApart'
<1> SUFFICES ASSUME NEW k \in Moves, NEW n \in Moves, k # n,
                    NEW o, o = move'[k], o # None, NEW q, q = move'[n], q # None
             PROVE  Apart(o, q)
  BY DEF MovesAreApart
<1>1. o = move[k] /\ q = move[n]
  OBVIOUS
<1> QED
  BY <1>1 DEF MovesAreApart

LEMMA RollBackKeeps ==
  ASSUME IInv, NEW m \in Moves, RollBack(m)
  PROVE  IInv'
<1>1. UNCHANGED tables /\ move' = [move EXCEPT ![m] = None]
  BY DEF RollBack
<1>2. move'[m] = None /\ \A n \in Moves : n # m => move'[n] = move[n]
  BY <1>1 DEF IInv, TypeOK
<1>3. TypeOK'
  BY <1>1, TablesStay DEF IInv, TypeOK
<1>4. MovesAreProper'
  <2>1. \A q \in UnderWay' : Proper(q)
    BY <1>2 DEF UnderWay, IInv, MovesAreProper
  <2>2. \A q \in UnderWay' : Proper(q)'
    BY <1>1, <2>1, TablesStay
  <2> QED
    BY <2>2 DEF MovesAreProper
<1>5. MovesAreApart'
  BY <1>2, EndingKeepsApart DEF IInv
<1> QED
  BY <1>1, <1>3, <1>4, <1>5, TablesStay DEF IInv

(* What is added is new, and of nobody else's. *)
LEMMA UnusedIs ==
  ASSUME NEW id \in Unused
  PROVE  /\ id \in Ids /\ \A r \in residency : r.id # id
         /\ \A n \in Moves : move[n] # None => \A r \in move[n].adds : r.id # id
BY DEF Unused

MayAdd(p, rows, deed) ==
    /\ rows \subseteq Residency /\ deed \in Deed \union {None}
    /\ \A r \in rows :
          /\ r.id \in Unused /\ r.stay.person = p
          /\ r.stay.movedOutOn # None => r.stay.movedOutOn >= r.stay.movedInOn
    /\ \A r, q \in rows : r.id = q.id => r = q
    /\ \A r \in rows, q \in residency \union rows :
          r # q /\ Joint(r.stay, q.stay) => ~Overlaps(r.stay, q.stay)
    /\ deed # None =>
          /\ SellerHeld(deed, residency)
          /\ deed.kind = "GRANT" => ~Granted(deed.apartment)
          /\ \E r \in rows : r.stay.apartment = deed.apartment
    /\ KeysAreFree(Adding(p, rows, deed))

LEMMA AddingKeeps ==
  ASSUME IInv, NEW m \in Moves, move[m] = None, UNCHANGED tables,
         NEW p \in Persons, NEW rows, NEW deed, MayAdd(p, rows, deed),
         move' = [move EXCEPT ![m] = Adding(p, rows, deed)]
  PROVE  IInv'
<1> DEFINE o == Adding(p, rows, deed)
<1>1. /\ o.at = "locked" /\ o.person = p /\ o.adds = rows /\ o.ends = None
      /\ o.deed = deed /\ o.before = MemberStays(residency, p)
  BY DEF Adding
<1>2. o \in Move
  <2>1. MemberStays(residency, p) \subseteq Stay
    BY MemberStaysAre DEF IInv, TypeOK
  <2> QED
    BY <2>1 DEF MayAdd, Adding, Move
<1>3. KeysAreFree(o) /\ ~Locked(m) /\ move' = [move EXCEPT ![m] = o]
  BY DEF MayAdd, Locked
<1> HIDE DEF o
<1>4. AddsAreNew(o) /\ AddsAreFree(o)
  BY <1>1, UnusedIs DEF MayAdd, AddsAreNew, AddsAreFree
<1>5. EndsWhatIsThere(o) /\ ReadIsTrue(o) /\ DeedStands(o)
  BY <1>1 DEF MayAdd, EndsWhatIsThere, ReadIsTrue, DeedStands, ApartmentKeys
<1>6. \A n \in Moves : n # m /\ move[n] # None =>
         \A r \in o.adds, q \in move[n].adds : r.id # q.id
  BY <1>1, UnusedIs DEF MayAdd
<1> QED
  BY <1>2, <1>3, <1>4, <1>5, <1>6, SetMove DEF Proper

LEMMA MoveInKeeps ==
  ASSUME IInv, NEW m \in Moves, NEW a \in Arrivals, NEW id \in Unused, MoveIn(m, a, id)
  PROVE  IInv'
<1> DEFINE s == a.stay
           deed == IF a.deed = None THEN None
                   ELSE [apartment |-> s.apartment, kind |-> a.deed.kind,
                         fromPerson |-> a.deed.fromPerson, toPerson |-> s.person,
                         transferredOn |-> a.deed.transferredOn]
           row == [id |-> id, stay |-> s]
<1>1. /\ a \in Arrival /\ s \in Stay /\ s.movedOutOn = None /\ id \in Ids
  BY AsksAssumption, UnusedIs DEF Arrival
<1>2. /\ row \in Residency /\ row.id = id /\ row.stay = s /\ s.person \in Persons
  BY <1>1 DEF Residency, Stay
<1>3. deed \in Deed \union {None} /\ (deed # None => deed.apartment = s.apartment)
  <2>1. CASE a.deed = None
    BY <2>1
  <2>2. CASE a.deed # None
    BY <1>1, <2>2 DEF Arrival, Stay, Deed
  <2> QED
    BY <2>1, <2>2
<1>4. /\ move[m] = None /\ KeysAreFree(Adding(s.person, {row}, deed))
      /\ ~AlreadyLives(s) /\ (deed # None => MayRecord(deed, residency))
      /\ move' = [move EXCEPT ![m] = Adding(s.person, {row}, deed)]
      /\ UNCHANGED tables
  BY DEF MoveIn
<1> HIDE DEF deed, row
<1>5. \A r \in {row}, q \in residency \union {row} :
         r # q /\ Joint(r.stay, q.stay) => ~Overlaps(r.stay, q.stay)
  <2>1. ASSUME NEW q \in residency, Joint(s, q.stay) PROVE ~Overlaps(s, q.stay)
    <3>1. q.stay \in Stay
      BY DEF IInv, TypeOK, Residency
    <3>2. q.stay.movedOutOn # None /\ ~(q.stay.movedOutOn > s.movedInOn)
      BY <1>4, <2>1 DEF AlreadyLives, Joint
    <3> QED
      BY <1>1, <3>1, <3>2, DaysAssumption DEF Overlaps, Stay
  <2> QED
    BY <1>2, <2>1
<1>6. deed # None => /\ SellerHeld(deed, residency)
                     /\ deed.kind = "GRANT" => ~Granted(deed.apartment)
                     /\ \E r \in {row} : r.stay.apartment = deed.apartment
  BY <1>2, <1>3, <1>4 DEF MayRecord
<1>7. \A r \in {row} : /\ r.id \in Unused /\ r.stay.person = s.person
                       /\ r.stay.movedOutOn # None => r.stay.movedOutOn >= r.stay.movedInOn
  BY <1>1, <1>2
<1>8. MayAdd(s.person, {row}, deed)
  BY <1>2, <1>3, <1>4, <1>5, <1>6, <1>7 DEF MayAdd
<1> QED
  BY <1>2, <1>4, <1>8, AddingKeeps

LEMMA ImportKeeps ==
  ASSUME IInv, NEW m \in Moves, NEW p \in Persons, NEW file \in Files,
         NEW kept, kept \subseteq {s \in file : s.person = p}, NEW id \in [kept -> Unused],
         \A s, t \in kept : s # t => id[s] # id[t],
         Import(m, p, {[id |-> id[s], stay |-> s] : s \in kept})
  PROVE  IInv'
<1> DEFINE rows == {[id |-> id[s], stay |-> s] : s \in kept}
<1>1. \A s \in kept : /\ s \in Stay /\ s.person = p /\ id[s] \in Unused /\ id[s] \in Ids
                      /\ s.movedOutOn # None => s.movedOutOn >= s.movedInOn
  BY AsksAssumption, UnusedIs
<1>2. rows \subseteq Residency
  BY <1>1 DEF Residency
<1>3. \A r \in rows : r.stay \in kept /\ r.id = id[r.stay]
  OBVIOUS
<1>4. \A r, q \in rows : r.id = q.id => r = q
  OBVIOUS
<1>5. /\ move[m] = None /\ KeysAreFree(Adding(p, rows, None)) /\ UNCHANGED tables
      /\ \A r \in rows, q \in residency \union rows :
            r # q /\ Joint(r.stay, q.stay) => ~Overlaps(r.stay, q.stay)
      /\ move' = [move EXCEPT ![m] = Adding(p, rows, None)]
  BY DEF Import
<1> HIDE DEF rows
<1>6. MayAdd(p, rows, None)
  BY <1>1, <1>2, <1>3, <1>4, <1>5 DEF MayAdd
<1> QED
  BY <1>5, <1>6, AddingKeeps

LEMMA AskMoveOutKeeps ==
  ASSUME IInv, NEW m \in Moves, NEW r \in residency, NEW d \in Departures, AskMoveOut(m, r, d)
  PROVE  IInv'
<1> DEFINE deed == IF d.deed = None THEN None
                   ELSE [apartment |-> r.stay.apartment, kind |-> "TRANSFER",
                         fromPerson |-> r.stay.person, toPerson |-> d.deed.toPerson,
                         transferredOn |-> d.deed.transferredOn]
           o == [at |-> "asked", person |-> r.stay.person, adds |-> {},
                 ends |-> r.id, movedOutOn |-> d.movedOutOn, before |-> {}, deed |-> deed]
<1>1. /\ r \in Residency /\ r.stay \in Stay /\ r.id \in Ids
      /\ r.stay.person \in Persons /\ r.stay.apartment \in Apartments
      /\ r.stay.movedInOn \in Nat
      /\ d \in Departure /\ d.movedOutOn \in Days /\ d.movedOutOn \in Nat
  BY AsksAssumption, DaysAssumption DEF IInv, TypeOK, Residency, Stay, Departure
<1>2. deed \in Deed \union {None} /\ (deed # None => deed.kind = "TRANSFER")
  <2>1. CASE d.deed = None
    BY <2>1
  <2>2. CASE d.deed # None
    BY <1>1, <2>2 DEF Departure, Deed
  <2> QED
    BY <2>1, <2>2
<1>3. /\ d.movedOutOn >= r.stay.movedInOn /\ UNCHANGED tables
      /\ move' = [move EXCEPT ![m] = o]
  BY DEF AskMoveOut
<1> HIDE DEF deed
<1>4. o \in Move
  BY <1>1, <1>2 DEF Move
<1>5. /\ o.at = "asked" /\ o.person = r.stay.person /\ o.adds = {} /\ o.ends = r.id
      /\ o.movedOutOn = d.movedOutOn /\ o.deed = deed
  OBVIOUS
<1> HIDE DEF o
<1>6. Proper(o)
  <2>1. EndsWhatIsThere(o)
    BY <1>1, <1>3, <1>5 DEF EndsWhatIsThere
  <2>2. DeedStands(o)
    BY <1>1, <1>2, <1>5, NoneIsNothing DEF DeedStands
  <2> QED
    BY <1>5, <2>1, <2>2 DEF Proper, AddsAreNew, AddsAreFree, ReadIsTrue
<1> QED
  BY <1>3, <1>4, <1>5, <1>6, SetMove

LEMMA LockMoveOutKeeps ==
  ASSUME IInv, NEW m \in Moves, LockMoveOut(m)
  PROVE  IInv'
<1> DEFINE q == move[m]
           stays == MemberStays(residency, q.person)
           o == [q EXCEPT !.at = "locked", !.before = stays]
<1>1. /\ q \in Move /\ q # None /\ Proper(q) /\ q.at = "asked" /\ ~Locked(m)
      /\ KeysAreFree(q) /\ UNCHANGED tables
  BY DEF LockMoveOut, Locked, IInv, TypeOK, MovesAreProper, UnderWay
<1>2. move' = [move EXCEPT ![m] = o]
  BY DEF LockMoveOut, IInv, TypeOK
<1>3. stays \subseteq Stay
  BY MemberStaysAre DEF IInv, TypeOK
<1> HIDE DEF q, stays
<1>4. /\ o \in Move /\ o.at = "locked" /\ o.person = q.person /\ o.adds = q.adds
      /\ o.ends = q.ends /\ o.movedOutOn = q.movedOutOn /\ o.deed = q.deed
      /\ o.before = stays
  BY <1>1, <1>3 DEF Move
<1> HIDE DEF o
<1>5. q.adds = {}
  BY <1>1 DEF Proper, ReadIsTrue
<1>6. Proper(o)
  <2>1. EndsWhatIsThere(o)
    BY <1>1, <1>4 DEF Proper, EndsWhatIsThere
  <2>2. DeedStands(o)
    BY <1>1, <1>4 DEF Proper, DeedStands
  <2>3. ReadIsTrue(o)
    BY <1>4 DEF ReadIsTrue, stays
  <2> QED
    BY <1>4, <1>5, <2>1, <2>2, <2>3 DEF Proper, AddsAreNew, AddsAreFree
<1>7. KeysAreFree(o)
  BY <1>1, <1>4 DEF KeysAreFree, PersonKeys, ApartmentKeys
<1> QED
  BY <1>1, <1>2, <1>4, <1>5, <1>6, <1>7, SetMove

-----------------------------------------------------------------------------
(* A commit leaves what the others have read as they read it.  One that    *)
(* waits for its locks has read no more than that its row is there; one    *)
(* that has them shares no person and no apartment with it.                *)
LEMMA CommitTypes ==
  ASSUME IInv, NEW m \in Moves, Commit(m)
  PROVE  TypeOK'
<1>1. residency' \subseteq Residency /\ register' \subseteq Row
  BY CommitKeepsTables, CommitTells
<1>2. move[m] \in Move
  BY DEF IInv, TypeOK, Commit, Locked
<1>3. move[m].deed \in Deed \union {None}
  BY <1>2 DEF Move
<1>4. transfer' \subseteq [deed : Deed, at : Nat] /\ writes' \in Nat
  BY <1>3 DEF IInv, TypeOK, Commit
<1>5. move' \in [Moves -> Move \union {None}]
  BY DEF IInv, TypeOK, Commit
<1> QED
  BY <1>1, <1>4, <1>5 DEF TypeOK

LEMMA CommitKeepsRead ==
  ASSUME IInv, NEW m \in Moves, Commit(m),
         NEW n \in Moves, n # m, NEW o, o = move[n], o # None
  PROVE  Proper(o)'
<1> DEFINE c == move[m]
<1>1. /\ c \in Move /\ c # None /\ c.at = "locked" /\ Proper(c)
      /\ o \in Move /\ Proper(o) /\ residency \subseteq Residency
  BY DEF IInv, TypeOK, Commit, Locked, MovesAreProper, UnderWay
<1>2. /\ \A r \in c.adds, q \in o.adds : r.id # q.id
      /\ o.at = "locked" =>
            /\ PersonKeys(c) \intersect PersonKeys(o) = {}
            /\ ApartmentKeys(c) \intersect ApartmentKeys(o) = {}
  <2>1. Apart(c, o)
    BY <1>1 DEF IInv, MovesAreApart
  <2> QED
    BY <1>1, <2>1 DEF Apart
<1>3. \/ residency' = residency \union c.adds
      \/ \E q \in residency, day \in Days :
           /\ q.stay.person = c.person
           /\ residency' = (residency \ {q}) \union {[q EXCEPT !.stay.movedOutOn = day]}
  BY CommitAddsOrEnds
<1>4. /\ \A r \in residency' : r \in c.adds \/ \E q \in residency : q.id = r.id
      /\ \A r \in residency' : r.stay.person # c.person => r \in residency
      /\ \A q \in residency : \E r \in residency' :
            /\ r.id = q.id /\ r.stay.person = q.stay.person
            /\ r.stay.movedInOn = q.stay.movedInOn
  <2>1. CASE residency' = residency \union c.adds
    BY <1>1, <2>1 DEF Proper, AddsAreNew
  <2>2. ASSUME NEW q \in residency, NEW day \in Days, q.stay.person = c.person,
               residency' = (residency \ {q}) \union {[q EXCEPT !.stay.movedOutOn = day]}
        PROVE  /\ \A r \in residency' : \E x \in residency : x.id = r.id
               /\ \A r \in residency' : r.stay.person # c.person => r \in residency
               /\ \A x \in residency : \E r \in residency' :
                     /\ r.id = x.id /\ r.stay.person = x.stay.person
                     /\ r.stay.movedInOn = x.stay.movedInOn
    <3> DEFINE e == [q EXCEPT !.stay.movedOutOn = day]
    <3>1. /\ e.id = q.id /\ e.stay.person = q.stay.person
          /\ e.stay.movedInOn = q.stay.movedInOn
      BY <1>1, EndedIs
    <3>2. residency' = (residency \ {q}) \union {e}
      BY <2>2
    <3> HIDE DEF e
    <3> QED
      BY <2>2, <3>1, <3>2
  <2> QED
    BY <1>3, <2>1, <2>2
<1>5. ASSUME o.at = "locked", NEW p \in PersonKeys(o)
      PROVE  MemberStays(residency', p) = MemberStays(residency, p)
  <2>1. c.person \in PersonKeys(c)
    BY DEF PersonKeys
  <2>2. p # c.person
    BY <1>2, <1>5, <2>1
  <2> QED
    BY <2>2, CommitKeepsTables
<1>6. o.person \in PersonKeys(o) /\ c.person \in PersonKeys(c)
  BY DEF PersonKeys
<1>7. o.at \in {"asked", "locked"} /\ (o.at = "asked" => o.adds = {})
  BY <1>1 DEF Move, Proper, ReadIsTrue
<1> HIDE DEF c
<1>8. AddsAreNew(o)'
  BY <1>1, <1>2, <1>4 DEF Proper, AddsAreNew
<1>9. AddsAreFree(o)'
  <2>1. ASSUME NEW r \in o.adds, NEW q \in residency', r # q, Joint(r.stay, q.stay)
        PROVE  ~Overlaps(r.stay, q.stay)
    <3>1. q.stay.person = o.person /\ o.person # c.person
      BY <1>1, <1>2, <1>6, <1>7, <2>1 DEF Proper, AddsAreNew, Joint
    <3>2. q \in residency
      BY <1>4, <3>1
    <3> QED
      BY <1>1, <2>1, <3>2 DEF Proper, AddsAreFree
  <2> QED
    BY <1>1, <2>1 DEF Proper, AddsAreFree
<1>10. EndsWhatIsThere(o)'
  BY <1>1, <1>4 DEF Proper, EndsWhatIsThere
<1>11. ReadIsTrue(o)'
  <2>1. ASSUME o.at = "locked" PROVE o.before = MemberStays(residency, o.person)'
    <3>1. MemberStays(residency, o.person)' = MemberStays(residency', o.person)
      BY DEF MemberStays
    <3> QED
      BY <1>1, <1>5, <1>6, <2>1, <3>1 DEF Proper, ReadIsTrue
  <2> QED
    BY <1>7, <2>1 DEF ReadIsTrue
<1>12. DeedStands(o)'
  <2> SUFFICES ASSUME o.deed # None, o.ends = None
               PROVE  /\ o.at = "locked"
                      /\ SellerHeld(o.deed, residency)'
                      /\ o.deed.kind = "GRANT" => ~Granted(o.deed.apartment)'
                      /\ o.deed.apartment \in ApartmentKeys(o)
    BY <1>1 DEF Proper, DeedStands
  <2>1. /\ o.at = "locked" /\ SellerHeld(o.deed, residency)
        /\ o.deed.kind = "GRANT" => ~Granted(o.deed.apartment)
        /\ o.deed.apartment \in ApartmentKeys(o)
    BY <1>1 DEF Proper, DeedStands
  <2>2. SellerHeld(o.deed, residency')
    <3>1. CASE o.deed.fromPerson = None
      BY <3>1 DEF SellerHeld
    <3>2. CASE o.deed.fromPerson # None
      <4>1. o.deed.fromPerson \in PersonKeys(o)
        BY <3>2 DEF PersonKeys
      <4>2. MemberStays(residency', o.deed.fromPerson) = MemberStays(residency, o.deed.fromPerson)
        BY <1>5, <2>1, <4>1
      <4> QED
        BY <2>1, <4>2 DEF SellerHeld, HeldByMember
    <3> QED
      BY <3>1, <3>2
  <2>3. ASSUME o.deed.kind = "GRANT" PROVE ~Granted(o.deed.apartment)'
    <3>1. transfer' = transfer \union (IF c.deed = None THEN {} ELSE {[deed |-> c.deed, at |-> writes]})
      BY DEF Commit, c
    <3>2. ASSUME c.deed # None, c.deed.kind = "GRANT" PROVE c.deed.apartment # o.deed.apartment
      <4>1. c.ends = None
        BY <1>1, <3>2 DEF Proper, DeedStands
      <4>2. c.deed.apartment \in ApartmentKeys(c)
        BY <1>1, <3>2, <4>1 DEF Proper, DeedStands
      <4> QED
        BY <1>2, <2>1, <4>2
    <3>3. \A t \in transfer : t.deed.apartment # o.deed.apartment \/ t.deed.kind # "GRANT"
      BY <2>1, <2>3 DEF Granted
    <3> QED
      BY <3>1, <3>2, <3>3 DEF Granted
  <2>4. SellerHeld(o.deed, residency)' = SellerHeld(o.deed, residency')
    BY DEF SellerHeld, HeldByMember, MemberStays
  <2> QED
    BY <2>1, <2>2, <2>3, <2>4
<1> QED
  BY <1>8, <1>9, <1>10, <1>11, <1>12 DEF Proper

LEMMA CommitKeeps ==
  ASSUME IInv, NEW m \in Moves, Commit(m)
  PROVE  IInv'
<1>1. move'[m] = None /\ \A n \in Moves : n # m => move'[n] = move[n]
  BY DEF IInv, TypeOK, Commit
<1>2. MovesAreProper'
  <2>1. ASSUME NEW o \in UnderWay' PROVE Proper(o)'
    <3>1. PICK n \in Moves : o = move'[n] /\ o # None
      BY DEF UnderWay
    <3>2. n # m /\ o = move[n]
      BY <1>1, <3>1
    <3> QED
      BY <3>1, <3>2, CommitKeepsRead
  <2> QED
    BY <2>1 DEF MovesAreProper
<1>3. MovesAreApart'
  BY <1>1, EndingKeepsApart DEF IInv
<1>4. TablesOK'
  BY CommitKeepsTables, CommitTells DEF TablesOK
<1>5. \A p \in Persons : Told(p)'
  BY CommitTells
<1> QED
  BY <1>2, <1>3, <1>4, <1>5, CommitTypes DEF IInv

LEMMA ApartStays ==
  ASSUME MovesAreApart, move' = move
  PROVE  MovesAreApart'
<1> SUFFICES ASSUME NEW k \in Moves, NEW n \in Moves, k # n,
                    NEW o, o = move[k], o # None, NEW q, q = move[n], q # None
             PROVE  Apart(o, q)
  BY DEF MovesAreApart
<1> QED
  BY DEF MovesAreApart

LEMMA ReconcileKeeps ==
  ASSUME IInv, NEW p \in Persons, Reconcile(p)
  PROVE  IInv'
<1>1. /\ residency' = residency /\ transfer' = transfer /\ move' = move
      /\ writes' = writes + 1
  BY DEF Reconcile
<1>2. TypeOK'
  BY <1>1, ReconcileTells DEF IInv, TypeOK
<1>3. TablesOK'
  BY <1>1, ReconcileTells DEF IInv, TablesOK, IdsAreApart, AllForward, NoDayHeldTwice
<1>4. MovesAreProper'
  <2>1. ASSUME NEW o \in UnderWay PROVE Proper(o)'
    <3>1. Proper(o)
      BY DEF IInv, MovesAreProper
    <3>2. /\ MemberStays(residency, o.person)' = MemberStays(residency, o.person)
          /\ SellerHeld(o.deed, residency)' = SellerHeld(o.deed, residency)
      BY <1>1
    <3>3. Granted(o.deed.apartment)' = Granted(o.deed.apartment)
      BY <1>1 DEF Granted
    <3>4. AddsAreNew(o)' /\ AddsAreFree(o)' /\ EndsWhatIsThere(o)'
      BY <1>1, <3>1 DEF Proper, AddsAreNew, AddsAreFree, EndsWhatIsThere
    <3>5. ReadIsTrue(o)' /\ DeedStands(o)'
      BY <3>1, <3>2, <3>3 DEF Proper, ReadIsTrue, DeedStands
    <3> QED
      BY <3>4, <3>5 DEF Proper
  <2>2. UnderWay' = UnderWay
    BY <1>1 DEF UnderWay
  <2> QED
    BY <2>1, <2>2 DEF MovesAreProper
<1>5. MovesAreApart'
  BY <1>1, ApartStays DEF IInv
<1> QED
  BY <1>2, <1>3, <1>4, <1>5, ReconcileTells DEF IInv

-----------------------------------------------------------------------------
LEMMA InitHolds ==
  ASSUME Init
  PROVE  IInv
<1>1. TypeOK /\ TablesOK /\ MovesAreProper /\ MovesAreApart
  BY DEF Init, TypeOK, TablesOK, IdsAreApart, AllForward, NoDayHeldTwice, StampsArePast,
         UnderWay, MovesAreProper, MovesAreApart
<1>2. ASSUME NEW p \in Persons PROVE Told(p)
  <2>1. MemberStays(residency, p) = {} /\ Events(p) = {}
    BY DEF Init, MemberStays, Events
  <2> QED
    BY <2>1 DEF Told, Dated, InStep, DaysAreSettled, ChangesAreWritten, ExitsAreApart, Held
<1> QED
  BY <1>1, <1>2 DEF IInv

LEMMA NextKeeps ==
  ASSUME IInv, [Next]_vars
  PROVE  IInv'
<1>1. ASSUME NEW m \in Moves, NEW a \in Arrivals, NEW id \in Unused, MoveIn(m, a, id)
      PROVE  IInv'
  BY <1>1, MoveInKeeps
<1>2. ASSUME NEW m \in Moves, NEW p \in Persons, NEW file \in Files,
             NEW kept \in (SUBSET {s \in file : s.person = p}) \ {{}},
             NEW id \in [kept -> Unused], \A s, t \in kept : s # t => id[s] # id[t],
             Import(m, p, {[id |-> id[s], stay |-> s] : s \in kept})
      PROVE  IInv'
  BY <1>2, ImportKeeps
<1>3. ASSUME NEW m \in Moves, NEW r \in residency, NEW d \in Departures, AskMoveOut(m, r, d)
      PROVE  IInv'
  BY <1>3, AskMoveOutKeeps
<1>4. ASSUME NEW m \in Moves, LockMoveOut(m) PROVE IInv'
  BY <1>4, LockMoveOutKeeps
<1>5. ASSUME NEW m \in Moves, Commit(m) PROVE IInv'
  BY <1>5, CommitKeeps
<1>6. ASSUME NEW m \in Moves, RollBack(m) PROVE IInv'
  BY <1>6, RollBackKeeps
<1>7. ASSUME NEW p \in Persons, Reconcile(p) PROVE IInv'
  BY <1>7, ReconcileKeeps
<1>8. CASE UNCHANGED vars
  <2>1. UNCHANGED tables /\ move' = move
    BY <1>8 DEF vars
  <2>2. TypeOK'
    BY <2>1, TablesStay DEF IInv, TypeOK
  <2>3. MovesAreProper'
    BY <2>1, TablesStay DEF IInv, MovesAreProper, UnderWay
  <2>4. MovesAreApart'
    BY <2>1, ApartStays DEF IInv
  <2> QED
    BY <2>1, <2>2, <2>3, <2>4, TablesStay DEF IInv
<1> QED
  BY <1>1, <1>2, <1>3, <1>4, <1>5, <1>6, <1>7, <1>8 DEF Next

THEOREM InvariantHolds == Spec => []IInv
<1>1. Init => IInv
  BY InitHolds
<1>2. IInv /\ [Next]_vars => IInv'
  BY NextKeeps
<1> QED
  BY <1>1, <1>2, PTL DEF Spec

(* Every row, residency, deed and transaction is one of its kind.          *)
THEOREM TypeCorrect == Spec => []TypeOK
<1>1. IInv => TypeOK
  BY DEF IInv
<1> QED
  BY <1>1, InvariantHolds, PTL

(* owedMembershipEvents: the register reads a person as a member exactly   *)
(* the days a tenant-ownership is held, unless one ended as it began.      *)
THEOREM RegisterTells == Spec => []RegisterTellsMembership
<1>1. ASSUME IInv, NEW p \in Persons PROVE SameDayStay(p) \/ ReadsAsHeld(p)
  <2> DEFINE stays == MemberStays(residency, p)
             rows == Events(p)
  <2>1. SameDayStay(p) <=> SameDay(stays)
    BY DEF SameDayStay, SameDay
  <2>2. /\ stays \subseteq Stay /\ rows \subseteq Row /\ Forward(stays)
        /\ writes \in Nat /\ \A e \in rows : e.at <= writes
    BY <1>1, MemberStaysAre, ForwardStays
       DEF IInv, TypeOK, TablesOK, StampsArePast, Events, Row
  <2>3. Dated(rows, stays) /\ (SameDay(stays) \/ InStep(rows, stays))
    BY <1>1 DEF IInv, Told
  <2>4. ReadsAsHeld(p) <=> \A day \in Days : MemberOn(rows, day) <=> Held(stays, day)
    BY DEF ReadsAsHeld
  <2> HIDE DEF rows, stays
  <2>5. ASSUME ~SameDay(stays), NEW day \in Days
        PROVE  MemberOn(rows, day) <=> Held(stays, day)
    BY <2>2, <2>3, <2>5, DaysAssumption, InStepReadsAsHeld
  <2> QED
    BY <2>1, <2>4, <2>5
<1>2. IInv => RegisterTellsMembership
  BY <1>1 DEF RegisterTellsMembership
<1> QED
  BY <1>2, InvariantHolds, PTL

(* apartmentOf: an exit names the day a tenant-ownership of the person     *)
(* ended, so the branch called unreachable is never taken.                 *)
THEOREM ExitsHaveMoveOuts == Spec => []AnExitHasItsMoveOut
<1>1. ASSUME IInv, NEW e \in register, e.eventType = "EXIT"
      PROVE  \E s \in MemberStays(residency, e.person) : s.movedOutOn = e.eventOn
  <2>1. e.person \in Persons /\ e \in Events(e.person)
    BY <1>1 DEF IInv, TypeOK, Row, Events
  <2> QED
    BY <1>1, <2>1 DEF IInv, Told, Dated
<1>2. IInv => AnExitHasItsMoveOut
  BY <1>1 DEF AnExitHasItsMoveOut
<1> QED
  BY <1>2, InvariantHolds, PTL

(* enterResidency and conflictsWith: nobody holds a day of an apartment    *)
(* twice.                                                                  *)
THEOREM NoDayTwice == Spec => []NoDayHeldTwice
<1>1. IInv => NoDayHeldTwice
  BY DEF IInv, TablesOK
<1> QED
  BY <1>1, InvariantHolds, PTL

(* recordTransfer: the seller of a deed holds the apartment as it is       *)
(* written, and an apartment is granted once.                              *)
THEOREM DeedsAreTrue == Spec => ADeedIsTrue
<1>1. ASSUME IInv, [Next]_vars, NEW t \in transfer' \ transfer
      PROVE  /\ SellerHeld(t.deed, residency')
             /\ t.deed.kind = "GRANT" => ~Granted(t.deed.apartment)
  <2>1. PICK m \in Moves : Commit(m)
    BY <1>1 DEF Next, vars, tables, MoveIn, Import, AskMoveOut, LockMoveOut, RollBack, Reconcile
  <2> DEFINE o == move[m]
  <2>2. /\ o \in Move /\ Proper(o) /\ o.deed # None /\ t.deed = o.deed
        /\ residency' = Changed(o)
    BY <1>1, <2>1 DEF IInv, TypeOK, Commit, Locked, UnderWay, MovesAreProper
  <2>3. CASE o.ends # None
    <3>1. MayRecord(o.deed, residency')
      BY <2>1, <2>2, <2>3 DEF Commit
    <3> QED
      BY <2>2, <3>1 DEF MayRecord
  <2>4. CASE o.ends = None
    <3>1. SellerHeld(o.deed, residency) /\ (o.deed.kind = "GRANT" => ~Granted(o.deed.apartment))
      BY <2>2, <2>4 DEF Proper, DeedStands
    <3>2. residency \subseteq residency'
      BY <1>1, <2>1, <2>4, CommitAddsOrEnds
    <3>3. SellerHeld(o.deed, residency')
      BY <3>1, <3>2 DEF SellerHeld, HeldByMember, MemberStays
    <3> QED
      BY <2>2, <3>1, <3>3
  <2> QED
    BY <2>3, <2>4
<1>2. IInv /\ [Next]_vars =>
        [\A t \in transfer' \ transfer :
            /\ SellerHeld(t.deed, residency')
            /\ t.deed.kind = "GRANT" => ~Granted(t.deed.apartment)]_vars
  BY <1>1
<1> QED
  BY <1>2, InvariantHolds, PTL DEF Spec, ADeedIsTrue

(* reconcile(): whatever the moves and chunks left of a person's rows, one *)
(* run leaves a membership open exactly the days one is held, and nothing  *)
(* for a second run to write.                                              *)
THEOREM ReconcilesOnce == Spec => ReconciledOnce
<1>1. ASSUME IInv, NEW p \in Persons, Reconcile(p)
      PROVE  (/\ OpenAsHeld(p)
              /\ Unreconciled(Events(p), MemberStays(residency, p)) = {})'
  <2> DEFINE stays == MemberStays(residency, p)
             rows == Events(p)
             new == RowsOf(p, Unreconciled(rows, stays), stays)
             after == rows \union new
  <2>1. /\ register' = register \union new /\ residency' = residency
    BY <1>1 DEF Reconcile
  <2>2. MemberStays(residency, p)' = stays /\ Events(p)' = after
    BY <2>1, EventsAre
  <2>3. /\ stays \subseteq Stay /\ Forward(stays) /\ rows \subseteq Row
        /\ writes \in Nat /\ \A e \in rows : e.at < writes
    BY <1>1, MemberStaysAre, ForwardStays
       DEF IInv, TypeOK, TablesOK, StampsArePast, Events, Row
  <2>4. Dated(rows, stays)
    BY <1>1 DEF IInv, Told
  <2>5. Unreconciled(rows, stays) \subseteq Ends(stays)
    BY <2>4 DEF Unreconciled, Dated
  <2>6. after \subseteq Row
    BY <2>3, <2>5, EndsAreDays, RowsAreRows
  <2>7. Mended(rows, after, new, stays, writes)
    BY <2>3, <2>4, <2>6, RowsSay DEF Mended
  <2>8. Unreconciled(after, stays) = {}
    BY <2>7, MendedIsReconciled
  <2>9. \A day \in Days : OpenOn(after, day) <=> Held(stays, day)
    BY <2>7, DaysAssumption, MendedIsOpenAsHeld
  <2>10. OpenAsHeld(p)'
    BY <2>2, <2>9 DEF OpenAsHeld
  <2> QED
    BY <2>2, <2>8, <2>10
<1>2. IInv /\ [Next]_vars =>
        [\A p \in Persons : Reconcile(p) =>
            (/\ OpenAsHeld(p)
             /\ Unreconciled(Events(p), MemberStays(residency, p)) = {})']_vars
  BY <1>1
<1> QED
  BY <1>2, InvariantHolds, PTL DEF Spec, ReconciledOnce
=============================================================================
