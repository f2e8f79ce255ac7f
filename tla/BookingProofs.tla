--------------------------- MODULE BookingProofs ---------------------------
(***************************************************************************)
(* Why no slot is booked twice, no quota is passed and no withdrawn        *)
(* resource is booked, for every number of claims, edits and               *)
(* cancellations, every schedule and every clock that keeps its midnights. *)
(*                                                                         *)
(* What a claim reads under a lock stays true until it ends, because       *)
(* whoever could change it waits for that lock: its apartment's count for  *)
(* the household, the resource's row for the board, the nights for other   *)
(* stays, the uncommitted row for the same slot.                           *)
(***************************************************************************)
EXTENDS Booking, SlotCatalogue, FiniteSetTheorems, SequenceTheorems, WellFoundedInduction, TLAPS

-----------------------------------------------------------------------------
(* What the slot engine answers, for every schedule and every clock that   *)
(* keeps its midnights.  The wall clock may read one time twice, so the    *)
(* argument goes through the readings: InstantAt is the first instant that *)
(* reads a time, hence times in order have instants in order, hence slots  *)
(* of two days lie apart, as those of one day do by the way they are cut.  *)
Times == 0..DayLength

-----------------------------------------------------------------------------
(* Days of DayLength minutes. *)
LEMMA DaysApart ==
  ASSUME NEW d \in Int, NEW e \in Int, d < e
  PROVE  d * DayLength + DayLength <= e * DayLength
<1>1. (e - d - 1) * DayLength \in Nat
  BY LengthAssumption
<1>2. (e - d - 1) * DayLength = e * DayLength - d * DayLength - DayLength
  BY LengthAssumption
<1> QED
  BY <1>1, <1>2, LengthAssumption

LEMMA DayOfMinute ==
  ASSUME NEW x \in Int
  PROVE  /\ x \div DayLength \in Int
         /\ (x \div DayLength) * DayLength <= x
         /\ x < (x \div DayLength) * DayLength + DayLength
BY LengthAssumption

LEMMA DayOfMinuteIs ==
  ASSUME NEW x \in Int, NEW d \in Int,
         d * DayLength <= x, x < d * DayLength + DayLength
  PROVE  x \div DayLength = d
<1> DEFINE e == x \div DayLength
<1>1. e \in Int /\ d * DayLength \in Int /\ e * DayLength \in Int
  BY LengthAssumption
<1>2. ~(e < d)
  BY <1>1, DaysApart, DayOfMinute, LengthAssumption
<1>3. ~(d < e)
  BY <1>1, DaysApart, DayOfMinute, LengthAssumption
<1> QED
  BY <1>1, <1>2, <1>3

LEMMA DayOfMinuteGrows ==
  ASSUME NEW x \in Int, NEW y \in Int, x <= y
  PROVE  x \div DayLength <= y \div DayLength
<1> DEFINE d == x \div DayLength
           e == y \div DayLength
<1>1. d \in Int /\ e \in Int /\ d * DayLength \in Int /\ e * DayLength \in Int
  BY LengthAssumption
<1>2. ~(e < d)
  BY <1>1, DaysApart, DayOfMinute, LengthAssumption
<1> QED
  BY <1>1, <1>2

-----------------------------------------------------------------------------
(* The minute since the first midnight that a time of a day is. *)
Reading(day, minute) == day * DayLength + minute

(* InstantAt looks for a reading with the offset of a day before and of a  *)
(* day after it. *)
FirstReading(zone, l) ==
    LET before == l - Offset(zone, l - DayLength)
        after  == l - Offset(zone, l + DayLength)
    IN  IF before + Offset(zone, before) = l THEN before
        ELSE IF after + Offset(zone, after) = l THEN after
        ELSE None

LEMMA ReadingIsInt ==
  ASSUME NEW day \in Int, NEW minute \in Int
  PROVE  Reading(day, minute) \in Int
BY LengthAssumption DEF Reading

LEMMA InstantAtIs ==
  ASSUME NEW zone, NEW day \in Int, NEW minute \in Times
  PROVE  InstantAt(zone, day, minute) = FirstReading(zone, Reading(day, minute))
<1> DEFINE shift == minute \div DayLength
           on == day + shift
           rest == minute - shift * DayLength
<1>1. shift \in Int /\ rest \in Int /\ minute \in Int
  BY LengthAssumption DEF Times
<1>2. on * DayLength + rest = Reading(day, minute)
  <2>1. (day + shift) * DayLength = day * DayLength + shift * DayLength
    BY <1>1, LengthAssumption
  <2> QED
    BY <1>1, <2>1, LengthAssumption DEF Reading
<1> HIDE DEF shift
<1> QED
  BY <1>2 DEF InstantAt, FirstReading, IsLocally, shift

LEMMA OffsetIs ==
  ASSUME NEW zone, KeepsMidnights(zone), NEW t \in Int
  PROVE  /\ Offset(zone, t) \in -DayLength..DayLength
         /\ t < zone.at => Offset(zone, t) = zone.before
         /\ t >= zone.at => Offset(zone, t) = zone.after
         /\ zone.at \in Int /\ zone.before \in -DayLength..DayLength
         /\ zone.after \in -DayLength..DayLength
BY LengthAssumption DEF KeepsMidnights, Offset

(* What InstantAt returns reads the time asked for ... *)
LEMMA InstantReads ==
  ASSUME NEW zone, KeepsMidnights(zone), NEW l \in Int,
         FirstReading(zone, l) # None
  PROVE  /\ FirstReading(zone, l) \in Int
         /\ FirstReading(zone, l) + Offset(zone, FirstReading(zone, l)) = l
<1>1. /\ l - Offset(zone, l - DayLength) \in Int
      /\ l - Offset(zone, l + DayLength) \in Int
  BY OffsetIs, LengthAssumption
<1> QED
  BY <1>1 DEF FirstReading

(* ... and is the first instant to read it, when there is one. *)
LEMMA InstantIsFirst ==
  ASSUME NEW zone, KeepsMidnights(zone), NEW u \in Int
  PROVE  LET l == u + Offset(zone, u)
         IN  FirstReading(zone, l) # None /\ FirstReading(zone, l) <= u
<1> DEFINE l == u + Offset(zone, u)
           v == l - Offset(zone, l - DayLength)
           w == l - Offset(zone, l + DayLength)
<1>1. l \in Int /\ v \in Int /\ w \in Int
  BY OffsetIs, LengthAssumption
<1>2. CASE v + Offset(zone, v) = l
  <2>1. FirstReading(zone, l) = v
    BY <1>2 DEF FirstReading
  <2>2. v <= u
    BY <1>1, <1>2, OffsetIs, LengthAssumption
  <2> QED
    BY <1>1, <2>1, <2>2, NoneAssumption
<1>3. CASE v + Offset(zone, v) # l
  <2>1. w = u
    BY <1>1, <1>3, OffsetIs, LengthAssumption
  <2>2. FirstReading(zone, l) = u
    BY <1>3, <2>1 DEF FirstReading
  <2> QED
    BY <2>2, NoneAssumption
<1> QED
  BY <1>2, <1>3

(* Times in order have instants in order. *)
LEMMA ReadingsKeepOrder ==
  ASSUME NEW zone, KeepsMidnights(zone), NEW l \in Int, NEW k \in Int, l <= k,
         FirstReading(zone, l) # None, FirstReading(zone, k) # None
  PROVE  FirstReading(zone, l) <= FirstReading(zone, k)
<1> DEFINE t == FirstReading(zone, l)
           u == FirstReading(zone, k)
<1>1. t \in Int /\ u \in Int /\ t + Offset(zone, t) = l /\ u + Offset(zone, u) = k
  BY InstantReads
<1> HIDE DEF t, u
<1> SUFFICES ASSUME u < t PROVE FALSE
  BY <1>1 DEF t, u
<1>2. u < zone.at /\ zone.at <= t
  BY <1>1, OffsetIs, LengthAssumption
<1> DEFINE s == l - zone.before
<1>3. s \in Int /\ s <= u /\ s + Offset(zone, s) = l
  BY <1>1, <1>2, OffsetIs, LengthAssumption
<1>4. t <= s
  BY <1>3, InstantIsFirst DEF t
<1> QED
  BY <1>1, <1>3, <1>4

-----------------------------------------------------------------------------
LEMMA DaysKeepOrder ==
  ASSUME NEW zone, KeepsMidnights(zone), NEW t \in Int, NEW u \in Int, t <= u
  PROVE  LocalDayOf(zone, t) <= LocalDayOf(zone, u)
<1>1. /\ t + Offset(zone, t) \in Int /\ u + Offset(zone, u) \in Int
      /\ LocalDayOf(zone, t) \in Int /\ LocalDayOf(zone, u) \in Int
  BY OffsetIs, LengthAssumption DEF LocalDayOf
<1>2. CASE t + Offset(zone, t) <= u + Offset(zone, u)
  BY <1>1, <1>2, DayOfMinuteGrows DEF LocalDayOf
<1>3. CASE ~(t + Offset(zone, t) <= u + Offset(zone, u))
  <2>1. t < zone.at /\ zone.at <= u /\ zone.before # zone.after
    BY <1>1, <1>3, OffsetIs, LengthAssumption
  <2>2. LocalDayOf(zone, zone.at - 1) = LocalDayOf(zone, zone.at)
    BY <2>1 DEF KeepsMidnights
  <2>3. /\ zone.at - 1 \in Int /\ zone.at \in Int
        /\ zone.at - 1 + Offset(zone, zone.at - 1) \in Int
        /\ zone.at + Offset(zone, zone.at) \in Int
        /\ t + Offset(zone, t) <= zone.at - 1 + Offset(zone, zone.at - 1)
        /\ zone.at + Offset(zone, zone.at) <= u + Offset(zone, u)
    BY <2>1, OffsetIs, LengthAssumption
  <2>4. /\ LocalDayOf(zone, t) <= LocalDayOf(zone, zone.at - 1)
        /\ LocalDayOf(zone, zone.at) <= LocalDayOf(zone, u)
    BY <1>1, <2>3, DayOfMinuteGrows DEF LocalDayOf
  <2>5. LocalDayOf(zone, zone.at) \in Int
    BY <2>3, LengthAssumption DEF LocalDayOf
  <2> QED
    BY <1>1, <2>2, <2>4, <2>5
<1> QED
  BY <1>2, <1>3

(* Every day has a first midnight, and the next day's is its end. *)
LEMMA MidnightIs ==
  ASSUME NEW zone, KeepsMidnights(zone), NEW day \in Int
  PROVE  FirstReading(zone, Reading(day, 0)) # None
<1> DEFINE l == Reading(day, 0)
<1>1. l \in Int /\ l = day * DayLength
  BY ReadingIsInt, LengthAssumption DEF Reading
<1> HIDE DEF l
<1>2. CASE l < zone.at + zone.before
  <2>1. l - zone.before \in Int /\ (l - zone.before) + Offset(zone, l - zone.before) = l
    BY <1>1, <1>2, OffsetIs, LengthAssumption
  <2> QED
    BY <2>1, InstantIsFirst DEF l
<1>3. CASE l >= zone.at + zone.after
  <2>1. l - zone.after \in Int /\ (l - zone.after) + Offset(zone, l - zone.after) = l
    BY <1>1, <1>3, OffsetIs, LengthAssumption
  <2> QED
    BY <2>1, InstantIsFirst DEF l
<1>4. CASE zone.at + zone.before <= l /\ l < zone.at + zone.after
  <2> DEFINE k == LocalDayOf(zone, zone.at)
             x == zone.at - 1 + zone.before
             y == zone.at + zone.after
  <2>1. x \in Int /\ y \in Int /\ zone.before # zone.after
    BY <1>1, <1>4, OffsetIs, LengthAssumption
  <2>2. k = y \div DayLength /\ k = x \div DayLength
    <3>1. Offset(zone, zone.at - 1) = zone.before /\ Offset(zone, zone.at) = zone.after
      BY OffsetIs, LengthAssumption
    <3> QED
      BY <2>1, <3>1 DEF KeepsMidnights, LocalDayOf
  <2>3. /\ k \in Int /\ k * DayLength \in Int
        /\ k * DayLength <= x /\ y < k * DayLength + DayLength
    BY <2>1, <2>2, DayOfMinute, LengthAssumption
  <2> HIDE DEF k
  <2>4. k < day => k * DayLength + DayLength <= l
    BY <1>1, <2>3, DaysApart
  <2>5. day < k => l + DayLength <= k * DayLength
    BY <1>1, <2>3, DaysApart
  <2>6. day = k => l = k * DayLength
    BY <1>1
  <2>7. x < l /\ l < y
    BY <1>1, <1>4, <2>1, OffsetIs, LengthAssumption
  <2> QED
    BY <1>1, <2>1, <2>3, <2>4, <2>5, <2>6, <2>7, LengthAssumption
<1> QED
  BY <1>1, <1>2, <1>3, <1>4, OffsetIs, LengthAssumption

LEMMA DayEndsAtMidnight ==
  ASSUME NEW day \in Int
  PROVE  Reading(day + 1, 0) = Reading(day, DayLength)
<1>1. (day + 1) * DayLength = day * DayLength + DayLength
  BY LengthAssumption
<1> QED
  BY <1>1, LengthAssumption DEF Reading

LEMMA DaysOfReadings ==
  ASSUME NEW d \in Int, NEW m \in Times, NEW e \in Int, NEW n \in Times, d < e
  PROVE  Reading(d, m) <= Reading(e, n) /\ (m < DayLength => Reading(d, m) < Reading(e, n))
<1>1. m \in 0..DayLength /\ n \in 0..DayLength
  BY DEF Times
<1>2. d * DayLength \in Int /\ e * DayLength \in Int
  BY LengthAssumption
<1> QED
  BY <1>1, <1>2, DaysApart, LengthAssumption DEF Reading

LEMMA DayOfReading ==
  ASSUME NEW zone, KeepsMidnights(zone), NEW day \in Int, NEW m \in Times, m < DayLength,
         NEW t, t = FirstReading(zone, Reading(day, m)), t # None
  PROVE  LocalDayOf(zone, t) = day
<1>1. Reading(day, m) \in Int /\ m \in 0..DayLength
  BY ReadingIsInt, LengthAssumption DEF Times
<1>2. t \in Int /\ t + Offset(zone, t) = Reading(day, m)
  BY <1>1, InstantReads
<1>3. day * DayLength \in Int
  BY LengthAssumption
<1> QED
  BY <1>1, <1>2, <1>3, DayOfMinuteIs, LengthAssumption DEF LocalDayOf, Reading

-----------------------------------------------------------------------------
(* The slots of one day, and the instants its times are read at. *)
SlotsOf(zone, s, day) ==
    IF s.mode = "TIME_SLOTS" THEN TimeSlots(zone, s, day) ELSE {WholeDay(zone, day)}

Instant(zone, day, m) == FirstReading(zone, Reading(day, m))

LEMMA SlotsOfDays ==
  ASSUME NEW zone, NEW s, NEW from, NEW to, NEW p
  PROVE  p \in GenerateSlots(zone, s, from, to)
           <=> \E day \in from..to : p \in SlotsOf(zone, s, day)
BY DEF GenerateSlots, SlotsOf

LEMMA BoundaryIs ==
  ASSUME NEW zone, NEW s, CheckResourceSchedule(s), s.mode = "TIME_SLOTS",
         NEW day \in Int, NEW t \in Boundaries(zone, s, day)
  PROVE  t # None /\ \E m \in Times : t = Instant(zone, day, m)
<1>1. /\ s.slotMinutes \in 1..DayLength /\ s.opensAt \in 0..(DayLength - 1)
      /\ s.closesAt \in 1..DayLength /\ s.opensAt < s.closesAt
  BY DEF CheckResourceSchedule
<1> DEFINE slots == (s.closesAt - s.opensAt) \div s.slotMinutes
<1>2. slots \in Int /\ slots * s.slotMinutes <= s.closesAt - s.opensAt
  BY <1>1, LengthAssumption
<1>3. PICK k \in 0..slots : t = InstantAt(zone, day, s.opensAt + k * s.slotMinutes) /\ t # None
  BY DEF Boundaries
<1> DEFINE m == s.opensAt + k * s.slotMinutes
<1>4. k * s.slotMinutes <= slots * s.slotMinutes /\ k * s.slotMinutes \in Nat
  BY <1>1, <1>2, LengthAssumption
<1>5. m \in Times
  BY <1>1, <1>2, <1>4, LengthAssumption DEF Times
<1> QED
  BY <1>3, <1>5, InstantAtIs DEF Instant

LEMMA InstantsKeepOrder ==
  ASSUME NEW zone, KeepsMidnights(zone), NEW d \in Int, NEW e \in Int,
         NEW m \in Times, NEW n \in Times,
         Instant(zone, d, m) # None, Instant(zone, e, n) # None
  PROVE  /\ Instant(zone, d, m) \in Int
         /\ Reading(d, m) <= Reading(e, n) => Instant(zone, d, m) <= Instant(zone, e, n)
         /\ Reading(d, m) < Reading(e, n) => Instant(zone, d, m) < Instant(zone, e, n)
<1>1. /\ Reading(d, m) \in Int /\ Reading(e, n) \in Int
  BY ReadingIsInt, LengthAssumption DEF Times
<1>2. /\ Instant(zone, d, m) \in Int /\ Instant(zone, e, n) \in Int
      /\ Instant(zone, d, m) = Instant(zone, e, n) => Reading(d, m) = Reading(e, n)
  BY <1>1, InstantReads DEF Instant
<1>3. Reading(d, m) <= Reading(e, n) => Instant(zone, d, m) <= Instant(zone, e, n)
  BY <1>1, ReadingsKeepOrder DEF Instant
<1> QED
  BY <1>1, <1>2, <1>3

LEMMA SlotIs ==
  ASSUME NEW zone, KeepsMidnights(zone), NEW s, CheckResourceSchedule(s),
         NEW day \in Int, NEW p \in SlotsOf(zone, s, day)
  PROVE  \E m, n \in Times :
           /\ m < n
           /\ Instant(zone, day, m) # None /\ Instant(zone, day, n) # None
           /\ p = Period(Instant(zone, day, m), Instant(zone, day, n))
<1> DEFINE I(m) == Instant(zone, day, m)
<1>1. CASE s.mode = "TIME_SLOTS"
  <2>1. PICK t, u \in Boundaries(zone, s, day) : u > t /\ p = Period(t, u)
    BY <1>1 DEF SlotsOf, TimeSlots
  <2>2. PICK m \in Times, n \in Times : t = I(m) /\ u = I(n) /\ t # None /\ u # None
    BY <1>1, <2>1, BoundaryIs
  <2>3. m < n
    <3>1. /\ m \in 0..DayLength /\ n \in 0..DayLength /\ day * DayLength \in Int
      BY LengthAssumption DEF Times
    <3>2. ~(Reading(day, n) <= Reading(day, m))
      BY <2>1, <2>2, InstantsKeepOrder
    <3> QED
      BY <3>1, <3>2, LengthAssumption DEF Reading
  <2> QED
    BY <2>1, <2>2, <2>3
<1>2. CASE s.mode # "TIME_SLOTS"
  <2>1. 0 \in Times /\ DayLength \in Times /\ 0 < DayLength
    BY LengthAssumption DEF Times
  <2>2. p = Period(I(0), I(DayLength))
    <3>1. InstantAt(zone, day, 0) = I(0)
      BY <2>1, InstantAtIs DEF Instant
    <3>2. InstantAt(zone, day + 1, 0) = I(DayLength)
      BY <2>1, InstantAtIs, DayEndsAtMidnight DEF Instant
    <3> QED
      BY <1>2, <3>1, <3>2 DEF SlotsOf, WholeDay
  <2>3. I(0) # None /\ I(DayLength) # None
    BY MidnightIs, DayEndsAtMidnight DEF Instant
  <2> QED
    BY <2>1, <2>2, <2>3
<1> QED
  BY <1>1, <1>2

LEMMA SlotsOfADay ==
  ASSUME NEW zone, KeepsMidnights(zone), NEW s, CheckResourceSchedule(s), NEW day \in Int,
         NEW p \in SlotsOf(zone, s, day), NEW q \in SlotsOf(zone, s, day)
  PROVE  /\ p.startsAt < q.startsAt => p.endsAt <= q.startsAt
         /\ p.startsAt = q.startsAt => p = q
<1>1. CASE s.mode = "TIME_SLOTS"
  <2> DEFINE B == Boundaries(zone, s, day)
  <2>1. B \subseteq Int
    <3> SUFFICES ASSUME NEW t \in B PROVE t \in Int
      OBVIOUS
    <3>1. t # None /\ \E m \in Times : t = Instant(zone, day, m)
      BY <1>1, BoundaryIs
    <3> QED
      BY <3>1, InstantsKeepOrder
  <2> HIDE DEF B
  <2>2. PICK t \in B, u \in B : /\ u > t /\ p = Period(t, u)
                              /\ \A v \in B : v > t => v >= u
    BY <1>1 DEF SlotsOf, TimeSlots, B
  <2>3. PICK x \in B, y \in B : /\ y > x /\ q = Period(x, y)
                              /\ \A v \in B : v > x => v >= y
    BY <1>1 DEF SlotsOf, TimeSlots, B
  <2>4. /\ p.startsAt = t /\ p.endsAt = u /\ q.startsAt = x
        /\ t \in Int /\ u \in Int /\ x \in Int /\ y \in Int
    BY <2>1, <2>2, <2>3 DEF Period
  <2>5. t = x => u = y
    BY <2>2, <2>3, <2>4
  <2> QED
    BY <2>2, <2>3, <2>4, <2>5
<1>2. CASE s.mode # "TIME_SLOTS"
  <2>1. p = q
    BY <1>2 DEF SlotsOf
  <2>2. p.startsAt \in Int
    BY SlotIs, InstantsKeepOrder DEF Period
  <2> QED
    BY <2>1, <2>2
<1> QED
  BY <1>1, <1>2

(* What is said of one slot: it begins on its day, and ends after that.    *)
LEMMA SlotHasADay ==
  ASSUME NEW zone, KeepsMidnights(zone), NEW s, CheckResourceSchedule(s),
         NEW day \in Int, NEW p \in SlotsOf(zone, s, day)
  PROVE  /\ p = Period(p.startsAt, p.endsAt)
         /\ p.startsAt \in Int /\ p.endsAt \in Int /\ p.startsAt < p.endsAt
         /\ LocalDayOf(zone, p.startsAt) = day
<1>1. PICK m \in Times, n \in Times :
        /\ m < n
        /\ Instant(zone, day, m) # None /\ Instant(zone, day, n) # None
        /\ p = Period(Instant(zone, day, m), Instant(zone, day, n))
  BY SlotIs
<1>2. p.startsAt = Instant(zone, day, m) /\ p.endsAt = Instant(zone, day, n)
  BY <1>1 DEF Period
<1>3. m < DayLength /\ Reading(day, m) < Reading(day, n)
  BY <1>1, LengthAssumption DEF Times, Reading
<1>4. p.startsAt \in Int /\ p.endsAt \in Int /\ p.startsAt < p.endsAt
  BY <1>1, <1>2, <1>3, InstantsKeepOrder
<1>5. LocalDayOf(zone, p.startsAt) = day
  BY <1>1, <1>2, <1>3, DayOfReading DEF Instant
<1> QED
  BY <1>1, <1>2, <1>4, <1>5

LEMMA SlotsOfTwoDays ==
  ASSUME NEW zone, KeepsMidnights(zone), NEW s, CheckResourceSchedule(s),
         NEW d \in Int, NEW e \in Int, d < e,
         NEW p \in SlotsOf(zone, s, d), NEW q \in SlotsOf(zone, s, e)
  PROVE  p.endsAt <= q.startsAt
<1>1. PICK m \in Times, n \in Times :
        /\ Instant(zone, d, n) # None
        /\ p = Period(Instant(zone, d, m), Instant(zone, d, n))
  BY SlotIs
<1>2. PICK x \in Times, y \in Times :
        /\ Instant(zone, e, x) # None
        /\ q = Period(Instant(zone, e, x), Instant(zone, e, y))
  BY SlotIs
<1>3. Reading(d, n) <= Reading(e, x)
  BY DaysOfReadings
<1> QED
  BY <1>1, <1>2, <1>3, InstantsKeepOrder DEF Period

(* slot-engine.ts, timeSlots and wholeDays: two slots a resource offers,   *)
(* of whatever days and however the clock shifts, lie one before the other *)
(* or are the same, so the start alone tells them apart.                   *)
THEOREM SlotsLieApart ==
  ASSUME NEW zone, KeepsMidnights(zone), NEW s, CheckResourceSchedule(s),
         NEW from \in Int, NEW to \in Int,
         NEW p \in GenerateSlots(zone, s, from, to),
         NEW q \in GenerateSlots(zone, s, from, to), p # q
  PROVE  p.startsAt # q.startsAt /\ ~Overlap(p, q)
<1>1. PICK d \in Int, e \in Int : p \in SlotsOf(zone, s, d) /\ q \in SlotsOf(zone, s, e)
  BY SlotsOfDays
<1>2. /\ p.startsAt \in Int /\ p.endsAt \in Int /\ p.startsAt < p.endsAt
      /\ q.startsAt \in Int /\ q.endsAt \in Int /\ q.startsAt < q.endsAt
  BY <1>1, SlotHasADay
<1>3. d < e => p.endsAt <= q.startsAt
  BY <1>1, SlotsOfTwoDays
<1>4. e < d => q.endsAt <= p.startsAt
  BY <1>1, SlotsOfTwoDays
<1>5. d = e => /\ p.startsAt < q.startsAt => p.endsAt <= q.startsAt
               /\ q.startsAt < p.startsAt => q.endsAt <= p.startsAt
               /\ p.startsAt # q.startsAt
  BY <1>1, SlotsOfADay
<1> QED
  BY <1>2, <1>3, <1>4, <1>5 DEF Overlap

-----------------------------------------------------------------------------
(* What a request is answered with: the slot that starts when it says, or  *)
(* for a stay the period it states, ending with a later night.  Asked for  *)
(* again by its own start and end it is the same.                          *)
LEMMA PeriodForIsKept ==
  ASSUME NEW zone, KeepsMidnights(zone), NEW s, CheckResourceSchedule(s),
         NEW a \in Int, NEW b \in Int \union {None},
         NEW p, p = PeriodFor(zone, s, a, b), p # None
  PROVE  /\ p = Period(a, p.endsAt) /\ p.startsAt = a
         /\ p.endsAt \in Int /\ a < p.endsAt
         /\ b # None => p.endsAt = b
         /\ s.mode # "DATE_RANGE" => p \in SlotsOf(zone, s, LocalDayOf(zone, a))
         /\ PeriodFor(zone, s, p.startsAt, p.endsAt) = p
<1> DEFINE from  == LocalDayOf(zone, a) - 1
           to    == from + IF s.mode = "DATE_RANGE" THEN MaxNights + 2 ELSE 2
           firsts == {q \in GenerateSlots(zone, s, from, to) : q.startsAt = a}
           first == CHOOSE q \in firsts : TRUE
           night == LocalDayOf(zone, a)
           answer(x) == IF x = None THEN first
                        ELSE IF s.mode # "DATE_RANGE"
                             THEN IF first.endsAt = x THEN first ELSE None
                             ELSE IF StayEnds(zone, night, x, to)
                                  THEN Period(a, x) ELSE None
<1>1. \A x : PeriodFor(zone, s, a, x) = IF firsts = {} THEN None ELSE answer(x)
  BY DEF PeriodFor
<1>2. night \in Int /\ from \in Int /\ to \in Int /\ night <= to
  <2>1. a + Offset(zone, a) \in Int
    BY OffsetIs, LengthAssumption
  <2> QED
    BY <2>1, LengthAssumption DEF LocalDayOf
<1>3. firsts # {} /\ p = answer(b)
  <2> HIDE DEF firsts, answer
  <2>1. PeriodFor(zone, s, a, b) = IF firsts = {} THEN None ELSE answer(b)
    BY <1>1
  <2> QED
    BY <2>1
<1>4. first \in firsts
  BY <1>3
<1> HIDE DEF first
<1>5. PICK day \in Int : first \in SlotsOf(zone, s, day)
  BY <1>2, <1>4, SlotsOfDays
<1>6. /\ first = Period(a, first.endsAt) /\ first.startsAt = a
      /\ first.endsAt \in Int /\ a < first.endsAt /\ day = night
  BY <1>4, <1>5, SlotHasADay
<1>7. p = first \/ (s.mode = "DATE_RANGE" /\ b # None /\ StayEnds(zone, night, b, to) /\ p = Period(a, b))
  BY <1>3
<1>8. CASE p = first
  <2>1. PeriodFor(zone, s, a, first.endsAt) = answer(first.endsAt)
    BY <1>1, <1>3
  <2>2. first.endsAt # None
    BY <1>6, NoneAssumption
  <2>3. s.mode = "DATE_RANGE" => StayEnds(zone, night, first.endsAt, to)
    <3> SUFFICES ASSUME s.mode = "DATE_RANGE" PROVE StayEnds(zone, night, first.endsAt, to)
      OBVIOUS
    <3>1. first = WholeDay(zone, night)
      BY <1>5, <1>6 DEF SlotsOf
    <3>2. 0 \in 0..(MaxNights - 1) /\ night + 0 = night
      BY <1>2, LengthAssumption
    <3> QED
      BY <1>2, <3>1, <3>2 DEF StayEnds
  <2>4. answer(first.endsAt) = first
    BY <1>6, <2>2, <2>3
  <2>5. b # None => p.endsAt = b
    <3>1. CASE s.mode # "DATE_RANGE"
      BY <1>3, <1>6, <3>1, NoneAssumption
    <3>2. CASE s.mode = "DATE_RANGE"
      BY <1>3, <1>6, <3>2, NoneAssumption DEF Period
    <3> QED
      BY <3>1, <3>2
  <2> QED
    BY <1>5, <1>6, <1>8, <2>1, <2>4, <2>5
<1>9. CASE s.mode = "DATE_RANGE" /\ b # None /\ StayEnds(zone, night, b, to) /\ p = Period(a, b)
  <2>1. p.startsAt = a /\ p.endsAt = b
    BY <1>9 DEF Period
  <2>2. PICK n \in 0..(MaxNights - 1) : WholeDay(zone, night + n).endsAt = b
    BY <1>9 DEF StayEnds
  <2>3. night + n \in Int /\ n \in Nat
    BY <1>2, LengthAssumption
  <2>4. WholeDay(zone, night + n) \in SlotsOf(zone, s, night + n)
    BY <1>9 DEF SlotsOf
  <2>5. first.startsAt <= WholeDay(zone, night + n).startsAt
    <3>1. CASE n = 0
      <4>1. night + n = night
        BY <1>2, <3>1
      <4>2. first = WholeDay(zone, night + n)
        BY <1>5, <1>6, <1>9, <4>1 DEF SlotsOf
      <4> QED
        BY <1>6, <4>2
    <3>2. CASE n # 0
      <4>1. night < night + n
        BY <1>2, <2>3, <3>2
      <4>2. first.endsAt <= WholeDay(zone, night + n).startsAt
        BY <1>2, <1>5, <1>6, <2>3, <2>4, <4>1, SlotsOfTwoDays
      <4>3. WholeDay(zone, night + n).startsAt \in Int
        BY <2>3, <2>4, SlotHasADay
      <4> QED
        BY <1>6, <4>2, <4>3
    <3> QED
      BY <3>1, <3>2
  <2>6. b \in Int /\ a < b
    <3>1. /\ WholeDay(zone, night + n).startsAt \in Int
          /\ WholeDay(zone, night + n).startsAt < WholeDay(zone, night + n).endsAt
          /\ WholeDay(zone, night + n).endsAt \in Int
      BY <2>3, <2>4, SlotHasADay
    <3> QED
      BY <1>6, <2>2, <2>5, <3>1
  <2> QED
    BY <1>9, <2>1, <2>6
<1> QED
  BY <1>7, <1>8, <1>9

LEMMA PeriodForIs ==
  ASSUME NEW zone, KeepsMidnights(zone), NEW s, CheckResourceSchedule(s),
         NEW a \in Int, NEW b \in Int \union {None},
         NEW p, p = PeriodFor(zone, s, a, b), p # None
  PROVE  /\ p = Period(a, p.endsAt) /\ p.startsAt = a
         /\ p.endsAt \in Int /\ a < p.endsAt
         /\ b # None => p.endsAt = b
         /\ s.mode # "DATE_RANGE" => p \in SlotsOf(zone, s, LocalDayOf(zone, a))
BY PeriodForIsKept

(* The answers of one schedule by the slot: two that start apart lie apart. *)
LEMMA AnswersLieApart ==
  ASSUME NEW zone, KeepsMidnights(zone), NEW s, CheckResourceSchedule(s),
         s.mode # "DATE_RANGE",
         NEW a \in Int, NEW b \in Int \union {None}, NEW c \in Int, NEW d \in Int \union {None},
         NEW p, p = PeriodFor(zone, s, a, b), p # None,
         NEW q, q = PeriodFor(zone, s, c, d), q # None, a # c
  PROVE  ~Overlap(p, q)
<1> DEFINE x == LocalDayOf(zone, a)
           y == LocalDayOf(zone, c)
<1>1. /\ p \in SlotsOf(zone, s, x) /\ p.startsAt = a
      /\ q \in SlotsOf(zone, s, y) /\ q.startsAt = c
  BY PeriodForIs
<1>2. x \in Int /\ y \in Int
  BY OffsetIs, LengthAssumption DEF LocalDayOf
<1>3. PICK from \in Int, to \in Int : x \in from..to /\ y \in from..to
  <2>1. CASE x <= y
    BY <1>2, <2>1
  <2>2. CASE y <= x
    BY <1>2, <2>2
  <2> QED
    BY <1>2, <2>1, <2>2
<1>4. p \in GenerateSlots(zone, s, from, to) /\ q \in GenerateSlots(zone, s, from, to)
  BY <1>1, <1>3, SlotsOfDays
<1> QED
  BY <1>1, <1>4, SlotsLieApart

-----------------------------------------------------------------------------
(* A set of numbers that is not empty has a least. *)
LEMMA LeastIs ==
  ASSUME NEW S \in SUBSET Nat, S # {}
  PROVE  \E x \in S : \A y \in S : x <= y
<1>1. PICK R : R = OpToRel(<, Nat)
  OBVIOUS
<1>2. IsWellFoundedOn(R, Nat)
  BY <1>1, NatLessThanWellFounded
<1>3. PICK x \in S : \A y \in S : ~(<<y, x>> \in R)
  BY <1>2, WFMin
<1>4. \A y \in S : y < x => <<y, x>> \in R
  BY <1>1 DEF OpToRel
<1>5. \A y \in S : ~(y < x)
  BY <1>3, <1>4
<1>6. \A y \in S : y \in Nat /\ x \in Nat
  OBVIOUS
<1> QED
  BY <1>5, <1>6

(* Of whole numbers some of which are at most t and some above it, one is  *)
(* the last up to t and one the first after it.                            *)
LEMMA NeighboursAre ==
  ASSUME NEW B \in SUBSET Int, NEW t \in Int,
         NEW b \in B, b <= t, \A v \in B : b <= v,
         NEW c \in B, t < c
  PROVE  \E x, y \in B : /\ x <= t /\ t < y
                         /\ \A v \in B : v > x => v >= y
<1>1. PICK y \in B : t < y /\ \A v \in B : t < v => y <= v
  <2>1. PICK S : S = {v - t : v \in {u \in B : t < u}}
    OBVIOUS
  <2>2. S \in SUBSET Nat /\ S # {}
    BY <2>1
  <2>3. PICK m \in S : \A n \in S : m <= n
    BY <2>2, LeastIs
  <2>4. PICK y \in B : t < y /\ m = y - t
    BY <2>1, <2>3
  <2>5. \A v \in B : t < v => y - t <= v - t
    BY <2>1, <2>3, <2>4
  <2> QED
    BY <2>4, <2>5
<1>2. PICK x \in B : x <= t /\ \A v \in B : v <= t => v <= x
  <2>1. PICK S : S = {t - v : v \in {u \in B : u <= t}}
    OBVIOUS
  <2>2. S \in SUBSET Nat /\ S # {}
    BY <2>1
  <2>3. PICK m \in S : \A n \in S : m <= n
    BY <2>2, LeastIs
  <2>4. PICK x \in B : x <= t /\ m = t - x
    BY <2>1, <2>3
  <2>5. \A v \in B : v <= t => t - x <= t - v
    BY <2>1, <2>3, <2>4
  <2> QED
    BY <2>4, <2>5
<1>3. \A v \in B : v > x => v >= y
  BY <1>1, <1>2
<1> QED
  BY <1>1, <1>2, <1>3

(* A day's boundaries lie between its opening and its closing, and are     *)
(* these two where the clock reads them.                                   *)
LEMMA BoundariesLie ==
  ASSUME NEW zone, KeepsMidnights(zone), NEW s, CheckResourceSchedule(s),
         s.mode = "TIME_SLOTS", NEW day \in Int,
         NEW opens, opens = InstantAt(zone, day, s.opensAt), opens # None,
         NEW closes, closes = InstantAt(zone, day, s.closesAt), closes # None
  PROVE  /\ Boundaries(zone, s, day) \in SUBSET Int
         /\ opens \in Boundaries(zone, s, day) /\ closes \in Boundaries(zone, s, day)
         /\ \A t \in Boundaries(zone, s, day) : opens <= t /\ t <= closes
<1>1. /\ s.slotMinutes \in 1..DayLength /\ s.opensAt \in 0..(DayLength - 1)
      /\ s.closesAt \in 1..DayLength /\ s.opensAt < s.closesAt
      /\ (s.closesAt - s.opensAt) % s.slotMinutes = 0
  BY DEF CheckResourceSchedule
<1>2. PICK a \in Times, c \in Times, l \in 1..DayLength :
        a = s.opensAt /\ c = s.closesAt /\ l = s.slotMinutes
  BY <1>1, LengthAssumption DEF Times
<1>3. a \in Nat /\ c \in Nat /\ l \in Nat \ {0} /\ a < c
  BY <1>1, <1>2, LengthAssumption DEF Times
<1>4. PICK n \in Nat : n = (c - a) \div l /\ n * l = c - a
  <2>1. (c - a) % l = 0
    BY <1>1, <1>2
  <2> QED
    BY <1>3, <2>1
<1>5. Boundaries(zone, s, day) = {InstantAt(zone, day, a + k * l) : k \in 0..n} \ {None}
  BY <1>2, <1>4 DEF Boundaries
<1>6. ASSUME NEW k \in 0..n
      PROVE  /\ a + k * l \in Times /\ a <= a + k * l /\ a + k * l <= c
  <2>1. PICK x \in Nat : x = k * l
    BY <1>3
  <2>2. x <= n * l
    BY <1>3, <1>4, <2>1
  <2>3. x <= c - a
    BY <1>4, <2>2
  <2>4. c \in 0..DayLength
    BY DEF Times
  <2>5. a + x \in 0..DayLength /\ a <= a + x /\ a + x <= c
    BY <1>3, <2>3, <2>4, LengthAssumption
  <2> QED
    BY <2>1, <2>5 DEF Times
<1>7. /\ opens = Instant(zone, day, a) /\ closes = Instant(zone, day, c)
      /\ opens \in Int /\ closes \in Int
  BY <1>2, InstantAtIs, InstantsKeepOrder DEF Instant
<1>8. ASSUME NEW t \in Boundaries(zone, s, day)
      PROVE  t \in Int /\ opens <= t /\ t <= closes
  <2>1. PICK k \in 0..n : t = InstantAt(zone, day, a + k * l) /\ t # None
    BY <1>5
  <2>2. PICK m \in Times : m = a + k * l /\ a <= m /\ m <= c
    BY <1>6
  <2>3. t = Instant(zone, day, m)
    BY <2>1, <2>2, InstantAtIs DEF Instant
  <2>4. Reading(day, a) <= Reading(day, m) /\ Reading(day, m) <= Reading(day, c)
    <3>1. PICK d \in Int : d = day * DayLength
      BY LengthAssumption
    <3>2. m \in Int
      BY LengthAssumption DEF Times
    <3> QED
      BY <1>3, <2>2, <3>1, <3>2 DEF Reading
  <2> QED
    BY <1>7, <2>1, <2>3, <2>4, InstantsKeepOrder
<1>9. opens \in Boundaries(zone, s, day)
  <2>1. 0 \in 0..n /\ a + 0 * l = a
    BY <1>3, <1>4
  <2>2. InstantAt(zone, day, a + 0 * l) = opens
    BY <1>2, <2>1
  <2> QED
    BY <1>5, <2>1, <2>2
<1>10. closes \in Boundaries(zone, s, day)
  <2>1. n \in 0..n /\ a + n * l = c
    BY <1>3, <1>4
  <2>2. InstantAt(zone, day, a + n * l) = closes
    BY <1>2, <2>1
  <2> QED
    BY <1>5, <2>1, <2>2
<1> QED
  BY <1>8, <1>9, <1>10

(* timeSlots, wholeDays: every moment from opening to closing lies in one  *)
(* slot of the day and no other moment in any, where the clock reads both. *)
LEMMA MomentsLieInSlots ==
  ASSUME NEW zone, KeepsMidnights(zone), NEW s, CheckResourceSchedule(s), NEW day \in Int,
         NEW opens, opens = InstantAt(zone, day, IF s.mode = "TIME_SLOTS" THEN s.opensAt ELSE 0),
         opens # None,
         NEW closes, closes = InstantAt(zone, day, IF s.mode = "TIME_SLOTS" THEN s.closesAt
                                                   ELSE DayLength),
         closes # None,
         NEW t \in Int
  PROVE  /\ opens \in Int /\ closes \in Int
         /\ \A p \in SlotsOf(zone, s, day) : opens <= p.startsAt /\ p.endsAt <= closes
         /\ opens <= t /\ t < closes
            => \E p \in SlotsOf(zone, s, day) : p.startsAt <= t /\ t < p.endsAt
<1>1. CASE s.mode = "TIME_SLOTS"
  <2>1. PICK B \in SUBSET Int : B = Boundaries(zone, s, day)
    BY <1>1, BoundariesLie
  <2>2. opens \in B /\ closes \in B /\ \A u \in B : opens <= u /\ u <= closes
    BY <1>1, <2>1, BoundariesLie
  <2>3. \A p \in SlotsOf(zone, s, day) : opens <= p.startsAt /\ p.endsAt <= closes
    BY <1>1, <2>1, <2>2 DEF SlotsOf, TimeSlots, Period
  <2>4. ASSUME opens <= t, t < closes
        PROVE  \E p \in SlotsOf(zone, s, day) : p.startsAt <= t /\ t < p.endsAt
    <3>1. PICK x \in B, y \in B : x <= t /\ t < y /\ \A v \in B : v > x => v >= y
      BY <2>2, <2>4, NeighboursAre
    <3>2. y > x
      BY <3>1
    <3>3. Period(x, y) \in TimeSlots(zone, s, day)
      BY <2>1, <3>1, <3>2 DEF TimeSlots
    <3>4. Period(x, y).startsAt = x /\ Period(x, y).endsAt = y
      BY DEF Period
    <3> QED
      BY <1>1, <3>1, <3>3, <3>4 DEF SlotsOf
  <2> QED
    BY <2>2, <2>3, <2>4
<1>2. CASE s.mode # "TIME_SLOTS"
  <2>1. 0 \in Times /\ DayLength \in Times
    BY LengthAssumption DEF Times
  <2>2. /\ opens = Instant(zone, day, 0) /\ closes = Instant(zone, day, DayLength)
        /\ opens = InstantAt(zone, day, 0) /\ closes = InstantAt(zone, day + 1, 0)
    BY <1>2, <2>1, InstantAtIs, DayEndsAtMidnight DEF Instant
  <2>3. opens \in Int /\ closes \in Int
    BY <2>1, <2>2, InstantsKeepOrder
  <2>4. SlotsOf(zone, s, day) = {Period(opens, closes)}
    BY <1>2, <2>2 DEF SlotsOf, WholeDay
  <2>5. Period(opens, closes).startsAt = opens /\ Period(opens, closes).endsAt = closes
    BY DEF Period
  <2> QED
    BY <2>3, <2>4, <2>5
<1> QED
  BY <1>1, <1>2

(* periodFor, by the one slot q of a night that starts when a request says.*)
AnswerFrom(q, zone, s, a, b, night) ==
    IF b = None THEN q
    ELSE IF s.mode # "DATE_RANGE" THEN IF q.endsAt = b THEN q ELSE None
    ELSE IF StayEnds(zone, night, b, night - 1 + (MaxNights + 2)) THEN Period(a, b)
    ELSE None

LEMMA PeriodForStarts ==
  ASSUME NEW zone, KeepsMidnights(zone), NEW s, CheckResourceSchedule(s),
         NEW a \in Int, NEW b,
         NEW night, night = LocalDayOf(zone, a),
         NEW q \in SlotsOf(zone, s, night), q.startsAt = a
  PROVE  PeriodFor(zone, s, a, b) = AnswerFrom(q, zone, s, a, b, night)
<1> DEFINE from  == night - 1
           to    == from + IF s.mode = "DATE_RANGE" THEN MaxNights + 2 ELSE 2
           firsts == {p \in GenerateSlots(zone, s, from, to) : p.startsAt = a}
           first == CHOOSE p \in firsts : TRUE
<1>1. night \in Int /\ from \in Int /\ to \in Int /\ night \in from..to
  <2>1. a + Offset(zone, a) \in Int
    BY OffsetIs, LengthAssumption
  <2>2. night \in Int
    BY <2>1, LengthAssumption DEF LocalDayOf
  <2> QED
    BY <2>2, LengthAssumption
<1> DEFINE answer == IF firsts = {} THEN None
                     ELSE IF b = None THEN first
                     ELSE IF s.mode # "DATE_RANGE"
                          THEN IF first.endsAt = b THEN first ELSE None
                          ELSE IF StayEnds(zone, night, b, to) THEN Period(a, b) ELSE None
<1>2. PeriodFor(zone, s, a, b) = answer
  BY DEF PeriodFor
<1>3. q \in firsts
  BY <1>1, SlotsOfDays
<1>4. \A p \in firsts : p = q
  BY <1>1, <1>3, SlotsLieApart
<1>5. first = q /\ firsts # {}
  BY <1>3, <1>4
<1>6. s.mode = "DATE_RANGE" => to = night - 1 + (MaxNights + 2)
  OBVIOUS
<1> HIDE DEF firsts, first, to
<1> QED
  BY <1>2, <1>5, <1>6 DEF AnswerFrom

LEMMA PeriodForFinds ==
  ASSUME NEW zone, KeepsMidnights(zone), NEW s, CheckResourceSchedule(s),
         NEW a \in Int, NEW b, PeriodFor(zone, s, a, b) # None,
         NEW night, night = LocalDayOf(zone, a)
  PROVE  \E q \in SlotsOf(zone, s, night) : q.startsAt = a
<1> DEFINE from  == night - 1
           to    == from + IF s.mode = "DATE_RANGE" THEN MaxNights + 2 ELSE 2
           firsts == {p \in GenerateSlots(zone, s, from, to) : p.startsAt = a}
<1>1. from \in Int /\ to \in Int
  <2>1. a + Offset(zone, a) \in Int
    BY OffsetIs, LengthAssumption
  <2> QED
    BY <2>1, LengthAssumption DEF LocalDayOf
<1>2. firsts # {}
  BY DEF PeriodFor
<1>3. PICK q : q \in GenerateSlots(zone, s, from, to) /\ q.startsAt = a
  BY <1>2
<1>4. PICK day \in Int : q \in SlotsOf(zone, s, day)
  BY <1>1, <1>3, SlotsOfDays
<1>5. day = night
  BY <1>3, <1>4, SlotHasADay
<1> QED
  BY <1>3, <1>4, <1>5

(* periodFor, wholly: a slot a request names exactly, or a stay of at most *)
(* so many nights from one local midnight to another, and nothing else.    *)
Midnight(zone, day) == InstantAt(zone, day, 0)
StaysOffered(zone, from, to) ==
    {Period(Midnight(zone, d), Midnight(zone, d + n)) : d \in from..to, n \in 1..MaxNights}

Names(a, b, p, zone, s, from, to) ==
    /\ p \in IF s.mode = "DATE_RANGE" THEN StaysOffered(zone, from, to)
             ELSE GenerateSlots(zone, s, from, to)
    /\ p.startsAt = a
    /\ b = None => p \in GenerateSlots(zone, s, from, to)
    /\ b # None => p.endsAt = b

LEMMA PeriodForOffers ==
  ASSUME NEW zone, KeepsMidnights(zone), NEW s, CheckResourceSchedule(s),
         NEW a \in Int, NEW b \in Int \union {None},
         NEW from \in Int, NEW to \in Int, LocalDayOf(zone, a) \in from..to,
         NEW p
  PROVE  p = PeriodFor(zone, s, a, b) /\ p # None
         <=> Names(a, b, p, zone, s, from, to)
<1>1. PICK night \in from..to : night = LocalDayOf(zone, a)
  OBVIOUS
<1> DEFINE offered == GenerateSlots(zone, s, from, to)
           last == night - 1 + (MaxNights + 2)
<1>2. night \in Int
  BY <1>1
<1>3. ASSUME p \in offered, p.startsAt = a
      PROVE  p \in SlotsOf(zone, s, night)
  <2>1. PICK day \in Int : p \in SlotsOf(zone, s, day)
    BY <1>3, SlotsOfDays
  <2> QED
    BY <1>1, <1>3, <2>1, SlotHasADay
<1>4. ASSUME p \in SlotsOf(zone, s, night)
      PROVE  p \in offered /\ p # None
  <2>1. p \in offered
    BY <1>1, <1>4, SlotsOfDays
  <2>2. p \in [startsAt : Int, endsAt : Int]
    BY <1>2, <1>4, SlotHasADay DEF Period
  <2> QED
    BY <2>1, <2>2, NoneAssumption
<1> HIDE DEF offered
<1>5. CASE s.mode # "DATE_RANGE"
  <2>1. ASSUME p = PeriodFor(zone, s, a, b), p # None
        PROVE  p \in offered /\ p.startsAt = a /\ (b # None => p.endsAt = b)
    <3>1. /\ p.startsAt = a /\ (b # None => p.endsAt = b)
          /\ p \in SlotsOf(zone, s, LocalDayOf(zone, a))
      BY <1>5, <2>1, PeriodForIs
    <3> QED
      BY <1>1, <1>4, <3>1
  <2>2. ASSUME p \in offered, p.startsAt = a, b # None => p.endsAt = b
        PROVE  p = PeriodFor(zone, s, a, b) /\ p # None
    <3>1. p \in SlotsOf(zone, s, night) /\ p # None
      BY <1>3, <1>4, <2>2
    <3>2. PeriodFor(zone, s, a, b) = AnswerFrom(p, zone, s, a, b, night)
      BY <1>1, <2>2, <3>1, PeriodForStarts
    <3> QED
      BY <1>5, <2>2, <3>1, <3>2 DEF AnswerFrom
  <2> QED
    BY <1>5, <2>1, <2>2 DEF offered, Names
<1>6. CASE s.mode = "DATE_RANGE"
  <2>1. \A d : SlotsOf(zone, s, d) = {WholeDay(zone, d)}
    BY <1>6 DEF SlotsOf
  <2>2. \A d : WholeDay(zone, d) = Period(Midnight(zone, d), Midnight(zone, d + 1))
    BY DEF WholeDay, Midnight
  <2>3. \A x, y : Period(x, y).startsAt = x /\ Period(x, y).endsAt = y
    BY DEF Period
  <2>4. \A d \in Int : Midnight(zone, d) \in Int
    BY <2>1, <2>2, <2>3, SlotHasADay
  <2>5. ASSUME p = PeriodFor(zone, s, a, b), p # None
        PROVE  /\ p \in StaysOffered(zone, from, to) /\ p.startsAt = a
               /\ b = None => p \in offered
               /\ b # None => p.endsAt = b
    <3>1. PICK q \in SlotsOf(zone, s, night) : q.startsAt = a
      BY <1>1, <2>5, PeriodForFinds
    <3>2. q = Period(Midnight(zone, night), Midnight(zone, night + 1)) /\ Midnight(zone, night) = a
      BY <2>1, <2>2, <2>3, <3>1
    <3>3. p = IF b = None THEN q
              ELSE IF StayEnds(zone, night, b, last) THEN Period(a, b) ELSE None
      BY <1>1, <1>6, <2>5, <3>1, PeriodForStarts DEF AnswerFrom
    <3>4. CASE b = None
      <4>1. p = q /\ p \in offered
        BY <1>4, <3>1, <3>3, <3>4
      <4>2. 1 \in 1..MaxNights
        BY LengthAssumption
      <4>3. p \in StaysOffered(zone, from, to)
        BY <1>1, <3>2, <4>1, <4>2 DEF StaysOffered
      <4> QED
        BY <3>1, <3>4, <4>1, <4>3
    <3>5. CASE b # None
      <4>1. StayEnds(zone, night, b, last) /\ p = Period(a, b)
        BY <2>5, <3>3, <3>5
      <4>2. PICK n \in 0..(MaxNights - 1) : WholeDay(zone, night + n).endsAt = b
        BY <4>1 DEF StayEnds
      <4>3. PICK k \in 1..MaxNights : k = n + 1
        BY LengthAssumption
      <4>4. night + n + 1 = night + k
        BY <1>2, <4>3
      <4>5. b = Midnight(zone, night + k)
        BY <2>2, <2>3, <4>2, <4>4
      <4>6. p \in StaysOffered(zone, from, to)
        BY <1>1, <3>2, <4>1, <4>5 DEF StaysOffered
      <4> QED
        BY <2>3, <3>5, <4>1, <4>6
    <3> QED
      BY <3>4, <3>5
  <2>6. ASSUME p \in StaysOffered(zone, from, to), p.startsAt = a,
               b = None => p \in offered, b # None => p.endsAt = b
        PROVE  p = PeriodFor(zone, s, a, b) /\ p # None
    <3>1. PICK d \in from..to, k \in 1..MaxNights :
            p = Period(Midnight(zone, d), Midnight(zone, d + k))
      BY <2>6 DEF StaysOffered
    <3>2. d \in Int /\ Midnight(zone, d) = a /\ p = Period(a, p.endsAt)
      BY <2>3, <2>6, <3>1
    <3>3. PICK q : q = WholeDay(zone, d)
      OBVIOUS
    <3>4. q \in SlotsOf(zone, s, d) /\ q.startsAt = a
      BY <2>1, <2>2, <2>3, <3>2, <3>3
    <3>5. d = night
      BY <1>1, <3>2, <3>4, SlotHasADay
    <3>6. PeriodFor(zone, s, a, b) =
            IF b = None THEN q
            ELSE IF StayEnds(zone, night, b, last) THEN Period(a, b) ELSE None
      BY <1>1, <1>6, <3>4, <3>5, PeriodForStarts DEF AnswerFrom
    <3>7. CASE b = None
      <4>1. p \in SlotsOf(zone, s, night)
        BY <1>3, <2>6, <3>7
      <4> QED
        BY <1>4, <2>1, <3>3, <3>5, <3>6, <3>7, <4>1
    <3>8. CASE b # None
      <4>1. PICK n \in 0..(MaxNights - 1) : n = k - 1
        BY LengthAssumption
      <4>2. d + n + 1 = d + k /\ night + n <= last
        BY <3>2, <3>5, <4>1, LengthAssumption
      <4>3. b = Midnight(zone, d + k)
        BY <2>3, <2>6, <3>1, <3>8
      <4>4. WholeDay(zone, night + n).endsAt = b
        BY <2>2, <2>3, <3>5, <4>2, <4>3
      <4>5. StayEnds(zone, night, b, last)
        BY <4>2, <4>4 DEF StayEnds
      <4>6. p = Period(a, b)
        BY <2>6, <3>2, <3>8
      <4>7. p \in [startsAt : Int, endsAt : Int]
        BY <3>8, <4>6 DEF Period
      <4> QED
        BY <3>6, <3>8, <4>5, <4>6, <4>7, NoneAssumption
    <3> QED
      BY <3>7, <3>8
  <2> QED
    BY <1>6, <2>5, <2>6 DEF offered, Names
<1> QED
  BY <1>5, <1>6

-----------------------------------------------------------------------------
(* The engine put to every schedule and every clock: the schedule is one a *)
(* board may store, and the answer is periodFor's.                         *)
CatalogueInv ==
    /\ wallClock \in Zones
    /\ CheckResourceSchedule(stored)
    /\ question # None =>
         /\ question.startsAt \in (DayLength - 2)..((LastDay + 1) * DayLength)
         /\ question.endsAt \in Int \union {None}
         /\ reply = PeriodFor(wallClock, stored, question.startsAt, question.endsAt)

LEMMA CatalogueStays == CatalogueSpec => []CatalogueInv
<1>1. CatalogueInit => CatalogueInv
  BY DEF CatalogueInit, CatalogueInv
<1>2. CatalogueInv /\ [CatalogueNext]_catalogue => CatalogueInv'
  <2> SUFFICES ASSUME CatalogueInv, [CatalogueNext]_catalogue
               PROVE  CatalogueInv'
    OBVIOUS
  <2>1. CASE Request
    <3>1. /\ wallClock' = wallClock /\ stored' = stored
          /\ question' \in [startsAt : Instants, endsAt : Instants \union {None}]
          /\ reply' = PeriodFor(wallClock, stored, question'.startsAt, question'.endsAt)
      BY <2>1 DEF Request
    <3>2. PICK q : q = question'
      OBVIOUS
    <3>3. reply' = PeriodFor(wallClock, stored, q.startsAt, q.endsAt)
      BY <3>1, <3>2
    <3>4. /\ q.startsAt \in (DayLength - 2)..((LastDay + 1) * DayLength)
          /\ q.endsAt \in Int \union {None}
      BY <3>1, <3>2, LengthAssumption, BoundsAssumption DEF Instants
    <3> QED
      BY <3>1, <3>2, <3>3, <3>4 DEF CatalogueInv, PeriodFor, CheckResourceSchedule
  <2>2. CASE Answered
    BY <2>2 DEF Answered, CatalogueInv
  <2>3. CASE UNCHANGED catalogue
    BY <2>3 DEF catalogue, CatalogueInv
  <2> QED
    BY <2>1, <2>2, <2>3 DEF CatalogueNext
<1> QED
  BY <1>1, <1>2, PTL DEF CatalogueSpec

LEMMA ClocksAre ==
  ASSUME NEW z \in Zones
  PROVE  /\ KeepsMidnights(z) /\ z.before >= 0 /\ z.after >= 0
         /\ LastDay \in Nat /\ DayLength > 1
BY ZonesAssumption, BoundsAssumption

LEMMA DayIsItsSlots ==
  ASSUME NEW z, KeepsMidnights(z), NEW s, CheckResourceSchedule(s), NEW day \in Int,
         NEW opens, opens = InstantAt(z, day, IF s.mode = "TIME_SLOTS" THEN s.opensAt ELSE 0),
         opens # None,
         NEW closes, closes = InstantAt(z, day, IF s.mode = "TIME_SLOTS" THEN s.closesAt
                                                ELSE DayLength),
         closes # None,
         NEW t \in Int,
         NEW holding, holding = {p \in GenerateSlots(z, s, day, day) :
                                   p.startsAt =< t /\ t < p.endsAt}
  PROVE  \/ t \in opens..(closes - 1) /\ \E p \in holding : holding = {p}
         \/ t \notin opens..(closes - 1) /\ holding = {}
<1>1. /\ opens \in Int /\ closes \in Int
      /\ \A p \in SlotsOf(z, s, day) : opens <= p.startsAt /\ p.endsAt <= closes
      /\ opens <= t /\ t < closes
         => \E p \in SlotsOf(z, s, day) : p.startsAt <= t /\ t < p.endsAt
  BY MomentsLieInSlots
<1>2. \A p : p \in GenerateSlots(z, s, day, day) <=> p \in SlotsOf(z, s, day)
  <2>1. \A d : d \in day..day <=> d = day
    OBVIOUS
  <2>2. \A p : p \in GenerateSlots(z, s, day, day)
               <=> \E d \in day..day : p \in SlotsOf(z, s, d)
    BY SlotsOfDays
  <2> QED
    BY <2>1, <2>2
<1>3. \A p \in SlotsOf(z, s, day) : p.startsAt \in Int /\ p.endsAt \in Int
  BY SlotHasADay
<1>4. \A p, q \in holding : p = q
  <2> TAKE p, q \in holding
  <2>1. p \in SlotsOf(z, s, day) /\ q \in SlotsOf(z, s, day)
    BY <1>2
  <2>2. /\ p.startsAt < q.startsAt => p.endsAt <= q.startsAt
        /\ q.startsAt < p.startsAt => q.endsAt <= p.startsAt
        /\ p.startsAt = q.startsAt => p = q
    BY <2>1, SlotsOfADay
  <2> QED
    BY <1>3, <2>1, <2>2
<1>5. CASE opens <= t /\ t < closes
  <2>1. t \in opens..(closes - 1)
    BY <1>1, <1>5
  <2>2. PICK p \in holding : TRUE
    BY <1>1, <1>2, <1>5
  <2>3. holding = {p}
    BY <1>4, <2>2
  <2> QED
    BY <2>1, <2>2, <2>3
<1>6. CASE ~(opens <= t /\ t < closes)
  <2>1. t \notin opens..(closes - 1)
    BY <1>1, <1>6
  <2>2. holding = {}
    BY <1>1, <1>2, <1>3, <1>6
  <2> QED
    BY <2>1, <2>2
<1> QED
  BY <1>5, <1>6

LEMMA SlotsTile ==
  ASSUME CatalogueInv
  PROVE  SlotsTileTheDays
<1>1. /\ wallClock \in Zones /\ KeepsMidnights(wallClock) /\ CheckResourceSchedule(stored)
      /\ LastDay \in Nat
  BY ClocksAre DEF CatalogueInv
<1>2. PICK z, s : z = wallClock /\ s = stored
  OBVIOUS
<1>3. ASSUME NEW day \in 1..LastDay, NEW t \in 0..((LastDay + 2) * DayLength),
             NEW opens, opens = InstantAt(z, day, IF s.mode = "TIME_SLOTS" THEN s.opensAt
                                                  ELSE 0),
             opens # None,
             NEW closes, closes = InstantAt(z, day, IF s.mode = "TIME_SLOTS" THEN s.closesAt
                                                    ELSE DayLength),
             closes # None,
             NEW holding, holding = {p \in GenerateSlots(z, s, day, day) :
                                       p.startsAt =< t /\ t < p.endsAt}
      PROVE  \/ t \in opens..(closes - 1) /\ \E p \in holding : holding = {p}
             \/ t \notin opens..(closes - 1) /\ holding = {}
  <2>1. day \in Int /\ t \in Int
    BY <1>1, LengthAssumption
  <2> QED
    BY <1>1, <1>2, <1>3, <2>1, DayIsItsSlots
<1>4. TheDayIsItsSlots
  <2> SUFFICES ASSUME NEW day \in 1..LastDay
               PROVE  LET hours == stored.mode = "TIME_SLOTS"
                          opens == InstantAt(wallClock, day,
                                      IF hours THEN stored.opensAt ELSE 0)
                          closes == InstantAt(wallClock, day,
                                       IF hours THEN stored.closesAt ELSE DayLength)
                          holding(t) == {p \in GenerateSlots(wallClock, stored, day, day) :
                                           p.startsAt =< t /\ t < p.endsAt}
                      IN  opens # None /\ closes # None =>
                            \A t \in 0..((LastDay + 2) * DayLength) :
                              \/ /\ t \in opens..(closes - 1)
                                 /\ \E p \in holding(t) : holding(t) = {p}
                              \/ t \notin opens..(closes - 1) /\ holding(t) = {}
    BY DEF TheDayIsItsSlots
  <2>1. PICK opens, closes :
          /\ opens = InstantAt(z, day, IF s.mode = "TIME_SLOTS" THEN s.opensAt ELSE 0)
          /\ closes = InstantAt(z, day, IF s.mode = "TIME_SLOTS" THEN s.closesAt
                                        ELSE DayLength)
    OBVIOUS
  <2>2. /\ InstantAt(wallClock, day, IF stored.mode = "TIME_SLOTS"
                                               THEN stored.opensAt ELSE 0) = opens
        /\ InstantAt(wallClock, day, IF stored.mode = "TIME_SLOTS"
                                               THEN stored.closesAt ELSE DayLength) = closes
    BY <1>2, <2>1
  <2>3. PICK offered : /\ offered = GenerateSlots(z, s, day, day)
                       /\ GenerateSlots(wallClock, stored, day, day) = offered
    BY <1>2
  <2>4. ASSUME opens # None, closes # None, NEW t \in 0..((LastDay + 2) * DayLength),
               NEW holding, holding = {p \in offered : p.startsAt =< t /\ t < p.endsAt}
        PROVE  \/ t \in opens..(closes - 1) /\ \E p \in holding : holding = {p}
               \/ t \notin opens..(closes - 1) /\ holding = {}
    BY <1>3, <2>1, <2>3, <2>4
  <2> QED
    BY <2>2, <2>3, <2>4
<1>5. StartsTellSlotsApart
  <2>1. LastDay + 2 \in Int
    BY <1>1
  <2>2. \A p, q \in GenerateSlots(wallClock, stored, 0, LastDay + 2) : p # q => ~Overlap(p, q)
    BY <1>1, <2>1, SlotsLieApart
  <2> QED
    BY <2>2 DEF StartsTellSlotsApart
<1> QED
  BY <1>4, <1>5 DEF SlotsTileTheDays

LEMMA AnswersAreOffered ==
  ASSUME CatalogueInv
  PROVE  PeriodsAreOffered
<1> SUFFICES ASSUME question # None
             PROVE  PeriodsAreOffered
  BY DEF PeriodsAreOffered
<1>1. PICK z, s : z = wallClock /\ s = stored /\ z \in Zones /\ CheckResourceSchedule(s)
  BY DEF CatalogueInv
<1>2. PICK a \in (DayLength - 2)..((LastDay + 1) * DayLength), b \in Int \union {None} :
        /\ a = question.startsAt /\ b = question.endsAt
        /\ reply = PeriodFor(z, s, a, b)
  BY <1>1 DEF CatalogueInv
<1>3. /\ KeepsMidnights(z) /\ z.before >= 0 /\ z.after >= 0
      /\ LastDay \in Nat /\ DayLength > 1
  BY <1>1, ClocksAre
<1>4. PICK last \in Nat : last = LastDay + 2
  BY <1>3
<1>5. a \in Int
  BY <1>2
<1>6. LocalDayOf(z, a) \in 0..last
  <2>1. PICK x \in Int : x = a + Offset(z, a)
    BY <1>3, <1>5, OffsetIs, LengthAssumption
  <2>2. 0 <= Offset(z, a) /\ Offset(z, a) <= DayLength /\ Offset(z, a) \in Int
    BY <1>3, <1>5, OffsetIs, LengthAssumption
  <2>3. PICK m \in Nat : m = (LastDay + 1) * DayLength /\ m + DayLength = last * DayLength
    BY <1>3, <1>4, LengthAssumption
  <2>4. 0 <= x /\ x <= last * DayLength
    BY <1>2, <1>3, <2>1, <2>2, <2>3, LengthAssumption
  <2>5. PICK d \in Int : d = x \div DayLength
    BY LengthAssumption
  <2>6. 0 \div DayLength = 0 /\ (last * DayLength) \div DayLength = last
    <3>1. last * DayLength \in Int
      BY LengthAssumption
    <3>2. 0 * DayLength = 0
      BY LengthAssumption
    <3> QED
      BY <3>1, <3>2, DayOfMinuteIs, LengthAssumption
  <2>7. 0 <= d /\ d <= last
    <3>1. last * DayLength \in Int
      BY LengthAssumption
    <3> QED
      BY <2>4, <2>5, <2>6, <3>1, DayOfMinuteGrows
  <2> QED
    BY <2>1, <2>5, <2>7 DEF LocalDayOf
<1>7. PICK offered, stays : /\ offered = GenerateSlots(z, s, 0, last)
                            /\ stays = StaysOffered(z, 0, last)
  OBVIOUS
<1>8. \A p : p = reply /\ p # None
             <=> /\ p \in IF s.mode = "DATE_RANGE" THEN stays ELSE offered
                 /\ p.startsAt = a
                 /\ b = None => p \in offered
                 /\ b # None => p.endsAt = b
  <2> TAKE p
  <2>1. p = PeriodFor(z, s, a, b) /\ p # None <=> Names(a, b, p, z, s, 0, last)
    BY <1>1, <1>3, <1>4, <1>5, <1>6, PeriodForOffers
  <2> QED
    BY <1>2, <1>7, <2>1 DEF Names
<1>9. GenerateSlots(wallClock, stored, 0, LastDay + 2) = offered
  BY <1>1, <1>4, <1>7
<1>10. {Period(InstantAt(wallClock, d, 0),
                         InstantAt(wallClock, d + n, 0)) :
          d \in 0..(LastDay + 2), n \in 1..MaxNights} = stays
  BY <1>1, <1>4, <1>7 DEF StaysOffered, Midnight
<1>11. {p \in {reply} : p # None}
       = {p \in IF s.mode = "DATE_RANGE" THEN stays ELSE offered :
            /\ p.startsAt = a
            /\ b = None => p \in offered
            /\ b # None => p.endsAt = b}
  BY <1>8
<1> QED
  BY <1>1, <1>2, <1>9, <1>10, <1>11 DEF PeriodsAreOffered

(* timeSlots, wholeDays and booking_resource_slot_key, for every schedule  *)
(* a board may store and every clock that keeps its midnights: the slots   *)
(* tile each day, and no two of them overlap.                              *)
THEOREM SlotsTileEveryDay == CatalogueSpec => []SlotsTileTheDays
<1>1. CatalogueInv => SlotsTileTheDays
  BY SlotsTile
<1> QED
  BY <1>1, CatalogueStays, PTL

(* periodFor answers every request with the slot, or the stay, that it     *)
(* names and with nothing else.                                            *)
THEOREM RequestsAreAnswered == CatalogueSpec => []PeriodsAreOffered
<1>1. CatalogueInv => PeriodsAreOffered
  BY AnswersAreOffered
<1> QED
  BY <1>1, CatalogueStays, PTL

-----------------------------------------------------------------------------
(* What holds of the bookings. *)

PastApartment == {"apartment", "row", "nights", "counted", "inserted"}
PastRow == {"row", "nights", "counted", "inserted"}
PastNights == {"nights", "counted", "inserted"}

Nightly(r) == resource[r].schedule.mode = "DATE_RANGE"

(* A claim o that is under way, and the locks it holds by now. *)
HoldsItsLocks(o) ==
    /\ \A a \in Apartments : ApartmentLock(a) \in o.holds <=>
          a = o.ask.apartment /\ o.at \in PastApartment
    /\ \A r \in Resources : RowLock(r) \in o.holds <=>
          r = o.ask.resource /\ o.at \in PastRow
    /\ \A r \in Resources : NightsLock(r) \in o.holds <=>
          r = o.ask.resource /\ o.at \in PastNights /\ Nightly(r)

(* What it read of the resource ... *)
StandsOn(o) ==
    /\ o.ask.apartment \in Apartments /\ o.ask.person \in People
    /\ o.period.startsAt < o.period.endsAt
    /\ o.at \in PastRow => Offer(o.ask) = o.period
    /\ o.at = "nights" => Nightly(o.ask.resource)

(* ... that no stay is in its way ... *)
IsFree(o) ==
    o.at \in PastNights /\ Nightly(o.ask.resource) =>
        \A b \in Claims : Live(b) /\ booking[b].resource = o.ask.resource
                            => ~Overlap(booking[b], o.period)

(* ... what it counted ... *)
UnstartedOf(o) ==
    {b \in HeldOf(o.ask.resource, o.ask.apartment) : booking[b].startsAt > o.now}
ThatWeekOf(o) ==
    {b \in HeldOf(o.ask.resource, o.ask.apartment) :
        LocalWeekOf(Zone, booking[b].startsAt) = LocalWeekOf(Zone, o.period.startsAt)}

Fits(o) ==
    o.at \in {"counted", "inserted"} =>
        LET now == resource[o.ask.resource]
        IN  /\ now.maxConcurrent # None =>
                 Cardinality(UnstartedOf(o)) < now.maxConcurrent
            /\ now.maxPerWeek # None =>
                 Cardinality(ThatWeekOf(o)) < now.maxPerWeek

(* ... and that its slot is its own. *)
IsAlone(o) ==
    o.at = "inserted" =>
        \A b \in Claims : Live(b) /\ booking[b].resource = o.ask.resource
                            => booking[b].startsAt # o.period.startsAt

Proper(o) ==
    /\ HoldsItsLocks(o) /\ StandsOn(o) /\ IsFree(o) /\ Fits(o) /\ IsAlone(o)
    /\ o.now <= clock

ClaimsAreProper == \A c \in Claims : \A o \in {claim[c]} \ {None} : Proper(o)

(* Two claims under way, by the locks they hold. *)
Apart(o, q) ==
    /\ o.at \in PastApartment /\ q.at \in PastApartment =>
          o.ask.apartment # q.ask.apartment
    /\ o.at \in PastNights /\ q.at \in PastNights /\ Nightly(o.ask.resource) =>
          o.ask.resource # q.ask.resource
    /\ o.at = "inserted" /\ q.at = "inserted" =>
          o.ask.resource # q.ask.resource \/ o.period.startsAt # q.period.startsAt

ClaimsAreApart ==
    \A c, d \in Claims : c # d =>
        \A o \in {claim[c]} \ {None}, q \in {claim[d]} \ {None} : Apart(o, q)

(* An edit x, and the row it has alone once it is locked. *)
EditStands(x) ==
    /\ x.to # None => Validated(x.to)
    /\ x.holds = IF x.at = "locked" THEN {RowLock(x.resource)} ELSE {}

RowIsTaken(x) ==
    x.at = "locked" =>
        \A c \in Claims : \A o \in {claim[c]} \ {None} :
            o.at \in PastRow => o.ask.resource # x.resource

EditsAreProper ==
    \A e \in Edits : \A x \in {edit[e]} \ {None} : EditStands(x) /\ RowIsTaken(x)

EditsAreApart ==
    \A e, f \in Edits : e # f =>
        \A x \in {edit[e]} \ {None}, y \in {edit[f]} \ {None} :
            x.at = "locked" /\ y.at = "locked" => x.resource # y.resource

(* The bookings. *)
OnTheGrid(row) ==
    /\ row.startsAt < row.endsAt
    /\ resource[row.resource] # None
    /\ row.endsAt > clock =>
         PeriodFor(Zone, resource[row.resource].schedule, row.startsAt, row.endsAt)
           = Period(row.startsAt, row.endsAt)

BookingsStand == \A b \in Claims : Live(b) => OnTheGrid(booking[b])

LogStands ==
    \A b \in Claims :
        /\ ~ClaimAt(b, "booked") => booking[b] = None /\ entries[b] = <<>>
        /\ ClaimAt(b, "booked") => entries[b] # <<>>
        /\ booking[b] # None =>
             entries[b] = IF Live(b) THEN <<"MADE">> ELSE <<"MADE", "CANCELLED">>

IInv ==
    /\ TypeOK /\ ClaimsAreProper /\ ClaimsAreApart /\ EditsAreProper /\ EditsAreApart
    /\ BookingsStand /\ NoDoubleBooking /\ LogStands

-----------------------------------------------------------------------------
(* What depends on the tables alone stays while they do. *)
LEMMA ReadsStay ==
  ASSUME resource' = resource, booking' = booking, clock' = clock, NEW o
  PROVE  /\ HoldsItsLocks(o)' <=> HoldsItsLocks(o)
         /\ StandsOn(o)' <=> StandsOn(o)
         /\ IsFree(o)' <=> IsFree(o)
         /\ Fits(o)' <=> Fits(o)
         /\ IsAlone(o)' <=> IsAlone(o)
         /\ Proper(o)' <=> Proper(o)
         /\ OnTheGrid(o)' <=> OnTheGrid(o)
<1>1. HoldsItsLocks(o)' <=> HoldsItsLocks(o)
  BY DEF HoldsItsLocks, Nightly
<1>2. StandsOn(o)' <=> StandsOn(o)
  BY DEF StandsOn, Offer, Nightly
<1>3. IsFree(o)' <=> IsFree(o)
  BY DEF IsFree, Nightly, Live
<1>4. UnstartedOf(o)' = UnstartedOf(o) /\ ThatWeekOf(o)' = ThatWeekOf(o)
  BY DEF UnstartedOf, ThatWeekOf, HeldOf, Live
<1>5. Fits(o)' <=> Fits(o)
  BY <1>4 DEF Fits
<1>6. IsAlone(o)' <=> IsAlone(o)
  BY DEF IsAlone, Live
<1>7. OnTheGrid(o)' <=> OnTheGrid(o)
  BY DEF OnTheGrid
<1> QED
  BY <1>1, <1>2, <1>3, <1>5, <1>6, <1>7 DEF Proper

LEMMA ApartStays ==
  ASSUME resource' = resource, NEW o, NEW q
  PROVE  Apart(o, q)' <=> Apart(o, q)
BY DEF Apart, Nightly

LEMMA BookingsStay ==
  ASSUME resource' = resource, booking' = booking, clock' = clock,
         BookingsStand, NoDoubleBooking
  PROVE  BookingsStand' /\ NoDoubleBooking'
<1>1. ASSUME NEW b \in Claims, Live(b)' PROVE OnTheGrid(booking[b])'
  <2> DEFINE row == booking[b]
  <2>1. Live(b) /\ OnTheGrid(row)
    BY <1>1 DEF Live, BookingsStand
  <2> QED
    BY <2>1 DEF OnTheGrid
<1>2. BookingsStand'
  BY <1>1 DEF BookingsStand, Live
<1>3. NoDoubleBooking'
  BY DEF NoDoubleBooking, Unfinished, Live
<1> QED
  BY <1>2, <1>3

Becomes(c, x) == claim' = [claim EXCEPT ![c] = x]

(* A claim takes a step: it becomes x, and disturbs nobody. *)
LEMMA ClaimMoves ==
  ASSUME IInv, NEW c \in Claims, ~ClaimAt(c, "booked"), OnlyClaims,
         NEW x \in Claim, x.at # "booked", Becomes(c, x),
         Proper(x),
         \A d \in Claims : d # c =>
             \A o \in {claim[d]} \ {None} : Apart(x, o) /\ Apart(o, x),
         x.at \in PastRow => \A e \in Edits : \A y \in {edit[e]} \ {None} :
             y.at = "locked" => x.ask.resource # y.resource
  PROVE  IInv'
<1>1. /\ clock' = clock /\ resource' = resource /\ residency' = residency
      /\ booking' = booking /\ entries' = entries /\ edit' = edit /\ cancel' = cancel
  BY DEF OnlyClaims, tables
<1>2. x # None
  BY NoRowAssumption
<1>3. /\ claim \in [Claims -> Claim \union {None}] /\ claim'[c] = x
      /\ \A d \in Claims : d # c => claim'[d] = claim[d]
      /\ claim' \in [Claims -> Claim \union {None}]
  BY DEF IInv, TypeOK, Becomes
<1>4. TypeOK'
  BY <1>1, <1>3 DEF IInv, TypeOK
<1>5. ClaimsAreProper'
  <2> SUFFICES ASSUME NEW d \in Claims, NEW o, o = claim'[d], o # None
               PROVE  Proper(o)'
    BY DEF ClaimsAreProper
  <2>1. Proper(o)
    BY <1>3 DEF IInv, ClaimsAreProper
  <2> QED
    BY <1>1, <2>1, ReadsStay
<1>6. ClaimsAreApart'
  <2> SUFFICES ASSUME NEW d \in Claims, NEW k \in Claims, d # k,
                      NEW o, o = claim'[d], o # None, NEW q, q = claim'[k], q # None
               PROVE  Apart(o, q)'
    BY DEF ClaimsAreApart
  <2>1. Apart(o, q)
    <3>1. CASE d # c /\ k # c
      BY <1>3, <3>1 DEF IInv, ClaimsAreApart
    <3>2. CASE d = c
      BY <1>3, <3>2
    <3>3. CASE k = c
      BY <1>3, <3>3
    <3> QED
      BY <3>1, <3>2, <3>3
  <2> QED
    BY <1>1, <2>1, ApartStays
<1>7. EditsAreProper'
  <2> SUFFICES ASSUME NEW e \in Edits, NEW y, y = edit[e], y # None
               PROVE  EditStands(y) /\ RowIsTaken(y)'
    BY <1>1 DEF EditsAreProper, EditStands
  <2>1. EditStands(y) /\ RowIsTaken(y)
    BY DEF IInv, EditsAreProper
  <2>2. ASSUME y.at = "locked", NEW d \in Claims, NEW o, o = claim'[d], o # None,
               o.at \in PastRow
        PROVE  o.ask.resource # y.resource
    <3>1. CASE d = c
      BY <1>3, <2>2, <3>1
    <3>2. CASE d # c
      BY <1>3, <2>1, <2>2, <3>2 DEF RowIsTaken
    <3> QED
      BY <3>1, <3>2
  <2> QED
    BY <2>1, <2>2 DEF RowIsTaken
<1>8. EditsAreApart'
  BY <1>1 DEF IInv, EditsAreApart
<1>9. LogStands'
  <2>1. \A b \in Claims : ClaimAt(b, "booked")' <=> ClaimAt(b, "booked")
    BY <1>2, <1>3 DEF ClaimAt
  <2> QED
    BY <1>1, <2>1 DEF IInv, LogStands, Live
<1> QED
  BY <1>1, <1>4, <1>5, <1>6, <1>7, <1>8, <1>9, BookingsStay DEF IInv

(* It is refused, or lost: nothing of it is left. *)
LEMMA ClaimEnds ==
  ASSUME IInv, NEW c \in Claims, ~ClaimAt(c, "booked"), OnlyClaims, RollBack(c)
  PROVE  IInv'
<1>1. /\ clock' = clock /\ resource' = resource /\ residency' = residency
      /\ booking' = booking /\ entries' = entries /\ edit' = edit /\ cancel' = cancel
  BY DEF OnlyClaims, tables
<1>3. /\ claim'[c] = None /\ \A d \in Claims : d # c => claim'[d] = claim[d]
      /\ claim' \in [Claims -> Claim \union {None}]
  BY DEF IInv, TypeOK, RollBack
<1>4. TypeOK'
  BY <1>1, <1>3 DEF IInv, TypeOK
<1>5. ClaimsAreProper'
  <2> SUFFICES ASSUME NEW d \in Claims, NEW o, o = claim'[d], o # None
               PROVE  Proper(o)'
    BY DEF ClaimsAreProper
  <2>1. Proper(o)
    BY <1>3 DEF IInv, ClaimsAreProper
  <2> QED
    BY <1>1, <2>1, ReadsStay
<1>6. ClaimsAreApart'
  <2> SUFFICES ASSUME NEW d \in Claims, NEW k \in Claims, d # k,
                      NEW o, o = claim'[d], o # None, NEW q, q = claim'[k], q # None
               PROVE  Apart(o, q)'
    BY DEF ClaimsAreApart
  <2>1. Apart(o, q)
    BY <1>3 DEF IInv, ClaimsAreApart
  <2> QED
    BY <1>1, <2>1, ApartStays
<1>7. EditsAreProper'
  <2> SUFFICES ASSUME NEW e \in Edits, NEW y, y = edit[e], y # None
               PROVE  EditStands(y) /\ RowIsTaken(y)'
    BY <1>1 DEF EditsAreProper, EditStands
  <2>1. EditStands(y) /\ RowIsTaken(y)
    BY DEF IInv, EditsAreProper
  <2>2. ASSUME y.at = "locked", NEW d \in Claims, NEW o, o = claim'[d], o # None,
               o.at \in PastRow
        PROVE  o.ask.resource # y.resource
    BY <1>3, <2>1, <2>2 DEF RowIsTaken
  <2> QED
    BY <2>1, <2>2 DEF RowIsTaken
<1>8. EditsAreApart'
  BY <1>1 DEF IInv, EditsAreApart
<1>9. LogStands'
  <2>1. \A b \in Claims : ClaimAt(b, "booked")' <=> ClaimAt(b, "booked")
    BY <1>3 DEF ClaimAt
  <2> QED
    BY <1>1, <2>1 DEF IInv, LogStands, Live
<1> QED
  BY <1>1, <1>4, <1>5, <1>6, <1>7, <1>8, <1>9, BookingsStay DEF IInv

-----------------------------------------------------------------------------
(* A claim, step by step. *)
LEMMA ClaimIs ==
  ASSUME IInv, NEW c \in Claims, NEW o, o = claim[c], o # None
  PROVE  /\ o \in Claim /\ Proper(o)
         /\ o.ask \in Requests /\ o.ask.resource \in Resources
         /\ \A d \in Claims : d # c => \A q \in {claim[d]} \ {None} :
               Proper(q) /\ Apart(o, q) /\ Apart(q, o)
<1>1. o \in Claim
  BY DEF IInv, TypeOK
<1>2. Proper(o) /\ \A d \in Claims : \A q \in {claim[d]} \ {None} : Proper(q)
  BY DEF IInv, ClaimsAreProper
<1>3. \A d \in Claims : d # c => \A q \in {claim[d]} \ {None} : Apart(o, q) /\ Apart(q, o)
  BY DEF IInv, ClaimsAreApart
<1>4. o.ask \in Requests /\ o.ask.resource \in Resources
  BY <1>1, RequestsAssumption DEF Claim
<1> QED
  BY <1>1, <1>2, <1>3, <1>4

LEMMA OfferIs ==
  ASSUME TypeOK, NEW ask \in Requests, NEW p, p = Offer(ask), p # None
  PROVE  /\ resource[ask.resource] # None /\ ~resource[ask.resource].withdrawn
         /\ CheckResourceSchedule(resource[ask.resource].schedule)
         /\ p = PeriodFor(Zone, resource[ask.resource].schedule, ask.startsAt, ask.endsAt)
         /\ ask.startsAt \in Int /\ ask.endsAt \in Int \union {None}
         /\ p = Period(p.startsAt, p.endsAt) /\ p \in [startsAt : Nat, endsAt : Nat]
         /\ p.startsAt < p.endsAt
<1>1. /\ ask.resource \in Resources
      /\ ask.startsAt \in Nat /\ ask.endsAt \in Nat \union {None}
  BY RequestsAssumption
<1>2. /\ resource[ask.resource] # None /\ ~resource[ask.resource].withdrawn
      /\ p = PeriodFor(Zone, resource[ask.resource].schedule, ask.startsAt, ask.endsAt)
  BY DEF Offer
<1>3. CheckResourceSchedule(resource[ask.resource].schedule)
  BY <1>1, <1>2 DEF TypeOK
<1>4. /\ p = Period(ask.startsAt, p.endsAt) /\ p.startsAt = ask.startsAt
      /\ p.endsAt \in Int /\ ask.startsAt < p.endsAt
  <2> DEFINE schedule == resource[ask.resource].schedule
  <2>1. /\ ask.startsAt \in Int /\ ask.endsAt \in Int \union {None}
        /\ p = PeriodFor(Zone, schedule, ask.startsAt, ask.endsAt)
        /\ CheckResourceSchedule(schedule)
    BY <1>1, <1>2, <1>3
  <2>2. PICK a \in Int, b \in Int \union {None} : a = ask.startsAt /\ b = ask.endsAt
    BY <2>1
  <2> HIDE DEF schedule
  <2>3. p = PeriodFor(Zone, schedule, a, b) /\ KeepsMidnights(Zone)
    BY <2>1, <2>2, ZoneAssumption
  <2>4. /\ p = Period(a, p.endsAt) /\ p.startsAt = a
        /\ p.endsAt \in Int /\ a < p.endsAt
    BY <2>1, <2>3, PeriodForIs
  <2> QED
    BY <2>2, <2>4
<1>5. p \in [startsAt : Nat, endsAt : Nat]
  BY <1>1, <1>4 DEF Period
<1> QED
  BY <1>1, <1>2, <1>3, <1>4, <1>5

LEMMA AskKeeps ==
  ASSUME IInv, NEW c \in Claims, NEW ask \in Requests, Ask(c, ask)
  PROVE  IInv'
<1> DEFINE p == Offer(ask)
           x == [at |-> "asked", ask |-> ask, period |-> p, now |-> clock, holds |-> {}]
<1>1. /\ claim[c] = None /\ p # None /\ HoldsApartment(ask, p)
      /\ claim' = [claim EXCEPT ![c] = x] /\ OnlyClaims
  BY DEF Ask
<1>2. p \in [startsAt : Nat, endsAt : Nat] /\ p.startsAt < p.endsAt
  BY <1>1, OfferIs DEF IInv
<1>3. clock \in 0..MaxClock /\ clock \in Int
  BY TimesAssumption DEF IInv, TypeOK
<1> HIDE DEF p
<1>4. x \in Claim
  BY <1>2, <1>3 DEF Claim, Started
<1>5. ask.apartment \in Apartments /\ ask.person \in People
  BY <1>1 DEF HoldsApartment, IInv, TypeOK
<1>6. Proper(x)
  <2>1. HoldsItsLocks(x)
    BY DEF HoldsItsLocks, PastApartment, PastRow, PastNights
  <2>2. StandsOn(x)
    BY <1>2, <1>5 DEF StandsOn, PastRow
  <2>3. IsFree(x) /\ Fits(x) /\ IsAlone(x)
    BY DEF IsFree, Fits, IsAlone, PastNights
  <2> QED
    BY <1>3, <2>1, <2>2, <2>3 DEF Proper
<1>9. Becomes(c, x)
  BY <1>1 DEF Becomes
<1>7. \A o : Apart(x, o) /\ Apart(o, x)
  BY DEF Apart, PastApartment, PastNights
<1>8. x.at = "asked" /\ x.at \notin PastRow
  BY DEF PastRow
<1> QED
  BY <1>1, <1>4, <1>6, <1>7, <1>8, <1>9, ClaimMoves DEF ClaimAt

LEMMA Proceeds ==
  ASSUME IInv, NEW c \in Claims, NEW o, o = claim[c], o # None,
         NEW step \in Started, NEW locks \in SUBSET Locks, Proceed(c, step, locks)
  PROVE  \E x \in Claim :
           /\ Becomes(c, x)
           /\ x.at = step /\ x.holds = o.holds \union locks
           /\ x.ask = o.ask /\ x.period = o.period /\ x.now = o.now
<1> DEFINE x == [o EXCEPT !.at = step, !.holds = @ \union locks]
<1>1. o \in Claim
  BY DEF IInv, TypeOK
<1>2. x \in Claim /\ x.at = step /\ x.holds = o.holds \union locks
      /\ x.ask = o.ask /\ x.period = o.period /\ x.now = o.now
  BY <1>1 DEF Claim
<1>3. claim' = [claim EXCEPT ![c] = x]
  BY <1>1 DEF Proceed, IInv, TypeOK
<1> QED
  BY <1>2, <1>3 DEF Becomes

LEMMA TakesLock ==
  ASSUME IInv, NEW c \in Claims, NEW o, o = claim[c], o # None,
         NEW step \in Started, NEW lock \in Locks, Proceed(c, step, {lock})
  PROVE  \E x \in Claim :
           /\ Becomes(c, x)
           /\ x.at = step /\ x.holds = o.holds \union {lock}
           /\ x.ask = o.ask /\ x.period = o.period /\ x.now = o.now
<1>1. \A locks \in SUBSET Locks : Proceed(c, step, locks) =>
        \E x \in Claim :
           /\ Becomes(c, x)
           /\ x.at = step /\ x.holds = o.holds \union locks
           /\ x.ask = o.ask /\ x.period = o.period /\ x.now = o.now
  BY Proceeds
<1>2. \E locks \in SUBSET Locks : locks = {lock}
  OBVIOUS
<1> QED
  BY <1>1, <1>2

LEMMA TakesNoLock ==
  ASSUME IInv, NEW c \in Claims, NEW o, o = claim[c], o # None,
         NEW step \in Started, Proceed(c, step, {})
  PROVE  \E x \in Claim :
           /\ Becomes(c, x)
           /\ x.at = step /\ x.holds = o.holds
           /\ x.ask = o.ask /\ x.period = o.period /\ x.now = o.now
<1>1. \A locks \in SUBSET Locks : Proceed(c, step, locks) =>
        \E x \in Claim :
           /\ Becomes(c, x)
           /\ x.at = step /\ x.holds = o.holds \union locks
           /\ x.ask = o.ask /\ x.period = o.period /\ x.now = o.now
  BY Proceeds
<1>2. PICK locks \in SUBSET Locks : locks = {}
  OBVIOUS
<1>3. Proceed(c, step, locks) /\ o.holds \union locks = o.holds
  BY <1>2
<1>4. PICK x \in Claim :
        /\ Becomes(c, x)
        /\ x.at = step /\ x.holds = o.holds \union locks
        /\ x.ask = o.ask /\ x.period = o.period /\ x.now = o.now
  BY <1>1, <1>3
<1> QED
  BY <1>3, <1>4

LEMMA LocksAre ==
  /\ \A a \in Apartments : ApartmentLock(a) \in Locks
  /\ \A r \in Resources : RowLock(r) \in Locks /\ NightsLock(r) \in Locks
  /\ \A a, b : ApartmentLock(a) = ApartmentLock(b) <=> a = b
  /\ \A a, b : RowLock(a) = RowLock(b) <=> a = b
  /\ \A a, b : NightsLock(a) = NightsLock(b) <=> a = b
  /\ \A a, b : ApartmentLock(a) # RowLock(b)
  /\ \A a, b : ApartmentLock(a) # NightsLock(b)
  /\ \A a, b : NightsLock(a) # RowLock(b)
BY DEF Locks, ApartmentLock, RowLock, NightsLock

LEMMA LockApartmentKeeps ==
  ASSUME IInv, NEW c \in Claims, NEW o, o = claim[c], LockApartment(c)
  PROVE  IInv'
<1> DEFINE lock == ApartmentLock(o.ask.apartment)
<1>1. /\ o # None /\ o.at = "asked" /\ FreeOfClaims(c, lock)
      /\ Proceed(c, "apartment", {lock}) /\ OnlyClaims
  BY DEF LockApartment, ClaimAt
<1>2. /\ o \in Claim /\ Proper(o)
      /\ \A d \in Claims : d # c => \A q \in {claim[d]} \ {None} :
            Proper(q) /\ Apart(o, q) /\ Apart(q, o)
  BY <1>1, ClaimIs
<1>3. o.ask.apartment \in Apartments
  BY <1>2 DEF Proper, StandsOn
<1>4. PICK x \in Claim :
        /\ Becomes(c, x)
        /\ x.at = "apartment" /\ x.holds = o.holds \union {lock}
        /\ x.ask = o.ask /\ x.period = o.period /\ x.now = o.now
  <2>1. lock \in Locks /\ "apartment" \in Started
    BY <1>3, LocksAre DEF Started
  <2> HIDE DEF lock
  <2> QED
    BY <1>1, <2>1, TakesLock
<1>5. HoldsItsLocks(x)
  <2>1. HoldsItsLocks(o)
    BY <1>2 DEF Proper
  <2> QED
    BY <1>1, <1>4, <2>1, LocksAre DEF HoldsItsLocks, PastApartment, PastRow, PastNights
<1>6. Proper(x)
  <2>1. StandsOn(x) /\ x.now <= clock
    BY <1>2, <1>4 DEF Proper, StandsOn, PastRow
  <2>2. IsFree(x) /\ Fits(x) /\ IsAlone(x)
    BY <1>4 DEF IsFree, Fits, IsAlone, PastNights
  <2> QED
    BY <1>5, <2>1, <2>2 DEF Proper
<1>7. ASSUME NEW d \in Claims, d # c, NEW q, q = claim[d], q # None
      PROVE  Apart(x, q) /\ Apart(q, x)
  <2>1. lock \notin q.holds
    BY <1>1, <1>7 DEF FreeOfClaims, ClaimHolds
  <2>2. HoldsItsLocks(q)
    BY <1>2, <1>7 DEF Proper
  <2>3. q.at \in PastApartment => q.ask.apartment # x.ask.apartment
    BY <1>3, <1>4, <2>1, <2>2 DEF HoldsItsLocks
  <2> QED
    BY <1>4, <2>3 DEF Apart, PastNights
<1>8. x.at \notin PastRow /\ x.at # "booked"
  BY <1>4 DEF PastRow
<1>9. ~ClaimAt(c, "booked")
  BY <1>1 DEF ClaimAt
<1> QED
  BY <1>1, <1>4, <1>6, <1>7, <1>8, <1>9, ClaimMoves

LEMMA LockRowKeeps ==
  ASSUME IInv, NEW c \in Claims, NEW o, o = claim[c], LockRow(c)
  PROVE  IInv'
<1> DEFINE lock == RowLock(o.ask.resource)
<1>1. /\ o # None /\ o.at = "apartment" /\ OnlyClaims
      /\ \A e \in Edits : ~(EditHolds(e, lock) /\ edit[e].at = "locked")
      /\ IF Offer(o.ask) = o.period THEN Proceed(c, "row", {lock}) ELSE RollBack(c)
  BY DEF LockRow, ClaimAt
<1>2. /\ o \in Claim /\ Proper(o) /\ o.ask.resource \in Resources
      /\ \A d \in Claims : d # c => \A q \in {claim[d]} \ {None} :
            Proper(q) /\ Apart(o, q) /\ Apart(q, o)
  BY <1>1, ClaimIs
<1>3. ~ClaimAt(c, "booked")
  BY <1>1 DEF ClaimAt
<1>4. CASE Offer(o.ask) # o.period
  BY <1>1, <1>3, <1>4, ClaimEnds
<1>5. CASE Offer(o.ask) = o.period
  <2>1. PICK x \in Claim :
          /\ Becomes(c, x)
          /\ x.at = "row" /\ x.holds = o.holds \union {lock}
          /\ x.ask = o.ask /\ x.period = o.period /\ x.now = o.now
    <3>1. lock \in Locks /\ "row" \in Started
      BY <1>2, LocksAre DEF Started
    <3>2. Proceed(c, "row", {lock})
      BY <1>1, <1>5
    <3> HIDE DEF lock
    <3> QED
      BY <1>1, <3>1, <3>2, TakesLock
  <2>2. HoldsItsLocks(x)
    <3>1. HoldsItsLocks(o)
      BY <1>2 DEF Proper
    <3> QED
      BY <1>1, <1>2, <2>1, <3>1, LocksAre
      DEF HoldsItsLocks, PastApartment, PastRow, PastNights
  <2>3. Proper(x)
    <3>1. StandsOn(x) /\ x.now <= clock
      BY <1>2, <1>5, <2>1 DEF Proper, StandsOn
    <3>2. IsFree(x) /\ Fits(x) /\ IsAlone(x)
      BY <2>1 DEF IsFree, Fits, IsAlone, PastNights
    <3> QED
      BY <2>2, <3>1, <3>2 DEF Proper
  <2>4. ASSUME NEW d \in Claims, d # c, NEW q, q = claim[d], q # None
        PROVE  Apart(x, q) /\ Apart(q, x)
    <3>1. Apart(o, q) /\ Apart(q, o)
      BY <1>2, <2>4
    <3> QED
      BY <1>1, <2>1, <3>1 DEF Apart, PastApartment, PastNights
  <2>5. ASSUME NEW e \in Edits, NEW y, y = edit[e], y # None, y.at = "locked"
        PROVE  x.ask.resource # y.resource
    <3>1. EditStands(y)
      BY <2>5 DEF IInv, EditsAreProper
    <3>2. RowLock(y.resource) \in y.holds
      BY <2>5, <3>1 DEF EditStands
    <3>3. lock \notin y.holds
      BY <1>1, <2>5 DEF EditHolds
    <3> QED
      BY <2>1, <3>2, <3>3
  <2> QED
    BY <1>1, <1>3, <2>1, <2>3, <2>4, <2>5, ClaimMoves
<1> QED
  BY <1>4, <1>5

LEMMA LockNightsKeeps ==
  ASSUME IInv, NEW c \in Claims, NEW o, o = claim[c], LockNights(c)
  PROVE  IInv'
<1> DEFINE lock == NightsLock(o.ask.resource)
<1>1. /\ o # None /\ o.at = "row" /\ OnlyClaims /\ Nightly(o.ask.resource)
      /\ FreeOfClaims(c, lock)
      /\ IF Clashes(c) THEN RollBack(c) ELSE Proceed(c, "nights", {lock})
  BY DEF LockNights, ClaimAt, ByTheNight, Nightly
<1>2. /\ o \in Claim /\ Proper(o) /\ o.ask.resource \in Resources
      /\ \A d \in Claims : d # c => \A q \in {claim[d]} \ {None} :
            Proper(q) /\ Apart(o, q) /\ Apart(q, o)
  BY <1>1, ClaimIs
<1>3. ~ClaimAt(c, "booked")
  BY <1>1 DEF ClaimAt
<1>4. CASE Clashes(c)
  BY <1>1, <1>3, <1>4, ClaimEnds
<1>5. CASE ~Clashes(c)
  <2>1. PICK x \in Claim :
          /\ Becomes(c, x)
          /\ x.at = "nights" /\ x.holds = o.holds \union {lock}
          /\ x.ask = o.ask /\ x.period = o.period /\ x.now = o.now
    <3>1. lock \in Locks /\ "nights" \in Started
      BY <1>2, LocksAre DEF Started
    <3>2. Proceed(c, "nights", {lock})
      BY <1>1, <1>5
    <3> HIDE DEF lock
    <3> QED
      BY <1>1, <3>1, <3>2, TakesLock
  <2>2. HoldsItsLocks(x)
    <3>1. HoldsItsLocks(o)
      BY <1>2 DEF Proper
    <3> QED
      BY <1>1, <1>2, <2>1, <3>1, LocksAre
      DEF HoldsItsLocks, PastApartment, PastRow, PastNights
  <2>3. Proper(x)
    <3>1. StandsOn(x) /\ x.now <= clock
      BY <1>1, <1>2, <2>1 DEF Proper, StandsOn, PastRow
    <3>2. IsFree(x)
      BY <1>5, <2>1 DEF IsFree, Clashes
    <3>3. Fits(x) /\ IsAlone(x)
      BY <2>1 DEF Fits, IsAlone
    <3> QED
      BY <2>2, <3>1, <3>2, <3>3 DEF Proper
  <2>4. ASSUME NEW d \in Claims, d # c, NEW q, q = claim[d], q # None
        PROVE  Apart(x, q) /\ Apart(q, x)
    <3>1. Apart(o, q) /\ Apart(q, o) /\ HoldsItsLocks(q)
      BY <1>2, <2>4 DEF Proper
    <3>2. lock \notin q.holds
      BY <1>1, <2>4 DEF FreeOfClaims, ClaimHolds
    <3>3. q.at \in PastNights => q.ask.resource # o.ask.resource
      BY <1>1, <1>2, <3>1, <3>2 DEF HoldsItsLocks
    <3> QED
      BY <1>1, <2>1, <3>1, <3>3 DEF Apart, PastApartment
  <2>5. ASSUME NEW e \in Edits, NEW y, y = edit[e], y # None, y.at = "locked"
        PROVE  x.ask.resource # y.resource
    <3>1. RowIsTaken(y) /\ o.at \in PastRow
      BY <1>1, <2>5 DEF IInv, EditsAreProper, PastRow
    <3> QED
      BY <1>1, <2>1, <2>5, <3>1 DEF RowIsTaken
  <2> QED
    BY <1>1, <1>3, <2>1, <2>3, <2>4, <2>5, ClaimMoves
<1> QED
  BY <1>4, <1>5

LEMMA CountsAre ==
  ASSUME NEW S, S \subseteq Claims
  PROVE  IsFiniteSet(S) /\ Cardinality(S) \in Nat
<1>1. IsFiniteSet(S)
  BY FS_Subset, ClaimsAssumption
<1> QED
  BY <1>1, FS_CardinalityType

LEMMA HeldOfIs ==
  ASSUME NEW o
  PROVE  UnstartedOf(o) \subseteq Claims /\ ThatWeekOf(o) \subseteq Claims
BY DEF UnstartedOf, ThatWeekOf, HeldOf

LEMMA ResourceIs ==
  ASSUME TypeOK, NEW r \in Resources, resource[r] # None
  PROVE  /\ resource[r] \in Resource
         /\ resource[r].maxConcurrent \in Quotas /\ resource[r].maxPerWeek \in Quotas
<1>1. resource[r] \in Resource
  BY DEF TypeOK
<1> QED
  BY <1>1 DEF Resource

LEMMA CountQuotasKeeps ==
  ASSUME IInv, NEW c \in Claims, NEW o, o = claim[c], CountQuotas(c)
  PROVE  IInv'
<1>1. /\ o # None /\ OnlyClaims
      /\ o.at = "nights" \/ (o.at = "row" /\ ~Nightly(o.ask.resource))
      /\ IF OverQuota(c) THEN RollBack(c) ELSE Proceed(c, "counted", {})
  BY DEF CountQuotas, ClaimAt, ByTheNight, Nightly
<1>2. /\ o \in Claim /\ Proper(o) /\ o.ask \in Requests /\ o.ask.resource \in Resources
      /\ \A d \in Claims : d # c => \A q \in {claim[d]} \ {None} :
            Proper(q) /\ Apart(o, q) /\ Apart(q, o)
  BY <1>1, ClaimIs
<1>3. ~ClaimAt(c, "booked")
  BY <1>1 DEF ClaimAt
<1>4. CASE OverQuota(c)
  BY <1>1, <1>3, <1>4, ClaimEnds
<1>5. CASE ~OverQuota(c)
  <2>1. PICK x \in Claim :
          /\ Becomes(c, x)
          /\ x.at = "counted" /\ x.holds = o.holds
          /\ x.ask = o.ask /\ x.period = o.period /\ x.now = o.now
    <3>1. "counted" \in Started
      BY DEF Started
    <3>2. Proceed(c, "counted", {})
      BY <1>1, <1>5
    <3> QED
      BY <1>1, <3>1, <3>2, TakesNoLock
  <2>2. HoldsItsLocks(x)
    <3>1. HoldsItsLocks(o)
      BY <1>2 DEF Proper
    <3> QED
      BY <1>1, <1>2, <2>1, <3>1 DEF HoldsItsLocks, PastApartment, PastRow, PastNights
  <2>3. Fits(x)
    <3> DEFINE now == resource[o.ask.resource]
               unstarted == UnstartedOf(o)
               thatWeek == ThatWeekOf(o)
    <3>1. UnstartedOf(x) = unstarted /\ ThatWeekOf(x) = thatWeek
      BY <2>1 DEF UnstartedOf, ThatWeekOf
    <3>2. Cardinality(unstarted) \in Nat /\ Cardinality(thatWeek) \in Nat
      BY CountsAre, HeldOfIs
    <3>3. now.maxConcurrent \in Quotas /\ now.maxPerWeek \in Quotas
      <4>1. Offer(o.ask) = o.period /\ o.period # None
        <5>1. Offer(o.ask) = o.period
          BY <1>1, <1>2 DEF Proper, StandsOn, PastRow
        <5>2. o.period \in [startsAt : Int, endsAt : Int]
          BY <1>2 DEF Claim
        <5> QED
          BY <5>1, <5>2, NoneAssumption
      <4>2. now # None
        BY <4>1 DEF Offer
      <4> QED
        BY <1>2, <4>2, ResourceIs DEF IInv
    <3>4. /\ ~(now.maxConcurrent # None /\ Cardinality(unstarted) >= now.maxConcurrent)
          /\ ~(now.maxPerWeek # None /\ Cardinality(thatWeek) >= now.maxPerWeek)
      BY <1>5 DEF OverQuota, UnstartedOf, ThatWeekOf
    <3> HIDE DEF now, unstarted, thatWeek
    <3>5. /\ now.maxConcurrent # None => Cardinality(unstarted) < now.maxConcurrent
          /\ now.maxPerWeek # None => Cardinality(thatWeek) < now.maxPerWeek
      BY <3>2, <3>3, <3>4 DEF Quotas
    <3> QED
      BY <2>1, <3>1, <3>5 DEF Fits, now
  <2>4. Proper(x)
    <3>1. StandsOn(x) /\ x.now <= clock
      BY <1>1, <1>2, <2>1 DEF Proper, StandsOn, PastRow
    <3>2. IsFree(x)
      BY <1>1, <1>2, <2>1 DEF Proper, IsFree, PastNights
    <3>3. IsAlone(x)
      BY <2>1 DEF IsAlone
    <3> QED
      BY <2>2, <2>3, <3>1, <3>2, <3>3 DEF Proper
  <2>5. ASSUME NEW d \in Claims, d # c, NEW q, q = claim[d], q # None
        PROVE  Apart(x, q) /\ Apart(q, x)
    <3>1. Apart(o, q) /\ Apart(q, o)
      BY <1>2, <2>5
    <3> QED
      BY <1>1, <2>1, <3>1 DEF Apart, PastApartment, PastNights
  <2>6. ASSUME NEW e \in Edits, NEW y, y = edit[e], y # None, y.at = "locked"
        PROVE  x.ask.resource # y.resource
    <3>1. RowIsTaken(y) /\ o.at \in PastRow
      BY <1>1, <2>6 DEF IInv, EditsAreProper, PastRow
    <3> QED
      BY <1>1, <2>1, <2>6, <3>1 DEF RowIsTaken
  <2> QED
    BY <1>1, <1>3, <2>1, <2>4, <2>5, <2>6, ClaimMoves
<1> QED
  BY <1>4, <1>5

LEMMA InsertKeeps ==
  ASSUME IInv, NEW c \in Claims, NEW o, o = claim[c], Insert(c)
  PROVE  IInv'
<1> DEFINE taken == \E b \in Claims : Live(b) /\ SameSlot(c, booking[b].resource,
                                                           booking[b].startsAt)
<1>1. /\ o # None /\ OnlyClaims /\ o.at = "counted"
      /\ \A d \in Claims \ {c} : ~(/\ ClaimAt(d, "inserted")
                                   /\ SameSlot(c, claim[d].ask.resource,
                                                  claim[d].period.startsAt))
      /\ IF taken THEN RollBack(c) ELSE Proceed(c, "inserted", {})
  BY DEF Insert, ClaimAt
<1>2. /\ o \in Claim /\ Proper(o) /\ o.ask.resource \in Resources
      /\ \A d \in Claims : d # c => \A q \in {claim[d]} \ {None} :
            Proper(q) /\ Apart(o, q) /\ Apart(q, o)
  BY <1>1, ClaimIs
<1>3. ~ClaimAt(c, "booked")
  BY <1>1 DEF ClaimAt
<1>4. CASE taken
  <2> HIDE DEF taken
  <2> QED
    BY <1>1, <1>3, <1>4, ClaimEnds
<1>5. CASE ~taken
  <2>1. PICK x \in Claim :
          /\ Becomes(c, x)
          /\ x.at = "inserted" /\ x.holds = o.holds
          /\ x.ask = o.ask /\ x.period = o.period /\ x.now = o.now
    <3>1. "inserted" \in Started
      BY DEF Started
    <3>2. Proceed(c, "inserted", {})
      BY <1>1, <1>5
    <3> QED
      BY <1>1, <3>1, <3>2, TakesNoLock
  <2>2. HoldsItsLocks(x)
    <3>1. HoldsItsLocks(o)
      BY <1>2 DEF Proper
    <3> QED
      BY <1>1, <1>2, <2>1, <3>1 DEF HoldsItsLocks, PastApartment, PastRow, PastNights
  <2>3. Fits(x)
    <3>1. UnstartedOf(x) = UnstartedOf(o) /\ ThatWeekOf(x) = ThatWeekOf(o)
      BY <2>1 DEF UnstartedOf, ThatWeekOf
    <3> QED
      BY <1>1, <1>2, <2>1, <3>1 DEF Proper, Fits
  <2>4. IsAlone(x)
    BY <1>5, <2>1 DEF IsAlone, SameSlot
  <2>5. Proper(x)
    <3>1. StandsOn(x) /\ x.now <= clock
      BY <1>1, <1>2, <2>1 DEF Proper, StandsOn, PastRow
    <3>2. IsFree(x)
      BY <1>1, <1>2, <2>1 DEF Proper, IsFree, PastNights
    <3> QED
      BY <2>2, <2>3, <2>4, <3>1, <3>2 DEF Proper
  <2>6. ASSUME NEW d \in Claims, d # c, NEW q, q = claim[d], q # None
        PROVE  Apart(x, q) /\ Apart(q, x)
    <3>1. Apart(o, q) /\ Apart(q, o)
      BY <1>2, <2>6
    <3>2. q.at = "inserted" =>
             q.ask.resource # o.ask.resource \/ q.period.startsAt # o.period.startsAt
      BY <1>1, <2>6 DEF ClaimAt, SameSlot
    <3> QED
      BY <1>1, <2>1, <3>1, <3>2 DEF Apart, PastApartment, PastNights
  <2>7. ASSUME NEW e \in Edits, NEW y, y = edit[e], y # None, y.at = "locked"
        PROVE  x.ask.resource # y.resource
    <3>1. RowIsTaken(y) /\ o.at \in PastRow
      BY <1>1, <2>7 DEF IInv, EditsAreProper, PastRow
    <3> QED
      BY <1>1, <2>1, <2>7, <3>1 DEF RowIsTaken
  <2> QED
    BY <1>1, <1>3, <2>1, <2>5, <2>6, <2>7, ClaimMoves
<1> QED
  BY <1>4, <1>5

LEMMA AbortKeeps ==
  ASSUME IInv, NEW c \in Claims, Abort(c)
  PROVE  IInv'
BY ClaimEnds DEF Abort, ClaimAt, Started

-----------------------------------------------------------------------------
(* A claim that commits.  What it books is clear of what was booked. *)
LEMMA InsertedIs ==
  ASSUME IInv, NEW c \in Claims, NEW o, o = claim[c], o # None, o.at = "inserted"
  PROVE  /\ o \in Claim /\ Proper(o) /\ o.ask \in Requests /\ o.ask.resource \in Resources
         /\ o.ask.apartment \in Apartments /\ o.ask.person \in People
         /\ Offer(o.ask) = o.period /\ o.period # None
         /\ o.period \in [startsAt : Nat, endsAt : Nat]
         /\ o.period = Period(o.period.startsAt, o.period.endsAt)
         /\ o.period.startsAt < o.period.endsAt
         /\ resource[o.ask.resource] # None
         /\ CheckResourceSchedule(resource[o.ask.resource].schedule)
         /\ o.period = PeriodFor(Zone, resource[o.ask.resource].schedule,
                                 o.ask.startsAt, o.ask.endsAt)
<1>1. /\ o \in Claim /\ Proper(o) /\ o.ask \in Requests /\ o.ask.resource \in Resources
  BY ClaimIs
<1>2. /\ Offer(o.ask) = o.period
      /\ o.ask.apartment \in Apartments /\ o.ask.person \in People
      /\ o.period.startsAt < o.period.endsAt
  BY <1>1 DEF Proper, StandsOn, PastRow
<1>3. o.period \in [startsAt : Nat, endsAt : Nat] /\ o.period # None
  <2>1. o.period \in [startsAt : Nat, endsAt : Nat]
    BY <1>1 DEF Claim
  <2>2. o.period \in [startsAt : Int, endsAt : Int]
    BY <2>1
  <2> QED
    BY <2>1, <2>2, NoneAssumption
<1>4. o.period = Period(o.period.startsAt, o.period.endsAt)
  BY <1>3 DEF Period
<1>5. /\ resource[o.ask.resource] # None
      /\ CheckResourceSchedule(resource[o.ask.resource].schedule)
      /\ o.period = PeriodFor(Zone, resource[o.ask.resource].schedule,
                              o.ask.startsAt, o.ask.endsAt)
  BY <1>1, <1>2, <1>3, OfferIs DEF IInv
<1> QED
  BY <1>1, <1>2, <1>3, <1>4, <1>5

LEMMA LiveIs ==
  ASSUME IInv, NEW b \in Claims, Live(b)
  PROVE  /\ booking[b] \in Row /\ booking[b] # None
         /\ booking[b].startsAt \in Nat /\ booking[b].endsAt \in Nat
         /\ OnTheGrid(booking[b])
<1>1. booking[b] \in Row /\ booking[b] # None
  BY DEF IInv, TypeOK, Live
<1>2. OnTheGrid(booking[b])
  BY DEF IInv, BookingsStand
<1> QED
  BY <1>1, <1>2 DEF Row

LEMMA NewBookingIsClear ==
  ASSUME IInv, NEW c \in Claims, NEW o, o = claim[c], o # None, o.at = "inserted",
         NEW b \in Claims, Live(b), booking[b].endsAt > clock,
         booking[b].resource = o.ask.resource
  PROVE  ~Overlap(booking[b], o.period)
<1> DEFINE s == resource[o.ask.resource].schedule
           row == booking[b]
<1>1. /\ Proper(o) /\ o.period # None /\ o.ask \in Requests
      /\ o.period \in [startsAt : Nat, endsAt : Nat]
      /\ CheckResourceSchedule(s)
      /\ o.period = PeriodFor(Zone, s, o.ask.startsAt, o.ask.endsAt)
  BY InsertedIs
<1>2. CASE Nightly(o.ask.resource)
  BY <1>1, <1>2 DEF Proper, IsFree, PastNights
<1>3. CASE ~Nightly(o.ask.resource)
  <2>1. s.mode # "DATE_RANGE"
    BY <1>3 DEF Nightly
  <2>2. /\ row.startsAt \in Nat /\ row.endsAt \in Nat
        /\ PeriodFor(Zone, s, row.startsAt, row.endsAt) = Period(row.startsAt, row.endsAt)
    BY LiveIs DEF OnTheGrid
  <2>3. row.startsAt # o.period.startsAt
    BY <1>1 DEF Proper, IsAlone
  <2>4. PICK x \in Int, y \in Int \union {None} : x = o.ask.startsAt /\ y = o.ask.endsAt
    <3>1. o.ask.startsAt \in Int /\ o.ask.endsAt \in Int \union {None}
      <4>1. PICK ask \in Requests : ask = o.ask
        BY <1>1
      <4>2. ask.startsAt \in Int /\ ask.endsAt \in Int \union {None}
        BY RequestsAssumption
      <4> QED
        BY <4>1, <4>2
    <3> QED
      BY <3>1
  <2>5. PICK u \in Int, v \in Int \union {None} : u = row.startsAt /\ v = row.endsAt
    BY <2>2
  <2> DEFINE q == Period(row.startsAt, row.endsAt)
             p == o.period
  <2>6. /\ q # None /\ q = PeriodFor(Zone, s, u, v)
        /\ p # None /\ p = PeriodFor(Zone, s, x, y)
    <3>1. q \in [startsAt : Int, endsAt : Int]
      BY <2>2 DEF Period
    <3> QED
      BY <1>1, <2>2, <2>4, <2>5, <3>1, NoneAssumption
  <2>7. p.startsAt # u
    BY <2>3, <2>5
  <2>8. ~Overlap(q, p)
    <3>1. CheckResourceSchedule(s) /\ s.mode # "DATE_RANGE" /\ KeepsMidnights(Zone)
      BY <1>1, <2>1, ZoneAssumption
    <3> HIDE DEF s, q, p
    <3>2. p.startsAt = x
      BY <2>6, <3>1, PeriodForIs
    <3>3. x # u
      BY <2>7, <3>2
    <3> QED
      BY <2>6, <3>1, <3>3, AnswersLieApart
  <2> QED
    BY <2>8 DEF Overlap, Period, q
<1> QED
  BY <1>2, <1>3

RowOf(o) ==
    [resource |-> o.ask.resource, apartment |-> o.ask.apartment,
     person |-> o.ask.person, startsAt |-> o.period.startsAt,
     endsAt |-> o.period.endsAt, status |-> "BOOKED"]

LEMMA CommitIs ==
  ASSUME IInv, NEW c \in Claims, NEW o, o = claim[c], Commit(c)
  PROVE  /\ o # None /\ o.at = "inserted" /\ booking[c] = None
         /\ clock' = clock /\ resource' = resource /\ residency' = residency
         /\ edit' = edit /\ cancel' = cancel
         /\ RowOf(o) \in Row /\ RowOf(o) # None
         /\ booking' \in [Claims -> Row \union {None}] /\ booking'[c] = RowOf(o)
         /\ \A b \in Claims : b # c => booking'[b] = booking[b]
         /\ entries' \in [Claims -> {<<>>, <<"MADE">>, <<"MADE", "CANCELLED">>}]
         /\ entries'[c] = <<"MADE">> /\ \A b \in Claims : b # c => entries'[b] = entries[b]
<1>1. /\ o # None /\ o.at = "inserted" /\ MakeBooking(c)
      /\ clock' = clock /\ resource' = resource /\ residency' = residency
      /\ edit' = edit /\ cancel' = cancel
  BY DEF Commit, ClaimAt
<1>2. /\ o.ask.resource \in Resources /\ o.ask.apartment \in Apartments
      /\ o.ask.person \in People /\ o.period \in [startsAt : Nat, endsAt : Nat]
  BY <1>1, InsertedIs
<1>3. RowOf(o) \in Row
  BY <1>2 DEF RowOf, Row
<1>4. booking' = [booking EXCEPT ![c] = RowOf(o)]
  BY <1>1 DEF MakeBooking, RowOf
<1>5. booking[c] = None /\ entries[c] = <<>>
  BY <1>1 DEF IInv, LogStands, ClaimAt
<1>6. entries' = [entries EXCEPT ![c] = <<"MADE">>]
  <2>1. entries' = [entries EXCEPT ![c] = Append(entries[c], "MADE")]
    BY <1>1 DEF MakeBooking
  <2>2. Append(entries[c], "MADE") = <<"MADE">>
    BY <1>5
  <2> QED
    BY <2>1, <2>2
<1>7. RowOf(o) # None
  BY <1>3, NoRowAssumption
<1>8. /\ booking \in [Claims -> Row \union {None}]
      /\ entries \in [Claims -> {<<>>, <<"MADE">>, <<"MADE", "CANCELLED">>}]
  BY DEF IInv, TypeOK
<1>9. /\ booking' \in [Claims -> Row \union {None}] /\ booking'[c] = RowOf(o)
      /\ \A b \in Claims : b # c => booking'[b] = booking[b]
  BY <1>3, <1>4, <1>8
<1>10. /\ entries' \in [Claims -> {<<>>, <<"MADE">>, <<"MADE", "CANCELLED">>}]
       /\ entries'[c] = <<"MADE">> /\ \A b \in Claims : b # c => entries'[b] = entries[b]
  <2> HIDE <1>5
  <2> QED
    BY <1>6, <1>8
<1> QED
  BY <1>1, <1>3, <1>5, <1>7, <1>9, <1>10

LEMMA CommitEndsClaim ==
  ASSUME IInv, NEW c \in Claims, NEW o, o = claim[c], Commit(c)
  PROVE  \E x \in Claim :
           /\ claim' \in [Claims -> Claim \union {None}] /\ claim'[c] = x
           /\ \A d \in Claims : d # c => claim'[d] = claim[d]
           /\ x.at = "booked" /\ x.holds = {} /\ x # None
           /\ x.ask = o.ask /\ x.period = o.period /\ x.now = o.now
<1> DEFINE x == [o EXCEPT !.at = "booked", !.holds = {}]
<1>1. o \in Claim
  BY CommitIs, InsertedIs
<1>2. /\ x \in Claim /\ x.at = "booked" /\ x.holds = {}
      /\ x.ask = o.ask /\ x.period = o.period /\ x.now = o.now
  BY <1>1 DEF Claim
<1>3. claim' = [claim EXCEPT ![c] = x]
  BY <1>1 DEF Commit, IInv, TypeOK
<1>4. x # None
  BY <1>2, NoRowAssumption
<1> HIDE DEF x
<1>5. /\ claim' \in [Claims -> Claim \union {None}] /\ claim'[c] = x
      /\ \A d \in Claims : d # c => claim'[d] = claim[d]
  BY <1>2, <1>3 DEF IInv, TypeOK
<1> QED
  BY <1>2, <1>4, <1>5

(* The other claims still read what they read. *)
LEMMA CommitKeepsOthers ==
  ASSUME IInv, NEW c \in Claims, NEW o, o = claim[c], Commit(c),
         NEW d \in Claims, d # c, NEW q, q = claim[d], q # None
  PROVE  Proper(q)'
<1>1. /\ o # None /\ o.at = "inserted" /\ booking[c] = None
      /\ clock' = clock /\ resource' = resource
      /\ booking'[c] = RowOf(o) /\ \A b \in Claims : b # c => booking'[b] = booking[b]
  BY CommitIs
<1>2. Proper(q) /\ Apart(o, q) /\ Apart(q, o)
  BY <1>1, ClaimIs
<1>3. RowOf(o).resource = o.ask.resource /\ RowOf(o).apartment = o.ask.apartment
      /\ RowOf(o).startsAt = o.period.startsAt
  BY DEF RowOf
<1>4. HoldsItsLocks(q)' /\ StandsOn(q)'
  BY <1>1, <1>2 DEF Proper, HoldsItsLocks, StandsOn, Offer, Nightly
<1>5. IsFree(q)'
  <2> SUFFICES ASSUME q.at \in PastNights, Nightly(q.ask.resource)',
                      NEW b \in Claims, Live(b)', booking'[b].resource = q.ask.resource
               PROVE  ~Overlap(booking'[b], q.period)
    BY DEF IsFree
  <2>1. Nightly(q.ask.resource)
    BY <1>1 DEF Nightly
  <2>2. b # c
    BY <1>1, <1>2, <1>3, <2>1 DEF Apart, PastNights
  <2>3. Live(b) /\ booking'[b] = booking[b]
    BY <1>1, <2>2 DEF Live
  <2> QED
    BY <1>2, <2>1, <2>3 DEF Proper, IsFree
<1>6. Fits(q)'
  <2> SUFFICES ASSUME q.at \in {"counted", "inserted"} PROVE Fits(q)'
    BY DEF Fits
  <2>1. o.ask.apartment # q.ask.apartment
    BY <1>1, <1>2 DEF Apart, PastApartment
  <2>2. ~Live(c)
    BY <1>1 DEF Live
  <2>3. HeldOf(q.ask.resource, q.ask.apartment)' = HeldOf(q.ask.resource, q.ask.apartment)
    BY <1>1, <1>3, <2>1, <2>2 DEF HeldOf, Live
  <2>4. \A b \in HeldOf(q.ask.resource, q.ask.apartment) : booking'[b] = booking[b]
    BY <1>1, <2>2 DEF HeldOf
  <2>5. UnstartedOf(q)' = UnstartedOf(q) /\ ThatWeekOf(q)' = ThatWeekOf(q)
    BY <2>3, <2>4 DEF UnstartedOf, ThatWeekOf
  <2> QED
    BY <1>1, <1>2, <2>5 DEF Proper, Fits
<1>7. IsAlone(q)'
  <2> SUFFICES ASSUME q.at = "inserted",
                      NEW b \in Claims, Live(b)', booking'[b].resource = q.ask.resource
               PROVE  booking'[b].startsAt # q.period.startsAt
    BY DEF IsAlone
  <2>1. CASE b = c
    BY <1>1, <1>2, <1>3, <2>1 DEF Apart
  <2>2. CASE b # c
    <3>1. Live(b) /\ booking'[b] = booking[b]
      BY <1>1, <2>2 DEF Live
    <3> QED
      BY <1>2, <3>1 DEF Proper, IsAlone
  <2> QED
    BY <2>1, <2>2
<1> QED
  BY <1>1, <1>2, <1>4, <1>5, <1>6, <1>7 DEF Proper

(* What it books is the slot it asked for, of the grid the resource has. *)
LEMMA NewBookingStands ==
  ASSUME IInv, NEW c \in Claims, NEW o, o = claim[c], o # None, o.at = "inserted"
  PROVE  OnTheGrid(RowOf(o))
<1> DEFINE s == resource[o.ask.resource].schedule
           p == o.period
<1>1. /\ resource[o.ask.resource] # None /\ CheckResourceSchedule(s)
      /\ o.ask \in Requests /\ p # None /\ p.startsAt < p.endsAt
      /\ p = Period(p.startsAt, p.endsAt)
      /\ p = PeriodFor(Zone, s, o.ask.startsAt, o.ask.endsAt)
  BY InsertedIs
<1>2. PICK a \in Int, b \in Int \union {None} : a = o.ask.startsAt /\ b = o.ask.endsAt
  <2>1. o.ask.startsAt \in Int /\ o.ask.endsAt \in Int \union {None}
    <3>1. PICK ask \in Requests : ask = o.ask
      BY <1>1
    <3>2. ask.startsAt \in Int /\ ask.endsAt \in Int \union {None}
      BY RequestsAssumption
    <3> QED
      BY <3>1, <3>2
  <2> QED
    BY <2>1
<1>3. PeriodFor(Zone, s, p.startsAt, p.endsAt) = p
  <2>1. p = PeriodFor(Zone, s, a, b)
    BY <1>1, <1>2
  <2> HIDE DEF s, p
  <2> QED
    BY <1>1, <2>1, PeriodForIsKept, ZoneAssumption
<1>4. /\ RowOf(o).resource = o.ask.resource
      /\ RowOf(o).startsAt = p.startsAt /\ RowOf(o).endsAt = p.endsAt
  BY DEF RowOf
<1>5. PeriodFor(Zone, s, p.startsAt, p.endsAt) = Period(p.startsAt, p.endsAt)
  BY <1>1, <1>3
<1> QED
  BY <1>1, <1>4, <1>5 DEF OnTheGrid

LEMMA CommitKeepsBookings ==
  ASSUME IInv, NEW c \in Claims, NEW o, o = claim[c], Commit(c)
  PROVE  BookingsStand' /\ NoDoubleBooking'
<1>1. /\ o # None /\ o.at = "inserted" /\ booking[c] = None
      /\ clock' = clock /\ resource' = resource /\ RowOf(o) # None
      /\ booking'[c] = RowOf(o) /\ \A b \in Claims : b # c => booking'[b] = booking[b]
  BY CommitIs
<1>2. \A b \in Claims : b # c => (Live(b)' <=> Live(b))
  BY <1>1 DEF Live
<1>3. ASSUME NEW b \in Claims, Live(b)', NEW row, row = booking'[b]
      PROVE  OnTheGrid(row)'
  <2>1. OnTheGrid(row)
    <3>1. CASE b = c
      BY <1>1, <1>3, <3>1, NewBookingStands
    <3>2. CASE b # c
      BY <1>1, <1>2, <1>3, <3>2 DEF IInv, BookingsStand
    <3> QED
      BY <3>1, <3>2
  <2> QED
    BY <1>1, <2>1 DEF OnTheGrid
<1>4. BookingsStand'
  BY <1>3 DEF BookingsStand, OnTheGrid, Live
<1>5. ASSUME NEW b \in Claims, b # c, Unfinished(b)',
             booking'[b].resource = booking'[c].resource
      PROVE  ~Overlap(booking'[b], booking'[c]) /\ ~Overlap(booking'[c], booking'[b])
  <2>1. Live(b) /\ booking'[b] = booking[b] /\ booking[b].endsAt > clock
    BY <1>1, <1>2, <1>5 DEF Unfinished
  <2>2. booking[b].resource = o.ask.resource
    BY <1>1, <1>5, <2>1 DEF RowOf
  <2>3. ~Overlap(booking[b], o.period)
    BY <1>1, <2>1, <2>2, NewBookingIsClear
  <2>4. RowOf(o).startsAt = o.period.startsAt /\ RowOf(o).endsAt = o.period.endsAt
    BY DEF RowOf
  <2> QED
    BY <1>1, <2>1, <2>3, <2>4 DEF Overlap
<1>6. NoDoubleBooking'
  <2> SUFFICES ASSUME NEW a \in Claims, NEW b \in Claims, a # b,
                      Unfinished(a)', Unfinished(b)',
                      booking'[a].resource = booking'[b].resource
               PROVE  ~Overlap(booking'[a], booking'[b])
    BY DEF NoDoubleBooking, Overlap
  <2>1. CASE a = c
    BY <1>5, <2>1
  <2>2. CASE b = c
    BY <1>5, <2>2
  <2>3. CASE a # c /\ b # c
    <3>1. Unfinished(a) /\ Unfinished(b) /\ booking'[a] = booking[a]
          /\ booking'[b] = booking[b]
      BY <1>1, <1>2, <2>3 DEF Unfinished
    <3> QED
      BY <3>1 DEF IInv, NoDoubleBooking
  <2> QED
    BY <2>1, <2>2, <2>3
<1> QED
  BY <1>4, <1>6

LEMMA CommitKeeps ==
  ASSUME IInv, NEW c \in Claims, NEW o, o = claim[c], Commit(c)
  PROVE  IInv'
<1>1. /\ o # None /\ o.at = "inserted" /\ booking[c] = None
      /\ clock' = clock /\ resource' = resource /\ residency' = residency
      /\ edit' = edit /\ cancel' = cancel
      /\ RowOf(o) # None /\ RowOf(o).status = "BOOKED"
      /\ booking' \in [Claims -> Row \union {None}] /\ booking'[c] = RowOf(o)
      /\ \A b \in Claims : b # c => booking'[b] = booking[b]
      /\ entries' \in [Claims -> {<<>>, <<"MADE">>, <<"MADE", "CANCELLED">>}]
      /\ entries'[c] = <<"MADE">> /\ \A b \in Claims : b # c => entries'[b] = entries[b]
  BY CommitIs DEF RowOf
<1>2. PICK x \in Claim :
        /\ claim' \in [Claims -> Claim \union {None}] /\ claim'[c] = x
        /\ \A d \in Claims : d # c => claim'[d] = claim[d]
        /\ x.at = "booked" /\ x.holds = {} /\ x # None
        /\ x.ask = o.ask /\ x.period = o.period /\ x.now = o.now
  BY CommitEndsClaim
<1>3. TypeOK'
  BY <1>1, <1>2 DEF IInv, TypeOK
<1>4. Proper(x)'
  <2>1. x.at \notin PastApartment /\ x.at \notin PastRow /\ x.at \notin PastNights
        /\ x.at \notin {"counted", "inserted", "nights"}
    BY <1>2 DEF PastApartment, PastRow, PastNights
  <2>2. Proper(o) /\ o.ask.apartment \in Apartments /\ o.ask.person \in People
        /\ o.period.startsAt < o.period.endsAt
    BY <1>1, InsertedIs
  <2>3. HoldsItsLocks(x)'
    BY <1>2, <2>1 DEF HoldsItsLocks
  <2>4. StandsOn(x)'
    BY <1>2, <2>1, <2>2 DEF StandsOn
  <2>5. IsFree(x)' /\ Fits(x)' /\ IsAlone(x)'
    BY <2>1 DEF IsFree, Fits, IsAlone
  <2> QED
    BY <1>1, <1>2, <2>2, <2>3, <2>4, <2>5 DEF Proper
<1>5. ClaimsAreProper'
  <2> SUFFICES ASSUME NEW d \in Claims, NEW q, q = claim'[d], q # None
               PROVE  Proper(q)'
    BY DEF ClaimsAreProper
  <2>1. CASE d = c
    BY <1>2, <1>4, <2>1
  <2>2. CASE d # c
    BY <1>2, <2>2, CommitKeepsOthers
  <2> QED
    BY <2>1, <2>2
<1>6. ClaimsAreApart'
  <2> SUFFICES ASSUME NEW d \in Claims, NEW k \in Claims, d # k,
                      NEW r, r = claim'[d], r # None, NEW q, q = claim'[k], q # None
               PROVE  Apart(r, q)'
    BY DEF ClaimsAreApart
  <2>1. CASE d # c /\ k # c
    <3>1. Apart(r, q)
      BY <1>2, <2>1 DEF IInv, ClaimsAreApart
    <3> QED
      BY <1>1, <3>1, ApartStays
  <2>2. CASE d = c
    BY <1>2, <2>2 DEF Apart, PastApartment, PastNights
  <2>3. CASE k = c
    BY <1>2, <2>3 DEF Apart, PastApartment, PastNights
  <2> QED
    BY <2>1, <2>2, <2>3
<1>7. EditsAreProper'
  <2> SUFFICES ASSUME NEW e \in Edits, NEW y, y = edit[e], y # None
               PROVE  EditStands(y) /\ RowIsTaken(y)'
    BY <1>1 DEF EditsAreProper, EditStands
  <2>1. EditStands(y) /\ RowIsTaken(y)
    BY DEF IInv, EditsAreProper
  <2>2. ASSUME y.at = "locked", NEW d \in Claims, NEW q, q = claim'[d], q # None,
               q.at \in PastRow
        PROVE  q.ask.resource # y.resource
    <3>1. d # c
      BY <1>2, <2>2 DEF PastRow
    <3> QED
      BY <1>2, <2>1, <2>2, <3>1 DEF RowIsTaken
  <2> QED
    BY <2>1, <2>2 DEF RowIsTaken
<1>8. EditsAreApart'
  BY <1>1 DEF IInv, EditsAreApart
<1>9. LogStands'
  <2>1. ClaimAt(c, "booked")' /\ booking'[c] # None /\ Live(c)'
    BY <1>1, <1>2 DEF ClaimAt, Live
  <2>2. ASSUME NEW b \in Claims, b # c
        PROVE  /\ ClaimAt(b, "booked")' <=> ClaimAt(b, "booked")
               /\ booking'[b] = booking[b] /\ entries'[b] = entries[b]
               /\ Live(b)' <=> Live(b)
    BY <1>1, <1>2, <2>2 DEF ClaimAt, Live
  <2> QED
    BY <1>1, <2>1, <2>2 DEF IInv, LogStands
<1> QED
  BY <1>3, <1>5, <1>6, <1>7, <1>8, <1>9, CommitKeepsBookings DEF IInv

-----------------------------------------------------------------------------
(* A booking that goes takes nothing a claim has read: it only makes room. *)
LEMMA CountsShrink ==
  ASSUME NEW S, NEW T, S \subseteq T, T \subseteq Claims,
         NEW limit \in Quotas, limit # None => Cardinality(T) < limit
  PROVE  limit # None => Cardinality(S) < limit
<1>1. IsFiniteSet(T) /\ Cardinality(T) \in Nat /\ Cardinality(S) \in Nat
  BY CountsAre
<1>2. Cardinality(S) <= Cardinality(T)
  BY <1>1, FS_Subset
<1> QED
  BY <1>1, <1>2 DEF Quotas

LEMMA FitsStill ==
  ASSUME IInv, resource' = resource, NEW o \in Claim, Fits(o), StandsOn(o),
         \A b \in Claims : Live(b)' => Live(b) /\ booking'[b] = booking[b]
  PROVE  Fits(o)'
<1> SUFFICES ASSUME o.at \in {"counted", "inserted"}
             PROVE  Fits(o)'
  BY DEF Fits
<1> DEFINE now == resource[o.ask.resource]
<1>1. HeldOf(o.ask.resource, o.ask.apartment)' \subseteq HeldOf(o.ask.resource, o.ask.apartment)
  BY DEF HeldOf
<1>2. \A b \in HeldOf(o.ask.resource, o.ask.apartment)' : booking'[b] = booking[b]
  BY DEF HeldOf
<1>3. UnstartedOf(o)' \subseteq UnstartedOf(o) /\ ThatWeekOf(o)' \subseteq ThatWeekOf(o)
  BY <1>1, <1>2 DEF UnstartedOf, ThatWeekOf
<1>4. now.maxConcurrent \in Quotas /\ now.maxPerWeek \in Quotas
  <2>1. Offer(o.ask) = o.period
    BY DEF StandsOn, PastRow
  <2>2. o.period \in [startsAt : Int, endsAt : Int] /\ o.ask \in Requests
    BY DEF Claim
  <2>3. o.period # None
    BY <2>2, NoneAssumption
  <2>4. now # None /\ o.ask.resource \in Resources
    BY <2>1, <2>2, <2>3, RequestsAssumption DEF Offer
  <2> QED
    BY <2>4, ResourceIs DEF IInv
<1>5. /\ now.maxConcurrent # None => Cardinality(UnstartedOf(o)) < now.maxConcurrent
      /\ now.maxPerWeek # None => Cardinality(ThatWeekOf(o)) < now.maxPerWeek
  BY DEF Fits
<1>6. /\ now.maxConcurrent # None => Cardinality(UnstartedOf(o)') < now.maxConcurrent
      /\ now.maxPerWeek # None => Cardinality(ThatWeekOf(o)') < now.maxPerWeek
  <2> HIDE DEF now
  <2>1. UnstartedOf(o) \subseteq Claims /\ ThatWeekOf(o) \subseteq Claims
    BY HeldOfIs
  <2>2. now.maxConcurrent # None => Cardinality(UnstartedOf(o)') < now.maxConcurrent
    BY <1>3, <1>4, <1>5, <2>1, CountsShrink
  <2>3. now.maxPerWeek # None => Cardinality(ThatWeekOf(o)') < now.maxPerWeek
    BY <1>3, <1>4, <1>5, <2>1, CountsShrink
  <2> QED
    BY <2>2, <2>3
<1> QED
  BY <1>6 DEF Fits

LEMMA BookingsShrink ==
  ASSUME IInv, clock' = clock, resource' = resource, claim' = claim, edit' = edit,
         \A b \in Claims : Live(b)' => Live(b) /\ booking'[b] = booking[b]
  PROVE  /\ ClaimsAreProper' /\ ClaimsAreApart' /\ EditsAreProper' /\ EditsAreApart'
         /\ BookingsStand' /\ NoDoubleBooking'
<1>1. ASSUME NEW c \in Claims, NEW o, o = claim[c], o # None
      PROVE  Proper(o)'
  <2>1. o \in Claim /\ Proper(o)
    BY <1>1, ClaimIs
  <2>2. HoldsItsLocks(o)' /\ StandsOn(o)'
    BY <2>1 DEF Proper, HoldsItsLocks, StandsOn, Offer, Nightly
  <2>3. IsFree(o)'
    BY <2>1 DEF Proper, IsFree, Nightly
  <2>4. Fits(o)'
    BY <2>1, FitsStill DEF Proper
  <2>5. IsAlone(o)'
    BY <2>1 DEF Proper, IsAlone
  <2> QED
    BY <2>1, <2>2, <2>3, <2>4, <2>5 DEF Proper
<1>2. ClaimsAreProper'
  BY <1>1 DEF ClaimsAreProper
<1>3. ClaimsAreApart'
  <2> SUFFICES ASSUME NEW d \in Claims, NEW k \in Claims, d # k,
                      NEW o, o = claim[d], o # None, NEW q, q = claim[k], q # None
               PROVE  Apart(o, q)'
    BY DEF ClaimsAreApart
  <2>1. Apart(o, q)
    BY DEF IInv, ClaimsAreApart
  <2> QED
    BY <2>1, ApartStays
<1>4. EditsAreProper' /\ EditsAreApart'
  BY DEF IInv, EditsAreProper, EditsAreApart, EditStands, RowIsTaken
<1>5. BookingsStand'
  <2> SUFFICES ASSUME NEW b \in Claims, Live(b)', NEW row, row = booking'[b]
               PROVE  OnTheGrid(row)'
    BY DEF BookingsStand, OnTheGrid
  <2>1. OnTheGrid(row)
    BY LiveIs
  <2> QED
    BY <2>1 DEF OnTheGrid
<1>6. NoDoubleBooking'
  BY DEF IInv, NoDoubleBooking, Unfinished
<1> QED
  BY <1>2, <1>3, <1>4, <1>5, <1>6

LEMMA TwoEntries ==
  Append(<<"MADE">>, "CANCELLED") = <<"MADE", "CANCELLED">>
<1> DEFINE S == {"MADE", "CANCELLED"}
           s == Append(<<"MADE">>, "CANCELLED")
           t == <<"MADE", "CANCELLED">>
<1>1. <<"MADE">> \in Seq(S) /\ "CANCELLED" \in S /\ t \in Seq(S)
  OBVIOUS
<1>2. /\ s \in Seq(S) /\ Len(s) = Len(<<"MADE">>) + 1
      /\ \A i \in 1..Len(<<"MADE">>) : s[i] = <<"MADE">>[i]
      /\ s[Len(<<"MADE">>) + 1] = "CANCELLED"
  BY <1>1, AppendProperties
<1>3. Len(s) = 2 /\ s[1] = "MADE" /\ s[2] = "CANCELLED"
  BY <1>2
<1>4. Len(t) = 2 /\ t[1] = "MADE" /\ t[2] = "CANCELLED"
  OBVIOUS
<1> HIDE DEF s, t
<1>5. s = t
  BY <1>1, <1>2, <1>3, <1>4, SeqEqual
<1> QED
  BY <1>5 DEF s, t

LEMMA CancelWritesKeeps ==
  ASSUME IInv, NEW k \in Cancels, CancelWrites(k)
  PROVE  IInv'
<1>2. PICK b \in Claims : b = cancel[k].booking
  BY DEF CancelWrites, IInv, TypeOK, Cancel
<1>1. /\ cancel[k] # None /\ Live(b) /\ SetCancelled(k)
      /\ booking' = [booking EXCEPT ![b].status = "CANCELLED"]
      /\ entries' = [entries EXCEPT ![b] = Append(@, "CANCELLED")]
      /\ cancel' = [cancel EXCEPT ![k] = None]
      /\ clock' = clock /\ resource' = resource /\ residency' = residency
      /\ claim' = claim /\ edit' = edit
  BY <1>2 DEF CancelWrites, SetCancelled
<1>3. PICK row \in Row : row = booking[b]
  BY <1>1, <1>2, LiveIs
<1>4. [row EXCEPT !.status = "CANCELLED"] \in Row
  BY <1>3 DEF Row
<1>5. PICK gone \in Row : gone = [row EXCEPT !.status = "CANCELLED"] /\ gone # None
  BY <1>4, NoRowAssumption
<1>6. gone.status = "CANCELLED"
  BY <1>3, <1>5 DEF Row
<1>7. /\ booking' \in [Claims -> Row \union {None}] /\ booking'[b] = gone
      /\ \A a \in Claims : a # b => booking'[a] = booking[a]
  <2>1. booking \in [Claims -> Row \union {None}]
    BY DEF IInv, TypeOK
  <2>2. booking' = [booking EXCEPT ![b] = gone]
    BY <1>1, <1>3, <1>5
  <2> QED
    BY <1>2, <2>1, <2>2
<1>8. entries[b] = <<"MADE">>
  BY <1>1, <1>2, LiveIs DEF IInv, LogStands
<1>9. /\ entries' \in [Claims -> {<<>>, <<"MADE">>, <<"MADE", "CANCELLED">>}]
      /\ entries'[b] = <<"MADE", "CANCELLED">>
      /\ \A a \in Claims : a # b => entries'[a] = entries[a]
  <2>1. entries \in [Claims -> {<<>>, <<"MADE">>, <<"MADE", "CANCELLED">>}]
    BY DEF IInv, TypeOK
  <2>2. entries' = [entries EXCEPT ![b] = <<"MADE", "CANCELLED">>]
    <3>1. entries' = [entries EXCEPT ![b] = Append(entries[b], "CANCELLED")]
      BY <1>1
    <3>2. Append(entries[b], "CANCELLED") = <<"MADE", "CANCELLED">>
      BY <1>8, TwoEntries
    <3> QED
      BY <3>1, <3>2
  <2> HIDE <1>8
  <2> QED
    BY <1>2, <2>1, <2>2
<1>10. ~Live(b)' /\ \A a \in Claims : a # b => (Live(a)' <=> Live(a))
  BY <1>6, <1>7 DEF Live
<1>11. cancel' \in [Cancels -> Cancel \union {None}]
  BY <1>1 DEF IInv, TypeOK
<1>12. TypeOK'
  BY <1>1, <1>7, <1>9, <1>11 DEF IInv, TypeOK
<1>13. LogStands'
  <2>1. ClaimAt(b, "booked") /\ booking[b] # None
    BY <1>1, <1>2, LiveIs DEF IInv, LogStands
  <2>2. \A a \in Claims : ClaimAt(a, "booked")' <=> ClaimAt(a, "booked")
    BY <1>1 DEF ClaimAt
  <2>3. booking'[b] # None
    BY <1>5, <1>7
  <2> QED
    BY <1>7, <1>9, <1>10, <2>1, <2>2, <2>3 DEF IInv, LogStands
<1>14. \A a \in Claims : Live(a)' => Live(a) /\ booking'[a] = booking[a]
  BY <1>7, <1>10
<1> QED
  BY <1>1, <1>12, <1>13, <1>14, BookingsShrink DEF IInv

LEMMA PurgePersonKeeps ==
  ASSUME IInv, NEW p \in People, NEW onRequest \in BOOLEAN, PurgePerson(p, onRequest)
  PROVE  IInv'
<1>1. PICK due : /\ booking' = [b \in Claims |-> IF b \in due THEN None ELSE booking[b]]
                 /\ clock' = clock /\ resource' = resource /\ residency' = residency
                 /\ entries' = entries /\ claim' = claim /\ edit' = edit /\ cancel' = cancel
  BY DEF PurgePerson
<1>2. \A b \in Claims : booking'[b] = None \/ booking'[b] = booking[b]
  BY <1>1
<1>3. TypeOK'
  BY <1>1 DEF IInv, TypeOK
<1>4. \A b \in Claims : booking'[b] # None => booking'[b] = booking[b] /\ (Live(b)' <=> Live(b))
  BY <1>2 DEF Live
<1>5. \A b \in Claims : Live(b)' => Live(b) /\ booking'[b] = booking[b]
  BY <1>4 DEF Live
<1>6. LogStands'
  <2>1. \A b \in Claims : ClaimAt(b, "booked")' <=> ClaimAt(b, "booked")
    BY <1>1 DEF ClaimAt
  <2>2. ASSUME NEW b \in Claims, ~ClaimAt(b, "booked")
        PROVE  booking'[b] = None /\ entries[b] = <<>>
    BY <1>2, <2>2 DEF IInv, LogStands
  <2>3. ASSUME NEW b \in Claims, booking'[b] # None
        PROVE  entries[b] = IF Live(b)' THEN <<"MADE">> ELSE <<"MADE", "CANCELLED">>
    BY <1>4, <2>3 DEF IInv, LogStands
  <2> QED
    BY <1>1, <2>1, <2>2, <2>3 DEF IInv, LogStands
<1> QED
  BY <1>1, <1>3, <1>5, <1>6, BookingsShrink DEF IInv

(* What touches neither the clock, the tables, the claims nor the edits. *)
LEMMA CancelMoves ==
  ASSUME IInv, OnlyCancels, cancel' \in [Cancels -> Cancel \union {None}]
  PROVE  IInv'
<1>1. /\ clock' = clock /\ resource' = resource /\ residency' = residency
      /\ booking' = booking /\ entries' = entries /\ edit' = edit /\ claim' = claim
  BY DEF OnlyCancels, tables
<1>2. \A b \in Claims : Live(b)' => Live(b) /\ booking'[b] = booking[b]
  BY <1>1 DEF Live
<1>3. TypeOK'
  BY <1>1 DEF IInv, TypeOK
<1>4. LogStands'
  BY <1>1 DEF IInv, LogStands, Live, ClaimAt
<1> QED
  BY <1>1, <1>2, <1>3, <1>4, BookingsShrink DEF IInv

LEMMA CancelReadsKeeps ==
  ASSUME IInv, NEW k \in Cancels, NEW b \in Claims, NEW board \in BOOLEAN,
         CancelReads(k, b, board)
  PROVE  IInv'
<1> DEFINE x == [booking |-> b, board |-> board, now |-> clock]
<1>1. x \in Cancel
  BY DEF Cancel, IInv, TypeOK
<1>2. cancel' = [cancel EXCEPT ![k] = x] /\ OnlyCancels
  BY DEF CancelReads
<1> HIDE DEF x
<1>3. cancel' \in [Cancels -> Cancel \union {None}]
  BY <1>1, <1>2 DEF IInv, TypeOK
<1> QED
  BY <1>2, <1>3, CancelMoves

LEMMA CancelRefusedKeeps ==
  ASSUME IInv, NEW k \in Cancels, CancelRefused(k)
  PROVE  IInv'
<1>1. cancel' = [cancel EXCEPT ![k] = None] /\ OnlyCancels
  BY DEF CancelRefused
<1>2. cancel' \in [Cancels -> Cancel \union {None}]
  BY <1>1 DEF IInv, TypeOK
<1> QED
  BY <1>1, <1>2, CancelMoves

LEMMA MoveOutKeeps ==
  ASSUME IInv, NEW h \in residency, NEW day \in MoveOutDays, MoveOut(h, day)
  PROVE  IInv'
<1>1. /\ clock' = clock /\ resource' = resource /\ cancel' = cancel
      /\ booking' = booking /\ entries' = entries /\ edit' = edit /\ claim' = claim
      /\ residency' = (residency \ {h}) \union {[h EXCEPT !.movedOut = day]}
  BY DEF MoveOut
<1>2. [h EXCEPT !.movedOut = day] \in
         [person : People, apartment : Apartments, movedIn : Int, movedOut : Int \union {None}]
  BY TimesAssumption DEF IInv, TypeOK
<1>3. TypeOK'
  BY <1>1, <1>2 DEF IInv, TypeOK
<1>4. \A b \in Claims : Live(b)' => Live(b) /\ booking'[b] = booking[b]
  BY <1>1 DEF Live
<1>5. LogStands'
  BY <1>1 DEF IInv, LogStands, Live, ClaimAt
<1> QED
  BY <1>1, <1>3, <1>4, <1>5, BookingsShrink DEF IInv

-----------------------------------------------------------------------------
(* The board's edits.  What an edit writes no claim has read. *)
LEMMA ResourceChanges ==
  ASSUME IInv, NEW r \in Resources, clock' = clock, booking' = booking, claim' = claim,
         \A q \in Resources : q # r => resource'[q] = resource[q],
         \A c \in Claims : \A o \in {claim[c]} \ {None} :
             o.at \in PastRow => o.ask.resource # r
  PROVE  ClaimsAreProper' /\ ClaimsAreApart'
<1>1. ASSUME NEW c \in Claims, NEW o, o = claim[c], o # None, o.at \in PastRow
      PROVE  resource'[o.ask.resource] = resource[o.ask.resource]
  BY <1>1, ClaimIs
<1>2. PastNights \subseteq PastRow /\ {"nights", "counted", "inserted"} \subseteq PastRow
  BY DEF PastNights, PastRow
<1>3. ASSUME NEW c \in Claims, NEW o, o = claim[c], o # None
      PROVE  Proper(o)'
  <2>1. Proper(o)
    BY <1>3, ClaimIs
  <2>2. o.at \in PastRow => resource'[o.ask.resource] = resource[o.ask.resource]
    BY <1>1, <1>3
  <2>3. HoldsItsLocks(o)'
    BY <1>2, <2>1, <2>2 DEF Proper, HoldsItsLocks, Nightly
  <2>4. StandsOn(o)'
    BY <1>2, <2>1, <2>2 DEF Proper, StandsOn, Offer, Nightly
  <2>5. IsFree(o)'
    BY <1>2, <2>1, <2>2 DEF Proper, IsFree, Nightly, Live
  <2>6. Fits(o)'
    <3>1. UnstartedOf(o)' = UnstartedOf(o) /\ ThatWeekOf(o)' = ThatWeekOf(o)
      BY DEF UnstartedOf, ThatWeekOf, HeldOf, Live
    <3> QED
      BY <1>2, <2>1, <2>2, <3>1 DEF Proper, Fits
  <2>7. IsAlone(o)'
    BY <2>1 DEF Proper, IsAlone, Live
  <2> QED
    BY <2>1, <2>3, <2>4, <2>5, <2>6, <2>7 DEF Proper
<1>4. ClaimsAreProper'
  BY <1>3 DEF ClaimsAreProper
<1>5. ClaimsAreApart'
  <2> SUFFICES ASSUME NEW d \in Claims, NEW k \in Claims, d # k,
                      NEW o, o = claim[d], o # None, NEW q, q = claim[k], q # None
               PROVE  Apart(o, q)'
    BY DEF ClaimsAreApart
  <2>1. Apart(o, q)
    BY DEF IInv, ClaimsAreApart
  <2>2. o.at \in PastRow => resource'[o.ask.resource] = resource[o.ask.resource]
    BY <1>1
  <2> QED
    BY <1>2, <2>1, <2>2 DEF Apart, Nightly
<1> QED
  BY <1>4, <1>5

LEMMA ConfiguredIs ==
  ASSUME NEW config \in Configs, Validated(config)
  PROVE  /\ Configured(config) \in Resource /\ Configured(config) # None
         /\ CheckResourceSchedule(Configured(config).schedule)
         /\ Configured(config).schedule = config.schedule
<1>1. Configured(config) \in Resource
  BY DEF Validated, Configured, Resource
<1> QED
  BY <1>1, NoRowAssumption DEF Validated, Configured

LEMMA CreateKeeps ==
  ASSUME IInv, NEW r \in Resources, NEW config \in Configs, Create(r, config)
  PROVE  IInv'
<1>1. PICK x \in Resource : /\ x # None /\ CheckResourceSchedule(x.schedule)
                            /\ resource' = [resource EXCEPT ![r] = x]
  BY ConfiguredIs DEF Create
<1>2. /\ resource[r] = None
      /\ clock' = clock /\ residency' = residency /\ booking' = booking
      /\ entries' = entries /\ claim' = claim /\ edit' = edit /\ cancel' = cancel
  BY DEF Create
<1>3. /\ resource' \in [Resources -> Resource \union {None}] /\ resource'[r] = x
      /\ \A q \in Resources : q # r => resource'[q] = resource[q]
  BY <1>1 DEF IInv, TypeOK
<1>4. TypeOK'
  BY <1>1, <1>2, <1>3 DEF IInv, TypeOK
<1>5. ASSUME NEW c \in Claims, NEW o, o = claim[c], o # None, o.at \in PastRow
      PROVE  o.ask.resource # r
  <2>1. Offer(o.ask) = o.period /\ o.period \in [startsAt : Int, endsAt : Int]
    BY <1>5, ClaimIs DEF Proper, StandsOn, Claim
  <2> QED
    BY <1>2, <2>1, NoneAssumption DEF Offer
<1>6. ClaimsAreProper' /\ ClaimsAreApart'
  BY <1>2, <1>3, <1>5, ResourceChanges
<1>7. EditsAreProper' /\ EditsAreApart'
  BY <1>2 DEF IInv, EditsAreProper, EditsAreApart, EditStands, RowIsTaken
<1>8. BookingsStand'
  <2> SUFFICES ASSUME NEW b \in Claims, Live(b)', NEW row, row = booking[b]
               PROVE  OnTheGrid(row)'
    BY <1>2 DEF BookingsStand, OnTheGrid
  <2>1. OnTheGrid(row) /\ row \in Row
    BY <1>2, LiveIs DEF Live
  <2>2. row.resource \in Resources /\ row.resource # r
    BY <1>2, <2>1 DEF OnTheGrid, Row
  <2>3. resource'[row.resource] = resource[row.resource]
    BY <1>3, <2>2
  <2> QED
    BY <1>2, <2>1, <2>3 DEF OnTheGrid
<1>9. NoDoubleBooking' /\ LogStands'
  BY <1>2 DEF IInv, NoDoubleBooking, Unfinished, LogStands, Live, ClaimAt
<1> QED
  BY <1>4, <1>6, <1>7, <1>8, <1>9 DEF IInv

(* An edit takes a step, and becomes x. *)
EditBecomes(e, x) == edit' = [edit EXCEPT ![e] = x]

LEMMA EditMoves ==
  ASSUME IInv, NEW e \in Edits, NEW x \in Edit \union {None},
         EditBecomes(e, x),
         clock' = clock, booking' = booking, claim' = claim,
         x # None => EditStands(x) /\ RowIsTaken(x),
         \A f \in Edits : f # e => \A y \in {edit[f]} \ {None} :
             x # None /\ x.at = "locked" /\ y.at = "locked" => x.resource # y.resource
  PROVE  /\ edit' \in [Edits -> Edit \union {None}]
         /\ EditsAreProper' /\ EditsAreApart'
<1>1. /\ edit' \in [Edits -> Edit \union {None}] /\ edit'[e] = x
      /\ \A f \in Edits : f # e => edit'[f] = edit[f]
  BY DEF IInv, TypeOK, EditBecomes
<1>2. EditsAreProper'
  <2> SUFFICES ASSUME NEW f \in Edits, NEW y, y = edit'[f], y # None
               PROVE  EditStands(y) /\ RowIsTaken(y)'
    BY DEF EditsAreProper, EditStands
  <2>1. EditStands(y) /\ RowIsTaken(y)
    BY <1>1 DEF IInv, EditsAreProper
  <2> QED
    BY <2>1 DEF RowIsTaken
<1>3. EditsAreApart'
  <2> SUFFICES ASSUME NEW f \in Edits, NEW g \in Edits, f # g,
                      NEW y, y = edit'[f], y # None, NEW z, z = edit'[g], z # None,
                      y.at = "locked", z.at = "locked"
               PROVE  y.resource # z.resource
    BY DEF EditsAreApart
  <2>1. CASE f # e /\ g # e
    BY <1>1, <2>1 DEF IInv, EditsAreApart
  <2>2. CASE f = e
    BY <1>1, <2>2
  <2>3. CASE g = e
    BY <1>1, <2>3
  <2> QED
    BY <2>1, <2>2, <2>3
<1> QED
  BY <1>1, <1>2, <1>3

LEMMA EditMovesAlone ==
  ASSUME IInv, OnlyEdits, edit' \in [Edits -> Edit \union {None}],
         EditsAreProper', EditsAreApart'
  PROVE  IInv'
<1>1. /\ clock' = clock /\ resource' = resource /\ residency' = residency
      /\ booking' = booking /\ entries' = entries /\ claim' = claim /\ cancel' = cancel
  BY DEF OnlyEdits, tables
<1>2. TypeOK'
  BY <1>1 DEF IInv, TypeOK
<1>3. ClaimsAreProper'
  <2> SUFFICES ASSUME NEW d \in Claims, NEW o, o = claim[d], o # None
               PROVE  Proper(o)'
    BY <1>1 DEF ClaimsAreProper
  <2>1. Proper(o)
    BY DEF IInv, ClaimsAreProper
  <2> QED
    BY <1>1, <2>1, ReadsStay
<1>4. ClaimsAreApart'
  <2> SUFFICES ASSUME NEW d \in Claims, NEW k \in Claims, d # k,
                      NEW o, o = claim[d], o # None, NEW q, q = claim[k], q # None
               PROVE  Apart(o, q)'
    BY <1>1 DEF ClaimsAreApart
  <2>1. Apart(o, q)
    BY DEF IInv, ClaimsAreApart
  <2> QED
    BY <1>1, <2>1, ApartStays
<1>5. LogStands'
  BY <1>1 DEF IInv, LogStands, Live, ClaimAt
<1> QED
  BY <1>1, <1>2, <1>3, <1>4, <1>5, BookingsStay DEF IInv

LEMMA EditAskKeeps ==
  ASSUME IInv, NEW e \in Edits, NEW r \in Resources, NEW to \in Configs \union {None},
         EditAsk(e, r, to)
  PROVE  IInv'
<1>1. PICK x \in Edit : /\ x = [at |-> "asked", resource |-> r, to |-> to, holds |-> {}]
                        /\ x # None
  <2>1. [at |-> "asked", resource |-> r, to |-> to, holds |-> {}] \in Edit
    BY DEF Edit
  <2> QED
    BY <2>1, NoRowAssumption
<1>2. /\ EditBecomes(e, x) /\ OnlyEdits /\ (to # None => Validated(to))
  BY <1>1 DEF EditAsk, EditBecomes
<1>3. EditStands(x) /\ RowIsTaken(x) /\ x.at # "locked"
  BY <1>1, <1>2 DEF EditStands, RowIsTaken
<1>4. /\ edit' \in [Edits -> Edit \union {None}]
      /\ EditsAreProper' /\ EditsAreApart'
  BY <1>2, <1>3, EditMoves DEF OnlyEdits, tables
<1> QED
  BY <1>2, <1>4, EditMovesAlone

LEMMA EditLocksKeeps ==
  ASSUME IInv, NEW e \in Edits, EditLocks(e)
  PROVE  IInv'
<1>1. PICK u : u = edit[e]
  OBVIOUS
<1>2. /\ u # None /\ u.at = "asked" /\ OnlyEdits
      /\ edit' = [edit EXCEPT ![e].at = "locked", ![e].holds = {RowLock(u.resource)}]
      /\ \A c \in Claims : ~ClaimHolds(c, RowLock(u.resource))
      /\ \A f \in Edits \ {e} : ~EditHolds(f, RowLock(u.resource))
  BY <1>1 DEF EditLocks, TakeRow
<1>3. u \in Edit /\ EditStands(u)
  BY <1>1, <1>2 DEF IInv, TypeOK, EditsAreProper
<1>4. PICK x \in Edit : /\ x = [u EXCEPT !.at = "locked", !.holds = {RowLock(u.resource)}]
                        /\ x # None
  <2>1. RowLock(u.resource) \in Locks
    BY <1>3 DEF Edit, Locks
  <2>2. [u EXCEPT !.at = "locked", !.holds = {RowLock(u.resource)}] \in Edit
    BY <1>3, <2>1 DEF Edit
  <2> QED
    BY <2>2, NoRowAssumption
<1>5. /\ x.at = "locked" /\ x.resource = u.resource /\ x.to = u.to
      /\ x.holds = {RowLock(u.resource)} /\ u.resource \in Resources
  BY <1>3, <1>4 DEF Edit
<1>6. EditBecomes(e, x)
  BY <1>1, <1>2, <1>4 DEF IInv, TypeOK, EditBecomes
<1>7. EditStands(x)
  BY <1>3, <1>5 DEF EditStands
<1>8. RowIsTaken(x)
  <2> SUFFICES ASSUME NEW c \in Claims, NEW o, o = claim[c], o # None, o.at \in PastRow
               PROVE  o.ask.resource # x.resource
    BY DEF RowIsTaken
  <2>1. HoldsItsLocks(o)
    BY ClaimIs DEF Proper
  <2>2. RowLock(u.resource) \notin o.holds
    BY <1>2 DEF ClaimHolds
  <2> QED
    BY <1>5, <2>1, <2>2 DEF HoldsItsLocks
<1>9. ASSUME NEW f \in Edits, f # e, NEW y, y = edit[f], y # None, y.at = "locked"
      PROVE  x.resource # y.resource
  <2>1. y.holds = {RowLock(y.resource)}
    BY <1>9 DEF IInv, EditsAreProper, EditStands
  <2>2. RowLock(u.resource) \notin y.holds
    BY <1>2, <1>9 DEF EditHolds
  <2> QED
    BY <1>5, <2>1, <2>2
<1>10. /\ edit' \in [Edits -> Edit \union {None}]
       /\ EditsAreProper' /\ EditsAreApart'
  <2>1. clock' = clock /\ booking' = booking /\ claim' = claim
    BY <1>2 DEF OnlyEdits, tables
  <2>2. \A f \in Edits : f # e => \A y \in {edit[f]} \ {None} :
          x # None /\ x.at = "locked" /\ y.at = "locked" => x.resource # y.resource
    BY <1>9
  <2> QED
    BY <1>6, <1>7, <1>8, <2>1, <2>2, EditMoves
<1> QED
  BY <1>2, <1>10, EditMovesAlone

LEMMA EditRollsBackKeeps ==
  ASSUME IInv, NEW e \in Edits, EditRollsBack(e)
  PROVE  IInv'
<1>1. EditBecomes(e, None) /\ OnlyEdits
  BY DEF EditRollsBack, EditEnds, EditBecomes, OnlyEdits, tables
<1>2. /\ edit' \in [Edits -> Edit \union {None}]
      /\ EditsAreProper' /\ EditsAreApart'
  BY <1>1, EditMoves DEF OnlyEdits, tables
<1> QED
  BY <1>1, <1>2, EditMovesAlone

(* An edit writes alone: no claim is past its row, and the bookings to come *)
(* keep their grid.                                                         *)
LEMMA EditWritesKeeps ==
  ASSUME IInv, NEW e \in Edits, EditWrites(e)
  PROVE  IInv'
<1>1. PICK u : u = edit[e]
  OBVIOUS
<1>2. /\ u # None /\ u.at = "locked" /\ EditAllowed(e)
      /\ resource' = [resource EXCEPT ![u.resource] =
             IF u.to = None THEN [@ EXCEPT !.withdrawn = TRUE] ELSE Configured(u.to)]
      /\ EditBecomes(e, None)
      /\ clock' = clock /\ residency' = residency /\ booking' = booking
      /\ entries' = entries /\ claim' = claim /\ cancel' = cancel
  BY <1>1 DEF EditWrites, EditEnds, EditBecomes
<1>3. u \in Edit /\ EditStands(u) /\ RowIsTaken(u)
  BY <1>1, <1>2 DEF IInv, TypeOK, EditsAreProper
<1>4. PICK r \in Resources : r = u.resource
  BY <1>3 DEF Edit
<1>5. /\ resource[r] # None /\ ~resource[r].withdrawn
      /\ u.to # None /\ Standing(r) # {} => u.to.schedule = resource[r].schedule
  BY <1>1, <1>2, <1>4 DEF EditAllowed
<1>6. PICK x \in Resource :
        /\ x # None /\ CheckResourceSchedule(x.schedule)
        /\ resource' = [resource EXCEPT ![r] = x]
        /\ x.schedule = resource[r].schedule \/ Standing(r) = {}
  <2>1. CASE u.to = None
    <3>1. resource[r] \in Resource /\ CheckResourceSchedule(resource[r].schedule)
      BY <1>5 DEF IInv, TypeOK
    <3>2. PICK was \in Resource : was = resource[r]
      BY <3>1
    <3>3. /\ [was EXCEPT !.withdrawn = TRUE] \in Resource
          /\ [was EXCEPT !.withdrawn = TRUE].schedule = was.schedule
      BY DEF Resource
    <3>4. resource' = [resource EXCEPT ![r] = [was EXCEPT !.withdrawn = TRUE]]
      BY <1>2, <1>4, <2>1, <3>2
    <3>5. [was EXCEPT !.withdrawn = TRUE] # None
      BY <3>3, NoRowAssumption
    <3> QED
      BY <3>1, <3>2, <3>3, <3>4, <3>5
  <2>2. CASE u.to # None
    <3>1. u.to \in Configs /\ Validated(u.to)
      BY <1>3, <2>2 DEF Edit, EditStands
    <3>2. resource' = [resource EXCEPT ![r] = Configured(u.to)]
      BY <1>2, <1>4, <2>2
    <3> QED
      BY <1>5, <2>2, <3>1, <3>2, ConfiguredIs
  <2> QED
    BY <2>1, <2>2
<1>7. /\ resource' \in [Resources -> Resource \union {None}] /\ resource'[r] = x
      /\ \A q \in Resources : q # r => resource'[q] = resource[q]
  BY <1>6 DEF IInv, TypeOK
<1>8. /\ edit' \in [Edits -> Edit \union {None}]
      /\ EditsAreProper' /\ EditsAreApart'
  BY <1>2, EditMoves
<1>9. TypeOK'
  BY <1>2, <1>6, <1>7, <1>8 DEF IInv, TypeOK
<1>10. ClaimsAreProper' /\ ClaimsAreApart'
  BY <1>2, <1>3, <1>4, <1>7, ResourceChanges DEF RowIsTaken
<1>11. BookingsStand'
  <2> SUFFICES ASSUME NEW b \in Claims, Live(b)', NEW row, row = booking[b]
               PROVE  OnTheGrid(row)'
    BY <1>2 DEF BookingsStand, OnTheGrid
  <2>1. OnTheGrid(row) /\ row \in Row /\ Live(b)
    BY <1>2, LiveIs DEF Live
  <2>2. row.resource \in Resources
    BY <2>1 DEF Row
  <2>3. resource'[row.resource] # None
    BY <1>6, <1>7, <2>1, <2>2 DEF OnTheGrid
  <2>4. row.endsAt > clock => resource'[row.resource].schedule = resource[row.resource].schedule
    <3>1. CASE row.resource = r
      <4>1. row.endsAt > clock => b \in Standing(r)
        BY <2>1, <3>1 DEF Standing
      <4> QED
        BY <1>6, <1>7, <3>1, <4>1
    <3>2. CASE row.resource # r
      BY <1>7, <2>2, <3>2
    <3> QED
      BY <3>1, <3>2
  <2> QED
    BY <1>2, <2>1, <2>3, <2>4 DEF OnTheGrid
<1>12. NoDoubleBooking' /\ LogStands'
  BY <1>2 DEF IInv, NoDoubleBooking, Unfinished, LogStands, Live, ClaimAt
<1> QED
  BY <1>8, <1>9, <1>10, <1>11, <1>12 DEF IInv

-----------------------------------------------------------------------------
LEMMA TickKeeps ==
  ASSUME IInv, Tick
  PROVE  IInv'
<1>1. /\ resource' = resource /\ residency' = residency /\ booking' = booking
      /\ entries' = entries /\ claim' = claim /\ edit' = edit /\ cancel' = cancel
      /\ clock < MaxClock /\ clock' = clock + 1
  BY DEF Tick, tables
<1>2. clock \in Int /\ clock' \in 0..MaxClock
  BY <1>1, TimesAssumption DEF IInv, TypeOK
<1>3. TypeOK'
  BY <1>1, <1>2 DEF IInv, TypeOK
<1>4. ASSUME NEW c \in Claims, NEW o, o = claim[c], o # None
      PROVE  Proper(o)'
  <2>1. Proper(o) /\ o \in Claim
    BY <1>4, ClaimIs
  <2>2. HoldsItsLocks(o)' /\ StandsOn(o)' /\ IsFree(o)'
    BY <1>1, <2>1 DEF Proper, HoldsItsLocks, StandsOn, IsFree, Offer, Nightly, Live
  <2>3. Fits(o)'
    <3>1. UnstartedOf(o)' = UnstartedOf(o) /\ ThatWeekOf(o)' = ThatWeekOf(o)
      BY <1>1 DEF UnstartedOf, ThatWeekOf, HeldOf, Live
    <3> QED
      BY <1>1, <2>1, <3>1 DEF Proper, Fits
  <2>4. IsAlone(o)'
    BY <1>1, <2>1 DEF Proper, IsAlone, Live
  <2>5. o.now \in Int /\ o.now <= clock
    BY <2>1, TimesAssumption DEF Proper, Claim
  <2>6. o.now <= clock'
    BY <1>1, <1>2, <2>5
  <2> QED
    BY <2>2, <2>3, <2>4, <2>6 DEF Proper
<1>5. ClaimsAreProper'
  BY <1>1, <1>4 DEF ClaimsAreProper
<1>6. ClaimsAreApart'
  BY <1>1 DEF IInv, ClaimsAreApart, Apart, Nightly
<1>7. EditsAreProper' /\ EditsAreApart'
  BY <1>1 DEF IInv, EditsAreProper, EditsAreApart, EditStands, RowIsTaken
<1>8. ASSUME NEW b \in Claims, Live(b), booking[b].endsAt > clock'
      PROVE  booking[b].endsAt > clock
  <2>1. booking[b].endsAt \in Int
    BY <1>8, LiveIs
  <2> QED
    BY <1>1, <1>2, <1>8, <2>1
<1>9. BookingsStand'
  <2> SUFFICES ASSUME NEW b \in Claims, Live(b), NEW row, row = booking[b]
               PROVE  OnTheGrid(row)'
    BY <1>1 DEF BookingsStand, OnTheGrid, Live
  <2> QED
    BY <1>1, <1>8, LiveIs DEF OnTheGrid
<1>10. NoDoubleBooking'
  BY <1>1, <1>8 DEF IInv, NoDoubleBooking, Unfinished, Live
<1>11. LogStands'
  BY <1>1 DEF IInv, LogStands, Live, ClaimAt
<1> QED
  BY <1>3, <1>5, <1>6, <1>7, <1>9, <1>10, <1>11 DEF IInv

LEMMA InitHolds == Init => IInv
<1> SUFFICES ASSUME Init PROVE IInv
  OBVIOUS
<1>1. TypeOK
  BY TimesAssumption, ResidenciesAssumption DEF Init, TypeOK
<1>2. ClaimsAreProper /\ ClaimsAreApart /\ EditsAreProper /\ EditsAreApart
  BY DEF Init, ClaimsAreProper, ClaimsAreApart, EditsAreProper, EditsAreApart
<1>3. BookingsStand /\ NoDoubleBooking /\ LogStands
  BY DEF Init, BookingsStand, NoDoubleBooking, Unfinished, LogStands, Live, ClaimAt
<1> QED
  BY <1>1, <1>2, <1>3 DEF IInv

LEMMA ClaimStepKeeps ==
  ASSUME IInv, NEW c \in Claims, ClaimStep(c)
  PROVE  IInv'
<1>1. PICK o : o = claim[c]
  OBVIOUS
<1> QED
  BY <1>1, LockApartmentKeeps, LockRowKeeps, LockNightsKeeps, CountQuotasKeeps,
     InsertKeeps, CommitKeeps DEF ClaimStep

LEMMA NextKeeps == IInv /\ [Next]_vars => IInv'
<1> SUFFICES ASSUME IInv, [Next]_vars PROVE IInv'
  OBVIOUS
<1>1. CASE \E c \in Claims, ask \in Requests : Ask(c, ask)
  BY <1>1, AskKeeps
<1>2. CASE \E c \in Claims : ClaimStep(c) \/ Abort(c)
  BY <1>2, ClaimStepKeeps, AbortKeeps
<1>3. CASE \E k \in Cancels, b \in Claims, board \in BOOLEAN : CancelReads(k, b, board)
  BY <1>3, CancelReadsKeeps
<1>4. CASE \E k \in Cancels : CancelWrites(k) \/ CancelRefused(k)
  BY <1>4, CancelWritesKeeps, CancelRefusedKeeps
<1>5. CASE \E r \in Resources, config \in Configs : Create(r, config)
  BY <1>5, CreateKeeps
<1>6. CASE \E e \in Edits, r \in Resources, to \in Configs \union {None} : EditAsk(e, r, to)
  BY <1>6, EditAskKeeps
<1>7. CASE \E e \in Edits : EditLocks(e) \/ EditWrites(e) \/ EditRollsBack(e)
  BY <1>7, EditLocksKeeps, EditWritesKeeps, EditRollsBackKeeps
<1>8. CASE \E p \in People, onRequest \in BOOLEAN : PurgePerson(p, onRequest)
  BY <1>8, PurgePersonKeeps
<1>9. CASE \E h \in residency, day \in MoveOutDays : MoveOut(h, day)
  BY <1>9, MoveOutKeeps
<1>10. CASE Tick
  BY <1>10, TickKeeps
<1>11. CASE UNCHANGED vars
  <2>1. OnlyCancels /\ cancel' = cancel
    BY <1>11 DEF vars, OnlyCancels
  <2> QED
    BY <2>1, CancelMoves DEF IInv, TypeOK
<1> QED
  BY <1>1, <1>2, <1>3, <1>4, <1>5, <1>6, <1>7, <1>8, <1>9, <1>10, <1>11 DEF Next

-----------------------------------------------------------------------------
(* book(), cancel(), update() and the resource's edits, in whatever order  *)
(* their statements and commits fall: the locks a claim waits for, the row *)
(* it read and the bookings the board left standing agree all the while.   *)
THEOREM InvariantHolds == Spec => []IInv
<1> QED
  BY InitHolds, NextKeeps, PTL DEF Spec

(* bookings.ts, audit-log.ts: every row, request and edit of the bookings  *)
(* keeps its shape, and every resource a schedule checkResourceSchedule    *)
(* would store.                                                            *)
THEOREM TypeCorrect == Spec => []TypeOK
<1>1. IInv => TypeOK
  BY DEF IInv
<1> QED
  BY <1>1, InvariantHolds, PTL

(* book(): refuseOverlap by the night, the partial index and the disjoint  *)
(* grid by the slot, and update(), which keeps the grid under bookings to  *)
(* come, together leave no moment booked twice.                            *)
THEOREM NothingIsBookedTwice == Spec => []NoDoubleBooking
<1>1. IInv => NoDoubleBooking
  BY DEF IInv
<1> QED
  BY <1>1, InvariantHolds, PTL

(* update() under the row's lock: whatever edits and claims interleave, an *)
(* unfinished booking is what its resource's schedule offers now.          *)
THEOREM BookingsKeepTheirGrid == Spec => []BookingsAreOnTheGrid
<1>1. ASSUME IInv PROVE BookingsAreOnTheGrid
  BY <1>1 DEF IInv, BookingsStand, BookingsAreOnTheGrid, Unfinished, OnTheGrid
<1>2. IInv => BookingsAreOnTheGrid
  BY <1>1
<1> QED
  BY <1>2, InvariantHolds, PTL

(* cancel() and book(): the entries of a booking are written with its row, *)
(* and no two cancellations both write.                                    *)
THEOREM LogIsTheRowsStory == Spec => []LogTellsTheRow
<1>1. ASSUME IInv PROVE LogTellsTheRow
  <2> SUFFICES ASSUME NEW b \in Claims
               PROVE  /\ booking[b] # None =>
                           entries[b] = IF Live(b) THEN <<"MADE">> ELSE <<"MADE", "CANCELLED">>
                      /\ entries[b] # <<>> => ClaimAt(b, "booked")
                      /\ ClaimAt(b, "booked") => Len(entries[b]) \in 1..2
    BY DEF LogTellsTheRow
  <2>1. /\ ~ClaimAt(b, "booked") => booking[b] = None /\ entries[b] = <<>>
        /\ ClaimAt(b, "booked") => entries[b] # <<>>
        /\ booking[b] # None =>
             entries[b] = IF Live(b) THEN <<"MADE">> ELSE <<"MADE", "CANCELLED">>
    BY <1>1 DEF IInv, LogStands
  <2>2. entries[b] \in {<<>>, <<"MADE">>, <<"MADE", "CANCELLED">>}
    BY <1>1 DEF IInv, TypeOK
  <2>3. Len(<<"MADE">>) \in 1..2 /\ Len(<<"MADE", "CANCELLED">>) \in 1..2
    OBVIOUS
  <2>4. ClaimAt(b, "booked") => Len(entries[b]) \in 1..2
    BY <2>1, <2>2, <2>3
  <2> QED
    BY <2>1, <2>4
<1>2. IInv => LogTellsTheRow
  BY <1>1
<1> QED
  BY <1>2, InvariantHolds, PTL

(* Who may hold the lock a claim waits for is further on than the claim. *)
LEMMA HoldersAreAhead ==
  ASSUME IInv, NEW c \in Claims, NEW d \in Claims, ClaimWaitsFor(c, d)
  PROVE  \/ ClaimAt(c, "asked") /\ claim[d].at \in PastApartment
         \/ ClaimAt(c, "row") /\ claim[d].at \in PastNights
         \/ ClaimAt(c, "counted") /\ ClaimAt(d, "inserted")
<1>1. PICK o, q : o = claim[c] /\ q = claim[d]
  OBVIOUS
<1>2. o # None /\ q # None
  BY <1>1 DEF ClaimWaitsFor, ClaimAt, ClaimHolds
<1>3. /\ o.ask.apartment \in Apartments /\ o.ask.resource \in Resources
      /\ HoldsItsLocks(q)
  BY <1>1, <1>2, ClaimIs DEF Proper, StandsOn
<1>4. ApartmentLock(o.ask.apartment) \in q.holds => q.at \in PastApartment
  BY <1>3 DEF HoldsItsLocks
<1>5. NightsLock(o.ask.resource) \in q.holds => q.at \in PastNights
  BY <1>3 DEF HoldsItsLocks
<1> QED
  BY <1>1, <1>4, <1>5 DEF ClaimWaitsFor, ClaimHolds

(* booking-lock.ts, "one order, stated here and taken nowhere else, is     *)
(* enough": of any transactions the furthest on waits for none of them.    *)
THEOREM NobodyWaitsForever == Spec => []NoWaitCycle
<1>1. ASSUME IInv PROVE NoWaitCycle
  <2> DEFINE Free(c, S) == \A d \in S \ {c} : ~ClaimWaitsFor(c, d)
             Done(e) == edit[e] = None \/ edit[e].at = "locked"
  <2>1. ASSUME NEW S \in SUBSET Claims, S # {}
        PROVE  \E c \in S : Free(c, S)
    <3>1. CASE \E c \in S : ~ClaimAt(c, "asked") /\ ~ClaimAt(c, "row") /\ ~ClaimAt(c, "counted")
      BY <3>1 DEF ClaimWaitsFor
    <3>2. ASSUME \A c \in S : ClaimAt(c, "asked") \/ ClaimAt(c, "row") \/ ClaimAt(c, "counted"),
                 NEW c \in S, ClaimAt(c, "counted")
          PROVE  Free(c, S)
      <4>1. \A d \in S : ~ClaimAt(d, "inserted") /\ ~ClaimAt(c, "asked") /\ ~ClaimAt(c, "row")
        BY <3>2 DEF ClaimAt
      <4> QED
        BY <1>1, <4>1, HoldersAreAhead
    <3>3. ASSUME \A c \in S : ClaimAt(c, "asked") \/ ClaimAt(c, "row"),
                 NEW c \in S, ClaimAt(c, "row")
          PROVE  Free(c, S)
      <4>1. \A d \in S : claim[d].at \notin PastNights
        BY <3>3 DEF ClaimAt, PastNights
      <4>2. ~ClaimAt(c, "asked") /\ ~ClaimAt(c, "counted")
        BY <3>3 DEF ClaimAt
      <4> QED
        BY <1>1, <4>1, <4>2, HoldersAreAhead
    <3>4. ASSUME \A c \in S : ClaimAt(c, "asked"), NEW c \in S
          PROVE  Free(c, S)
      <4>1. \A d \in S : claim[d].at \notin PastApartment
        BY <3>4 DEF ClaimAt, PastApartment
      <4>2. ~ClaimAt(c, "row") /\ ~ClaimAt(c, "counted")
        BY <3>4 DEF ClaimAt
      <4> QED
        BY <1>1, <4>1, <4>2, HoldersAreAhead
    <3> HIDE DEF Free
    <3> QED
      BY <2>1, <3>1, <3>2, <3>3, <3>4
  <2>2. ASSUME NEW f \in Edits, ~Done(f), NEW lock
        PROVE  ~EditHolds(f, lock)
    BY <1>1, <2>2 DEF IInv, TypeOK, EditsAreProper, EditStands, EditHolds, Edit
  <2>3. ASSUME NEW S \in SUBSET Claims, NEW T \in SUBSET Edits, S # {} \/ T # {},
               \A e \in T : ~Done(e)
        PROVE  \/ \E c \in S :
                    /\ \A d \in S \ {c} : ~ClaimWaitsFor(c, d)
                    /\ \A e \in T : ~(/\ ClaimAt(c, "apartment")
                                      /\ edit[e] # None /\ edit[e].at = "locked"
                                      /\ EditHolds(e, RowLock(claim[c].ask.resource)))
               \/ \E e \in T : /\ \A c \in S : ~ClaimHolds(c, RowLock(edit[e].resource))
                               /\ \A f \in T \ {e} : ~EditHolds(f, RowLock(edit[e].resource))
    <3>1. CASE S # {}
      BY <2>1, <2>3, <3>1
    <3>2. CASE S = {}
      BY <2>2, <2>3, <3>2
    <3> QED
      BY <3>1, <3>2
  <2> SUFFICES ASSUME NEW S \in SUBSET Claims, NEW T \in SUBSET Edits, S # {} \/ T # {}
               PROVE  \/ \E c \in S :
                           /\ \A d \in S \ {c} : ~ClaimWaitsFor(c, d)
                           /\ \A e \in T : ~(/\ ClaimAt(c, "apartment")
                                             /\ edit[e] # None /\ edit[e].at = "locked"
                                             /\ EditHolds(e, RowLock(claim[c].ask.resource)))
                      \/ \E e \in T :
                           \/ edit[e] = None \/ edit[e].at = "locked"
                           \/ LET lock == RowLock(edit[e].resource)
                              IN  /\ \A c \in S : ~ClaimHolds(c, lock)
                                  /\ \A f \in T \ {e} : ~EditHolds(f, lock)
    BY DEF NoWaitCycle
  <2> QED
    BY <2>3
<1>2. IInv => NoWaitCycle
  BY <1>1
<1> QED
  BY <1>2, InvariantHolds, PTL

(* deactivate(): a claim reads the resource again under its row's lock, and *)
(* holds that lock until its booking is committed.                          *)
THEOREM WithdrawnIsNotBooked == Spec => NoneMadeAfterWithdrawal
<1>1. ASSUME IInv, NEW c \in Claims, Booked(c)
      PROVE  ~resource[claim[c].ask.resource].withdrawn
  <2>1. PICK o : o = claim[c]
    OBVIOUS
  <2>2. o # None /\ o.at = "inserted"
    BY <1>1, <2>1 DEF Booked, ClaimAt
  <2>3. Offer(o.ask) = o.period /\ o.period # None
    BY <1>1, <2>1, <2>2, InsertedIs
  <2> QED
    BY <2>1, <2>3 DEF Offer
<1>2. IInv /\ [Next]_vars =>
        [\A c \in Claims : Booked(c) => ~resource[claim[c].ask.resource].withdrawn]_vars
  BY <1>1
<1> QED
  BY <1>2, InvariantHolds, PTL DEF Spec, NoneMadeAfterWithdrawal

-----------------------------------------------------------------------------
(* What one step can do to a claim, and to a booking. *)
SameRequest(c) ==
    /\ claim[c] # None /\ claim'[c].at # "booked"
    /\ claim'[c].ask = claim[c].ask /\ claim'[c].period = claim[c].period

LEMMA ClaimStepIs ==
  ASSUME IInv, NEW c \in Claims, ClaimStep(c) \/ Abort(c), ~Commit(c)
  PROVE  /\ OnlyClaims /\ \A d \in Claims : d # c => claim'[d] = claim[d]
         /\ claim'[c] = None \/ SameRequest(c)
<1>1. PICK o : o = claim[c]
  OBVIOUS
<1>2. OnlyClaims /\ o # None
  BY <1>1 DEF ClaimStep, Abort, LockApartment, LockRow, LockNights, CountQuotas, Insert, ClaimAt
<1>3. o \in Claim /\ claim \in [Claims -> Claim \union {None}]
  BY <1>1, <1>2, ClaimIs DEF IInv, TypeOK
<1>4. RollBack(c) \/ \E step \in Started : \E locks : Proceed(c, step, locks)
  BY DEF ClaimStep, Abort, LockApartment, LockRow, LockNights, CountQuotas, Insert, Started
<1>5. CASE RollBack(c)
  BY <1>2, <1>3, <1>5 DEF RollBack
<1>6. ASSUME NEW step \in Started, NEW locks, Proceed(c, step, locks)
      PROVE  /\ \A d \in Claims : d # c => claim'[d] = claim[d]
             /\ SameRequest(c)
  <2>1. PICK x : x = [o EXCEPT !.at = step, !.holds = @ \union locks]
    OBVIOUS
  <2>2. /\ x.at = step /\ x.ask = o.ask /\ x.period = o.period
        /\ x \in [at : Started, ask : {o.ask}, period : {o.period}, now : {o.now},
                  holds : {o.holds \union locks}]
    BY <1>3, <2>1 DEF Claim
  <2>3. claim' = [claim EXCEPT ![c] = x]
    BY <1>1, <1>3, <1>6, <2>1 DEF Proceed
  <2>4. claim'[c] = x /\ \A d \in Claims : d # c => claim'[d] = claim[d]
    BY <1>3, <2>3
  <2>5. step # "booked"
    BY DEF Started
  <2> QED
    BY <1>1, <1>2, <2>2, <2>4, <2>5 DEF SameRequest
<1> QED
  BY <1>2, <1>4, <1>5, <1>6

LEMMA StepsOfClaims ==
  ASSUME IInv, [Next]_vars, NEW c \in Claims
  PROVE  \/ claim'[c] = claim[c] \/ claim'[c] = None
         \/ \E ask \in Requests : Ask(c, ask)
         \/ Commit(c)
         \/ SameRequest(c)
<1>1. ASSUME NEW d \in Claims, NEW ask \in Requests, Ask(d, ask), d # c
      PROVE  claim'[c] = claim[c]
  BY <1>1 DEF Ask, IInv, TypeOK
<1>2. ASSUME NEW d \in Claims, Commit(d), d # c
      PROVE  claim'[c] = claim[c]
  BY <1>2 DEF Commit, IInv, TypeOK
<1>3. ASSUME NEW d \in Claims, ClaimStep(d) \/ Abort(d), ~Commit(d)
      PROVE  claim'[c] = claim[c] \/ claim'[c] = None \/ SameRequest(c)
  BY <1>3, ClaimStepIs
<1>4. CASE \E d \in Claims : ClaimStep(d) \/ Abort(d)
  BY <1>2, <1>3, <1>4
<1>5. CASE \E d \in Claims, ask \in Requests : Ask(d, ask)
  BY <1>1, <1>5
<1>6. CASE UNCHANGED claim
  BY <1>6
<1>7. \/ \E d \in Claims : ClaimStep(d) \/ Abort(d)
      \/ \E d \in Claims, ask \in Requests : Ask(d, ask)
      \/ UNCHANGED claim
  <2>1. UNCHANGED vars => UNCHANGED claim
    BY DEF vars
  <2> QED
    BY <2>1 DEF Next, CancelReads, CancelWrites, CancelRefused, Create, EditAsk, EditLocks,
       EditWrites, EditRollsBack, PurgePerson, MoveOut, Tick, OnlyCancels, OnlyEdits,
       SetCancelled, TakeRow, EditEnds
<1> QED
  BY <1>4, <1>5, <1>6, <1>7

LEMMA StepsOfBookings ==
  ASSUME IInv, [Next]_vars, NEW b \in Claims
  PROVE  booking'[b] = booking[b] \/ ~Live(b)' \/ Commit(b)
<1>1. ASSUME NEW c \in Claims, Commit(c), b # c
      PROVE  booking'[b] = booking[b]
  BY <1>1 DEF Commit, MakeBooking, IInv, TypeOK
<1>2. ASSUME NEW c \in Claims, ClaimStep(c) \/ Abort(c), ~Commit(c)
      PROVE  booking'[b] = booking[b]
  BY <1>2, ClaimStepIs DEF OnlyClaims, tables
<1>3. ASSUME NEW k \in Cancels, CancelWrites(k)
      PROVE  booking'[b] = booking[b] \/ ~Live(b)'
  <2>1. PICK a : a = cancel[k].booking
    OBVIOUS
  <2>2. booking' = [booking EXCEPT ![a].status = "CANCELLED"]
    BY <1>3, <2>1 DEF CancelWrites, SetCancelled
  <2>3. booking[b] \in Row \union {None} /\ booking \in [Claims -> Row \union {None}]
    BY DEF IInv, TypeOK
  <2>4. CASE a = b
    <3>1. booking[b] \in Row
      BY <1>3, <2>1, <2>3, <2>4 DEF CancelWrites, Live
    <3>2. booking'[b] = [booking[b] EXCEPT !.status = "CANCELLED"]
      BY <2>2, <2>3, <2>4
    <3>3. booking'[b].status = "CANCELLED"
      BY <3>1, <3>2 DEF Row
    <3> QED
      BY <3>3 DEF Live
  <2>5. CASE a # b
    BY <2>2, <2>3, <2>5
  <2> QED
    BY <2>4, <2>5
<1>4. ASSUME NEW p \in People, NEW onRequest \in BOOLEAN, PurgePerson(p, onRequest)
      PROVE  booking'[b] = booking[b] \/ ~Live(b)'
  <2>1. booking'[b] = booking[b] \/ booking'[b] = None
    BY <1>4 DEF PurgePerson
  <2> QED
    BY <2>1 DEF Live
<1>5. \/ \E c \in Claims : ClaimStep(c) \/ Abort(c)
      \/ \E k \in Cancels : CancelWrites(k)
      \/ \E p \in People, onRequest \in BOOLEAN : PurgePerson(p, onRequest)
      \/ UNCHANGED booking
  <2>1. UNCHANGED vars => UNCHANGED booking
    BY DEF vars, tables
  <2> QED
    BY <2>1 DEF Next, Ask, OnlyClaims, CancelReads, CancelRefused, Create, EditAsk, EditLocks,
       EditWrites, EditRollsBack, MoveOut, Tick, OnlyCancels, OnlyEdits, TakeRow, EditEnds, tables
<1> QED
  BY <1>1, <1>2, <1>3, <1>4, <1>5

(* refuseOverQuota: what was counted under the apartment's lock is still   *)
(* the count at the commit, and the quotas are those of the locked row.    *)
LEMMA OneMore ==
  ASSUME NEW S, S \subseteq Claims, NEW c \in Claims, NEW T, T \subseteq S \union {c},
         NEW limit \in Quotas, limit # None => Cardinality(S) < limit
  PROVE  limit # None => Cardinality(T) <= limit
<1>1. IsFiniteSet(S) /\ Cardinality(S) \in Nat
  BY CountsAre
<1>2. /\ IsFiniteSet(S \union {c})
      /\ Cardinality(S \union {c}) = Cardinality(S) \/ Cardinality(S \union {c}) = Cardinality(S) + 1
  BY <1>1, FS_AddElement
<1>3. Cardinality(T) \in Nat /\ Cardinality(T) <= Cardinality(S \union {c})
  <2>1. IsFiniteSet(T) /\ Cardinality(T) <= Cardinality(S \union {c})
    BY <1>2, FS_Subset
  <2> QED
    BY <2>1, FS_CardinalityType
<1> QED
  BY <1>1, <1>2, <1>3 DEF Quotas

LEMMA CommitKeepsQuotas ==
  ASSUME IInv, NEW c \in Claims, Commit(c)
  PROVE  QuotasKept(c)'
<1>1. PICK o : o = claim[c]
  OBVIOUS
<1>2. /\ o # None /\ o.at = "inserted" /\ booking[c] = None
      /\ clock' = clock /\ resource' = resource
      /\ booking'[c] = RowOf(o) /\ \A b \in Claims : b # c => booking'[b] = booking[b]
  BY <1>1, CommitIs
<1>3. /\ RowOf(o).resource = o.ask.resource /\ RowOf(o).apartment = o.ask.apartment
      /\ RowOf(o).startsAt = o.period.startsAt
  BY DEF RowOf
<1>4. /\ o \in Claim /\ Proper(o) /\ o.ask.resource \in Resources
      /\ resource[o.ask.resource] # None
  BY <1>1, <1>2, InsertedIs
<1> DEFINE now == resource[o.ask.resource]
           held == HeldOf(o.ask.resource, o.ask.apartment)'
           unstarted == {b \in held : booking'[b].startsAt > clock}
           thatWeek == {b \in held : LocalWeekOf(Zone, booking'[b].startsAt)
                                       = LocalWeekOf(Zone, o.period.startsAt)}
<1>5. \A b \in held : b = c \/ /\ b \in HeldOf(o.ask.resource, o.ask.apartment)
                               /\ booking'[b] = booking[b] /\ Live(b)
  BY <1>2 DEF HeldOf, Live
<1>6. unstarted \subseteq UnstartedOf(o) \union {c}
  <2> SUFFICES ASSUME NEW b \in held, b # c, booking'[b].startsAt > clock
               PROVE  b \in UnstartedOf(o)
    OBVIOUS
  <2>1. /\ b \in HeldOf(o.ask.resource, o.ask.apartment) /\ booking'[b] = booking[b] /\ Live(b)
    BY <1>5
  <2>2. booking[b].startsAt \in Nat
    BY <2>1, LiveIs DEF HeldOf
  <2>3. o.now \in Int /\ clock \in Int /\ o.now <= clock
    BY <1>4, TimesAssumption DEF Proper, Claim, IInv, TypeOK
  <2>4. booking[b].startsAt > o.now
    BY <2>1, <2>2, <2>3
  <2> QED
    BY <2>1, <2>4 DEF UnstartedOf
<1>7. thatWeek \subseteq ThatWeekOf(o) \union {c}
  BY <1>5 DEF ThatWeekOf
<1>8. now.maxConcurrent \in Quotas /\ now.maxPerWeek \in Quotas
  BY <1>4, ResourceIs DEF IInv
<1>9. /\ now.maxConcurrent # None => Cardinality(UnstartedOf(o)) < now.maxConcurrent
      /\ now.maxPerWeek # None => Cardinality(ThatWeekOf(o)) < now.maxPerWeek
  BY <1>2, <1>4 DEF Proper, Fits
<1>10. /\ now.maxConcurrent # None => Cardinality(unstarted) <= now.maxConcurrent
       /\ now.maxPerWeek # None => Cardinality(thatWeek) <= now.maxPerWeek
  <2>1. UnstartedOf(o) \subseteq Claims /\ ThatWeekOf(o) \subseteq Claims
    BY HeldOfIs
  <2> HIDE DEF now, unstarted, thatWeek
  <2>2. now.maxConcurrent # None => Cardinality(unstarted) <= now.maxConcurrent
    BY <1>6, <1>8, <1>9, <2>1, OneMore
  <2>3. now.maxPerWeek # None => Cardinality(thatWeek) <= now.maxPerWeek
    BY <1>7, <1>8, <1>9, <2>1, OneMore
  <2> QED
    BY <2>2, <2>3
<1> QED
  BY <1>2, <1>3, <1>10 DEF QuotasKept

(* refuseOverQuota counts under the apartment's lock: the booking a commit *)
(* adds leaves its apartment within the quotas the claim read.             *)
THEOREM QuotasAreKept == Spec => WithinQuotas
<1>1. ASSUME IInv, [Next]_vars, NEW c \in Claims, Booked(c)
      PROVE  QuotasKept(c)'
  <2>1. claim[c] # None /\ claim[c].at = "inserted" /\ claim'[c] # None /\ claim'[c].at = "booked"
    BY <1>1 DEF Booked, ClaimAt
  <2>2. Commit(c)
    <3>1. claim'[c] # claim[c] /\ claim'[c] # None /\ ~SameRequest(c)
      BY <2>1 DEF SameRequest
    <3>2. ~\E ask \in Requests : Ask(c, ask)
      BY <2>1 DEF Ask
    <3> QED
      BY <1>1, <3>1, <3>2, StepsOfClaims
  <2> QED
    BY <1>1, <2>2, CommitKeepsQuotas
<1>2. IInv /\ [Next]_vars => [\A c \in Claims : Booked(c) => QuotasKept(c)']_vars
  BY <1>1
<1> QED
  BY <1>2, InvariantHolds, PTL DEF Spec, WithinQuotas

-----------------------------------------------------------------------------
(* A residency that covers a period, of the person and the apartment. *)
Stays(person, apartment, startsAt, endsAt) ==
    \E h \in residency :
        /\ h.person = person /\ h.apartment = apartment
        /\ h.movedIn <= LocalDayOf(Zone, startsAt)
        /\ h.movedOut # None => h.movedOut > LocalDayOf(Zone, endsAt - 1)

ClaimsAreAtHome ==
    \A c \in Claims : \A o \in {claim[c]} \ {None} :
        Stays(o.ask.person, o.ask.apartment, o.period.startsAt, o.period.endsAt)
BookersAreAtHome ==
    \A b \in Claims : Live(b) =>
        Stays(booking[b].person, booking[b].apartment,
              booking[b].startsAt, booking[b].endsAt)

LEMMA HomesAreKept ==
  ASSUME IInv, [Next]_vars, residency' = residency, ClaimsAreAtHome, BookersAreAtHome
  PROVE  ClaimsAreAtHome' /\ BookersAreAtHome'
<1>1. \A p, a, s, e : Stays(p, a, s, e)' <=> Stays(p, a, s, e)
  BY DEF Stays
<1>2. ASSUME NEW c \in Claims, NEW x, x = claim'[c], x # None
      PROVE  Stays(x.ask.person, x.ask.apartment, x.period.startsAt, x.period.endsAt)
  <2>1. CASE claim'[c] = claim[c]
    BY <1>2, <2>1 DEF ClaimsAreAtHome
  <2>2. ASSUME NEW ask \in Requests, Ask(c, ask)
        PROVE  Stays(x.ask.person, x.ask.apartment, x.period.startsAt, x.period.endsAt)
    <3>1. x.ask = ask /\ x.period = Offer(ask) /\ HoldsApartment(ask, Offer(ask))
      BY <1>2, <2>2 DEF Ask, IInv, TypeOK
    <3> QED
      BY <3>1 DEF HoldsApartment, Covers, Stays
  <2>3. CASE Commit(c)
    <3>1. PICK o : o = claim[c] /\ o # None
      BY <2>3 DEF Commit, ClaimAt
    <3>2. x.ask = o.ask /\ x.period = o.period
      BY <1>2, <2>3, <3>1, CommitEndsClaim
    <3> QED
      BY <3>1, <3>2 DEF ClaimsAreAtHome
  <2>4. CASE SameRequest(c)
    <3>1. PICK o : o = claim[c] /\ o # None
      BY <2>4 DEF SameRequest
    <3>2. x.ask = o.ask /\ x.period = o.period
      BY <1>2, <2>4, <3>1 DEF SameRequest
    <3> QED
      BY <3>1, <3>2 DEF ClaimsAreAtHome
  <2> QED
    BY <1>2, <2>1, <2>2, <2>3, <2>4, StepsOfClaims
<1>3. ASSUME NEW b \in Claims, Live(b)', NEW row, row = booking'[b]
      PROVE  Stays(row.person, row.apartment, row.startsAt, row.endsAt)
  <2>1. CASE booking'[b] = booking[b]
    <3>1. Live(b)
      BY <1>3, <2>1 DEF Live
    <3> QED
      BY <1>3, <2>1, <3>1 DEF BookersAreAtHome
  <2>2. CASE Commit(b)
    <3>1. PICK o : o = claim[b]
      OBVIOUS
    <3>2. o # None /\ row = RowOf(o)
      BY <1>3, <2>2, <3>1, CommitIs
    <3> QED
      BY <3>1, <3>2 DEF RowOf, ClaimsAreAtHome
  <2> QED
    BY <1>3, <2>1, <2>2, StepsOfBookings
<1>4. ClaimsAreAtHome'
  BY <1>1, <1>2 DEF ClaimsAreAtHome
<1>5. BookersAreAtHome'
  BY <1>1, <1>3 DEF BookersAreAtHome
<1> QED
  BY <1>4, <1>5

LEMMA DaysAreInts ==
  ASSUME NEW t \in Int
  PROVE  LocalDayOf(Zone, t) \in Int
<1>1. Offset(Zone, t) \in -DayLength..DayLength
  BY OffsetIs, ZoneAssumption
<1> QED
  BY <1>1, LengthAssumption, DayOfMinute DEF LocalDayOf

(* residencyCoveringPeriod looks at the day a period opens on and at the   *)
(* day of its last moment: as long as no move-out is recorded, every       *)
(* moment between lies in the residency too.                               *)
THEOREM HeldWhileNobodyMoves ==
  Spec /\ [][UNCHANGED residency]_vars => []HeldThroughout
<1>1. Init => ClaimsAreAtHome /\ BookersAreAtHome
  BY DEF Init, ClaimsAreAtHome, BookersAreAtHome, Live
<1>2. IInv /\ ClaimsAreAtHome /\ BookersAreAtHome /\ [Next]_vars
        /\ [UNCHANGED residency]_vars
        => (ClaimsAreAtHome /\ BookersAreAtHome)'
  <2>1. UNCHANGED vars => UNCHANGED residency
    BY DEF vars, tables
  <2> QED
    BY <2>1, HomesAreKept
<1>3. ASSUME IInv, BookersAreAtHome PROVE HeldThroughout
  <2> SUFFICES ASSUME NEW b \in Claims, Live(b),
                      NEW t \in booking[b].startsAt..(booking[b].endsAt - 1)
               PROVE  \E h \in residency :
                        /\ h.person = booking[b].person
                        /\ h.apartment = booking[b].apartment
                        /\ h.movedIn <= LocalDayOf(Zone, t)
                        /\ h.movedOut # None => LocalDayOf(Zone, t) < h.movedOut
    BY DEF HeldThroughout
  <2>1. PICK from \in Int, last \in Int :
          from = booking[b].startsAt /\ last = booking[b].endsAt - 1
    <3>1. booking[b].startsAt \in Int /\ booking[b].endsAt - 1 \in Int
      BY <1>3, LiveIs
    <3> QED
      BY <3>1
  <2>2. t \in Int /\ from <= t /\ t <= last
    BY <2>1
  <2>3. PICK h \in residency :
          /\ h.person = booking[b].person /\ h.apartment = booking[b].apartment
          /\ h.movedIn <= LocalDayOf(Zone, from)
          /\ h.movedOut # None => h.movedOut > LocalDayOf(Zone, last)
    BY <1>3, <2>1 DEF BookersAreAtHome, Stays
  <2>4. h.movedIn \in Int /\ h.movedOut \in Int \union {None}
    BY <1>3 DEF IInv, TypeOK
  <2>5. /\ LocalDayOf(Zone, from) <= LocalDayOf(Zone, t)
        /\ LocalDayOf(Zone, t) <= LocalDayOf(Zone, last)
    BY <2>2, DaysKeepOrder, ZoneAssumption
  <2>6. /\ LocalDayOf(Zone, from) \in Int /\ LocalDayOf(Zone, t) \in Int
        /\ LocalDayOf(Zone, last) \in Int
    BY <2>2, DaysAreInts
  <2> QED
    BY <2>3, <2>4, <2>5, <2>6
<1>4. IInv /\ BookersAreAtHome => HeldThroughout
  BY <1>3
<1> QED
  BY <1>1, <1>2, <1>4, InvariantHolds, PTL DEF Spec
=============================================================================
