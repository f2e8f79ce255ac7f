----------------------------- MODULE SlotEngine -----------------------------
(***************************************************************************)
(* What a bookable resource offers (bookings/slot-engine.ts), how its      *)
(* schedule is checked (bookings/resource-schedule.ts), and the local      *)
(* calendar both stand on (packages/shared/src/stockholm-calendar.ts).     *)
(*                                                                         *)
(* An instant is a natural number; the wall clock reads the instant plus   *)
(* an offset that changes at most once, forward or back.                   *)
(***************************************************************************)
EXTENDS Integers, Sequences

CONSTANTS
    DayLength,      \* MINUTES_PER_DAY
    WeekLength,     \* days in a local week
    MaxNights,      \* MAX_BOOKING_NIGHTS
    None            \* null

ASSUME LengthAssumption ==
    DayLength \in Nat \ {0} /\ WeekLength \in Nat \ {0} /\ MaxNights \in Nat \ {0}
ASSUME NoneAssumption == None \notin Int /\ None \notin [startsAt : Int, endsAt : Int]

(* The wall clock: what it is ahead by before and from the moment it shifts. *)
Offset(zone, t) == IF t < zone.at THEN zone.before ELSE zone.after

LocalDayOf(zone, t) == (t + Offset(zone, t)) \div DayLength

IsLocally(zone, t, day, minute) ==
    t + Offset(zone, t) = day * DayLength + minute

(* The instant the wall clock reads a time of a day: with the offset of    *)
(* the day before if that reads back, else with that of the day after;     *)
(* a time the clock jumped over has none.                                  *)
InstantAt(zone, day, minuteOfDay) ==
    LET shift  == minuteOfDay \div DayLength
        on     == day + shift
        minute == minuteOfDay - shift * DayLength
        asIfUtc == on * DayLength + minute
        before == asIfUtc - Offset(zone, asIfUtc - DayLength)
        after  == asIfUtc - Offset(zone, asIfUtc + DayLength)
    IN  IF IsLocally(zone, before, on, minute) THEN before
        ELSE IF IsLocally(zone, after, on, minute) THEN after
        ELSE None

(* A clock that is never a day off and never skips a midnight, nor passes  *)
(* one twice (stockholm-calendar.ts, localWeekAround: "Sweden's clock has  *)
(* never skipped midnight").                                               *)
KeepsMidnights(zone) ==
    /\ zone \in [at : Int, before : -DayLength..DayLength,
                after : -DayLength..DayLength]
    /\ \/ zone.before = zone.after
       \/ LocalDayOf(zone, zone.at - 1) = LocalDayOf(zone, zone.at)

(* The local week an instant falls in, as its first day. *)
LocalWeekOf(zone, t) == LocalDayOf(zone, t) \div WeekLength

-----------------------------------------------------------------------------
(* checkResourceSchedule: what a board may store. *)
CheckResourceSchedule(s) ==
    IF s.mode # "TIME_SLOTS"
    THEN s.slotMinutes = None /\ s.opensAt = None /\ s.closesAt = None
    ELSE /\ None \notin {s.slotMinutes, s.opensAt, s.closesAt}
         /\ s.slotMinutes \in 1..DayLength
         /\ s.opensAt \in 0..(DayLength - 1)
         /\ s.closesAt \in 1..DayLength
         /\ s.opensAt < s.closesAt
         /\ (s.closesAt - s.opensAt) % s.slotMinutes = 0

Period(from, to) == [startsAt |-> from, endsAt |-> to]

(* The moments at which the wall clock first reads a slot's beginning or   *)
(* the closing time; later readings come later, so a set keeps their order.*)
Boundaries(zone, s, day) ==
    {InstantAt(zone, day, s.opensAt + k * s.slotMinutes) :
        k \in 0..((s.closesAt - s.opensAt) \div s.slotMinutes)} \ {None}

(* Variant: a slot ends its own length after it starts. *)
TimeSlotsByLength(zone, s, day) ==
    {Period(t, t + s.slotMinutes) :
        t \in Boundaries(zone, s, day)
               \ {InstantAt(zone, day, s.closesAt)}}

(* A day cut into its slots: from each boundary to the next there is. *)
TimeSlots(zone, s, day) ==
    LET boundaries == Boundaries(zone, s, day)
        next(t) == {u \in boundaries : u > t /\ \A v \in boundaries :
                                                  v > t => v >= u}
    IN  UNION {{Period(t, u) : u \in next(t)} : t \in boundaries}

(* Local midnight to local midnight, which no clock change skips. *)
WholeDay(zone, day) ==
    Period(InstantAt(zone, day, 0), InstantAt(zone, day + 1, 0))

GenerateSlots(zone, s, from, to) ==
    UNION {IF s.mode = "TIME_SLOTS" THEN TimeSlots(zone, s, day)
           ELSE {WholeDay(zone, day)} : day \in from..to}

(* Variant: the cap of a stay is tested after the night it would end on. *)
StayOneTooLong(zone, night, endsAt, last) ==
    \E n \in 0..MaxNights :
        night + n <= last /\ WholeDay(zone, night + n).endsAt = endsAt

(* A stay of at most MaxNights ends with a later night of the range. *)
StayEnds(zone, night, endsAt, last) ==
    \E n \in 0..(MaxNights - 1) :
        night + n <= last /\ WholeDay(zone, night + n).endsAt = endsAt

(* The slot, or the range of nights, a request names; None when the        *)
(* resource offers no such thing.                                          *)
PeriodFor(zone, s, startsAt, endsAt) ==
    LET from  == LocalDayOf(zone, startsAt) - 1
        to    == from + IF s.mode = "DATE_RANGE" THEN MaxNights + 2 ELSE 2
        firsts == {p \in GenerateSlots(zone, s, from, to) :
                     p.startsAt = startsAt}
        first == CHOOSE p \in firsts : TRUE
        night == LocalDayOf(zone, startsAt)
    IN  IF firsts = {} THEN None
        ELSE IF endsAt = None THEN first
        ELSE IF s.mode # "DATE_RANGE"
             THEN IF first.endsAt = endsAt THEN first ELSE None
             ELSE IF StayEnds(zone, night, endsAt, to)
                  THEN Period(startsAt, endsAt) ELSE None

Overlap(p, q) == p.startsAt < q.endsAt /\ q.startsAt < p.endsAt
=============================================================================
