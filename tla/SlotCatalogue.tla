--------------------------- MODULE SlotCatalogue ---------------------------
(***************************************************************************)
(* The slot engine put to every schedule a board may store, every way the  *)
(* clock may shift, and every period a resident may ask for.               *)
(***************************************************************************)
EXTENDS SlotEngine

CONSTANTS
    Zones,          \* the wall clocks considered
    LastDay         \* bound: requests fall on the days up to LastDay

(* Stockholm's clock is ahead of UTC. *)
ASSUME ZonesAssumption ==
    \A z \in Zones : KeepsMidnights(z) /\ z.before >= 0 /\ z.after >= 0
ASSUME BoundsAssumption == LastDay \in Nat /\ DayLength > 1

VARIABLES
    wallClock,      \* the association's zone
    stored,         \* the schedule the board stored
    question,       \* the period in front of periodFor, or None
    reply           \* what periodFor made of it

catalogue == <<wallClock, stored, question, reply>>

Schedules ==
    [mode : {"TIME_SLOTS"}, slotMinutes : 1..DayLength,
     opensAt : 0..(DayLength - 1), closesAt : 1..DayLength]
    \union [mode : {"WHOLE_DAY", "DATE_RANGE"}, slotMinutes : {None},
            opensAt : {None}, closesAt : {None}]

Instants == (DayLength - 2)..((LastDay + 1) * DayLength)

CatalogueInit ==
    /\ wallClock \in Zones
    /\ stored \in {s \in Schedules : CheckResourceSchedule(s)}
    /\ question = None
    /\ reply = None

Request ==
    /\ question = None
    /\ question' \in [startsAt : Instants, endsAt : Instants \union {None}]
    /\ reply' = PeriodFor(wallClock, stored, question'.startsAt, question'.endsAt)
    /\ UNCHANGED <<wallClock, stored>>

Answered ==
    /\ question # None
    /\ question' = None
    /\ reply' = None
    /\ UNCHANGED <<wallClock, stored>>

CatalogueNext == Request \/ Answered

CatalogueSpec == CatalogueInit /\ [][CatalogueNext]_catalogue

-----------------------------------------------------------------------------
(* timeSlots, wholeDays: the day is its slots.  Every moment from opening  *)
(* to closing lies in exactly one of them and no other moment in any, also *)
(* on the short and on the long Sunday, wherever the clock did read both   *)
(* the opening and the closing time.                                       *)
TheDayIsItsSlots ==
    \A day \in 1..LastDay :
        LET hours == stored.mode = "TIME_SLOTS"
            opens == InstantAt(wallClock, day, IF hours THEN stored.opensAt ELSE 0)
            closes == InstantAt(wallClock, day, IF hours THEN stored.closesAt
                                                ELSE DayLength)
            holding(t) == {p \in GenerateSlots(wallClock, stored, day, day) :
                             p.startsAt =< t /\ t < p.endsAt}
        IN  opens # None /\ closes # None =>
              \A t \in 0..((LastDay + 2) * DayLength) :
                \/ t \in opens..(closes - 1) /\ \E p \in holding(t) : holding(t) = {p}
                \/ t \notin opens..(closes - 1) /\ holding(t) = {}

(* migration.sql, booking_resource_slot_key: one BOOKED row per resource   *)
(* and start keeps two bookings apart only because two slots of a resource *)
(* that share a moment share their start, on whatever days they fall.      *)
StartsTellSlotsApart ==
    \A p, q \in GenerateSlots(wallClock, stored, 0, LastDay + 2) :
        p # q => ~Overlap(p, q)

(* The slots tile each day, and no two of them, of any days, overlap. *)
SlotsTileTheDays == TheDayIsItsSlots /\ StartsTellSlotsApart

(* periodFor against what it promises: one slot exactly as the calendar    *)
(* shows it, or for a stay the nights from one local midnight to another,  *)
(* no more of them than the cap.                                           *)
PeriodsAreOffered ==
    question # None =>
        LET offered == GenerateSlots(wallClock, stored, 0, LastDay + 2)
            midnight(day) == InstantAt(wallClock, day, 0)
            stays == {Period(midnight(d), midnight(d + n)) :
                        d \in 0..(LastDay + 2), n \in 1..MaxNights}
            named(p) == /\ p.startsAt = question.startsAt
                        /\ question.endsAt = None => p \in offered
                        /\ question.endsAt # None => p.endsAt = question.endsAt
        IN  {p \in {reply} : p # None} =
              {p \in IF stored.mode = "DATE_RANGE" THEN stays ELSE offered :
                 named(p)}
=============================================================================
