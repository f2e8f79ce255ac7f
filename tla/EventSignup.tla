---------------------------- MODULE EventSignup ----------------------------
(***************************************************************************)
(* Signing up to the dates of an event series and standing down again      *)
(* (event-signup.service.ts), while the board edits the series, calls      *)
(* dates off and puts them back, publishes and removes it                  *)
(* (event.service.ts, occurrence-plan.ts), and the purge erases sign-ups   *)
(* (event-signup-purge.service.ts).                                        *)
(*                                                                         *)
(* One series.  A writer of it holds the series' row first and then the    *)
(* sign-up locks of the dates it displaces; a claim holds the lock of its  *)
(* date.  Left out: texts and their scan, recurrence rules (an edit names  *)
(* its dates), legal hold, the audit entries, reads for screens.           *)
(***************************************************************************)
EXTENDS Naturals, FiniteSets

CONSTANTS
    Persons,
    Dates,          \* bound: the rows of dates ever entered, in id order
    Schedules,      \* what the board may enter: the hours dates begin, by day
    HoursPerDay,
    Capacities,     \* what the board may set; no limit is one nobody reaches
    Last,           \* bound: the clock's last instant
    None

ASSUME PersonsAssumption ==
    /\ IsFiniteSet(Persons)
    /\ "board" \notin Persons /\ None \notin Persons \union {"board"}
ASSUME DatesAssumption == Dates \subseteq Nat /\ IsFiniteSet(Dates)
ASSUME SchedulesAssumption ==
    /\ HoursPerDay \in Nat \ {0}
    /\ \A f \in Schedules : /\ DOMAIN f \subseteq Nat /\ IsFiniteSet(DOMAIN f)
                            /\ Cardinality(DOMAIN f) <= Cardinality(Dates)
                            /\ \A day \in DOMAIN f : f[day] \in 0..(HoursPerDay - 1)
ASSUME CapacitiesAssumption == Capacities \subseteq Nat \ {0}
ASSUME LastAssumption == Last \in Nat \ {0}

VARIABLES
    series,         \* the series, or None once removed
    date,           \* its dates
    signup,         \* the sign-ups, by date and person
    held,           \* the dates' locks, by who holds them
    claim,          \* each person's sign-up in flight
    board,          \* the writer that holds the series' row
    clock

vars == <<series, date, signup, held, claim, board, clock>>

Hours == 0..(HoursPerDay - 1)
Days == UNION {DOMAIN f : f \in Schedules}

(* A series that takes sign-ups. *)
Series == [published : BOOLEAN, capacity : Capacities]
Date == [day : Days, hour : Hours, off : BOOLEAN, there : BOOLEAN]

(* The instant a date begins, on a clock of a few steps a day. *)
Instant(day, hour) == day * HoursPerDay + hour

Claim == [date : Dates, at : {"reading", "writing"},
          capacity : Capacities \union {None}, again : BOOLEAN]

Writer == [act : {"edit", "remove", "calloff"}, at : {"locking", "counting", "writing"},
           todo : SUBSET Dates, displaced : SUBSET Dates, added : SUBSET Days,
           capacity : Capacities \union {None}, planned : Schedules \union {None}]

ASSUME NoneAssumption == None \notin Series \union Date \union Claim \union Writer

There(d) == date[d] # None /\ date[d].there

(* The dates have the index "eventId, startsAt" of the schema, and more: no *)
(* day of a series has two dates, whatever edits a board made of it while  *)
(* its days passed.                                                        *)
TypeOK ==
    /\ series \in Series \union {None}
    /\ date \in [Dates -> Date \union {None}]
    /\ \A d, e \in Dates : There(d) /\ There(e) /\ date[d].day = date[e].day => d = e
    /\ signup \in [Dates -> [Persons -> {"none", "standing", "withdrawn"}]]
    /\ held \in [Dates -> Persons \union {"board", None}]
    /\ claim \in [Persons -> Claim \union {None}]
    /\ board \in Writer \union {None}
    /\ clock \in 1..Last

Nobody == [p \in Persons |-> "none"]

-----------------------------------------------------------------------------
Begins(d) == Instant(date[d].day, date[d].hour)
Standing(d) == {p \in Persons : signup[d][p] = "standing"}

(* planOccurrences: of the dates still to come, those the schedule moves to *)
(* another hour and those it does not name; and the days it adds.          *)
Future(now) == {d \in Dates : There(d) /\ Begins(d) > now}
Moved(planned, now) == {d \in Future(now) : /\ date[d].day \in DOMAIN planned
                                            /\ planned[date[d].day] # date[d].hour}
Dropped(planned, now) == {d \in Future(now) : date[d].day \notin DOMAIN planned}

(* Variant: a day whose date has begun is not kept from a second one. *)
AddedAgain(planned, now) ==
    {day \in DOMAIN planned : ~\E d \in Future(now) : date[d].day = day}
Added(planned, now) ==
    LET begun == {d \in Dates : There(d)} \ Future(now)
    IN  {day \in DOMAIN planned : ~\E d \in Future(now) \union begun : date[d].day = day}

Unused == {d \in Dates : date[d] = None}

WithDates(dates, planned, days, unused) ==
    LET row == CHOOSE f \in [days -> unused] : \A x, y \in days : f[x] = f[y] => x = y
    IN  [d \in Dates |->
           IF \E day \in days : row[day] = d
           THEN LET day == CHOOSE x \in days : row[x] = d
                IN  [day |-> day, hour |-> planned[day], off |-> FALSE, there |-> TRUE]
           ELSE dates[d]]

(* create: entered unpublished, with the dates of its first schedule.      *)
Init ==
    /\ series \in [published : {FALSE}, capacity : Capacities]
    /\ \E planned \in Schedules :
         date = WithDates([d \in Dates |-> None], planned, DOMAIN planned, Dates)
    /\ signup = [d \in Dates |-> Nobody]
    /\ held = [d \in Dates |-> None]
    /\ claim = [p \in Persons |-> None]
    /\ board = None
    /\ clock = 1

-----------------------------------------------------------------------------
(* Variant: the claim takes no lock. *)
ClaimGoesAhead(p, d) ==
    /\ claim[p] = None
    /\ date[d] # None
    /\ claim' = [claim EXCEPT ![p] = [date |-> d, at |-> "reading",
                                      capacity |-> None, again |-> FALSE]]
    /\ UNCHANGED <<series, date, signup, held, board, clock>>

(* signUp, from lockOccurrenceSignups: the request waits before it, and    *)
(* changes nothing.                                                        *)
ClaimLocks(p, d) ==
    /\ claim[p] = None
    /\ date[d] # None
    /\ held[d] = None
    /\ held' = [held EXCEPT ![d] = p]
    /\ claim' = [claim EXCEPT ![p] = [date |-> d, at |-> "reading",
                                      capacity |-> None, again |-> FALSE]]
    /\ UNCHANGED <<series, date, signup, board, clock>>

ClaimEnds(p) ==
    /\ claim' = [claim EXCEPT ![p] = None]
    /\ held' = [d \in Dates |-> IF held[d] = p THEN None ELSE held[d]]

(* A request reads the clock when it arrives and then waits for its lock. *)
Arrived == 1..clock

(* requireAttendable and the refusals, and the caller's own row. *)
Attendable(p, now) ==
    LET d == claim[p].date
    IN  /\ There(d)
        /\ series.published
        /\ ~date[d].off
        /\ Begins(d) > now
        /\ signup[d][p] # "standing"

(* The places are counted under the lock, with what was read. *)
ClaimReads(p, now) ==
    LET d == claim[p].date
    IN  /\ claim[p] # None
        /\ claim[p].at = "reading"
        /\ IF Attendable(p, now) /\ Cardinality(Standing(d)) < series.capacity
           THEN /\ claim' = [claim EXCEPT ![p] =
                               [@ EXCEPT !.at = "writing", !.capacity = series.capacity,
                                         !.again = signup[d][p] = "withdrawn"]]
                /\ UNCHANGED held
           ELSE ClaimEnds(p)
        /\ UNCHANGED <<series, date, signup, board, clock>>

(* insertClaim or reopenClaim, and the commit: a row that is gone by now   *)
(* refuses the claim.                                                      *)
Takes(p) ==
    LET d == claim[p].date
        row == IF claim[p].again THEN "withdrawn" ELSE "none"
    IN  /\ claim[p] # None
        /\ claim[p].at = "writing"
        /\ signup' = IF There(d) /\ signup[d][p] = row
                     THEN [signup EXCEPT ![d][p] = "standing"] ELSE signup
        /\ ClaimEnds(p)
        /\ UNCHANGED <<series, date, board, clock>>

(* withdrawOwn and withdrawFor: one conditional update, published or not,  *)
(* begun or not.                                                           *)
Withdraws(p, d) ==
    /\ signup[d][p] = "standing"
    /\ signup' = [signup EXCEPT ![d][p] = "withdrawn"]
    /\ UNCHANGED <<series, date, held, claim, board, clock>>

(* purgePerson on a granted erasure: every sign-up of the person. *)
Purges(p) ==
    /\ \E d \in Dates : signup[d][p] # "none"
    /\ signup' = [d \in Dates |-> [signup[d] EXCEPT ![p] = "none"]]
    /\ UNCHANGED <<series, date, held, claim, board, clock>>

-----------------------------------------------------------------------------
(* lockEvent: one writer of the series at a time. *)
Free == board = None /\ series # None

Publishes(published) ==
    /\ Free
    /\ series' = [series EXCEPT !.published = published]
    /\ UNCHANGED <<date, signup, held, claim, board, clock>>

(* reinstateOccurrence, which takes no lock of the date. *)
Reinstates(d, now) ==
    /\ Free
    /\ There(d)
    /\ date[d].off
    /\ Begins(d) > now
    /\ date' = [date EXCEPT ![d].off = FALSE]
    /\ UNCHANGED <<series, signup, held, claim, board, clock>>

BoardBegins(act, displaced, added, capacity, planned) ==
    /\ Free
    /\ board' = [act |-> act, at |-> "locking", todo |-> displaced,
                 displaced |-> displaced, added |-> added, capacity |-> capacity,
                 planned |-> planned]
    /\ UNCHANGED <<series, date, signup, held, claim, clock>>

(* update, up to its plan. *)
Edits(capacity, planned, now) ==
    /\ Cardinality(Added(planned, now)) <= Cardinality(Unused)
    /\ BoardBegins("edit", Moved(planned, now) \union Dropped(planned, now),
                   Added(planned, now), capacity, planned)

Removes ==
    BoardBegins("remove", {d \in Dates : There(d)}, {}, None, None)

CallsOff(d) ==
    /\ There(d)
    /\ BoardBegins("calloff", {d}, {}, None, None)

(* Variant: the writer takes no date's lock. *)
BoardGoesAhead ==
    /\ board # None
    /\ board.at = "locking"
    /\ board' = [board EXCEPT !.at = "counting"]
    /\ UNCHANGED <<series, date, signup, held, claim, clock>>

(* lockOccurrencesSignups, in the order of the ids. *)
BoardLocks ==
    /\ board # None
    /\ board.at = "locking"
    /\ IF board.todo = {}
       THEN board' = [board EXCEPT !.at = "counting"] /\ UNCHANGED held
       ELSE LET d == CHOOSE e \in board.todo : \A f \in board.todo : e <= f
            IN  /\ held[d] = None
                /\ held' = [held EXCEPT ![d] = "board"]
                /\ board' = [board EXCEPT !.todo = @ \ {d}]
    /\ UNCHANGED <<series, date, signup, claim, clock>>

BoardEnds ==
    /\ board' = None
    /\ held' = [d \in Dates |-> IF held[d] = "board" THEN None ELSE held[d]]

(* occurrencesWithSignups, and a call-off's refusals. *)
Refused(now) ==
    IF board.act = "calloff"
    THEN \E d \in board.displaced : date[d].off \/ Begins(d) <= now
    ELSE \E d \in board.displaced : Standing(d) # {}

BoardCounts(now) ==
    /\ board # None
    /\ board.at = "counting"
    /\ IF Refused(now) THEN BoardEnds
       ELSE board' = [board EXCEPT !.at = "writing"] /\ UNCHANGED held
    /\ UNCHANGED <<series, date, signup, claim, clock>>

Gone == [day |-> CHOOSE day \in Days : TRUE, hour |-> 0, off |-> FALSE,
         there |-> FALSE]

(* The dates an edit leaves: dropped, moved and added. *)
Edited ==
    LET left == [d \in Dates |->
                   IF d \notin board.displaced THEN date[d]
                   ELSE IF date[d].day \notin DOMAIN board.planned THEN Gone
                   ELSE [date[d] EXCEPT !.hour = board.planned[date[d].day]]]
    IN  WithDates(left, board.planned, board.added, Unused)

(* The writes of an edit, a removal or a call-off, and the commit; what    *)
(* hangs from a deleted date goes with it.                                 *)
BoardWrites ==
    /\ board # None
    /\ board.at = "writing"
    /\ series' = CASE board.act = "edit" -> [series EXCEPT !.capacity = board.capacity]
                   [] board.act = "remove" -> None
                   [] board.act = "calloff" -> series
    /\ date' = CASE board.act = "edit" -> Edited
                 [] board.act = "remove" ->
                      [d \in Dates |-> IF There(d) THEN Gone ELSE date[d]]
                 [] board.act = "calloff" ->
                      [d \in Dates |-> IF d \in board.displaced
                                       THEN [date[d] EXCEPT !.off = TRUE] ELSE date[d]]
    /\ signup' = [d \in Dates |->
                    IF date'[d] # None /\ ~date'[d].there THEN Nobody ELSE signup[d]]
    /\ BoardEnds
    /\ UNCHANGED <<claim, clock>>

TimePasses ==
    /\ clock < Last
    /\ clock' = clock + 1
    /\ UNCHANGED <<series, date, signup, held, claim, board>>

-----------------------------------------------------------------------------
Next ==
    \/ \E p \in Persons :
         \/ \E d \in Dates : ClaimLocks(p, d) \/ Withdraws(p, d)
         \/ \E now \in Arrived : ClaimReads(p, now)
         \/ Takes(p) \/ Purges(p)
    \/ \E published \in BOOLEAN : Publishes(published)
    \/ \E d \in Dates : CallsOff(d)
    \/ \E now \in Arrived :
         \/ \E d \in Dates : Reinstates(d, now)
         \/ \E capacity \in Capacities, planned \in Schedules : Edits(capacity, planned, now)
         \/ BoardCounts(now)
    \/ Removes \/ BoardLocks \/ BoardWrites
    \/ TimePasses

Spec == Init /\ [][Next]_vars

-----------------------------------------------------------------------------
(* signUp and cancelOccurrence: a claim commits on a date that is there    *)
(* and has not been called off, and with it no more people stand there     *)
(* than the places the claim read.                                         *)
AClaimTakesAFreePlace ==
    [][\A d \in Dates, p \in Persons :
        signup[d][p] # "standing" /\ signup'[d][p] = "standing" =>
            /\ date'[d].there /\ ~date'[d].off
            /\ Cardinality(Standing(d)') <= claim[p].capacity]_vars

(* update and remove: a date somebody stands on stays where it is, however *)
(* the claim met the board's edit.                                         *)
NobodyIsMoved ==
    [][\A d \in Dates :
        Standing(d) # {} =>
            /\ date'[d].there
            /\ date'[d].day = date[d].day
            /\ date'[d].hour = date[d].hour]_vars
=============================================================================
