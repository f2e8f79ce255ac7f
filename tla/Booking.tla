------------------------------ MODULE Booking ------------------------------
(***************************************************************************)
(* Booking a shared resource (apps/api/src/bookings): residents claim      *)
(* slots, the board keeps the catalogue, bookings are cancelled and in     *)
(* time erased, all as concurrent READ COMMITTED transactions.             *)
(*                                                                         *)
(* A claim is refused by rolling its transaction back, which also frees    *)
(* its locks.  It gives its name to the booking it makes.                  *)
(***************************************************************************)
EXTENDS SlotEngine, FiniteSets

CONSTANTS
    Claims,         \* requests to book
    Edits,          \* the board's requests to change or withdraw a resource
    Cancels,        \* requests to cancel a booking
    Resources,      \* rows the catalogue may hold
    Requests,       \* what residents ask for
    Configs,        \* what the board may state of a resource
    Residencies,    \* who holds which apartment at first
    MoveOutDays,    \* the days a move-out may be recorded for
    Zone,           \* the association's wall clock
    Retention,      \* BOOKING_RETENTION_DAYS
    MaxClock        \* bound: the last instant

ASSUME ZoneAssumption == KeepsMidnights(Zone)

VARIABLES
    clock,
    resource,       \* the bookable_resource rows
    residency,      \* the residency rows
    booking,        \* the booking rows, by the claim that made them
    entries,        \* the audit entries about each booking
    claim,          \* the claims under way
    edit,           \* the edits under way
    cancel          \* the cancellations under way

tables == <<resource, residency, booking, entries>>
vars == <<clock, tables, claim, edit, cancel>>

People == {h.person : h \in Residencies}
Apartments == {h.apartment : h \in Residencies}

ApartmentLock(a) == <<"booking-apartment", a>>
NightsLock(r) == <<"booking-resource", r>>
RowLock(r) == <<"bookable_resource", r>>
Locks == {ApartmentLock(a) : a \in Apartments}
           \union {NightsLock(r) : r \in Resources}
           \union {RowLock(r) : r \in Resources}

Started == {"asked", "apartment", "row", "nights", "counted", "inserted"}

(* A quota is at least one booking, and a schedule holds together. *)
Quotas == (Nat \ {0}) \union {None}

Resource == [schedule : {config.schedule : config \in Configs},
             maxConcurrent : Quotas, maxPerWeek : Quotas, withdrawn : BOOLEAN]
Row == [resource : Resources, apartment : Apartments, person : People,
        startsAt : Nat, endsAt : Nat, status : {"BOOKED", "CANCELLED"}]
Claim == [at : Started \union {"booked"}, ask : Requests,
          period : [startsAt : Nat, endsAt : Nat], now : 0..MaxClock,
          holds : SUBSET Locks]
Edit == [at : {"asked", "locked"}, resource : Resources,
         to : Configs \union {None}, holds : SUBSET Locks]
Cancel == [booking : Claims, board : BOOLEAN, now : 0..MaxClock]

ASSUME NoRowAssumption ==
    None \notin Resource \union Row \union Claim \union Edit \union Cancel
                  \union Configs
ASSUME ClaimsAssumption == IsFiniteSet(Claims)
ASSUME TimesAssumption == MaxClock \in Nat /\ Retention \in Nat /\ MoveOutDays \subseteq Int
ASSUME ResidenciesAssumption ==
    Residencies \subseteq [person : People, apartment : Apartments,
                          movedIn : Int, movedOut : Int \union {None}]
ASSUME RequestsAssumption ==
    \A ask \in Requests :
       /\ ask.resource \in Resources
       /\ ask.startsAt \in Nat /\ ask.endsAt \in Nat \union {None}

TypeOK ==
    /\ clock \in 0..MaxClock
    /\ resource \in [Resources -> Resource \union {None}]
    /\ \A r \in Resources : resource[r] # None =>
          CheckResourceSchedule(resource[r].schedule)
    /\ residency \subseteq [person : People, apartment : Apartments,
                            movedIn : Int, movedOut : Int \union {None}]
    /\ booking \in [Claims -> Row \union {None}]
    /\ entries \in [Claims -> {<<>>, <<"MADE">>, <<"MADE", "CANCELLED">>}]
    /\ claim \in [Claims -> Claim \union {None}]
    /\ edit \in [Edits -> Edit \union {None}]
    /\ cancel \in [Cancels -> Cancel \union {None}]

Init ==
    /\ clock = 0
    /\ resource = [r \in Resources |-> None]
    /\ residency = Residencies
    /\ booking = [c \in Claims |-> None]
    /\ entries = [c \in Claims |-> <<>>]
    /\ claim = [c \in Claims |-> None]
    /\ edit = [e \in Edits |-> None]
    /\ cancel = [k \in Cancels |-> None]

-----------------------------------------------------------------------------
Live(b) == booking[b] # None /\ booking[b].status = "BOOKED"

(* The slot a request names on an offered resource, or None. *)
Offer(ask) ==
    IF resource[ask.resource] = None \/ resource[ask.resource].withdrawn
    THEN None
    ELSE PeriodFor(Zone, resource[ask.resource].schedule,
                   ask.startsAt, ask.endsAt)

(* Variant: only the day the period opens on is looked at. *)
CoversOpening(h, period) ==
    LET opensOn == LocalDayOf(Zone, period.startsAt)
    IN  h.movedIn <= opensOn /\ (h.movedOut # None => h.movedOut > opensOn)

(* A residency that covers every day a period falls on. *)
Covers(h, period) ==
    /\ h.movedIn <= LocalDayOf(Zone, period.startsAt)
    /\ h.movedOut # None =>
          h.movedOut > LocalDayOf(Zone, period.endsAt - 1)

HoldsApartment(ask, period) ==
    \E h \in residency : /\ h.person = ask.person
                         /\ h.apartment = ask.apartment
                         /\ Covers(h, period)

ClaimAt(c, step) == claim[c] # None /\ claim[c].at = step
ClaimHolds(c, lock) == claim[c] # None /\ lock \in claim[c].holds
EditHolds(e, lock) == edit[e] # None /\ lock \in edit[e].holds
FreeOfClaims(c, lock) == \A d \in Claims \ {c} : ~ClaimHolds(d, lock)

Proceed(c, step, locks) ==
    claim' = [claim EXCEPT ![c].at = step, ![c].holds = @ \union locks]
RollBack(c) == claim' = [claim EXCEPT ![c] = None]
OnlyClaims == UNCHANGED <<clock, tables, edit, cancel>>

(* book(), before its transaction: the clock, the resource and the         *)
(* residency are read without a lock.  A refusal leaves no trace.          *)
Ask(c, ask) ==
    LET period == Offer(ask)
    IN  /\ claim[c] = None /\ entries[c] = <<>>
        /\ period # None
        /\ period.startsAt > clock
        /\ HoldsApartment(ask, period)
        /\ claim' = [claim EXCEPT ![c] =
             [at |-> "asked", ask |-> ask, period |-> period,
              now |-> clock, holds |-> {}]]
        /\ OnlyClaims

(* Variant: one household books several at a time. *)
LockApartmentFreely(c) ==
    /\ ClaimAt(c, "asked")
    /\ Proceed(c, "apartment", {})
    /\ OnlyClaims

LockApartment(c) ==
    LET lock == ApartmentLock(claim[c].ask.apartment)
    IN  /\ ClaimAt(c, "asked")
        /\ FreeOfClaims(c, lock)
        /\ Proceed(c, "apartment", {lock})
        /\ OnlyClaims

(* Variant: the resource is not read again under its lock. *)
LockRowOnly(c) ==
    LET lock == RowLock(claim[c].ask.resource)
    IN  /\ ClaimAt(c, "apartment")
        /\ \A e \in Edits : ~(EditHolds(e, lock) /\ edit[e].at = "locked")
        /\ Proceed(c, "row", {lock})
        /\ OnlyClaims

(* The row for share, and the resource read again under it. *)
LockRow(c) ==
    LET lock == RowLock(claim[c].ask.resource)
    IN  /\ ClaimAt(c, "apartment")
        /\ \A e \in Edits : ~(EditHolds(e, lock) /\ edit[e].at = "locked")
        /\ IF Offer(claim[c].ask) = claim[c].period
           THEN Proceed(c, "row", {lock}) ELSE RollBack(c)
        /\ OnlyClaims

ByTheNight(c) == resource[claim[c].ask.resource].schedule.mode = "DATE_RANGE"

Clashes(c) ==
    \E b \in Claims : /\ Live(b)
                      /\ booking[b].resource = claim[c].ask.resource
                      /\ Overlap(booking[b], claim[c].period)

(* Variant: the overlap is read without the lock. *)
LockNightsFreely(c) ==
    /\ ClaimAt(c, "row") /\ ByTheNight(c)
    /\ IF Clashes(c) THEN RollBack(c) ELSE Proceed(c, "nights", {})
    /\ OnlyClaims

(* A range of nights: the resource's lock, and no live booking in the way. *)
LockNights(c) ==
    LET lock == NightsLock(claim[c].ask.resource)
    IN  /\ ClaimAt(c, "row") /\ ByTheNight(c)
        /\ FreeOfClaims(c, lock)
        /\ IF Clashes(c) THEN RollBack(c) ELSE Proceed(c, "nights", {lock})
        /\ OnlyClaims

(* What the apartment already holds of the resource. *)
HeldOf(r, a) ==
    {b \in Claims : /\ Live(b)
                    /\ booking[b].resource = r
                    /\ booking[b].apartment = a}

OverQuota(c) ==
    LET ask == claim[c].ask
        now == resource[ask.resource]
        held == HeldOf(ask.resource, ask.apartment)
        unstarted == {b \in held : booking[b].startsAt > claim[c].now}
        thatWeek == {b \in held : LocalWeekOf(Zone, booking[b].startsAt)
                               = LocalWeekOf(Zone, claim[c].period.startsAt)}
    IN  \/ /\ now.maxConcurrent # None
           /\ Cardinality(unstarted) >= now.maxConcurrent
        \/ /\ now.maxPerWeek # None
           /\ Cardinality(thatWeek) >= now.maxPerWeek

CountQuotas(c) ==
    /\ ClaimAt(c, "nights") \/ (ClaimAt(c, "row") /\ ~ByTheNight(c))
    /\ IF OverQuota(c) THEN RollBack(c) ELSE Proceed(c, "counted", {})
    /\ OnlyClaims

SameSlot(c, r, startsAt) ==
    claim[c].ask.resource = r /\ claim[c].period.startsAt = startsAt

(* Variant: nothing is unique about a resource and a start. *)
InsertDuplicate(c) ==
    /\ ClaimAt(c, "counted")
    /\ Proceed(c, "inserted", {})
    /\ OnlyClaims

(* The insert the partial index arbitrates: it waits for an uncommitted    *)
(* row of the same resource and start, and does nothing if one is BOOKED.  *)
Insert(c) ==
    /\ ClaimAt(c, "counted")
    /\ ~\E d \in Claims \ {c} :
          /\ ClaimAt(d, "inserted")
          /\ SameSlot(c, claim[d].ask.resource, claim[d].period.startsAt)
    /\ IF \E b \in Claims : Live(b) /\ SameSlot(c, booking[b].resource,
                                                   booking[b].startsAt)
       THEN RollBack(c) ELSE Proceed(c, "inserted", {})
    /\ OnlyClaims

MakeBooking(c) ==
    LET ask == claim[c].ask
        period == claim[c].period
    IN  /\ booking' = [booking EXCEPT ![c] =
             [resource |-> ask.resource, apartment |-> ask.apartment,
              person |-> ask.person, startsAt |-> period.startsAt,
              endsAt |-> period.endsAt, status |-> "BOOKED"]]
        /\ entries' = [entries EXCEPT ![c] = Append(@, "MADE")]

(* The row, its entry and the end of the locks, in one commit. *)
Commit(c) ==
    /\ ClaimAt(c, "inserted")
    /\ MakeBooking(c)
    /\ claim' = [claim EXCEPT ![c].at = "booked", ![c].holds = {}]
    /\ UNCHANGED <<clock, resource, residency, edit, cancel>>

(* The server stops, the connection drops, or the transaction times out. *)
Abort(c) ==
    /\ claim[c] # None /\ claim[c].at \in Started
    /\ RollBack(c)
    /\ OnlyClaims

-----------------------------------------------------------------------------
OnlyCancels == UNCHANGED <<clock, tables, claim, edit>>

(* cancel(): the booking is read, by its booker or by the board, and then  *)
(* the clock ...                                                           *)
CancelReads(k, b, board) ==
    /\ cancel[k] = None
    /\ booking[b] # None
    /\ cancel' = [cancel EXCEPT ![k] =
         [booking |-> b, board |-> board, now |-> clock]]
    /\ OnlyCancels

Closes(k) ==
    LET b == booking[cancel[k].booking]
    IN  IF cancel[k].board THEN b.endsAt ELSE b.startsAt

SetCancelled(k) ==
    LET b == cancel[k].booking
    IN  /\ booking' = [booking EXCEPT ![b].status = "CANCELLED"]
        /\ entries' = [entries EXCEPT ![b] = Append(@, "CANCELLED")]
        /\ cancel' = [cancel EXCEPT ![k] = None]
        /\ UNCHANGED <<clock, resource, residency, claim, edit>>

(* Variant: the read is trusted, and the row written by its id. *)
CancelOnRead(k) ==
    /\ cancel[k] # None /\ booking[cancel[k].booking] # None
    /\ Closes(k) > cancel[k].now
    /\ SetCancelled(k)

(* ... and written only while it is BOOKED and has not closed. *)
CancelWrites(k) ==
    /\ cancel[k] # None /\ Live(cancel[k].booking)
    /\ Closes(k) > cancel[k].now
    /\ SetCancelled(k)

CancelRefused(k) ==
    /\ cancel[k] # None
    /\ Live(cancel[k].booking) => Closes(k) <= cancel[k].now
    /\ cancel' = [cancel EXCEPT ![k] = None]
    /\ OnlyCancels

-----------------------------------------------------------------------------
OnlyEdits == UNCHANGED <<clock, tables, claim, cancel>>

(* Variant: no quota is too small. *)
ValidSchedule(config) == CheckResourceSchedule(config.schedule)

Validated(config) ==
    /\ CheckResourceSchedule(config.schedule)
    /\ config.maxConcurrent \in Quotas
    /\ config.maxPerWeek \in Quotas

Configured(config) ==
    [schedule |-> config.schedule, maxConcurrent |-> config.maxConcurrent,
     maxPerWeek |-> config.maxPerWeek, withdrawn |-> FALSE]

Create(r, config) ==
    /\ resource[r] = None
    /\ Validated(config)
    /\ resource' = [resource EXCEPT ![r] = Configured(config)]
    /\ UNCHANGED <<clock, residency, booking, entries, claim, edit, cancel>>

(* Variant: the edit reads the row for share before it takes it. *)
EditAskSharing(e, r, to) ==
    /\ edit[e] = None
    /\ to # None => Validated(to)
    /\ edit' = [edit EXCEPT ![e] = [at |-> "asked", resource |-> r, to |-> to,
                                    holds |-> {RowLock(r)}]]
    /\ OnlyEdits

(* update(), and deactivate() which states nothing ... *)
EditAsk(e, r, to) ==
    /\ edit[e] = None
    /\ to # None => Validated(to)
    /\ edit' = [edit EXCEPT ![e] = [at |-> "asked", resource |-> r, to |-> to,
                                    holds |-> {}]]
    /\ OnlyEdits

TakeRow(e, lock) ==
    /\ edit' = [edit EXCEPT ![e].at = "locked", ![e].holds = {lock}]
    /\ OnlyEdits

(* Variant: the row is read without being taken. *)
EditLocksNothing(e) ==
    /\ edit[e] # None /\ edit[e].at = "asked"
    /\ TakeRow(e, RowLock(edit[e].resource))

(* ... take the row for update before anything is read ... *)
EditLocks(e) ==
    LET lock == RowLock(edit[e].resource)
    IN  /\ edit[e] # None /\ edit[e].at = "asked"
        /\ \A c \in Claims : ~ClaimHolds(c, lock)
        /\ \A f \in Edits \ {e} : ~EditHolds(f, lock)
        /\ TakeRow(e, lock)

EditEnds(e) ==
    /\ edit' = [edit EXCEPT ![e] = None]
    /\ UNCHANGED <<clock, residency, booking, entries, claim, cancel>>

Standing(r) ==
    {b \in Claims : Live(b) /\ booking[b].resource = r /\ booking[b].endsAt > clock}

(* What the edit may do: nothing to a resource that is not there or was    *)
(* withdrawn, and no other grid under bookings still to come.              *)
EditAllowed(e) ==
    LET r == edit[e].resource
        to == edit[e].to
    IN  /\ resource[r] # None /\ ~resource[r].withdrawn
        /\ to # None /\ Standing(r) # {} => to.schedule = resource[r].schedule

EditWrites(e) ==
    LET r == edit[e].resource
        to == edit[e].to
    IN  /\ edit[e] # None /\ edit[e].at = "locked"
        /\ EditAllowed(e)
        /\ resource' = [resource EXCEPT ![r] =
             IF to = None THEN [@ EXCEPT !.withdrawn = TRUE]
             ELSE Configured(to)]
        /\ EditEnds(e)

(* Refused, or lost with its transaction at any point. *)
EditRollsBack(e) ==
    /\ edit[e] # None
    /\ UNCHANGED resource
    /\ EditEnds(e)

-----------------------------------------------------------------------------
(* The nightly purge of one person: what ended a retention ago, or after a *)
(* granted erasure everything.  A person under a hold is passed over.      *)
PurgePerson(p, onRequest) ==
    LET due == {b \in Claims : /\ booking[b] # None
                               /\ booking[b].person = p
                               /\ onRequest \/ booking[b].endsAt <= clock - Retention}
    IN  /\ due # {}
        /\ booking' = [b \in Claims |-> IF b \in due THEN None ELSE booking[b]]
        /\ UNCHANGED <<clock, resource, residency, entries, claim, edit, cancel>>

(* The board records a move-out (moves/), of a residency still open. *)
MoveOut(h, day) ==
    /\ h.movedOut = None /\ day >= h.movedIn
    /\ residency' = (residency \ {h}) \union {[h EXCEPT !.movedOut = day]}
    /\ UNCHANGED <<clock, resource, booking, entries, claim, edit, cancel>>

Tick ==
    /\ clock < MaxClock
    /\ clock' = clock + 1
    /\ UNCHANGED <<tables, claim, edit, cancel>>

ClaimStep(c) ==
    \/ LockApartment(c) \/ LockRow(c) \/ LockNights(c)
    \/ CountQuotas(c) \/ Insert(c) \/ Commit(c)

Next ==
    \/ \E c \in Claims, ask \in Requests : Ask(c, ask)
    \/ \E c \in Claims : ClaimStep(c) \/ Abort(c)
    \/ \E k \in Cancels, b \in Claims, board \in BOOLEAN : CancelReads(k, b, board)
    \/ \E k \in Cancels : CancelWrites(k) \/ CancelRefused(k)
    \/ \E r \in Resources, config \in Configs : Create(r, config)
    \/ \E e \in Edits, r \in Resources, to \in Configs \union {None} :
          EditAsk(e, r, to)
    \/ \E e \in Edits : EditLocks(e) \/ EditWrites(e) \/ EditRollsBack(e)
    \/ \E p \in People, onRequest \in BOOLEAN : PurgePerson(p, onRequest)
    \/ \E h \in residency, day \in MoveOutDays : MoveOut(h, day)
    \/ Tick

Spec == Init /\ [][Next]_vars

-----------------------------------------------------------------------------
Unfinished(b) == Live(b) /\ booking[b].endsAt > clock
Booked(c) == ClaimAt(c, "inserted") /\ claim'[c] # None /\ claim'[c].at = "booked"

(* book(), refuseOverlap and the partial index: no two unfinished bookings *)
(* of a resource share a moment, whatever grids they were cut from.        *)
NoDoubleBooking ==
    \A a, b \in Claims :
        /\ a # b /\ Unfinished(a) /\ Unfinished(b)
        /\ booking[a].resource = booking[b].resource
        => ~Overlap(booking[a], booking[b])

(* bookable-resource.service.ts, update(): an unfinished booking is always *)
(* a slot, or a stay, of the grid its resource has now.                    *)
BookingsAreOnTheGrid ==
    \A b \in Claims : Unfinished(b) =>
        LET row == booking[b]
        IN  PeriodFor(Zone, resource[row.resource].schedule,
                      row.startsAt, row.endsAt)
              = Period(row.startsAt, row.endsAt)

(* deactivate(): once the withdrawal is written no booking is made, also   *)
(* none that was asked for before it.                                      *)
NoneMadeAfterWithdrawal ==
    [][\A c \in Claims : Booked(c) => ~resource[claim[c].ask.resource].withdrawn]_vars

QuotasKept(c) ==
    LET row == booking[c]
        now == resource[row.resource]
        held == HeldOf(row.resource, row.apartment)
        unstarted == {b \in held : booking[b].startsAt > clock}
        thatWeek == {b \in held : LocalWeekOf(Zone, booking[b].startsAt)
                                   = LocalWeekOf(Zone, row.startsAt)}
    IN  /\ now.maxConcurrent # None =>
             Cardinality(unstarted) <= now.maxConcurrent
        /\ now.maxPerWeek # None => Cardinality(thatWeek) <= now.maxPerWeek

(* refuseOverQuota: the booking a commit adds leaves the apartment within  *)
(* both quotas its resource has at that moment, whoever of the household   *)
(* made the others.                                                        *)
WithinQuotas ==
    [][\A c \in Claims : Booked(c) => QuotasKept(c)']_vars

(* residencyCoveringPeriod: there is no moment of a booked period, night   *)
(* or slot, in which its booker does not hold the apartment.               *)
HeldThroughout ==
    \A b \in Claims : Live(b) =>
        \A t \in booking[b].startsAt..(booking[b].endsAt - 1) :
            \E h \in residency :
                /\ h.person = booking[b].person
                /\ h.apartment = booking[b].apartment
                /\ h.movedIn <= LocalDayOf(Zone, t)
                /\ h.movedOut # None => LocalDayOf(Zone, t) < h.movedOut

(* cancel(): the log tells every booking's story once, however many cancel *)
(* it together, and it is the story the row tells while there is one.      *)
LogTellsTheRow ==
    \A b \in Claims :
        /\ booking[b] # None =>
             entries[b] = IF Live(b) THEN <<"MADE">> ELSE <<"MADE", "CANCELLED">>
        /\ entries[b] # <<>> => ClaimAt(b, "booked")
        /\ ClaimAt(b, "booked") => Len(entries[b]) \in 1..2

(* booking-lock.ts, "one order, stated here and taken nowhere else, is     *)
(* enough": no set of transactions wait for each other.                    *)
ClaimWaitsFor(c, d) ==
    LET ask == claim[c].ask
    IN  \/ ClaimAt(c, "asked") /\ ClaimHolds(d, ApartmentLock(ask.apartment))
        \/ /\ ClaimAt(c, "row") /\ ByTheNight(c)
           /\ ClaimHolds(d, NightsLock(ask.resource))
        \/ /\ ClaimAt(c, "counted") /\ ClaimAt(d, "inserted")
           /\ SameSlot(c, claim[d].ask.resource, claim[d].period.startsAt)

NoWaitCycle ==
    \A S \in SUBSET Claims, T \in SUBSET Edits :
        S # {} \/ T # {} =>
          \/ \E c \in S :
               /\ \A d \in S \ {c} : ~ClaimWaitsFor(c, d)
               /\ \A e \in T : ~(/\ ClaimAt(c, "apartment")
                                 /\ edit[e] # None /\ edit[e].at = "locked"
                                 /\ EditHolds(e, RowLock(claim[c].ask.resource)))
          \/ \E e \in T :
               \/ edit[e] = None \/ edit[e].at = "locked"
               \/ LET lock == RowLock(edit[e].resource)
                  IN  /\ \A c \in S : ~ClaimHolds(c, lock)
                      /\ \A f \in T \ {e} : ~EditHolds(f, lock)
=============================================================================
