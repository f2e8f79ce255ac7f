-------------------------- MODULE EventSignupProofs --------------------------
(***************************************************************************)
(* Why no date of a series takes more people than the places its claims    *)
(* read, why nobody who stands on a date is moved off it by the board's    *)
(* edit, and why no day of a series gets two dates: for every number of    *)
(* members, dates, schedules and capacities.                               *)
(*                                                                         *)
(* What a claim read of its date stays true until it writes, as everyone   *)
(* who could change it holds the date's lock; and what the board counted   *)
(* of the dates it displaces stays true for the same reason.               *)
(***************************************************************************)
EXTENDS EventSignup, FiniteSetTheorems, FunctionTheorems, WellFoundedInduction, TLAPS

Claims(p, d) == claim[p] # None /\ claim[p].date = d
BoardHas(d) == board # None /\ d \in board.displaced \ board.todo

(* A date's lock is held by the claim or the writer that took it. *)
LocksAreHeld ==
    \A d \in Dates : /\ \A p \in Persons : held[d] = p <=> Claims(p, d)
                     /\ held[d] = "board" <=> BoardHas(d)

(* What the claim o of person p has read and will write on. *)
Sound(p, o) ==
    /\ date[o.date] # None
    /\ o.at = "writing" =>
         /\ There(o.date) /\ ~date[o.date].off
         /\ signup[o.date][p] # "standing"
         /\ o.capacity \in Capacities /\ Cardinality(Standing(o.date)) < o.capacity

ClaimsAreSound == \A p \in Persons : \A o \in {claim[p]} \ {None} : Sound(p, o)

(* What the writer b of the series has planned and counted. *)
WellPlanned(b) ==
    /\ b.capacity \in Capacities /\ b.planned \in Schedules
    /\ b.added \subseteq DOMAIN b.planned
    /\ \A d \in Dates : There(d) => date[d].day \notin b.added
    /\ Cardinality(b.added) <= Cardinality(Unused)

Ready(b) ==
    /\ series # None
    /\ b.todo \subseteq b.displaced /\ (b.at # "locking" => b.todo = {})
    /\ \A d \in b.displaced : There(d)
    /\ b.act = "edit" => WellPlanned(b)
    /\ b.act = "remove" => \A d \in Dates : There(d) => d \in b.displaced
    /\ b.at = "writing" /\ b.act # "calloff" => \A d \in b.displaced : Standing(d) = {}

BoardIsReady == \A b \in {board} \ {None} : Ready(b)

(* Nobody stands on a date that is gone, and no date outlives its series. *)
StandingIsOnDates ==
    \A d \in Dates : /\ Standing(d) # {} => There(d)
                     /\ There(d) => series # None

IInv == TypeOK /\ LocksAreHeld /\ ClaimsAreSound /\ BoardIsReady /\ StandingIsOnDates

-----------------------------------------------------------------------------
LEMMA ClaimIs ==
  ASSUME IInv, NEW p \in Persons, NEW o, o = claim[p], o # None
  PROVE  o \in Claim /\ o.date \in Dates /\ Sound(p, o) /\ held[o.date] = p
<1>1. o \in Claim
  BY DEF IInv, TypeOK
<1>2. o.date \in Dates
  BY <1>1 DEF Claim
<1>3. Sound(p, o)
  BY DEF IInv, ClaimsAreSound
<1>4. held[o.date] = p
  BY <1>2 DEF IInv, LocksAreHeld, Claims
<1> QED
  BY <1>1, <1>2, <1>3, <1>4

LEMMA BoardIs ==
  ASSUME IInv, NEW b, b = board, b # None
  PROVE  b \in Writer /\ Ready(b) /\ b.displaced \subseteq Dates /\ b.todo \subseteq Dates
BY DEF IInv, TypeOK, BoardIsReady, Writer

LEMMA ThereIs ==
  ASSUME IInv, NEW d \in Dates, There(d)
  PROVE  date[d] \in Date /\ date[d] # None /\ date[d].there
BY DEF IInv, TypeOK, There

LEMMA StandingIs ==
  ASSUME NEW d \in Dates
  PROVE  IsFiniteSet(Standing(d)) /\ Cardinality(Standing(d)) \in Nat
<1>1. Standing(d) \in SUBSET Persons
  BY DEF Standing
<1>2. IsFiniteSet(Standing(d))
  BY <1>1, PersonsAssumption, FS_Subset
<1> QED
  BY <1>2, FS_CardinalityType

(* A claim's own step: its locks are told by the caller. *)
LEMMA ClaimStep ==
  ASSUME IInv, NEW p \in Persons, NEW x \in Claim \union {None},
         claim' = [claim EXCEPT ![p] = x], x # None => Sound(p, x),
         UNCHANGED <<series, date, signup, board, clock>>,
         held' \in [Dates -> Persons \union {"board", None}], LocksAreHeld'
  PROVE  IInv'
<1>1. /\ series' = series /\ date' = date /\ signup' = signup /\ board' = board
      /\ clock' = clock
  OBVIOUS
<1>2. /\ claim' \in [Persons -> Claim \union {None}] /\ claim'[p] = x
      /\ \A q \in Persons : q # p => claim'[q] = claim[q]
  BY DEF IInv, TypeOK
<1>3. TypeOK'
  BY <1>1, <1>2 DEF IInv, TypeOK, There
<1>4. ClaimsAreSound'
  <2> SUFFICES ASSUME NEW q \in Persons, NEW o, o = claim'[q], o # None
               PROVE  Sound(q, o)'
    BY DEF ClaimsAreSound
  <2>1. Sound(q, o)
    BY <1>2, ClaimIs
  <2> QED
    BY <1>1, <2>1 DEF Sound, There, Standing
<1>5. StandingIsOnDates'
  BY <1>1 DEF IInv, StandingIsOnDates, There, Standing
<1>6. BoardIsReady'
  <2> SUFFICES ASSUME NEW b, b = board, b # None
               PROVE  Ready(b)'
    BY <1>1 DEF BoardIsReady
  <2>1. Ready(b)
    BY BoardIs
  <2> QED
    BY <1>1, <2>1 DEF Ready, WellPlanned, There, Standing, Unused
<1> QED
  BY <1>3, <1>4, <1>5, <1>6 DEF IInv

(* The writer's step before it writes. *)
LEMMA WriterStep ==
  ASSUME IInv, NEW b \in Writer \union {None}, board' = b, b # None => Ready(b),
         UNCHANGED <<series, date, signup, claim, clock>>,
         held' \in [Dates -> Persons \union {"board", None}], LocksAreHeld'
  PROVE  IInv'
<1>1. /\ series' = series /\ date' = date /\ signup' = signup /\ claim' = claim
      /\ clock' = clock
  OBVIOUS
<1>2. TypeOK'
  BY <1>1 DEF IInv, TypeOK, There
<1>3. ClaimsAreSound' /\ StandingIsOnDates'
  BY <1>1 DEF IInv, ClaimsAreSound, Sound, StandingIsOnDates, There, Standing
<1>4. BoardIsReady'
  <2> SUFFICES ASSUME b # None
               PROVE  Ready(b)'
    BY DEF BoardIsReady
  <2> QED
    BY <1>1 DEF Ready, WellPlanned, There, Standing, Unused
<1> QED
  BY <1>2, <1>3, <1>4 DEF IInv

(* People stand down or are erased. *)
LEMMA StandDown ==
  ASSUME IInv, UNCHANGED <<series, date, held, claim, board, clock>>,
         signup' \in [Dates -> [Persons -> {"none", "standing", "withdrawn"}]],
         \A d \in Dates, p \in Persons : signup'[d][p] = "standing" => signup[d][p] = "standing"
  PROVE  IInv'
<1>1. /\ series' = series /\ date' = date /\ held' = held /\ board' = board
      /\ claim' = claim /\ clock' = clock
  OBVIOUS
<1>2. TypeOK' /\ LocksAreHeld'
  BY <1>1 DEF IInv, TypeOK, There, LocksAreHeld, Claims, BoardHas
<1>3. ASSUME NEW d \in Dates
      PROVE  /\ Standing(d)' \subseteq Standing(d)
             /\ Cardinality(Standing(d)') \in Nat
             /\ Cardinality(Standing(d)) \in Nat
             /\ Cardinality(Standing(d)') <= Cardinality(Standing(d))
  <2>1. Standing(d)' \in SUBSET Standing(d)
    BY DEF Standing
  <2>2. IsFiniteSet(Standing(d)) /\ Cardinality(Standing(d)) \in Nat
    BY StandingIs
  <2>3. IsFiniteSet(Standing(d)') /\ Cardinality(Standing(d)') <= Cardinality(Standing(d))
    BY <2>1, <2>2, FS_Subset
  <2> QED
    BY <2>1, <2>2, <2>3, FS_CardinalityType
<1>4. ClaimsAreSound'
  <2> SUFFICES ASSUME NEW p \in Persons, NEW o, o = claim[p], o # None
               PROVE  Sound(p, o)'
    BY <1>1 DEF ClaimsAreSound
  <2>1. Sound(p, o) /\ o.date \in Dates
    BY ClaimIs
  <2>2. PICK d \in Dates : d = o.date
    BY <2>1
  <2>3. PICK n \in Nat : n = Cardinality(Standing(d))
    BY <1>3
  <2>4. PICK m \in Nat : m = Cardinality(Standing(d)') /\ m <= n
    BY <1>3, <2>3
  <2>5. o.capacity \in Capacities => o.capacity \in Nat
    BY CapacitiesAssumption
  <2>6. o.capacity \in Capacities /\ n < o.capacity => m < o.capacity
    BY <2>4, <2>5
  <2>7. date'[d] = date[d] /\ (signup'[d][p] = "standing" => signup[d][p] = "standing")
    BY <1>1
  <2> QED
    BY <2>1, <2>2, <2>3, <2>4, <2>6, <2>7 DEF Sound, There
<1>5. BoardIsReady' /\ StandingIsOnDates'
  <2>1. StandingIsOnDates'
    BY <1>1, <1>3 DEF IInv, StandingIsOnDates, There
  <2>2. ASSUME NEW b, b = board, b # None PROVE Ready(b)'
    <3>1. Ready(b) /\ b.displaced \subseteq Dates
      BY <2>2, BoardIs
    <3>2. \A d \in b.displaced : Standing(d) = {} => Standing(d)' = {}
      BY <1>3, <3>1
    <3> QED
      BY <1>1, <3>1, <3>2 DEF Ready, WellPlanned, There, Unused
  <2> QED
    BY <1>1, <2>1, <2>2 DEF BoardIsReady
<1> QED
  BY <1>2, <1>4, <1>5 DEF IInv

-----------------------------------------------------------------------------
(* The steps of those who sign up and stand down. *)
LEMMA ClaimLocksKeeps ==
  ASSUME IInv, NEW p \in Persons, NEW d \in Dates, ClaimLocks(p, d)
  PROVE  IInv'
<1>1. PICK x : x = [date |-> d, at |-> "reading", capacity |-> None, again |-> FALSE]
  OBVIOUS
<1>2. x \in Claim /\ x.date = d /\ x.at = "reading"
  BY <1>1 DEF Claim
<1>3. x # None
  BY <1>2, NoneAssumption
<1>4. /\ claim[p] = None /\ date[d] # None /\ held[d] = None
      /\ claim' = [claim EXCEPT ![p] = x] /\ held' = [held EXCEPT ![d] = p]
      /\ UNCHANGED <<series, date, signup, board, clock>> /\ board' = board
  BY <1>1 DEF ClaimLocks
<1>5. /\ held' \in [Dates -> Persons \union {"board", None}] /\ held'[d] = p
      /\ \A e \in Dates : e # d => held'[e] = held[e]
      /\ claim'[p] = x /\ \A q \in Persons : q # p => claim'[q] = claim[q]
  BY <1>4 DEF IInv, TypeOK
<1>6. Sound(p, x)
  BY <1>2, <1>4 DEF Sound
<1>7. LocksAreHeld'
  <2> SUFFICES ASSUME NEW e \in Dates
               PROVE  /\ \A q \in Persons : held'[e] = q <=> Claims(q, e)'
                      /\ held'[e] = "board" <=> BoardHas(e)'
    BY DEF LocksAreHeld
  <2>1. /\ \A q \in Persons : held[e] = q <=> Claims(q, e)
        /\ held[e] = "board" <=> BoardHas(e)
        /\ BoardHas(e)' <=> BoardHas(e)
    BY <1>4 DEF IInv, LocksAreHeld, BoardHas
  <2>2. \A q \in Persons : q # p => (Claims(q, e)' <=> Claims(q, e))
    BY <1>5 DEF Claims
  <2>3. (Claims(p, e)' <=> e = d) /\ ~Claims(p, e)
    BY <1>2, <1>3, <1>4, <1>5 DEF Claims
  <2> QED
    BY <1>4, <1>5, <2>1, <2>2, <2>3, PersonsAssumption
<1> QED
  BY <1>2, <1>4, <1>5, <1>6, <1>7, ClaimStep

LEMMA EndsIs ==
  ASSUME IInv, NEW p \in Persons, ClaimEnds(p), board' = board
  PROVE  /\ claim' = [claim EXCEPT ![p] = None] /\ claim'[p] = None
         /\ \A q \in Persons : q # p => claim'[q] = claim[q]
         /\ held' \in [Dates -> Persons \union {"board", None}] /\ LocksAreHeld'
<1>1. /\ claim' = [claim EXCEPT ![p] = None]
      /\ held' = [d \in Dates |-> IF held[d] = p THEN None ELSE held[d]]
  BY DEF ClaimEnds
<1>2. /\ held' \in [Dates -> Persons \union {"board", None}]
      /\ \A e \in Dates : held'[e] = IF held[e] = p THEN None ELSE held[e]
      /\ claim'[p] = None /\ \A q \in Persons : q # p => claim'[q] = claim[q]
  BY <1>1 DEF IInv, TypeOK
<1>3. LocksAreHeld'
  <2> SUFFICES ASSUME NEW e \in Dates
               PROVE  /\ \A q \in Persons : held'[e] = q <=> Claims(q, e)'
                      /\ held'[e] = "board" <=> BoardHas(e)'
    BY DEF LocksAreHeld
  <2>1. /\ \A q \in Persons : held[e] = q <=> Claims(q, e)
        /\ held[e] = "board" <=> BoardHas(e)
        /\ BoardHas(e)' <=> BoardHas(e)
    BY DEF IInv, LocksAreHeld, BoardHas
  <2>2. \A q \in Persons : q # p => (Claims(q, e)' <=> Claims(q, e))
    BY <1>2 DEF Claims
  <2>3. ~Claims(p, e)'
    BY <1>2 DEF Claims
  <2> QED
    BY <1>2, <2>1, <2>2, <2>3, PersonsAssumption
<1> QED
  BY <1>1, <1>2, <1>3

LEMMA ClaimReadsKeeps ==
  ASSUME IInv, NEW p \in Persons, NEW now \in Arrived, ClaimReads(p, now)
  PROVE  IInv'
<1>1. PICK o : o = claim[p] /\ o # None /\ o.at = "reading"
  BY DEF ClaimReads
<1>2. o \in Claim /\ o.date \in Dates /\ Sound(p, o) /\ held[o.date] = p
  BY <1>1, ClaimIs
<1>3. UNCHANGED <<series, date, signup, board, clock>> /\ board' = board
  BY DEF ClaimReads
<1>4. CASE Attendable(p, now) /\ Cardinality(Standing(o.date)) < series.capacity
  <2>1. PICK again \in BOOLEAN : again = (signup[o.date][p] = "withdrawn")
    OBVIOUS
  <2>2. PICK x : x = [o EXCEPT !.at = "writing", !.capacity = series.capacity,
                               !.again = again]
    OBVIOUS
  <2>3. claim' = [claim EXCEPT ![p] = x] /\ held' = held
    BY <1>1, <1>4, <2>1, <2>2 DEF ClaimReads
  <2>4. /\ There(o.date) /\ ~date[o.date].off /\ signup[o.date][p] # "standing"
    BY <1>1, <1>4 DEF Attendable
  <2>5. series \in Series
    BY <1>2, <2>4 DEF IInv, StandingIsOnDates, TypeOK
  <2>6. /\ x \in Claim /\ x.date = o.date /\ x.capacity = series.capacity
        /\ x.capacity \in Capacities
    BY <1>2, <2>1, <2>2, <2>5 DEF Claim, Series
  <2>7. Sound(p, x)
    BY <1>2, <1>4, <2>4, <2>6 DEF Sound
  <2>8. claim'[p] = x /\ \A q \in Persons : q # p => claim'[q] = claim[q]
    BY <2>3 DEF IInv, TypeOK
  <2>9. x # None
    BY <2>6, NoneAssumption
  <2>10. \A q \in Persons, e \in Dates : Claims(q, e)' <=> Claims(q, e)
    BY <1>1, <2>6, <2>8, <2>9 DEF Claims
  <2>11. LocksAreHeld' /\ held' \in [Dates -> Persons \union {"board", None}]
    BY <1>3, <2>3, <2>10 DEF IInv, LocksAreHeld, BoardHas, TypeOK
  <2> QED
    BY <1>3, <2>3, <2>6, <2>7, <2>11, ClaimStep
<1>5. CASE ~(Attendable(p, now) /\ Cardinality(Standing(o.date)) < series.capacity)
  <2>1. ClaimEnds(p)
    BY <1>1, <1>5 DEF ClaimReads
  <2> QED
    BY <1>3, <2>1, EndsIs, ClaimStep
<1> QED
  BY <1>4, <1>5

LEMMA WithdrawsKeeps ==
  ASSUME IInv, NEW p \in Persons, NEW d \in Dates, Withdraws(p, d)
  PROVE  IInv'
<1>1. PICK f : f = [signup[d] EXCEPT ![p] = "withdrawn"]
  OBVIOUS
<1>2. signup' = [signup EXCEPT ![d] = f]
  BY <1>1 DEF Withdraws
<1>3. /\ f \in [Persons -> {"none", "standing", "withdrawn"}]
      /\ \A q \in Persons : f[q] = "standing" => signup[d][q] = "standing"
  BY <1>1 DEF IInv, TypeOK
<1>4. /\ signup' \in [Dates -> [Persons -> {"none", "standing", "withdrawn"}]]
      /\ signup'[d] = f /\ \A e \in Dates : e # d => signup'[e] = signup[e]
  BY <1>2, <1>3 DEF IInv, TypeOK
<1>5. UNCHANGED <<series, date, held, claim, board, clock>>
  BY DEF Withdraws
<1> QED
  BY <1>3, <1>4, <1>5, StandDown

LEMMA PurgesKeeps ==
  ASSUME IInv, NEW p \in Persons, Purges(p)
  PROVE  IInv'
<1>1. signup' = [d \in Dates |-> [signup[d] EXCEPT ![p] = "none"]]
  BY DEF Purges
<1>2. ASSUME NEW d \in Dates
      PROVE  /\ signup'[d] \in [Persons -> {"none", "standing", "withdrawn"}]
             /\ \A q \in Persons : signup'[d][q] = "standing" => signup[d][q] = "standing"
  <2>1. PICK f : f = signup[d] /\ f \in [Persons -> {"none", "standing", "withdrawn"}]
    BY DEF IInv, TypeOK
  <2>2. signup'[d] = [f EXCEPT ![p] = "none"]
    BY <1>1, <2>1
  <2> QED
    BY <2>1, <2>2
<1>3. signup' \in [Dates -> [Persons -> {"none", "standing", "withdrawn"}]]
  BY <1>1, <1>2
<1>4. UNCHANGED <<series, date, held, claim, board, clock>>
  BY DEF Purges
<1> QED
  BY <1>2, <1>3, <1>4, StandDown

-----------------------------------------------------------------------------
(* The steps of the board before it writes, and of the clock. *)
LEMMA PublishesKeeps ==
  ASSUME IInv, NEW published \in BOOLEAN, Publishes(published)
  PROVE  IInv'
<1>1. /\ board = None /\ series # None /\ series' = [series EXCEPT !.published = published]
      /\ date' = date /\ signup' = signup /\ held' = held /\ claim' = claim
      /\ board' = board /\ clock' = clock
  BY DEF Publishes, Free
<1>2. series' \in Series
  BY <1>1 DEF IInv, TypeOK, Series
<1>3. TypeOK' /\ LocksAreHeld'
  BY <1>1, <1>2 DEF IInv, TypeOK, There, LocksAreHeld, Claims, BoardHas
<1>4. series' # None
  BY <1>2, NoneAssumption
<1>5. ClaimsAreSound' /\ BoardIsReady'
  BY <1>1 DEF IInv, ClaimsAreSound, Sound, There, Standing, BoardIsReady
<1>6. StandingIsOnDates'
  BY <1>1, <1>4 DEF IInv, StandingIsOnDates, There, Standing
<1> QED
  BY <1>3, <1>5, <1>6 DEF IInv

LEMMA ReinstatesKeeps ==
  ASSUME IInv, NEW d \in Dates, NEW now \in Arrived, Reinstates(d, now)
  PROVE  IInv'
<1>1. PICK x : x = [date[d] EXCEPT !.off = FALSE]
  OBVIOUS
<1>2. /\ board = None /\ There(d) /\ date' = [date EXCEPT ![d] = x]
      /\ series' = series /\ signup' = signup /\ held' = held /\ claim' = claim
      /\ board' = board /\ clock' = clock
  BY <1>1 DEF Reinstates, Free
<1>3. date[d] \in Date /\ date[d] # None /\ date[d].there
  BY <1>2, ThereIs
<1>4. x \in Date /\ x.there /\ x.day = date[d].day /\ ~x.off
  BY <1>1, <1>3 DEF Date
<1>5. x # None
  BY <1>4, NoneAssumption
<1>6. /\ date' \in [Dates -> Date \union {None}] /\ date'[d] = x
      /\ \A e \in Dates : e # d => date'[e] = date[e]
  BY <1>2, <1>4 DEF IInv, TypeOK
<1>7. \A e \in Dates : There(e)' <=> There(e)
  BY <1>3, <1>4, <1>5, <1>6 DEF There
<1>8. \A e \in Dates : There(e) => date'[e].day = date[e].day
  BY <1>4, <1>6
<1>9. TypeOK' /\ LocksAreHeld'
  BY <1>2, <1>6, <1>7, <1>8 DEF IInv, TypeOK, LocksAreHeld, Claims, BoardHas
<1>10. ClaimsAreSound'
  <2> SUFFICES ASSUME NEW p \in Persons, NEW o, o = claim[p], o # None
               PROVE  Sound(p, o)'
    BY <1>2 DEF ClaimsAreSound
  <2>1. PICK e \in Dates : e = o.date /\ Sound(p, o)
    BY ClaimIs
  <2>2. date'[e] # None /\ (There(e) /\ ~date[e].off => There(e)' /\ ~date'[e].off)
    BY <1>4, <1>5, <1>6, <1>7, <2>1 DEF Sound
  <2> QED
    BY <1>2, <2>1, <2>2 DEF Sound, Standing
<1>11. StandingIsOnDates' /\ BoardIsReady'
  BY <1>2, <1>7 DEF IInv, StandingIsOnDates, Standing, BoardIsReady
<1> QED
  BY <1>9, <1>10, <1>11 DEF IInv

LEMMA TimeKeeps ==
  ASSUME IInv, TimePasses
  PROVE  IInv'
<1>1. /\ clock' \in 1..Last /\ series' = series /\ date' = date /\ signup' = signup
      /\ held' = held /\ claim' = claim /\ board' = board
  BY LastAssumption DEF TimePasses, IInv, TypeOK
<1>2. TypeOK' /\ LocksAreHeld'
  BY <1>1 DEF IInv, TypeOK, There, LocksAreHeld, Claims, BoardHas
<1>3. ClaimsAreSound' /\ StandingIsOnDates' /\ BoardIsReady'
  BY <1>1 DEF IInv, ClaimsAreSound, Sound, StandingIsOnDates, There, Standing, BoardIsReady,
              Ready, WellPlanned, Unused
<1> QED
  BY <1>2, <1>3 DEF IInv

LEMMA FreeBoard ==
  ASSUME IInv, Free
  PROVE  board = None /\ series # None /\ \A d \in Dates : held[d] # "board"
BY DEF Free, IInv, LocksAreHeld, BoardHas

(* The writer b begins, with none of its dates' locks yet. *)
LEMMA BoardBeginsKeeps ==
  ASSUME IInv, Free, NEW b \in Writer, board' = b, b.at = "locking", b.todo = b.displaced,
         Ready(b), UNCHANGED <<series, date, signup, held, claim, clock>>
  PROVE  IInv'
<1>1. /\ series' = series /\ date' = date /\ signup' = signup /\ held' = held
      /\ claim' = claim /\ clock' = clock
  OBVIOUS
<1>2. b # None
  BY NoneAssumption
<1>3. LocksAreHeld'
  <2> SUFFICES ASSUME NEW d \in Dates
               PROVE  /\ \A p \in Persons : held'[d] = p <=> Claims(p, d)'
                      /\ held'[d] = "board" <=> BoardHas(d)'
    BY DEF LocksAreHeld
  <2>1. \A p \in Persons : held[d] = p <=> Claims(p, d)
    BY DEF IInv, LocksAreHeld
  <2>2. ~BoardHas(d)' /\ held[d] # "board"
    BY FreeBoard DEF BoardHas
  <2> QED
    BY <1>1, <2>1, <2>2 DEF Claims
<1>4. held' \in [Dates -> Persons \union {"board", None}]
  BY <1>1 DEF IInv, TypeOK
<1> QED
  BY <1>2, <1>3, <1>4, WriterStep

LEMMA EditsKeeps ==
  ASSUME IInv, NEW capacity \in Capacities, NEW planned \in Schedules, NEW now \in Arrived,
         Edits(capacity, planned, now)
  PROVE  IInv'
<1>1. PICK moving \in SUBSET Dates : moving = Moved(planned, now) \union Dropped(planned, now)
  BY DEF Moved, Dropped, Future
<1>2. PICK days : days = Added(planned, now)
  OBVIOUS
<1>3. PICK b : b = [act |-> "edit", at |-> "locking", todo |-> moving, displaced |-> moving,
                    added |-> days, capacity |-> capacity, planned |-> planned]
  OBVIOUS
<1>4. /\ Free /\ board' = b /\ UNCHANGED <<series, date, signup, held, claim, clock>>
      /\ Cardinality(days) <= Cardinality(Unused)
  BY <1>1, <1>2, <1>3 DEF Edits, BoardBegins
<1>5. days \subseteq DOMAIN planned /\ DOMAIN planned \subseteq Days
  BY <1>2 DEF Added, Days
<1>6. \A d \in Dates : There(d) => date[d].day \notin days
  BY <1>2 DEF Added
<1>7. \A d \in moving : There(d)
  BY <1>1 DEF Moved, Dropped, Future
<1>8. /\ b \in Writer /\ b.act = "edit" /\ b.at = "locking" /\ b.todo = moving
      /\ b.displaced = moving /\ b.added = days /\ b.capacity = capacity
      /\ b.planned = planned
  BY <1>3, <1>5 DEF Writer
<1>9. WellPlanned(b)
  BY <1>4, <1>5, <1>6, <1>8 DEF WellPlanned
<1>10. Ready(b)
  BY <1>4, <1>7, <1>8, <1>9 DEF Ready, Free
<1> QED
  BY <1>4, <1>8, <1>10, BoardBeginsKeeps

LEMMA RemovesKeeps ==
  ASSUME IInv, Removes
  PROVE  IInv'
<1>1. PICK gone \in SUBSET Dates : gone = {d \in Dates : There(d)}
  OBVIOUS
<1>2. PICK b : b = [act |-> "remove", at |-> "locking", todo |-> gone, displaced |-> gone,
                    added |-> {}, capacity |-> None, planned |-> None]
  OBVIOUS
<1>3. /\ Free /\ board' = b /\ UNCHANGED <<series, date, signup, held, claim, clock>>
  BY <1>1, <1>2 DEF Removes, BoardBegins
<1>4. /\ b \in Writer /\ b.act = "remove" /\ b.at = "locking" /\ b.todo = gone
      /\ b.displaced = gone
  BY <1>2 DEF Writer
<1>5. Ready(b)
  BY <1>1, <1>3, <1>4 DEF Ready, Free
<1> QED
  BY <1>3, <1>4, <1>5, BoardBeginsKeeps

LEMMA CallsOffKeeps ==
  ASSUME IInv, NEW d \in Dates, CallsOff(d)
  PROVE  IInv'
<1>1. PICK off \in SUBSET Dates : off = {d}
  OBVIOUS
<1>2. PICK b : b = [act |-> "calloff", at |-> "locking", todo |-> off, displaced |-> off,
                    added |-> {}, capacity |-> None, planned |-> None]
  OBVIOUS
<1>3. /\ Free /\ board' = b /\ UNCHANGED <<series, date, signup, held, claim, clock>>
      /\ There(d)
  BY <1>1, <1>2 DEF CallsOff, BoardBegins
<1>4. /\ b \in Writer /\ b.act = "calloff" /\ b.at = "locking" /\ b.todo = off
      /\ b.displaced = off
  BY <1>2 DEF Writer
<1>5. Ready(b)
  BY <1>1, <1>3, <1>4 DEF Ready, Free
<1> QED
  BY <1>3, <1>4, <1>5, BoardBeginsKeeps

LEMMA LeastIs ==
  ASSUME NEW S \in SUBSET Nat, S # {}
  PROVE  \E x \in S : \A y \in S : x <= y
<1>1. PICK x \in S : \A y \in S : ~(<<y, x>> \in OpToRel(<, Nat))
  BY NatLessThanWellFounded, WFMin
<1>2. ASSUME NEW y \in S, y < x
      PROVE  FALSE
  <2>1. <<y, x>> \in Nat \X Nat /\ <<y, x>>[1] = y /\ <<y, x>>[2] = x
    OBVIOUS
  <2>2. <<y, x>> \in OpToRel(<, Nat)
    BY <1>2, <2>1, Zenon DEF OpToRel
  <2> QED
    BY <1>1, <2>2
<1> QED
  BY <1>2

LEMMA BoardLocksKeeps ==
  ASSUME IInv, BoardLocks
  PROVE  IInv'
<1>1. PICK b : b = board /\ b # None /\ b.at = "locking"
  BY DEF BoardLocks
<1>2. b \in Writer /\ Ready(b) /\ b.displaced \subseteq Dates /\ b.todo \subseteq Dates
  BY <1>1, BoardIs
<1>3. UNCHANGED <<series, date, signup, claim, clock>> /\ claim' = claim
  BY DEF BoardLocks
<1>4. CASE b.todo = {}
  <2>1. PICK x : x = [b EXCEPT !.at = "counting"]
    OBVIOUS
  <2>2. board' = x /\ held' = held
    BY <1>1, <1>4, <2>1 DEF BoardLocks
  <2>3. /\ x \in Writer /\ x.at = "counting" /\ x.todo = {} /\ x.displaced = b.displaced
        /\ x.act = b.act /\ x.added = b.added /\ x.planned = b.planned
        /\ x.capacity = b.capacity
    BY <1>2, <1>4, <2>1 DEF Writer
  <2>4. Ready(x)
    BY <1>2, <2>3 DEF Ready, WellPlanned
  <2>5. x # None
    BY <2>3, NoneAssumption
  <2>6. LocksAreHeld' /\ held' \in [Dates -> Persons \union {"board", None}]
    BY <1>1, <1>3, <1>4, <2>2, <2>3, <2>5
       DEF IInv, LocksAreHeld, Claims, BoardHas, TypeOK
  <2> QED
    BY <1>3, <2>2, <2>3, <2>4, <2>6, WriterStep
<1>5. CASE b.todo # {}
  <2>1. PICK d : d = CHOOSE e \in b.todo : \A f \in b.todo : e <= f
    OBVIOUS
  <2>3. d \in b.todo /\ d \in Dates
    <3>1. b.todo \in SUBSET Nat
      BY <1>2, DatesAssumption
    <3>2. \E e \in b.todo : \A f \in b.todo : e <= f
      BY <1>5, <3>1, LeastIs
    <3> QED
      BY <1>2, <2>1, <3>2
  <2>4. PICK x : x = [b EXCEPT !.todo = @ \ {d}]
    OBVIOUS
  <2>5. held[d] = None /\ held' = [held EXCEPT ![d] = "board"] /\ board' = x
    BY <1>1, <1>5, <2>1, <2>4 DEF BoardLocks
  <2>6. /\ x \in Writer /\ x.at = "locking" /\ x.todo = b.todo \ {d}
        /\ x.displaced = b.displaced /\ x.act = b.act /\ x.added = b.added
        /\ x.planned = b.planned /\ x.capacity = b.capacity
    BY <1>1, <1>2, <2>4 DEF Writer
  <2>7. Ready(x)
    BY <1>2, <2>6 DEF Ready, WellPlanned
  <2>8. x # None
    BY <2>6, NoneAssumption
  <2>9. /\ held' \in [Dates -> Persons \union {"board", None}] /\ held'[d] = "board"
        /\ \A e \in Dates : e # d => held'[e] = held[e]
    BY <2>3, <2>5 DEF IInv, TypeOK
  <2>10. LocksAreHeld'
    <3> SUFFICES ASSUME NEW e \in Dates
                 PROVE  /\ \A p \in Persons : held'[e] = p <=> Claims(p, e)'
                        /\ held'[e] = "board" <=> BoardHas(e)'
      BY DEF LocksAreHeld
    <3>1. /\ \A p \in Persons : held[e] = p <=> Claims(p, e)
          /\ held[e] = "board" <=> BoardHas(e)
          /\ \A p \in Persons : Claims(p, e)' <=> Claims(p, e)
      BY <1>3 DEF IInv, LocksAreHeld, Claims
    <3>2. BoardHas(e)' <=> BoardHas(e) \/ (e = d /\ d \in b.displaced)
      BY <1>1, <2>3, <2>5, <2>6, <2>8 DEF BoardHas
    <3>3. d \in b.displaced
      BY <1>2, <2>3 DEF Ready
    <3> QED
      BY <2>5, <2>9, <3>1, <3>2, <3>3, PersonsAssumption
  <2> QED
    BY <1>3, <2>5, <2>6, <2>7, <2>9, <2>10, WriterStep
<1> QED
  BY <1>4, <1>5

LEMMA BoardEndsIs ==
  ASSUME IInv, BoardEnds, claim' = claim
  PROVE  /\ board' = None /\ held' \in [Dates -> Persons \union {"board", None}]
         /\ LocksAreHeld'
<1>1. /\ board' = None
      /\ held' = [d \in Dates |-> IF held[d] = "board" THEN None ELSE held[d]]
  BY DEF BoardEnds
<1>2. /\ held' \in [Dates -> Persons \union {"board", None}]
      /\ \A d \in Dates : held'[d] = IF held[d] = "board" THEN None ELSE held[d]
  BY <1>1 DEF IInv, TypeOK
<1>3. LocksAreHeld'
  <2> SUFFICES ASSUME NEW d \in Dates
               PROVE  /\ \A p \in Persons : held'[d] = p <=> Claims(p, d)'
                      /\ held'[d] = "board" <=> BoardHas(d)'
    BY DEF LocksAreHeld
  <2>1. /\ \A p \in Persons : held[d] = p <=> Claims(p, d)
        /\ \A p \in Persons : Claims(p, d)' <=> Claims(p, d)
        /\ ~BoardHas(d)'
    BY <1>1 DEF IInv, LocksAreHeld, Claims, BoardHas
  <2> QED
    BY <1>2, <2>1, PersonsAssumption
<1> QED
  BY <1>1, <1>2, <1>3

LEMMA BoardCountsKeeps ==
  ASSUME IInv, NEW now \in Arrived, BoardCounts(now)
  PROVE  IInv'
<1>1. PICK b : b = board /\ b # None /\ b.at = "counting"
  BY DEF BoardCounts
<1>2. b \in Writer /\ Ready(b) /\ b.displaced \subseteq Dates /\ b.todo \subseteq Dates
  BY <1>1, BoardIs
<1>3. UNCHANGED <<series, date, signup, claim, clock>> /\ claim' = claim
  BY DEF BoardCounts
<1>4. CASE Refused(now)
  <2>1. BoardEnds
    BY <1>4 DEF BoardCounts
  <2> QED
    BY <1>3, <2>1, BoardEndsIs, WriterStep
<1>5. CASE ~Refused(now)
  <2>1. PICK x : x = [b EXCEPT !.at = "writing"]
    OBVIOUS
  <2>2. board' = x /\ held' = held
    BY <1>1, <1>5, <2>1 DEF BoardCounts
  <2>3. /\ x \in Writer /\ x.at = "writing" /\ x.todo = b.todo /\ x.displaced = b.displaced
        /\ x.act = b.act /\ x.added = b.added /\ x.planned = b.planned
        /\ x.capacity = b.capacity
    BY <1>2, <2>1 DEF Writer
  <2>4. x.act # "calloff" => \A d \in x.displaced : Standing(d) = {}
    BY <1>1, <1>5, <2>3 DEF Refused
  <2>5. Ready(x)
    BY <1>1, <1>2, <2>3, <2>4 DEF Ready, WellPlanned
  <2>6. x # None
    BY <2>3, NoneAssumption
  <2>7. LocksAreHeld' /\ held' \in [Dates -> Persons \union {"board", None}]
    BY <1>1, <1>3, <2>2, <2>3, <2>6
       DEF IInv, LocksAreHeld, Claims, BoardHas, TypeOK
  <2> QED
    BY <1>3, <2>2, <2>3, <2>5, <2>7, WriterStep
<1> QED
  BY <1>4, <1>5

(* What a claim writes on the date d it holds. *)
LEMMA TakesIs ==
  ASSUME IInv, NEW p \in Persons, Takes(p), NEW d \in Dates, d = claim[p].date
  PROVE  /\ claim[p] # None /\ There(d) /\ ~date[d].off /\ ClaimEnds(p)
         /\ claim[p].capacity \in Capacities
         /\ signup' \in [Dates -> [Persons -> {"none", "standing", "withdrawn"}]]
         /\ \A e \in Dates : e # d => signup'[e] = signup[e] /\ Standing(e)' = Standing(e)
         /\ \A q \in Persons : q # p => signup'[d][q] = signup[d][q]
         /\ Cardinality(Standing(d)') <= claim[p].capacity
         /\ UNCHANGED <<series, date, board, clock>>
<1>1. PICK o : o = claim[p] /\ o # None /\ o.at = "writing"
  BY DEF Takes
<1>2. PICK row : row = IF o.again THEN "withdrawn" ELSE "none"
  OBVIOUS
<1>3. /\ signup' = IF There(d) /\ signup[d][p] = row
                   THEN [signup EXCEPT ![d][p] = "standing"] ELSE signup
      /\ ClaimEnds(p)
      /\ UNCHANGED <<series, date, board, clock>>
  BY <1>1, <1>2 DEF Takes
<1>4. Sound(p, o)
  BY <1>1, ClaimIs
<1>5. /\ There(d) /\ ~date[d].off /\ o.capacity \in Capacities
      /\ Cardinality(Standing(d)) < o.capacity
  BY <1>1, <1>4 DEF Sound
<1>6. PICK f : f = signup[d] /\ f \in [Persons -> {"none", "standing", "withdrawn"}]
  BY DEF IInv, TypeOK
<1>7. PICK g : g = [f EXCEPT ![p] = "standing"]
  OBVIOUS
<1>8. signup' = signup \/ signup' = [signup EXCEPT ![d] = g]
  BY <1>3, <1>6, <1>7
<1>9. g \in [Persons -> {"none", "standing", "withdrawn"}]
      /\ \A q \in Persons : q # p => g[q] = f[q]
  BY <1>6, <1>7
<1>10. /\ signup' \in [Dates -> [Persons -> {"none", "standing", "withdrawn"}]]
       /\ \A e \in Dates : e # d => signup'[e] = signup[e]
       /\ signup'[d] = f \/ signup'[d] = g
  BY <1>6, <1>8, <1>9 DEF IInv, TypeOK
<1>11. \A q \in Persons : q # p => signup'[d][q] = signup[d][q]
  BY <1>6, <1>9, <1>10
<1>12. Standing(d)' \in SUBSET (Standing(d) \union {p})
  BY <1>11 DEF Standing
<1>13. Cardinality(Standing(d)') <= o.capacity
  <2>1. IsFiniteSet(Standing(d)) /\ Cardinality(Standing(d)) \in Nat
    BY StandingIs
  <2>2. PICK S : S = Standing(d)
    OBVIOUS
  <2>3. PICK i \in Nat : i = Cardinality(S)
    BY <2>1, <2>2
  <2>4. IsFiniteSet(S \union {p}) /\ Cardinality(S \union {p}) \in {i, i + 1}
    BY <2>1, <2>2, <2>3, FS_AddElement
  <2>5. /\ IsFiniteSet(Standing(d)')
        /\ Cardinality(Standing(d)') <= Cardinality(S \union {p})
    BY <1>12, <2>2, <2>4, FS_Subset
  <2>6. Cardinality(Standing(d)') \in Nat
    BY <2>5, FS_CardinalityType
  <2>7. PICK j \in Nat : j = Cardinality(Standing(d)') /\ j <= i + 1
    BY <2>4, <2>5, <2>6
  <2>8. o.capacity \in Nat /\ i < o.capacity
    BY <1>5, <2>2, <2>3, CapacitiesAssumption
  <2> QED
    BY <2>7, <2>8
<1>14. \A e \in Dates : e # d => Standing(e)' = Standing(e)
  BY <1>10 DEF Standing
<1> QED
  BY <1>1, <1>3, <1>5, <1>10, <1>11, <1>13, <1>14

LEMMA TakesKeeps ==
  ASSUME IInv, NEW p \in Persons, Takes(p)
  PROVE  IInv'
<1>1. claim[p] # None
  BY DEF Takes
<1>2. PICK d \in Dates : d = claim[p].date /\ held[d] = p
  BY <1>1, ClaimIs
<1>3. /\ There(d) /\ ClaimEnds(p)
      /\ signup' \in [Dates -> [Persons -> {"none", "standing", "withdrawn"}]]
      /\ \A e \in Dates : e # d => signup'[e] = signup[e] /\ Standing(e)' = Standing(e)
      /\ UNCHANGED <<series, date, board, clock>>
  BY <1>2, TakesIs
<1>4. /\ series' = series /\ date' = date /\ board' = board /\ clock' = clock
  BY <1>3
<1>5. /\ claim' = [claim EXCEPT ![p] = None] /\ claim'[p] = None
      /\ \A q \in Persons : q # p => claim'[q] = claim[q]
      /\ held' \in [Dates -> Persons \union {"board", None}] /\ LocksAreHeld'
  BY <1>3, <1>4, EndsIs
<1>6. claim' \in [Persons -> Claim \union {None}]
  BY <1>5 DEF IInv, TypeOK
<1>7. TypeOK'
  BY <1>3, <1>4, <1>5, <1>6 DEF IInv, TypeOK, There
<1>8. ClaimsAreSound'
  <2> SUFFICES ASSUME NEW q \in Persons, NEW o, o = claim'[q], o # None
               PROVE  Sound(q, o)'
    BY DEF ClaimsAreSound
  <2>1. q # p /\ o = claim[q]
    BY <1>5
  <2>2. PICK e \in Dates : e = o.date /\ Sound(q, o) /\ held[e] = q
    BY <2>1, ClaimIs
  <2>3. e # d
    BY <1>2, <2>1, <2>2
  <2> QED
    BY <1>3, <1>4, <2>2, <2>3 DEF Sound, There
<1>9. StandingIsOnDates'
  BY <1>3, <1>4 DEF IInv, StandingIsOnDates, There
<1>10. BoardIsReady'
  <2> SUFFICES ASSUME NEW b, b = board, b # None
               PROVE  Ready(b)'
    BY <1>4 DEF BoardIsReady
  <2>1. b \in Writer /\ Ready(b) /\ b.displaced \subseteq Dates
    BY BoardIs
  <2>2. b.at = "writing" => d \notin b.displaced
    <3>1. ~BoardHas(d)
      BY <1>2, PersonsAssumption DEF IInv, LocksAreHeld
    <3> QED
      BY <2>1, <3>1 DEF BoardHas, Ready
  <2>3. \A e \in b.displaced : b.at = "writing" => Standing(e)' = Standing(e)
    BY <1>3, <2>1, <2>2
  <2> QED
    BY <1>4, <2>1, <2>3 DEF Ready, WellPlanned, There, Unused
<1> QED
  BY <1>5, <1>7, <1>8, <1>9, <1>10 DEF IInv

(* Each of the days gets a row of its own, when there are rows enough. *)
LEMMA RowsAreFound ==
  ASSUME NEW days, NEW unused, IsFiniteSet(days), IsFiniteSet(unused),
         Cardinality(days) <= Cardinality(unused)
  PROVE  \E f \in [days -> unused] : \A x, y \in days : f[x] = f[y] => x = y
<1>1. PICK m \in Nat : m = Cardinality(days) /\ ExistsBijection(1..m, days)
  BY FS_CardinalityType
<1>2. PICK n \in Nat : n = Cardinality(unused) /\ ExistsBijection(1..n, unused)
  BY FS_CardinalityType
<1>3. ExistsInjection(1..m, 1..n)
  BY <1>1, <1>2, Fun_NatInjLeq
<1>4. ExistsInjection(days, 1..m)
  BY <1>1, Fun_ExistsBijEquiv
<1>5. ExistsInjection(1..n, unused)
  BY <1>2, Fun_ExistsBijEquiv
<1>6. ExistsInjection(days, unused)
  BY <1>3, <1>4, <1>5, Fun_ExistsInjTransitive
<1>7. PICK f : f \in Injection(days, unused)
  BY <1>6, Fun_ExistsInj
<1>8. f \in [days -> unused] /\ \A x, y \in days : f[x] = f[y] => x = y
  BY <1>7 DEF Injection, IsInjective
<1> QED
  BY <1>8

(* What the dates are once days of the schedule planned are entered.       *)
Entered(new, dates, planned, days, unused) ==
    /\ DOMAIN new = Dates
    /\ \A d \in Dates :
         \/ new[d] = dates[d]
         \/ /\ d \in unused
            /\ \E day \in days : new[d] = [day |-> day, hour |-> planned[day],
                                          off |-> FALSE, there |-> TRUE]
    /\ \A d, e \in Dates :
         d # e /\ new[d] # dates[d] /\ new[e] # dates[e] => new[d].day # new[e].day

LEMMA WithDatesIs ==
  ASSUME NEW dates, NEW planned, NEW days, NEW unused, unused \subseteq Dates,
         IsFiniteSet(days), IsFiniteSet(unused), Cardinality(days) <= Cardinality(unused)
  PROVE  Entered(WithDates(dates, planned, days, unused), dates, planned, days, unused)
<1>1. PICK row : row = CHOOSE f \in [days -> unused] : \A x, y \in days : f[x] = f[y] => x = y
  OBVIOUS
<1>2. row \in [days -> unused] /\ \A x, y \in days : row[x] = row[y] => x = y
  BY <1>1, RowsAreFound
<1>3. PICK new : new = WithDates(dates, planned, days, unused)
  OBVIOUS
<1>4. new = [d \in Dates |->
               IF \E day \in days : row[day] = d
               THEN LET day == CHOOSE x \in days : row[x] = d
                    IN  [day |-> day, hour |-> planned[day], off |-> FALSE, there |-> TRUE]
               ELSE dates[d]]
  BY <1>1, <1>3 DEF WithDates
<1>5. ASSUME NEW d \in Dates, \E day \in days : row[day] = d
      PROVE  \E day \in days : /\ row[day] = d
                               /\ new[d] = [day |-> day, hour |-> planned[day],
                                            off |-> FALSE, there |-> TRUE]
  <2>1. PICK day : day = CHOOSE x \in days : row[x] = d
    OBVIOUS
  <2>2. day \in days /\ row[day] = d
    BY <1>5, <2>1
  <2>3. new[d] = [day |-> day, hour |-> planned[day], off |-> FALSE, there |-> TRUE]
    BY <1>4, <1>5, <2>1
  <2> QED
    BY <2>2, <2>3
<1>6. \A d \in Dates : (~\E day \in days : row[day] = d) => new[d] = dates[d]
  BY <1>4
<1>7. ASSUME NEW d \in Dates, NEW e \in Dates, d # e, new[d] # dates[d], new[e] # dates[e]
      PROVE  new[d].day # new[e].day
  <2>1. PICK x \in days : row[x] = d /\ new[d] = [day |-> x, hour |-> planned[x],
                                                   off |-> FALSE, there |-> TRUE]
    <3>1. \E day \in days : row[day] = d
      BY <1>6, <1>7
    <3> QED
      BY <1>5, <3>1
  <2>2. PICK y \in days : row[y] = e /\ new[e] = [day |-> y, hour |-> planned[y],
                                                   off |-> FALSE, there |-> TRUE]
    <3>1. \E day \in days : row[day] = e
      BY <1>6, <1>7
    <3> QED
      BY <1>5, <3>1
  <2> QED
    BY <1>7, <2>1, <2>2
<1>8. \A d \in Dates :
         \/ new[d] = dates[d]
         \/ /\ d \in unused
            /\ \E day \in days : new[d] = [day |-> day, hour |-> planned[day],
                                          off |-> FALSE, there |-> TRUE]
  BY <1>2, <1>5, <1>6
<1>9. DOMAIN new = Dates
  BY <1>4
<1> QED
  BY <1>3, <1>7, <1>8, <1>9 DEF Entered

-----------------------------------------------------------------------------
(* What the board writes. *)
LEMMA GoneIs ==
  ASSUME NEW x \in Date
  PROVE  Gone \in Date /\ ~Gone.there /\ Gone # None
<1>1. x.day \in Days
  BY DEF Date
<1>2. PICK day \in Days : day = CHOOSE e \in Days : TRUE
  BY <1>1
<1>3. 0 \in Hours
  BY SchedulesAssumption DEF Hours
<1>4. Gone = [day |-> day, hour |-> 0, off |-> FALSE, there |-> FALSE]
  BY <1>2 DEF Gone
<1>5. Gone \in Date /\ ~Gone.there
  BY <1>2, <1>3, <1>4 DEF Date
<1> QED
  BY <1>5, NoneAssumption

(* The dates after a writer with the dates S displaced. *)
Rewritten(S) ==
    /\ date' \in [Dates -> Date \union {None}]
    /\ \A d, e \in Dates : There(d)' /\ There(e)' /\ date'[d].day = date'[e].day => d = e
    /\ \A d \in Dates : date[d] # None => date'[d] # None
    /\ \A d \in Dates : There(d) /\ d \notin S => date'[d] = date[d]
    /\ \A d \in Dates : There(d)' => series' # None

LEMMA RemovalIs ==
  ASSUME IInv, BoardWrites, board.act = "remove"
  PROVE  Rewritten(board.displaced)
<1>1. PICK b : b = board /\ b # None
  BY DEF BoardWrites
<1>2. date' = [d \in Dates |-> IF There(d) THEN Gone ELSE date[d]]
  BY <1>1 DEF BoardWrites
<1>3. Ready(b)
  BY <1>1, BoardIs
<1>4. ASSUME NEW d \in Dates
      PROVE  /\ date'[d] \in Date \union {None} /\ ~There(d)'
             /\ date[d] # None => date'[d] # None
  <2>1. CASE There(d)
    <3>1. date[d] \in Date
      BY <2>1, ThereIs
    <3>2. Gone \in Date /\ ~Gone.there /\ Gone # None
      BY <3>1, GoneIs
    <3> QED
      BY <1>2, <2>1, <3>2 DEF There
  <2>2. CASE ~There(d)
    BY <1>2, <2>2 DEF IInv, TypeOK, There
  <2> QED
    BY <2>1, <2>2
<1>5. date' \in [Dates -> Date \union {None}]
  BY <1>2, <1>4
<1>6. \A d \in Dates : There(d) => d \in b.displaced
  BY <1>1, <1>3 DEF Ready
<1> QED
  BY <1>1, <1>4, <1>5, <1>6 DEF Rewritten

LEMMA CallOffIs ==
  ASSUME IInv, BoardWrites, board.act = "calloff"
  PROVE  /\ Rewritten(board.displaced)
         /\ \A d \in Dates : There(d) => /\ date'[d].there
                                         /\ date'[d].day = date[d].day
                                         /\ date'[d].hour = date[d].hour
<1>1. PICK b : b = board /\ b # None
  BY DEF BoardWrites
<1>2. date' = [d \in Dates |-> IF d \in b.displaced
                               THEN [date[d] EXCEPT !.off = TRUE] ELSE date[d]]
  BY <1>1 DEF BoardWrites
<1>3. series' = series
  BY <1>1 DEF BoardWrites
<1>4. Ready(b)
  BY <1>1, BoardIs
<1>5. ASSUME NEW d \in Dates
      PROVE  /\ date'[d] \in Date \union {None}
             /\ There(d)' <=> There(d)
             /\ There(d) => /\ date'[d].there
                            /\ date'[d].day = date[d].day
                            /\ date'[d].hour = date[d].hour
             /\ date[d] # None => date'[d] # None
             /\ d \notin b.displaced => date'[d] = date[d]
  <2>1. CASE d \in b.displaced
    <3>1. PICK x \in Date : x = date[d] /\ x.there
      BY <1>4, <2>1, ThereIs DEF Ready
    <3>2. PICK y : y = [x EXCEPT !.off = TRUE]
      OBVIOUS
    <3>3. y \in Date /\ y.there /\ y.day = x.day /\ y.hour = x.hour
      BY <3>1, <3>2 DEF Date
    <3>4. x # None /\ y # None
      BY <3>1, <3>3, NoneAssumption
    <3>5. date'[d] = y
      BY <1>2, <2>1, <3>1, <3>2
    <3> QED
      BY <2>1, <3>1, <3>3, <3>4, <3>5 DEF There
  <2>2. CASE d \notin b.displaced
    BY <1>2, <2>2 DEF IInv, TypeOK, There
  <2> QED
    BY <2>1, <2>2
<1>6. date' \in [Dates -> Date \union {None}]
  BY <1>2, <1>5
<1>7. \A d, e \in Dates : There(d)' /\ There(e)' /\ date'[d].day = date'[e].day => d = e
  BY <1>5 DEF IInv, TypeOK
<1>8. \A d \in Dates : There(d)' => series' # None
  BY <1>3, <1>5 DEF IInv, StandingIsOnDates
<1> QED
  BY <1>1, <1>5, <1>6, <1>7, <1>8 DEF Rewritten

LEMMA EditIs ==
  ASSUME IInv, BoardWrites, board.act = "edit"
  PROVE  Rewritten(board.displaced)
<1>1. PICK b : b = board /\ b # None
  BY DEF BoardWrites
<1>2. PICK left : left = [d \in Dates |->
                   IF d \notin b.displaced THEN date[d]
                   ELSE IF date[d].day \notin DOMAIN b.planned THEN Gone
                   ELSE [date[d] EXCEPT !.hour = b.planned[date[d].day]]]
  OBVIOUS
<1>3. PICK unused \in SUBSET Dates : unused = Unused
  BY DEF Unused
<1>4. date' = WithDates(left, b.planned, b.added, unused)
  BY <1>1, <1>2, <1>3 DEF BoardWrites, Edited
<1>5. series' = [series EXCEPT !.capacity = b.capacity]
  BY <1>1 DEF BoardWrites
<1>6. Ready(b) /\ WellPlanned(b) /\ b.displaced \subseteq Dates
  BY <1>1, BoardIs DEF Ready
<1>7. PICK planned \in Schedules : planned = b.planned
  BY <1>6 DEF WellPlanned
<1>8. /\ IsFiniteSet(DOMAIN planned) /\ DOMAIN planned \subseteq Days
      /\ \A day \in DOMAIN planned : planned[day] \in Hours
  BY SchedulesAssumption DEF Hours, Days
<1>9. PICK days : days = b.added
  OBVIOUS
<1>10. /\ days \in SUBSET DOMAIN planned /\ Cardinality(days) <= Cardinality(unused)
       /\ \A d \in Dates : There(d) => date[d].day \notin days
  BY <1>3, <1>6, <1>7, <1>9 DEF WellPlanned
<1>11. IsFiniteSet(days)
  BY <1>8, <1>10, FS_Subset
<1>12. IsFiniteSet(unused)
  BY DatesAssumption, FS_Subset
<1>13. Entered(WithDates(left, planned, days, unused), left, planned, days, unused)
  BY <1>10, <1>11, <1>12, WithDatesIs
<1>14. Entered(date', left, planned, days, unused)
  BY <1>4, <1>7, <1>9, <1>13
(* The dates left. *)
<1>15. ASSUME NEW d \in Dates
       PROVE  /\ left[d] \in Date \union {None}
              /\ left[d] # None /\ left[d].there => There(d) /\ left[d].day = date[d].day
              /\ date[d] # None => left[d] # None
              /\ d \notin b.displaced => left[d] = date[d]
  <2>1. CASE d \notin b.displaced
    BY <1>2, <2>1 DEF IInv, TypeOK, There
  <2>2. CASE d \in b.displaced
    <3>1. PICK x \in Date : x = date[d] /\ x.there /\ There(d)
      BY <1>6, <2>2, ThereIs DEF Ready
    <3>2. CASE x.day \notin DOMAIN planned
      <4>1. left[d] = Gone
        BY <1>2, <1>7, <2>2, <3>1, <3>2
      <4>2. Gone \in Date /\ ~Gone.there /\ Gone # None
        BY GoneIs
      <4> QED
        BY <2>2, <4>1, <4>2
    <3>3. CASE x.day \in DOMAIN planned
      <4>1. PICK hour \in Hours : hour = planned[x.day]
        BY <1>8, <3>3
      <4>2. PICK y : y = [x EXCEPT !.hour = hour]
        OBVIOUS
      <4>3. left[d] = y
        BY <1>2, <1>7, <2>2, <3>1, <3>3, <4>1, <4>2
      <4>4. y \in Date /\ y.day = x.day
        BY <3>1, <4>1, <4>2 DEF Date
      <4>5. y # None
        BY <4>4, NoneAssumption
      <4> QED
        BY <2>2, <3>1, <4>3, <4>4, <4>5
    <3> QED
      BY <3>2, <3>3
  <2> QED
    BY <2>1, <2>2
(* The dates entered. *)
<1>16. ASSUME NEW d \in Dates, date'[d] # left[d]
       PROVE  /\ d \in unused /\ date'[d] \in Date /\ date'[d] # None
              /\ date'[d].day \in days
  <2>1. d \in unused
    BY <1>14, <1>16 DEF Entered
  <2>2. PICK day \in days : date'[d] = [day |-> day, hour |-> planned[day],
                                        off |-> FALSE, there |-> TRUE]
    BY <1>14, <1>16 DEF Entered
  <2>3. day \in Days /\ planned[day] \in Hours
    BY <1>8, <1>10
  <2>4. date'[d] \in Date /\ date'[d].day = day
    BY <2>2, <2>3 DEF Date
  <2> QED
    BY <2>1, <2>4, NoneAssumption
<1>17. date' \in [Dates -> Date \union {None}]
  <2>1. DOMAIN date' = Dates /\ date' = [d \in Dates |-> date'[d]]
    BY <1>4, <1>14 DEF Entered, WithDates
  <2>2. \A d \in Dates : date'[d] \in Date \union {None}
    BY <1>15, <1>16
  <2> QED
    BY <2>1, <2>2
<1>18. ASSUME NEW d \in Dates, NEW e \in Dates, There(d)', There(e)',
              date'[d].day = date'[e].day, d # e
       PROVE  FALSE
  <2>1. date'[d] # None /\ date'[d].there /\ date'[e] # None /\ date'[e].there
    BY <1>18 DEF There
  <2>2. CASE date'[d] # left[d] /\ date'[e] # left[e]
    BY <1>14, <1>18, <2>2 DEF Entered
  <2>3. CASE date'[d] # left[d] /\ date'[e] = left[e]
    BY <1>10, <1>15, <1>16, <1>18, <2>1, <2>3
  <2>4. CASE date'[d] = left[d] /\ date'[e] # left[e]
    BY <1>10, <1>15, <1>16, <1>18, <2>1, <2>4
  <2>5. CASE date'[d] = left[d] /\ date'[e] = left[e]
    <3>1. There(d) /\ There(e) /\ date[d].day = date[e].day
      BY <1>15, <1>18, <2>1, <2>5
    <3> QED
      BY <1>18, <3>1 DEF IInv, TypeOK
  <2> QED
    BY <2>2, <2>3, <2>4, <2>5
<1>19. \A d \in Dates : date[d] # None => date'[d] # None
  BY <1>15, <1>16
<1>20. \A d \in Dates : There(d) /\ d \notin b.displaced => date'[d] = date[d]
  BY <1>3, <1>15, <1>16 DEF Unused, There
<1>21. series' # None
  <2>1. series \in Series
    BY <1>6 DEF Ready, IInv, TypeOK
  <2>2. series' \in Series
    BY <1>5, <1>6, <2>1 DEF Series, WellPlanned
  <2> QED
    BY <2>2, NoneAssumption
<1> QED
  BY <1>1, <1>17, <1>18, <1>19, <1>20, <1>21 DEF Rewritten

(* What hangs from a date the board deletes goes with it; whoever stands   *)
(* elsewhere stands there still.                                           *)
LEMMA BoardWritesIs ==
  ASSUME IInv, BoardWrites
  PROVE  /\ board # None /\ board.at = "writing" /\ BoardEnds
         /\ claim' = claim /\ clock' = clock
         /\ Rewritten(board.displaced)
         /\ series' \in Series \union {None}
         /\ signup' \in [Dates -> [Persons -> {"none", "standing", "withdrawn"}]]
         /\ \A d \in Dates : There(d)' => signup'[d] = signup[d]
         /\ \A d \in Dates : Standing(d)' # {} => There(d)'
         /\ \A d \in Dates : Standing(d) # {} => /\ date'[d].there
                                                 /\ date'[d].day = date[d].day
                                                 /\ date'[d].hour = date[d].hour
<1>1. PICK b : b = board /\ b # None /\ b.at = "writing"
  BY DEF BoardWrites
<1>2. /\ BoardEnds /\ claim' = claim /\ clock' = clock
      /\ signup' = [d \in Dates |-> IF date'[d] # None /\ ~date'[d].there
                                    THEN Nobody ELSE signup[d]]
  BY DEF BoardWrites
<1>3. b \in Writer /\ Ready(b) /\ b.displaced \subseteq Dates
  BY <1>1, BoardIs
<1>4. Rewritten(b.displaced)
  BY <1>1, <1>3, EditIs, RemovalIs, CallOffIs DEF Writer
<1>5. series' \in Series \union {None}
  <2>1. CASE b.act = "edit"
    <3>1. series \in Series /\ b.capacity \in Capacities
      BY <1>3, <2>1 DEF Ready, WellPlanned, IInv, TypeOK
    <3>2. series' = [series EXCEPT !.capacity = b.capacity]
      BY <1>1, <2>1 DEF BoardWrites
    <3> QED
      BY <3>1, <3>2 DEF Series
  <2>2. CASE b.act = "remove"
    BY <1>1, <2>2 DEF BoardWrites
  <2>3. CASE b.act = "calloff"
    BY <1>1, <2>3 DEF BoardWrites, IInv, TypeOK
  <2> QED
    BY <1>3, <2>1, <2>2, <2>3 DEF Writer
<1>6. signup' \in [Dates -> [Persons -> {"none", "standing", "withdrawn"}]]
  BY <1>2 DEF Nobody, IInv, TypeOK
<1>7. \A d \in Dates : There(d)' => signup'[d] = signup[d]
  BY <1>2 DEF There
<1>8. ASSUME NEW d \in Dates, Standing(d)' # {}
      PROVE  There(d)'
  <2>1. PICK p \in Persons : signup'[d][p] = "standing"
    BY <1>8 DEF Standing
  <2>2. ~(date'[d] # None /\ ~date'[d].there) /\ signup'[d] = signup[d]
    BY <1>2, <2>1 DEF Nobody
  <2>3. Standing(d) # {}
    BY <2>1, <2>2 DEF Standing
  <2>4. date[d] # None
    BY <2>3 DEF IInv, StandingIsOnDates, There
  <2>5. date'[d] # None
    BY <1>4, <2>4 DEF Rewritten
  <2> QED
    BY <2>2, <2>5 DEF There
<1>9. ASSUME NEW d \in Dates, Standing(d) # {}
      PROVE  /\ date'[d].there /\ date'[d].day = date[d].day /\ date'[d].hour = date[d].hour
  <2>1. There(d)
    BY <1>9 DEF IInv, StandingIsOnDates
  <2>2. CASE d \notin b.displaced
    BY <1>4, <2>1, <2>2 DEF Rewritten, There
  <2>3. CASE d \in b.displaced
    <3>1. b.act = "calloff"
      BY <1>1, <1>3, <1>9, <2>3 DEF Ready
    <3> QED
      BY <1>1, <2>1, <3>1, CallOffIs
  <2> QED
    BY <2>2, <2>3
<1> QED
  BY <1>1, <1>2, <1>4, <1>5, <1>6, <1>7, <1>8, <1>9

LEMMA BoardWritesKeeps ==
  ASSUME IInv, BoardWrites
  PROVE  IInv'
<1>1. PICK b : b = board /\ b # None /\ b.at = "writing"
  BY BoardWritesIs
<1>2. /\ BoardEnds /\ claim' = claim /\ clock' = clock
      /\ series' \in Series \union {None}
      /\ signup' \in [Dates -> [Persons -> {"none", "standing", "withdrawn"}]]
      /\ \A d \in Dates : There(d)' => signup'[d] = signup[d]
      /\ \A d \in Dates : Standing(d)' # {} => There(d)'
  BY BoardWritesIs
<1>3. /\ date' \in [Dates -> Date \union {None}]
      /\ \A d, e \in Dates : There(d)' /\ There(e)' /\ date'[d].day = date'[e].day => d = e
      /\ \A d \in Dates : date[d] # None => date'[d] # None
      /\ \A d \in Dates : There(d) /\ d \notin b.displaced => date'[d] = date[d]
      /\ \A d \in Dates : There(d)' => series' # None
  BY <1>1, BoardWritesIs DEF Rewritten
<1>4. /\ board' = None /\ held' \in [Dates -> Persons \union {"board", None}]
      /\ LocksAreHeld'
  BY <1>2, BoardEndsIs
<1>5. TypeOK'
  BY <1>2, <1>3, <1>4 DEF IInv, TypeOK
<1>6. ClaimsAreSound'
  <2> SUFFICES ASSUME NEW p \in Persons, NEW o, o = claim[p], o # None
               PROVE  Sound(p, o)'
    BY <1>2 DEF ClaimsAreSound
  <2>1. PICK d \in Dates : d = o.date /\ Sound(p, o) /\ held[d] = p
    BY ClaimIs
  <2>2. d \notin b.displaced
    <3>1. ~BoardHas(d)
      BY <2>1, PersonsAssumption DEF IInv, LocksAreHeld
    <3>2. Ready(b)
      BY <1>1, BoardIs
    <3> QED
      BY <1>1, <3>1, <3>2 DEF BoardHas, Ready
  <2>3. date'[d] # None
    BY <1>3, <2>1 DEF Sound
  <2>4. CASE There(d)
    <3>1. date'[d] = date[d] /\ There(d)'
      BY <1>3, <2>2, <2>4 DEF There
    <3>2. signup'[d] = signup[d] /\ Standing(d)' = Standing(d)
      BY <1>2, <3>1 DEF Standing
    <3> QED
      BY <2>1, <2>3, <3>1, <3>2 DEF Sound
  <2>5. CASE ~There(d)
    BY <2>1, <2>3, <2>5 DEF Sound
  <2> QED
    BY <2>4, <2>5
<1>7. BoardIsReady' /\ StandingIsOnDates'
  BY <1>2, <1>3, <1>4 DEF BoardIsReady, StandingIsOnDates
<1> QED
  BY <1>4, <1>5, <1>6, <1>7 DEF IInv

-----------------------------------------------------------------------------
LEMMA InitHolds ==
  ASSUME Init
  PROVE  IInv
<1>1. PICK planned \in Schedules :
        date = WithDates([d \in Dates |-> None], planned, DOMAIN planned, Dates)
  BY DEF Init
<1>2. PICK none : none = [d \in Dates |-> None]
  OBVIOUS
<1>3. PICK days : days = DOMAIN planned
  OBVIOUS
<1>4. /\ IsFiniteSet(days) /\ days \subseteq Days
      /\ Cardinality(days) <= Cardinality(Dates)
      /\ \A day \in days : planned[day] \in Hours
  BY <1>3, SchedulesAssumption DEF Hours, Days
<1>5. Entered(WithDates(none, planned, days, Dates), none, planned, days, Dates)
  BY <1>4, DatesAssumption, WithDatesIs
<1>6. Entered(date, none, planned, days, Dates)
  BY <1>1, <1>2, <1>3, <1>5
<1>7. ASSUME NEW d \in Dates, date[d] # None
      PROVE  date[d] \in Date /\ date[d] # none[d]
  <2>1. date[d] # none[d]
    BY <1>2, <1>7
  <2>2. PICK day \in days : date[d] = [day |-> day, hour |-> planned[day],
                                       off |-> FALSE, there |-> TRUE]
    BY <1>6, <2>1 DEF Entered
  <2>3. day \in Days /\ planned[day] \in Hours
    BY <1>4
  <2> QED
    BY <2>1, <2>2, <2>3 DEF Date
<1>8. date \in [Dates -> Date \union {None}]
  <2>1. date = [d \in Dates |-> date[d]]
    BY <1>1 DEF WithDates
  <2> QED
    BY <1>7, <2>1
<1>9. \A d, e \in Dates : There(d) /\ There(e) /\ date[d].day = date[e].day => d = e
  BY <1>6, <1>7 DEF Entered, There
<1>10. series \in Series
  BY DEF Init, Series
<1>11. /\ signup = [d \in Dates |-> Nobody] /\ held = [d \in Dates |-> None]
       /\ claim = [p \in Persons |-> None] /\ board = None /\ clock = 1
  BY DEF Init
<1>12. TypeOK
  BY <1>8, <1>9, <1>10, <1>11, LastAssumption DEF TypeOK, Nobody
<1>13. LocksAreHeld /\ ClaimsAreSound /\ BoardIsReady
  BY <1>11, PersonsAssumption
     DEF LocksAreHeld, Claims, BoardHas, ClaimsAreSound, BoardIsReady
<1>14. StandingIsOnDates
  BY <1>10, <1>11, NoneAssumption DEF StandingIsOnDates, Standing, Nobody
<1> QED
  BY <1>12, <1>13, <1>14 DEF IInv

LEMMA StutterKeeps ==
  ASSUME IInv, UNCHANGED vars
  PROVE  IInv'
<1>1. /\ series' = series /\ date' = date /\ signup' = signup /\ held' = held
      /\ claim' = claim /\ board' = board /\ clock' = clock
  BY DEF vars
<1>2. TypeOK' /\ LocksAreHeld'
  BY <1>1 DEF IInv, TypeOK, There, LocksAreHeld, Claims, BoardHas
<1>3. ClaimsAreSound' /\ StandingIsOnDates' /\ BoardIsReady'
  BY <1>1 DEF IInv, ClaimsAreSound, Sound, StandingIsOnDates, There, Standing, BoardIsReady,
              Ready, WellPlanned, Unused
<1> QED
  BY <1>2, <1>3 DEF IInv

LEMMA NextKeeps ==
  ASSUME IInv, Next
  PROVE  IInv'
<1>1. ASSUME NEW p \in Persons, NEW d \in Dates, ClaimLocks(p, d) PROVE IInv'
  BY <1>1, ClaimLocksKeeps
<1>2. ASSUME NEW p \in Persons, NEW d \in Dates, Withdraws(p, d) PROVE IInv'
  BY <1>2, WithdrawsKeeps
<1>3. ASSUME NEW p \in Persons, NEW now \in Arrived, ClaimReads(p, now) PROVE IInv'
  BY <1>3, ClaimReadsKeeps
<1>4. ASSUME NEW p \in Persons, Takes(p) PROVE IInv'
  BY <1>4, TakesKeeps
<1>5. ASSUME NEW p \in Persons, Purges(p) PROVE IInv'
  BY <1>5, PurgesKeeps
<1>6. ASSUME NEW published \in BOOLEAN, Publishes(published) PROVE IInv'
  BY <1>6, PublishesKeeps
<1>7. ASSUME NEW d \in Dates, CallsOff(d) PROVE IInv'
  BY <1>7, CallsOffKeeps
<1>8. ASSUME NEW d \in Dates, NEW now \in Arrived, Reinstates(d, now) PROVE IInv'
  BY <1>8, ReinstatesKeeps
<1>9. ASSUME NEW capacity \in Capacities, NEW planned \in Schedules, NEW now \in Arrived,
             Edits(capacity, planned, now)
      PROVE  IInv'
  BY <1>9, EditsKeeps
<1>10. ASSUME NEW now \in Arrived, BoardCounts(now) PROVE IInv'
  BY <1>10, BoardCountsKeeps
<1>11. Removes => IInv'
  BY RemovesKeeps
<1>12. BoardLocks => IInv'
  BY BoardLocksKeeps
<1>13. BoardWrites => IInv'
  BY BoardWritesKeeps
<1>14. TimePasses => IInv'
  BY TimeKeeps
<1> QED
  BY <1>1, <1>2, <1>3, <1>4, <1>5, <1>6, <1>7, <1>8, <1>9, <1>10, <1>11, <1>12, <1>13,
     <1>14 DEF Next

-----------------------------------------------------------------------------
(* signUp under the date's lock against the board's writers: whatever they *)
(* interleave, claims and the writer each hold the locks they read under,  *)
(* and what they read is still so when they write.                         *)
THEOREM InvariantHolds == Spec => []IInv
<1>1. IInv /\ [Next]_vars => IInv'
  BY NextKeeps, StutterKeeps
<1> QED
  BY <1>1, InitHolds, PTL DEF Spec

(* planOccurrences: the rows have their types, and no day of the series    *)
(* ever has two dates, as an edit adds none on a day that has one, begun   *)
(* or still to come, and nobody else writes dates while it waits.          *)
THEOREM TypeCorrect == Spec => []TypeOK
<1>1. IInv => TypeOK
  BY DEF IInv
<1> QED
  BY <1>1, InvariantHolds, PTL

(* signUp counts the places and cancelOccurrence calls a date off under    *)
(* the date's lock: a claim commits on a date that is there and is held,   *)
(* and never above the places it read.                                     *)
THEOREM ClaimsTakeFreePlaces == Spec => AClaimTakesAFreePlace
<1>1. ASSUME IInv, [Next]_vars, NEW d \in Dates, NEW p \in Persons,
             signup[d][p] # "standing", signup'[d][p] = "standing"
      PROVE  /\ date'[d].there /\ ~date'[d].off
             /\ Cardinality(Standing(d)') <= claim[p].capacity
  <2>1. ASSUME NEW q \in Persons, Takes(q)
        PROVE  /\ date'[d].there /\ ~date'[d].off
               /\ Cardinality(Standing(d)') <= claim[p].capacity
    <3>1. claim[q] # None
      BY <2>1 DEF Takes
    <3>2. PICK e \in Dates : e = claim[q].date
      BY <1>1, <3>1, ClaimIs
    <3>3. /\ There(e) /\ ~date[e].off /\ date' = date
          /\ \A f \in Dates : f # e => signup'[f] = signup[f]
          /\ \A r \in Persons : r # q => signup'[e][r] = signup[e][r]
          /\ Cardinality(Standing(e)') <= claim[q].capacity
      BY <1>1, <2>1, <3>2, TakesIs
    <3>4. e = d /\ q = p
      BY <1>1, <3>3
    <3> QED
      BY <3>3, <3>4 DEF There
  <2>2. ASSUME NEW q \in Persons, NEW e \in Dates, Withdraws(q, e)
        PROVE  FALSE
    <3>1. PICK f : f = [signup[e] EXCEPT ![q] = "withdrawn"]
      OBVIOUS
    <3>2. signup' = [signup EXCEPT ![e] = f]
      BY <2>2, <3>1 DEF Withdraws
    <3>3. f[p] = "standing" => signup[e][p] = "standing"
      BY <1>1, <3>1 DEF IInv, TypeOK
    <3> QED
      BY <1>1, <3>2, <3>3 DEF IInv, TypeOK
  <2>3. ASSUME NEW q \in Persons, Purges(q)
        PROVE  FALSE
    <3>1. signup'[d] = [signup[d] EXCEPT ![q] = "none"]
      BY <2>3 DEF Purges
    <3> QED
      BY <1>1, <3>1 DEF IInv, TypeOK
  <2>4. BoardWrites => FALSE
    <3>1. ASSUME BoardWrites
          PROVE  signup'[d] \in {Nobody, signup[d]}
      BY <3>1 DEF BoardWrites
    <3> QED
      BY <1>1, <3>1 DEF Nobody
  <2>5. \/ signup' = signup
        \/ \E q \in Persons : Takes(q) \/ Purges(q) \/ \E e \in Dates : Withdraws(q, e)
        \/ BoardWrites
    BY <1>1 DEF Next, ClaimLocks, ClaimReads, Publishes, CallsOff, Reinstates, Edits, Removes,
       BoardBegins, BoardCounts, BoardLocks, TimePasses, vars
  <2> QED
    BY <1>1, <2>1, <2>2, <2>3, <2>4, <2>5
<1>2. IInv /\ [Next]_vars =>
        [\A d \in Dates, p \in Persons :
           signup[d][p] # "standing" /\ signup'[d][p] = "standing" =>
             /\ date'[d].there /\ ~date'[d].off
             /\ Cardinality(Standing(d)') <= claim[p].capacity]_vars
  BY <1>1
<1> QED
  BY <1>2, InvariantHolds, PTL DEF Spec, AClaimTakesAFreePlace

(* occurrencesWithSignups counts under the locks of the dates an edit or a *)
(* removal displaces: a date somebody stands on stays where it is.         *)
THEOREM NobodyStandingIsMoved == Spec => NobodyIsMoved
<1>1. ASSUME IInv, [Next]_vars, NEW d \in Dates, Standing(d) # {}
      PROVE  /\ date'[d].there
             /\ date'[d].day = date[d].day
             /\ date'[d].hour = date[d].hour
  <2>1. There(d)
    BY <1>1 DEF IInv, StandingIsOnDates
  <2>2. PICK x \in Date : x = date[d] /\ x.there
    BY <1>1, <2>1, ThereIs
  <2>3. CASE date' = date
    BY <2>2, <2>3
  <2>4. ASSUME NEW e \in Dates, NEW now \in Arrived, Reinstates(e, now)
        PROVE  /\ date'[d].there /\ date'[d].day = x.day /\ date'[d].hour = x.hour
    <3>1. date' = [date EXCEPT ![e].off = FALSE]
      BY <2>4 DEF Reinstates
    <3>2. date'[d] = x \/ date'[d] = [x EXCEPT !.off = FALSE]
      BY <1>1, <2>2, <3>1 DEF IInv, TypeOK
    <3> QED
      BY <2>2, <3>2 DEF Date
  <2>5. CASE BoardWrites
    BY <1>1, <2>5, BoardWritesIs
  <2>6. \/ date' = date
        \/ \E e \in Dates, now \in Arrived : Reinstates(e, now)
        \/ BoardWrites
    BY <1>1 DEF Next, ClaimLocks, ClaimReads, Takes, Withdraws, Purges, Publishes, CallsOff,
       Edits, Removes, BoardBegins, BoardCounts, BoardLocks, TimePasses, vars
  <2> QED
    BY <2>2, <2>3, <2>4, <2>5, <2>6
<1>2. IInv /\ [Next]_vars =>
        [\A d \in Dates : Standing(d) # {} =>
            /\ date'[d].there
            /\ date'[d].day = date[d].day
            /\ date'[d].hour = date[d].hour]_vars
  BY <1>1
<1> QED
  BY <1>2, InvariantHolds, PTL DEF Spec, NobodyIsMoved
=============================================================================
