----------------------------- MODULE MCBooking -----------------------------
(* A day of two hours, weeks of two days; the residents ask for hours,     *)
(* whole days and stays of the second and third day.                       *)
EXTENDS Booking, TLC

CONSTANTS c1, c2, c3, r1, p1, p2, p3, a1, a2

MCZone == [at |-> 0, before |-> 0, after |-> 0]
MCSymmetry == Permutations(Claims) \union Permutations(Cancels)

Hours(n) == [mode |-> "TIME_SLOTS", slotMinutes |-> n, opensAt |-> 0, closesAt |-> 2]
Days == [mode |-> "WHOLE_DAY", slotMinutes |-> None, opensAt |-> None, closesAt |-> None]
Nights == [Days EXCEPT !.mode = "DATE_RANGE"]
Config(schedule, concurrent, weekly) ==
    [schedule |-> schedule, maxConcurrent |-> concurrent, maxPerWeek |-> weekly]

Wish(p, a, from, to) == [resource |-> r1, person |-> p, apartment |-> a,
                         startsAt |-> from, endsAt |-> to]
Home(p, a, from, to) == [person |-> p, apartment |-> a,
                         movedIn |-> from, movedOut |-> to]

(* Two of one household, and one of another who moves out on day 3. *)
MCHomes == {Home(p1, a1, 0, None), Home(p2, a1, 0, None), Home(p3, a2, 0, 3)}

(* The claims meet each other and those who cancel and erase bookings:     *)
(* quotas, overlapping stays, one slot.                                    *)
ClaimConfigs == {Config(Hours(1), 1, None), Config(Hours(1), None, 1),
                 Config(Nights, None, None)}
ClaimRequests == {Wish(p1, a1, 2, None), Wish(p1, a1, 2, 6), Wish(p2, a1, 3, None),
                  Wish(p2, a1, 4, None), Wish(p3, a2, 4, None), Wish(p3, a2, 4, 8)}

(* The claims meet the board, which may cut the day again. *)
BoardConfigs == {Config(Hours(1), None, None), Config(Hours(2), 0, None),
                 Config(Hours(2), 1, None), Config([Days EXCEPT !.opensAt = 0], None, None)}
BoardRequests == {Wish(p1, a1, 2, None), Wish(p2, a1, 3, None), Wish(p3, a2, 2, None)}
=============================================================================
