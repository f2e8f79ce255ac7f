------------------------ MODULE RegisterTransmission ------------------------
(***************************************************************************)
(* Sending one report the association owes to the cooperative housing      *)
(* register (registers/register-transmission.service.ts, ADR 0029), beside *)
(* board members who state by hand that it was made                        *)
(* (registers/register-report.service.ts).                                 *)
(*                                                                         *)
(* One duty is followed: nothing a send does touches another.  Every step  *)
(* is a statement of its own, no step holds a lock across the next, and    *)
(* the process may stop between any two.                                   *)
(***************************************************************************)
EXTENDS Integers, FiniteSets

CONSTANTS
    Sends,          \* calls of transmit()
    Statements,     \* calls of recordReportMade()
    Days,           \* days a report may have come in on
    AnsweredDays,   \* days a receipt may carry, plausible or not
    Deadline,       \* SUBMIT_DEADLINE_MS
    Ttl,            \* CLAIM_TTL_MS
    TimerLag,       \* how late a timer, and the adapter it stops, may be
    MaxClock,       \* bound: the last instant
    None

(* The adapter is told to stop well before the claim expires. *)
ASSUME TimesAssumption ==
    /\ Deadline \in Nat \ {0} /\ Ttl \in Nat /\ TimerLag \in Nat /\ MaxClock \in Nat
    /\ Deadline + TimerLag < Ttl
ASSUME DaysAssumption == Days \subseteq AnsweredDays

VARIABLES
    clock,          \* the application's and the database's
    row,            \* the duty's register_transmission_claim
    log,            \* entries about the sends of the duty
    made,           \* REGISTER_REPORT_MADE entries of the duty
    send,           \* the sends
    statement,      \* the statements by hand
    handed          \* the sends whose report went to the port

vars == <<clock, row, log, made, send, statement, handed>>
evidence == <<log, made>>

Time == 0..MaxClock
Preparing == {"asked", "taking", "taken", "rendered", "noted", "prepared"}
Steps == Preparing \union {"sending", "received", "rejected", "ending", "ended"}

Claim == [token : Sends, expiresAt : Nat]
Send == [at : Steps, deadline : Nat, held : BOOLEAN, names : BOOLEAN,
         day : AnsweredDays \union {None}, stamp : Time]
Statement == [at : {"read", "done"}, day : Days, stamp : Time]
Made == [by : Sends \union Statements, day : Days, createdAt : Time,
         claimed : BOOLEAN]

ASSUME NoneAssumption == None \notin Claim \union Send \union Statement \union Days

TypeOK ==
    /\ clock \in Time
    /\ row \in Claim \union {None}
    /\ log \subseteq {"TRANSMITTED", "REVEALED", "REJECTED"} \X Sends
    /\ made \subseteq Made
    /\ send \in [Sends -> Send \union {None}]
    /\ statement \in [Statements -> Statement \union {None}]
    /\ handed \subseteq Sends

Init ==
    /\ clock = 0
    /\ row = None
    /\ log = {}
    /\ made = {}
    /\ send = [s \in Sends |-> None]
    /\ statement = [m \in Statements |-> None]
    /\ handed = {}

-----------------------------------------------------------------------------
At(s, step) == send[s] # None /\ send[s].at = step
Moves(s, step) == send' = [send EXCEPT ![s].at = step]

(* The signal of the steps before the hand-over: aborted at the deadline,  *)
(* by a timer that may come late.                                          *)
MayGoOn(s) == clock <= send[s].deadline + TimerLag
CutShort(s) == clock >= send[s].deadline

(* A board member presses send; the deadline starts running. *)
Transmit(s, names) ==
    /\ send[s] = None
    /\ send' = [send EXCEPT ![s] =
         [at |-> "asked", deadline |-> clock + Deadline, held |-> FALSE,
          names |-> names, day |-> None, stamp |-> clock]]
    /\ UNCHANGED <<clock, row, evidence, statement, handed>>

IssueTake(s) ==
    /\ At(s, "asked") /\ MayGoOn(s)
    /\ send' = [send EXCEPT ![s].at = "taking", ![s].stamp = clock]
    /\ UNCHANGED <<clock, row, evidence, statement, handed>>

(* The one statement that inserts the claim or takes over an expired one.  *)
(* It may wait, past the deadline too, and its now() is when it began.     *)
Claims(s) ==
    \E t \in send[s].stamp..clock :
        /\ row # None => row.expiresAt <= t
        /\ row' = [token |-> s, expiresAt |-> t + Ttl]

Take(s) ==
    /\ At(s, "taking") /\ Claims(s)
    /\ send' = [send EXCEPT ![s].at = "taken", ![s].held = TRUE]
    /\ UNCHANGED <<clock, evidence, statement, handed>>

TakeRefused(s) ==
    /\ At(s, "taking")
    /\ row # None /\ send[s].stamp < row.expiresAt
    /\ Moves(s, "ended")
    /\ UNCHANGED <<clock, row, evidence, statement, handed>>

(* Its answer is lost: the claim may be there, and this send does not know *)
(* that it holds it.                                                       *)
TakeFails(s) ==
    /\ At(s, "taking")
    /\ \/ UNCHANGED row
       \/ Claims(s)
    /\ Moves(s, "ended")
    /\ UNCHANGED <<clock, evidence, statement, handed>>

(* Variant: what stands on the log is not looked at. *)
RenderUnread(s) ==
    /\ At(s, "taken") /\ MayGoOn(s)
    /\ Moves(s, "rendered")
    /\ UNCHANGED <<clock, row, evidence, statement, handed>>

(* Under the claim: a duty already reported is refused, another is read    *)
(* and rendered.                                                           *)
Render(s) ==
    /\ At(s, "taken") /\ MayGoOn(s)
    /\ Moves(s, IF made = {} THEN "rendered" ELSE "ending")
    /\ UNCHANGED <<clock, row, evidence, statement, handed>>

(* Variant: the disclosure entry is best effort. *)
NoteIfPossible(s) ==
    /\ At(s, "rendered") /\ MayGoOn(s)
    /\ \/ log' = log \union {<<"TRANSMITTED", s>>}
       \/ UNCHANGED log
    /\ Moves(s, "noted")
    /\ UNCHANGED <<clock, row, made, statement, handed>>

(* REGISTER_REPORT_TRANSMITTED, committed on its own. *)
NoteTransmitted(s) ==
    /\ At(s, "rendered") /\ MayGoOn(s)
    /\ log' = log \union {<<"TRANSMITTED", s>>}
    /\ Moves(s, "noted")
    /\ UNCHANGED <<clock, row, made, statement, handed>>

(* PROTECTED_DATA_REVEALED, where the report carries a person's number. *)
NoteRevealed(s) ==
    /\ At(s, "noted")
    /\ IF send[s].names
       THEN MayGoOn(s) /\ log' = log \union {<<"REVEALED", s>>}
       ELSE UNCHANGED log
    /\ Moves(s, "prepared")
    /\ UNCHANGED <<clock, row, made, statement, handed>>

(* A read, the rendering or an entry fails, the entry having been written  *)
(* or not.                                                                 *)
PrepareFails(s) ==
    /\ send[s] # None /\ send[s].at \in Preparing \ {"taking"}
    /\ \/ UNCHANGED log
       \/ At(s, "rendered") /\ log' = log \union {<<"TRANSMITTED", s>>}
       \/ /\ At(s, "noted") /\ send[s].names
          /\ log' = log \union {<<"REVEALED", s>>}
    /\ Moves(s, "ending")
    /\ UNCHANGED <<clock, row, made, statement, handed>>

(* The deadline passed first: the step under way was the last. *)
Stop(s) ==
    /\ send[s] # None /\ send[s].at \in Preparing \ {"taking"}
    /\ CutShort(s)
    /\ Moves(s, "ending")
    /\ UNCHANGED <<clock, row, evidence, statement, handed>>

(* The report goes to the port, if there is time left for an answer. *)
HandOver(s) ==
    /\ At(s, "prepared") /\ clock < send[s].deadline
    /\ Moves(s, "sending")
    /\ handed' = handed \union {s}
    /\ UNCHANGED <<clock, row, evidence, statement>>

-----------------------------------------------------------------------------
Answer(s, step, day) ==
    /\ send' = [send EXCEPT ![s].at = step, ![s].day = day, ![s].stamp = clock]
    /\ UNCHANGED <<clock, row, evidence, statement, handed>>

(* A receipt on a day the report can have come in on. *)
Received(s, day) ==
    /\ At(s, "sending") /\ day \in Days
    /\ Answer(s, "received", day)

Rejected(s) ==
    /\ At(s, "sending")
    /\ Answer(s, "rejected", None)

(* A throw, an unreadable answer, an implausible day, or the deadline. *)
OutcomeUnknown(s) ==
    /\ At(s, "sending")
    /\ Moves(s, "ending")
    /\ UNCHANGED <<clock, row, evidence, statement, handed>>

HoldsRow(s) == row # None /\ row.token = s

(* An entry is stamped when its statement runs and seen when it commits. *)
Adds(by, day, since, claimed) ==
    \E t \in since..clock :
        made' = made \union {[by |-> by, day |-> day, createdAt |-> t,
                             claimed |-> claimed]}

RecordMade(s) ==
    /\ At(s, "received")
    /\ Adds(s, send[s].day, send[s].stamp, HoldsRow(s))
    /\ Moves(s, "ending")
    /\ UNCHANGED <<clock, row, log, statement, handed>>

RecordRejected(s) ==
    /\ At(s, "rejected")
    /\ log' = log \union {<<"REJECTED", s>>}
    /\ Moves(s, "ending")
    /\ UNCHANGED <<clock, row, made, statement, handed>>

RecordFails(s) ==
    /\ At(s, "received") \/ At(s, "rejected")
    /\ Moves(s, "ending")
    /\ UNCHANGED <<clock, row, evidence, statement, handed>>

(* Variant: whatever claim the duty has is deleted. *)
ReleaseAny(s) ==
    /\ At(s, "ending")
    /\ row' = IF send[s].held THEN None ELSE row
    /\ Moves(s, "ended")
    /\ UNCHANGED <<clock, evidence, statement, handed>>

(* Letting the claim go, by its token; the delete may come at any time     *)
(* after the answer, or never.                                             *)
Release(s) ==
    /\ At(s, "ending")
    /\ row' = IF send[s].held /\ HoldsRow(s) THEN None ELSE row
    /\ Moves(s, "ended")
    /\ UNCHANGED <<clock, evidence, statement, handed>>

ReleaseFails(s) ==
    /\ At(s, "ending")
    /\ Moves(s, "ended")
    /\ UNCHANGED <<clock, row, evidence, statement, handed>>

(* The process stops.  Nothing lets its claims go. *)
Crash ==
    /\ \E s \in Sends : send[s] # None /\ send[s].at # "ended"
    /\ send' = [s \in Sends |->
         IF send[s] = None THEN None ELSE [send[s] EXCEPT !.at = "ended"]]
    /\ UNCHANGED <<clock, row, evidence, statement, handed>>

-----------------------------------------------------------------------------
(* Stating by hand: the log is read, without a lock ... *)
StateReads(m, day) ==
    /\ statement[m] = None
    /\ made = {}
    /\ statement' = [statement EXCEPT ![m] =
         [at |-> "read", day |-> day, stamp |-> clock]]
    /\ UNCHANGED <<clock, row, evidence, send, handed>>

(* ... and the entry written. *)
StateMade(m) ==
    /\ statement[m] # None /\ statement[m].at = "read"
    /\ Adds(m, statement[m].day, statement[m].stamp, FALSE)
    /\ statement' = [statement EXCEPT ![m].at = "done"]
    /\ UNCHANGED <<clock, row, log, send, handed>>

(* At the deadline the adapter is told to stop, and it does. *)
Tick ==
    /\ clock < MaxClock
    /\ \A s \in Sends : At(s, "sending") => clock < send[s].deadline + TimerLag
    /\ clock' = clock + 1
    /\ UNCHANGED <<row, evidence, send, statement, handed>>

SendStep(s) ==
    \/ IssueTake(s) \/ Take(s) \/ TakeRefused(s) \/ TakeFails(s)
    \/ Render(s) \/ NoteTransmitted(s) \/ NoteRevealed(s)
    \/ PrepareFails(s) \/ Stop(s) \/ HandOver(s)
    \/ Rejected(s) \/ OutcomeUnknown(s)
    \/ RecordMade(s) \/ RecordRejected(s) \/ RecordFails(s)
    \/ Release(s) \/ ReleaseFails(s)

Next ==
    \/ \E s \in Sends, names \in BOOLEAN : Transmit(s, names)
    \/ \E s \in Sends : SendStep(s)
    \/ \E s \in Sends, day \in AnsweredDays : Received(s, day)
    \/ \E m \in Statements, day \in Days : StateReads(m, day)
    \/ \E m \in Statements : StateMade(m)
    \/ Crash
    \/ Tick

Spec == Init /\ [][Next]_vars

-----------------------------------------------------------------------------
(* CLAIM_TTL_MS, "a claim never expires under a send whose adapter might   *)
(* still be putting a report on the wire": it also is never taken over or  *)
(* let go by another, so at most one report of the duty is under way.      *)
ClaimCoversTheWire ==
    \A s \in Sends : At(s, "sending") => HoldsRow(s) /\ clock < row.expiresAt

(* transmit(), step 4: whatever came of a send since, a crash included, a  *)
(* report that went to the port has its disclosure on the log, and that of *)
(* the number it carried.                                                  *)
DisclosedBeforehand ==
    \A s \in handed :
        /\ <<"TRANSMITTED", s>> \in log
        /\ send[s].names => <<"REVEALED", s>> \in log

(* transmit(), steps 2 and 3: no report goes out after a receipt that an   *)
(* earlier send recorded under its claim.                                  *)
NotSentAgain ==
    [][\A s \in handed' \ handed : ~\E e \in made : e.claimed]_vars
=============================================================================
