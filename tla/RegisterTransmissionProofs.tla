--------------------- MODULE RegisterTransmissionProofs ---------------------
(***************************************************************************)
(* That a report is on the wire under a live claim only, that what was     *)
(* handed over was disclosed first, and that nothing is handed over after  *)
(* a claimed receipt: for every number of sends and statements, every      *)
(* deadline and expiry the assumptions allow, and every interleaving.      *)
(***************************************************************************)
EXTENDS RegisterTransmission, TLAPS

(* Until when the claim of a send that took it cannot have expired. *)
Covered(s) == send[s].deadline - Deadline + Ttl

Within(s, steps) == send[s] # None /\ send[s].at \in steps

Unsent == {"rendered", "noted", "prepared"}
Underway == Unsent \union {"taken", "sending"}

(* What is kept of each send.  The deadline runs before the claim is asked *)
(* for, ...                                                                *)
DeadlineRuns(s) ==
    /\ At(s, "asked") => send[s].deadline - Deadline <= clock
    /\ At(s, "taking") => send[s].deadline - Deadline <= send[s].stamp

(* ... so a send that took the claim has it until then.                    *)
HeldUntilCovered(s) ==
    Within(s, Underway) /\ clock < Covered(s) =>
        HoldsRow(s) /\ Covered(s) <= row.expiresAt

(* Past the deadline an adapter is given no more than the timer's lag. *)
StoppedInTime(s) ==
    At(s, "sending") => clock <= send[s].deadline + TimerLag

(* The disclosure entries precede the steps that rely on them. *)
DisclosedSoFar(s) ==
    /\ Within(s, {"noted", "prepared"}) \/ s \in handed =>
          send[s] # None /\ <<"TRANSMITTED", s>> \in log
    /\ (At(s, "prepared") \/ s \in handed) /\ send[s].names =>
          <<"REVEALED", s>> \in log

(* While its claim covers it, a send that read no receipt has none to miss. *)
NoReceiptMissed(s) ==
    Within(s, Unsent) /\ clock < Covered(s) => \A e \in made : ~e.claimed

ReceiptHasItsDay(s) == At(s, "received") => send[s].day \in Days

Safe(s) ==
    /\ DeadlineRuns(s) /\ HeldUntilCovered(s) /\ StoppedInTime(s)
    /\ DisclosedSoFar(s) /\ NoReceiptMissed(s) /\ ReceiptHasItsDay(s)

IInv == TypeOK /\ \A s \in Sends : Safe(s)

-----------------------------------------------------------------------------
LEMMA InitHolds == Init => IInv
<1> SUFFICES ASSUME Init PROVE IInv
  OBVIOUS
<1>1. TypeOK
  BY TimesAssumption DEF Init, TypeOK, Time
<1>2. handed = {} /\ \A s \in Sends : send[s] = None
  BY DEF Init
<1> QED
  BY <1>1, <1>2
  DEF IInv, Safe, DeadlineRuns, HeldUntilCovered, StoppedInTime,
      DisclosedSoFar, NoReceiptMissed, ReceiptHasItsDay, Within, At

(* What every step makes of the sends.  One is given a new record ... *)
LEMMA SendBecomes ==
  ASSUME TypeOK, NEW s \in Sends, NEW x \in Send, send' = [send EXCEPT ![s] = x]
  PROVE  /\ send' \in [Sends -> Send \union {None}]
         /\ send'[s] = x /\ x # None
         /\ \A r \in Sends \ {s} : send'[r] = send[r]
BY NoneAssumption DEF TypeOK

(* ... in which mostly only the step is another.                          *)
LEMMA SendMoves ==
  ASSUME TypeOK, NEW s \in Sends, send[s] # None, NEW step \in Steps, Moves(s, step)
  PROVE  /\ send' \in [Sends -> Send \union {None}]
         /\ send'[s] # None
         /\ send'[s].at = step
         /\ send'[s].deadline = send[s].deadline
         /\ send'[s].names = send[s].names
         /\ send'[s].day = send[s].day
         /\ send'[s].stamp = send[s].stamp
         /\ \A r \in Sends \ {s} : send'[r] = send[r]
<1> DEFINE x == [send[s] EXCEPT !.at = step]
<1>1. send[s] \in Send
  BY DEF TypeOK
<1>2. /\ x \in Send /\ x.at = step
      /\ x.deadline = send[s].deadline /\ x.names = send[s].names
      /\ x.day = send[s].day /\ x.stamp = send[s].stamp
  BY <1>1 DEF Send
<1>3. send' = [send EXCEPT ![s] = x]
  BY DEF Moves
<1> HIDE DEF x
<1> QED
  BY <1>2, <1>3, SendBecomes

LEMMA SendAsked ==
  ASSUME TypeOK, NEW s \in Sends, NEW names \in BOOLEAN, Transmit(s, names)
  PROVE  /\ send' \in [Sends -> Send \union {None}]
         /\ send'[s] # None
         /\ send'[s].at = "asked" /\ send'[s].deadline = clock + Deadline
         /\ \A r \in Sends \ {s} : send'[r] = send[r]
<1> DEFINE x == [at |-> "asked", deadline |-> clock + Deadline, held |-> FALSE,
                 names |-> names, day |-> None, stamp |-> clock]
<1>1. x \in Send /\ x.at = "asked" /\ x.deadline = clock + Deadline
  BY TimesAssumption DEF TypeOK, Send, Steps, Preparing, Time
<1>2. send' = [send EXCEPT ![s] = x]
  BY DEF Transmit
<1> HIDE DEF x
<1> QED
  BY <1>1, <1>2, SendBecomes

LEMMA TakeIssued ==
  ASSUME TypeOK, NEW s \in Sends, IssueTake(s)
  PROVE  /\ send' \in [Sends -> Send \union {None}]
         /\ send'[s] # None
         /\ send'[s].at = "taking" /\ send'[s].stamp = clock
         /\ send'[s].deadline = send[s].deadline
         /\ send'[s].names = send[s].names
         /\ \A r \in Sends \ {s} : send'[r] = send[r]
<1> DEFINE x == [[send[s] EXCEPT !.at = "taking"] EXCEPT !.stamp = clock]
<1>1. send[s] \in Send /\ clock \in Time
  BY DEF TypeOK, IssueTake, At
<1>2. /\ x \in Send /\ x.at = "taking" /\ x.stamp = clock
      /\ x.deadline = send[s].deadline /\ x.names = send[s].names
  BY <1>1 DEF Send, Steps, Preparing
<1>3. send' = [send EXCEPT ![s] = x]
  BY DEF IssueTake
<1> HIDE DEF x
<1> QED
  BY <1>2, <1>3, SendBecomes

LEMMA SendTaken ==
  ASSUME TypeOK, NEW s \in Sends, Take(s)
  PROVE  /\ send' \in [Sends -> Send \union {None}]
         /\ send'[s] # None /\ send'[s].at = "taken"
         /\ send'[s].deadline = send[s].deadline
         /\ send'[s].names = send[s].names
         /\ \A r \in Sends \ {s} : send'[r] = send[r]
<1> DEFINE x == [[send[s] EXCEPT !.at = "taken"] EXCEPT !.held = TRUE]
<1>1. send[s] \in Send
  BY DEF TypeOK, Take, At
<1>2. /\ x \in Send /\ x.at = "taken"
      /\ x.deadline = send[s].deadline /\ x.names = send[s].names
  BY <1>1 DEF Send, Steps, Preparing
<1>3. send' = [send EXCEPT ![s] = x]
  BY DEF Take
<1> HIDE DEF x
<1> QED
  BY <1>2, <1>3, SendBecomes

LEMMA SendAnswered ==
  ASSUME TypeOK, NEW s \in Sends, NEW step \in {"received", "rejected"},
         NEW day \in Days \union {None}, At(s, "sending"), Answer(s, step, day)
  PROVE  /\ send' \in [Sends -> Send \union {None}]
         /\ send'[s] # None /\ send'[s].at = step /\ send'[s].day = day
         /\ send'[s].names = send[s].names
         /\ \A r \in Sends \ {s} : send'[r] = send[r]
<1> DEFINE x == [[[send[s] EXCEPT !.at = step] EXCEPT !.day = day]
                   EXCEPT !.stamp = clock]
<1>1. send[s] \in Send /\ clock \in Time
  BY DEF TypeOK, At
<1>2. x \in Send /\ x.at = step /\ x.day = day /\ x.names = send[s].names
  BY <1>1, DaysAssumption DEF Send, Steps, Preparing
<1>3. send' = [send EXCEPT ![s] = x]
  BY DEF Answer
<1> HIDE DEF x
<1> QED
  BY <1>2, <1>3, SendBecomes

LEMMA SendsCrash ==
  ASSUME TypeOK, Crash
  PROVE  /\ send' \in [Sends -> Send \union {None}]
         /\ \A s \in Sends :
              /\ send'[s] = None <=> send[s] = None
              /\ send[s] # None => /\ send'[s].at = "ended"
                                   /\ send'[s].names = send[s].names
<1>1. ASSUME NEW s \in Sends, send[s] # None
      PROVE  /\ [send[s] EXCEPT !.at = "ended"] \in Send
             /\ [send[s] EXCEPT !.at = "ended"].at = "ended"
             /\ [send[s] EXCEPT !.at = "ended"].names = send[s].names
  BY <1>1 DEF TypeOK, Send, Steps
<1>2. \A s \in Sends : send'[s] = IF send[s] = None THEN None
                                  ELSE [send[s] EXCEPT !.at = "ended"]
  BY DEF Crash
<1>3. \A s \in Sends : send'[s] \in Send \union {None}
  BY <1>1, <1>2
<1>4. send' \in [Sends -> Send \union {None}]
  BY <1>3 DEF Crash
<1>5. ASSUME NEW s \in Sends, send[s] # None PROVE send'[s] \in Send /\ send'[s] # None
  BY <1>1, <1>2, <1>5, NoneAssumption
<1> QED
  BY <1>1, <1>2, <1>4, <1>5

(* The claim a statement writes outlasts its send's deadline, and no other *)
(* send can rely on one by then.                                           *)
LEMMA ClaimTaken ==
  ASSUME IInv, NEW s \in Sends, At(s, "taking"), Claims(s)
  PROVE  /\ row' \in Claim /\ row' # None
         /\ row'.token = s /\ Covered(s) <= row'.expiresAt
         /\ \A r \in Sends : Within(r, Underway) => ~(clock < Covered(r))
<1>1. PICK t \in send[s].stamp..clock :
        /\ row # None => row.expiresAt <= t
        /\ row' = [token |-> s, expiresAt |-> t + Ttl]
  BY DEF Claims
<1>2. clock \in Nat /\ \A r \in Sends : send[r] # None =>
        send[r].stamp \in Nat /\ send[r].deadline \in Nat
  BY DEF IInv, TypeOK, Time, Send
<1>3. t \in Nat /\ send[s].stamp <= t /\ t <= clock
  BY <1>1, <1>2 DEF At
<1>4. row' \in Claim /\ row'.token = s /\ row'.expiresAt = t + Ttl
  BY <1>1, <1>3, TimesAssumption DEF Claim
<1>5. row' # None
  BY <1>4, NoneAssumption
<1>6. send[s].deadline - Deadline <= send[s].stamp
  BY DEF IInv, Safe, DeadlineRuns
<1>7. Covered(s) <= t + Ttl
  BY <1>2, <1>3, <1>6, TimesAssumption DEF Covered, At
<1>8. ASSUME NEW r \in Sends, Within(r, Underway), clock < Covered(r)
      PROVE  FALSE
  <2>1. row # None /\ Covered(r) <= row.expiresAt
    BY <1>8 DEF IInv, Safe, HeldUntilCovered, HoldsRow
  <2>2. row.expiresAt <= t /\ row.expiresAt \in Nat
    BY <1>1, <2>1 DEF IInv, TypeOK, Claim
  <2>3. Covered(r) \in Int
    BY <1>2, <1>8, TimesAssumption DEF Covered, Within
  <2> QED
    BY <1>2, <1>3, <1>8, <2>1, <2>2, <2>3
<1> QED
  BY <1>4, <1>5, <1>7, <1>8

-----------------------------------------------------------------------------
(* Types, one step per action. *)
LEMMA TypeStep == IInv /\ [Next]_vars => TypeOK'
<1> SUFFICES ASSUME IInv, TypeOK, [Next]_vars PROVE TypeOK'
  BY DEF IInv
<1>1. ASSUME NEW s \in Sends, NEW names \in BOOLEAN, Transmit(s, names)
      PROVE  TypeOK'
  BY <1>1, SendAsked DEF Transmit, TypeOK, evidence
<1>2. ASSUME NEW s \in Sends, IssueTake(s) PROVE TypeOK'
  BY <1>2, TakeIssued DEF IssueTake, TypeOK, evidence
<1>3. ASSUME NEW s \in Sends, Take(s) PROVE TypeOK'
  BY <1>3, ClaimTaken, SendTaken DEF Take, TypeOK, evidence
<1>4. ASSUME NEW s \in Sends, NEW step \in {"received", "rejected"},
             NEW day \in Days \union {None},
             At(s, "sending"), Answer(s, step, day)
      PROVE  TypeOK'
  BY <1>4, SendAnswered DEF Answer, TypeOK, evidence
<1>5. ASSUME NEW s \in Sends, send[s] # None, NEW step \in Steps, Moves(s, step)
      PROVE  send' \in [Sends -> Send \union {None}]
  BY <1>5, SendMoves
<1>6. ASSUME NEW s \in Sends,
             \/ TakeRefused(s) \/ Render(s) \/ Stop(s) \/ OutcomeUnknown(s)
             \/ RecordFails(s) \/ ReleaseFails(s)
      PROVE  TypeOK'
  BY <1>5, <1>6 DEF TypeOK, TakeRefused, Render, Stop, OutcomeUnknown,
     RecordFails, ReleaseFails, At, Steps, Preparing, evidence
<1>7. ASSUME NEW s \in Sends,
             \/ NoteTransmitted(s) \/ NoteRevealed(s) \/ PrepareFails(s)
             \/ RecordRejected(s)
      PROVE  TypeOK'
  <2>1. CASE NoteTransmitted(s) \/ NoteRevealed(s) \/ RecordRejected(s)
    BY <1>5, <2>1 DEF TypeOK, NoteTransmitted, NoteRevealed, RecordRejected, At,
                      Steps, Preparing
  <2>2. CASE PrepareFails(s)
    BY <1>5, <2>2 DEF TypeOK, PrepareFails, At, Steps, Preparing
  <2> QED
    BY <1>7, <2>1, <2>2
<1>8. ASSUME NEW s \in Sends, HandOver(s) PROVE TypeOK'
  BY <1>5, <1>8 DEF TypeOK, HandOver, At, Steps, evidence
<1>9. ASSUME NEW s \in Sends, TakeFails(s) \/ Release(s) PROVE TypeOK'
  <2>1. send[s] # None /\ row' \in Claim \union {None}
    BY <1>9, ClaimTaken DEF TypeOK, TakeFails, Release, At
  <2> QED
    BY <1>5, <1>9, <2>1 DEF TypeOK, TakeFails, Release, Steps, evidence
<1>10. ASSUME NEW by \in Sends \union Statements, NEW day \in Days,
              NEW since \in Time, NEW claimed \in BOOLEAN,
              Adds(by, day, since, claimed)
       PROVE  made' \subseteq Made
  BY <1>10, TimesAssumption DEF Adds, TypeOK, Made, Time
<1>11. ASSUME NEW s \in Sends, RecordMade(s) PROVE TypeOK'
  <2>1. send[s] # None /\ send[s].day \in Days /\ send[s].stamp \in Time
    BY <1>11 DEF RecordMade, At, TypeOK, IInv, Safe, ReceiptHasItsDay, Send
  <2>2. HoldsRow(s) \in BOOLEAN
    BY DEF HoldsRow
  <2>3. made' \subseteq Made
    BY <1>10, <1>11, <2>1, <2>2 DEF RecordMade
  <2> QED
    BY <1>5, <1>11, <2>1, <2>3 DEF RecordMade, TypeOK, Steps
<1>12. ASSUME Crash PROVE TypeOK'
  BY <1>12, SendsCrash DEF Crash, TypeOK, evidence
<1>13. ASSUME NEW m \in Statements, NEW day \in Days, StateReads(m, day)
       PROVE  TypeOK'
  BY <1>13 DEF StateReads, TypeOK, Statement, evidence
<1>14. ASSUME NEW m \in Statements, StateMade(m) PROVE TypeOK'
  <2>1. statement[m] \in Statement
    BY <1>14 DEF StateMade, TypeOK
  <2>2. [statement[m] EXCEPT !.at = "done"] \in Statement
    BY <2>1 DEF Statement
  <2>3. made' \subseteq Made
    BY <1>10, <1>14, <2>1 DEF StateMade, Statement
  <2> QED
    BY <1>14, <2>1, <2>2, <2>3 DEF StateMade, TypeOK
<1>15. ASSUME Tick PROVE TypeOK'
  BY <1>15, TimesAssumption DEF Tick, TypeOK, Time, evidence
<1>16. CASE UNCHANGED vars
  BY <1>16 DEF vars, evidence, TypeOK
<1> QED
  BY <1>1, <1>2, <1>3, <1>4, <1>6, <1>7, <1>8, <1>9, <1>11, <1>12, <1>13, <1>14,
     <1>15, <1>16
  DEF Next, SendStep, Received, Rejected

-----------------------------------------------------------------------------
(* A send is safe still when a step of another changed neither the claim   *)
(* nor, but for entries made without one, what was reported.               *)
LEMMA StandsBy ==
  ASSUME NEW r \in Sends, Safe(r), send'[r] = send[r],
         UNCHANGED <<clock, row>>, log \subseteq log',
         \A e \in made' \ made : ~e.claimed,
         r \in handed' => r \in handed
  PROVE  Safe(r)'
BY DEF Safe, DeadlineRuns, HeldUntilCovered, StoppedInTime, DisclosedSoFar,
       NoReceiptMissed, ReceiptHasItsDay, Covered, Within, At, HoldsRow

(* A send that ends needs its disclosure only. *)
LEMMA Ends ==
  ASSUME NEW r \in Sends, Safe(r), send[r] # None, send'[r] # None,
         send'[r].at \in {"rejected", "ending", "ended"},
         send'[r].names = send[r].names,
         log \subseteq log', r \in handed' => r \in handed
  PROVE  Safe(r)'
BY DEF Safe, DeadlineRuns, HeldUntilCovered, StoppedInTime, DisclosedSoFar,
       NoReceiptMissed, ReceiptHasItsDay, Within, At, Unsent, Underway

(* The rest of the invariant, one step per action. *)
LEMMA SafeStep ==
  ASSUME IInv, [Next]_vars, NEW r \in Sends
  PROVE  Safe(r)'
<1> USE DEF At
<1>1. TypeOK /\ Safe(r)
  BY DEF IInv
<1>2. /\ clock \in Nat
      /\ row # None => row.expiresAt \in Nat
      /\ send[r] # None => send[r].deadline \in Nat /\ send[r].stamp \in Nat
  BY <1>1 DEF TypeOK, Time, Claim, Send
<1>3. ASSUME NEW s \in Sends, NEW names \in BOOLEAN, Transmit(s, names)
      PROVE  Safe(r)'
  <2>1. send[s] = None /\ UNCHANGED <<clock, row, log, made, handed>>
    BY <1>3 DEF Transmit, evidence
  <2>2. CASE r # s
    BY <1>1, <1>3, <2>1, <2>2, SendAsked, StandsBy
  <2>3. CASE r = s
    <3>1. /\ send'[r] # None /\ send'[r].at = "asked"
          /\ send'[r].deadline = clock + Deadline
      BY <1>1, <1>3, <2>3, SendAsked
    <3>2. r \notin handed
      BY <1>1, <2>1, <2>3 DEF Safe, DisclosedSoFar
    <3> QED
      BY <1>2, <2>1, <3>1, <3>2, TimesAssumption
      DEF Safe, DeadlineRuns, HeldUntilCovered, StoppedInTime, DisclosedSoFar,
          NoReceiptMissed, ReceiptHasItsDay, Within, Unsent, Underway
  <2> QED
    BY <2>2, <2>3
<1>4. ASSUME NEW s \in Sends, IssueTake(s) PROVE Safe(r)'
  <2>1. UNCHANGED <<clock, row, log, made, handed>>
    BY <1>4 DEF IssueTake, evidence
  <2>2. CASE r # s
    BY <1>1, <1>4, <2>1, <2>2, TakeIssued, StandsBy
  <2>3. CASE r = s
    <3>1. /\ send'[r] # None /\ send'[r].at = "taking" /\ send'[r].stamp = clock
          /\ send'[r].deadline = send[r].deadline
          /\ send'[r].names = send[r].names
      BY <1>1, <1>4, <2>3, TakeIssued
    <3>2. send[r].deadline - Deadline <= clock
      BY <1>1, <1>4, <2>3 DEF IssueTake, Safe, DeadlineRuns
    <3> QED
      BY <1>1, <2>1, <3>1, <3>2
      DEF Safe, DeadlineRuns, HeldUntilCovered, StoppedInTime, DisclosedSoFar,
          NoReceiptMissed, ReceiptHasItsDay, Within, Unsent, Underway
  <2> QED
    BY <2>2, <2>3
<1>5. ASSUME NEW s \in Sends, At(s, "taking"), Claims(s), r # s,
             send'[r] = send[r], UNCHANGED <<clock, log, made, handed>>
      PROVE  Safe(r)'
  <2>1. Within(r, Underway) => ~(clock < Covered(r))
    BY <1>5, ClaimTaken
  <2> QED
    BY <1>1, <1>5, <2>1
    DEF Safe, DeadlineRuns, HeldUntilCovered, StoppedInTime, DisclosedSoFar,
        NoReceiptMissed, ReceiptHasItsDay, Within, Covered
<1>6. ASSUME NEW s \in Sends, Take(s) PROVE Safe(r)'
  <2>1. At(s, "taking") /\ Claims(s) /\ UNCHANGED <<clock, log, made, handed>>
    BY <1>6 DEF Take, evidence
  <2>2. CASE r # s
    BY <1>1, <1>5, <1>6, <2>1, <2>2, SendTaken
  <2>3. CASE r = s
    <3>1. /\ send'[r] # None /\ send'[r].at = "taken"
          /\ send'[r].deadline = send[r].deadline
          /\ send'[r].names = send[r].names
      BY <1>1, <1>6, <2>3, SendTaken
    <3>2. row' # None /\ row'.token = r /\ Covered(r) <= row'.expiresAt
      BY <2>1, <2>3, ClaimTaken
    <3> QED
      BY <1>1, <2>1, <3>1, <3>2
      DEF Safe, DeadlineRuns, HeldUntilCovered, StoppedInTime, DisclosedSoFar,
          NoReceiptMissed, ReceiptHasItsDay, Within, Unsent, Covered, HoldsRow
  <2> QED
    BY <2>2, <2>3
<1>7. ASSUME NEW s \in Sends, TakeFails(s) PROVE Safe(r)'
  <2>1. /\ send[s] # None /\ At(s, "taking") /\ Moves(s, "ended")
        /\ UNCHANGED <<clock, log, made, handed>>
    BY <1>7 DEF TakeFails, evidence
  <2>2. /\ send'[s] # None /\ send'[s].at = "ended"
        /\ send'[s].names = send[s].names
        /\ \A q \in Sends \ {s} : send'[q] = send[q]
    BY <1>1, <2>1, SendMoves DEF Steps
  <2>3. CASE r = s
    BY <1>1, <2>1, <2>2, <2>3, Ends
  <2>4. CASE r # s /\ UNCHANGED row
    BY <1>1, <2>1, <2>2, <2>4, StandsBy
  <2>5. CASE r # s /\ Claims(s)
    BY <1>5, <2>1, <2>2, <2>5
  <2> QED
    BY <1>7, <2>3, <2>4, <2>5 DEF TakeFails
<1>8. ASSUME NEW s \in Sends, Render(s) PROVE Safe(r)'
  <2>1. /\ At(s, "taken") /\ UNCHANGED <<clock, row, log, made, handed>>
        /\ Moves(s, "ending") \/ (made = {} /\ Moves(s, "rendered"))
    BY <1>8 DEF Render, evidence
  <2>2. CASE r # s
    BY <1>1, <2>1, <2>2, SendMoves, StandsBy DEF Steps, Preparing
  <2>3. CASE r = s
    <3>1. /\ send'[r] # None
          /\ send'[r].at = "ending" \/ (made = {} /\ send'[r].at = "rendered")
          /\ send'[r].deadline = send[r].deadline
          /\ send'[r].names = send[r].names
      BY <1>1, <2>1, <2>3, SendMoves DEF Steps, Preparing
    <3> QED
      BY <1>1, <2>1, <2>3, <3>1
      DEF Safe, DeadlineRuns, HeldUntilCovered, StoppedInTime, DisclosedSoFar,
          NoReceiptMissed, ReceiptHasItsDay, Within, Unsent, Underway, Covered,
          HoldsRow
  <2> QED
    BY <2>2, <2>3
<1>9. ASSUME NEW s \in Sends, NoteTransmitted(s) \/ NoteRevealed(s)
      PROVE  Safe(r)'
  <2>1. /\ send[s] # None /\ UNCHANGED <<clock, row, made, handed>>
        /\ log \subseteq log'
    BY <1>9 DEF NoteTransmitted, NoteRevealed
  <2>2. \/ /\ send[s].at = "rendered" /\ Moves(s, "noted")
           /\ <<"TRANSMITTED", s>> \in log'
        \/ /\ send[s].at = "noted" /\ Moves(s, "prepared")
           /\ send[s].names => <<"REVEALED", s>> \in log'
    BY <1>9 DEF NoteTransmitted, NoteRevealed
  <2>3. CASE r # s
    BY <1>1, <2>1, <2>2, <2>3, SendMoves, StandsBy DEF Steps, Preparing
  <2>4. CASE r = s
    <3>1. /\ send'[r] # None
          /\ \/ /\ send[r].at = "rendered" /\ send'[r].at = "noted"
                /\ <<"TRANSMITTED", r>> \in log'
             \/ /\ send[r].at = "noted" /\ send'[r].at = "prepared"
                /\ send[r].names => <<"REVEALED", r>> \in log'
          /\ send'[r].deadline = send[r].deadline
          /\ send'[r].names = send[r].names
      BY <1>1, <2>1, <2>2, <2>4, SendMoves DEF Steps, Preparing
    <3> QED
      BY <1>1, <2>1, <2>4, <3>1
      DEF Safe, DeadlineRuns, HeldUntilCovered, StoppedInTime, DisclosedSoFar,
          NoReceiptMissed, ReceiptHasItsDay, Within, Unsent, Underway, Covered,
          HoldsRow
  <2> QED
    BY <2>3, <2>4
<1>10. ASSUME NEW s \in Sends, HandOver(s) PROVE Safe(r)'
  <2>1. /\ At(s, "prepared") /\ clock < send[s].deadline /\ Moves(s, "sending")
        /\ UNCHANGED <<clock, row, log, made>> /\ handed' = handed \union {s}
    BY <1>10 DEF HandOver, evidence
  <2>2. CASE r # s
    BY <1>1, <2>1, <2>2, SendMoves, StandsBy DEF Steps
  <2>3. CASE r = s
    <3>1. /\ send'[r] # None /\ send'[r].at = "sending"
          /\ send'[r].deadline = send[r].deadline
          /\ send'[r].names = send[r].names
      BY <1>1, <2>1, <2>3, SendMoves DEF Steps
    <3>2. clock <= send[r].deadline + TimerLag
      BY <1>2, <2>1, <2>3, TimesAssumption
    <3> QED
      BY <1>1, <2>1, <2>3, <3>1, <3>2
      DEF Safe, DeadlineRuns, HeldUntilCovered, StoppedInTime, DisclosedSoFar,
          NoReceiptMissed, ReceiptHasItsDay, Within, Unsent, Underway, Covered,
          HoldsRow
  <2> QED
    BY <2>2, <2>3
<1>11. ASSUME NEW s \in Sends, NEW step \in {"received", "rejected"},
              NEW day \in Days \union {None}, At(s, "sending"),
              Answer(s, step, day), step = "received" => day \in Days
       PROVE  Safe(r)'
  <2>1. UNCHANGED <<clock, row, log, made, handed>>
    BY <1>11 DEF Answer, evidence
  <2>2. CASE r # s
    BY <1>1, <1>11, <2>1, <2>2, SendAnswered, StandsBy
  <2>3. CASE r = s
    <3>1. /\ send'[r] # None /\ send'[r].at = step /\ send'[r].day = day
          /\ send'[r].names = send[r].names
      BY <1>1, <1>11, <2>3, SendAnswered
    <3> QED
      BY <1>1, <1>11, <2>1, <2>3, <3>1
      DEF Safe, DeadlineRuns, HeldUntilCovered, StoppedInTime, DisclosedSoFar,
          NoReceiptMissed, ReceiptHasItsDay, Within, Unsent, Underway
  <2> QED
    BY <2>2, <2>3
<1>12. ASSUME NEW s \in Sends, send[s] # None, NEW step \in {"ending", "ended"},
              Moves(s, step), UNCHANGED <<clock, row, made, handed>>,
              log \subseteq log'
       PROVE  Safe(r)'
  <2>1. /\ send'[s] # None /\ send'[s].at = step /\ send'[s].names = send[s].names
        /\ \A q \in Sends \ {s} : send'[q] = send[q]
    BY <1>1, <1>12, SendMoves DEF Steps
  <2>2. CASE r # s
    BY <1>1, <1>12, <2>1, <2>2, StandsBy
  <2>3. CASE r = s
    BY <1>1, <1>12, <2>1, <2>3, Ends
  <2> QED
    BY <2>2, <2>3
<1>13. ASSUME NEW s \in Sends,
              \/ TakeRefused(s) \/ PrepareFails(s) \/ Stop(s)
              \/ OutcomeUnknown(s) \/ RecordRejected(s) \/ RecordFails(s)
              \/ ReleaseFails(s)
       PROVE  Safe(r)'
  <2>1. CASE TakeRefused(s) \/ Stop(s) \/ OutcomeUnknown(s) \/ RecordFails(s)
             \/ ReleaseFails(s)
    BY <1>12, <2>1 DEF TakeRefused, Stop, OutcomeUnknown, RecordFails,
                       ReleaseFails, evidence
  <2>2. CASE PrepareFails(s) \/ RecordRejected(s)
    BY <1>12, <2>2 DEF PrepareFails, RecordRejected
  <2> QED
    BY <1>13, <2>1, <2>2
<1>14. ASSUME NEW s \in Sends, Release(s) PROVE Safe(r)'
  <2>1. /\ send[s] # None /\ Moves(s, "ended")
        /\ UNCHANGED <<clock, log, made, handed>>
        /\ UNCHANGED row \/ HoldsRow(s)
    BY <1>14 DEF Release, evidence
  <2>2. /\ send'[s] # None /\ send'[s].at = "ended"
        /\ send'[s].names = send[s].names
        /\ \A q \in Sends \ {s} : send'[q] = send[q]
    BY <1>1, <2>1, SendMoves DEF Steps
  <2>3. CASE r = s
    BY <1>1, <2>1, <2>2, <2>3, Ends
  <2>4. CASE r # s
    BY <1>1, <2>1, <2>2, <2>4
    DEF Safe, DeadlineRuns, HeldUntilCovered, StoppedInTime, DisclosedSoFar,
        NoReceiptMissed, ReceiptHasItsDay, Within, Covered, HoldsRow
  <2> QED
    BY <2>3, <2>4
<1>15. ASSUME NEW s \in Sends, RecordMade(s) PROVE Safe(r)'
  <2>1. /\ At(s, "received") /\ Moves(s, "ending")
        /\ UNCHANGED <<clock, row, log, handed>>
        /\ \A e \in made' \ made : e.claimed = HoldsRow(s)
    BY <1>15 DEF RecordMade, Adds
  <2>2. /\ send'[s] # None /\ send'[s].at = "ending"
        /\ send'[s].names = send[s].names
        /\ \A q \in Sends \ {s} : send'[q] = send[q]
    BY <1>1, <2>1, SendMoves DEF Steps
  <2>3. CASE r = s
    BY <1>1, <2>1, <2>2, <2>3, Ends
  <2>4. CASE r # s
    BY <1>1, <2>1, <2>2, <2>4
    DEF Safe, DeadlineRuns, HeldUntilCovered, StoppedInTime, DisclosedSoFar,
        NoReceiptMissed, ReceiptHasItsDay, Within, Covered, HoldsRow, Unsent,
        Underway
  <2> QED
    BY <2>3, <2>4
<1>16. ASSUME Crash PROVE Safe(r)'
  <2>1. UNCHANGED <<clock, row, log, made, handed>>
    BY <1>16 DEF Crash, evidence
  <2>2. CASE send[r] = None
    BY <1>1, <1>16, <2>1, <2>2, SendsCrash, StandsBy
  <2>3. CASE send[r] # None
    BY <1>1, <1>16, <2>1, <2>3, SendsCrash, Ends
  <2> QED
    BY <2>2, <2>3
<1>17. ASSUME NEW m \in Statements, StateMade(m) PROVE Safe(r)'
  <2>1. /\ UNCHANGED <<clock, row, log, send, handed>>
        /\ \A e \in made' \ made : ~e.claimed
    BY <1>17 DEF StateMade, Adds
  <2> QED
    BY <1>1, <2>1, StandsBy
<1>18. ASSUME Tick PROVE Safe(r)'
  <2>1. /\ UNCHANGED <<row, log, made, send, handed>> /\ clock' = clock + 1
        /\ At(r, "sending") => clock < send[r].deadline + TimerLag
    BY <1>18 DEF Tick, evidence
  <2> QED
    BY <1>1, <1>2, <2>1, TimesAssumption
    DEF Safe, DeadlineRuns, HeldUntilCovered, StoppedInTime, DisclosedSoFar,
        NoReceiptMissed, ReceiptHasItsDay, Within, Covered, HoldsRow
<1>19. ASSUME UNCHANGED <<clock, row, log, made, send, handed>> PROVE Safe(r)'
  BY <1>1, <1>19, StandsBy
<1>20. (\E m \in Statements, day \in Days : StateReads(m, day)) \/ UNCHANGED vars
       => UNCHANGED <<clock, row, log, made, send, handed>>
  BY DEF StateReads, vars, evidence
<1>21. ASSUME NEW s \in Sends, SendStep(s) PROVE Safe(r)'
  BY <1>4, <1>6, <1>7, <1>8, <1>9, <1>10, <1>11, <1>13, <1>14, <1>15, <1>21
  DEF SendStep, Rejected
<1>22. ASSUME NEW s \in Sends, NEW day \in AnsweredDays, Received(s, day)
       PROVE  Safe(r)'
  BY <1>11, <1>22 DEF Received
<1> QED
  BY <1>3, <1>16, <1>17, <1>18, <1>19, <1>20, <1>21, <1>22 DEF Next

-----------------------------------------------------------------------------
LEMMA Inductive == Spec => []IInv
<1>1. IInv /\ [Next]_vars => IInv'
  BY TypeStep, SafeStep DEF IInv
<1> QED
  BY InitHolds, <1>1, PTL DEF Spec

(* schema.prisma, RegisterTransmissionClaim, and the rows beside it: every *)
(* send, claim and entry keeps its shape, the reported days among those a  *)
(* report may have come in on.                                             *)
THEOREM TypeCorrect == Spec => []TypeOK
<1>1. IInv => TypeOK
  BY DEF IInv
<1> QED
  BY Inductive, <1>1, PTL

(* CLAIM_TTL_MS: a report is on the wire under its own live claim only, as *)
(* long as the deadline and the timer's lag together are below the expiry. *)
THEOREM WireUnderClaim == Spec => []ClaimCoversTheWire
<1>1. ASSUME IInv, NEW s \in Sends, At(s, "sending")
      PROVE  HoldsRow(s) /\ clock < row.expiresAt
  <2>1. clock \in Nat /\ send[s].deadline \in Nat
    BY <1>1 DEF IInv, TypeOK, Time, Send, At
  <2>2. clock < Covered(s)
    BY <1>1, <2>1, TimesAssumption DEF IInv, Safe, StoppedInTime, Covered
  <2>3. HoldsRow(s) /\ Covered(s) <= row.expiresAt
    BY <1>1, <2>2 DEF IInv, Safe, HeldUntilCovered, Within, At, Underway
  <2>4. row.expiresAt \in Nat
    BY <1>1, <2>3 DEF IInv, TypeOK, Claim, HoldsRow
  <2> QED
    BY <2>1, <2>2, <2>3, <2>4, TimesAssumption DEF Covered
<1>2. IInv => ClaimCoversTheWire
  BY <1>1 DEF ClaimCoversTheWire
<1> QED
  BY Inductive, <1>2, PTL

(* transmit(), step 4: whatever was handed over has its disclosure, and    *)
(* that of the number it carried, on the log, also across a crash.         *)
THEOREM HandedOverIsDisclosed == Spec => []DisclosedBeforehand
<1>1. IInv => DisclosedBeforehand
  BY DEF IInv, TypeOK, Safe, DisclosedSoFar, DisclosedBeforehand
<1> QED
  BY Inductive, <1>1, PTL

(* transmit(), steps 2 and 3: nothing is handed over after a receipt that  *)
(* was recorded under a claim, however many sends queue for the duty.      *)
THEOREM SentOnce == Spec => NotSentAgain
<1>1. ASSUME IInv, [Next]_vars, NEW s \in handed' \ handed
      PROVE  \A e \in made : ~e.claimed
  <2>1. s \in Sends /\ HandOver(s)
    BY <1>1
    DEF IInv, TypeOK, Next, SendStep, Transmit, IssueTake, Take, TakeRefused,
        TakeFails, Render, NoteTransmitted, NoteRevealed, PrepareFails, Stop,
        HandOver, Received, Rejected, Answer, OutcomeUnknown, RecordMade,
        RecordRejected, RecordFails, Release, ReleaseFails, StateReads,
        StateMade, Crash, Tick, vars
  <2>2. clock \in Nat /\ send[s].deadline \in Nat
    BY <1>1, <2>1 DEF IInv, TypeOK, Time, Send, HandOver, At
  <2>3. Within(s, Unsent) /\ clock < Covered(s)
    BY <2>1, <2>2, TimesAssumption DEF HandOver, At, Within, Unsent, Covered
  <2> QED
    BY <1>1, <2>1, <2>3 DEF IInv, Safe, NoReceiptMissed
<1>2. IInv /\ [Next]_vars =>
        [\A s \in handed' \ handed : ~\E e \in made : e.claimed]_vars
  BY <1>1
<1> QED
  BY Inductive, <1>2, PTL DEF Spec, NotSentAgain
=============================================================================
