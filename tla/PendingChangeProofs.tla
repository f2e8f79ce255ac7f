------------------------ MODULE PendingChangeProofs ------------------------
(***************************************************************************)
(* That PendingChange keeps its types, hands a change to its action at     *)
(* most once, never offers a change that was carried out, never runs one   *)
(* that was rejected, deletes nothing of a withheld person, and implements *)
(* HeldCall, for every number of changes, persons and requests.            *)
(***************************************************************************)
EXTENDS PendingChange, TLAPS, SequenceTheorems

(* The conjuncts of the inductive invariant.  One confirmation owns a      *)
(* change at a time, and the row, while it is there, carries its stamp.    *)
OneOwner ==
    \A r, s \in Requests, c \in Changes : Owner(r, c) /\ Owner(s, c) => r = s

OwnedIsStamped ==
    \A r \in Requests, c \in Changes :
        Owner(r, c) /\ row[c] # None => row[c].dispatchedAt = req[r].stamp

(* Until its owner's handler writes, and while it waits, nothing was. *)
OwnedUnwritten ==
    \A r \in Requests, c \in Changes :
        Owner(r, c) /\ req[r].at \in {"running", "refused"} => effects[c] = 0

WaitingUnwritten ==
    \A c \in Changes :
        row[c] # None => row[c].dispatchedAt # None \/ effects[c] = 0

(* An id is proposed once: its first entry keeps Propose away for good. *)
ProposedFirst ==
    \A c \in Changes : audit[c] = <<>> =>
        row[c] = None /\ effects[c] = 0 /\ ~ \E r \in Requests : Owner(r, c)

(* A rejected change has no row left to claim. *)
RejectedIsGone ==
    \A c \in Changes : Said(c, "REJECTED") =>
        row[c] = None /\ effects[c] = 0 /\ ~ \E r \in Requests : Owner(r, c)

(* What a batch has read belongs to one person, who is not withheld. *)
BatchIsOnePersons ==
    sweep # None => (sweep.batch # None =>
        /\ sweep.batch.person \notin withheld
        /\ \A c \in sweep.batch.read :
             /\ audit[c] # <<>>
             /\ row[c] # None => row[c].proposer = sweep.batch.person)

(* What an owner is to the other conjuncts. *)
Ownership == /\ OneOwner /\ OwnedIsStamped /\ OwnedUnwritten
             /\ WaitingUnwritten /\ ProposedFirst /\ RejectedIsGone
             /\ AtMostOnce

IInv == TypeOK /\ Ownership /\ BatchIsOnePersons

-----------------------------------------------------------------------------
LEMMA InitHolds == Init => IInv
<1> SUFFICES ASSUME Init PROVE IInv
  OBVIOUS
<1>1. TypeOK
  BY DEF Init, TypeOK, Time
<1>2. \A r \in Requests, c \in Changes : ~Owner(r, c)
  BY DEF Init, Owner
<1>3. \A c \in Changes : ~Said(c, "REJECTED")
  BY DEF Init, Said
<1> QED
  BY <1>1, <1>2, <1>3
  DEF Init, IInv, Ownership, AtMostOnce, OneOwner, OwnedIsStamped, OwnedUnwritten,
      WaitingUnwritten, ProposedFirst, RejectedIsGone, BatchIsOnePersons

(* A request that takes its next step keeps what it is about. *)
LEMMA RequestMoves ==
  ASSUME TypeOK, NEW r \in Requests, NEW from, At(r, from),
         NEW step \in Claimed, Proceed(r, step)
  PROVE  /\ req' \in [Requests -> Request \union {None}]
         /\ req[r] \in Request
         /\ req'[r] \in Request /\ req'[r].at = step
         /\ req'[r].change = req[r].change /\ req'[r].stamp = req[r].stamp
         /\ \A s \in Requests : s # r => req'[s] = req[s]
<1>1. req[r] \in Request
  BY DEF TypeOK, At
<1>2. /\ [req[r] EXCEPT !.at = step] \in Request
      /\ [req[r] EXCEPT !.at = step].at = step
      /\ [req[r] EXCEPT !.at = step].change = req[r].change
      /\ [req[r] EXCEPT !.at = step].stamp = req[r].stamp
  BY <1>1 DEF Request, Claimed
<1>3. req' = [req EXCEPT ![r] = [req[r] EXCEPT !.at = step]]
  BY DEF Proceed
<1> QED
  BY <1>1, <1>2, <1>3 DEF TypeOK

(* A row that is stamped or unstamped keeps the rest. *)
LEMMA RowStamped ==
  ASSUME TypeOK, NEW c \in Changes, row[c] # None,
         NEW t \in Time \union {None},
         row' = [row EXCEPT ![c].dispatchedAt = t]
  PROVE  /\ row' \in [Changes -> Row \union {None}]
         /\ row'[c] # None /\ row'[c].dispatchedAt = t
         /\ row'[c].proposer = row[c].proposer
         /\ \A d \in Changes : d # c => row'[d] = row[d]
<1>1. row[c] \in Row
  BY DEF TypeOK
<1>2. /\ [row[c] EXCEPT !.dispatchedAt = t] \in Row
      /\ [row[c] EXCEPT !.dispatchedAt = t].dispatchedAt = t
      /\ [row[c] EXCEPT !.dispatchedAt = t].proposer = row[c].proposer
  BY <1>1 DEF Row
<1>3. row' = [row EXCEPT ![c] = [row[c] EXCEPT !.dispatchedAt = t]]
  OBVIOUS
<1> QED
  BY <1>2, <1>3, NoneAssumption DEF TypeOK

(* Types, one step per action. *)
LEMMA TypeStep == TypeOK /\ [Next]_vars => TypeOK'
<1> SUFFICES ASSUME TypeOK, [Next]_vars PROVE TypeOK'
  OBVIOUS
<1> USE DEF TypeOK
<1>1. ASSUME NEW c \in Changes, NEW p \in Persons, Propose(c, p)
      PROVE  TypeOK'
  BY <1>1, LifetimeAssumption DEF Propose, Record, Row, Time, Entries
<1>2. ASSUME NEW r \in Requests, Confirming(r) PROVE TypeOK'
  <2>1. CASE \E c \in Changes, p \in Persons : ConfirmLookup(r, c, p)
    BY <2>1 DEF ConfirmLookup, table, Request, Time
  <2>2. CASE CheckRefuses(r)
    BY <2>2 DEF CheckRefuses, Answer, table
  <2>3. CASE ClaimReadsClock(r)
    BY <2>3 DEF ClaimReadsClock, At, table, Request, Time
  <2>4. CASE ClaimTakes(r)
    <3>1. /\ req[r] \in Request /\ "running" \in Claimed
          /\ req' \in [Requests -> Request \union {None}]
      BY <2>4, RequestMoves DEF ClaimTakes, Claimed
    <3>2. req[r].change \in Changes /\ req[r].stamp \in Time
      BY <3>1 DEF Request
    <3>3. row' \in [Changes -> Row \union {None}]
      BY <2>4, <3>2, RowStamped DEF ClaimTakes, StampRow, WaitingFor
    <3> QED
      BY <2>4, <3>1, <3>3 DEF ClaimTakes, StampRow
  <2>5. CASE ClaimAnswerLost(r)
    <3>1. req[r].change \in Changes /\ req[r].stamp \in Time
      BY <2>5 DEF ClaimAnswerLost, At, Request
    <3>2. row' \in [Changes -> Row \union {None}]
      BY <2>5, <3>1, RowStamped DEF ClaimAnswerLost, StampRow, WaitingFor
    <3> QED
      BY <2>5, <3>2 DEF ClaimAnswerLost, StampRow, Answer
  <2>6. CASE ClaimMisses(r)
    BY <2>6 DEF ClaimMisses, Answer, table
  <2>7. CASE HandlerWrites(r)
    <3>1. /\ req[r] \in Request
          /\ req' \in [Requests -> Request \union {None}]
      BY <2>7, RequestMoves DEF HandlerWrites, Claimed
    <3> QED
      BY <2>7, <3>1 DEF HandlerWrites, table, Request
  <2>8. CASE HandlerRefuses(r)
    <3>1. /\ req[r] \in Request
          /\ req' \in [Requests -> Request \union {None}]
      BY <2>8, RequestMoves DEF HandlerRefuses, Claimed
    <3> QED
      BY <2>8, <3>1 DEF HandlerRefuses, table, Request
  <2>9. CASE HandlerFails(r)
    <3>1. /\ req[r] \in Request
          /\ req' \in [Requests -> Request \union {None}]
      BY <2>9, RequestMoves DEF HandlerFails, Claimed
    <3> QED
      BY <2>9, <3>1 DEF HandlerFails, table, Request
  <2>10. CASE HandlerReturns(r)
    <3>1. /\ req[r] \in Request
          /\ req' \in [Requests -> Request \union {None}]
      BY <2>10, RequestMoves DEF HandlerReturns, Claimed
    <3> QED
      BY <2>10, <3>1 DEF HandlerReturns, table, Request
  <2>11. CASE Release(r)
    BY <2>11 DEF Release, Answer, At, Row, Request, Time
  <2>12. CASE End(r)
    BY <2>12 DEF End, Answer, Record, At, Request, Entries
  <2>13. CASE AfterwordFails(r)
    BY <2>13 DEF AfterwordFails, Answer, table
  <2> QED
    BY <1>2, <2>1, <2>2, <2>3, <2>4, <2>5, <2>6, <2>7, <2>8, <2>9, <2>10,
       <2>11, <2>12, <2>13 DEF Confirming
<1>3. ASSUME NEW r \in Requests, Rejecting(r) PROVE TypeOK'
  <2>1. CASE \E c \in Changes, p \in Persons : RejectArrives(r, c, p)
    BY <2>1 DEF RejectArrives, table, Request, Time
  <2>2. CASE Reject(r)
    BY <2>2 DEF Reject, Record, Answer, At, Request, Entries
  <2>3. CASE RejectMisses(r)
    BY <2>3 DEF RejectMisses, Answer, table
  <2> QED
    BY <1>3, <2>1, <2>2, <2>3 DEF Rejecting
<1>4. CASE SweepStarts
  BY <1>4 DEF SweepStarts, table, Sweep, Time
<1>5. ASSUME NEW p \in Persons, SweepReads(p) PROVE TypeOK'
  <2>1. CASE SweepLeaves(p)
    BY <1>5, <2>1 DEF SweepReads, SweepLeaves, table, Sweep
  <2>2. CASE \E read \in SUBSET Expired(p, sweep.now) :
                sweep' = [sweep EXCEPT !.batch =
                   [person |-> p, read |-> read,
                    dispatched |-> {c \in read : row[c].dispatchedAt # None}]]
    <3>1. PICK read \in SUBSET Changes :
                 sweep' = [sweep EXCEPT !.batch =
                   [person |-> p, read |-> read,
                    dispatched |-> {c \in read : row[c].dispatchedAt # None}]]
      BY <2>2 DEF Expired
    <3>2. [person |-> p, read |-> read,
           dispatched |-> {c \in read : row[c].dispatchedAt # None}] \in Batch
      BY DEF Batch
    <3>3. sweep' \in Sweep
      BY <1>5, <3>1, <3>2 DEF SweepReads, Sweep
    <3> QED
      BY <1>5, <3>3 DEF SweepReads, table
  <2> QED
    BY <1>5, <2>1, <2>2 DEF SweepReads
<1>6. CASE SweepDeletes
  <2>1. sweep.batch \in Batch
    BY <1>6 DEF SweepDeletes, Sweep
  <2>2. sweep' \in Sweep \union {None}
    <3>1. sweep \in Sweep
      BY <1>6 DEF SweepDeletes
    <3>2. /\ [sweep EXCEPT !.batch = None] \in Sweep
          /\ \A p : [sweep EXCEPT !.todo = @ \ {p}, !.batch = None] \in Sweep
      BY <3>1 DEF Sweep
    <3> QED
      BY <1>6, <3>2 DEF SweepDeletes, SweepLeaves
  <2>3. row' \in [Changes -> Row \union {None}]
    BY <1>6 DEF SweepDeletes
  <2>4. audit' \in [Changes -> Seq(Entries)]
    BY <1>6 DEF SweepDeletes, Entries
  <2> QED
    BY <1>6, <2>2, <2>3, <2>4 DEF SweepDeletes
<1>7. CASE SweepFails
  BY <1>7 DEF SweepFails, table
<1>8. ASSUME NEW p \in Persons, Withhold(p) \/ LiftHold(p) \/ PurgePerson(p)
      PROVE  TypeOK'
  BY <1>8 DEF Withhold, LiftHold, PurgePerson, table
<1>9. CASE Crash
  BY <1>9 DEF Crash, table
<1>10. CASE Tick
  BY <1>10 DEF Tick, table, Time
<1>11. CASE UNCHANGED vars
  BY <1>11 DEF vars, table
<1> QED
  BY <1>1, <1>2, <1>3, <1>4, <1>5, <1>6, <1>7, <1>8, <1>9, <1>10, <1>11
  DEF Next, Sweeping

(* The queue never leaves its types. *)
THEOREM TypeCorrect == Spec => []TypeOK
<1>1. Init => TypeOK
  BY InitHolds DEF IInv
<1> QED
  BY <1>1, TypeStep, PTL DEF Spec

-----------------------------------------------------------------------------
(* A step that writes no row, no entry and no effect, and in which nobody  *)
(* becomes an owner or goes back to running, keeps all of it.              *)
LEMMA QuietStep ==
  ASSUME TypeOK, Ownership, UNCHANGED <<row, audit, effects>>,
         \A r \in Requests, c \in Changes : Owner(r, c)' =>
            /\ Owner(r, c)
            /\ req'[r].stamp = req[r].stamp
            /\ req'[r].at \in {"running", "refused"} =>
                 req[r].at \in {"running", "refused"}
  PROVE  Ownership'
<1>1. OneOwner' /\ OwnedIsStamped' /\ OwnedUnwritten' /\ WaitingUnwritten'
  BY DEF Ownership, OneOwner, OwnedIsStamped, OwnedUnwritten, WaitingUnwritten
<1>2. \A c \in Changes, e \in Entries : Said(c, e)' = Said(c, e)
  BY DEF Said
<1>3. ProposedFirst' /\ RejectedIsGone' /\ AtMostOnce'
  BY <1>2 DEF Ownership, ProposedFirst, RejectedIsGone, AtMostOnce, Entries
<1> QED
  BY <1>1, <1>3 DEF Ownership

(* What appending an entry does to what was said. *)
LEMMA SaidAfterAppend ==
  ASSUME TypeOK, NEW c \in Changes, NEW e \in Entries, NEW x \in Entries,
         audit'[c] = Append(audit[c], x)
  PROVE  /\ audit'[c] # <<>>
         /\ Said(c, e)' => Said(c, e) \/ e = x
<1>1. audit[c] \in Seq(Entries)
  BY DEF TypeOK
<1>2. /\ audit'[c] \in Seq(Entries) /\ audit'[c] # <<>>
      /\ Len(audit'[c]) = Len(audit[c]) + 1
      /\ \A i \in 1..Len(audit[c]) : audit'[c][i] = audit[c][i]
      /\ audit'[c][Len(audit[c]) + 1] = x
  BY <1>1, AppendProperties
<1>3. Len(audit[c]) \in Nat /\ DOMAIN audit[c] = 1..Len(audit[c])
  BY <1>1
<1>4. DOMAIN audit'[c] = 1..(Len(audit[c]) + 1)
  BY <1>2
<1>5. \A i \in DOMAIN audit'[c] : i \in DOMAIN audit[c] \/ i = Len(audit[c]) + 1
  BY <1>3, <1>4
<1> QED
  BY <1>2, <1>5 DEF Said

LEMMA SaidAfterRecord ==
  ASSUME TypeOK, NEW c \in Changes, NEW x \in Entries, Record(c, x)
  PROVE  \A d \in Changes :
           /\ audit'[d] = <<>> => d # c /\ audit[d] = <<>>
           /\ \A e \in Entries : Said(d, e)' => Said(d, e) \/ (d = c /\ e = x)
<1>1. audit'[c] = Append(audit[c], x)
  BY DEF Record, TypeOK
<1>2. /\ audit'[c] # <<>>
      /\ \A e \in Entries : Said(c, e)' => Said(c, e) \/ e = x
  BY <1>1, SaidAfterAppend
<1>3. ASSUME NEW d \in Changes, d # c
      PROVE  audit'[d] = audit[d] /\ \A e \in Entries : Said(d, e)' => Said(d, e)
  BY <1>3 DEF Record, TypeOK, Said
<1> QED
  BY <1>2, <1>3

LEMMA ConfirmingStep ==
  ASSUME TypeOK, TypeOK', Ownership, NEW r \in Requests, Confirming(r)
  PROVE  Ownership'
<1> USE NoneAssumption
<1>1. CASE \E c \in Changes, p \in Persons : ConfirmLookup(r, c, p)
  BY <1>1, QuietStep DEF ConfirmLookup, table, Owner, Claimed, TypeOK
<1>2. CASE CheckRefuses(r)
  BY <1>2, QuietStep DEF CheckRefuses, Answer, table, Owner, TypeOK
<1>3. CASE ClaimReadsClock(r)
  BY <1>3, QuietStep DEF ClaimReadsClock, At, table, Owner, Claimed, TypeOK,
                         Request
<1>4. CASE ClaimMisses(r)
  BY <1>4, QuietStep DEF ClaimMisses, Answer, table, Owner, TypeOK
<1>5. CASE HandlerRefuses(r)
  BY <1>5, QuietStep DEF HandlerRefuses, Proceed, At, table, Owner, Claimed,
                         TypeOK, Request
<1>6. CASE HandlerFails(r)
  BY <1>6, QuietStep DEF HandlerFails, Proceed, At, table, Owner, Claimed,
                         TypeOK, Request
<1>7. CASE HandlerReturns(r)
  BY <1>7, QuietStep DEF HandlerReturns, Proceed, At, table, Owner, Claimed,
                         TypeOK, Request
<1>8. CASE AfterwordFails(r)
  BY <1>8, QuietStep DEF AfterwordFails, Answer, table, Owner, TypeOK
<1>9. CASE ClaimTakes(r)
  <2> DEFINE c == req[r].change
  <2>1. /\ c \in Changes
        /\ row[c] # None /\ row[c] \in Row /\ row[c].dispatchedAt = None
        /\ row' = [row EXCEPT ![c].dispatchedAt = req[r].stamp]
        /\ req' = [req EXCEPT ![r].at = "running"]
        /\ req[r] \in Request
        /\ UNCHANGED <<audit, effects>>
    BY <1>9 DEF ClaimTakes, StampRow, WaitingFor, Proceed, At, TypeOK, Request
  <2>2. /\ row'[c].dispatchedAt = req[r].stamp
        /\ \A d \in Changes : d # c => row'[d] = row[d]
        /\ req[r].stamp # None
        /\ row'[c] # None
    <3>1. req[r].stamp \in Time /\ req[r].stamp # None
      BY <2>1 DEF Request
    <3> QED
      BY <2>1, <3>1, RowStamped
  <2>3. \A s \in Requests : ~Owner(s, c)
    BY <2>1 DEF Ownership, OwnedIsStamped, Owner, TypeOK, Request
  <2>4. effects[c] = 0 /\ audit[c] # <<>> /\ ~Said(c, "REJECTED")
    BY <2>1 DEF Ownership, WaitingUnwritten, ProposedFirst, RejectedIsGone
  <2>5. /\ Owner(r, c)' /\ req'[r].stamp = req[r].stamp
        /\ \A d \in Changes : Owner(r, d)' => d = c
        /\ \A s \in Requests : s # r => req'[s] = req[s]
    <3>1. /\ req'[r] \in Request /\ req'[r].at = "running"
          /\ req'[r].change = c /\ req'[r].stamp = req[r].stamp
      BY <2>1 DEF TypeOK, Request, Claimed
    <3>2. req'[r] # None
      BY <3>1, NoneAssumption
    <3>3. \A s \in Requests : s # r => req'[s] = req[s]
      BY <2>1 DEF TypeOK
    <3> QED
      BY <3>1, <3>2, <3>3 DEF Owner, Claimed
  <2>6. \A s \in Requests, d \in Changes :
           s # r => (Owner(s, d)' <=> Owner(s, d))
    BY <2>5 DEF Owner
  <2>7. \A d \in Changes : Said(d, "REJECTED")' = Said(d, "REJECTED")
    BY <2>1 DEF Said
  <2>8. OneOwner' /\ OwnedIsStamped'
    BY <2>2, <2>3, <2>5, <2>6 DEF Ownership, OneOwner, OwnedIsStamped
  <2>9. OwnedUnwritten' /\ WaitingUnwritten'
    BY <2>1, <2>2, <2>4, <2>5, <2>6
    DEF Ownership, OwnedUnwritten, WaitingUnwritten
  <2>10. ProposedFirst' /\ RejectedIsGone' /\ AtMostOnce'
    BY <2>1, <2>2, <2>4, <2>5, <2>6, <2>7
    DEF Ownership, ProposedFirst, RejectedIsGone, AtMostOnce
  <2> QED
    BY <2>8, <2>9, <2>10 DEF Ownership
<1>10. CASE ClaimAnswerLost(r)
  <2> DEFINE c == req[r].change
  <2>1. /\ c \in Changes
        /\ row[c] # None /\ row[c] \in Row /\ row[c].dispatchedAt = None
        /\ row' = [row EXCEPT ![c].dispatchedAt = req[r].stamp]
        /\ req' = [req EXCEPT ![r] = None]
        /\ req[r] \in Request
        /\ UNCHANGED <<audit, effects>>
    BY <1>10 DEF ClaimAnswerLost, StampRow, WaitingFor, Answer, At, TypeOK,
                 Request
  <2>2. /\ row'[c].dispatchedAt = req[r].stamp
        /\ \A d \in Changes : d # c => row'[d] = row[d]
    <3>1. req[r].stamp \in Time /\ req[r].stamp # None
      BY <2>1 DEF Request
    <3> QED
      BY <2>1, <3>1, RowStamped
  <2>3. \A s \in Requests : ~Owner(s, c)
    BY <2>1 DEF Ownership, OwnedIsStamped, Owner, TypeOK, Request
  <2>4. audit[c] # <<>> /\ ~Said(c, "REJECTED")
    BY <2>1 DEF Ownership, ProposedFirst, RejectedIsGone
  <2>5. \A s \in Requests, d \in Changes :
           Owner(s, d)' => Owner(s, d) /\ req'[s] = req[s]
    BY <2>1 DEF TypeOK, Owner
  <2>6. \A d \in Changes : Said(d, "REJECTED")' = Said(d, "REJECTED")
    BY <2>1 DEF Said
  <2>7. OneOwner' /\ OwnedIsStamped' /\ OwnedUnwritten'
    BY <2>1, <2>2, <2>3, <2>5
    DEF Ownership, OneOwner, OwnedIsStamped, OwnedUnwritten
  <2>8. WaitingUnwritten' /\ ProposedFirst' /\ RejectedIsGone' /\ AtMostOnce'
    BY <2>1, <2>2, <2>4, <2>5, <2>6
    DEF Ownership, WaitingUnwritten, ProposedFirst, RejectedIsGone, AtMostOnce
  <2> QED
    BY <2>7, <2>8 DEF Ownership
<1>11. CASE HandlerWrites(r)
  <2> DEFINE c == req[r].change
  <2>1. /\ c \in Changes /\ Owner(r, c)
        /\ req[r] \in Request /\ req[r].at = "running"
        /\ effects' = [effects EXCEPT ![c] = @ + 1]
        /\ req' = [req EXCEPT ![r].at = "wrote"]
        /\ UNCHANGED <<row, audit>>
    BY <1>11 DEF HandlerWrites, Proceed, At, table, TypeOK, Request, Owner,
                 Claimed
  <2>2. /\ effects[c] = 0 /\ effects'[c] = 1
        /\ \A d \in Changes : d # c => effects'[d] = effects[d]
    BY <2>1 DEF Ownership, OwnedUnwritten, TypeOK
  <2>3. row[c] # None => row[c].dispatchedAt # None
    BY <2>1 DEF Ownership, OwnedIsStamped, Request, Time
  <2>4. audit[c] # <<>> /\ ~Said(c, "REJECTED")
    BY <2>1 DEF Ownership, ProposedFirst, RejectedIsGone
  <2>5. \A s \in Requests, d \in Changes :
           /\ Owner(s, d)' <=> Owner(s, d)
           /\ Owner(s, d) => req'[s].stamp = req[s].stamp
           /\ s # r => req'[s] = req[s]
    <3>1. /\ req'[r] \in Request /\ req'[r].at = "wrote"
          /\ req'[r].change = c /\ req'[r].stamp = req[r].stamp
      BY <2>1 DEF TypeOK, Request, Claimed
    <3>2. req'[r] # None
      BY <3>1, NoneAssumption
    <3>3. \A s \in Requests : s # r => req'[s] = req[s]
      BY <2>1 DEF TypeOK
    <3>4. \A d \in Changes : Owner(r, d) <=> d = c
      BY <2>1 DEF Owner
    <3>5. \A d \in Changes : Owner(r, d)' <=> d = c
      BY <3>1, <3>2 DEF Owner, Claimed
    <3>6. \A s \in Requests, d \in Changes : s # r => (Owner(s, d)' <=> Owner(s, d))
      BY <3>3 DEF Owner
    <3> QED
      BY <3>1, <3>3, <3>4, <3>5, <3>6
  <2>6. req'[r].at = "wrote"
    BY <2>1 DEF TypeOK, Request
  <2>7. \A d \in Changes : Said(d, "REJECTED")' = Said(d, "REJECTED")
    BY <2>1 DEF Said
  <2>8. OneOwner' /\ OwnedIsStamped'
    BY <2>1, <2>5 DEF Ownership, OneOwner, OwnedIsStamped
  <2>9. OwnedUnwritten'
    BY <2>1, <2>2, <2>5, <2>6 DEF Ownership, OneOwner, OwnedUnwritten
  <2>10. WaitingUnwritten' /\ AtMostOnce'
    BY <2>1, <2>2, <2>3 DEF Ownership, WaitingUnwritten, AtMostOnce
  <2>11. ProposedFirst' /\ RejectedIsGone'
    BY <2>1, <2>2, <2>4, <2>5, <2>7 DEF Ownership, ProposedFirst, RejectedIsGone
  <2> QED
    BY <2>8, <2>9, <2>10, <2>11 DEF Ownership
<1>12. CASE Release(r)
  <2> DEFINE c == req[r].change
  <2>1. /\ c \in Changes /\ Owner(r, c)
        /\ req[r] \in Request /\ req[r].at = "refused"
        /\ req' = [req EXCEPT ![r] = None]
        /\ UNCHANGED <<audit, effects>>
    BY <1>12 DEF Release, Answer, At, TypeOK, Request, Owner, Claimed
  <2>2. \A d \in Changes : /\ d # c => row'[d] = row[d]
                           /\ row[d] = None <=> row'[d] = None
    <3>1. CASE row[c] # None /\ row[c].dispatchedAt = req[r].stamp
      <4>1. row' = [row EXCEPT ![c].dispatchedAt = None]
        BY <1>12, <3>1 DEF Release
      <4> QED
        BY <2>1, <3>1, <4>1, RowStamped
    <3>2. CASE ~(row[c] # None /\ row[c].dispatchedAt = req[r].stamp)
      BY <1>12, <3>2 DEF Release
    <3> QED
      BY <3>1, <3>2
  <2>3. effects[c] = 0
    BY <2>1 DEF Ownership, OwnedUnwritten
  <2>4. \A s \in Requests, d \in Changes :
           Owner(s, d)' => Owner(s, d) /\ req'[s] = req[s] /\ d # c
    BY <2>1 DEF TypeOK, Owner, Ownership, OneOwner
  <2>5. \A d \in Changes : Said(d, "REJECTED")' = Said(d, "REJECTED")
    BY <2>1 DEF Said
  <2>6. OneOwner' /\ OwnedIsStamped' /\ OwnedUnwritten'
    BY <2>1, <2>2, <2>4
    DEF Ownership, OneOwner, OwnedIsStamped, OwnedUnwritten
  <2>7. WaitingUnwritten' /\ ProposedFirst' /\ RejectedIsGone' /\ AtMostOnce'
    BY <2>1, <2>2, <2>3, <2>4, <2>5
    DEF Ownership, WaitingUnwritten, ProposedFirst, RejectedIsGone, AtMostOnce
  <2> QED
    BY <2>6, <2>7 DEF Ownership
<1>13. CASE End(r)
  <2> DEFINE c == req[r].change
             x == IF req[r].at = "ran" THEN "CONFIRMED" ELSE "FAILED"
  <2>1. /\ c \in Changes /\ Owner(r, c)
        /\ row' = [row EXCEPT ![c] = None]
        /\ audit' = [audit EXCEPT ![c] = Append(@, x)]
        /\ req' = [req EXCEPT ![r] = None]
        /\ UNCHANGED effects
    BY <1>13 DEF End, Record, Answer, At, TypeOK, Request, Owner, Claimed
  <2>2. \A s \in Requests, d \in Changes :
           Owner(s, d)' => Owner(s, d) /\ req'[s] = req[s]
    BY <2>1 DEF TypeOK, Owner
  <2>3. \A d \in Changes : row'[d] = None \/ row'[d] = row[d]
    BY <2>1 DEF TypeOK
  <2>4. x \in Entries /\ x # "REJECTED" /\ Record(c, x)
    BY <2>1 DEF Entries, Record
  <2> HIDE DEF x
  <2>7. \A d \in Changes : /\ audit'[d] = <<>> => audit[d] = <<>>
                           /\ Said(d, "REJECTED")' => Said(d, "REJECTED")
    BY <2>1, <2>4, SaidAfterRecord DEF Entries
  <2>8. OneOwner' /\ OwnedIsStamped' /\ OwnedUnwritten' /\ WaitingUnwritten'
    BY <2>1, <2>2, <2>3
    DEF Ownership, OneOwner, OwnedIsStamped, OwnedUnwritten, WaitingUnwritten
  <2>9. ProposedFirst' /\ RejectedIsGone' /\ AtMostOnce'
    BY <2>1, <2>2, <2>3, <2>7
    DEF Ownership, ProposedFirst, RejectedIsGone, AtMostOnce
  <2> QED
    BY <2>8, <2>9 DEF Ownership
<1> QED
  BY <1>1, <1>2, <1>3, <1>4, <1>5, <1>6, <1>7, <1>8, <1>9, <1>10, <1>11,
     <1>12, <1>13 DEF Confirming

LEMMA RejectingStep ==
  ASSUME TypeOK, Ownership, NEW r \in Requests, Rejecting(r)
  PROVE  Ownership'
<1> USE NoneAssumption
<1>1. CASE \E c \in Changes, p \in Persons : RejectArrives(r, c, p)
  BY <1>1, QuietStep DEF RejectArrives, table, Owner, Claimed, TypeOK
<1>2. CASE RejectMisses(r)
  BY <1>2, QuietStep DEF RejectMisses, Answer, table, Owner, TypeOK
<1>3. CASE Reject(r)
  <2> DEFINE c == req[r].change
  <2>1. /\ c \in Changes
        /\ row[c] # None /\ row[c].dispatchedAt = None
        /\ row' = [row EXCEPT ![c] = None]
        /\ Record(c, "REJECTED")
        /\ req' = [req EXCEPT ![r] = None]
        /\ UNCHANGED effects
    BY <1>3 DEF Reject, WaitingFor, Answer, At, TypeOK, Request
  <2>2. effects[c] = 0 /\ \A s \in Requests : ~Owner(s, c)
    BY <2>1 DEF Ownership, WaitingUnwritten, OwnedIsStamped, Owner, TypeOK,
                Request
  <2>3. \A s \in Requests, d \in Changes :
           Owner(s, d)' => Owner(s, d) /\ req'[s] = req[s]
    BY <2>1 DEF TypeOK, Owner
  <2>4. row'[c] = None /\ \A d \in Changes : d # c => row'[d] = row[d]
    BY <2>1 DEF TypeOK
  <2>5. \A d \in Changes :
           /\ audit'[d] = <<>> => audit[d] = <<>>
           /\ d # c => (Said(d, "REJECTED")' => Said(d, "REJECTED"))
    BY <2>1, SaidAfterRecord DEF Entries
  <2>6. OneOwner' /\ OwnedIsStamped' /\ OwnedUnwritten' /\ WaitingUnwritten'
    BY <2>1, <2>3, <2>4
    DEF Ownership, OneOwner, OwnedIsStamped, OwnedUnwritten, WaitingUnwritten
  <2>7. ProposedFirst' /\ RejectedIsGone' /\ AtMostOnce'
    BY <2>1, <2>2, <2>3, <2>4, <2>5
    DEF Ownership, ProposedFirst, RejectedIsGone, AtMostOnce
  <2> QED
    BY <2>6, <2>7 DEF Ownership
<1> QED
  BY <1>1, <1>2, <1>3 DEF Rejecting

(* Rows that go without an owner changing: what a purge or a sweep does. *)
LEMMA RowsGo ==
  ASSUME Ownership, UNCHANGED <<req, effects>>,
         \A c \in Changes :
            /\ row'[c] = None \/ row'[c] = row[c]
            /\ audit'[c] = <<>> => audit[c] = <<>>
            /\ Said(c, "REJECTED")' => Said(c, "REJECTED")
  PROVE  Ownership'
<1>1. \A r \in Requests, c \in Changes : Owner(r, c)' = Owner(r, c)
  BY DEF Owner
<1>2. OneOwner' /\ OwnedIsStamped' /\ OwnedUnwritten' /\ WaitingUnwritten'
  BY <1>1
  DEF Ownership, OneOwner, OwnedIsStamped, OwnedUnwritten, WaitingUnwritten
<1>3. ProposedFirst' /\ RejectedIsGone' /\ AtMostOnce'
  BY <1>1 DEF Ownership, ProposedFirst, RejectedIsGone, AtMostOnce
<1> QED
  BY <1>2, <1>3 DEF Ownership

LEMMA OwnershipStep ==
  ASSUME TypeOK, TypeOK', Ownership, [Next]_vars
  PROVE  Ownership'
<1> USE NoneAssumption
<1>1. ASSUME NEW c \in Changes, NEW p \in Persons, Propose(c, p)
      PROVE  Ownership'
  <2>1. /\ row[c] = None /\ effects[c] = 0
        /\ \A r \in Requests : ~Owner(r, c)
    BY <1>1 DEF Propose, Ownership, ProposedFirst
  <2>2. /\ row'[c] # None /\ row'[c].dispatchedAt = None
        /\ \A d \in Changes : d # c => row'[d] = row[d]
        /\ UNCHANGED <<effects, req>>
    <3> DEFINE new == [proposer |-> p, expiresAt |-> clock + Lifetime,
                       dispatchedAt |-> None]
    <3>1. new \in Row
      BY LifetimeAssumption DEF TypeOK, Row, Time
    <3> HIDE DEF new
    <3>2. row' = [row EXCEPT ![c] = new] /\ UNCHANGED <<effects, req>>
      BY <1>1 DEF Propose, new
    <3>3. new.dispatchedAt = None
      BY DEF new
    <3> QED
      BY <3>1, <3>2, <3>3 DEF TypeOK
  <2>3. \A r \in Requests, d \in Changes : Owner(r, d)' = Owner(r, d)
    BY <2>2 DEF Owner
  <2>4. ~Said(c, "REJECTED")
    BY <1>1 DEF Propose, Said
  <2>5. \A d \in Changes : /\ audit'[d] = <<>> => d # c /\ audit[d] = <<>>
                           /\ Said(d, "REJECTED")' => Said(d, "REJECTED")
    BY <1>1, SaidAfterRecord DEF Propose, Entries
  <2>6. OneOwner' /\ OwnedIsStamped' /\ OwnedUnwritten' /\ WaitingUnwritten'
    BY <2>1, <2>2, <2>3
    DEF Ownership, OneOwner, OwnedIsStamped, OwnedUnwritten, WaitingUnwritten
  <2>7. ProposedFirst' /\ RejectedIsGone' /\ AtMostOnce'
    BY <2>1, <2>2, <2>3, <2>4, <2>5
    DEF Ownership, ProposedFirst, RejectedIsGone, AtMostOnce
  <2> QED
    BY <2>6, <2>7 DEF Ownership
<1>2. ASSUME NEW r \in Requests, Confirming(r) PROVE Ownership'
  BY <1>2, ConfirmingStep
<1>3. ASSUME NEW r \in Requests, Rejecting(r) PROVE Ownership'
  BY <1>3, RejectingStep
<1>4. CASE SweepStarts
  BY <1>4, QuietStep DEF SweepStarts, table, Owner
<1>5. ASSUME NEW p \in Persons, SweepReads(p) PROVE Ownership'
  BY <1>5, QuietStep DEF SweepReads, table, Owner
<1>6. CASE SweepDeletes
  <2>1. \A c \in Changes :
           \/ UNCHANGED <<row[c], audit[c]>>
           \/ /\ row'[c] = None
              /\ \E x \in {"EXPIRED", "EXPIRED_DISPATCHED"} :
                    audit'[c] = Append(audit[c], x)
    BY <1>6 DEF SweepDeletes
  <2>2. \A c \in Changes :
           /\ audit'[c] = <<>> => audit[c] = <<>>
           /\ Said(c, "REJECTED")' => Said(c, "REJECTED")
    BY <2>1, SaidAfterAppend DEF Said, Entries
  <2> QED
    BY <1>6, <2>1, <2>2, RowsGo DEF SweepDeletes
<1>7. CASE SweepFails
  BY <1>7, QuietStep DEF SweepFails, table, Owner
<1>8. ASSUME NEW p \in Persons, Withhold(p) PROVE Ownership'
  BY <1>8, QuietStep DEF Withhold, table, Owner
<1>9. ASSUME NEW p \in Persons, LiftHold(p) PROVE Ownership'
  BY <1>9, QuietStep DEF LiftHold, table, Owner
<1>10. ASSUME NEW p \in Persons, PurgePerson(p) PROVE Ownership'
  BY <1>10, RowsGo DEF PurgePerson, Said
<1>11. CASE Crash
  BY <1>11, QuietStep DEF Crash, table, Owner
<1>12. CASE Tick
  BY <1>12, QuietStep DEF Tick, table, Owner
<1>13. CASE UNCHANGED vars
  BY <1>13, QuietStep DEF vars, table, Owner
<1> QED
  BY <1>1, <1>2, <1>3, <1>4, <1>5, <1>6, <1>7, <1>8, <1>9, <1>10, <1>11,
     <1>12, <1>13 DEF Next, Sweeping

-----------------------------------------------------------------------------
(* The batch: nobody withholds its person while it holds their key, and    *)
(* what it read stays that person's.                                       *)
LEMMA BatchStep ==
  ASSUME TypeOK, Ownership, BatchIsOnePersons, [Next]_vars
  PROVE  BatchIsOnePersons'
<1> USE NoneAssumption
<1>1. ASSUME UNCHANGED <<sweep, withheld>>,
             \A c \in Changes :
                /\ audit'[c] = <<>> => audit[c] = <<>>
                /\ row'[c] # None /\ audit[c] # <<>> =>
                     row[c] # None /\ row'[c].proposer = row[c].proposer
      PROVE  BatchIsOnePersons'
  BY <1>1 DEF BatchIsOnePersons, TypeOK, Sweep, Batch
<1>2. ASSUME NEW c \in Changes, NEW p \in Persons, Propose(c, p)
      PROVE  BatchIsOnePersons'
  <2>1. \A d \in Changes : audit'[d] = <<>> => audit[d] = <<>>
    BY <1>2, SaidAfterRecord DEF Propose, Entries
  <2>2. \A d \in Changes : audit[d] # <<>> => row'[d] = row[d]
    BY <1>2 DEF Propose, TypeOK
  <2> QED
    BY <1>1, <1>2, <2>1, <2>2 DEF Propose
<1>3. ASSUME NEW r \in Requests, Confirming(r) PROVE BatchIsOnePersons'
  <2>1. UNCHANGED <<sweep, withheld>>
    BY <1>3
    DEF Confirming, ConfirmLookup, CheckRefuses, ClaimReadsClock, ClaimTakes,
        ClaimAnswerLost, ClaimMisses, HandlerWrites, HandlerRefuses,
        HandlerFails, HandlerReturns, Release, End, AfterwordFails
  <2>2. CASE UNCHANGED table
    BY <1>1, <2>1, <2>2 DEF table
  <2>3. CASE ClaimTakes(r) \/ ClaimAnswerLost(r)
    <3>1. req[r].change \in Changes /\ req[r].stamp \in Time
      BY <2>3 DEF ClaimTakes, ClaimAnswerLost, At, TypeOK, Request
    <3>2. UNCHANGED audit /\ StampRow(r)
      BY <2>3 DEF ClaimTakes, ClaimAnswerLost, StampRow
    <3> QED
      BY <1>1, <2>1, <3>1, <3>2, RowStamped DEF StampRow, WaitingFor
  <2>4. CASE Release(r)
    <3>1. req[r].change \in Changes /\ UNCHANGED audit
      BY <2>4 DEF Release, At, TypeOK, Request
    <3>2. CASE UNCHANGED row
      BY <1>1, <2>1, <3>1, <3>2
    <3>3. CASE /\ row[req[r].change] # None
               /\ row' = [row EXCEPT ![req[r].change].dispatchedAt = None]
      BY <1>1, <2>1, <3>1, <3>3, RowStamped
    <3> QED
      BY <2>4, <3>2, <3>3 DEF Release
  <2>5. CASE End(r)
    <3>1. /\ req[r].change \in Changes
          /\ row' = [row EXCEPT ![req[r].change] = None]
      BY <2>5 DEF End, At, TypeOK, Request
    <3>2. \E x \in Entries : Record(req[r].change, x)
      BY <2>5 DEF End, Entries
    <3> QED
      BY <1>1, <2>1, <3>1, <3>2, SaidAfterRecord DEF TypeOK
  <2> QED
    BY <1>3, <2>2, <2>3, <2>4, <2>5
    DEF Confirming, ConfirmLookup, CheckRefuses, ClaimReadsClock,
        ClaimMisses, HandlerWrites, HandlerRefuses, HandlerFails,
        HandlerReturns, AfterwordFails
<1>4. ASSUME NEW r \in Requests, Rejecting(r) PROVE BatchIsOnePersons'
  <2>1. UNCHANGED <<sweep, withheld>>
    BY <1>4 DEF Rejecting, RejectArrives, Reject, RejectMisses
  <2>2. CASE UNCHANGED table
    BY <1>1, <2>1, <2>2 DEF table
  <2>3. CASE Reject(r)
    <3>1. /\ req[r].change \in Changes /\ Record(req[r].change, "REJECTED")
          /\ row' = [row EXCEPT ![req[r].change] = None]
      BY <2>3 DEF Reject, At, TypeOK, Request
    <3> QED
      BY <1>1, <2>1, <3>1, SaidAfterRecord DEF TypeOK, Entries
  <2> QED
    BY <1>4, <2>2, <2>3 DEF Rejecting, RejectArrives, RejectMisses
<1>5. CASE SweepStarts
  BY <1>5 DEF SweepStarts, BatchIsOnePersons
<1>6. ASSUME NEW p \in Persons, SweepReads(p) PROVE BatchIsOnePersons'
  <2>1. UNCHANGED <<table, withheld>> /\ sweep \in Sweep
    BY <1>6 DEF SweepReads, TypeOK
  <2>2. CASE SweepLeaves(p)
    BY <2>1, <2>2 DEF SweepLeaves, BatchIsOnePersons, Sweep
  <2>3. CASE ~SweepLeaves(p)
    <3>1. PICK read \in SUBSET Expired(p, sweep.now) :
             sweep' = [sweep EXCEPT !.batch =
               [person |-> p, read |-> read,
                dispatched |-> {c \in read : row[c].dispatchedAt # None}]]
      BY <1>6, <2>3 DEF SweepReads
    <3>2. sweep'.batch.person = p /\ sweep'.batch.read = read
      BY <2>1, <3>1 DEF Sweep
    <3>3. p \notin withheld
      BY <1>6, <2>3 DEF SweepReads
    <3>4. \A c \in read : c \in Changes /\ row[c] # None /\ row[c].proposer = p
      BY DEF Expired
    <3>5. \A c \in read : audit[c] # <<>>
      BY <3>4 DEF Ownership, ProposedFirst
    <3> QED
      BY <2>1, <3>2, <3>3, <3>4, <3>5 DEF BatchIsOnePersons, table
  <2> QED
    BY <2>2, <2>3
<1>7. CASE SweepDeletes \/ SweepFails \/ Crash
  <2>1. sweep' # None => sweep'.batch = None
    BY <1>7 DEF SweepDeletes, SweepLeaves, SweepFails, Crash, TypeOK, Sweep
  <2> QED
    BY <2>1 DEF BatchIsOnePersons
<1>8. ASSUME NEW p \in Persons, Withhold(p) PROVE BatchIsOnePersons'
  BY <1>8 DEF Withhold, HoldKeyFree, BatchIsOnePersons, table
<1>9. ASSUME NEW p \in Persons, LiftHold(p) PROVE BatchIsOnePersons'
  BY <1>9 DEF LiftHold, BatchIsOnePersons, table
<1>10. ASSUME NEW p \in Persons, PurgePerson(p) PROVE BatchIsOnePersons'
  BY <1>1, <1>10 DEF PurgePerson
<1>11. CASE Tick
  BY <1>1, <1>11 DEF Tick, table
<1>12. CASE UNCHANGED vars
  BY <1>1, <1>12 DEF vars, table
<1> QED
  BY <1>2, <1>3, <1>4, <1>5, <1>6, <1>7, <1>8, <1>9, <1>10, <1>11, <1>12
  DEF Next, Sweeping

LEMMA Inductive == Spec => []IInv
<1>1. IInv /\ [Next]_vars => IInv'
  BY TypeStep, OwnershipStep, BatchStep DEF IInv
<1> QED
  BY InitHolds, <1>1, PTL DEF Spec

-----------------------------------------------------------------------------
(* confirm: at most one press, tab or retry ever runs the action. *)
THEOREM RunsAtMostOnce == Spec => []AtMostOnce
<1>1. IInv => AtMostOnce
  BY DEF IInv, Ownership
<1> QED
  BY Inductive, <1>1, PTL

(* release, confirm: nothing that was carried out is offered again. *)
THEOREM CarriedOutNeverWaits == Spec => []SpentNeverWaits
<1>1. IInv => SpentNeverWaits
  BY DEF IInv, Ownership, WaitingUnwritten, SpentNeverWaits, TypeOK
<1> QED
  BY Inductive, <1>1, PTL

(* reject, lockWaiting: a rejected change never ran and never will. *)
THEOREM RejectedStaysRejected == Spec => []RejectedNeverRuns
<1>1. IInv => RejectedNeverRuns
  BY DEF IInv, Ownership, RejectedIsGone, RejectedNeverRuns
<1> QED
  BY Inductive, <1>1, PTL

(* No step deletes a row of a withheld person but their own act. *)
LEMMA WithheldStep ==
  ASSUME IInv, [Next]_vars
  PROVE  \A c \in Changes : GoesByOwnAct(c)
<1> SUFFICES ASSUME NEW c \in Changes, row[c] # None, row'[c] = None,
                    row[c].proposer \in withheld
             PROVE  \E entry \in {"CONFIRMED", "FAILED", "REJECTED"} :
                       audit'[c] = Append(audit[c], entry)
  BY DEF GoesByOwnAct
<1> USE NoneAssumption DEF IInv
<1>1. ASSUME NEW d \in Changes, NEW p \in Persons, Propose(d, p) PROVE FALSE
  <2>1. row[d] = None
    BY <1>1 DEF Propose, Ownership, ProposedFirst
  <2> QED
    BY <1>1, <2>1 DEF Propose, TypeOK
<1>2. ASSUME NEW r \in Requests, End(r)
      PROVE  \E entry \in {"CONFIRMED", "FAILED"} :
                audit'[c] = Append(audit[c], entry)
  <2>1. req[r].change \in Changes
    BY <1>2 DEF End, At, TypeOK, Request
  <2>2. c = req[r].change
    BY <1>2, <2>1 DEF End, TypeOK
  <2> QED
    BY <1>2, <2>2 DEF End, Record, TypeOK
<1>3. ASSUME NEW r \in Requests, Reject(r)
      PROVE  audit'[c] = Append(audit[c], "REJECTED")
  <2>1. req[r].change \in Changes
    BY <1>3 DEF Reject, At, TypeOK, Request
  <2>2. c = req[r].change
    BY <1>3, <2>1 DEF Reject, TypeOK
  <2> QED
    BY <1>3, <2>2 DEF Reject, Record, TypeOK
<1>4. ASSUME NEW r \in Requests,
             ClaimTakes(r) \/ ClaimAnswerLost(r) \/ Release(r)
      PROVE  FALSE
  <2>1. req[r].change \in Changes /\ req[r].stamp \in Time
    BY <1>4 DEF ClaimTakes, ClaimAnswerLost, Release, At, TypeOK, Request
  <2>2. CASE UNCHANGED row
    BY <2>2
  <2>3. CASE \E t \in Time \union {None} :
               /\ row[req[r].change] # None
               /\ row' = [row EXCEPT ![req[r].change].dispatchedAt = t]
    BY <2>1, <2>3, RowStamped
  <2> QED
    BY <1>4, <2>1, <2>2, <2>3
    DEF ClaimTakes, ClaimAnswerLost, StampRow, WaitingFor, Release
<1>5. SweepDeletes => FALSE
  BY DEF SweepDeletes, BatchIsOnePersons
<1>6. ASSUME NEW p \in Persons, PurgePerson(p) PROVE FALSE
  BY <1>6 DEF PurgePerson
<1>7. UNCHANGED row => FALSE
  OBVIOUS
<1>8. ASSUME NEW r \in Requests, Confirming(r) \/ Rejecting(r)
      PROVE  \/ End(r) \/ Reject(r) \/ UNCHANGED row
             \/ ClaimTakes(r) \/ ClaimAnswerLost(r) \/ Release(r)
  BY <1>8
  DEF Confirming, Rejecting, ConfirmLookup, CheckRefuses, ClaimReadsClock,
      ClaimMisses, HandlerWrites, HandlerRefuses, HandlerFails,
      HandlerReturns, AfterwordFails, RejectArrives, RejectMisses, table
<1>9. \/ \E d \in Changes, p \in Persons : Propose(d, p)
      \/ \E r \in Requests : Confirming(r) \/ Rejecting(r)
      \/ SweepDeletes \/ (\E p \in Persons : PurgePerson(p))
      \/ UNCHANGED row
  BY DEF Next, Sweeping, SweepStarts, SweepReads, SweepFails, Withhold,
         LiftHold, Crash, Tick, table, vars
<1> QED
  BY <1>1, <1>2, <1>3, <1>4, <1>5, <1>6, <1>7, <1>8, <1>9

(* place, sweepBatch and purgePerson under one key: while a person is       *)
(* withheld their changes end by their own acts only.                       *)
THEOREM WithheldRowsStay == Spec => HoldKeepsRows
<1>1. IInv /\ [Next]_vars => [\A c \in Changes : GoesByOwnAct(c)]_vars
  BY WithheldStep
<1> QED
  BY Inductive, <1>1, PTL DEF Spec, HoldKeepsRows

-----------------------------------------------------------------------------
(* That the queue, with its table, its requests and its sweep, implements  *)
(* HeldCall: every step of PendingChange is a step of the abstract queue   *)
(* or leaves it as it was.                                                 *)
Runs(r, c) == req[r] # None /\ req[r].at = "running" /\ req[r].change = c

-----------------------------------------------------------------------------
(* How the abstract queue reads off the table and the requests. *)
LEMMA PhaseIs ==
  ASSUME NEW c \in Changes
  PROVE  /\ row[c] = None /\ audit[c] = <<>> => phaseBar[c] = "absent"
         /\ row[c] = None /\ audit[c] # <<>> => phaseBar[c] = "over"
         /\ row[c] # None /\ row[c].dispatchedAt = None => phaseBar[c] = "open"
         /\ row[c] # None /\ row[c].dispatchedAt # None => phaseBar[c] = "taken"
BY DEF phaseBar

LEMMA PhaseWillBe ==
  ASSUME NEW c \in Changes
  PROVE  /\ row'[c] = None /\ audit'[c] = <<>> => phaseBar'[c] = "absent"
         /\ row'[c] = None /\ audit'[c] # <<>> => phaseBar'[c] = "over"
         /\ row'[c] # None /\ row'[c].dispatchedAt = None => phaseBar'[c] = "open"
         /\ row'[c] # None /\ row'[c].dispatchedAt # None => phaseBar'[c] = "taken"
BY DEF phaseBar

LEMMA SamePhase ==
  ASSUME NEW c \in Changes, row'[c] = row[c],
         row[c] = None => (audit'[c] = <<>> <=> audit[c] = <<>>)
  PROVE  phaseBar'[c] = phaseBar[c]
BY PhaseIs, PhaseWillBe

LEMMA PhasesMove ==
  ASSUME NEW S \in SUBSET Changes, NEW v,
         \A c \in S : phaseBar'[c] = v,
         \A c \in Changes \ S : phaseBar'[c] = phaseBar[c]
  PROVE  phaseBar' = [c \in Changes |-> IF c \in S THEN v ELSE phaseBar[c]]
<1>1. phaseBar' = [c \in Changes |-> phaseBar'[c]]
  BY DEF phaseBar
<1> QED
  BY <1>1

LEMMA PhaseMoves ==
  ASSUME NEW c \in Changes, NEW v, phaseBar'[c] = v,
         \A d \in Changes : d # c => phaseBar'[d] = phaseBar[d]
  PROVE  phaseBar' = [phaseBar EXCEPT ![c] = v]
<1>1. /\ phaseBar' = [d \in Changes |-> phaseBar'[d]]
      /\ phaseBar = [d \in Changes |-> phaseBar[d]]
  BY DEF phaseBar
<1> QED
  BY <1>1

LEMMA PermitsAre ==
  /\ \A c : c \in permitBar <=> c \in Changes /\ \E r \in Requests : Runs(r, c)
  /\ \A c : c \in permitBar' <=> c \in Changes /\ \E r \in Requests : Runs(r, c)'
BY DEF permitBar, Runs, At

LEMMA SamePermits ==
  ASSUME \A r \in Requests, c \in Changes : Runs(r, c)' <=> Runs(r, c)
  PROVE  permitBar' = permitBar
<1>1. \A c : c \in permitBar' <=> c \in permitBar
  BY PermitsAre
<1> QED
  BY <1>1

LEMMA SameOnTheWhole ==
  ASSUME UNCHANGED <<row, audit, effects>>,
         \A r \in Requests, c \in Changes : Runs(r, c)' <=> Runs(r, c)
  PROVE  UNCHANGED Held!vars
<1>1. phaseBar' = phaseBar
  <2>1. /\ phaseBar' = [c \in Changes |-> phaseBar'[c]]
        /\ phaseBar = [c \in Changes |-> phaseBar[c]]
    BY DEF phaseBar
  <2>2. \A c \in Changes : phaseBar'[c] = phaseBar[c]
    BY SamePhase
  <2> QED
    BY <2>1, <2>2
<1> QED
  BY <1>1, SamePermits DEF Held!vars

(* A confirmation that runs is the only one of its change. *)
LEMMA PermitGoes ==
  ASSUME OneOwner, NEW r \in Requests, NEW c \in Changes, Runs(r, c),
         req'[r] = None \/ req'[r].at # "running",
         \A s \in Requests : s # r => req'[s] = req[s]
  PROVE  c \in permitBar /\ permitBar' = permitBar \ {c}
<1>1. \A s \in Requests : Runs(s, c) => s = r
  BY DEF OneOwner, Owner, Runs, Claimed
<1>2. \A s \in Requests, d \in Changes : Runs(s, d)' <=> Runs(s, d) /\ s # r
  BY DEF Runs
<1>3. \A d : d \in permitBar' <=> d \in permitBar /\ d # c
  BY <1>1, <1>2, PermitsAre DEF Runs
<1> QED
  BY <1>3, PermitsAre

(* Rows that go, with an entry or after one, close their calls. *)
LEMMA RowsClose ==
  ASSUME UNCHANGED effects, permitBar' = permitBar,
         \A c \in Changes :
            \/ row'[c] = row[c] /\ audit'[c] = audit[c]
            \/ row'[c] = None /\ audit'[c] # <<>> /\ (row[c] = None => audit[c] # <<>>)
  PROVE  Held!Next
<1> DEFINE S == {c \in Changes : row[c] # None /\ row'[c] = None}
<1>1. \A c \in S : phaseBar[c] \in {"open", "taken"} /\ phaseBar'[c] = "over"
  BY PhaseIs, PhaseWillBe
<1>2. \A c \in Changes \ S : phaseBar'[c] = phaseBar[c]
  BY PhaseIs, PhaseWillBe, SamePhase
<1>3. phaseBar' = [c \in Changes |-> IF c \in S THEN "over" ELSE phaseBar[c]]
  BY <1>1, <1>2, PhasesMove
<1>4. Held!Close(S)
  BY <1>1, <1>3 DEF Held!Close
<1> QED
  BY <1>4 DEF Held!Next

-----------------------------------------------------------------------------
(* The steps of a confirmation. *)
LEMMA ClaimTakesCall ==
  ASSUME IInv, IInv', NEW r \in Requests, ClaimTakes(r) \/ ClaimAnswerLost(r)
  PROVE  Held!Next
<1> USE NoneAssumption
<1> DEFINE c == req[r].change
<1>1. /\ req[r] \in Request /\ c \in Changes /\ req[r].at = "claiming"
      /\ req[r].stamp \in Time /\ req[r].stamp # None
  BY DEF ClaimTakes, ClaimAnswerLost, At, IInv, TypeOK, Request
<1>2. /\ row[c] # None /\ row[c].dispatchedAt = None
      /\ row' = [row EXCEPT ![c].dispatchedAt = req[r].stamp]
      /\ UNCHANGED <<audit, effects>>
  BY DEF ClaimTakes, ClaimAnswerLost, StampRow, WaitingFor
<1>3. /\ row'[c] # None /\ row'[c].dispatchedAt = req[r].stamp
      /\ \A d \in Changes : d # c => row'[d] = row[d]
  BY <1>1, <1>2, RowStamped DEF IInv
<1> HIDE DEF c
<1>4. phaseBar[c] = "open" /\ phaseBar'[c] = "taken"
  BY <1>1, <1>2, <1>3, PhaseIs, PhaseWillBe
<1>5. phaseBar' = [phaseBar EXCEPT ![c] = "taken"]
  BY <1>1, <1>2, <1>3, <1>4, SamePhase, PhaseMoves
<1>6. permitBar' \in {permitBar, permitBar \union {c}}
  <2>1. CASE ClaimTakes(r)
    <3>1. req' = [req EXCEPT ![r].at = "running"]
      BY <2>1 DEF ClaimTakes, Proceed
    <3>2. /\ req'[r] # None /\ req'[r].at = "running" /\ req'[r].change = c
          /\ \A s \in Requests : s # r => req'[s] = req[s]
      <4>1. /\ At(r, "claiming") /\ Proceed(r, "running") /\ "running" \in Claimed
        BY <2>1 DEF ClaimTakes, Claimed
      <4> QED
        BY <4>1, RequestMoves DEF IInv, c
    <3>3. \A s \in Requests, d \in Changes :
             Runs(s, d)' <=> Runs(s, d) \/ (s = r /\ d = c)
      BY <1>1, <3>2 DEF Runs
    <3>4. \A d : d \in permitBar' <=> d \in permitBar \/ d = c
      BY <1>1, <3>3, PermitsAre
    <3> QED
      BY <3>4
  <2>2. CASE ClaimAnswerLost(r)
    <3>1. req' = [req EXCEPT ![r] = None]
      BY <2>2 DEF ClaimAnswerLost, Answer
    <3>2. \A s \in Requests, d \in Changes : Runs(s, d)' <=> Runs(s, d)
      BY <1>1, <3>1 DEF Runs, IInv, TypeOK
    <3> QED
      BY <3>2, SamePermits
  <2> QED
    BY <2>1, <2>2
<1>7. Held!Take(c)
  BY <1>2, <1>4, <1>5, <1>6 DEF Held!Take
<1> QED
  BY <1>1, <1>7 DEF Held!Next

LEMMA HandlerStepsCall ==
  ASSUME IInv, NEW r \in Requests,
         HandlerWrites(r) \/ HandlerRefuses(r) \/ HandlerFails(r) \/ HandlerReturns(r)
  PROVE  Held!Next \/ UNCHANGED Held!vars
<1> USE NoneAssumption
<1> DEFINE c == req[r].change
<1>1. PICK step \in {"wrote", "refused", "failed", "ran"} :
         req' = [req EXCEPT ![r].at = step]
  BY DEF HandlerWrites, HandlerRefuses, HandlerFails, HandlerReturns, Proceed
<1>2. /\ req[r] \in Request /\ req[r] # None /\ c \in Changes
      /\ req[r].at \in {"running", "wrote"} /\ UNCHANGED <<row, audit>>
      /\ req[r].at = "wrote" => UNCHANGED effects
  BY DEF HandlerWrites, HandlerRefuses, HandlerFails, HandlerReturns, At, IInv, TypeOK,
         Request, table
<1>3. /\ req'[r] # None /\ req'[r].at = step /\ req'[r].at # "running"
      /\ \A s \in Requests : s # r => req'[s] = req[s]
  <2>1. At(r, req[r].at) /\ Proceed(r, step) /\ step \in Claimed /\ step # "running"
    BY <1>1, <1>2 DEF At, Proceed, Claimed
  <2> QED
    BY <2>1, RequestMoves DEF IInv
<1>4. CASE req[r].at = "wrote"
  <2>1. \A s \in Requests, d \in Changes : Runs(s, d)' <=> Runs(s, d)
    BY <1>3, <1>4 DEF Runs
  <2> QED
    BY <1>2, <1>4, <2>1, SameOnTheWhole
<1>5. CASE req[r].at = "running"
  <2>1. c \in permitBar /\ permitBar' = permitBar \ {c}
    <3>1. Runs(r, c)
      BY <1>2, <1>5 DEF Runs
    <3> QED
      BY <1>2, <1>3, <3>1, PermitGoes DEF IInv, Ownership
  <2>2. UNCHANGED phaseBar
    BY <1>2 DEF phaseBar
  <2>3. CASE HandlerWrites(r)
    <3>1. effects' = [effects EXCEPT ![c] = @ + 1]
      BY <2>3 DEF HandlerWrites
    <3>2. Held!Run(c)
      BY <2>1, <2>2, <3>1 DEF Held!Run
    <3> QED
      BY <1>2, <3>2 DEF Held!Next
  <2>4. CASE UNCHANGED effects
    <3>1. Held!Lose({c})
      BY <2>1, <2>2, <2>4 DEF Held!Lose
    <3> QED
      BY <1>2, <3>1 DEF Held!Next
  <2> QED
    BY <2>3, <2>4 DEF HandlerRefuses, HandlerFails, HandlerReturns
<1> QED
  BY <1>2, <1>4, <1>5

LEMMA ReleaseReopens ==
  ASSUME IInv, IInv', NEW r \in Requests, Release(r)
  PROVE  Held!Next \/ UNCHANGED Held!vars
<1> USE NoneAssumption
<1> DEFINE c == req[r].change
<1>1. /\ req[r] \in Request /\ req[r] # None /\ c \in Changes /\ req[r].at = "refused"
      /\ req[r].stamp \in Time /\ UNCHANGED <<audit, effects>>
      /\ req' = [req EXCEPT ![r] = None]
  BY DEF Release, Answer, At, IInv, TypeOK, Request
<1>2. Owner(r, c) /\ effects[c] = 0
  BY <1>1 DEF Owner, Claimed, IInv, Ownership, OwnedUnwritten
<1>3. \A s \in Requests, d \in Changes : Runs(s, d)' <=> Runs(s, d)
  BY <1>1 DEF Runs, IInv, TypeOK
<1>4. CASE row[c] # None /\ row[c].dispatchedAt = req[r].stamp
  <2>1. row' = [row EXCEPT ![c].dispatchedAt = None]
    BY <1>4 DEF Release
  <2>2. /\ row'[c] # None /\ row'[c].dispatchedAt = None
        /\ \A d \in Changes : d # c => row'[d] = row[d]
    BY <1>1, <1>4, <2>1, RowStamped DEF IInv
  <2>3. phaseBar[c] = "taken" /\ phaseBar'[c] = "open"
    BY <1>1, <1>4, <2>2, PhaseIs, PhaseWillBe
  <2> HIDE DEF c
  <2>4. phaseBar' = [phaseBar EXCEPT ![c] = "open"]
    BY <1>1, <2>2, <2>3, SamePhase, PhaseMoves
  <2>5. c \notin permitBar
    <3>1. \A s \in Requests : ~Runs(s, c)
      BY <1>1, <1>2 DEF Runs, Owner, Claimed, IInv, Ownership, OneOwner
    <3> QED
      BY <3>1, PermitsAre
  <2>6. permitBar' = permitBar
    BY <1>3, SamePermits
  <2>7. Held!Reopen(c)
    BY <1>1, <1>2, <2>3, <2>4, <2>5, <2>6 DEF Held!Reopen
  <2> QED
    BY <1>1, <2>7 DEF Held!Next
<1>5. CASE ~(row[c] # None /\ row[c].dispatchedAt = req[r].stamp)
  <2>1. UNCHANGED row
    BY <1>5 DEF Release
  <2> QED
    BY <1>1, <1>3, <2>1, SameOnTheWhole
<1> QED
  BY <1>4, <1>5

LEMMA EndCloses ==
  ASSUME IInv, NEW r \in Requests, End(r)
  PROVE  Held!Next
<1> USE NoneAssumption
<1> DEFINE c == req[r].change
<1>1. /\ req[r] \in Request /\ req[r] # None /\ c \in Changes /\ Owner(r, c)
      /\ req[r].at \in {"ran", "failed"} /\ UNCHANGED effects
      /\ req' = [req EXCEPT ![r] = None] /\ row' = [row EXCEPT ![c] = None]
  BY DEF End, Answer, At, IInv, TypeOK, Request, Owner, Claimed
<1>2. \E x \in Entries : Record(c, x)
  BY DEF End, Entries
<1>3. audit'[c] # <<>> /\ \A d \in Changes : d # c => audit'[d] = audit[d]
  BY <1>1, <1>2, SaidAfterRecord DEF Record, IInv, TypeOK
<1>4. row'[c] = None /\ \A d \in Changes : d # c => row'[d] = row[d]
  BY <1>1 DEF IInv, TypeOK
<1>5. audit[c] # <<>>
  BY <1>1 DEF IInv, Ownership, ProposedFirst
<1>6. permitBar' = permitBar
  <2>1. \A s \in Requests, d \in Changes : Runs(s, d)' <=> Runs(s, d)
    BY <1>1 DEF Runs, IInv, TypeOK
  <2> QED
    BY <2>1, SamePermits
<1> HIDE DEF c
<1> QED
  BY <1>1, <1>3, <1>4, <1>5, <1>6, RowsClose

LEMMA ConfirmingImplements ==
  ASSUME IInv, IInv', NEW r \in Requests, Confirming(r)
  PROVE  Held!Next \/ UNCHANGED Held!vars
<1> USE NoneAssumption
<1>1. CASE \/ \E c \in Changes, p \in Persons : ConfirmLookup(r, c, p)
          \/ CheckRefuses(r) \/ ClaimReadsClock(r) \/ ClaimMisses(r) \/ AfterwordFails(r)
  <2>1. UNCHANGED <<row, audit, effects>>
    BY <1>1 DEF ConfirmLookup, CheckRefuses, ClaimReadsClock, ClaimMisses, AfterwordFails, table
  <2>2. /\ req[r] = None \/ req[r].at # "running"
        /\ req'[r] = None \/ req'[r].at # "running"
        /\ \A s \in Requests : s # r => req'[s] = req[s]
    BY <1>1 DEF ConfirmLookup, CheckRefuses, ClaimReadsClock, ClaimMisses, AfterwordFails,
                Answer, At, IInv, TypeOK, Request
  <2>3. \A s \in Requests, d \in Changes : Runs(s, d)' <=> Runs(s, d)
    BY <2>2 DEF Runs
  <2> QED
    BY <2>1, <2>3, SameOnTheWhole
<1> QED
  BY <1>1, ClaimTakesCall, HandlerStepsCall, ReleaseReopens, EndCloses DEF Confirming

-----------------------------------------------------------------------------
(* The other steps. *)
LEMMA ProposeHolds ==
  ASSUME IInv, IInv', NEW c \in Changes, NEW p \in Persons, Propose(c, p)
  PROVE  Held!Next
<1> USE NoneAssumption
<1>1. /\ audit[c] = <<>> /\ row[c] = None /\ UNCHANGED <<effects, req>>
      /\ Record(c, "PROPOSED")
  BY DEF Propose, IInv, Ownership, ProposedFirst
<1>2. /\ row'[c] # None /\ row'[c].dispatchedAt = None
      /\ \A d \in Changes : d # c => row'[d] = row[d]
  <2> DEFINE new == [proposer |-> p, expiresAt |-> clock + Lifetime, dispatchedAt |-> None]
  <2>1. new \in Row /\ new.dispatchedAt = None
    BY LifetimeAssumption DEF IInv, TypeOK, Row, Time
  <2>2. row' = [row EXCEPT ![c] = new]
    BY DEF Propose
  <2> HIDE DEF new
  <2> QED
    BY <2>1, <2>2 DEF IInv, TypeOK
<1>3. \A d \in Changes : d # c => audit'[d] = audit[d]
  BY <1>1 DEF Record, IInv, TypeOK
<1>4. phaseBar[c] = "absent" /\ phaseBar'[c] = "open"
  BY <1>1, <1>2, PhaseIs, PhaseWillBe
<1>5. phaseBar' = [d \in Changes |-> IF d \in {c} THEN "open" ELSE phaseBar[d]]
  <2> DEFINE S == {c}
  <2>1. \A d \in S : phaseBar'[d] = "open"
    BY <1>4
  <2>2. \A d \in Changes \ S : phaseBar'[d] = phaseBar[d]
    BY <1>2, <1>3, SamePhase
  <2>3. S \in SUBSET Changes
    OBVIOUS
  <2> HIDE DEF S
  <2>4. phaseBar' = [d \in Changes |-> IF d \in S THEN "open" ELSE phaseBar[d]]
    BY <2>1, <2>2, <2>3, PhasesMove
  <2> QED
    BY <2>4 DEF S
<1>6. permitBar' = permitBar
  BY <1>1, SamePermits DEF Runs
<1>7. Held!Hold({c})
  BY <1>1, <1>4, <1>5, <1>6 DEF Held!Hold
<1> QED
  BY <1>7 DEF Held!Next

LEMMA RejectCloses ==
  ASSUME IInv, NEW r \in Requests, Rejecting(r)
  PROVE  Held!Next \/ UNCHANGED Held!vars
<1> USE NoneAssumption
<1>1. /\ req[r] = None \/ req[r].at # "running"
      /\ req'[r] = None \/ req'[r].at # "running"
      /\ \A s \in Requests : s # r => req'[s] = req[s]
  BY DEF Rejecting, RejectArrives, Reject, RejectMisses, Answer, At, IInv, TypeOK, Request
<1>2. \A s \in Requests, d \in Changes : Runs(s, d)' <=> Runs(s, d)
  BY <1>1 DEF Runs
<1>3. CASE UNCHANGED <<row, audit, effects>>
  BY <1>2, <1>3, SameOnTheWhole
<1>4. CASE Reject(r)
  <2> DEFINE c == req[r].change
  <2>1. /\ c \in Changes /\ row[c] # None /\ UNCHANGED effects
        /\ Record(c, "REJECTED") /\ row' = [row EXCEPT ![c] = None]
    BY <1>4 DEF Reject, WaitingFor, At, IInv, TypeOK, Request
  <2>2. audit'[c] # <<>> /\ \A d \in Changes : d # c => audit'[d] = audit[d]
    <3>1. PICK x \in Entries : x = "REJECTED"
      BY DEF Entries
    <3>2. Record(c, x)
      BY <2>1, <3>1
    <3>3. audit'[c] # <<>>
      BY <2>1, <3>2, SaidAfterRecord DEF IInv
    <3> QED
      BY <2>1, <3>2, <3>3 DEF Record, IInv, TypeOK
  <2>3. row'[c] = None /\ \A d \in Changes : d # c => row'[d] = row[d]
    BY <2>1 DEF IInv, TypeOK
  <2> HIDE DEF c
  <2> QED
    BY <1>2, <2>1, <2>2, <2>3, SamePermits, RowsClose
<1>5. (\E c \in Changes, p \in Persons : RejectArrives(r, c, p)) \/ RejectMisses(r)
      => UNCHANGED <<row, audit, effects>>
  BY DEF RejectArrives, RejectMisses, table
<1> QED
  BY <1>3, <1>4, <1>5 DEF Rejecting

(* A batch deletes rows it read, of which an entry was written long ago.   *)
LEMMA SweepCloses ==
  ASSUME IInv, SweepDeletes
  PROVE  Held!Next
<1>1. UNCHANGED <<req, effects>> /\ sweep # None /\ sweep.batch # None
  BY DEF SweepDeletes
<1>2. permitBar' = permitBar
  BY <1>1, SamePermits DEF Runs
<1>3. ASSUME NEW c \in Changes
      PROVE  \/ row'[c] = row[c] /\ audit'[c] = audit[c]
             \/ row'[c] = None /\ audit'[c] # <<>> /\ (row[c] = None => audit[c] # <<>>)
  <2>1. CASE c \notin sweep.batch.read
    BY <2>1 DEF SweepDeletes
  <2>2. CASE c \in sweep.batch.read
    <3>1. row'[c] = None /\ \E x \in Entries : audit'[c] = Append(audit[c], x)
      BY <2>2 DEF SweepDeletes, Entries
    <3>2. audit'[c] # <<>>
      BY <3>1, SaidAfterAppend DEF IInv
    <3>3. audit[c] # <<>>
      BY <1>1, <2>2 DEF IInv, BatchIsOnePersons
    <3> QED
      BY <3>1, <3>2, <3>3
  <2> QED
    BY <2>1, <2>2
<1> QED
  BY <1>1, <1>2, <1>3, RowsClose

LEMMA PurgeCloses ==
  ASSUME IInv, NEW p \in Persons, PurgePerson(p)
  PROVE  Held!Next
<1>1. UNCHANGED <<req, effects, audit>>
  BY DEF PurgePerson
<1>2. permitBar' = permitBar
  BY <1>1, SamePermits DEF Runs
<1>3. ASSUME NEW c \in Changes
      PROVE  row'[c] = row[c] \/ (row'[c] = None /\ audit[c] # <<>>)
  BY DEF PurgePerson, IInv, Ownership, ProposedFirst
<1> QED
  BY <1>1, <1>2, <1>3, RowsClose

(* A crash takes the permits of all that ran. *)
LEMMA CrashLoses ==
  ASSUME Crash
  PROVE  Held!Next
<1>1. UNCHANGED <<row, audit, effects>> /\ req' = [r \in Requests |-> None]
  BY DEF Crash, table
<1>2. permitBar' = {}
  BY <1>1, PermitsAre DEF Runs
<1>3. UNCHANGED phaseBar
  BY <1>1 DEF phaseBar
<1>4. Held!Lose(permitBar)
  BY <1>1, <1>2, <1>3 DEF Held!Lose
<1>5. permitBar \in SUBSET Changes
  BY PermitsAre
<1> QED
  BY <1>4, <1>5 DEF Held!Next

LEMMA StepImplements ==
  ASSUME IInv, IInv', [Next]_vars
  PROVE  [Held!Next]_(Held!vars)
<1>1. ASSUME UNCHANGED <<row, audit, effects, req>> PROVE UNCHANGED Held!vars
  BY <1>1, SameOnTheWhole DEF Runs
<1>2. CASE SweepStarts \/ (\E p \in Persons : SweepReads(p)) \/ SweepFails \/ Tick
  BY <1>1, <1>2 DEF SweepStarts, SweepReads, SweepFails, Tick, table
<1>3. CASE \E p \in Persons : Withhold(p) \/ LiftHold(p)
  BY <1>1, <1>3 DEF Withhold, LiftHold, table
<1>4. CASE UNCHANGED vars
  BY <1>1, <1>4 DEF vars, table
<1> QED
  BY <1>2, <1>3, <1>4, ProposeHolds, ConfirmingImplements, RejectCloses, SweepCloses,
     PurgeCloses, CrashLoses DEF Next, Sweeping

LEMMA InitImplements ==
  ASSUME Init
  PROVE  Held!Init
BY DEF Init, Held!Init, phaseBar, permitBar, At

(* PendingChangeService with its sweep: a held call is carried out on a    *)
(* one-shot permit and offered again only while nothing was done for it.   *)
THEOREM QueueHoldsCalls == Spec => HeldCallSpec
<1>1. Init => Held!Init
  BY InitImplements
<1>2. IInv /\ IInv' /\ [Next]_vars => [Held!Next]_(Held!vars)
  BY StepImplements
<1> QED
  BY <1>1, <1>2, Inductive, PTL DEF Spec, HeldCallSpec, Held!Spec
=============================================================================
