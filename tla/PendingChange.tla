--------------------------- MODULE PendingChange ---------------------------
(***************************************************************************)
(* The pending-change queue (pending-changes/pending-change.service.ts)    *)
(* with the nightly sweep of what expired (retention/pending-change-       *)
(* sweep.ts), the person purge, and the legal holds both of them ask.      *)
(*                                                                         *)
(* A confirmation is a request that looks the change up, passes the action *)
(* registry's checks, claims the row, calls the action's handler and then  *)
(* releases or ends the row.  Every step between two awaits is an action   *)
(* of its own; a transaction that locks what it reads is one action.       *)
(***************************************************************************)
EXTENDS Integers, Sequences, FiniteSets

CONSTANTS
    Changes,        \* ids of changes that may be proposed
    Persons,        \* who proposes, confirms and is held
    Requests,       \* confirmations and rejections in flight at once
    Lifetime,       \* PENDING_CHANGE_LIFETIME_MS, in clock ticks
    BatchSize,      \* BATCH_SIZE of the sweep
    MaxClock,       \* bound: the last moment of a behaviour
    MaxCrashes,     \* bound: how often the process may die
    None            \* SQL's NULL, and nobody

ASSUME LifetimeAssumption == Lifetime \in Nat \ {0}
ASSUME BatchSizeAssumption == BatchSize \in Nat \ {0}

VARIABLES
    clock,          \* the wall clock
    row,            \* the pending_change table
    effects,        \* how often each change's action committed its write
    audit,          \* the audit entries about each change, oldest first
    req,            \* what each request is doing
    withheld,       \* persons under a legal hold or a restriction
    sweep,          \* the nightly sweep
    crashes         \* how often the process has died (for MaxCrashes)

table == <<row, audit>>
vars == <<clock, table, effects, req, withheld, sweep, crashes>>

Time == Nat
Row == [proposer : Persons, expiresAt : Time, dispatchedAt : Time \union {None}]

Entries == {"PROPOSED", "CONFIRMED", "FAILED", "REJECTED", "EXPIRED",
            "EXPIRED_DISPATCHED"}

(* A confirmation past its claim: from here the change is its own. *)
Claimed == {"running", "wrote", "refused", "failed", "ran"}

(* A request, with the last moment it read from the clock. *)
Request == [at : {"checking", "claiming", "rejecting"} \union Claimed,
            change : Changes, person : Persons, stamp : Time]

(* A run of the sweep; batch is set between a batch's read and its delete, *)
(* while the transaction holds the person's legal hold key.                *)
Batch == [person : Persons, read : SUBSET Changes, dispatched : SUBSET Changes]
Sweep == [now : Time, todo : SUBSET Persons, batch : Batch \union {None}]

ASSUME NoneAssumption == None \notin Row \union Request \union Sweep \union Batch
                         /\ None \notin Time

TypeOK ==
    /\ clock \in Time
    /\ row \in [Changes -> Row \union {None}]
    /\ effects \in [Changes -> Nat]
    /\ audit \in [Changes -> Seq(Entries)]
    /\ req \in [Requests -> Request \union {None}]
    /\ withheld \in SUBSET Persons
    /\ sweep \in Sweep \union {None}
    /\ crashes \in Nat

-----------------------------------------------------------------------------
Init ==
    /\ clock = 0
    /\ row = [c \in Changes |-> None]
    /\ effects = [c \in Changes |-> 0]
    /\ audit = [c \in Changes |-> <<>>]
    /\ req = [r \in Requests |-> None]
    /\ withheld = {}
    /\ sweep = None
    /\ crashes = 0

(* Variant: a claim does not stop a change from waiting. *)
WaitingThoughClaimed(c, p, now) ==
    row[c] # None /\ row[c].proposer = p /\ row[c].expiresAt > now

(* What every act on a change asks of its row: the person's own, before    *)
(* its expiry, and not handed to its action.                               *)
WaitingFor(c, p, now) ==
    /\ row[c] # None
    /\ row[c].proposer = p
    /\ row[c].expiresAt > now
    /\ row[c].dispatchedAt = None

Proceed(r, step) == req' = [req EXCEPT ![r].at = step]
Answer(r) == req' = [req EXCEPT ![r] = None]

Record(c, entry) == audit' = [audit EXCEPT ![c] = Append(@, entry)]

At(r, step) == req[r] # None /\ req[r].at = step

(* Variant: nobody waits for the key. *)
HoldKeyAlwaysFree(p) == p \in Persons

(* The legal hold key of a person is taken by a batch of the sweep until   *)
(* it commits.                                                             *)
HoldKeyFree(p) ==
    sweep # None => (sweep.batch # None => sweep.batch.person # p)

-----------------------------------------------------------------------------
(* Holding a call.  The row and its entry commit together. *)
Propose(c, p) ==
    /\ audit[c] = <<>>
    /\ clock + Lifetime <= MaxClock
    /\ row' = [row EXCEPT ![c] = [proposer |-> p,
                                  expiresAt |-> clock + Lifetime,
                                  dispatchedAt |-> None]]
    /\ Record(c, "PROPOSED")
    /\ UNCHANGED <<clock, effects, req, withheld, sweep, crashes>>

(* Confirming: the lookup.  A change that is not waiting answers not-found *)
(* and changes nothing.                                                    *)
ConfirmLookup(r, c, p) ==
    /\ req[r] = None
    /\ WaitingFor(c, p, clock)
    /\ req' = [req EXCEPT ![r] = [at |-> "checking", change |-> c,
                                  person |-> p, stamp |-> clock]]
    /\ UNCHANGED <<clock, table, effects, withheld, sweep, crashes>>

(* The registry's checks refuse, with the row untouched. *)
CheckRefuses(r) ==
    /\ At(r, "checking")
    /\ Answer(r)
    /\ UNCHANGED <<clock, table, effects, withheld, sweep, crashes>>

(* The checks pass and the claim reads the clock, ahead of its write. *)
ClaimReadsClock(r) ==
    /\ At(r, "checking")
    /\ req' = [req EXCEPT ![r].at = "claiming", ![r].stamp = clock]
    /\ UNCHANGED <<clock, table, effects, withheld, sweep, crashes>>

StampRow(r) ==
    LET c == req[r].change
    IN  /\ WaitingFor(c, req[r].person, req[r].stamp)
        /\ row' = [row EXCEPT ![c].dispatchedAt = req[r].stamp]
        /\ UNCHANGED audit

(* The conditional update finds the row waiting and stamps it. *)
ClaimTakes(r) ==
    /\ At(r, "claiming")
    /\ StampRow(r)
    /\ Proceed(r, "running")
    /\ UNCHANGED <<clock, effects, withheld, sweep, crashes>>

(* It stamps the row and the answer is lost: the confirmation does not     *)
(* know that it claimed, and rethrows.                                     *)
ClaimAnswerLost(r) ==
    /\ At(r, "claiming")
    /\ StampRow(r)
    /\ Answer(r)
    /\ UNCHANGED <<clock, effects, withheld, sweep, crashes>>

(* Variant: the count of the conditional update is not looked at. *)
ClaimUncounted(r) ==
    /\ At(r, "claiming")
    /\ Proceed(r, "running")
    /\ UNCHANGED <<clock, table, effects, withheld, sweep, crashes>>

(* It matches no row, or fails before it wrote: nothing was claimed. *)
ClaimMisses(r) ==
    /\ At(r, "claiming")
    /\ Answer(r)
    /\ UNCHANGED <<clock, table, effects, withheld, sweep, crashes>>

-----------------------------------------------------------------------------
(* The action's handler.  Its service writes in its own transaction, and a *)
(* refusal of its own wrote nothing; a failure may come before the write   *)
(* or after it, as may an output its schema refuses.                       *)
HandlerWrites(r) ==
    /\ At(r, "running")
    /\ effects' = [effects EXCEPT ![req[r].change] = @ + 1]
    /\ Proceed(r, "wrote")
    /\ UNCHANGED <<clock, table, withheld, sweep, crashes>>

HandlerRefuses(r) ==
    /\ At(r, "running")
    /\ Proceed(r, "refused")
    /\ UNCHANGED <<clock, table, effects, withheld, sweep, crashes>>

HandlerFails(r) ==
    /\ At(r, "running") \/ At(r, "wrote")
    /\ Proceed(r, "failed")
    /\ UNCHANGED <<clock, table, effects, withheld, sweep, crashes>>

HandlerReturns(r) ==
    /\ At(r, "running") \/ At(r, "wrote")
    /\ Proceed(r, "ran")
    /\ UNCHANGED <<clock, table, effects, withheld, sweep, crashes>>

(* Variant: any failure of the handler lifts the claim. *)
ReleaseOnFailure(r) ==
    /\ At(r, "refused") \/ At(r, "failed")
    /\ LET c == req[r].change
       IN  row' = IF row[c] # None /\ row[c].dispatchedAt = req[r].stamp
                    THEN [row EXCEPT ![c].dispatchedAt = None] ELSE row
    /\ Answer(r)
    /\ UNCHANGED <<clock, audit, effects, withheld, sweep, crashes>>

(* Lifting the claim after a refusal, matched on the claim's own stamp. *)
Release(r) ==
    /\ At(r, "refused")
    /\ LET c == req[r].change
       IN  row' = IF row[c] # None /\ row[c].dispatchedAt = req[r].stamp
                    THEN [row EXCEPT ![c].dispatchedAt = None] ELSE row
    /\ Answer(r)
    /\ UNCHANGED <<clock, audit, effects, withheld, sweep, crashes>>

(* Recording what came of it: the row goes if it is still there, and the   *)
(* entry is written whether or not it was.                                 *)
End(r) ==
    /\ At(r, "ran") \/ At(r, "failed")
    /\ row' = [row EXCEPT ![req[r].change] = None]
    /\ Record(req[r].change,
              IF req[r].at = "ran" THEN "CONFIRMED" ELSE "FAILED")
    /\ Answer(r)
    /\ UNCHANGED <<clock, effects, withheld, sweep, crashes>>

(* The release or the recording fails; the row stays as the claim left it. *)
AfterwordFails(r) ==
    /\ At(r, "refused") \/ At(r, "ran") \/ At(r, "failed")
    /\ Answer(r)
    /\ UNCHANGED <<clock, table, effects, withheld, sweep, crashes>>

-----------------------------------------------------------------------------
(* Rejecting reads the clock when the request arrives ... *)
RejectArrives(r, c, p) ==
    /\ req[r] = None
    /\ row[c] # None
    /\ req' = [req EXCEPT ![r] = [at |-> "rejecting", change |-> c,
                                  person |-> p, stamp |-> clock]]
    /\ UNCHANGED <<clock, table, effects, withheld, sweep, crashes>>

(* Variant: the row is locked whether or not it was claimed. *)
RejectClaimed(r) ==
    LET c == req[r].change
    IN  /\ At(r, "rejecting")
        /\ row[c] # None /\ row[c].proposer = req[r].person
        /\ row' = [row EXCEPT ![c] = None]
        /\ Record(c, "REJECTED")
        /\ Answer(r)
        /\ UNCHANGED <<clock, effects, withheld, sweep, crashes>>

(* ... and locks the row only while it still waits. *)
Reject(r) ==
    LET c == req[r].change
    IN  /\ At(r, "rejecting")
        /\ WaitingFor(c, req[r].person, req[r].stamp)
        /\ row' = [row EXCEPT ![c] = None]
        /\ Record(c, "REJECTED")
        /\ Answer(r)
        /\ UNCHANGED <<clock, effects, withheld, sweep, crashes>>

RejectMisses(r) ==
    /\ At(r, "rejecting")
    /\ Answer(r)
    /\ UNCHANGED <<clock, table, effects, withheld, sweep, crashes>>

-----------------------------------------------------------------------------
(* Variant: the sweep leaves what a confirmation claimed. *)
ExpiredUnclaimed(p, now) ==
    {c \in Changes : /\ row[c] # None
                     /\ row[c].proposer = p
                     /\ row[c].expiresAt <= now
                     /\ row[c].dispatchedAt = None}

Expired(p, now) ==
    {c \in Changes : /\ row[c] # None
                     /\ row[c].proposer = p
                     /\ row[c].expiresAt <= now}

(* The nightly run: whose changes have expired, read without a lock. *)
SweepStarts ==
    /\ sweep = None
    /\ LET proposers == {p \in Persons : Expired(p, clock) # {}}
       IN  /\ proposers # {}
           /\ sweep' = [now |-> clock, todo |-> proposers, batch |-> None]
    /\ UNCHANGED <<clock, table, effects, req, withheld, crashes>>

SweepLeaves(p) ==
    sweep' = IF sweep.todo = {p} THEN None
             ELSE [sweep EXCEPT !.todo = @ \ {p}, !.batch = None]

(* A batch of one person, read under their legal hold key: nothing for a   *)
(* person withheld, otherwise up to BatchSize of what expired.             *)
SweepReads(p) ==
    /\ sweep # None
    /\ sweep.batch = None
    /\ p \in sweep.todo
    /\ LET expired == Expired(p, sweep.now)
       IN  IF p \in withheld \/ expired = {}
             THEN SweepLeaves(p)
             ELSE \E read \in SUBSET expired :
                    /\ \/ Cardinality(read) = BatchSize
                       \/ Cardinality(read) < BatchSize /\ read = expired
                    /\ sweep' = [sweep EXCEPT !.batch =
                         [person |-> p, read |-> read,
                          dispatched |->
                            {c \in read : row[c].dispatchedAt # None}]]
    /\ UNCHANGED <<clock, table, effects, req, withheld, crashes>>

(* The batch is deleted by id, whatever its rows say by now, and every row *)
(* it read gets its entry; a full batch is followed by another.            *)
SweepDeletes ==
    /\ sweep # None
    /\ sweep.batch # None
    /\ LET b == sweep.batch
       IN  /\ row' = [c \in Changes |-> IF c \in b.read THEN None ELSE row[c]]
           /\ audit' = [c \in Changes |->
                IF c \in b.read
                  THEN Append(audit[c], IF c \in b.dispatched
                                          THEN "EXPIRED_DISPATCHED"
                                          ELSE "EXPIRED")
                  ELSE audit[c]]
           /\ IF Cardinality(b.read) = BatchSize
                THEN sweep' = [sweep EXCEPT !.batch = None]
                ELSE SweepLeaves(b.person)
    /\ UNCHANGED <<clock, effects, req, withheld, crashes>>

(* The transaction of a batch, or the run around it, fails. *)
SweepFails ==
    /\ sweep # None
    /\ crashes < MaxCrashes
    /\ crashes' = crashes + 1
    /\ sweep' = None
    /\ UNCHANGED <<clock, table, effects, req, withheld>>

-----------------------------------------------------------------------------
(* Placing a hold or granting a restriction waits for the person's key;    *)
(* lifting either does not.                                                *)
Withhold(p) ==
    /\ p \notin withheld
    /\ HoldKeyFree(p)
    /\ withheld' = withheld \union {p}
    /\ UNCHANGED <<clock, table, effects, req, sweep, crashes>>

LiftHold(p) ==
    /\ p \in withheld
    /\ withheld' = withheld \ {p}
    /\ UNCHANGED <<clock, table, effects, req, sweep, crashes>>

(* Erasing a person, in one transaction under their key: every change they *)
(* proposed goes, claimed or not, and no entry is written about it.        *)
PurgePerson(p) ==
    /\ p \notin withheld
    /\ HoldKeyFree(p)
    /\ \E c \in Changes : row[c] # None /\ row[c].proposer = p
    /\ row' = [c \in Changes |->
                 IF row[c] # None /\ row[c].proposer = p THEN None ELSE row[c]]
    /\ UNCHANGED <<clock, audit, effects, req, withheld, sweep, crashes>>

(* The process dies: every request in flight and the sweep are gone, what  *)
(* committed stays.                                                        *)
Crash ==
    /\ crashes < MaxCrashes
    /\ crashes' = crashes + 1
    /\ req' = [r \in Requests |-> None]
    /\ sweep' = None
    /\ UNCHANGED <<clock, table, effects, withheld>>

Tick ==
    /\ clock < MaxClock
    /\ clock' = clock + 1
    /\ UNCHANGED <<table, effects, req, withheld, sweep, crashes>>

-----------------------------------------------------------------------------
Confirming(r) ==
    \/ \E c \in Changes, p \in Persons : ConfirmLookup(r, c, p)
    \/ CheckRefuses(r) \/ ClaimReadsClock(r)
    \/ ClaimTakes(r) \/ ClaimAnswerLost(r) \/ ClaimMisses(r)
    \/ HandlerWrites(r) \/ HandlerRefuses(r)
    \/ HandlerFails(r) \/ HandlerReturns(r)
    \/ Release(r) \/ End(r) \/ AfterwordFails(r)

Rejecting(r) ==
    \/ \E c \in Changes, p \in Persons : RejectArrives(r, c, p)
    \/ Reject(r) \/ RejectMisses(r)

Sweeping == SweepStarts \/ (\E p \in Persons : SweepReads(p)) \/ SweepDeletes

Next ==
    \/ \E c \in Changes, p \in Persons : Propose(c, p)
    \/ \E r \in Requests : Confirming(r) \/ Rejecting(r)
    \/ Sweeping \/ SweepFails
    \/ \E p \in Persons : Withhold(p) \/ LiftHold(p) \/ PurgePerson(p)
    \/ Crash \/ Tick

Spec == Init /\ [][Next]_vars

(* Time passes, and the purge job runs every night until it has worked     *)
(* through what it found.  Nobody is obliged to confirm anything.          *)
Fairness == WF_vars(Tick) /\ WF_vars(Sweeping)

FairSpec == Spec /\ Fairness
-----------------------------------------------------------------------------
(* Of the properties below a change is spent when its action has written,   *)
(* and ends with an entry that says how.                                    *)
Said(c, entry) == \E i \in DOMAIN audit[c] : audit[c][i] = entry

(* Owner(r, c): the confirmation r claimed c and has not finished with it. *)
Owner(r, c) == req[r] # None /\ req[r].change = c /\ req[r].at \in Claimed

(* confirm: the action runs at most once for a change, whatever fails after *)
(* the claim, however many presses, tabs and restarts there are.            *)
AtMostOnce == \A c \in Changes : effects[c] <= 1

(* release, confirm: only a change nothing was written for waits again, so  *)
(* no screen ever offers a change that was carried out.                     *)
SpentNeverWaits ==
    \A c \in Changes :
        effects[c] > 0 /\ row[c] # None => row[c].dispatchedAt # None

(* reject, lockWaiting: what its proposer rejected has not run and will not *)
(* run, also when another tab was confirming it.                            *)
RejectedNeverRuns ==
    \A c \in Changes : Said(c, "REJECTED") =>
        effects[c] = 0 /\ ~ \E r \in Requests : Owner(r, c)

(* sweepBatch, PurgeService under lockLegalHold: while a person is withheld *)
(* only an act of their own ends a change of theirs; no purge does, also    *)
(* one that had begun when the hold was placed.                             *)
GoesByOwnAct(c) ==
    (row[c] # None /\ row'[c] = None /\ row[c].proposer \in withheld) =>
        \E entry \in {"CONFIRMED", "FAILED", "REJECTED"} :
            audit'[c] = Append(audit[c], entry)

HoldKeepsRows == [][\A c \in Changes : GoesByOwnAct(c)]_vars

(* sweepExpiredPendingChanges: every change, claimed or not, is deleted in  *)
(* the end unless its proposer stays withheld; a claim whose recording was  *)
(* lost holds nobody's name for ever.                                       *)
HeldRowsGo ==
    \A p \in Persons : <>[](p \notin withheld) =>
        \A c \in Changes :
            (row[c] # None /\ row[c].proposer = p) ~> (row[c] = None)

-----------------------------------------------------------------------------
(* The promise of the queue, and how its table and requests keep it. *)
phaseBar == [c \in Changes |->
    IF row[c] = None THEN IF audit[c] = <<>> THEN "absent" ELSE "over"
    ELSE IF row[c].dispatchedAt = None THEN "open" ELSE "taken"]

permitBar ==
    {c \in Changes : \E r \in Requests : At(r, "running") /\ req[r].change = c}

Held == INSTANCE HeldCall WITH
    Calls <- Changes, phase <- phaseBar, permit <- permitBar, ran <- effects

(* PendingChangeService as a whole implements the one-shot permit. *)
HeldCallSpec == Held!Spec
=============================================================================
