---------------------------- MODULE ImportApply ----------------------------
(***************************************************************************)
(* Importing a file of residents: preview, apply and abandon               *)
(* (import.service.ts, import-preview.service.ts) and the job that writes  *)
(* the rows chunk by chunk (import-apply.service.ts), against a register   *)
(* that the address book and the purge go on changing.                     *)
(*                                                                         *)
(* A row finds its person by e-mail address and is checked by name; a      *)
(* chunk is one row.  Left out: rows in error, the other search keys, the  *)
(* wait for a reindex, residency conflicts, plugins' proposals.            *)
(***************************************************************************)
EXTENDS Naturals, FiniteSets, Sequences

CONSTANTS
    Sessions,
    Files,          \* what may be uploaded: the rows of each session
    Emails, Names,
    Neighbours,     \* persons the board adds and the purge erases
    Newcomers,      \* bound: persons the imports enter
    Workers,
    Jobs,           \* bound: jobs in the queue at once
    Retries,        \* retryLimit
    None

Rows == 1..2        \* bound: rows of a file
Persons == Neighbours \union Newcomers
Row == [email : Emails, name : Names]

ASSUME FilesAssumption ==
    \A f \in Files : \A s \in Sessions : Len(f[s]) <= 2 /\ f[s] \in Seq(Row)
ASSUME PersonsAssumption ==
    /\ IsFiniteSet(Persons) /\ Neighbours \intersect Newcomers = {}
    /\ Persons \intersect {"none", "create", "skip"} = {}
ASSUME RetriesAssumption == Retries \in Nat

VARIABLES
    file,           \* the uploaded rows
    status,         \* ImportSession.status, with the reason of a failure
    preview,        \* what the session's preview recorded
    cursor,         \* rowsDone
    created,        \* createdPersons: by row
    register,       \* the persons, by address and name
    lives,          \* the residencies written: session, row and person
    revision,       \* ImportRevision
    job,
    worker

session == <<status, preview, cursor, created>>
vars == <<file, session, register, lives, revision, job, worker>>

Running == {"QUEUED", "APPLYING"}
Failures == {"register-changed", "apply-interrupted", "apply-abandoned"}
Status == {"MAPPING", "APPLIED"} \union Running \union Failures

Decision == {"none", "create", "skip"} \union Persons

(* A planned row: whom it is written to, in the register or created by an  *)
(* earlier row, and who else it could be.                                  *)
Planned == [outcome : {"create", "update", "ambiguous"},
            person : Persons \union {None}, sameAs : Rows \union {None},
            candidates : SUBSET Persons]

Target == {<<"create">>, <<"ambiguous">>}
          \union ({"person"} \X Persons) \union ({"row"} \X Rows)

Preview == [at : {"planning", "ready"}, revision : Nat,
            targets : [Rows -> Target \union {None}],
            listed : [Rows -> (SUBSET Persons) \union {None}],
            decisions : [Rows -> Decision]]

Worker == [job : Jobs \union {None}, session : Sessions,
           at : {"reading", "starting", "planning", "claiming", "locking",
                 "writing", "stopping"},
           cursor : Nat, created : [Rows -> Persons \union {None}],
           plan : Planned \union {None}]

Job == [session : Sessions, state : {"waiting", "active", "abandoned"},
        left : 0..Retries]

ASSUME NoneAssumption ==
    None \notin Persons \union Emails \union Jobs \union Preview \union Worker
                        \union Job

TypeOK ==
    /\ file \in Files
    /\ status \in [Sessions -> Status]
    /\ preview \in [Sessions -> Preview \union {None}]
    /\ cursor \in [Sessions -> Nat]
    /\ \A s \in Sessions : cursor[s] <= Len(file[s])
    /\ created \in [Sessions -> [Rows -> Persons \union {None}]]
    /\ register \in [Persons -> [email : Emails \union {None}, name : Names]
                                \union {None}]
    /\ lives \subseteq Sessions \X Rows \X Persons
    /\ revision \in Nat
    /\ job \in [Jobs -> Job \union {None}]
    /\ worker \in [Workers -> Worker \union {None}]

NoRow == [i \in Rows |-> None]

Init ==
    /\ file \in Files
    /\ status = [s \in Sessions |-> "MAPPING"]
    /\ preview = [s \in Sessions |-> None]
    /\ cursor = [s \in Sessions |-> 0]
    /\ created = [s \in Sessions |-> NoRow]
    /\ register = [p \in Persons |-> None]
    /\ lives = {}
    /\ revision = 0
    /\ job = [j \in Jobs |-> None]
    /\ worker = [w \in Workers |-> None]

-----------------------------------------------------------------------------
(* The plan of a row among the persons of the register and those that      *)
(* earlier rows of the window enter.                                       *)
Holders(email) == {p \in Persons : register[p] # None /\ register[p].email = email}

Enters(planned, decision) ==
    planned.outcome = "create"
    \/ (planned.outcome = "ambiguous" /\ decision = "create")

PlanOf(row, holders, earlier, earlierNames) ==
    LET names == {register[p].name : p \in holders} \union earlierNames
        one == Cardinality(holders) + Cardinality(earlier) = 1
        by == IF one /\ earlier # {} THEN CHOOSE j \in earlier : TRUE ELSE None
    IN  IF holders = {} /\ earlier = {}
        THEN [outcome |-> "create", person |-> None, sameAs |-> None,
              candidates |-> {}]
        ELSE IF one /\ names = {row.name}
        THEN [outcome |-> "update", sameAs |-> by, candidates |-> {},
              person |-> IF holders = {} THEN None
                         ELSE CHOOSE p \in holders : TRUE]
        ELSE [outcome |-> "ambiguous", person |-> None, sameAs |-> by,
              candidates |-> holders]

(* planImport over the rows of a window. *)
Plan(rows, from, to, decisions) ==
    LET plan[i \in (from + 1)..to] ==
          LET earlier == {j \in (from + 1)..(i - 1) :
                            /\ rows[j].email = rows[i].email
                            /\ Enters(plan[j], decisions[j])}
          IN  PlanOf(rows[i], Holders(rows[i].email), earlier,
                     {rows[j].name : j \in earlier})
    IN  plan

(* findUndecided, for a planned row. *)
Fits(planned, decision) ==
    IF planned.outcome = "ambiguous"
    THEN decision \in {"create", "skip"} \union planned.candidates
    ELSE decision = "none"

(* targetDigest: where a row is written, a person an earlier row entered   *)
(* being named by that row.                                                *)
TargetOf(planned, createdBy) ==
    LET by == {j \in Rows : createdBy[j] # None /\ createdBy[j] = planned.person}
    IN  IF planned.outcome # "update" THEN <<planned.outcome>>
        ELSE IF planned.person = None THEN <<"row", planned.sameAs>>
        ELSE IF by # {} THEN <<"row", CHOOSE j \in by : TRUE>>
        ELSE <<"person", planned.person>>

Asks(planned, decision) == planned.outcome = "ambiguous" /\ decision = "skip"

(* retargetedSincePreview and changedSincePreview. *)
Retargeted(shown, i, planned, createdBy) ==
    /\ ~Asks(planned, shown.decisions[i])
    /\ shown.targets[i] # TargetOf(planned, createdBy)

Changed(shown, i, planned, createdBy) ==
    IF planned.outcome # "ambiguous" THEN shown.listed[i] # None
    ELSE /\ shown.decisions[i] # "skip"
         /\ IF shown.listed[i] = None THEN shown.decisions[i] # "none"
            ELSE shown.listed[i] # planned.candidates
                                   \ {createdBy[j] : j \in Rows}

-----------------------------------------------------------------------------
(* preview, replacing one still planned or ready, and runPreview up to its *)
(* read of the register: the revision is read first.                       *)
PreviewStarts(s) ==
    /\ status[s] = "MAPPING"
    /\ file[s] # <<>>
    /\ preview' = [preview EXCEPT ![s] =
                     [at |-> "planning", revision |-> revision, targets |-> NoRow,
                      listed |-> NoRow, decisions |-> [i \in Rows |-> "none"]]]
    /\ UNCHANGED <<file, status, cursor, created, register, lives, revision,
                   job, worker>>

(* The plan that the board has answered every question of, recorded where  *)
(* the session still waits for it.                                         *)
PreviewReady(s) ==
    /\ preview[s] # None
    /\ preview[s].at = "planning"
    /\ status[s] = "MAPPING"
    /\ \E decisions \in [Rows -> Decision] :
         LET plan == Plan(file[s], 0, Len(file[s]), decisions)
         IN  /\ \A i \in Rows : IF i \in DOMAIN plan THEN Fits(plan[i], decisions[i])
                                ELSE decisions[i] = "none"
             /\ preview' = [preview EXCEPT
                  ![s].at = "ready",
                  ![s].decisions = decisions,
                  ![s].targets = [i \in Rows |->
                     IF i \in DOMAIN plan THEN TargetOf(plan[i], NoRow) ELSE None],
                  ![s].listed = [i \in Rows |->
                     IF i \in DOMAIN plan /\ plan[i].outcome = "ambiguous"
                     THEN plan[i].candidates ELSE None]]
    /\ UNCHANGED <<file, status, cursor, created, register, lives, revision,
                   job, worker>>

(* release: cancelled, watched by nobody or refused. *)
PreviewStops(s) ==
    /\ preview[s] # None
    /\ preview[s].at = "planning"
    /\ preview' = [preview EXCEPT ![s] = None]
    /\ UNCHANGED <<file, status, cursor, created, register, lives, revision,
                   job, worker>>

FreeJobs == {j \in Jobs : job[j] = None}

(* sendInTransaction *)
Enqueue(s) ==
    /\ FreeJobs # {}
    /\ job' = [job EXCEPT ![CHOOSE j \in FreeJobs : TRUE] =
                 [session |-> s, state |-> "waiting", left |-> Retries]]

(* refuseWhileAnotherRuns, under the import lock. *)
MayRun(s) == \A t \in Sessions \ {s} : status[t] \notin Running

(* apply: under the lock, on the preview whose answers these are, and on a *)
(* register no import has written to since.                                *)
Apply(s) ==
    /\ status[s] = "MAPPING"
    /\ preview[s] # None
    /\ preview[s].at = "ready"
    /\ MayRun(s)
    /\ preview[s].revision = revision
    /\ status' = [status EXCEPT ![s] = "QUEUED"]
    /\ Enqueue(s)
    /\ UNCHANGED <<file, preview, cursor, created, register, lives, revision,
                   worker>>

-----------------------------------------------------------------------------
At(w, step) == worker[w] # None /\ worker[w].at = step

(* The session's row, held from the claim of the cursor to the commit. *)
RowHeld(s) ==
    \E w \in Workers : worker[w] # None /\ worker[w].session = s
                       /\ worker[w].at \in {"locking", "writing"}

(* stopImport *)
StopImport(s, reason) ==
    /\ ~RowHeld(s)
    /\ status' = IF status[s] \in Running /\ cursor[s] < Len(file[s])
                 THEN [status EXCEPT ![s] = reason] ELSE status

Abandon(s) ==
    /\ status[s] \in Running
    /\ StopImport(s, "apply-abandoned")
    /\ UNCHANGED <<file, preview, cursor, created, register, lives, revision,
                   job, worker>>

(* A job of a run that ended well is completed; one whose queue had given  *)
(* the run up is not the run's any more.                                   *)
Completed(w) == IF worker[w].job = None THEN job
                ELSE [job EXCEPT ![worker[w].job] = None]

(* Variant: the last failed attempt is thrown away. *)
FailedForGood(j) ==
    IF j.left > 0 THEN [j EXCEPT !.state = "waiting", !.left = @ - 1] ELSE None

Failed(j) ==
    IF j.left > 0 THEN [j EXCEPT !.state = "waiting", !.left = @ - 1]
    ELSE [j EXCEPT !.state = "abandoned"]

Ends(w) ==
    /\ worker' = [worker EXCEPT ![w] = None]
    /\ job' = Completed(w)

Goes(w, step) == worker' = [worker EXCEPT ![w].at = step]

Fresh(j, s) == [job |-> j, session |-> s, at |-> "reading", cursor |-> 0,
                created |-> NoRow, plan |-> None]

IdleWorkers == {w \in Workers : worker[w] = None}

Starts(w, j) ==
    /\ IdleWorkers # {}
    /\ w = CHOOSE v \in IdleWorkers : TRUE
    /\ job[j] # None
    /\ job[j].state = "waiting"
    /\ job' = [job EXCEPT ![j].state = "active"]
    /\ worker' = [worker EXCEPT ![w] = Fresh(j, job[j].session)]
    /\ UNCHANGED <<file, session, register, lives, revision>>

(* applyNextChunk: the session as it stands. *)
Reads(w) ==
    LET s == worker[w].session
    IN  /\ At(w, "reading")
        /\ IF status[s] \in Running
           THEN /\ worker' = [worker EXCEPT
                     ![w].at = IF status[s] = "QUEUED" THEN "starting" ELSE "planning",
                     ![w].cursor = cursor[s],
                     ![w].created = created[s]]
                /\ UNCHANGED job
           ELSE Ends(w)
        /\ UNCHANGED <<file, session, register, lives, revision>>

(* A queued session is started by one worker. *)
Begins(w) ==
    LET s == worker[w].session
    IN  /\ At(w, "starting")
        /\ IF status[s] = "QUEUED"
           THEN /\ status' = [status EXCEPT ![s] = "APPLYING"]
                /\ Goes(w, "planning")
                /\ UNCHANGED job
           ELSE Ends(w) /\ UNCHANGED status
        /\ UNCHANGED <<file, preview, cursor, created, register, lives, revision>>

Window(w) == worker[w].cursor + 1
PlanNow(w) ==
    LET s == worker[w].session
    IN  Plan(file[s], worker[w].cursor, Window(w), preview[s].decisions)[Window(w)]

(* Variant: where the row goes is not compared with what was shown. *)
Unfit(w, planned) ==
    ~Fits(planned, preview[worker[w].session].decisions[Window(w)])

(* What an apply is stopped for before it writes. *)
Refused(w, planned) ==
    LET shown == preview[worker[w].session]
    IN  \/ ~Fits(planned, shown.decisions[Window(w)])
        \/ Retargeted(shown, Window(w), planned, worker[w].created)

Plans(w) ==
    /\ At(w, "planning")
    /\ LET planned == PlanNow(w)
           stale == \/ Refused(w, planned)
                    \/ Changed(preview[worker[w].session], Window(w), planned,
                               worker[w].created)
       IN  worker' = [worker EXCEPT ![w].plan = planned,
                        ![w].at = IF stale THEN "stopping" ELSE "claiming"]
    /\ UNCHANGED <<file, session, register, lives, revision, job>>

(* Variants: the claim asks for the cursor only, or for the status only. *)
CursorIsHere(w) == cursor[worker[w].session] = worker[w].cursor
StillApplying(w) == status[worker[w].session] = "APPLYING"

(* The conditional update of the cursor, and the transaction begun. *)
MayClaim(w) ==
    /\ status[worker[w].session] = "APPLYING"
    /\ cursor[worker[w].session] = worker[w].cursor

Claims(w) ==
    /\ At(w, "claiming")
    /\ ~RowHeld(worker[w].session)
    /\ IF MayClaim(w) THEN Goes(w, "locking") /\ UNCHANGED job ELSE Ends(w)
    /\ UNCHANGED <<file, session, register, lives, revision>>

(* askedAgain and reachedOtherwise. *)
ReachedOtherwise(planned, locked, decision) ==
    /\ \/ planned.outcome = "create"
       \/ planned.outcome = "ambiguous" /\ decision # "skip"
       \/ planned.outcome = "update" /\ planned.person = None
    /\ planned # locked

(* Variant: what was planned before the locks is written. *)
LocksOnly(w) ==
    /\ At(w, "locking")
    /\ Goes(w, "writing")
    /\ UNCHANGED <<file, session, register, lives, revision, job>>

(* The addresses' locks and the persons', and the plan again under them.   *)
Locks(w) ==
    LET planned == PlanNow(w)
        decision == preview[worker[w].session].decisions[Window(w)]
        stale == ReachedOtherwise(worker[w].plan, planned, decision)
                 \/ Refused(w, planned)
    IN  /\ At(w, "locking")
        /\ worker' = [worker EXCEPT ![w].plan = planned,
                        ![w].at = IF stale THEN "stopping" ELSE "writing"]
        /\ UNCHANGED <<file, session, register, lives, revision, job>>

NewPerson == CHOOSE p \in Newcomers : register[p] = None

(* resolveTarget: whom the window's row is written to, if it is. *)
WrittenTo(w) ==
    LET planned == worker[w].plan
        decision == preview[worker[w].session].decisions[Window(w)]
    IN  IF Asks(planned, decision) THEN None
        ELSE IF Enters(planned, decision) THEN NewPerson
        ELSE IF planned.outcome = "ambiguous" THEN decision
        ELSE planned.person

(* write and the commit: the row, the cursor, and the end with the last.   *)
Writes(w) ==
    LET s == worker[w].session
        i == Window(w)
        p == WrittenTo(w)
        new == p # None /\ register[p] = None
    IN  /\ At(w, "writing")
        /\ \E q \in Newcomers : register[q] = None
        /\ register' = IF new THEN [register EXCEPT ![p] = file[s][i]] ELSE register
        /\ created' = IF new THEN [created EXCEPT ![s][i] = p] ELSE created
        /\ lives' = IF p = None THEN lives ELSE lives \union {<<s, i, p>>}
        /\ revision' = IF p = None THEN revision ELSE revision + 1
        /\ cursor' = [cursor EXCEPT ![s] = i]
        /\ IF i >= Len(file[s])
           THEN status' = [status EXCEPT ![s] = "APPLIED"] /\ Ends(w)
           ELSE /\ worker' = [worker EXCEPT ![w] = Fresh(@.job, s)]
                /\ UNCHANGED <<status, job>>
        /\ UNCHANGED <<file, preview>>

(* runApply: a refusal is recorded, once the chunk's transaction is gone.  *)
Stops(w) ==
    /\ At(w, "stopping")
    /\ StopImport(worker[w].session, "register-changed")
    /\ Ends(w)
    /\ UNCHANGED <<file, preview, cursor, created, register, lives, revision>>

(* A statement fails and the chunk rolls back. *)
Fails(w) ==
    /\ worker[w] # None
    /\ worker' = [worker EXCEPT ![w] = None]
    /\ job' = IF worker[w].job = None THEN job
              ELSE [job EXCEPT ![worker[w].job] = Failed(@)]
    /\ UNCHANGED <<file, session, register, lives, revision>>

Dies(w) ==
    /\ worker[w] # None
    /\ worker' = [worker EXCEPT ![w] = None]
    /\ UNCHANGED <<file, session, register, lives, revision, job>>

(* The queue takes the worker for dead, whether it is or not. *)
Expires(j) ==
    /\ job[j] # None
    /\ job[j].state = "active"
    /\ job' = [job EXCEPT ![j] = Failed(@)]
    /\ worker' = [w \in Workers |->
                    IF worker[w] # None /\ worker[w].job = j
                    THEN [worker[w] EXCEPT !.job = None] ELSE worker[w]]
    /\ UNCHANGED <<file, session, register, lives, revision>>

(* resumeInterruptedApplies, as a process comes up. *)
Resumes(s) ==
    /\ status[s] \in Running
    /\ Enqueue(s)
    /\ UNCHANGED <<file, session, register, lives, revision, worker>>

(* recordRetriesSpent, the dead letter's handler, tried until it is done.  *)
RecordsRetriesSpent(j) ==
    /\ job[j] # None
    /\ job[j].state = "abandoned"
    /\ StopImport(job[j].session, "apply-interrupted")
    /\ job' = [job EXCEPT ![j] = None]
    /\ UNCHANGED <<file, preview, cursor, created, register, lives, revision,
                   worker>>

-----------------------------------------------------------------------------
(* A chunk that holds its locks: none for a row the board left out. *)
Holds(w) ==
    /\ At(w, "writing")
    /\ ~Asks(worker[w].plan, preview[worker[w].session].decisions[Window(w)])

EmailHeld(email) ==
    \E w \in Workers : Holds(w) /\ file[worker[w].session][Window(w)].email = email

PersonHeld(p) ==
    \E w \in Workers :
        Holds(w) /\ (p = worker[w].plan.person \/ p \in worker[w].plan.candidates)

(* person.service.ts create, under the address's lock. *)
Add(p, email, name) ==
    /\ p \in Neighbours
    /\ register[p] = None
    /\ ~EmailHeld(email)
    /\ register' = [register EXCEPT ![p] = [email |-> email, name |-> name]]
    /\ UNCHANGED <<file, session, lives, revision, job, worker>>

(* purge.service.ts: the contact details go, under the person's lock. *)
Erase(p) ==
    /\ register[p] # None
    /\ register[p].email # None
    /\ ~PersonHeld(p)
    /\ register' = [register EXCEPT ![p].email = None]
    /\ UNCHANGED <<file, session, lives, revision, job, worker>>

-----------------------------------------------------------------------------
Works(w) ==
    Reads(w) \/ Begins(w) \/ Plans(w) \/ Claims(w) \/ Locks(w) \/ Writes(w) \/ Stops(w)

Next ==
    \/ \E s \in Sessions : PreviewStarts(s) \/ PreviewReady(s) \/ PreviewStops(s)
                           \/ Apply(s) \/ Abandon(s) \/ Resumes(s)
    \/ \E w \in Workers : \/ \E j \in Jobs : Starts(w, j)
                          \/ Works(w) \/ Fails(w) \/ Dies(w)
    \/ \E j \in Jobs : Expires(j) \/ RecordsRetriesSpent(j)
    \/ \E p \in Persons : \/ \E e \in Emails, n \in Names : Add(p, e, n)
                          \/ Erase(p)

Spec == Init /\ [][Next]_vars

(* The queue starts what waits, a worker goes on, a dead worker's job      *)
(* expires and the last failure is recorded; and processes are started     *)
(* again at times, which an import whose job was lost waits for: the job   *)
(* ends with a worker that met another, and the other fails after it.      *)
Fairness ==
    /\ WF_vars(\E w \in Workers, j \in Jobs : Starts(w, j))
    /\ \A w \in Workers : WF_vars(Works(w))
    /\ \A j \in Jobs : WF_vars(Expires(j)) /\ WF_vars(RecordsRetriesSpent(j))
    /\ \A s \in Sessions : WF_vars(Resumes(s))

FairSpec == Spec /\ Fairness

-----------------------------------------------------------------------------
Before(s) == {created[s][j] : j \in Rows}

(* The apply's checks under its locks: the import enters a new person only *)
(* where nobody in the register has the row's address, or where the board  *)
(* was shown exactly those who have it and said so.                        *)
NobodyIsEnteredTwice ==
    [][\A s \in Sessions, i \in Rows, p \in Newcomers :
        <<s, i, p>> \in lives' \ lives /\ register[p] = None =>
            LET holders == Holders(file[s][i].email)
            IN  \/ holders = {}
                \/ /\ preview[s].decisions[i] = "create"
                   /\ holders \ Before(s) = preview[s].listed[i]]_vars

(* retargetedSincePreview: a row is written to the person the board saw it *)
(* written to, who still has its address, whatever was added and erased    *)
(* between the preview and the commit.                                     *)
RowsGoWhereShown ==
    [][\A s \in Sessions, i \in Rows, p \in Persons :
        <<s, i, p>> \in lives' \ lives /\ register[p] # None =>
            LET target == preview[s].targets[i]
            IN  /\ register[p].email = file[s][i].email
                /\ \/ target = <<"person", p>>
                   \/ \E j \in Rows : target = <<"row", j>> /\ created[s][j] = p
                   \/ target = <<"ambiguous">> /\ preview[s].decisions[i] = p]_vars

(* The cursor: the rows before it are written, each to one person, but for *)
(* those the board left out, and none behind it; an import is applied when *)
(* all are; and one import runs at a time.                                 *)
RowsAreWrittenOnce ==
    /\ \A s \in Sessions, i \in Rows :
          LET to == {p \in Persons : <<s, i, p>> \in lives}
          IN  IF i <= cursor[s] /\ preview[s].decisions[i] # "skip"
              THEN Cardinality(to) = 1 ELSE to = {}
    /\ \A s \in Sessions :
          status[s] = "APPLIED" <=> file[s] # <<>> /\ cursor[s] = Len(file[s])
    /\ \A s, t \in Sessions :
          status[s] \in Running /\ status[t] \in Running => s = t

(* abandon: "After this returns, the abandoned session writes nothing      *)
(* more", nor does any import that ended.                                  *)
EndedWritesNothing ==
    [][\A s \in Sessions :
        status[s] \in Failures \union {"APPLIED"} =>
            /\ status'[s] = status[s]
            /\ {x \in lives' : x[1] = s} = {x \in lives : x[1] = s}]_vars

(* One import runs at a time, so one that never ended would keep every     *)
(* other out: again and again none runs, each applied or recorded as       *)
(* failed, whichever jobs failed, expired, died or met another.            *)
EveryImportEnds == []<>(\A s \in Sessions : status[s] \notin Running)

(* "Two workers on one session ... block on the same row and only one      *)
(* commits. The other finds the cursor moved and stops": in a register     *)
(* that holds nobody but whom the import entered, and nobody of those      *)
(* erased, no import is stopped for a register that changed.               *)
TheOtherFindsTheCursorMoved ==
    (\A p \in Persons : register[p] # None =>
        p \in Newcomers /\ register[p].email # None)
    => \A s \in Sessions : status[s] # "register-changed"
=============================================================================
