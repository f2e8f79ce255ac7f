---------------------------- MODULE NewsDelivery ----------------------------
(***************************************************************************)
(* One news item and its mailings: the board's publish and take-down       *)
(* (news/news-write.service.ts), the ledger of copies, and the workers     *)
(* that hand each copy over (news/news-mailer.service.ts for e-mail and    *)
(* news/news-sms.service.ts for text messages, one code in two channels).  *)
(*                                                                         *)
(* A publish is one transaction under the item's row lock.  A worker's run *)
(* takes one step per statement.  The queue (jobs/job-queue.service.ts     *)
(* over pg-boss) may start a job again while an earlier run of it is still *)
(* at work, and a run may end anywhere.  Visibility and the words of the   *)
(* item are left out: no step of a mailing depends on them.                *)
(***************************************************************************)
EXTENDS Naturals, FiniteSets

CONSTANTS
    Persons,        \* members with an address in every channel
    Channels,       \* NewsDeliveryChannel
    Email,          \* the one channel a scheduled publish may send in
    Runs,           \* runs of the workers at once
    Slots,          \* bound: jobs of one channel at once
    Retries,        \* retryLimit of MAILING_JOB_OPTIONS
    None

ASSUME ChannelAssumption == Email \in Channels
ASSUME RetryAssumption == Retries \in Nat

VARIABLES
    item,           \* the news row, or None when it was removed
    row,            \* the news_delivery table, one row per copy
    job,            \* the jobs on the two queues of each channel
    run,            \* what each worker is doing
    objects,        \* persons whose objection or restriction stands
    erased,         \* persons who are gone from the register
    taken,          \* how often a mail server took each copy
    overtaken       \* copies claimed while an objection stood that still does

people == <<objects, erased>>
vars == <<item, row, job, run, people, taken, overtaken>>

Copies == Channels \X Persons
Jobs == Channels \X Slots

(* A FAILED row is told by its code (news/news-delivery.ts). *)
Failures == {"recipient-objected", "recipient-gone", "send-failed",
             "mailing-interrupted"}
Status == {"absent", "PENDING", "SENT", "deleted"} \union Failures

(* up: published; first: publishedAt is set; mailed: the channels whose    *)
(* queuedAt column is set; byApp: a connected app's action put it up.      *)
Item == [up : BOOLEAN, first : BOOLEAN, mailed : SUBSET Channels,
         byApp : BOOLEAN]

Job == [state : {"waiting", "active", "abandoned"}, left : 0..Retries]

(* A run outlives its job when the queue took it for dead. *)
Run == [job : Jobs \union {None}, channel : Channels, todo : SUBSET Persons,
        to : Persons \union {None}, why : Failures \union {None},
        at : {"reading", "listing", "next", "refusing", "claiming", "asking",
              "withdrawing", "addressing", "sending", "failing"}]

ASSUME NoneAssumption == None \notin Item \union Job \union Run

TypeOK ==
    /\ item \in Item \union {None}
    /\ row \in [Copies -> Status]
    /\ job \in [Jobs -> Job \union {None}]
    /\ run \in [Runs -> Run \union {None}]
    /\ objects \in SUBSET Persons
    /\ erased \in SUBSET Persons
    /\ taken \in [Copies -> Nat]
    /\ overtaken \in SUBSET Copies

Init ==
    /\ item = [up |-> FALSE, first |-> FALSE, mailed |-> {}, byApp |-> FALSE]
    /\ row = [c \in Copies |-> "absent"]
    /\ job = [k \in Jobs |-> None]
    /\ run = [r \in Runs |-> None]
    /\ objects = {}
    /\ erased = {}
    /\ taken = [c \in Copies |-> 0]
    /\ overtaken = {}

-----------------------------------------------------------------------------
(* The channels a publish claims, and those whose waiting rows it has to   *)
(* queue again because the item was down.                                  *)
Sends(up, send) == IF up THEN send \ item.mailed ELSE {}

Waiting(ch) == {p \in Persons : row[<<ch, p>>] = "PENDING"}

(* Variant: a job is queued when a mailing is claimed, and never again. *)
ResumesNothing(up) == {}

Resumes(up) ==
    IF up /\ ~item.up THEN {ch \in item.mailed : Waiting(ch) # {}} ELSE {}

(* recipientsWhere: who a mailing is written down for. *)
Recipients == Persons \ (objects \union erased)

FreeSlots(ch) == {s \in Slots : job[<<ch, s>>] = None}
NextSlot(ch) == CHOOSE s \in FreeSlots(ch) : TRUE

(* enqueueInTransaction, for each of the channels. *)
Enqueue(channels) ==
    /\ \A ch \in channels : FreeSlots(ch) # {}
    /\ job' = [k \in Jobs |->
                 IF k[1] \in channels /\ k[2] = NextSlot(k[1])
                 THEN [state |-> "waiting", left |-> Retries] ELSE job[k]]

(* Variant: an action asks for no mailing of its own, and that is all. *)
MayPublishAnything(by, up, send) ==
    by = "app" /\ up => send = {}

(* refuseResumedMailing: an action may publish, and may not mail anybody. *)
MayPublish(by, up, send) ==
    by = "app" => send = {} /\ Resumes(up) = {}

(* publishLocked, for the news screen, a connected app's action and the    *)
(* scheduled job, which asks that the item was never up.  A publish that   *)
(* changes nothing writes nothing and is no step.                          *)
Publish(by, up, send) ==
    LET claimed == Sends(up, send)
    IN  /\ item # None
        /\ by = "schedule" => ~item.first /\ up /\ send \subseteq {Email}
        /\ up # item.up \/ claimed # {}
        /\ MayPublish(by, up, send)
        /\ item' = [item EXCEPT !.up = up, !.first = @ \/ up,
                                !.mailed = @ \union claimed,
                                !.byApp = up /\ by = "app"]
        /\ row' = [c \in Copies |->
                     IF c[1] \in claimed /\ c[2] \in Recipients
                     THEN "PENDING" ELSE row[c]]
        /\ Enqueue(claimed \union Resumes(up))
        /\ UNCHANGED <<run, people, taken, overtaken>>

(* remove, and cancelScheduledForFeed for an item that was never up: the   *)
(* ledger goes with the row.                                               *)
Remove ==
    /\ item # None
    /\ item' = None
    /\ row' = [c \in Copies |-> IF row[c] = "absent" THEN "absent"
                                ELSE "deleted"]
    /\ UNCHANGED <<job, run, people, taken, overtaken>>

-----------------------------------------------------------------------------
(* data-subject-request.service.ts: an objection or a restriction granted, *)
(* and closed again; and a person erased, whose ledger rows stay.          *)
Object(p) ==
    /\ p \notin objects \union erased
    /\ objects' = objects \union {p}
    /\ UNCHANGED <<item, row, job, run, erased, taken, overtaken>>

Withdraw(p) ==
    /\ p \in objects
    /\ objects' = objects \ {p}
    /\ overtaken' = {c \in overtaken : c[2] # p}
    /\ UNCHANGED <<item, row, job, run, erased, taken>>

(* objectionStands reads no row for a person who is gone. *)
Erase(p) ==
    /\ p \notin erased
    /\ erased' = erased \union {p}
    /\ objects' = objects \ {p}
    /\ UNCHANGED <<item, row, job, run, taken, overtaken>>

-----------------------------------------------------------------------------
At(r, step) == run[r] # None /\ run[r].at = step
Copy(r) == <<run[r].channel, run[r].to>>

Proceed(r, step) == run' = [run EXCEPT ![r].at = step]
GoesOn(r) == run' = [run EXCEPT ![r].at = "next", ![r].to = None, ![r].why = None]
Ends(r) == run' = [run EXCEPT ![r] = None]

(* The job of a run that ended well is completed; one whose queue had      *)
(* given the run up is not the run's any more.                             *)
Completed(r) == IF run[r].job = None THEN job
                ELSE [job EXCEPT ![run[r].job] = None]

(* Variant: the last failed attempt is thrown away. *)
FailedForGood(j) ==
    IF j.left > 0 THEN [state |-> "waiting", left |-> j.left - 1] ELSE None

(* A failed attempt waits for the next one, and the last one is handed to  *)
(* the dead-letter queue.                                                  *)
Failed(j) == IF j.left > 0 THEN [state |-> "waiting", left |-> j.left - 1]
             ELSE [state |-> "abandoned", left |-> 0]

Fails(r) ==
    /\ Ends(r)
    /\ job' = IF run[r].job = None THEN job
              ELSE [job EXCEPT ![run[r].job] = Failed(@)]

IdleRuns == {r \in Runs : run[r] = None}

(* Workers are alike: a job is taken by the next one that is idle. *)
RunStarts(r, k) ==
    /\ IdleRuns # {}
    /\ r = CHOOSE w \in IdleRuns : TRUE
    /\ job[k] # None
    /\ job[k].state = "waiting"
    /\ job' = [job EXCEPT ![k].state = "active"]
    /\ run' = [run EXCEPT ![r] = [job |-> k, channel |-> k[1], todo |-> {},
                                 to |-> None, why |-> None,
                                 at |-> "reading"]]
    /\ UNCHANGED <<item, row, people, taken, overtaken>>

(* runMailing: an item that is down or gone is left, with its rows. *)
ReadsItem(r) ==
    /\ At(r, "reading")
    /\ IF item # None /\ item.up /\ run[r].channel \in item.mailed
       THEN Proceed(r, "listing") /\ UNCHANGED job
       ELSE Ends(r) /\ job' = Completed(r)
    /\ UNCHANGED <<item, row, people, taken, overtaken>>

Lists(r) ==
    /\ At(r, "listing")
    /\ run' = [run EXCEPT ![r].at = "next", ![r].todo = Waiting(run[r].channel)]
    /\ UNCHANGED <<item, row, job, people, taken, overtaken>>

(* deliver, first ask. *)
Takes(r, p) ==
    /\ At(r, "next")
    /\ p \in run[r].todo
    /\ run' = [run EXCEPT ![r].todo = @ \ {p}, ![r].to = p,
                          ![r].at = IF p \in objects THEN "refusing"
                                    ELSE "claiming"]
    /\ UNCHANGED <<item, row, job, people, taken, overtaken>>

Finishes(r) ==
    /\ At(r, "next")
    /\ run[r].todo = {}
    /\ Ends(r)
    /\ job' = Completed(r)
    /\ UNCHANGED <<item, row, people, taken, overtaken>>

Refuses(r) ==
    /\ At(r, "refusing")
    /\ row' = IF row[Copy(r)] = "PENDING"
              THEN [row EXCEPT ![Copy(r)] = "recipient-objected"] ELSE row
    /\ GoesOn(r)
    /\ UNCHANGED <<item, job, people, taken, overtaken>>

(* Variant: whatever was listed is claimed. *)
ClaimsListed(r) ==
    /\ At(r, "claiming")
    /\ row' = [row EXCEPT ![Copy(r)] = "SENT"]
    /\ overtaken' = IF run[r].to \in objects
                    THEN overtaken \union {Copy(r)} ELSE overtaken
    /\ Proceed(r, "asking")
    /\ UNCHANGED <<item, job, people, taken>>

Claimed(r) ==
    /\ row[Copy(r)] = "PENDING"
    /\ row' = [row EXCEPT ![Copy(r)] = "SENT"]
    /\ overtaken' = IF run[r].to \in objects
                    THEN overtaken \union {Copy(r)} ELSE overtaken

Claims(r) ==
    /\ At(r, "claiming")
    /\ Claimed(r)
    /\ Proceed(r, "asking")
    /\ UNCHANGED <<item, job, people, taken>>

(* The claim landed and its answer did not: the copy is nobody's. *)
ClaimAnswerLost(r) ==
    /\ At(r, "claiming")
    /\ Claimed(r)
    /\ Fails(r)
    /\ UNCHANGED <<item, people, taken>>

Skips(r) ==
    /\ At(r, "claiming")
    /\ row[Copy(r)] # "PENDING"
    /\ GoesOn(r)
    /\ UNCHANGED <<item, row, job, people, taken, overtaken>>

(* Variant: an objection is asked for once. *)
AsksOnce(r) ==
    /\ At(r, "asking")
    /\ Proceed(r, "addressing")
    /\ UNCHANGED <<item, row, job, people, taken, overtaken>>

(* deliver, second ask, with the row held. *)
AsksAgain(r) ==
    /\ At(r, "asking")
    /\ Proceed(r, IF run[r].to \in objects THEN "withdrawing"
                  ELSE "addressing")
    /\ UNCHANGED <<item, row, job, people, taken, overtaken>>

Withdraws(r) ==
    /\ At(r, "withdrawing")
    /\ row' = IF row[Copy(r)] = "SENT"
              THEN [row EXCEPT ![Copy(r)] = "recipient-objected"] ELSE row
    /\ GoesOn(r)
    /\ UNCHANGED <<item, job, people, taken, overtaken>>

Addresses(r) ==
    /\ At(r, "addressing")
    /\ IF run[r].to \in erased
       THEN run' = [run EXCEPT ![r].at = "failing", ![r].why = "recipient-gone"]
       ELSE Proceed(r, "sending")
    /\ UNCHANGED <<item, row, job, people, taken, overtaken>>

(* mail.send: the server takes the copy and says so, takes it and does not *)
(* say so, or does not take it.                                            *)
Sent(r) ==
    /\ At(r, "sending")
    /\ taken' = [taken EXCEPT ![Copy(r)] = @ + 1]
    /\ \/ GoesOn(r)
       \/ run' = [run EXCEPT ![r].at = "failing", ![r].why = "send-failed"]
    /\ UNCHANGED <<item, row, job, people, overtaken>>

SendFails(r) ==
    /\ At(r, "sending")
    /\ run' = [run EXCEPT ![r].at = "failing", ![r].why = "send-failed"]
    /\ UNCHANGED <<item, row, job, people, taken, overtaken>>

(* fail: the update by id, which throws when the row went with its item. *)
Notes(r) ==
    /\ At(r, "failing")
    /\ IF row[Copy(r)] = "deleted"
       THEN Fails(r) /\ UNCHANGED row
       ELSE /\ row' = [row EXCEPT ![Copy(r)] = run[r].why]
            /\ GoesOn(r)
            /\ UNCHANGED job
    /\ UNCHANGED <<item, people, taken, overtaken>>

(* A statement fails, or its answer is lost, between two others. *)
RunFails(r) ==
    /\ run[r] # None
    /\ Fails(r)
    /\ UNCHANGED <<item, row, people, taken, overtaken>>

(* The process dies: its job is only found out about by Expires. *)
Dies(r) ==
    /\ run[r] # None
    /\ Ends(r)
    /\ UNCHANGED <<item, row, job, people, taken, overtaken>>

-----------------------------------------------------------------------------
(* expireInSeconds: the queue takes a run for dead, which may be at work.  *)
Expires(k) ==
    /\ job[k] # None
    /\ job[k].state = "active"
    /\ job' = [job EXCEPT ![k] = Failed(@)]
    /\ run' = [r \in Runs |->
                 IF run[r] # None /\ run[r].job = k
                 THEN [run[r] EXCEPT !.job = None] ELSE run[r]]
    /\ UNCHANGED <<item, row, people, taken, overtaken>>

(* Variant: gives up on every copy of the channel. *)
AbandonsAll(k) ==
    /\ job[k] # None
    /\ job[k].state = "abandoned"
    /\ row' = [c \in Copies |->
                 IF c[1] = k[1] /\ row[c] \in {"PENDING", "SENT"}
                 THEN "mailing-interrupted" ELSE row[c]]
    /\ job' = [job EXCEPT ![k] = None]
    /\ UNCHANGED <<item, run, people, taken, overtaken>>

(* recordAbandoned, on the dead-letter queue. *)
RecordsAbandoned(k) ==
    /\ job[k] # None
    /\ job[k].state = "abandoned"
    /\ row' = [c \in Copies |->
                 IF c[1] = k[1] /\ row[c] = "PENDING"
                 THEN "mailing-interrupted" ELSE row[c]]
    /\ job' = [job EXCEPT ![k] = None]
    /\ UNCHANGED <<item, run, people, taken, overtaken>>

-----------------------------------------------------------------------------
Works(r) ==
    \/ ReadsItem(r) \/ Lists(r) \/ Finishes(r)
    \/ \E p \in Persons : Takes(r, p)
    \/ Refuses(r) \/ Claims(r) \/ Skips(r)
    \/ AsksAgain(r) \/ Withdraws(r) \/ Addresses(r)
    \/ Sent(r) \/ SendFails(r) \/ Notes(r)

Next ==
    \/ \E by \in {"board", "app", "schedule"}, up \in BOOLEAN,
          send \in SUBSET Channels : Publish(by, up, send)
    \/ Remove
    \/ \E p \in Persons : Object(p) \/ Withdraw(p) \/ Erase(p)
    \/ \E r \in Runs : \/ \E k \in Jobs : RunStarts(r, k)
                      \/ Works(r) \/ ClaimAnswerLost(r)
                      \/ RunFails(r) \/ Dies(r)
    \/ \E k \in Jobs : Expires(k) \/ RecordsAbandoned(k)

Spec == Init /\ [][Next]_vars

(* A worker that is up goes on, the queue hands out what waits and finds   *)
(* out what died, and the dead-letter job is run; nobody has to publish.   *)
Fairness ==
    /\ \A r \in Runs : WF_vars(Works(r))
    /\ \A k \in Jobs : /\ WF_vars(Expires(k)) /\ WF_vars(RecordsAbandoned(k))
                       /\ WF_vars(\E r \in Runs : RunStarts(r, k))

FairSpec == Spec /\ Fairness

-----------------------------------------------------------------------------
(* deliver: a copy claimed while the member's objection stood is not sent, *)
(* although the claim passed the objection by.                             *)
ObjectionStops == \A c \in overtaken : taken[c] = 0

(* The board's delivery report: a copy reported as objected to, as gone or *)
(* as interrupted was handed to nobody, whatever run was at work on it.    *)
ReportIsTrue ==
    \A c \in Copies :
        row[c] \in {"PENDING", "recipient-objected", "recipient-gone",
                    "mailing-interrupted"} => taken[c] = 0

(* publishLocked (resume): while the item is up a waiting copy has a job   *)
(* that will come to it, however often the item was taken down.            *)
NoCopyIsStranded ==
    \A c \in Copies :
        row[c] = "PENDING" /\ item # None /\ item.up
            => \E s \in Slots : job[<<c[1], s>>] # None

(* refuseResumedMailing: an item a connected app put up has nobody left to *)
(* be mailed, also after the board took it down half-way.                  *)
AppsMailNobody ==
    item # None /\ item.byApp
        => \A c \in Copies : row[c] # "PENDING"

(* Every copy of an item that stays up is settled in the end. *)
EveryCopySettles ==
    <>[](item # None /\ item.up) =>
        \A c \in Copies : row[c] = "PENDING" ~> row[c] # "PENDING"

-----------------------------------------------------------------------------
(* A copy as a held call: the claim gives the permit, the server takes it. *)
phaseBar == [c \in Copies |->
    CASE row[c] = "absent" -> "absent" [] row[c] = "PENDING" -> "open"
      [] row[c] = "SENT" -> "taken" [] OTHER -> "over"]

permitBar == {c \in Copies : \E r \in Runs :
    run[r] # None /\ run[r].at \in {"asking", "addressing", "sending"}
        /\ Copy(r) = c}

Held == INSTANCE HeldCall WITH
    Calls <- Copies, phase <- phaseBar, permit <- permitBar, ran <- taken

(* Each copy is handed over at most once, under its own claim, and a copy  *)
(* that was claimed or given up never waits again.                         *)
HeldCopySpec == Held!Spec
=============================================================================
