# openbrf in TLA+

openbrf is a web application for a Swedish housing cooperative. Its server,
`apps/api`, is a NestJS application of about ninety modules over PostgreSQL; the
browser application in `apps/web` is a view over it. Requests, queued jobs and
plugins run as asynchronous functions in one or more Node processes and meet in
the database, which works at READ COMMITTED. What has to be exclusive is held by
advisory transaction locks, row locks, conditional updates and unique indexes,
always taken by hand. Almost every act also writes an append-only audit entry,
inside its transaction or deliberately outside it.

That is what these modules are about: the acts whose correctness depends on the
order in which requests, jobs, timers, crashes and lost answers meet. Content,
rendering, validation of forms and single-row edits are left out.

## The system

### Parts that hold a protocol

| Part | State | Operations | Meets | What is hard | What makes it correct |
| --- | --- | --- | --- | --- | --- |
| Pending changes | held calls, their claim stamp and expiry; the log | propose, confirm, reject, nightly sweep | the action registry it runs the call through; the purge and legal holds by one lock per person | two confirmations, a confirmation against a rejection or the sweep, an answer lost after the claim, a crash while the action runs | an action runs at most once, a rejected one never, a spent call is never offered again, a withheld person's rows stay, every row goes in the end |
| Bookings | resources, bookings, log | book, cancel, create, update, deactivate | residencies (moves), the person purge, the slot engine | up to three locks per claim; reads made before the locks; the grid re-cut under bookings | no double booking, quotas, bookings on the grid, none after a withdrawal, no wait cycle |
| Slot engine | none | the slots of a day, the period a request names | the association's clock with its two changes a year | hours that are skipped or come twice, caps on stays | slots tile the day, requests are answered exactly for what is offered |
| Register transmission | one claim row per duty, disclosure entries, receipts | send a report; state one by hand | an adapter to Lantmäteriet that may answer late or never | a deadline, a claim that expires, a delete that may come late, a crash anywhere | one report on the wire at a time, disclosure before hand-over, none after a receipt |
| Legal hold and purge | holds; the rows of every domain | place, release, purge one person | all domains | a purge against a hold being placed | nothing of a withheld person is purged |
| Moves and registers | residencies, transfers, the append-only member register | move in, move out, transfer, reconcile, reminder job | bookings, import, purge, the register of votes | a membership spans several residencies, entered in any order of their days; a row once written cannot be taken back | the register reads as a member exactly who holds a tenant-ownership; nobody holds a day twice; a seller holds what is sold |
| Import | a session, its cursor and the board's decisions | preview, apply in chunks, abandon, resume, propose from a plugin | persons, residencies, sign-up, reindex | chunks claimed by two workers, a crash between chunks, a plan made stale by the register, an import abandoned while a chunk commits | each row written once, to whom the preview showed; nobody entered twice; an ended import writes nothing; every import ends |
| Board mailbox | threads, letters, attachments, two ledgers of what failed | collect, answer, close, purge | POP3 and SMTP servers, media | a lost reply to a COMMIT, failures that look like the letter's own, two processes over one letter, a letter that lands on a thread being erased | each letter keeps its file, no file outlives its letters, none is set aside for good by an outage |
| News delivery | one ledger row per recipient and channel | publish, take down, mail, text, give up | job queue, objections | claim before sending; objections recorded meanwhile; an item taken down and put up again under a worker | nobody is written to twice, or after an objection that was seen; the report is true; every copy is settled |
| Events | series, dates, sign-ups | sign up, stand down, edit, call off, put back, publish, remove, purge | residents and board | the last place, a date moved, dropped or called off under a claim | a claim finds a free place on a standing date; nobody's date is moved or removed under them |
| Job queue | queues, schedules, admitted calls | send, work, schedule, delete a plugin's queues | every job | a send admitted before a plugin's removal (`job-queue.service.ts:613`) | no queue outlives its plugin |
| Plugins | an installation tree, its metadata, desired rows | install, remove, boot | the command line in another process | a lease over a shared volume | the tree and its metadata describe one set |
| Media | rows and sealed objects | upload, open, remove | every part with files | a crash between the object and its row | a row never names an object that is gone |

### How they interact

A pending change is confirmed through the action registry, which calls the
handlers of every other part. The purge and the legal holds share one advisory
lock per person with all that deletes a person's rows. Bookings read the
residencies moves writes, without a lock. A register duty is opened by moves,
transfers and terminations, and discharged by an entry on the audit log which
the transmission writes or a board member states. The mailings, the collector,
the sweep and the purges are queue jobs that may run twice or stop half-way.

## Modules

| Module | Contents |
| --- | --- |
| `HeldCall` | abstract: a call that is held is given one permit at a time, and its action runs only under it |
| `PendingChange` | the pending-change queue with the registry's dispatch, the sweep, purge and holds; `HeldCallSpec` is the refinement |
| `PendingChangeProofs` | its theorems, the last that it implements `HeldCall` |
| `SlotEngine` | the calendar and the slot engine as operators |
| `SlotCatalogue` | reference statements about them over every schedule and period of a bounded set |
| `Booking` | bookings, the catalogue, cancellations and the purge as transactions that take their locks step by step |
| `BookingProofs` | that slots lie apart, the theorems of the slot catalogue and of the bookings |
| `RegisterTransmission` | a send of one report, beside statements by hand |
| `RegisterTransmissionProofs` | its four theorems |
| `NewsDelivery` | one news item, its copies, the queue's jobs and the workers; `HeldCopySpec` refines `HeldCall` per copy |
| `NewsDeliveryProofs` | its theorems, the last that it implements `HeldCall` |
| `BoardMailbox` | the collection of the board's mailbox by several processes, beside the purge of its conversations |
| `BoardMailboxProofs` | its three theorems |
| `ImportApply` | imports, their jobs and workers, over a register that changes |
| `ImportApplyProofs` | its theorems |
| `EventSignup` | the places of one event series against the board's writers of it |
| `EventSignupProofs` | its theorems |
| `Membership` | moves, chunks of an import and the reconciliation over the residencies, the transfers and the member register |
| `MembershipProofs` | its six theorems |
| `MC*` | constants for TLC |

A definition whose comment begins with "Variant:" is a slip the code could have
made; no action uses it. It is there to show that the property it breaks depends
on the line it changes.

### PendingChange

`row` is the `pending_change` table, `audit` what the log says of each change,
`req` the confirmations and rejections under way, `sweep` the nightly job with
the batch it read, `withheld` the persons under a legal hold and `effects` how
often a change's action committed its write. A confirmation goes through
`ConfirmLookup`, `CheckRefuses`, `ClaimReadsClock`, then `ClaimTakes`,
`ClaimMisses` or `ClaimAnswerLost` (the update landed and its answer did not),
then `HandlerWrites`, `HandlerRefuses`, `HandlerFails` or `HandlerReturns`, and
`Release` or `End`. `Crash` drops everything in flight. `Requests`, `MaxClock`
and `MaxCrashes` are the bounds.

### SlotEngine and SlotCatalogue

Time is counted in the smallest slot. A zone is one change of the clock: at an
instant, from an offset to another, which covers standing still, jumping ahead
and falling back. `TimeSlots`, `StayEnds` and `PeriodFor` are `timeSlots`,
`rangePeriods` and `periodFor`. `SlotCatalogue` walks every schedule and asks for
every period of three days; its names are its own, so that `BookingProofs` extends it
beside `Booking`.

### Booking

A claim is `book()`: `Ask` reads the clock, the resource and the residency with
no lock; then `LockApartment`, `LockRow` (share lock and a second read),
`LockNights` (stays only), `CountQuotas`, `Insert` (arbitrated by the partial
unique index) and `Commit`. A refusal is a rollback and leaves no trace, so the
action that refuses is the one whose check fails. An edit takes the row for
update and then writes or rolls back. The audit entry is written by the
transaction of the act, so it is part of `Commit` and of `CancelWrites`. The
purge deletes a person's bookings without taking the booking locks.

### RegisterTransmission

One duty. `row` is its claim, `log` the disclosure and rejection entries,
`made` the `REGISTER_REPORT_MADE` entries, `send` the calls of `transmit()`
and `handed` the sends that reached the port. The application's clock and the
database's are one, which is also what `CLAIM_TTL_MS` takes for granted.
`TimerLag` is how late a timer, and the adapter it stops, may be. A claim is
stamped with the time its statement began, which may be earlier than the moment
it is granted. A `Crash` ends every send and leaves the claim. `Release` may
come at any time after the answer, or, with `ReleaseFails`, never.

### NewsDelivery

`item` is the news row, `row` the `news_delivery` ledger, `job` the jobs of each
channel's queue, `run` the workers. `Publish` is `publishLocked` for all three
callers, with the resumption of what an earlier mailing left. A run goes
`RunStarts`, then one step per statement of `deliver`: the first objection, the
claim, the second objection, the address, the hand-over, the note of a failure.
`Expires` is the queue taking a run for dead while it goes on, `RunFails` a
statement that fails, `RecordsAbandoned` the dead-letter job. `taken` counts
hand-overs; `overtaken` holds the copies claimed over a standing objection. One
module stands for e-mail and text messages, whose code is the same.

### BoardMailbox

`message`, `ledger` and `failure` are the three tables, `files` the media
somebody names or holds, `run` a process's collection and `purge` the purge's
transaction. A run reads the mailbox's listing, passes by what it holds, and for
each letter stores, or counts a failure and in the end sets the letter aside.
The COMMIT of a letter may land with its answer lost (then the run asks whether
the letter names the file before it removes it); every statement may fail during
an outage; a process may die anywhere. The windows of hours are three steps of
`retry`: a run of the schedule always falls inside one.

### ImportApply

`status`, `preview`, `cursor` and `created` are columns of `ImportSession`,
`register` the persons and `lives` the residencies written. A worker follows
`applyNextChunk`: `Reads`, `Begins` (QUEUED to APPLYING), `Plans`, `Claims` (the
conditional update of the cursor, which holds the row), `Locks` (the address and
person locks, then the plan a second time), `Writes` (the row and the commit);
`Stops` records a refusal and `Fails` throws to the queue's retry. `Expires`
lets a second worker at the session while the first goes on. A chunk is one row,
and a row is matched by its e-mail address and checked by its name.

### EventSignup

`series`, `date` and `signup` are the three tables, `held` the dates' advisory
locks. A claim takes its date's lock, reads (`ClaimReads`: published, called off,
begun, own row, places) and writes (`Takes`). A writer holds the series' row
(`Free`), takes the locks of the dates it displaces in the order of their ids,
counts who stands on them and writes. A request reads the clock on arrival and
may wait for its locks, so `now` is any instant up to the clock. `Withdraws`,
`Purges`, `Publishes` and `Reinstates` are one statement that decides, without
the date's lock.

### Membership

`residency`, `register` and `transfer` are the three tables, `move` what each
transaction is doing. A move-in (`MoveIn`) and a chunk of an import (`Import`)
read with their keys held, in one step, and write in `Commit`; between the two
the transactions that do not wait for the same keys come and go. A move-out reads
its residency before its transaction (`AskMoveOut`), waits (`LockMoveOut`) and
commits only onto a residency that still has no end. The keys are the persons a
transaction names, the seller and the buyer of its deed among them, and the
apartments it adds residencies to. A register row is stamped with `writes`, the
count of commits, which stands for `createdAt`: a person's rows are written under
that person's key, so their stamps follow the order of the commits.
`Reconcile` is the administrator's reconciliation of one person.

Three loops of the code are stated by what they find: `Owed` is the walk of
`owedMembershipEvents`, `MemberOn` the reading by `membershipPeriods`, and
`Unreconciled` the walk of `reconcileMembership`. `MCMembership` walks each of them
as the code does, row by row, and assumes, so that TLC checks it, that the two
agree on every pair of up to two residencies within three days and every register
of up to three rows.

## What the runs show

| Run | Size | Shows |
| --- | --- | --- |
| `pc_safety` | 120k states | two requests of any of two persons, one change, a crash: `AtMostOnce`, `SpentNeverWaits`, `RejectedNeverRuns`, `HoldKeepsRows`, `HeldCallSpec` and, under fairness, `HeldRowsGo` |
| `slots_offered` | 60k states | `SlotsTileTheDays`, `PeriodsAreOffered`: the slots tile the day, a start names one slot, requests are answered exactly for what is offered |
| `bk_claims` | 1.8M states | two claims and two cancellations with aborts and the purge: `NoDoubleBooking`, `WithinQuotas`, `HeldThroughout`, `LogTellsTheRow` |
| `bk_board` | 2.4M states | two claims, two edits and a move-out: `BookingsAreOnTheGrid`, `NoneMadeAfterWithdrawal`, `NoWaitCycle` |
| `rt_safety` | 7.3M states | two sends and a statement by hand: `ClaimCoversTheWire`, `DisclosedBeforehand`, `NotSentAgain` |
| `nd_mailing` | 330k states | one item, one member, two workers, a retry: `ObjectionStops`, `ReportIsTrue`, `NoCopyIsStranded`, `AppsMailNobody`, `HeldCopySpec`, `EveryCopySettles` |
| `mb_collect` | 420k states | a bad letter in front of a good one with one retrieval a run, a conversation to be erased, and two processes over one letter: `LetterKeepsItsFile`, `NoFileIsLeft`, `EveryLetterIsReceived` |
| `ia_apply` | 920k states | files that list a person or a household twice, or two files the same person; two workers, one retry: `RowsAreWrittenOnce`, `NobodyIsEnteredTwice`, `RowsGoWhereShown`, `EndedWritesNothing`, `EveryImportEnds` |
| `ia_twice` | violated | a second worker takes the import's own new person for a change of the register, and stops the import |
| `ev_signups` | 880k states | two residents, two days of two hours, one place or two, every act of the board: `AClaimTakesAFreePlace`, `NobodyIsMoved`, and no day with two dates |
| `mr_moves` | 760k states | two persons, two apartments, four days, two transactions at once, three residencies: `RegisterTellsMembership`, `NoDayHeldTwice`, `ADeedIsTrue`, `ReconciledOnce` |
| `mr_agrees` | violated | a tenant-ownership that ended on the day it began, and one of another apartment entered for that day afterwards: the register says the membership ended |

Bounds. Two requests, claims or sends are what every hazard above needs to go
wrong: each is about one actor's read and another's write between that read and
its use. A third actor was tried for the claims of `Booking` and changed
nothing. The clocks reach past the last instant any guard compares with: an
expiry and one more tick for pending changes, the expiry of one claim and the
take-over after it for transmissions, the end of the last requested period for
bookings. Residents ask for hours, days and stays that meet pairwise in every
way the index, the overlap read and the quotas tell apart. One retry is enough
for a job to be tried again, to fail for the last time and to meet its earlier
run; one member is enough for a mailing, whose copies share nothing but the item
and the job; two letters with one retrieval a run are the smallest mailbox in
which one letter stands in another's way; two rows are the smallest file in
which a row can depend on an earlier one. In `EventSignup` a date that was
removed keeps its number, so two numbers allow one later date beside an earlier,
and the clock passes the first instant a date can begin at. In `Membership`,
three residencies let a person's tenant-ownerships overlap, bridge a gap and leave
one, four days let a move be dated before, between and after two others, and the
arrivals pass an apartment from one person to the other in both directions. `CHECK_DEADLOCK` is
off where requests and the clock run out. The cancelling persons and the
claims are interchangeable and nothing compares them, so symmetry is used in
runs without liveness.

### Disagreements

Two runs check a sentence of the source and find it not to hold. `ia_twice`:
`import-apply.service.ts:74` says of two workers on one session that "only one
commits. The other finds the cursor moved and stops". `mr_agrees`:
`member-register-reconciliation.ts:22` says that "a register they write agrees with
the residencies", and it does but for a tenant-ownership that ended on the day it
began. `RegisterTellsMembership` is the same sentence with that exception, and is
proved. The reconciliation repairs the days from then on; it cannot repair how
`membershipPeriods` reads two exits in a row, which is why `ReconciledOnce` is
about the memberships that are open and not about `MemberOn`.

Six more sentences are known not to hold and no run repeats them. The sweep of
pending changes decides what its entry says from a row it reads before it deletes
it, so a claim in between is logged as merely expired
(`pending-change-sweep.ts:30`). A day that closes at the hour the clock skips
loses its last slot (`slot-engine.ts:35`). A claim that waited for a lock books a
slot that has begun (`booking.service.ts:390`), and a move-out between the
residency read and the insert does not bite (`booking.service.ts:751`). An entry
stamped earlier that commits later displaces the day a duty is said to be reported
on (`register-transmission.service.ts:498`). A run that began before a letter was
stored and erased makes it one that is tried again
(`board-mailbox-purge.service.ts:413`). The models contain all six behaviours.

### Fairness

Residents, members and the board are never obliged to do anything; what is
obliged is what a process or the queue does by itself.

- `pc_safety`: time passes, and the nightly sweep, which the queue schedules
  again and again, takes its next statement whenever it can (`Tick`, `Sweeping`).
  A request may stop half-way for good with its claim taken, and a hold may stand
  for ever, which is why `HeldRowsGo` allows for one.
- `nd_mailing`: a worker that is up goes on, the queue hands out what waits,
  finds out a run that died, and runs the dead-letter job. Nobody need publish,
  which is why `EveryCopySettles` is about an item that stays up.
- `mb_collect`: the schedule starts a collection every five minutes and a run
  goes on, hours pass, and an outage ends, however long it was. Processes may die
  for good; `EveryLetterIsReceived` is about a mailbox some process collects.
- `ia_apply`: as for the mailing, and an import whose job is gone is queued again
  when a process starts (`Resumes`). That one is needed: a job can be completed by
  a worker that found the cursor moved, while the worker that moved it then fails,
  and the import is left to the next start or to an administrator, as the
  comment of `apply` in `import.service.ts` says. The property is that imports
  end, again and again, not that they end without a restart.

`Booking`, `RegisterTransmission`, `EventSignup` and `Membership` claim no liveness. A send ends
because its deadline does, and the duty is freed by time alone; the waits of
`Booking` are bounded by `NoWaitCycle`, a claim of `EventSignup` holds one lock, and
the order of a move's own locks is not in `Membership`.

## What is proved

`PendingChangeProofs`, for every number of changes, persons, requests, crashes,
every lifetime and batch size: `TypeCorrect`, `RunsAtMostOnce`,
`CarriedOutNeverWaits`, `RejectedStaysRejected`, `WithheldRowsStay`. The
inductive invariant adds an *owner* to the properties. `AtMostOnce` alone is not
inductive, because it does not say why a second confirmation cannot be running;
`Ownership` does: a change has at most one owning confirmation, its row carries
that owner's stamp while it is there, nothing was written before the owner's
handler writes, and a rejected or unproposed change has neither row nor owner.
`BatchIsOnePersons` ties what a sweep has read to a person who is not withheld
while the batch's transaction runs, which is what the last theorem needs.
Assumed: the named assumptions of `PendingChange` on its constants.

`QueueHoldsCalls`, in the same module: that `PendingChange` implements
`HeldCall`. It uses the same invariant where the abstract queue asks for it: a
release reopens a call only if its owner had no second (`OneOwner`) and nothing was
written (`OwnedUnwritten`), and a row that goes closes a call, and does not make it
one never proposed, because its first entry is there (`ProposedFirst`,
`BatchIsOnePersons`). Each step of the queue has a lemma that names the abstract
step it is, or shows that it is none.

`RegisterTransmissionProofs`, for every number of sends and statements and
every deadline, expiry and lag with `Deadline + TimerLag < Ttl`: `TypeCorrect`,
`WireUnderClaim`, `HandedOverIsDisclosed`, `SentOnce`. The invariant speaks of
each send by itself (`Safe`). Its core is `HeldUntilCovered`: a send that took
the claim has it, unexpired, for a whole `Ttl` from when its deadline began to
run, because the deadline runs before the claim is asked for (`DeadlineRuns`)
and because a take-over needs an expired claim and a delete its own token.
`StoppedInTime` says that a report is on the wire no later than the deadline
and the lag, and the assumption puts that before the end of the claim.
`NoReceiptMissed` follows in the same way: while a send that found no receipt is
covered, no other send's receipt can be recorded under a claim, since there is
one claim.

`MembershipProofs`, for every number of persons, apartments, days, residencies and
transactions under way: `TypeCorrect`, `RegisterTells`, `ExitsHaveMoveOuts`,
`NoDayTwice`, `DeedsAreTrue`, `ReconcilesOnce`. That the register reads as it should is not
inductive: how it reads depends on the last row of each day, and the next change
on all of them. Its first half is therefore about one person's rows and
residencies as sets. They are *in step* (`InStep`) when on every day the row
written last tells what is held (`DaysAreSettled`), when every change of what is
held has a row (`ChangesAreWritten`), and when two exits of one day have an entry
between them (`ExitsAreApart`); they are *dated* (`Dated`) when every row lies on
the first or last day of a residency and every exit on a last. `ChangeIsTold` shows that
what `owedMembershipEvents` adds keeps a register in step when residencies are added
or an open one is ended, and `InStepReadsAsHeld` that a register in step reads as
it should, by the last row up to the day. Both need that no residency ends on the
day it begins, which is where the code needs it too. `ReconcilesOnce` does not: it
takes the register as it stands, dated but perhaps out of step, and shows
(`Mended`) that once the walk has written, the last row of a day that has one is new
or was read so before (`LastIsTrue`), and that on a day with none nothing changes
(`NothingUnwritten`). The second half is the
transactions: what one under way has read stays true (`Proper`), because any two of
them have their keys apart (`MovesAreApart`), so each commit is a change of the
first half's kind. Assumed: the named assumptions of `Membership` on its constants,
that days are numbers, that `None` is nothing else, and what a board can enter.

`BookingProofs`, for every number of claims, edits and cancellations under way,
every schedule and every clock. It begins with the slot engine. A wall clock may
read one time twice or not at all, so the lemmas speak of readings: `InstantAt` is
the first instant that reads a time (`FirstReading`), so later times have later
instants, and `SlotsLieApart` follows within a day by the way a day is cut and
between days by their midnights. `SlotsTileEveryDay` and `RequestsAreAnswered` are
`SlotCatalogue`'s two invariants: of a day's boundaries
each has a nearest one before and after (`LeastIs`, `NeighboursAre`), so its slots
follow on each other, and as one slot at most starts at a moment, and falls on that
moment's own local day, `periodFor` can name no other (`PeriodForOffers`).
`NothingIsBookedTwice` stands on `SlotsLieApart`. The invariant
says what a claim still knows once it has a lock (`Proper`: the locks it `HoldsItsLocks`,
the resource it `StandsOn`, the nights that are free, the counts it `Fits`, its slot),
because whoever could change it waits (`Apart`, `RowIsTaken`). `NoDoubleBooking` alone
is not inductive: two claims that read before either wrote would break it. From the
same invariant: `TypeCorrect`, `BookingsKeepTheirGrid`, `LogIsTheRowsStory`,
`WithdrawnIsNotBooked`, `QuotasAreKept` (one more than a count taken under the
apartment's lock) and `NobodyWaitsForever`, whose argument is the order of the locks:
of any waiting set, one at the latest step waits for nobody in it.
`HeldWhileNobodyMoves` is `HeldThroughout` for a house in which no move-out is
recorded, as in the run: the code reads the residencies without a lock, and with
move-outs the property is false of it. Assumed: `KeepsMidnights(Zone)`, that the
clock never skips a local midnight nor passes one twice, which
`stockholm-calendar.ts` states, and for the catalogue that the clock is ahead of UTC,
as Stockholm's is; that the numbers of the engine are positive and a day longer than
the smallest slot; the
shapes of requests and residencies; that `None` is no row.

`NewsDeliveryProofs`, for every number of recipients, channels, jobs and workers,
through failures, deaths and expiries: `TypeCorrect`, `ObjectionsAreKept`,
`TheReportIsTrue`, `NoCopyIsLeft`, `AnAppMailsNobody`, `NoCopyGoesTwice` and
`MailingsHoldCopies`, that the mailings implement `HeldCall` copy by copy. The
invariant gives each copy at most one owning run (`RunsAreApart`), as the
conditional update takes a waiting copy once and nothing waits again; what a row
says then is that run's business (`Proper`). `NoCopyIsStranded` needs that
a run has every waiting copy of its channel still before it (`Covers`), and is
otherwise inductive with the item's state.

`EventSignupProofs`, for every number of persons and dates, every schedule and
capacity: `TypeCorrect`, the hard part of which is that no day gets two dates,
`ClaimsTakeFreePlaces` and `NobodyStandingIsMoved`. Neither action property can be
seen from its own step: the invariant says that a date's lock is held by exactly the
claim or the writer that took it (`LocksAreHeld`), that what a claim read of its date
is still so when it writes (`Sound`), and that what the writer planned and counted is
(`Ready`): nobody stands on a date it displaces, since to stand there takes that lock,
and the days it adds have no date, since `lockEvent` lets one writer in. `WithDatesIs`
says what entering dates does. Assumed: that the
rows are enough for the first schedule (a bound of the model), that days and rows are
numbers, and that `None` is nothing else.

`BoardMailboxProofs`, for every number of letters, processes, files and attempts:
`TypeCorrect`, `LettersKeepTheirFiles` and `NoFileOutlivesItsLetter`. The invariant
adds what a run knows of the file in its hands (`Proper`): it holds one only from an
upload it cannot vouch for, until it has asked whether a letter names it; and what
the purge knows of the thread it has locked (`PurgeIsProper`): its files are exactly
those of the letters it is about to delete, since no letter joins a locked thread
(`LandsUnderTheLock`). The second needs that a thread goes as a whole, so that the
letter that opened it is there as long as any is (`ThreadsAreOpen`). Assumed: the
bounds on attempts and retrievals, that letters are numbers, that `None` is no row.

`ImportApplyProofs`, for every number of sessions, workers, jobs, retries and
persons, through failures, deaths, expiries and abandons, and while persons are added
and erased: `TypeCorrect`, `EachRowIsWrittenOnce`, `EndedImportsWriteNothing`,
`RowsGoWhereTheBoardSaw` and `NobodyEntersTwice`. The last three speak of one step, the
commit of a chunk, and rest on what its worker knows by then (`Sound`), which grows as
it goes on: what it read of the cursor is no later than where the cursor is, and tells
whom the import entered as long as the cursor has not moved (`Abreast`); once it has
claimed the cursor its import is running and the cursor stays (`Claimed`), because one
worker at a time holds the session's row (`OneHolds`) and `StopImport` waits for it;
its plan is what the board was shown (`Checked`); and under the locks the plan is the
one the register would give now (`Settled`), because `Add` waits for the address and
`Erase` for the persons. `RowsFollowTheCursor` and `SessionIsSound` are what a commit and
the sessions' own steps keep. `JobsAreActive`, that a worker's job is its own until the
queue takes it away, keeps a job out of two hands. Assumed: that the persons are
finitely many, apart from each other and from the board's other answers, that a file
has at most the two rows of the model, and that `None` is nothing else.

Only model-checked: liveness and everything under fairness; and that `Owed`,
`MemberOn` and `Unreconciled` are what the code's loops compute.

## Not modelled

`PROJECT.json` lists every part with its reason. In short: parts without a
protocol (rendering, configuration, authorization tables, form edits of one
row), adapters to external services, the browser and the build are left out;
the parts in the table above that no module models yet are the plan. Of the
modelled parts, the following is abstracted. An action handler is one write. The
audit log is read only where the code reads it. Encryption and the content of a
report are values. A person's hold is not in `Booking`: the purge passes a
withheld person over, which only removes steps. PostgreSQL's own deadlock
detection is not modelled, as `NoWaitCycle` shows it has nothing to detect
among these transactions.

Of a mailing: writing the item, its audience and the preview the board reads.
Of the mailbox: the board's own answers and their delivery, letters too large
to fetch, legal holds over a conversation, which only keep it. Of an import:
parsing, rows in error, the other keys a person is matched by, residency
conflicts, the wait for a reindex, plugins' proposals. Of the events: recurrence
rules (an edit names its dates), the retention window, the scan of a text that is
announced, and closing a series for sign-up. A series that is removed, and a date
an edit drops, take their withdrawn sign-ups with them by the cascade, also those
of a person under a legal hold; `BoardWrites` does the same and the holds are not
in that module. Of the moves: the mails and the reminder job, the duty a grant opens,
the erasure request a move-in closes, plugins' access, the order in which a move takes
its own locks, and the person purge, which writes none of these tables. Of the member register: correction rows, which no code writes, the names and
addresses a row records, and the extracts.

## Plan

1. `Duties`: what a transfer, a grant or the end of a membership opens at
   Lantmäteriet, its deadline and its discharge, composing `Membership` and
   `RegisterTransmission`; and bookings read by what the residencies were.
2. `Purge`: the domains of `purgePerson` under the hold lock, composed with
   `PendingChange`, `Booking` and `EventSignup`.
3. `PluginQueues` (a plugin's queues against calls already admitted),
   `InstallLease` (the command line and the server over one volume), `MediaFile`,
   meetings and fees.
