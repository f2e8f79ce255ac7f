---------------------------- MODULE BoardMailbox ----------------------------
(***************************************************************************)
(* The board's mailbox: its collection (board-mailbox-collector.service.ts) *)
(* in one or more processes, and the nightly purge of its threads          *)
(* (board-mailbox-purge.service.ts).                                       *)
(*                                                                         *)
(* Nothing is removed from the mailbox.  A letter is held once it is       *)
(* stored as a message or written in the ledger of letters read and not    *)
(* stored, and any statement in between can fail or lose its answer.  A    *)
(* letter has one attachment.                                              *)
(*                                                                         *)
(* Left out: the board's own answers come round, legal holds and           *)
(* restrictions, letters that leave the mailbox, ones listed as too large  *)
(* and never fetched, and rows of a mailbox fingerprinted the old way.     *)
(***************************************************************************)
EXTENDS Naturals, FiniteSets, FiniteSetsExt

CONSTANTS
    Letters,        \* numbered as the mailbox lists them
    Good,           \* the letters a working instance can store
    Collectors,     \* processes
    Files,          \* bound: media files at once
    MaxFetched,     \* MAX_MESSAGES_PER_COLLECTION
    MaxAttempts,    \* MAX_STORE_ATTEMPTS
    None

ASSUME LetterAssumption == Letters \subseteq Nat /\ Good \subseteq Letters
ASSUME BoundAssumption ==
    MaxFetched \in Nat \ {0} /\ MaxAttempts \in Nat \ {0}

VARIABLES
    message,        \* board_mailbox_message, by sourceUid
    ledger,         \* board_mailbox_ignored_message
    failure,        \* board_mailbox_collection_failure
    files,          \* media files somebody names or holds
    run,            \* each process's collection (running)
    purge,          \* the purge's transaction
    past,           \* letters past the retention window
    asked,          \* the correspondent's erasure request is in force
    alive,          \* the processes that collect
    outage          \* something the instance needs may fail at any moment

world == <<past, asked, alive, outage>>
vars == <<message, ledger, failure, files, run, purge, world>>

(* A thread is named by the letter that opened it. *)
Message == [thread : Letters, file : Files]

(* refused stands for no-sender-address, too-large and an unstorable       *)
(* letter; failed for one that is tried again, unstorable or too-slow.     *)
(* A wait of six hours is left behind by at least one run of the schedule  *)
(* that passes the letter by: set, then waiting, then due.                 *)
Entry == [reason : {"refused", "failed", "past-retention", "purged"},
          retry : {"never", "set", "waiting", "due"}]

(* aged: MIN_RETRY_WINDOW_MS has gone since firstFailedAt. *)
Failure == [attempts : 1..MaxAttempts, aged : BOOLEAN]

(* A run is short beside the windows it judges by, so its moment is that   *)
(* of each step.                                                           *)
Run == [at : {"reading", "next", "storing", "discarding", "asking",
              "unlisting", "counting", "setting"},
        todo : SUBSET Letters, retrying : SUBSET Letters,
        letter : Letters \union {None}, file : Files \union {None},
        why : {"unique", "refused", "failed", "past-retention", None}]

Purge == [at : {"deleting", "removing"}, thread : Letters,
          files : SUBSET Files]

ASSUME NoneAssumption ==
    None \notin Letters \union Files \union Message \union Entry \union Failure
                       \union Run \union Purge

TypeOK ==
    /\ message \in [Letters -> Message \union {None}]
    /\ ledger \in [Letters -> Entry \union {None}]
    /\ failure \in [Letters -> Failure \union {None}]
    /\ files \in SUBSET Files
    /\ run \in [Collectors -> Run \union {None}]
    /\ purge \in Purge \union {None}
    /\ past \in SUBSET Letters
    /\ asked \in BOOLEAN
    /\ alive \in SUBSET Collectors
    /\ outage \in BOOLEAN

-----------------------------------------------------------------------------
Stored(l) == message[l] # None
Final(l) == ledger[l] # None /\ ledger[l].retry = "never"
Due(l) == ledger[l] # None /\ ledger[l].retry = "due"

(* LISTED_REFUSALS: the ledger's rows the board's screen shows. *)
Listed(l) == ledger[l] # None /\ ledger[l].reason \in {"refused", "failed"}

(* forgetStoredSetAside: only rows the screen shows. *)
Unlisted(S) == [l \in Letters |-> IF l \in S /\ Listed(l) THEN None ELSE ledger[l]]

Threads == {t \in Letters : \E l \in Letters : Stored(l) /\ message[l].thread = t}
OnThread(t) == {l \in Letters : Stored(l) /\ message[l].thread = t}
Named(f) == \E l \in Letters : Stored(l) /\ message[l].file = f

(* A mailbox collected before: letters stored on threads of their own, and *)
(* letters that were old when they were first read.                        *)
Init ==
    /\ message \in [Letters -> Message \union {None}]
    /\ \A l \in Letters : Stored(l) => message[l].thread = l
    /\ \A k, l \in Letters :
          Stored(k) /\ Stored(l) /\ message[k].file = message[l].file => k = l
    /\ files = {f \in Files : Named(f)}
    /\ past \in SUBSET Letters
    /\ ledger = [l \in Letters |->
                   IF l \in past /\ ~Stored(l)
                   THEN [reason |-> "past-retention", retry |-> "never"] ELSE None]
    /\ failure = [l \in Letters |-> None]
    /\ run = [c \in Collectors |-> None]
    /\ purge = None
    /\ asked \in BOOLEAN
    /\ alive \in SUBSET Collectors
    /\ outage = TRUE

(* The file somebody uploads next. *)
FreeFile == CHOOSE f \in Files : f \notin files

(* Variant: the purge takes no lock on the thread. *)
NeverLocked(t) == FALSE

(* lockThread, as the purge holds it. *)
Locked(t) == purge # None /\ purge.at = "deleting" /\ purge.thread = t

-----------------------------------------------------------------------------
(* Time passes: letters somebody may still look at grow old, waits end.    *)
WindowPasses(l) ==
    /\ l \notin past
    /\ Final(l) => Stored(l)
    /\ past' = past \union {l}
    /\ UNCHANGED <<message, ledger, failure, files, run, purge, asked, alive,
                   outage>>

HourPasses(l) ==
    /\ failure[l] # None
    /\ ~failure[l].aged
    /\ failure' = [failure EXCEPT ![l].aged = TRUE]
    /\ UNCHANGED <<message, ledger, files, run, purge, world>>

WaitEnds(l) ==
    /\ ledger[l] # None
    /\ ledger[l].retry = "waiting"
    /\ ledger' = [ledger EXCEPT ![l].retry = "due"]
    /\ UNCHANGED <<message, failure, files, run, purge, world>>

Recovers ==
    /\ outage
    /\ outage' = FALSE
    /\ UNCHANGED <<message, ledger, failure, files, run, purge, past, asked,
                   alive>>

-----------------------------------------------------------------------------
At(c, step) == run[c] # None /\ run[c].at = step
Letter(c) == run[c].letter

Goes(c, step) == run' = [run EXCEPT ![c].at = step]
GoesFor(c, step, why) == run' = [run EXCEPT ![c].at = step, ![c].why = why]

(* The letter is done with: what is next in this run. *)
GoesOn(c) == run' = [run EXCEPT ![c].at = "next", ![c].letter = None,
                                ![c].file = None, ![c].why = None]

(* collect and collectOnce, up to the listing; one run in a process. *)
Starts(c) ==
    /\ c \in alive
    /\ run[c] = None
    /\ run' = [run EXCEPT ![c] = [at |-> "reading", todo |-> {}, retrying |-> {},
                                 letter |-> None, file |-> None, why |-> None]]
    /\ UNCHANGED <<message, ledger, failure, files, purge, world>>

(* The first of them, as many as one run retrieves. *)
Head(S) == {l \in S : Cardinality({k \in S : k <= l}) <= MaxFetched}

(* heldUids: what is fetched, and what is tried again. *)
Reads(c) ==
    LET due == {l \in Letters : ~Stored(l) /\ Due(l)}
        new == {l \in Letters : ~Stored(l) /\ ledger[l] = None}
    IN  run' = [run EXCEPT ![c].at = "next", ![c].todo = Head(new \union due),
                           ![c].retrying = due \intersect Head(new \union due)]

(* A wait has begun to run once a run has passed its letter by. *)
Passed(entries) ==
    [l \in Letters |->
       IF entries[l] # None /\ entries[l].retry = "set"
       THEN [entries[l] EXCEPT !.retry = "waiting"] ELSE entries[l]]

(* Variant: what is stored is held, and stays on the list. *)
ReadsAndKeeps(c) ==
    /\ At(c, "reading")
    /\ Reads(c)
    /\ ledger' = Passed(ledger)
    /\ UNCHANGED <<message, failure, files, purge, world>>

ReadsHeld(c) ==
    /\ At(c, "reading")
    /\ Reads(c)
    /\ ledger' = Passed(Unlisted({l \in Letters : Stored(l)}))
    /\ UNCHANGED <<message, failure, files, purge, world>>

UnlistingFails(c) ==
    /\ outage
    /\ At(c, "reading")
    /\ \E l \in Letters : Stored(l) /\ Listed(l)
    /\ Reads(c)
    /\ ledger' = Passed(ledger)
    /\ UNCHANGED <<message, failure, files, purge, world>>

Ends(c) ==
    /\ At(c, "next")
    /\ run[c].todo = {}
    /\ run' = [run EXCEPT ![c] = None]
    /\ UNCHANGED <<message, ledger, failure, files, purge, world>>

(* What a letter meets: the instance's trouble, or its own. *)
MayFail(l) == outage \/ l \notin Good

(* One retrieval of the run's next letter; a session that ended leaves the *)
(* rest of the mailbox to the next run.                                    *)
Takes(c, l, step, why, ended) ==
    /\ At(c, "next")
    /\ run[c].todo # {}
    /\ l = Min(run[c].todo)
    /\ run' = [run EXCEPT ![c].at = step, ![c].letter = l, ![c].why = why,
                          ![c].todo = IF ended THEN {} ELSE @ \ {l}]
    /\ UNCHANGED <<message, ledger, failure, files, purge, world>>

(* A letter past the window is not stored. *)
Fetches(c, l) ==
    /\ At(c, "next")
    /\ IF l \in past THEN Takes(c, l, "setting", "past-retention", FALSE)
       ELSE Takes(c, l, "storing", None, FALSE)

(* too-large, and a letter without a usable sender. *)
Refuses(c, l) ==
    /\ l \notin Good
    /\ \E ended \in BOOLEAN : Takes(c, l, "setting", "refused", ended)

TooSlow(c, l) == MayFail(l) /\ Takes(c, l, "setting", "failed", TRUE)

RetrievalFails(c, l) ==
    /\ At(c, "next")
    /\ MayFail(l)
    /\ \E ended \in BOOLEAN :
          IF l \in run[c].retrying THEN Takes(c, l, "setting", "failed", ended)
          ELSE Takes(c, l, "counting", None, ended)

-----------------------------------------------------------------------------
(* storeAttachments, then the transaction: the message, its thread (joined *)
(* where the letter answers the board, threadFor), its attachment row, and *)
(* the ledgers' rows taken back.                                           *)
Commits(l, f) ==
    /\ files # Files
    /\ l \in Good
    /\ ~Stored(l)
    /\ \E t \in {l} \union {u \in Threads : ~Locked(u)} :
           message' = [message EXCEPT ![l] = [thread |-> t, file |-> f]]
    /\ ledger' = Unlisted({l})
    /\ failure' = [failure EXCEPT ![l] = None]
    /\ files' = files \union {f}

Stores(c, l) ==
    /\ At(c, "storing")
    /\ Letter(c) = l
    /\ Commits(l, FreeFile)
    /\ GoesOn(c)
    /\ UNCHANGED <<purge, world>>

(* The COMMIT landed and its answer is lost. *)
AnswerLost(c) ==
    /\ outage
    /\ At(c, "storing")
    /\ Commits(Letter(c), FreeFile)
    /\ run' = [run EXCEPT ![c].at = "discarding", ![c].file = FreeFile,
                          ![c].why = "failed"]
    /\ UNCHANGED <<purge, world>>

(* The rows are refused: held already, not as read, or for no reason of    *)
(* the letter's own.                                                       *)
RollsBack(c) ==
    /\ At(c, "storing")
    /\ \E why \in {"unique", "refused", "failed"} :
        /\ why = "unique" => Stored(Letter(c))
        /\ why = "refused" => Letter(c) \notin Good
        /\ why = "failed" => MayFail(Letter(c))
        /\ run' = [run EXCEPT ![c].at = "discarding", ![c].file = FreeFile,
                              ![c].why = why]
    /\ files # Files
    /\ files' = files \union {FreeFile}
    /\ UNCHANGED <<message, ledger, failure, purge, world>>

UploadFails(c) ==
    /\ At(c, "storing")
    /\ MayFail(Letter(c))
    /\ GoesFor(c, "asking", "failed")
    /\ UNCHANGED <<message, ledger, failure, files, purge, world>>

AfterDiscard(c) ==
    run' = [run EXCEPT ![c].at = IF run[c].why = "unique" THEN "unlisting"
                                 ELSE "asking", ![c].file = None]

(* Variant: a failed write is taken for one that did not happen. *)
DiscardsAll(c) ==
    /\ At(c, "discarding")
    /\ files' = files \ {run[c].file}
    /\ AfterDiscard(c)
    /\ UNCHANGED <<message, ledger, failure, purge, world>>

(* discardUnnamedFiles.  A file left because nobody could be asked, and    *)
(* that no row names, is the media layer's orphan and is forgotten here.   *)
Discards(c) ==
    /\ At(c, "discarding")
    /\ files' = IF Named(run[c].file) THEN files ELSE files \ {run[c].file}
    /\ AfterDiscard(c)
    /\ UNCHANGED <<message, ledger, failure, purge, world>>

(* storedAfterAll, which answers no when it cannot be asked. *)
Asks(c) ==
    /\ At(c, "asking")
    /\ \/ Stored(Letter(c)) /\ Goes(c, "unlisting")
       \/ /\ outage \/ ~Stored(Letter(c))
          /\ Goes(c, IF run[c].why = "refused" \/ Letter(c) \in run[c].retrying
                     THEN "setting" ELSE "counting")
    /\ UNCHANGED <<message, ledger, failure, files, purge, world>>

Unlists(c) ==
    /\ At(c, "unlisting")
    /\ \/ ledger' = Unlisted({Letter(c)})
       \/ outage /\ UNCHANGED ledger
    /\ GoesOn(c)
    /\ UNCHANGED <<message, failure, files, purge, world>>

(* countFailure: an upsert that answers with the row. *)
Counted(l) ==
    IF failure[l] = None THEN [attempts |-> 1, aged |-> FALSE]
    ELSE [failure[l] EXCEPT !.attempts = Min({@ + 1, MaxAttempts})]

Counts(c, l) ==
    /\ At(c, "counting")
    /\ Letter(c) = l
    /\ failure' = [failure EXCEPT ![l] = Counted(l)]
    /\ IF Counted(l).attempts >= MaxAttempts /\ Counted(l).aged
       THEN GoesFor(c, "setting", "failed")
       ELSE GoesOn(c)
    /\ UNCHANGED <<message, ledger, files, purge, world>>

(* What is tried again, and what no later run would decide differently. *)
RetryOf(why) == IF why = "failed" THEN "set" ELSE "never"

(* setAside: the upsert, and the count removed after it and on its own. *)
SetsAside(c, l) ==
    /\ At(c, "setting")
    /\ Letter(c) = l
    /\ ledger' = [ledger EXCEPT ![l] = [reason |-> run[c].why,
                                        retry |-> RetryOf(run[c].why)]]
    /\ failure' \in {failure, [failure EXCEPT ![l] = None]}
    /\ GoesOn(c)
    /\ UNCHANGED <<message, files, purge, world>>

(* A count or a ledger row that cannot be written is let be. *)
WriteFails(c) ==
    /\ outage
    /\ (At(c, "counting") \/ At(c, "setting"))
    /\ GoesOn(c)
    /\ UNCHANGED <<message, ledger, failure, files, purge, world>>

(* The process dies, and leaves an orphan of a file it was holding. *)
Crashes(c) ==
    /\ outage
    /\ run[c] # None
    /\ run' = [run EXCEPT ![c] = None]
    /\ files' = IF run[c].file = None \/ Named(run[c].file) THEN files
                ELSE files \ {run[c].file}
    /\ UNCHANGED <<message, ledger, failure, purge, world>>

-----------------------------------------------------------------------------
(* purgeThread, for a thread that eligible found: its lock, and its files  *)
(* read under it.  What made it eligible is asked again by the delete.     *)
PurgeLocks(t) ==
    /\ purge = None
    /\ t \in Threads
    /\ purge' = [at |-> "deleting", thread |-> t,
                 files |-> {message[l].file : l \in OnThread(t)}]
    /\ UNCHANGED <<message, ledger, failure, files, run, world>>

(* The delete, and the erased letters recorded where no row is yet. *)
PurgeDeletes ==
    LET going == OnThread(purge.thread)
    IN  /\ purge # None
        /\ purge.at = "deleting"
        /\ IF asked \/ going \subseteq past
           THEN /\ message' = [l \in Letters |-> IF l \in going THEN None ELSE message[l]]
                /\ ledger' = [l \in Letters |->
                     IF l \in going /\ ledger[l] = None
                     THEN [reason |-> "purged", retry |-> "never"] ELSE ledger[l]]
                /\ purge' = [purge EXCEPT !.at = "removing"]
           ELSE purge' = None /\ UNCHANGED <<message, ledger>>
        /\ UNCHANGED <<failure, files, run, world>>

PurgeFails ==
    /\ purge # None
    /\ purge.at # "removing"
    /\ purge' = None
    /\ UNCHANGED <<message, ledger, failure, files, run, world>>

(* removeAttachments; a removal that fails leaves an orphan. *)
PurgeRemoves ==
    /\ purge # None
    /\ purge.at = "removing"
    /\ files' = files \ {f \in purge.files : ~Named(f)}
    /\ purge' = None
    /\ UNCHANGED <<message, ledger, failure, run, world>>

-----------------------------------------------------------------------------
Works(c) ==
    \/ ReadsHeld(c) \/ Ends(c)
    \/ \E l \in Letters : \/ Fetches(c, l) \/ Refuses(c, l) \/ TooSlow(c, l)
                         \/ RetrievalFails(c, l)
                         \/ Stores(c, l) \/ Counts(c, l) \/ SetsAside(c, l)
    \/ AnswerLost(c) \/ RollsBack(c) \/ UploadFails(c) \/ Discards(c)
    \/ Asks(c) \/ Unlists(c)

Next ==
    \/ \E l \in Letters : WindowPasses(l) \/ HourPasses(l) \/ WaitEnds(l)
    \/ Recovers
    \/ \E c \in Collectors : Starts(c) \/ UnlistingFails(c)
                             \/ Works(c) \/ WriteFails(c) \/ Crashes(c)
    \/ \E t \in Letters : PurgeLocks(t)
    \/ PurgeDeletes \/ PurgeFails \/ PurgeRemoves

Spec == Init /\ [][Next]_vars

(* The schedule starts a run every five minutes and a run goes on; time    *)
(* passes; and an outage, however long, ends.                              *)
Fairness ==
    /\ \A l \in Letters : WF_vars(HourPasses(l)) /\ WF_vars(WaitEnds(l))
    /\ \A c \in Collectors : WF_vars(Starts(c)) /\ WF_vars(Works(c))
    /\ WF_vars(Recovers)

FairSpec == Spec /\ Fairness

-----------------------------------------------------------------------------
(* discardUnnamedFiles: a letter on the board's screen keeps the file that *)
(* came with it, also when the answer to its COMMIT was lost.              *)
LetterKeepsItsFile == \A l \in Letters : Stored(l) => message[l].file \in files

(* purgeThread: a file that is kept belongs to a letter or to somebody at  *)
(* work; none outlives its letter because it landed while the thread was   *)
(* being erased.                                                           *)
NoFileIsLeft ==
    \A f \in files :
        \/ Named(f)
        \/ \E c \in Collectors : run[c] # None /\ run[c].file = f
        \/ purge # None /\ f \in purge.files

(* countFailure, setAside, forgetStoredSetAside: a letter the instance can *)
(* store is stored in the end and off the list of letters to open in a     *)
(* mail client, whatever fails for a while, whatever another process made  *)
(* of it and whatever lies before it in the mailbox, unless it grows old   *)
(* or is erased first.                                                     *)
EveryLetterIsReceived ==
    \A l \in Good :
        alive # {} ~> \/ Stored(l) /\ ~Listed(l)
                      \/ l \in past
                      \/ ledger[l] # None /\ ledger[l].reason = "purged"
=============================================================================
