------------------------- MODULE BoardMailboxProofs -------------------------
(***************************************************************************)
(* Why a letter on the board's screen keeps its file, and no file is kept  *)
(* for nobody: for every number of letters, processes and files, through   *)
(* lost answers, crashes and the purge.                                    *)
(*                                                                         *)
(* A file is named by its letter, or held by the run that put it there, or *)
(* by the purge, which read it under the lock that keeps letters from      *)
(* joining its thread.                                                     *)
(***************************************************************************)
EXTENDS BoardMailbox, TLAPS

(* A run o has the letter it is about to store in hand, and holds a file   *)
(* from an upload it cannot vouch for until it has asked whether a letter  *)
(* names it.                                                               *)
Proper(o) ==
    /\ o.at = "storing" => o.letter \in Letters
    /\ o.file # None => o.at = "discarding"
    /\ o.at = "discarding" => o.file \in Files /\ o.why \in {"unique", "refused", "failed"}
    /\ o.at = "asking" => o.why \in {"refused", "failed"}
    /\ o.at = "setting" => o.why \in {"refused", "failed", "past-retention"}

RunsAreProper == \A c \in Collectors : \A o \in {run[c]} \ {None} : Proper(o)

(* The letter that opened a thread is on it as long as there is one. *)
Opened(t) == Stored(t) /\ message[t].thread = t
ThreadsAreOpen == \A l \in Letters : Stored(l) => Opened(message[l].thread)

(* The purge has read the files of all letters it is about to delete. *)
FilesOn(t) == {message[l].file : l \in OnThread(t)}
PurgeIsProper ==
    purge # None /\ purge.at = "deleting" =>
        Opened(purge.thread) /\ purge.files = FilesOn(purge.thread)

IInv ==
    /\ TypeOK /\ RunsAreProper /\ ThreadsAreOpen /\ PurgeIsProper
    /\ LetterKeepsItsFile /\ NoFileIsLeft

-----------------------------------------------------------------------------
LEMMA RunIs ==
  ASSUME IInv, NEW c \in Collectors, NEW o, o = run[c], o # None
  PROVE  o \in Run /\ Proper(o)
BY DEF IInv, TypeOK, RunsAreProper

LEMMA MessageIs ==
  ASSUME IInv, NEW l \in Letters, Stored(l)
  PROVE  message[l] \in Message /\ message[l].file \in files /\ message[l].thread \in Letters
<1>1. message[l] \in Message
  BY DEF IInv, TypeOK, Stored
<1> QED
  BY <1>1 DEF IInv, LetterKeepsItsFile, Message

(* The run of process c as it goes on or ends, with no file in hand before *)
(* or after; what it writes of the ledgers is of their types.              *)
Becomes(c, x) == run' = [run EXCEPT ![c] = x]

LEMMA RunStep ==
  ASSUME IInv, NEW c \in Collectors, NEW x \in Run \union {None}, Becomes(c, x),
         x # None => Proper(x) /\ x.file = None,
         run[c] # None => run[c].at # "discarding",
         ledger' \in [Letters -> Entry \union {None}],
         failure' \in [Letters -> Failure \union {None}],
         UNCHANGED <<message, files, purge, world>>
  PROVE  IInv'
<1>1. /\ message' = message /\ files' = files /\ purge' = purge /\ past' = past
      /\ asked' = asked /\ alive' = alive /\ outage' = outage
  BY DEF world
<1>2. /\ run' \in [Collectors -> Run \union {None}] /\ run'[c] = x
      /\ \A d \in Collectors : d # c => run'[d] = run[d]
  BY DEF IInv, TypeOK, Becomes
<1>3. TypeOK'
  BY <1>1, <1>2 DEF IInv, TypeOK
<1>4. RunsAreProper'
  BY <1>2 DEF IInv, RunsAreProper
<1>5. ThreadsAreOpen' /\ PurgeIsProper' /\ LetterKeepsItsFile'
  BY <1>1 DEF IInv, ThreadsAreOpen, PurgeIsProper, LetterKeepsItsFile, Opened, Stored,
     FilesOn, OnThread
<1>6. NoFileIsLeft'
  <2> SUFFICES ASSUME NEW f \in files, ~Named(f), ~(purge # None /\ f \in purge.files)
               PROVE  \E d \in Collectors : run'[d] # None /\ run'[d].file = f
    BY <1>1 DEF NoFileIsLeft, Named, Stored
  <2>1. PICK d \in Collectors : run[d] # None /\ run[d].file = f
    BY DEF IInv, NoFileIsLeft
  <2>2. f # None
    BY NoneAssumption DEF IInv, TypeOK
  <2>3. d # c
    BY <2>1, <2>2, RunIs DEF Proper
  <2> QED
    BY <1>2, <2>1, <2>3
<1> QED
  BY <1>3, <1>4, <1>5, <1>6 DEF IInv

LEMMA StartsKeeps ==
  ASSUME IInv, NEW c \in Collectors, Starts(c)
  PROVE  IInv'
<1>1. PICK x : x = [at |-> "reading", todo |-> {}, retrying |-> {}, letter |-> None,
                    file |-> None, why |-> None]
  OBVIOUS
<1>2. x \in Run /\ x.file = None /\ x.at = "reading" /\ Proper(x)
  BY <1>1 DEF Run, Proper
<1>3. Becomes(c, x) /\ run[c] = None
  BY <1>1 DEF Starts, Becomes
<1>4. /\ ledger' = ledger /\ failure' = failure
      /\ UNCHANGED <<message, files, purge, world>>
  BY DEF Starts
<1>5. /\ ledger' \in [Letters -> Entry \union {None}]
      /\ failure' \in [Letters -> Failure \union {None}]
  BY <1>4 DEF IInv, TypeOK
<1> QED
  BY <1>2, <1>3, <1>4, <1>5, RunStep

LEMMA UnlistedIs ==
  ASSUME TypeOK, NEW S
  PROVE  Unlisted(S) \in [Letters -> Entry \union {None}]
BY DEF Unlisted, TypeOK

LEMMA PassedIs ==
  ASSUME NEW entries \in [Letters -> Entry \union {None}]
  PROVE  Passed(entries) \in [Letters -> Entry \union {None}]
<1>1. ASSUME NEW l \in Letters
      PROVE  Passed(entries)[l] \in Entry \union {None}
  <2>1. CASE entries[l] # None /\ entries[l].retry = "set"
    <3>1. PICK e \in Entry : e = entries[l]
      BY <2>1
    <3>2. Passed(entries)[l] = [e EXCEPT !.retry = "waiting"]
      BY <2>1, <3>1 DEF Passed
    <3> QED
      BY <3>1, <3>2 DEF Entry
  <2>2. CASE ~(entries[l] # None /\ entries[l].retry = "set")
    BY <2>2 DEF Passed
  <2> QED
    BY <2>1, <2>2
<1> QED
  BY <1>1 DEF Passed

LEMMA ReadsKeeps ==
  ASSUME IInv, NEW c \in Collectors, ReadsHeld(c) \/ UnlistingFails(c)
  PROVE  IInv'
<1>1. PICK o : o = run[c] /\ o # None /\ o.at = "reading"
  BY DEF ReadsHeld, UnlistingFails, At
<1>2. o \in Run /\ Proper(o)
  BY <1>1, RunIs
<1>3. PICK todo \in SUBSET Letters, retrying \in SUBSET Letters :
        run' = [run EXCEPT ![c].at = "next", ![c].todo = todo, ![c].retrying = retrying]
  <2>1. Reads(c)
    BY DEF ReadsHeld, UnlistingFails
  <2>2. PICK due \in SUBSET Letters : due = {l \in Letters : ~Stored(l) /\ Due(l)}
    OBVIOUS
  <2>3. PICK new \in SUBSET Letters : new = {l \in Letters : ~Stored(l) /\ ledger[l] = None}
    OBVIOUS
  <2>4. PICK todo : todo = Head(new \union due)
    OBVIOUS
  <2>5. todo \in SUBSET Letters /\ due \intersect todo \in SUBSET Letters
    BY <2>4 DEF Head
  <2>6. run' = [run EXCEPT ![c].at = "next", ![c].todo = todo,
                           ![c].retrying = due \intersect todo]
    BY <2>1, <2>2, <2>3, <2>4 DEF Reads
  <2> QED
    BY <2>5, <2>6
<1>4. PICK x : x = [o EXCEPT !.at = "next", !.todo = todo, !.retrying = retrying]
  OBVIOUS
<1>5. x \in Run /\ x.at = "next" /\ x.file = o.file
  BY <1>2, <1>4 DEF Run
<1>6. o.file = None
  BY <1>1, <1>2 DEF Proper
<1>7. Proper(x)
  BY <1>5, <1>6 DEF Proper
<1>8. Becomes(c, x)
  BY <1>1, <1>3, <1>4 DEF Becomes
<1>9. /\ failure' = failure /\ UNCHANGED <<message, files, purge, world>>
      /\ \E entries \in {ledger, Unlisted({l \in Letters : Stored(l)})} : ledger' = Passed(entries)
  BY DEF ReadsHeld, UnlistingFails
<1>10. /\ ledger' \in [Letters -> Entry \union {None}]
       /\ failure' \in [Letters -> Failure \union {None}]
  BY <1>9, PassedIs, UnlistedIs DEF IInv, TypeOK
<1> QED
  BY <1>1, <1>5, <1>6, <1>7, <1>8, <1>9, <1>10, RunStep

LEMMA EndsKeeps ==
  ASSUME IInv, NEW c \in Collectors, Ends(c)
  PROVE  IInv'
<1>1. PICK x : x = None
  OBVIOUS
<1>2. Becomes(c, x) /\ run[c].at # "discarding"
  BY <1>1 DEF Ends, At, Becomes
<1>3. /\ ledger' = ledger /\ failure' = failure
      /\ UNCHANGED <<message, files, purge, world>>
  BY DEF Ends
<1>4. /\ ledger' \in [Letters -> Entry \union {None}]
      /\ failure' \in [Letters -> Failure \union {None}]
  BY <1>3 DEF IInv, TypeOK
<1> QED
  BY <1>1, <1>2, <1>3, <1>4, RunStep

(* The next of a run's steps, with no file in hand. *)
Free(c, x) == x \in Run /\ Proper(x) /\ x.file = None /\ Becomes(c, x)

LEMMA GoesIs ==
  ASSUME IInv, NEW c \in Collectors, NEW o, o = run[c], o # None, o.at # "discarding",
         NEW step \in {"asking", "unlisting", "counting", "setting"},
         NEW why \in {"unique", "refused", "failed", "past-retention", None},
         run' = [run EXCEPT ![c].at = step, ![c].why = why],
         step = "asking" => why \in {"refused", "failed"},
         step = "setting" => why \in {"refused", "failed", "past-retention"}
  PROVE  \E x : Free(c, x)
<1>1. o \in Run /\ Proper(o)
  BY RunIs
<1>2. PICK x : x = [o EXCEPT !.at = step, !.why = why]
  OBVIOUS
<1>3. x \in Run /\ x.at = step /\ x.why = why /\ x.file = o.file
  BY <1>1, <1>2 DEF Run
<1>4. x.file = None
  BY <1>1, <1>3 DEF Proper
<1>5. Proper(x)
  BY <1>3, <1>4 DEF Proper
<1>6. Becomes(c, x)
  BY <1>2 DEF Becomes
<1> QED
  BY <1>3, <1>4, <1>5, <1>6 DEF Free

LEMMA GoesOnIs ==
  ASSUME IInv, NEW c \in Collectors, run[c] # None, GoesOn(c)
  PROVE  \E x : Free(c, x)
<1>1. PICK o : o = run[c] /\ o \in Run
  BY RunIs
<1>2. PICK x : x = [o EXCEPT !.at = "next", !.letter = None, !.file = None, !.why = None]
  OBVIOUS
<1>3. x \in Run /\ x.at = "next" /\ x.file = None
  BY <1>1, <1>2 DEF Run
<1>4. Proper(x)
  BY <1>3 DEF Proper
<1>5. Becomes(c, x)
  BY <1>1, <1>2 DEF GoesOn, Becomes
<1> QED
  BY <1>3, <1>4, <1>5 DEF Free

LEMMA FreeStep ==
  ASSUME IInv, NEW c \in Collectors, \E x : Free(c, x),
         run[c] # None => run[c].at # "discarding",
         ledger' \in [Letters -> Entry \union {None}],
         failure' \in [Letters -> Failure \union {None}],
         UNCHANGED <<message, files, purge, world>>
  PROVE  IInv'
BY RunStep DEF Free

LEMMA LedgersStay ==
  ASSUME IInv, UNCHANGED <<ledger, failure>>
  PROVE  /\ ledger' \in [Letters -> Entry \union {None}]
         /\ failure' \in [Letters -> Failure \union {None}]
BY DEF IInv, TypeOK

LEMMA TakesKeeps ==
  ASSUME IInv, NEW c \in Collectors, NEW l \in Letters,
         NEW step \in {"storing", "setting", "counting"},
         NEW why \in {"refused", "failed", "past-retention", None},
         step = "setting" => why \in {"refused", "failed", "past-retention"},
         NEW ended \in BOOLEAN, Takes(c, l, step, why, ended)
  PROVE  IInv'
<1>1. PICK o : o = run[c] /\ o # None /\ o.at = "next"
  BY DEF Takes, At
<1>2. o \in Run /\ Proper(o)
  BY <1>1, RunIs
<1>3. PICK todo : todo = IF ended THEN {} ELSE o.todo \ {l}
  OBVIOUS
<1>4. todo \in SUBSET Letters
  BY <1>2, <1>3 DEF Run
<1>5. PICK x : x = [o EXCEPT !.at = step, !.letter = l, !.why = why, !.todo = todo]
  OBVIOUS
<1>6. x \in Run /\ x.at = step /\ x.why = why /\ x.file = o.file /\ x.letter = l
  BY <1>2, <1>4, <1>5 DEF Run
<1>7. x.file = None
  BY <1>1, <1>2, <1>6 DEF Proper
<1>8. Proper(x)
  BY <1>6, <1>7 DEF Proper
<1>9. Becomes(c, x)
  BY <1>1, <1>3, <1>5 DEF Takes, Becomes
<1>10. UNCHANGED <<ledger, failure>> /\ UNCHANGED <<message, files, purge, world>>
  BY DEF Takes
<1> QED
  BY <1>1, <1>6, <1>7, <1>8, <1>9, <1>10, LedgersStay, RunStep

LEMMA RetrievesKeeps ==
  ASSUME IInv, NEW c \in Collectors, NEW l \in Letters,
         Fetches(c, l) \/ Refuses(c, l) \/ TooSlow(c, l) \/ RetrievalFails(c, l)
  PROVE  IInv'
<1>1. CASE Fetches(c, l)
  BY <1>1, TakesKeeps DEF Fetches
<1>2. CASE Refuses(c, l)
  BY <1>2, TakesKeeps DEF Refuses
<1>3. CASE TooSlow(c, l)
  BY <1>3, TakesKeeps DEF TooSlow
<1>4. CASE RetrievalFails(c, l)
  BY <1>4, TakesKeeps DEF RetrievalFails
<1> QED
  BY <1>1, <1>2, <1>3, <1>4

(* Steps with the letter still in hand. *)
LEMMA UploadFailsKeeps ==
  ASSUME IInv, NEW c \in Collectors, UploadFails(c)
  PROVE  IInv'
<1>1. /\ run[c] # None /\ run[c].at = "storing"
      /\ run' = [run EXCEPT ![c].at = "asking", ![c].why = "failed"]
      /\ UNCHANGED <<ledger, failure>> /\ UNCHANGED <<message, files, purge, world>>
  BY DEF UploadFails, At, GoesFor
<1>2. \E x : Free(c, x)
  BY <1>1, GoesIs
<1> QED
  BY <1>1, <1>2, LedgersStay, FreeStep

LEMMA AsksKeeps ==
  ASSUME IInv, NEW c \in Collectors, Asks(c)
  PROVE  IInv'
<1>1. PICK o : o = run[c] /\ o # None /\ o.at = "asking"
  BY DEF Asks, At
<1>2. o \in Run /\ Proper(o)
  BY <1>1, RunIs
<1>3. PICK step \in {"unlisting", "setting", "counting"} : run' = [run EXCEPT ![c].at = step]
  BY DEF Asks, Goes
<1>4. PICK why \in {"refused", "failed"} : why = o.why
  BY <1>1, <1>2 DEF Proper
<1>5. [o EXCEPT !.at = step, !.why = why] = [o EXCEPT !.at = step]
  BY <1>2, <1>4 DEF Run
<1>6. run' = [run EXCEPT ![c].at = step, ![c].why = why]
  BY <1>1, <1>3, <1>5
<1>7. UNCHANGED <<ledger, failure>> /\ UNCHANGED <<message, files, purge, world>>
  BY DEF Asks
<1>8. \E x : Free(c, x)
  BY <1>1, <1>6, GoesIs
<1> QED
  BY <1>1, <1>7, <1>8, LedgersStay, FreeStep

LEMMA UnlistsKeeps ==
  ASSUME IInv, NEW c \in Collectors, Unlists(c)
  PROVE  IInv'
<1>1. /\ run[c] # None /\ run[c].at = "unlisting" /\ GoesOn(c)
      /\ ledger' \in {ledger, Unlisted({Letter(c)})} /\ failure' = failure
      /\ UNCHANGED <<message, files, purge, world>>
  BY DEF Unlists, At
<1>2. /\ ledger' \in [Letters -> Entry \union {None}]
      /\ failure' \in [Letters -> Failure \union {None}]
  BY <1>1, UnlistedIs DEF IInv, TypeOK
<1> QED
  BY <1>1, <1>2, GoesOnIs, FreeStep

LEMMA CountedIs ==
  ASSUME IInv, NEW l \in Letters
  PROVE  Counted(l) \in Failure
<1>1. CASE failure[l] = None
  BY <1>1, BoundAssumption DEF Counted, Failure
<1>2. CASE failure[l] # None
  <2>1. PICK x \in Failure : x = failure[l]
    BY <1>2 DEF IInv, TypeOK
  <2>2. PICK n \in 1..MaxAttempts : n = x.attempts
    BY <2>1 DEF Failure
  <2>3. PICK m : m = Min({n + 1, MaxAttempts})
    OBVIOUS
  <2>4. \E k \in {n + 1, MaxAttempts} : \A j \in {n + 1, MaxAttempts} : k <= j
    BY BoundAssumption
  <2>5. m \in {n + 1, MaxAttempts} /\ \A j \in {n + 1, MaxAttempts} : m <= j
    BY <2>3, <2>4 DEF Min
  <2>6. m \in 1..MaxAttempts
    BY <2>2, <2>5, BoundAssumption
  <2>7. Counted(l) = [x EXCEPT !.attempts = m]
    BY <1>2, <2>1, <2>2, <2>3 DEF Counted
  <2> QED
    BY <2>1, <2>6, <2>7 DEF Failure
<1> QED
  BY <1>1, <1>2

LEMMA CountsKeeps ==
  ASSUME IInv, NEW c \in Collectors, NEW l \in Letters, Counts(c, l)
  PROVE  IInv'
<1>1. /\ run[c] # None /\ run[c].at = "counting" /\ ledger' = ledger
      /\ failure' = [failure EXCEPT ![l] = Counted(l)]
      /\ UNCHANGED <<message, files, purge, world>>
  BY DEF Counts, At
<1>2. GoesOn(c) \/ run' = [run EXCEPT ![c].at = "setting", ![c].why = "failed"]
  BY DEF Counts, GoesFor
<1>3. \E x : Free(c, x)
  BY <1>1, <1>2, GoesIs, GoesOnIs
<1>4. /\ ledger' \in [Letters -> Entry \union {None}]
      /\ failure' \in [Letters -> Failure \union {None}]
  BY <1>1, CountedIs DEF IInv, TypeOK
<1> QED
  BY <1>1, <1>3, <1>4, FreeStep

LEMMA SetsAsideKeeps ==
  ASSUME IInv, NEW c \in Collectors, NEW l \in Letters, SetsAside(c, l)
  PROVE  IInv'
<1>1. PICK o : o = run[c] /\ o # None /\ o.at = "setting"
  BY DEF SetsAside, At
<1>2. o.why \in {"refused", "failed", "past-retention"}
  BY <1>1, RunIs DEF Proper
<1>3. PICK x : x = [reason |-> o.why, retry |-> RetryOf(o.why)]
  OBVIOUS
<1>4. x \in Entry
  BY <1>2, <1>3 DEF Entry, RetryOf
<1>5. /\ ledger' = [ledger EXCEPT ![l] = x]
      /\ failure' \in {failure, [failure EXCEPT ![l] = None]}
      /\ GoesOn(c) /\ UNCHANGED <<message, files, purge, world>>
  BY <1>1, <1>3 DEF SetsAside
<1>6. /\ ledger' \in [Letters -> Entry \union {None}]
      /\ failure' \in [Letters -> Failure \union {None}]
  BY <1>4, <1>5 DEF IInv, TypeOK
<1> QED
  BY <1>1, <1>5, <1>6, GoesOnIs, FreeStep

LEMMA WriteFailsKeeps ==
  ASSUME IInv, NEW c \in Collectors, WriteFails(c)
  PROVE  IInv'
<1>1. /\ run[c] # None /\ run[c].at # "discarding" /\ GoesOn(c)
      /\ UNCHANGED <<ledger, failure>> /\ UNCHANGED <<message, files, purge, world>>
  BY DEF WriteFails, At
<1> QED
  BY <1>1, LedgersStay, GoesOnIs, FreeStep

-----------------------------------------------------------------------------
(* A letter's rows: a file nobody has, on a thread of the letter's own or  *)
(* on one that is there and that the purge has not locked.                 *)
Lands(l, t, f) ==
    /\ f = FreeFile
    /\ f \in Files \ files
    /\ files' = files \union {f}
    /\ ~Stored(l)
    /\ message' = [message EXCEPT ![l] = [thread |-> t, file |-> f]]
    /\ t = l \/ (Opened(t) /\ ~Locked(t))

LEMMA FreeFileIs ==
  ASSUME IInv, files # Files
  PROVE  FreeFile \in Files \ files
<1>1. \E f \in Files : f \notin files
  BY DEF IInv, TypeOK
<1> QED
  BY <1>1 DEF FreeFile

LEMMA CommitsIs ==
  ASSUME IInv, NEW l \in Letters, Commits(l, FreeFile)
  PROVE  /\ \E t \in Letters : \E f \in Files : Lands(l, t, f)
         /\ ledger' \in [Letters -> Entry \union {None}]
         /\ failure' \in [Letters -> Failure \union {None}]
<1>1. PICK f : f = FreeFile
  OBVIOUS
<1>2. Commits(l, f)
  BY <1>1
<1>3. f \in Files \ files
  BY <1>1, <1>2, FreeFileIs DEF Commits
<1>4. PICK t \in {l} \union {u \in Threads : ~Locked(u)} :
        message' = [message EXCEPT ![l] = [thread |-> t, file |-> f]]
  BY <1>2 DEF Commits
<1>5. t \in Letters /\ (t = l \/ (t \in Threads /\ ~Locked(t)))
  BY <1>4 DEF Threads
<1>6. t \in Threads => Opened(t)
  BY DEF IInv, Threads, ThreadsAreOpen
<1>7. files' = files \union {f} /\ ~Stored(l)
  BY <1>2 DEF Commits
<1>8. Lands(l, t, f)
  BY <1>1, <1>3, <1>4, <1>5, <1>6, <1>7 DEF Lands
<1>9. ledger' = Unlisted({l}) /\ failure' = [failure EXCEPT ![l] = None]
  BY <1>2 DEF Commits
<1>10. /\ ledger' \in [Letters -> Entry \union {None}]
       /\ failure' \in [Letters -> Failure \union {None}]
  BY <1>9, UnlistedIs DEF IInv, TypeOK
<1> QED
  BY <1>3, <1>5, <1>8, <1>10

(* Every letter but l stays as it is, and l is on its thread. *)
LEMMA LandsIs ==
  ASSUME IInv, NEW l \in Letters, NEW t \in Letters, NEW f \in Files, Lands(l, t, f)
  PROVE  /\ message' \in [Letters -> Message \union {None}]
         /\ Stored(l)' /\ message[l]'.thread = t /\ message[l]'.file = f
         /\ \A k \in Letters : k # l => message'[k] = message[k]
<1>1. PICK m : m = [thread |-> t, file |-> f]
  OBVIOUS
<1>2. m \in Message /\ m.thread = t /\ m.file = f
  BY <1>1 DEF Message
<1>3. message' = [message EXCEPT ![l] = m]
  BY <1>1 DEF Lands
<1>4. message \in [Letters -> Message \union {None}]
  BY DEF IInv, TypeOK
<1>5. message'[l] = m /\ m # None
  BY <1>2, <1>3, <1>4, NoneAssumption
<1> QED
  BY <1>2, <1>3, <1>4, <1>5 DEF Stored

LEMMA LandsOpens ==
  ASSUME IInv, NEW l \in Letters, NEW t \in Letters, NEW f \in Files, Lands(l, t, f)
  PROVE  ThreadsAreOpen'
<1>1. /\ Stored(l)' /\ message[l]'.thread = t
      /\ \A k \in Letters : k # l => message'[k] = message[k]
  BY LandsIs
<1>2. ASSUME NEW k \in Letters, Opened(k)
      PROVE  Opened(k)'
  <2>1. k # l
    BY <1>2 DEF Lands, Opened
  <2> QED
    BY <1>1, <1>2, <2>1 DEF Opened, Stored
<1> SUFFICES ASSUME NEW k \in Letters, Stored(k)'
             PROVE  Opened(message[k].thread)'
  BY DEF ThreadsAreOpen
<1>3. CASE k = l
  <2>1. message[k]'.thread = t
    BY <1>1, <1>3
  <2>2. t = l => Opened(t)'
    BY <1>1 DEF Opened
  <2>3. Opened(t)'
    BY <1>2, <2>2 DEF Lands
  <2> QED
    BY <2>1, <2>3 DEF Opened, Stored
<1>4. CASE k # l
  <2>1. message'[k] = message[k] /\ Stored(k)
    BY <1>1, <1>4 DEF Stored
  <2>2. PICK u \in Letters : u = message[k].thread
    BY <2>1, MessageIs
  <2>3. Opened(u)
    BY <2>1, <2>2 DEF IInv, ThreadsAreOpen
  <2>4. Opened(u)'
    BY <1>2, <2>3
  <2> QED
    BY <2>1, <2>2, <2>4 DEF Opened, Stored
<1> QED
  BY <1>3, <1>4

(* The lock keeps the letter off the thread whose files the purge has read. *)
LEMMA LandsUnderTheLock ==
  ASSUME IInv, NEW l \in Letters, NEW t \in Letters, NEW f \in Files, Lands(l, t, f),
         purge' = purge
  PROVE  PurgeIsProper'
<1> SUFFICES ASSUME purge # None, purge.at = "deleting"
             PROVE  Opened(purge.thread)' /\ purge.files = FilesOn(purge.thread)'
  BY DEF PurgeIsProper, Opened, Stored, FilesOn, OnThread
<1>1. PICK u : u = purge.thread
  OBVIOUS
<1>2. u \in Letters /\ Opened(u) /\ purge.files = FilesOn(u)
  BY <1>1 DEF IInv, TypeOK, PurgeIsProper, Purge
<1>3. /\ Stored(l)' /\ message[l]'.thread = t
      /\ \A k \in Letters : k # l => message'[k] = message[k]
  BY LandsIs
<1>4. u # l
  BY <1>2 DEF Lands, Opened
<1>5. t # u
  BY <1>1, <1>4 DEF Lands, Locked
<1>6. Opened(u)'
  BY <1>2, <1>3, <1>4 DEF Opened, Stored
<1>7. ~Stored(l)
  BY DEF Lands
<1>8. ASSUME NEW k \in Letters
      PROVE  (k \in OnThread(u))' <=> k \in OnThread(u)
  BY <1>3, <1>5, <1>7, <1>8 DEF OnThread, Stored
<1>9. OnThread(u)' = OnThread(u)
  BY <1>8 DEF OnThread
<1>10. \A k \in OnThread(u) : message'[k] = message[k]
  BY <1>3, <1>7 DEF OnThread
<1>11. FilesOn(u)' = FilesOn(u)
  BY <1>9, <1>10 DEF FilesOn
<1>12. Opened(purge.thread)' <=> Opened(u)'
  BY <1>1 DEF Opened, Stored
<1> QED
  BY <1>1, <1>2, <1>6, <1>11

(* A letter lands, and the run that stored it becomes x. *)
LEMMA LandsKeeps ==
  ASSUME IInv, NEW l \in Letters, NEW t \in Letters, NEW f \in Files, Lands(l, t, f),
         NEW c \in Collectors, NEW x \in Run, Proper(x), Becomes(c, x),
         run[c] # None, run[c].at # "discarding",
         ledger' \in [Letters -> Entry \union {None}],
         failure' \in [Letters -> Failure \union {None}],
         purge' = purge, UNCHANGED world
  PROVE  IInv'
<1>1. /\ message' \in [Letters -> Message \union {None}]
      /\ Stored(l)' /\ message[l]'.file = f
      /\ \A k \in Letters : k # l => message'[k] = message[k]
  BY LandsIs
<1>2. ~Stored(l) /\ f \notin files /\ files' = files \union {f}
  BY DEF Lands
<1>3. x # None
  BY NoneAssumption
<1>4. /\ run' \in [Collectors -> Run \union {None}] /\ run'[c] = x
      /\ \A d \in Collectors : d # c => run'[d] = run[d]
  BY DEF IInv, TypeOK, Becomes
<1>5. TypeOK'
  BY <1>1, <1>2, <1>4 DEF IInv, TypeOK, world
<1>6. RunsAreProper'
  BY <1>4 DEF IInv, RunsAreProper
<1>7. ThreadsAreOpen' /\ PurgeIsProper'
  BY LandsOpens, LandsUnderTheLock
<1>8. ASSUME NEW k \in Letters, Stored(k)
      PROVE  Stored(k)' /\ message[k]'.file = message[k].file
  BY <1>1, <1>2, <1>8 DEF Stored
<1>9. ASSUME NEW k \in Letters, Stored(k)'
      PROVE  message[k]'.file \in files'
  <2>1. CASE k = l
    BY <1>1, <1>2, <2>1
  <2>2. CASE k # l
    <3>1. Stored(k)
      BY <1>1, <1>9, <2>2 DEF Stored
    <3> QED
      BY <1>2, <1>8, <3>1, MessageIs
  <2> QED
    BY <2>1, <2>2
<1>10. LetterKeepsItsFile'
  BY <1>9 DEF LetterKeepsItsFile
<1>11. ASSUME NEW g \in files'
       PROVE  \/ Named(g)'
              \/ \E d \in Collectors : run'[d] # None /\ run'[d].file = g
              \/ purge' # None /\ g \in purge'.files
  <2>1. CASE g = f
    <3>1. Named(g)'
      BY <1>1, <2>1 DEF Named, Stored
    <3> QED
      BY <3>1
  <2>2. CASE g # f
    <3>1. g \in files /\ g # None
      BY <1>2, <2>2, NoneAssumption DEF IInv, TypeOK
    <3>2. CASE Named(g)
      <4>1. Named(g)'
        BY <1>8, <3>2 DEF Named, Stored
      <4> QED
        BY <4>1
    <3>3. CASE \E d \in Collectors : run[d] # None /\ run[d].file = g
      <4>1. PICK d \in Collectors : run[d] # None /\ run[d].file = g
        BY <3>3
      <4>2. d # c
        BY <3>1, <4>1, RunIs DEF Proper
      <4> QED
        BY <1>4, <4>1, <4>2
    <3>4. CASE purge # None /\ g \in purge.files
      BY <3>4
    <3> QED
      BY <3>1, <3>2, <3>3, <3>4 DEF IInv, NoFileIsLeft
  <2> QED
    BY <2>1, <2>2
<1>12. NoFileIsLeft'
  BY <1>11 DEF NoFileIsLeft, Named, Stored
<1> QED
  BY <1>5, <1>6, <1>7, <1>10, <1>12 DEF IInv

LEMMA StoresKeeps ==
  ASSUME IInv, NEW c \in Collectors, NEW l \in Letters, Stores(c, l)
  PROVE  IInv'
<1>1. /\ run[c] # None /\ run[c].at # "discarding" /\ GoesOn(c)
      /\ Commits(l, FreeFile) /\ purge' = purge /\ UNCHANGED world
  BY DEF Stores, At
<1>2. PICK x : Free(c, x)
  BY <1>1, GoesOnIs
<1>3. x \in Run /\ Proper(x) /\ Becomes(c, x)
  BY <1>2 DEF Free
<1>4. /\ \E t \in Letters : \E f \in Files : Lands(l, t, f)
      /\ ledger' \in [Letters -> Entry \union {None}]
      /\ failure' \in [Letters -> Failure \union {None}]
  BY <1>1, CommitsIs
<1>5. PICK t \in Letters, f \in Files : Lands(l, t, f)
  BY <1>4
<1> QED
  BY <1>1, <1>3, <1>4, <1>5, LandsKeeps

(* A run that holds the file it put there and cannot vouch for. *)
LEMMA HoldsIs ==
  ASSUME IInv, NEW c \in Collectors, run[c] # None,
         NEW why \in {"unique", "refused", "failed"}, NEW f \in Files,
         run' = [run EXCEPT ![c].at = "discarding", ![c].file = f, ![c].why = why]
  PROVE  \E x \in Run : Proper(x) /\ Becomes(c, x) /\ x.file = f
<1>1. PICK o : o = run[c] /\ o \in Run
  BY RunIs
<1>2. PICK x : x = [o EXCEPT !.at = "discarding", !.file = f, !.why = why]
  OBVIOUS
<1>3. x \in Run /\ x.at = "discarding" /\ x.file = f /\ x.why = why
  BY <1>1, <1>2 DEF Run
<1>4. Proper(x)
  BY <1>3 DEF Proper
<1>5. Becomes(c, x)
  BY <1>1, <1>2 DEF Becomes
<1> QED
  BY <1>3, <1>4, <1>5

LEMMA AnswerLostKeeps ==
  ASSUME IInv, NEW c \in Collectors, AnswerLost(c)
  PROVE  IInv'
<1>1. PICK l \in Letters : l = Letter(c)
  BY RunIs DEF AnswerLost, At, Letter, Proper
<1>2. /\ run[c] # None /\ run[c].at # "discarding"
      /\ Commits(l, FreeFile) /\ purge' = purge /\ UNCHANGED world
      /\ run' = [run EXCEPT ![c].at = "discarding", ![c].file = FreeFile, ![c].why = "failed"]
  BY <1>1 DEF AnswerLost, At
<1>3. /\ \E t \in Letters : \E f \in Files : Lands(l, t, f)
      /\ ledger' \in [Letters -> Entry \union {None}]
      /\ failure' \in [Letters -> Failure \union {None}]
  BY <1>2, CommitsIs
<1>4. PICK t \in Letters, f \in Files : Lands(l, t, f)
  BY <1>3
<1>5. run' = [run EXCEPT ![c].at = "discarding", ![c].file = f, ![c].why = "failed"]
  BY <1>2, <1>4 DEF Lands
<1>6. PICK x \in Run : Proper(x) /\ Becomes(c, x)
  BY <1>2, <1>5, HoldsIs
<1> QED
  BY <1>2, <1>3, <1>4, <1>6, LandsKeeps

-----------------------------------------------------------------------------
(* The rows of letters stay, and a file nobody has is put there or a file  *)
(* no letter names is taken away: run c becomes x.                         *)
LEMMA FileStep ==
  ASSUME IInv, NEW c \in Collectors, NEW x \in Run \union {None}, Becomes(c, x),
         x # None => Proper(x),
         files' \in SUBSET Files,
         \A f \in files : Named(f) => f \in files',
         \A f \in files' \ files : x # None /\ x.file = f,
         \A f \in files \intersect files' :
            run[c] # None /\ run[c].file = f
            => Named(f) \/ (x # None /\ x.file = f),
         UNCHANGED <<message, ledger, failure, purge, world>>
  PROVE  IInv'
<1>1. /\ message' = message /\ purge' = purge /\ ledger' = ledger /\ failure' = failure
      /\ past' = past /\ asked' = asked /\ alive' = alive /\ outage' = outage
  BY DEF world
<1>2. /\ run' \in [Collectors -> Run \union {None}] /\ run'[c] = x
      /\ \A d \in Collectors : d # c => run'[d] = run[d]
  BY DEF IInv, TypeOK, Becomes
<1>3. TypeOK'
  BY <1>1, <1>2 DEF IInv, TypeOK
<1>4. RunsAreProper'
  BY <1>2 DEF IInv, RunsAreProper
<1>5. ThreadsAreOpen' /\ PurgeIsProper'
  BY <1>1 DEF IInv, ThreadsAreOpen, PurgeIsProper, Opened, Stored, FilesOn, OnThread
<1>6. ASSUME NEW l \in Letters, Stored(l)
      PROVE  message[l].file \in files'
  <2>1. PICK f : f = message[l].file
    OBVIOUS
  <2>2. f \in files /\ Named(f)
    BY <1>6, <2>1, MessageIs DEF Named
  <2> QED
    BY <2>1, <2>2
<1>7. LetterKeepsItsFile'
  BY <1>1, <1>6 DEF LetterKeepsItsFile, Stored
<1>8. ASSUME NEW f \in files', ~Named(f), ~(purge # None /\ f \in purge.files)
      PROVE  \E d \in Collectors : run'[d] # None /\ run'[d].file = f
  <2>1. CASE f \notin files
    BY <1>2, <1>8, <2>1
  <2>2. CASE f \in files
    <3>1. PICK d \in Collectors : run[d] # None /\ run[d].file = f
      BY <1>8, <2>2 DEF IInv, NoFileIsLeft
    <3>2. CASE d = c
      BY <1>2, <1>8, <2>2, <3>1, <3>2
    <3>3. CASE d # c
      BY <1>2, <3>1, <3>3
    <3> QED
      BY <3>2, <3>3
  <2> QED
    BY <2>1, <2>2
<1>9. NoFileIsLeft'
  BY <1>1, <1>8 DEF NoFileIsLeft, Named, Stored
<1> QED
  BY <1>3, <1>4, <1>5, <1>7, <1>9 DEF IInv

LEMMA RollsBackKeeps ==
  ASSUME IInv, NEW c \in Collectors, RollsBack(c)
  PROVE  IInv'
<1>1. PICK o : o = run[c] /\ o # None /\ o.at = "storing"
  BY DEF RollsBack, At
<1>2. o.file = None
  BY <1>1, RunIs DEF Proper
<1>3. PICK f : f = FreeFile
  OBVIOUS
<1>4. /\ files' = files \union {f} /\ f \in Files \ files
      /\ UNCHANGED <<message, ledger, failure, purge, world>>
  BY <1>3, FreeFileIs DEF RollsBack
<1>5. PICK why \in {"unique", "refused", "failed"} :
        run' = [run EXCEPT ![c].at = "discarding", ![c].file = f, ![c].why = why]
  BY <1>3 DEF RollsBack
<1>6. PICK x \in Run : Proper(x) /\ Becomes(c, x) /\ x.file = f
  BY <1>1, <1>4, <1>5, HoldsIs
<1>7. x # None
  BY NoneAssumption
<1>8. files' \in SUBSET Files
  BY <1>4 DEF IInv, TypeOK
<1>9. \A g \in files : g # None /\ Named(g) => g \in files'
  BY <1>4
<1>10. \A g \in files : g # None
  BY NoneAssumption DEF IInv, TypeOK
<1>11. \A g \in files \intersect files' : ~(run[c] # None /\ run[c].file = g)
  BY <1>1, <1>2, <1>10
<1>12. \A g \in files' \ files : x # None /\ x.file = g
  BY <1>4, <1>6, <1>7
<1> QED
  BY <1>4, <1>6, <1>8, <1>9, <1>10, <1>11, <1>12, FileStep

(* Only a file no letter names is discarded. *)
LEMMA DiscardsKeeps ==
  ASSUME IInv, NEW c \in Collectors, Discards(c)
  PROVE  IInv'
<1>1. PICK o : o = run[c] /\ o # None /\ o.at = "discarding"
  BY DEF Discards, At
<1>2. PICK f : f = o.file
  OBVIOUS
<1>3. o \in Run /\ f \in Files /\ o.why \in {"unique", "refused", "failed"}
  BY <1>1, <1>2, RunIs DEF Proper
<1>4. /\ files' = IF Named(f) THEN files ELSE files \ {f}
      /\ UNCHANGED <<message, ledger, failure, purge, world>>
  BY <1>1, <1>2 DEF Discards
<1>5. PICK step : step = IF o.why = "unique" THEN "unlisting" ELSE "asking"
  OBVIOUS
<1>6. PICK x : x = [o EXCEPT !.at = step, !.file = None]
  OBVIOUS
<1>7. /\ x \in Run /\ x.at = step /\ x.file = None /\ x.why = o.why
      /\ step \in {"unlisting", "asking"} /\ (step = "asking" => o.why # "unique")
  BY <1>3, <1>5, <1>6 DEF Run
<1>8. Proper(x)
  BY <1>3, <1>7 DEF Proper
<1>9. Becomes(c, x)
  BY <1>1, <1>5, <1>6 DEF Discards, AfterDiscard, Becomes
<1>10. files' \in SUBSET Files
  BY <1>4 DEF IInv, TypeOK
<1>11. \A g \in files : Named(g) => g \in files'
  BY <1>4
<1>12. files' \ files = {}
  BY <1>4
<1>13. \A g \in files \intersect files' : run[c] # None /\ run[c].file = g => Named(g)
  BY <1>1, <1>2, <1>4
<1> QED
  BY <1>4, <1>7, <1>8, <1>9, <1>10, <1>11, <1>12, <1>13, FileStep

LEMMA CrashesKeeps ==
  ASSUME IInv, NEW c \in Collectors, Crashes(c)
  PROVE  IInv'
<1>1. PICK f : f = run[c].file
  OBVIOUS
<1>2. /\ files' = IF f = None \/ Named(f) THEN files ELSE files \ {f}
      /\ UNCHANGED <<message, ledger, failure, purge, world>>
  BY <1>1 DEF Crashes
<1>3. PICK x : x = None
  OBVIOUS
<1>4. Becomes(c, x)
  BY <1>3 DEF Crashes, Becomes
<1>5. files' \in SUBSET Files
  BY <1>2 DEF IInv, TypeOK
<1>6. \A g \in files : Named(g) => g \in files'
  BY <1>2
<1>7. files' \ files = {}
  BY <1>2
<1>8. \A g \in files : g # None
  BY NoneAssumption DEF IInv, TypeOK
<1>9. \A g \in files \intersect files' : run[c] # None /\ run[c].file = g => Named(g)
  BY <1>1, <1>2, <1>8
<1> QED
  BY <1>2, <1>3, <1>4, <1>5, <1>6, <1>7, <1>9, FileStep

-----------------------------------------------------------------------------
(* The purge. *)
LEMMA PurgeIs ==
  ASSUME IInv, purge # None
  PROVE  purge \in Purge
BY DEF IInv, TypeOK

LEMMA FilesOnIs ==
  ASSUME IInv, NEW t \in Letters
  PROVE  FilesOn(t) \in SUBSET Files /\ \A f \in FilesOn(t) : Named(f)
<1> SUFFICES ASSUME NEW l \in OnThread(t)
             PROVE  message[l].file \in Files /\ Named(message[l].file)
  BY DEF FilesOn
<1>1. l \in Letters /\ Stored(l)
  BY DEF OnThread
<1> QED
  BY <1>1, MessageIs DEF IInv, TypeOK, Named

LEMMA PurgeLocksKeeps ==
  ASSUME IInv, NEW t \in Letters, PurgeLocks(t)
  PROVE  IInv'
<1>1. PICK p : p = [at |-> "deleting", thread |-> t, files |-> FilesOn(t)]
  OBVIOUS
<1>2. p \in Purge /\ p.thread = t /\ p.files = FilesOn(t)
  BY <1>1, FilesOnIs DEF Purge
<1>3. /\ purge = None /\ purge' = p
      /\ UNCHANGED <<message, ledger, failure, files, run, world>>
  BY <1>1 DEF PurgeLocks, FilesOn
<1>4. Opened(t)
  BY DEF PurgeLocks, Threads, IInv, ThreadsAreOpen
<1>5. TypeOK'
  BY <1>2, <1>3 DEF IInv, TypeOK, world
<1>6. RunsAreProper' /\ ThreadsAreOpen' /\ LetterKeepsItsFile'
  BY <1>3 DEF IInv, RunsAreProper, ThreadsAreOpen, LetterKeepsItsFile, Opened, Stored
<1>7. Opened(t)' /\ FilesOn(t)' = FilesOn(t)
  BY <1>3, <1>4 DEF Opened, Stored, FilesOn, OnThread
<1>8. PurgeIsProper'
  BY <1>2, <1>3, <1>7 DEF PurgeIsProper, Opened, Stored, FilesOn, OnThread
<1>9. NoFileIsLeft'
  BY <1>3 DEF IInv, NoFileIsLeft, Named, Stored
<1> QED
  BY <1>5, <1>6, <1>8, <1>9 DEF IInv

(* Until it deletes, the purge holds no file but those of its letters. *)
LEMMA LetsGoKeeps ==
  ASSUME IInv, purge # None, purge.at = "deleting", purge' = None,
         UNCHANGED <<message, ledger, failure, files, run, world>>
  PROVE  IInv'
<1>1. TypeOK'
  BY DEF IInv, TypeOK, world
<1>2. RunsAreProper' /\ ThreadsAreOpen' /\ LetterKeepsItsFile'
  BY DEF IInv, RunsAreProper, ThreadsAreOpen, LetterKeepsItsFile, Opened, Stored
<1>3. PurgeIsProper'
  BY DEF PurgeIsProper
<1>4. \A f \in purge.files : Named(f)
  <2>1. PICK t : t = purge.thread
    OBVIOUS
  <2>2. t \in Letters /\ purge.files = FilesOn(t)
    BY <2>1, PurgeIs DEF IInv, PurgeIsProper, Purge
  <2> QED
    BY <2>2, FilesOnIs
<1>5. NoFileIsLeft'
  BY <1>4 DEF IInv, NoFileIsLeft, Named, Stored
<1> QED
  BY <1>1, <1>2, <1>3, <1>5 DEF IInv

LEMMA PurgeFailsKeeps ==
  ASSUME IInv, PurgeFails
  PROVE  IInv'
<1>1. purge.at = "deleting"
  BY PurgeIs DEF PurgeFails, Purge
<1> QED
  BY <1>1, LetsGoKeeps DEF PurgeFails

(* All letters of thread u go, and no letter elsewhere loses the one that  *)
(* opened its thread.                                                      *)
LEMMA ThreadGoesKeeps ==
  ASSUME IInv, purge # None, purge.at = "deleting",
         NEW u \in Letters, u = purge.thread,
         message' = [l \in Letters |-> IF l \in OnThread(u) THEN None ELSE message[l]],
         ledger' \in [Letters -> Entry \union {None}],
         purge' = [purge EXCEPT !.at = "removing"],
         UNCHANGED <<failure, files, run, world>>
  PROVE  IInv'
<1>1. /\ purge' \in Purge /\ purge' # None /\ purge'.at = "removing"
      /\ purge'.files = FilesOn(u)
  BY PurgeIs, NoneAssumption DEF IInv, PurgeIsProper, Purge
<1>2. ASSUME NEW k \in Letters
      PROVE  /\ Stored(k)' <=> Stored(k) /\ message[k].thread # u
             /\ Stored(k)' => message'[k] = message[k]
  BY DEF Stored, OnThread
<1>3. TypeOK'
  BY <1>1 DEF IInv, TypeOK, world
<1>4. RunsAreProper'
  BY DEF IInv, RunsAreProper
<1>5. PurgeIsProper'
  BY <1>1 DEF PurgeIsProper
<1>6. ThreadsAreOpen'
  <2> SUFFICES ASSUME NEW k \in Letters, Stored(k)'
               PROVE  Opened(message[k].thread)'
    BY DEF ThreadsAreOpen
  <2>1. Stored(k) /\ message[k].thread # u /\ message'[k] = message[k]
    BY <1>2
  <2>2. PICK t \in Letters : t = message[k].thread
    BY <2>1, MessageIs
  <2>3. Stored(t) /\ message[t].thread = t
    BY <2>1, <2>2 DEF IInv, ThreadsAreOpen, Opened
  <2>4. Stored(t)' /\ message'[t] = message[t]
    BY <1>2, <2>1, <2>2, <2>3
  <2> QED
    BY <2>1, <2>2, <2>3, <2>4 DEF Opened, Stored
<1>7. LetterKeepsItsFile'
  BY <1>2 DEF IInv, LetterKeepsItsFile
<1>8. ASSUME NEW f \in files
      PROVE  \/ Named(f)'
             \/ \E c \in Collectors : run[c] # None /\ run[c].file = f
             \/ f \in purge'.files
  <2>1. CASE Named(f)
    <3>1. PICK k \in Letters : Stored(k) /\ message[k].file = f
      BY <2>1 DEF Named
    <3>2. CASE message[k].thread = u
      <4>1. f \in FilesOn(u)
        BY <3>1, <3>2 DEF FilesOn, OnThread
      <4> QED
        BY <1>1, <4>1
    <3>3. CASE message[k].thread # u
      <4>1. Stored(k)' /\ message'[k].file = f
        BY <1>2, <3>1, <3>3
      <4>2. Named(f)'
        BY <4>1 DEF Named, Stored
      <4> QED
        BY <4>2
    <3> QED
      BY <3>2, <3>3
  <2>2. CASE f \in purge.files
    <3>1. purge'.files = purge.files
      BY PurgeIs DEF Purge
    <3> QED
      BY <2>2, <3>1
  <2> QED
    BY <2>1, <2>2 DEF IInv, NoFileIsLeft
<1>9. NoFileIsLeft'
  BY <1>1, <1>8 DEF NoFileIsLeft, Named, Stored
<1> QED
  BY <1>3, <1>4, <1>5, <1>6, <1>7, <1>9 DEF IInv

LEMMA PurgeDeletesKeeps ==
  ASSUME IInv, PurgeDeletes
  PROVE  IInv'
<1>1. purge # None /\ purge.at = "deleting" /\ UNCHANGED <<failure, files, run, world>>
  BY DEF PurgeDeletes
<1>2. PICK u \in Letters : u = purge.thread
  BY <1>1, PurgeIs DEF Purge
<1>3. CASE asked \/ OnThread(u) \subseteq past
  <2>1. PICK e : e = [reason |-> "purged", retry |-> "never"]
    OBVIOUS
  <2>2. e \in Entry
    BY <2>1 DEF Entry
  <2>3. /\ message' = [l \in Letters |-> IF l \in OnThread(u) THEN None ELSE message[l]]
        /\ ledger' = [l \in Letters |-> IF l \in OnThread(u) /\ ledger[l] = None
                                        THEN e ELSE ledger[l]]
        /\ purge' = [purge EXCEPT !.at = "removing"]
    BY <1>2, <1>3, <2>1 DEF PurgeDeletes
  <2>4. ledger' \in [Letters -> Entry \union {None}]
    BY <2>2, <2>3 DEF IInv, TypeOK
  <2> QED
    BY <1>1, <1>2, <2>3, <2>4, ThreadGoesKeeps
<1>4. CASE ~(asked \/ OnThread(u) \subseteq past)
  <2>1. purge' = None /\ UNCHANGED <<message, ledger>>
    BY <1>2, <1>4 DEF PurgeDeletes
  <2> QED
    BY <1>1, <2>1, LetsGoKeeps
<1> QED
  BY <1>3, <1>4

LEMMA PurgeRemovesKeeps ==
  ASSUME IInv, PurgeRemoves
  PROVE  IInv'
<1>1. /\ purge' = None /\ files' = files \ {f \in purge.files : ~Named(f)}
      /\ UNCHANGED <<message, ledger, failure, run, world>>
  BY DEF PurgeRemoves
<1>2. TypeOK'
  BY <1>1 DEF IInv, TypeOK, world
<1>3. RunsAreProper' /\ ThreadsAreOpen'
  BY <1>1 DEF IInv, RunsAreProper, ThreadsAreOpen, Opened, Stored
<1>4. PurgeIsProper'
  BY <1>1 DEF PurgeIsProper
<1>5. ASSUME NEW l \in Letters, Stored(l)
      PROVE  message[l].file \in files'
  <2>1. PICK f : f = message[l].file
    OBVIOUS
  <2>2. f \in files /\ Named(f)
    BY <1>5, <2>1, MessageIs DEF Named
  <2> QED
    BY <1>1, <2>1, <2>2
<1>6. LetterKeepsItsFile'
  BY <1>1, <1>5 DEF LetterKeepsItsFile, Stored
<1>7. NoFileIsLeft'
  BY <1>1 DEF IInv, NoFileIsLeft, Named, Stored
<1> QED
  BY <1>2, <1>3, <1>4, <1>6, <1>7 DEF IInv

-----------------------------------------------------------------------------
(* Time passes, and the outage ends. *)
LEMMA QuietStep ==
  ASSUME IInv, UNCHANGED <<message, files, run, purge>>, TypeOK'
  PROVE  IInv'
<1>1. /\ RunsAreProper' /\ ThreadsAreOpen' /\ PurgeIsProper'
      /\ LetterKeepsItsFile' /\ NoFileIsLeft'
  BY DEF IInv, RunsAreProper, ThreadsAreOpen, PurgeIsProper, LetterKeepsItsFile,
     NoFileIsLeft, Opened, Stored, FilesOn, OnThread, Named
<1> QED
  BY <1>1 DEF IInv

LEMMA HourPassesKeeps ==
  ASSUME IInv, NEW l \in Letters, HourPasses(l)
  PROVE  IInv'
<1>1. PICK x \in Failure : x = failure[l]
  BY DEF HourPasses, IInv, TypeOK
<1>2. PICK y : y = [x EXCEPT !.aged = TRUE]
  OBVIOUS
<1>3. y \in Failure
  BY <1>2 DEF Failure
<1>4. failure' = [failure EXCEPT ![l] = y]
  BY <1>1, <1>2 DEF HourPasses
<1>5. TypeOK'
  BY <1>3, <1>4 DEF HourPasses, IInv, TypeOK, world
<1> QED
  BY <1>5, QuietStep DEF HourPasses

LEMMA WaitEndsKeeps ==
  ASSUME IInv, NEW l \in Letters, WaitEnds(l)
  PROVE  IInv'
<1>1. PICK x \in Entry : x = ledger[l]
  BY DEF WaitEnds, IInv, TypeOK
<1>2. PICK y : y = [x EXCEPT !.retry = "due"]
  OBVIOUS
<1>3. y \in Entry
  BY <1>2 DEF Entry
<1>4. ledger' = [ledger EXCEPT ![l] = y]
  BY <1>1, <1>2 DEF WaitEnds
<1>5. TypeOK'
  BY <1>3, <1>4 DEF WaitEnds, IInv, TypeOK, world
<1> QED
  BY <1>5, QuietStep DEF WaitEnds

LEMMA WindowPassesKeeps ==
  ASSUME IInv, NEW l \in Letters, WindowPasses(l)
  PROVE  IInv'
<1>1. TypeOK'
  BY DEF WindowPasses, IInv, TypeOK
<1> QED
  BY <1>1, QuietStep DEF WindowPasses

LEMMA RecoversKeeps ==
  ASSUME IInv, Recovers
  PROVE  IInv'
<1>1. TypeOK'
  BY DEF Recovers, IInv, TypeOK
<1> QED
  BY <1>1, QuietStep DEF Recovers

-----------------------------------------------------------------------------
LEMMA InitHolds ==
  ASSUME Init
  PROVE  IInv
<1>1. PICK e : e = [reason |-> "past-retention", retry |-> "never"]
  OBVIOUS
<1>2. e \in Entry
  BY <1>1 DEF Entry
<1>3. ledger = [l \in Letters |-> IF l \in past /\ ~Stored(l) THEN e ELSE None]
  BY <1>1 DEF Init
<1>4. ledger \in [Letters -> Entry \union {None}]
  BY <1>2, <1>3
<1>5. TypeOK
  BY <1>4 DEF Init, TypeOK
<1>6. RunsAreProper /\ PurgeIsProper
  BY DEF Init, RunsAreProper, PurgeIsProper
<1>7. ThreadsAreOpen
  BY DEF Init, ThreadsAreOpen, Opened
<1>8. \A l \in Letters : Stored(l) => message[l] \in Message
  BY <1>5 DEF TypeOK, Stored
<1>9. LetterKeepsItsFile
  BY <1>8 DEF Init, LetterKeepsItsFile, Named, Message
<1>10. NoFileIsLeft
  BY DEF Init, NoFileIsLeft
<1> QED
  BY <1>5, <1>6, <1>7, <1>9, <1>10 DEF IInv

LEMMA WorksKeeps ==
  ASSUME IInv, NEW c \in Collectors, Works(c)
  PROVE  IInv'
<1>1. CASE ReadsHeld(c) \/ Ends(c)
  BY <1>1, ReadsKeeps, EndsKeeps
<1>2. CASE \E l \in Letters : \/ Fetches(c, l) \/ Refuses(c, l) \/ TooSlow(c, l)
                              \/ RetrievalFails(c, l)
  BY <1>2, RetrievesKeeps
<1>3. CASE \E l \in Letters : Stores(c, l) \/ Counts(c, l) \/ SetsAside(c, l)
  BY <1>3, StoresKeeps, CountsKeeps, SetsAsideKeeps
<1>4. CASE AnswerLost(c) \/ RollsBack(c) \/ UploadFails(c)
  BY <1>4, AnswerLostKeeps, RollsBackKeeps, UploadFailsKeeps
<1>5. CASE Discards(c) \/ Asks(c) \/ Unlists(c)
  BY <1>5, DiscardsKeeps, AsksKeeps, UnlistsKeeps
<1> QED
  BY <1>1, <1>2, <1>3, <1>4, <1>5 DEF Works

LEMMA NextKeeps ==
  ASSUME IInv, [Next]_vars
  PROVE  IInv'
<1>1. CASE \E l \in Letters : WindowPasses(l) \/ HourPasses(l) \/ WaitEnds(l)
  BY <1>1, WindowPassesKeeps, HourPassesKeeps, WaitEndsKeeps
<1>2. CASE Recovers
  BY <1>2, RecoversKeeps
<1>3. CASE \E c \in Collectors : Starts(c) \/ UnlistingFails(c)
  BY <1>3, StartsKeeps, ReadsKeeps
<1>4. CASE \E c \in Collectors : Works(c)
  BY <1>4, WorksKeeps
<1>5. CASE \E c \in Collectors : WriteFails(c) \/ Crashes(c)
  BY <1>5, WriteFailsKeeps, CrashesKeeps
<1>6. CASE \E t \in Letters : PurgeLocks(t)
  BY <1>6, PurgeLocksKeeps
<1>7. CASE PurgeDeletes \/ PurgeFails \/ PurgeRemoves
  BY <1>7, PurgeDeletesKeeps, PurgeFailsKeeps, PurgeRemovesKeeps
<1>8. CASE UNCHANGED vars
  <2>1. TypeOK'
    BY <1>8 DEF vars, world, IInv, TypeOK
  <2> QED
    BY <1>8, <2>1, QuietStep DEF vars
<1> QED
  BY <1>1, <1>2, <1>3, <1>4, <1>5, <1>6, <1>7, <1>8 DEF Next

(* What the collector and the purge rely on between their steps: a run     *)
(* holds the file it uploaded until discardUnnamedFiles has asked for it,  *)
(* and purgeThread has all the files of the thread it has locked.          *)
THEOREM InvariantHolds == Spec => []IInv
<1>1. Init => IInv
  BY InitHolds
<1>2. IInv /\ [Next]_vars => IInv'
  BY NextKeeps
<1> QED
  BY <1>1, <1>2, PTL DEF Spec

(* Every variable keeps its type in any number of collections and purges.  *)
THEOREM TypeCorrect == Spec => []TypeOK
<1>1. IInv => TypeOK
  BY DEF IInv
<1> QED
  BY <1>1, InvariantHolds, PTL

(* discardUnnamedFiles and removeAttachments never take the file of a      *)
(* letter the board can open: not after a COMMIT whose answer was lost,    *)
(* not when a process dies, not when a thread is erased beside it.         *)
THEOREM LettersKeepTheirFiles == Spec => []LetterKeepsItsFile
<1>1. IInv => LetterKeepsItsFile
  BY DEF IInv
<1> QED
  BY <1>1, InvariantHolds, PTL

(* lockThread: no letter joins a thread between the reading of its files   *)
(* and its deletion, so every file kept is a letter's, or in the hands of  *)
(* a run or the purge that will settle it.                                 *)
THEOREM NoFileOutlivesItsLetter == Spec => []NoFileIsLeft
<1>1. IInv => NoFileIsLeft
  BY DEF IInv
<1> QED
  BY <1>1, InvariantHolds, PTL
=============================================================================
