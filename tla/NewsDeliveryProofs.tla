------------------------- MODULE NewsDeliveryProofs -------------------------
(***************************************************************************)
(* Why no copy of a news item is handed over twice, none is reported that  *)
(* went out, none waits without a job and no app mails anybody, for every  *)
(* number of members, channels, runs, jobs and retries.                    *)
(*                                                                         *)
(* A copy waits once: its row leaves PENDING for good.  So the run whose   *)
(* conditional update claimed it owns it until it goes on, and what the    *)
(* row says afterwards was written by that run.                            *)
(***************************************************************************)
EXTENDS NewsDelivery, TLAPS

Owning == {"asking", "withdrawing", "addressing", "sending", "failing"}
Begun == {"reading", "listing"}

CopyOf(o) == <<o.channel, o.to>>

(* What was listed and still waits is ahead of the run, or in its hands. *)
Covers(o) ==
    o.at \notin Begun => \A p \in Persons :
        row[<<o.channel, p>>] = "PENDING" =>
            p \in o.todo \/ (p = o.to /\ o.at \in {"refusing", "claiming"})

(* The copy a run claimed. *)
Owns(o) ==
    /\ row[CopyOf(o)] \in {"SENT", "deleted"}
    /\ o.at # "failing" \/ o.why # "send-failed" => taken[CopyOf(o)] = 0
    /\ o.at = "failing" => o.why \in {"send-failed", "recipient-gone"}
    /\ o.at = "addressing" /\ CopyOf(o) \in overtaken => o.to \in erased
    /\ o.at = "sending" => CopyOf(o) \notin overtaken

HasJob(o) ==
    o.job # None => /\ job[o.job] # None /\ job[o.job].state = "active"
                    /\ o.job[1] = o.channel

(* A run o under way. *)
Proper(o) ==
    /\ o.at \notin Begun \union {"next"} => o.to \in Persons
    /\ HasJob(o)
    /\ o.at # "reading" /\ item # None => o.channel \in item.mailed
    /\ Covers(o)
    /\ o.at \in Owning => Owns(o)

RunsAreProper == \A r \in Runs : \A o \in {run[r]} \ {None} : Proper(o)

Apart(o, q) ==
    /\ o.at \in Owning /\ q.at \in Owning => CopyOf(o) # CopyOf(q)
    /\ o.job # None => o.job # q.job

RunsAreApart ==
    \A r, s \in Runs : r # s =>
        \A o \in {run[r]} \ {None}, q \in {run[s]} \ {None} : Apart(o, q)

(* A copy c in the ledger. *)
Entered(c) ==
    /\ item # None /\ c[1] \notin item.mailed => row[c] = "absent"
    /\ item = None => row[c] # "PENDING"
    /\ taken[c] # 0 => row[c] \in {"SENT", "send-failed", "deleted"}
    /\ c \in overtaken => /\ taken[c] = 0 /\ row[c] \notin {"absent", "PENDING"}
                          /\ c[2] \in objects \union erased

LedgerIsProper == \A c \in Copies : Entered(c)

IInv ==
    /\ TypeOK /\ RunsAreProper /\ RunsAreApart /\ LedgerIsProper
    /\ NoCopyIsStranded /\ AppsMailNobody

-----------------------------------------------------------------------------
LEMMA RunIs ==
  ASSUME IInv, NEW r \in Runs, NEW o, o = run[r], o # None
  PROVE  /\ o \in Run /\ Proper(o)
         /\ \A s \in Runs : s # r => \A q \in {run[s]} \ {None} :
               Proper(q) /\ Apart(o, q) /\ Apart(q, o)
<1>1. o \in Run
  BY DEF IInv, TypeOK
<1>2. Proper(o) /\ \A s \in Runs : \A q \in {run[s]} \ {None} : Proper(q)
  BY DEF IInv, RunsAreProper
<1>3. \A s \in Runs : s # r => \A q \in {run[s]} \ {None} : Apart(o, q) /\ Apart(q, o)
  BY DEF IInv, RunsAreApart
<1> QED
  BY <1>1, <1>2, <1>3

LEMMA CopyIs ==
  ASSUME NEW c \in Copies
  PROVE  c = <<c[1], c[2]>> /\ c[1] \in Channels /\ c[2] \in Persons
BY DEF Copies

LEMMA CopyOfIs ==
  ASSUME NEW o \in Run, o.to \in Persons
  PROVE  CopyOf(o) \in Copies /\ CopyOf(o)[1] = o.channel /\ CopyOf(o)[2] = o.to
<1>1. o.channel \in Channels
  BY DEF Run
<1> QED
  BY <1>1 DEF CopyOf, Copies

(* What a step may not do to the copies, and to a run that owns one. *)
Untouched(c) ==
    row'[c] = row[c] /\ taken'[c] = taken[c] /\ (c \in overtaken' <=> c \in overtaken)
NothingWaitsAgain == \A c \in Copies : row'[c] = "PENDING" => row[c] = "PENDING"

LEMMA OwnerKeepsCopy ==
  ASSUME NEW o, Owns(o), erased \subseteq erased',
         \/ Untouched(CopyOf(o))
         \/ /\ row'[CopyOf(o)] \in {row[CopyOf(o)], "deleted"}
            /\ taken'[CopyOf(o)] = taken[CopyOf(o)] /\ overtaken' \subseteq overtaken
  PROVE  Owns(o)'
BY DEF Owns, Untouched, CopyOf

LEMMA ProperStays ==
  ASSUME NEW o \in Run, Proper(o), NothingWaitsAgain, HasJob(o)',
         item' = item \/ item' = None, o.at \in Owning => Owns(o)'
  PROVE  Proper(o)'
<1>1. Covers(o)'
  <2> SUFFICES ASSUME o.at \notin Begun, NEW p \in Persons,
                      row'[<<o.channel, p>>] = "PENDING"
               PROVE  p \in o.todo \/ (p = o.to /\ o.at \in {"refusing", "claiming"})
    BY DEF Covers
  <2>1. <<o.channel, p>> \in Copies
    BY DEF Run, Copies
  <2>2. row[<<o.channel, p>>] = "PENDING"
    BY <2>1 DEF NothingWaitsAgain
  <2> QED
    BY <2>2 DEF Proper, Covers
<1> QED
  BY <1>1 DEF Proper

LEMMA EntryStays ==
  ASSUME NEW c \in Copies, Entered(c), Untouched(c), item' = item,
         objects \union erased \subseteq objects' \union erased'
  PROVE  Entered(c)'
BY DEF Entered, Untouched

Becomes(r, x) == run' = [run EXCEPT ![r] = x]

(* A job that is settled has no copy left to come to. *)
JobsCover ==
    \A k \in Jobs : \/ job[k] = None \/ job'[k] # None
                    \/ item = None \/ ~item.up
                    \/ \A p \in Persons : row'[<<k[1], p>>] # "PENDING"

LEMMA StrandedStays ==
  ASSUME NoCopyIsStranded, NothingWaitsAgain, JobsCover, item' = item
  PROVE  NoCopyIsStranded'
<1> SUFFICES ASSUME NEW c \in Copies, row'[c] = "PENDING", item # None, item.up
             PROVE  \E s \in Slots : job'[<<c[1], s>>] # None
  BY DEF NoCopyIsStranded
<1>1. row[c] = "PENDING"
  BY DEF NothingWaitsAgain
<1>2. PICK s \in Slots : job[<<c[1], s>>] # None
  BY <1>1 DEF NoCopyIsStranded
<1>3. /\ c = <<c[1], c[2]>> /\ c[1] \in Channels /\ c[2] \in Persons
      /\ <<c[1], s>> \in Jobs /\ <<c[1], s>>[1] = c[1]
  BY CopyIs DEF Jobs
<1>4. ~\A p \in Persons : row'[<<c[1], p>>] # "PENDING"
  BY <1>3
<1> QED
  BY <1>2, <1>3, <1>4 DEF JobsCover

LEMMA AppsStay ==
  ASSUME AppsMailNobody, NothingWaitsAgain, item' = item
  PROVE  AppsMailNobody'
BY DEF AppsMailNobody, NothingWaitsAgain

(* A worker's run o takes a step, becomes x, and touches its own copy only. *)
LEMMA WorkerStep ==
  ASSUME IInv, NEW r \in Runs, NEW o, o = run[r], o # None,
         NEW x \in Run \union {None}, Becomes(r, x),
         item' = item, objects' = objects, erased' = erased,
         row' \in [Copies -> Status], job' \in [Jobs -> Job \union {None}],
         taken' \in [Copies -> Nat], overtaken' \in SUBSET Copies,
         \A c \in Copies :
             \/ Untouched(c)
             \/ /\ c = CopyOf(o) /\ Entered(c)'
                /\ \A s \in Runs : s # r => \A q \in {run[s]} \ {None} :
                      q.at \in Owning => CopyOf(q) # c,
         NothingWaitsAgain, JobsCover, \A k \in Jobs : job'[k] = job[k] \/ k = o.job,
         x # None => /\ Proper(x)'
                     /\ \A s \in Runs : s # r => \A q \in {run[s]} \ {None} : Apart(x, q)
  PROVE  IInv'
<1>1. /\ run' \in [Runs -> Run \union {None}] /\ run'[r] = x
      /\ \A s \in Runs : s # r => run'[s] = run[s]
  BY DEF IInv, TypeOK, Becomes
<1>2. TypeOK'
  BY <1>1 DEF IInv, TypeOK
<1>3. ASSUME NEW s \in Runs, s # r, NEW q, q = run[s], q # None
      PROVE  Proper(q)'
  <2>1. q \in Run /\ Proper(q)
    BY <1>3, RunIs
  <2>2. q.at \in Owning => Owns(q)'
    <3> SUFFICES ASSUME q.at \in Owning
                 PROVE  Owns(q)'
      OBVIOUS
    <3>1. q.to \in Persons /\ Owns(q)
      BY <2>1 DEF Proper, Owning, Begun
    <3>2. CopyOf(q) \in Copies
      BY <2>1, <3>1, CopyOfIs
    <3>3. Untouched(CopyOf(q))
      BY <1>3, <3>2
    <3> QED
      BY <3>1, <3>3, OwnerKeepsCopy
  <2>3. HasJob(q)'
    <3>1. q.job # None => q.job \in Jobs /\ q.job # o.job
      BY <1>3, <2>1, RunIs DEF Run, Apart
    <3> QED
      BY <2>1, <3>1 DEF Proper, HasJob
  <2> QED
    BY <2>1, <2>2, <2>3, ProperStays
<1>4. RunsAreProper'
  <2> SUFFICES ASSUME NEW s \in Runs, NEW q, q = run'[s], q # None
               PROVE  Proper(q)'
    BY DEF RunsAreProper
  <2> QED
    BY <1>1, <1>3
<1>5. RunsAreApart'
  <2> SUFFICES ASSUME NEW s \in Runs, NEW t \in Runs, s # t,
                      NEW p, p = run'[s], p # None, NEW q, q = run'[t], q # None
               PROVE  Apart(p, q)
    BY DEF RunsAreApart, Apart, CopyOf
  <2>1. CASE s # r /\ t # r
    BY <1>1, <2>1 DEF IInv, RunsAreApart
  <2>2. CASE s = r
    BY <1>1, <2>2
  <2>3. CASE t = r
    BY <1>1, <2>3 DEF Apart
  <2> QED
    BY <2>1, <2>2, <2>3
<1>6. LedgerIsProper'
  <2> SUFFICES ASSUME NEW c \in Copies PROVE Entered(c)'
    BY DEF LedgerIsProper, Copies
  <2>1. Entered(c)
    BY DEF IInv, LedgerIsProper
  <2> QED
    BY <2>1, EntryStays
<1>7. NoCopyIsStranded' /\ AppsMailNobody'
  BY StrandedStays, AppsStay DEF IInv
<1> QED
  BY <1>2, <1>4, <1>5, <1>6, <1>7 DEF IInv

(* Such a step that leaves the ledger as it is. *)
LEMMA QuietStep ==
  ASSUME IInv, NEW r \in Runs, NEW o, o = run[r], o # None,
         NEW x \in Run \union {None}, Becomes(r, x),
         UNCHANGED <<item, row, people, taken, overtaken>>,
         job' \in [Jobs -> Job \union {None}], JobsCover,
         \A k \in Jobs : job'[k] = job[k] \/ k = o.job,
         x # None => /\ Proper(x) /\ UNCHANGED job /\ x.job = o.job
                     /\ x.at \in Owning => o.at \in Owning /\ CopyOf(x) = CopyOf(o)
  PROVE  IInv'
<1>1. /\ item' = item /\ row' = row /\ objects' = objects /\ erased' = erased
      /\ taken' = taken /\ overtaken' = overtaken
  BY DEF people
<1>2. NothingWaitsAgain /\ \A c \in Copies : Untouched(c)
  BY <1>1 DEF NothingWaitsAgain, Untouched
<1>3. /\ row' \in [Copies -> Status] /\ taken' \in [Copies -> Nat]
      /\ overtaken' \in SUBSET Copies
  BY <1>1 DEF IInv, TypeOK
<1>4. ASSUME x # None PROVE Proper(x)'
  BY <1>1, <1>4 DEF Proper, HasJob, Covers, Owns, CopyOf
<1>5. ASSUME x # None, NEW s \in Runs, s # r, NEW q, q = run[s], q # None
      PROVE  Apart(x, q)
  <2>1. Apart(o, q)
    BY <1>5, RunIs
  <2> QED
    BY <1>5, <2>1 DEF Apart
<1> QED
  BY <1>1, <1>2, <1>3, <1>4, <1>5, WorkerStep

(* How a run's job ends with it, or goes back to its queue. *)
LEMMA JobIs ==
  ASSUME IInv, NEW r \in Runs, NEW o, o = run[r], o # None, o.job # None
  PROVE  o.job \in Jobs /\ job[o.job] \in Job /\ o.job[1] = o.channel
<1>1. o \in Run /\ HasJob(o)
  BY RunIs DEF Proper
<1>2. o.job \in Jobs
  BY <1>1 DEF Run
<1> QED
  BY <1>1, <1>2 DEF HasJob, IInv, TypeOK

LEMMA FailedIs ==
  ASSUME NEW j \in Job
  PROVE  Failed(j) \in Job /\ Failed(j) # None /\ Failed(j).state # "active"
<1>1. j.left \in 0..Retries
  BY DEF Job
<1>2. Failed(j) \in Job
  BY <1>1, RetryAssumption DEF Failed, Job
<1> QED
  BY <1>2, NoneAssumption DEF Failed

LEMMA JobFails ==
  ASSUME IInv, NEW r \in Runs, NEW o, o = run[r], o # None, Fails(r)
  PROVE  /\ Becomes(r, None)
         /\ job' \in [Jobs -> Job \union {None}] /\ JobsCover
         /\ \A k \in Jobs : job'[k] = job[k] \/ k = o.job
<1>1. Becomes(r, None)
  BY DEF Fails, Ends, Becomes
<1>2. CASE o.job = None
  <2>1. job' = job
    BY <1>2 DEF Fails
  <2> QED
    BY <1>1, <2>1 DEF JobsCover, IInv, TypeOK
<1>3. CASE o.job # None
  <2>1. o.job \in Jobs /\ Failed(job[o.job]) \in Job /\ Failed(job[o.job]) # None
    BY <1>3, JobIs, FailedIs
  <2>2. job' = [job EXCEPT ![o.job] = Failed(job[o.job])]
    BY <1>3 DEF Fails
  <2>3. job \in [Jobs -> Job \union {None}]
    BY DEF IInv, TypeOK
  <2>4. /\ job' \in [Jobs -> Job \union {None}]
        /\ \A k \in Jobs : IF k = o.job THEN job'[k] = Failed(job[o.job]) ELSE job'[k] = job[k]
    BY <2>1, <2>2, <2>3
  <2> QED
    BY <1>1, <2>1, <2>4 DEF JobsCover
<1> QED
  BY <1>2, <1>3

LEMMA JobCompletes ==
  ASSUME IInv, NEW r \in Runs, NEW o, o = run[r], o # None,
         Ends(r), job' = Completed(r), row' = row,
         \/ item = None \/ ~item.up
         \/ \A p \in Persons : row[<<o.channel, p>>] # "PENDING"
  PROVE  /\ Becomes(r, None)
         /\ job' \in [Jobs -> Job \union {None}] /\ JobsCover
         /\ \A k \in Jobs : job'[k] = job[k] \/ k = o.job
<1>1. Becomes(r, None)
  BY DEF Ends, Becomes
<1>2. CASE o.job = None
  <2>1. job' = job
    BY <1>2 DEF Completed
  <2> QED
    BY <1>1, <2>1 DEF JobsCover, IInv, TypeOK
<1>3. CASE o.job # None
  <2>1. o.job \in Jobs /\ o.job[1] = o.channel
    BY <1>3, JobIs
  <2>2. job' = [job EXCEPT ![o.job] = None]
    BY <1>3 DEF Completed
  <2>3. job \in [Jobs -> Job \union {None}]
    BY DEF IInv, TypeOK
  <2>4. /\ job' \in [Jobs -> Job \union {None}]
        /\ \A k \in Jobs : k # o.job => job'[k] = job[k]
    BY <2>1, <2>2, <2>3
  <2> QED
    BY <1>1, <2>1, <2>4 DEF JobsCover
<1> QED
  BY <1>2, <1>3

LEMMA SameJobs ==
  ASSUME IInv, job' = job
  PROVE  /\ job' \in [Jobs -> Job \union {None}] /\ JobsCover
         /\ \A k \in Jobs : job'[k] = job[k]
BY DEF JobsCover, IInv, TypeOK

-----------------------------------------------------------------------------
(* A worker, step by step.  First the steps that leave the ledger alone. *)
LEMMA RunEnds ==
  ASSUME IInv, NEW r \in Runs, run[r] # None,
         UNCHANGED <<item, row, people, taken, overtaken>>,
         Fails(r) \/ (Ends(r) /\ UNCHANGED job)
  PROVE  IInv'
<1>1. PICK o : o = run[r]
  OBVIOUS
<1>2. CASE Fails(r)
  BY <1>1, <1>2, JobFails, QuietStep
<1>3. CASE Ends(r) /\ UNCHANGED job
  <2>1. Becomes(r, None)
    BY <1>3 DEF Ends, Becomes
  <2> QED
    BY <1>1, <1>3, <2>1, SameJobs, QuietStep
<1> QED
  BY <1>2, <1>3

(* A run that goes on with x, of the same copy or of none. *)
LEMMA RunGoesOn ==
  ASSUME IInv, NEW r \in Runs, NEW o, o = run[r], o # None,
         NEW x \in Run, Becomes(r, x),
         UNCHANGED <<item, row, job, people, taken, overtaken>>,
         x.job = o.job, x.channel = o.channel, x.at \in Owning => o.at \in Owning,
         x.at \in Owning => x.to = o.to,
         Proper(x)
  PROVE  IInv'
<1>1. CopyOf(x) = CopyOf(o) \/ x.at \notin Owning
  BY DEF CopyOf
<1> QED
  BY <1>1, SameJobs, QuietStep

LEMMA ReadsItemKeeps ==
  ASSUME IInv, NEW r \in Runs, ReadsItem(r)
  PROVE  IInv'
<1>1. PICK o : o = run[r] /\ o # None /\ o.at = "reading"
  BY DEF ReadsItem, At
<1>2. o \in Run /\ Proper(o)
  BY <1>1, RunIs
<1>3. UNCHANGED <<item, row, people, taken, overtaken>>
  BY DEF ReadsItem
<1>4. CASE item # None /\ item.up /\ o.channel \in item.mailed
  <2>1. PICK x : x = [o EXCEPT !.at = "listing"]
    OBVIOUS
  <2>2. /\ x \in Run /\ x.at = "listing" /\ x.job = o.job /\ x.channel = o.channel
    BY <1>2, <2>1 DEF Run
  <2>3. Becomes(r, x) /\ UNCHANGED job
    BY <1>1, <1>4, <2>1 DEF ReadsItem, Proceed, Becomes, IInv, TypeOK
  <2>4. Proper(x)
    BY <1>2, <1>4, <2>2 DEF Proper, HasJob, Covers, Begun, Owning
  <2> QED
    BY <1>1, <1>3, <2>2, <2>3, <2>4, RunGoesOn DEF Owning
<1>5. CASE ~(item # None /\ item.up /\ o.channel \in item.mailed)
  <2>1. Ends(r) /\ job' = Completed(r)
    BY <1>1, <1>5 DEF ReadsItem
  <2>2. \/ item = None \/ ~item.up
        \/ \A p \in Persons : row[<<o.channel, p>>] # "PENDING"
    <3> SUFFICES ASSUME item # None, o.channel \notin item.mailed, NEW p \in Persons
                 PROVE  row[<<o.channel, p>>] # "PENDING"
      BY <1>5
    <3>1. <<o.channel, p>> \in Copies /\ <<o.channel, p>>[1] = o.channel
      BY <1>2 DEF Run, Copies
    <3>2. Entered(<<o.channel, p>>)
      BY <3>1 DEF IInv, LedgerIsProper
    <3> QED
      BY <3>1, <3>2 DEF Entered
  <2>3. row' = row
    BY <1>3
  <2> QED
    BY <1>1, <1>3, <2>1, <2>2, <2>3, JobCompletes, QuietStep
<1> QED
  BY <1>4, <1>5

LEMMA ListsKeeps ==
  ASSUME IInv, NEW r \in Runs, Lists(r)
  PROVE  IInv'
<1>1. PICK o : o = run[r] /\ o # None /\ o.at = "listing"
  BY DEF Lists, At
<1>2. o \in Run /\ Proper(o)
  BY <1>1, RunIs
<1>3. PICK x : x = [o EXCEPT !.at = "next", !.todo = Waiting(o.channel)]
  OBVIOUS
<1>4. /\ x \in Run /\ x.at = "next" /\ x.job = o.job /\ x.channel = o.channel
      /\ x.todo = Waiting(o.channel)
  BY <1>2, <1>3 DEF Run, Waiting
<1>5. Becomes(r, x) /\ UNCHANGED <<item, row, job, people, taken, overtaken>>
  BY <1>1, <1>3 DEF Lists, Becomes, IInv, TypeOK
<1>6. Proper(x)
  BY <1>1, <1>2, <1>4 DEF Proper, HasJob, Covers, Waiting, Begun, Owning
<1> QED
  BY <1>1, <1>4, <1>5, <1>6, RunGoesOn DEF Owning

LEMMA TakesKeeps ==
  ASSUME IInv, NEW r \in Runs, NEW p \in Persons, Takes(r, p)
  PROVE  IInv'
<1>1. PICK o : o = run[r] /\ o # None /\ o.at = "next"
  BY DEF Takes, At
<1>2. o \in Run /\ Proper(o)
  BY <1>1, RunIs
<1>3. PICK step \in {"refusing", "claiming"} :
        step = IF p \in objects THEN "refusing" ELSE "claiming"
  OBVIOUS
<1>4. PICK x : x = [o EXCEPT !.todo = @ \ {p}, !.to = p, !.at = step]
  OBVIOUS
<1>5. /\ x \in Run /\ x.at \in {"refusing", "claiming"} /\ x.job = o.job
      /\ x.channel = o.channel /\ x.to = p /\ x.todo = o.todo \ {p}
  BY <1>2, <1>3, <1>4 DEF Run
<1>6. Becomes(r, x) /\ UNCHANGED <<item, row, job, people, taken, overtaken>>
  BY <1>1, <1>3, <1>4 DEF Takes, Becomes, IInv, TypeOK
<1>7. Covers(x)
  BY <1>1, <1>2, <1>5 DEF Proper, Covers, Begun
<1>8. Proper(x)
  BY <1>1, <1>2, <1>5, <1>7 DEF Proper, HasJob, Begun, Owning
<1> QED
  BY <1>1, <1>5, <1>6, <1>8, RunGoesOn DEF Owning

LEMMA FinishesKeeps ==
  ASSUME IInv, NEW r \in Runs, Finishes(r)
  PROVE  IInv'
<1>1. PICK o : o = run[r] /\ o # None /\ o.at = "next" /\ o.todo = {}
  BY DEF Finishes, At
<1>2. o \in Run /\ Proper(o)
  BY <1>1, RunIs
<1>3. /\ UNCHANGED <<item, row, people, taken, overtaken>> /\ row' = row
      /\ Ends(r) /\ job' = Completed(r)
  BY DEF Finishes
<1>4. \A p \in Persons : row[<<o.channel, p>>] # "PENDING"
  BY <1>1, <1>2 DEF Proper, Covers, Begun
<1> QED
  BY <1>1, <1>3, <1>4, JobCompletes, QuietStep

LEMMA AsksAgainKeeps ==
  ASSUME IInv, NEW r \in Runs, AsksAgain(r)
  PROVE  IInv'
<1>1. PICK o : o = run[r] /\ o # None /\ o.at = "asking"
  BY DEF AsksAgain, At
<1>2. o \in Run /\ Proper(o) /\ Owns(o) /\ o.to \in Persons
  BY <1>1, RunIs DEF Proper, Owning, Begun
<1>3. PICK step \in {"withdrawing", "addressing"} :
        step = IF o.to \in objects THEN "withdrawing" ELSE "addressing"
  OBVIOUS
<1>4. PICK x : x = [o EXCEPT !.at = step]
  OBVIOUS
<1>5. /\ x \in Run /\ x.at = step /\ x.job = o.job /\ x.channel = o.channel
      /\ x.to = o.to /\ x.todo = o.todo /\ x.why = o.why
  BY <1>2, <1>3, <1>4 DEF Run
<1>6. Becomes(r, x) /\ UNCHANGED <<item, row, job, people, taken, overtaken>>
  BY <1>1, <1>3, <1>4 DEF AsksAgain, Proceed, Becomes, IInv, TypeOK
<1>7. CopyOf(x) = CopyOf(o) /\ CopyOf(o) \in Copies /\ CopyOf(o)[2] = o.to
  BY <1>2, <1>5, CopyOfIs DEF CopyOf
<1>8. Owns(x)
  <2>1. Entered(CopyOf(o))
    BY <1>7 DEF IInv, LedgerIsProper
  <2>2. CopyOf(o) \in overtaken => o.to \in objects \union erased
    BY <1>7, <2>1 DEF Entered
  <2> QED
    BY <1>1, <1>2, <1>3, <1>5, <1>7, <2>2 DEF Owns
<1>9. Proper(x)
  BY <1>1, <1>2, <1>3, <1>5, <1>8 DEF Proper, HasJob, Covers, Begun, Owning
<1> QED
  BY <1>1, <1>5, <1>6, <1>9, RunGoesOn DEF Owning

(* A run that owns its copy and goes on owning it, in another step. *)
LEMMA OwnerGoesOn ==
  ASSUME IInv, NEW r \in Runs, NEW o, o = run[r], o # None, o.at \in Owning,
         NEW step \in Owning, NEW why \in Failures \union {None},
         Becomes(r, [o EXCEPT !.at = step, !.why = why]),
         UNCHANGED <<item, row, job, people, taken, overtaken>>,
         step # "failing" => taken[CopyOf(o)] = 0,
         step = "failing" => \/ why = "send-failed"
                             \/ why = "recipient-gone" /\ taken[CopyOf(o)] = 0,
         step = "addressing" /\ CopyOf(o) \in overtaken => o.to \in erased,
         step = "sending" => CopyOf(o) \notin overtaken
  PROVE  IInv'
<1>1. o \in Run /\ Proper(o) /\ Owns(o) /\ o.to \in Persons
  BY RunIs DEF Proper, Owning, Begun
<1>2. PICK x : x = [o EXCEPT !.at = step, !.why = why]
  OBVIOUS
<1>3. step \in {"reading", "listing", "next", "refusing", "claiming", "asking",
                "withdrawing", "addressing", "sending", "failing"}
  BY DEF Owning
<1>4. /\ x \in Run /\ x.at = step /\ x.why = why /\ x.job = o.job
      /\ x.channel = o.channel /\ x.to = o.to /\ x.todo = o.todo
  BY <1>1, <1>2, <1>3 DEF Run
<1>5. CopyOf(x) = CopyOf(o)
  BY <1>4 DEF CopyOf
<1>6. Owns(x)
  BY <1>1, <1>4, <1>5 DEF Owns
<1>7. Proper(x)
  BY <1>1, <1>4, <1>6 DEF Proper, HasJob, Covers, Begun, Owning
<1>8. Becomes(r, x)
  BY <1>2
<1> QED
  BY <1>4, <1>7, <1>8, RunGoesOn

LEMMA AddressesKeeps ==
  ASSUME IInv, NEW r \in Runs, Addresses(r)
  PROVE  IInv'
<1>1. PICK o : o = run[r] /\ o # None /\ o.at = "addressing"
  BY DEF Addresses, At
<1>2. o \in Run /\ Proper(o) /\ Owns(o)
  BY <1>1, RunIs DEF Proper, Owning
<1>3. taken[CopyOf(o)] = 0 /\ (CopyOf(o) \in overtaken => o.to \in erased)
  BY <1>1, <1>2 DEF Owns
<1>4. UNCHANGED <<item, row, job, people, taken, overtaken>>
  BY DEF Addresses
<1>5. run \in [Runs -> Run \union {None}]
  BY DEF IInv, TypeOK
<1>6. CASE o.to \in erased
  <2>1. Becomes(r, [o EXCEPT !.at = "failing", !.why = "recipient-gone"])
    BY <1>1, <1>5, <1>6 DEF Addresses, Becomes
  <2>2. "failing" \in Owning /\ "recipient-gone" \in Failures \union {None} /\ o.at \in Owning
    BY <1>1 DEF Owning, Failures
  <2> QED
    BY <1>1, <1>3, <1>4, <2>1, <2>2, OwnerGoesOn
<1>7. CASE o.to \notin erased
  <2>1. Becomes(r, [o EXCEPT !.at = "sending", !.why = o.why])
    <3>1. run' = [run EXCEPT ![r] = [o EXCEPT !.at = "sending"]]
      BY <1>1, <1>5, <1>7 DEF Addresses, Proceed
    <3>2. [o EXCEPT !.at = "sending"] = [o EXCEPT !.at = "sending", !.why = o.why]
      BY <1>2 DEF Run
    <3> QED
      BY <3>1, <3>2 DEF Becomes
  <2>2. "sending" \in Owning /\ o.why \in Failures \union {None} /\ o.at \in Owning
    BY <1>1, <1>2 DEF Owning, Run
  <2> QED
    BY <1>1, <1>3, <1>4, <1>7, <2>1, <2>2, OwnerGoesOn
<1> QED
  BY <1>6, <1>7

LEMMA SendFailsKeeps ==
  ASSUME IInv, NEW r \in Runs, SendFails(r)
  PROVE  IInv'
<1>1. PICK o : o = run[r] /\ o # None /\ o.at = "sending"
  BY DEF SendFails, At
<1>2. UNCHANGED <<item, row, job, people, taken, overtaken>>
  BY DEF SendFails
<1>3. PICK step \in Owning, why \in Failures \union {None} :
        step = "failing" /\ why = "send-failed"
  BY DEF Owning, Failures
<1>4. Becomes(r, [o EXCEPT !.at = step, !.why = why])
  BY <1>1, <1>3 DEF SendFails, Becomes, IInv, TypeOK
<1>5. o.at \in Owning
  BY <1>1 DEF Owning
<1>6. /\ step # "failing" => taken[CopyOf(o)] = 0
      /\ step = "failing" => \/ why = "send-failed"
                             \/ why = "recipient-gone" /\ taken[CopyOf(o)] = 0
      /\ step = "addressing" /\ CopyOf(o) \in overtaken => o.to \in erased
      /\ step = "sending" => CopyOf(o) \notin overtaken
  BY <1>3
<1> QED
  BY <1>1, <1>2, <1>4, <1>5, <1>6, OwnerGoesOn

-----------------------------------------------------------------------------
(* Then those that write the row of the copy in hand. *)
LEMMA CopyInHand ==
  ASSUME IInv, NEW r \in Runs, NEW o, o = run[r], o # None,
         o.at \notin Begun \union {"next"}
  PROVE  /\ o \in Run /\ Proper(o) /\ o.to \in Persons
         /\ CopyOf(o) \in Copies /\ CopyOf(o) = Copy(r) /\ CopyOf(o) = <<o.channel, o.to>>
         /\ Entered(CopyOf(o))
         /\ row[CopyOf(o)] \in Status /\ taken[CopyOf(o)] \in Nat
         /\ o.at \in Owning \/ row[CopyOf(o)] = "PENDING" =>
              \A s \in Runs : s # r => \A q \in {run[s]} \ {None} :
                 q.at \in Owning => CopyOf(q) # CopyOf(o)
<1>1. o \in Run /\ Proper(o) /\ o.to \in Persons
  BY RunIs DEF Proper
<1>2. CopyOf(o) \in Copies
  BY <1>1, CopyOfIs
<1>3. /\ CopyOf(o) = Copy(r) /\ Entered(CopyOf(o))
      /\ row[CopyOf(o)] \in Status /\ taken[CopyOf(o)] \in Nat
  BY <1>2 DEF CopyOf, Copy, IInv, LedgerIsProper, TypeOK
<1>4. ASSUME NEW s \in Runs, s # r, NEW q, q = run[s], q # None, q.at \in Owning,
             o.at \in Owning \/ row[CopyOf(o)] = "PENDING"
      PROVE  CopyOf(q) # CopyOf(o)
  <2>1. Proper(q) /\ Apart(q, o)
    BY <1>4, RunIs
  <2>2. row[CopyOf(q)] \in {"SENT", "deleted"}
    BY <1>4, <2>1 DEF Proper, Owns
  <2> QED
    BY <1>4, <2>1, <2>2 DEF Apart
<1> QED
  BY <1>1, <1>2, <1>3, <1>4 DEF CopyOf

(* A run x that goes on owning its copy, whose row says status and which   *)
(* the server took n times.                                                *)
KeepsIt(x, status, n) ==
    /\ status \in {"SENT", "deleted"}
    /\ x.at # "failing" \/ x.why # "send-failed" => n = 0
    /\ x.at = "failing" => x.why \in {"send-failed", "recipient-gone"}
    /\ x.at \notin {"addressing", "sending"}

(* What run o writes of its copy: the row says status, the server took it  *)
(* n times.                                                                *)
Writes(o, status, n) ==
    /\ o.at \in Owning \/ row[CopyOf(o)] = "PENDING"
    /\ row' = [row EXCEPT ![CopyOf(o)] = status] /\ status # "PENDING"
    /\ taken' = [taken EXCEPT ![CopyOf(o)] = n]
    /\ overtaken' \subseteq overtaken \union {CopyOf(o)} /\ overtaken \subseteq overtaken'
    /\ item' = item /\ objects' = objects /\ erased' = erased
    /\ item # None /\ o.channel \notin item.mailed => status = "absent"
    /\ n # 0 => status \in {"SENT", "send-failed", "deleted"}
    /\ CopyOf(o) \in overtaken' => n = 0 /\ status # "absent" /\ o.to \in objects \union erased

JobOnly(o) ==
    /\ job' \in [Jobs -> Job \union {None}] /\ JobsCover
    /\ \A k \in Jobs : job'[k] = job[k] \/ k = o.job

(* What the run becomes by it. *)
Follows(o, x, status, n) ==
    x # None => /\ x.job = o.job /\ x.channel = o.channel /\ x.todo = o.todo
                /\ job' = job
                /\ x.at \in Owning => KeepsIt(x, status, n) /\ x.to = o.to
                /\ x.at \notin Begun
                /\ x.at # "next" => x.to = o.to

(* The row becomes what the run writes, and the run x. *)
LEMMA RowStep ==
  ASSUME IInv, NEW r \in Runs, NEW o, o = run[r], o # None,
         o.at \notin Begun \union {"next"},
         NEW x \in Run \union {None}, Becomes(r, x),
         NEW status \in Status, NEW n \in Nat, Writes(o, status, n),
         JobOnly(o), Follows(o, x, status, n)
  PROVE  IInv'
<1> DEFINE c == CopyOf(o)
<1>1. /\ o \in Run /\ Proper(o) /\ o.to \in Persons /\ c \in Copies
      /\ c = <<o.channel, o.to>> /\ Entered(c)
      /\ \A s \in Runs : s # r => \A q \in {run[s]} \ {None} :
                 q.at \in Owning => CopyOf(q) # c
  BY CopyInHand DEF Writes
<1>2. /\ row \in [Copies -> Status] /\ taken \in [Copies -> Nat] /\ overtaken \in SUBSET Copies
  BY DEF IInv, TypeOK
<1>3. c[1] = o.channel /\ c[2] = o.to
  BY <1>1
<1> HIDE DEF c
<1>4. /\ row' \in [Copies -> Status] /\ taken' \in [Copies -> Nat]
      /\ overtaken' \in SUBSET Copies
      /\ row'[c] = status /\ taken'[c] = n
      /\ \A d \in Copies : d # c => row'[d] = row[d] /\ taken'[d] = taken[d]
  BY <1>1, <1>2 DEF c, Writes, JobOnly
<1>5. \A d \in Copies : d # c => Untouched(d)
  BY <1>4 DEF Untouched, c, Writes
<1>6. NothingWaitsAgain
  BY <1>4 DEF NothingWaitsAgain, Writes
<1>7. (c \in overtaken' => taken'[c] = 0 /\ row'[c] # "absent" /\ c[2] \in objects \union erased)
  BY <1>3, <1>4 DEF c, Writes
<1>8. Entered(c)'
  <2>1. /\ item # None /\ o.channel \notin item.mailed => row'[c] = "absent"
        /\ taken'[c] # 0 => row'[c] \in {"SENT", "send-failed", "deleted"}
        /\ row'[c] # "PENDING"
    BY <1>4 DEF Writes
  <2> QED
    BY <1>3, <1>7, <2>1 DEF Entered, c, CopyOf, Writes
<1>9. x # None => /\ x.job = o.job /\ x.channel = o.channel /\ x.todo = o.todo
                  /\ job' = job
                  /\ x.at \in Owning => KeepsIt(x, status, n) /\ x.to = o.to
                  /\ x.at \notin Begun
                  /\ x.at # "next" => x.to = o.to
  BY DEF Follows
<1>10. /\ item' = item /\ objects' = objects /\ erased' = erased
       /\ JobsCover /\ \A k \in Jobs : job'[k] = job[k] \/ k = o.job
       /\ job' \in [Jobs -> Job \union {None}] /\ status # "PENDING"
  BY DEF Writes, JobOnly
<1>11. ASSUME x # None PROVE Proper(x)'
  <2>1. Covers(x)'
    <3> SUFFICES ASSUME NEW p \in Persons, row'[<<x.channel, p>>] = "PENDING"
                 PROVE  p \in x.todo
      BY DEF Covers
    <3>1. <<o.channel, p>> \in Copies /\ row'[<<o.channel, p>>] = "PENDING"
      BY <1>1, <1>11, <1>9 DEF Run, Copies
    <3>2. row[<<o.channel, p>>] = "PENDING" /\ p # o.to
      BY <1>1, <1>4, <1>6, <1>10, <3>1 DEF NothingWaitsAgain
    <3>3. p \in o.todo
      BY <1>1, <3>2 DEF Proper, Covers
    <3> QED
      BY <1>11, <1>9, <3>3
  <2>2. HasJob(x)'
    BY <1>1, <1>11, <1>9 DEF Proper, HasJob
  <2>3. item # None => x.channel \in item.mailed
    BY <1>1, <1>11, <1>9 DEF Proper, Begun
  <2>4. x.at \in Owning => Owns(x)'
    <3> SUFFICES ASSUME x.at \in Owning
                 PROVE  Owns(x)'
      OBVIOUS
    <3>1. KeepsIt(x, status, n) /\ CopyOf(x) = c
      BY <1>11, <1>9 DEF CopyOf, c
    <3>2. row'[CopyOf(x)] = status /\ taken'[CopyOf(x)] = n
      BY <1>4, <3>1
    <3> QED
      BY <3>1, <3>2 DEF Owns, KeepsIt, CopyOf
  <2> QED
    BY <1>1, <1>11, <1>9, <1>10, <2>1, <2>2, <2>3, <2>4 DEF Proper, Begun
<1>12. ASSUME x # None, NEW s \in Runs, s # r, NEW q, q = run[s], q # None
       PROVE  Apart(x, q)
  <2>1. Apart(o, q) /\ (q.at \in Owning => CopyOf(q) # c)
    BY <1>1, <1>12, RunIs
  <2>2. x.at \in Owning => CopyOf(x) = c
    BY <1>12, <1>9 DEF CopyOf, c
  <2> QED
    BY <1>12, <1>9, <2>1, <2>2 DEF Apart
<1>13. \A d \in Copies :
             \/ Untouched(d)
             \/ /\ d = CopyOf(o) /\ Entered(d)'
                /\ \A s \in Runs : s # r => \A q \in {run[s]} \ {None} :
                      q.at \in Owning => CopyOf(q) # d
  <2> SUFFICES ASSUME NEW d \in Copies, ~Untouched(d)
               PROVE  /\ d = CopyOf(o) /\ Entered(d)'
                      /\ \A s \in Runs : s # r => \A q \in {run[s]} \ {None} :
                            q.at \in Owning => CopyOf(q) # d
    OBVIOUS
  <2>1. d = c
    BY <1>5
  <2> QED
    BY <1>1, <1>8, <2>1 DEF c
<1> QED
  BY <1>4, <1>6, <1>11, <1>12, <1>13, <1>10, WorkerStep

(* How a run goes on to its next copy. *)
LEMMA NextIs ==
  ASSUME IInv, NEW r \in Runs, NEW o, o = run[r], o # None, GoesOn(r)
  PROVE  \E x \in Run : /\ Becomes(r, x) /\ x.at = "next" /\ x.job = o.job
                        /\ x.channel = o.channel /\ x.todo = o.todo
<1>1. o \in Run /\ run \in [Runs -> Run \union {None}]
  BY RunIs DEF IInv, TypeOK
<1>2. PICK x : x = [o EXCEPT !.at = "next", !.to = None, !.why = None]
  OBVIOUS
<1>3. /\ x \in Run /\ x.at = "next" /\ x.job = o.job
      /\ x.channel = o.channel /\ x.todo = o.todo
  BY <1>1, <1>2 DEF Run
<1>4. Becomes(r, x)
  BY <1>1, <1>2 DEF GoesOn, Becomes
<1> QED
  BY <1>3, <1>4

(* A run is done with its copy, whose row says status from now on. *)
LEMMA CopyIsDone ==
  ASSUME IInv, NEW r \in Runs, NEW o, o = run[r], o # None,
         o.at \notin Begun \union {"next"},
         o.at \in Owning \/ row[CopyOf(o)] = "PENDING",
         GoesOn(r), UNCHANGED <<item, job, people, overtaken>>,
         NEW status \in Status, status \notin {"PENDING", "absent"},
         row' = [row EXCEPT ![CopyOf(o)] = status],
         NEW n \in Nat, taken' = [taken EXCEPT ![CopyOf(o)] = n],
         n # 0 => status \in {"SENT", "send-failed", "deleted"},
         CopyOf(o) \in overtaken => n = 0
  PROVE  IInv'
<1>1. PICK x \in Run : /\ Becomes(r, x) /\ x.at = "next" /\ x.job = o.job
                       /\ x.channel = o.channel /\ x.todo = o.todo
  BY NextIs
<1>2. /\ o \in Run /\ Proper(o) /\ o.to \in Persons /\ CopyOf(o) \in Copies
      /\ CopyOf(o) = <<o.channel, o.to>> /\ Entered(CopyOf(o))
  BY CopyInHand
<1>3. item # None => o.channel \in item.mailed
  BY <1>2 DEF Proper, Begun
<1>4. CopyOf(o) \in overtaken => o.to \in objects \union erased
  BY <1>2 DEF Entered
<1>5. /\ item' = item /\ objects' = objects /\ erased' = erased /\ overtaken' = overtaken
      /\ job' = job
  BY DEF people
<1>6. /\ job' \in [Jobs -> Job \union {None}] /\ JobsCover
      /\ \A k \in Jobs : job'[k] = job[k] \/ k = o.job
  BY <1>5, SameJobs
<1>7. x.at \notin Owning /\ x.at \notin Begun
  BY <1>1 DEF Owning, Begun
<1>8. Follows(o, x, status, n)
  BY <1>1, <1>5, <1>7 DEF Follows
<1>9. Writes(o, status, n) /\ JobOnly(o)
  BY <1>3, <1>4, <1>5, <1>6 DEF Writes, JobOnly
<1> QED
  BY <1>1, <1>8, <1>9, RowStep

(* The same, of a run that finds nothing to write. *)
LEMMA NothingToWrite ==
  ASSUME IInv, NEW r \in Runs, NEW o, o = run[r], o # None,
         o.at \notin Begun, row[CopyOf(o)] # "PENDING", GoesOn(r),
         UNCHANGED <<item, row, job, people, taken, overtaken>>
  PROVE  IInv'
<1>1. PICK x \in Run : /\ Becomes(r, x) /\ x.at = "next" /\ x.job = o.job
                       /\ x.channel = o.channel /\ x.todo = o.todo
  BY NextIs
<1>2. Proper(o)
  BY RunIs
<1>3. Covers(x)
  BY <1>1, <1>2 DEF Proper, Covers, CopyOf
<1>4. Proper(x) /\ x.at \notin Owning
  BY <1>1, <1>2, <1>3 DEF Proper, HasJob, Begun, Owning
<1> QED
  BY <1>1, <1>4, RunGoesOn

LEMMA SkipsKeeps ==
  ASSUME IInv, NEW r \in Runs, Skips(r)
  PROVE  IInv'
<1>1. PICK o : o = run[r] /\ o # None /\ o.at = "claiming"
  BY DEF Skips, At
<1>2. /\ row[CopyOf(o)] # "PENDING" /\ GoesOn(r)
      /\ UNCHANGED <<item, row, job, people, taken, overtaken>>
  BY <1>1 DEF Skips, CopyOf, Copy
<1> QED
  BY <1>1, <1>2, NothingToWrite DEF Begun

LEMMA RefusesKeeps ==
  ASSUME IInv, NEW r \in Runs, Refuses(r)
  PROVE  IInv'
<1>1. PICK o : o = run[r] /\ o # None /\ o.at = "refusing" /\ CopyOf(o) = Copy(r)
  BY DEF Refuses, At, CopyOf, Copy
<1>2. GoesOn(r) /\ UNCHANGED <<item, job, people, taken, overtaken>>
  BY DEF Refuses
<1>3. o.at \notin Begun \union {"next"}
  BY <1>1 DEF Begun
<1>4. CASE row[CopyOf(o)] # "PENDING"
  <2>1. row' = row
    BY <1>1, <1>4 DEF Refuses
  <2> QED
    BY <1>1, <1>2, <1>3, <1>4, <2>1, NothingToWrite
<1>5. CASE row[CopyOf(o)] = "PENDING"
  <2>1. PICK status \in Status : status = "recipient-objected"
    BY DEF Status, Failures
  <2>2. row' = [row EXCEPT ![CopyOf(o)] = status]
    BY <1>1, <1>5, <2>1 DEF Refuses
  <2>3. taken[CopyOf(o)] = 0 /\ CopyOf(o) \notin overtaken
    BY <1>1, <1>3, <1>5, CopyInHand DEF Entered
  <2>4. taken' = [taken EXCEPT ![CopyOf(o)] = 0]
    BY <1>2, <2>3 DEF IInv, TypeOK
  <2>5. PICK n \in Nat : n = 0
    OBVIOUS
  <2>6. taken' = [taken EXCEPT ![CopyOf(o)] = n]
    BY <2>4, <2>5
  <2>7. /\ status \notin {"PENDING", "absent"}
        /\ n # 0 => status \in {"SENT", "send-failed", "deleted"}
    BY <2>1, <2>5
  <2>8. UNCHANGED <<item, job, people, overtaken>>
    BY <1>2
  <2>9. CopyOf(o) \in overtaken => n = 0
    BY <2>5
  <2> QED
    BY <1>1, <1>2, <1>3, <1>5, <2>2, <2>6, <2>7, <2>8, <2>9, CopyIsDone
<1> QED
  BY <1>4, <1>5

LEMMA WithdrawsKeeps ==
  ASSUME IInv, NEW r \in Runs, Withdraws(r)
  PROVE  IInv'
<1>1. PICK o : o = run[r] /\ o # None /\ o.at = "withdrawing" /\ CopyOf(o) = Copy(r)
  BY DEF Withdraws, At, CopyOf, Copy
<1>2. GoesOn(r) /\ UNCHANGED <<item, job, people, taken, overtaken>>
  BY DEF Withdraws
<1>3. o.at \notin Begun \union {"next"} /\ o.at \in Owning
  BY <1>1 DEF Begun, Owning
<1>4. Owns(o)
  BY <1>1, <1>3, RunIs DEF Proper
<1>5. CASE row[CopyOf(o)] # "SENT"
  <2>1. row' = row
    BY <1>1, <1>5 DEF Withdraws
  <2>2. row[CopyOf(o)] # "PENDING"
    BY <1>4 DEF Owns
  <2> QED
    BY <1>1, <1>2, <1>3, <2>1, <2>2, NothingToWrite
<1>6. CASE row[CopyOf(o)] = "SENT"
  <2>1. PICK status \in Status : status = "recipient-objected"
    BY DEF Status, Failures
  <2>2. row' = [row EXCEPT ![CopyOf(o)] = status]
    BY <1>1, <1>6, <2>1 DEF Withdraws
  <2>3. PICK n \in Nat : n = 0 /\ n = taken[CopyOf(o)]
    BY <1>1, <1>4 DEF Owns
  <2>4. taken' = [taken EXCEPT ![CopyOf(o)] = n]
    BY <1>2, <2>3 DEF IInv, TypeOK
  <2>5. /\ status \notin {"PENDING", "absent"}
        /\ n # 0 => status \in {"SENT", "send-failed", "deleted"}
    BY <2>1, <2>3
  <2>6. UNCHANGED <<item, job, people, overtaken>>
    BY <1>2
  <2>7. CopyOf(o) \in overtaken => n = 0
    BY <2>3
  <2> QED
    BY <1>1, <1>2, <1>3, <2>2, <2>4, <2>5, <2>6, <2>7, CopyIsDone
<1> QED
  BY <1>5, <1>6

LEMMA NotesKeeps ==
  ASSUME IInv, NEW r \in Runs, Notes(r)
  PROVE  IInv'
<1>1. PICK o : o = run[r] /\ o # None /\ o.at = "failing" /\ CopyOf(o) = Copy(r)
  BY DEF Notes, At, CopyOf, Copy
<1>2. UNCHANGED <<item, people, taken, overtaken>>
  BY DEF Notes
<1>3. o.at \notin Begun \union {"next"} /\ o.at \in Owning
  BY <1>1 DEF Begun, Owning
<1>4. Owns(o)
  BY <1>1, <1>3, RunIs DEF Proper
<1>5. CASE row[CopyOf(o)] = "deleted"
  <2>1. Fails(r) /\ UNCHANGED row
    BY <1>1, <1>5 DEF Notes
  <2> QED
    BY <1>1, <1>2, <2>1, RunEnds
<1>6. CASE row[CopyOf(o)] # "deleted"
  <2>1. GoesOn(r) /\ UNCHANGED job
    BY <1>1, <1>6 DEF Notes
  <2>2. PICK status \in Status : /\ status = o.why
                                 /\ status \in {"send-failed", "recipient-gone"}
    BY <1>1, <1>4 DEF Owns, Status, Failures
  <2>3. row' = [row EXCEPT ![CopyOf(o)] = status]
    BY <1>1, <1>6, <2>2 DEF Notes
  <2>4. PICK n \in Nat : n = taken[CopyOf(o)]
    BY <1>1, <1>3, CopyInHand
  <2>5. taken' = [taken EXCEPT ![CopyOf(o)] = n]
    BY <1>2, <2>4 DEF IInv, TypeOK
  <2>6. n # 0 => status = "send-failed"
    BY <1>4, <2>2, <2>4 DEF Owns
  <2>7. CopyOf(o) \in overtaken => n = 0
    BY <1>1, <1>3, <2>4, CopyInHand DEF Entered
  <2> QED
    BY <1>1, <1>2, <1>3, <2>1, <2>2, <2>3, <2>5, <2>6, <2>7, CopyIsDone
<1> QED
  BY <1>5, <1>6

(* The conditional update that claims a copy for one run. *)
LEMMA ClaimedIs ==
  ASSUME IInv, NEW r \in Runs, NEW o, o = run[r], o # None, o.at = "claiming",
         Claimed(r), UNCHANGED <<item, people, taken>>
  PROVE  /\ row[CopyOf(o)] = "PENDING" /\ taken[CopyOf(o)] = 0
         /\ row' = [row EXCEPT ![CopyOf(o)] = "SENT"]
         /\ taken' = [taken EXCEPT ![CopyOf(o)] = 0]
         /\ overtaken' \subseteq overtaken \union {CopyOf(o)} /\ overtaken \subseteq overtaken'
         /\ item' = item /\ objects' = objects /\ erased' = erased
         /\ item # None => o.channel \in item.mailed
         /\ CopyOf(o) \in overtaken' => o.to \in objects \union erased
         /\ row'[CopyOf(o)] = "SENT" /\ taken'[CopyOf(o)] = 0
<1>1. /\ o \in Run /\ Proper(o) /\ CopyOf(o) \in Copies /\ CopyOf(o) = Copy(r)
      /\ Entered(CopyOf(o))
  BY CopyInHand DEF Begun
<1>2. row[CopyOf(o)] = "PENDING" /\ taken[CopyOf(o)] = 0 /\ CopyOf(o) \notin overtaken
  BY <1>1 DEF Claimed, Entered
<1>3. /\ row \in [Copies -> Status] /\ taken \in [Copies -> Nat]
  BY DEF IInv, TypeOK
<1>4. row' = [row EXCEPT ![CopyOf(o)] = "SENT"]
  BY <1>1 DEF Claimed
<1>5. taken' = [taken EXCEPT ![CopyOf(o)] = 0]
  BY <1>2, <1>3
<1>6. /\ overtaken' \subseteq overtaken \union {CopyOf(o)} /\ overtaken \subseteq overtaken'
      /\ CopyOf(o) \in overtaken' => o.to \in objects
  BY <1>1, <1>2 DEF Claimed
<1>7. item # None => o.channel \in item.mailed
  BY <1>1 DEF Proper
<1>8. row'[CopyOf(o)] = "SENT" /\ taken'[CopyOf(o)] = 0
  BY <1>1, <1>3, <1>4, <1>5
<1>9. item' = item /\ objects' = objects /\ erased' = erased
  BY DEF people
<1> QED
  BY <1>2, <1>4, <1>5, <1>6, <1>7, <1>8, <1>9

LEMMA ClaimsKeeps ==
  ASSUME IInv, NEW r \in Runs, Claims(r)
  PROVE  IInv'
<1>1. PICK o : o = run[r] /\ o # None /\ o.at = "claiming"
  BY DEF Claims, At
<1>2. Claimed(r) /\ UNCHANGED <<item, job, people, taken>>
  BY DEF Claims
<1>3. /\ row[CopyOf(o)] = "PENDING"
      /\ row' = [row EXCEPT ![CopyOf(o)] = "SENT"]
      /\ taken' = [taken EXCEPT ![CopyOf(o)] = 0]
      /\ overtaken' \subseteq overtaken \union {CopyOf(o)} /\ overtaken \subseteq overtaken'
      /\ item' = item /\ objects' = objects /\ erased' = erased
      /\ item # None => o.channel \in item.mailed
      /\ CopyOf(o) \in overtaken' => o.to \in objects \union erased
      /\ row'[CopyOf(o)] = "SENT" /\ taken'[CopyOf(o)] = 0
  BY <1>1, <1>2, ClaimedIs
<1>4. o \in Run /\ o.at \notin Begun \union {"next"}
  BY <1>1, RunIs DEF Begun
<1>5. PICK x : x = [o EXCEPT !.at = "asking"]
  OBVIOUS
<1>6. /\ x \in Run /\ x.at = "asking" /\ x.job = o.job /\ x.channel = o.channel
      /\ x.to = o.to /\ x.todo = o.todo
  BY <1>4, <1>5 DEF Run
<1>7. Becomes(r, x)
  BY <1>1, <1>5 DEF Claims, Proceed, Becomes, IInv, TypeOK
<1>9. PICK status \in Status : status = "SENT"
  BY DEF Status
<1>10. PICK n \in Nat : n = 0
  OBVIOUS
<1>11. job' = job
  BY <1>2
<1>12. JobOnly(o)
  BY <1>11, SameJobs DEF JobOnly
<1>13. Writes(o, status, n)
  BY <1>3, <1>9, <1>10 DEF Writes
<1>14. Follows(o, x, status, n)
  BY <1>6, <1>9, <1>10, <1>11 DEF Follows, KeepsIt, Begun
<1> QED
  BY <1>1, <1>4, <1>6, <1>7, <1>12, <1>13, <1>14, RowStep

LEMMA ClaimAnswerLostKeeps ==
  ASSUME IInv, NEW r \in Runs, ClaimAnswerLost(r)
  PROVE  IInv'
<1>1. PICK o : o = run[r] /\ o # None /\ o.at = "claiming"
  BY DEF ClaimAnswerLost, At
<1>2. Claimed(r) /\ UNCHANGED <<item, people, taken>> /\ Fails(r)
  BY DEF ClaimAnswerLost
<1>3. /\ row[CopyOf(o)] = "PENDING"
      /\ row' = [row EXCEPT ![CopyOf(o)] = "SENT"]
      /\ taken' = [taken EXCEPT ![CopyOf(o)] = 0]
      /\ overtaken' \subseteq overtaken \union {CopyOf(o)} /\ overtaken \subseteq overtaken'
      /\ item' = item /\ objects' = objects /\ erased' = erased
      /\ item # None => o.channel \in item.mailed
      /\ CopyOf(o) \in overtaken' => o.to \in objects \union erased
  BY <1>1, <1>2, ClaimedIs
<1>4. o.at \notin Begun \union {"next"}
  BY <1>1 DEF Begun
<1>5. PICK status \in Status : status = "SENT"
  BY DEF Status
<1>6. PICK n \in Nat : n = 0
  OBVIOUS
<1>7. Becomes(r, None) /\ JobOnly(o)
  BY <1>1, <1>2, JobFails DEF JobOnly
<1>8. Writes(o, status, n)
  BY <1>3, <1>5, <1>6 DEF Writes
<1>9. Follows(o, None, status, n)
  BY DEF Follows
<1> QED
  BY <1>1, <1>4, <1>7, <1>8, <1>9, RowStep

(* mail.send: whatever the server answers, the run owned the copy, and no   *)
(* run did before it.                                                       *)
LEMMA SentKeeps ==
  ASSUME IInv, NEW r \in Runs, Sent(r)
  PROVE  IInv'
<1>1. PICK o : o = run[r] /\ o # None /\ o.at = "sending" /\ CopyOf(o) = Copy(r)
  BY DEF Sent, At, CopyOf, Copy
<1>2. o.at \notin Begun \union {"next"} /\ o.at \in Owning
  BY <1>1 DEF Begun, Owning
<1>3. /\ o \in Run /\ Proper(o) /\ CopyOf(o) \in Copies /\ o.to \in Persons
      /\ row[CopyOf(o)] \in Status
  BY <1>1, <1>2, CopyInHand
<1>4. /\ row[CopyOf(o)] \in {"SENT", "deleted"} /\ taken[CopyOf(o)] = 0
      /\ CopyOf(o) \notin overtaken
  BY <1>1, <1>2, <1>3 DEF Proper, Owns
<1>5. /\ item' = item /\ row' = row /\ job' = job /\ overtaken' = overtaken
      /\ objects' = objects /\ erased' = erased
      /\ taken' = [taken EXCEPT ![CopyOf(o)] = taken[CopyOf(o)] + 1]
  BY <1>1 DEF Sent, people
<1>6. PICK n \in Nat : n = taken[CopyOf(o)] + 1
  BY <1>4
<1>7. PICK status \in Status : status = row[CopyOf(o)]
  BY <1>3
<1>8. /\ row' = [row EXCEPT ![CopyOf(o)] = status] /\ taken' = [taken EXCEPT ![CopyOf(o)] = n]
  BY <1>4, <1>5, <1>6, <1>7 DEF IInv, TypeOK
<1>9. /\ status \notin {"PENDING", "absent"} /\ status # "PENDING"
      /\ n # 0 => status \in {"SENT", "send-failed", "deleted"}
  BY <1>4, <1>7
<1>10. UNCHANGED <<item, job, people, overtaken>>
  BY DEF Sent
<1>11. /\ CopyOf(o) \in overtaken => n = 0
       /\ CopyOf(o) \in overtaken' => n = 0 /\ status # "absent" /\ o.to \in objects \union erased
  BY <1>4, <1>5
<1>12. CASE GoesOn(r)
  BY <1>1, <1>2, <1>8, <1>12, <1>9, <1>10, <1>11, CopyIsDone
<1>13. CASE run' = [run EXCEPT ![r].at = "failing", ![r].why = "send-failed"]
  <2>1. PICK x : x = [o EXCEPT !.at = "failing", !.why = "send-failed"]
    OBVIOUS
  <2>2. /\ x \in Run /\ x.at = "failing" /\ x.why = "send-failed" /\ x.job = o.job
        /\ x.channel = o.channel /\ x.to = o.to /\ x.todo = o.todo
    BY <1>3, <2>1 DEF Run, Failures
  <2>3. Becomes(r, x)
    BY <1>1, <1>13, <2>1 DEF Becomes, IInv, TypeOK
  <2>4. item # None => o.channel \in item.mailed
    BY <1>1, <1>3 DEF Proper
  <2>5. JobOnly(o)
    BY <1>5, SameJobs DEF JobOnly
  <2>6. Writes(o, status, n)
    BY <1>2, <1>5, <1>8, <1>9, <1>11, <2>4 DEF Writes
  <2>7. Follows(o, x, status, n)
    BY <1>4, <1>5, <1>7, <2>2 DEF Follows, KeepsIt, Begun
  <2> QED
    BY <1>1, <1>2, <2>2, <2>3, <2>5, <2>6, <2>7, RowStep
<1> QED
  BY <1>12, <1>13 DEF Sent

LEMMA RunStartsKeeps ==
  ASSUME IInv, NEW r \in Runs, NEW k \in Jobs, RunStarts(r, k)
  PROVE  IInv'
<1> DEFINE x == [job |-> k, channel |-> k[1], todo |-> {}, to |-> None, why |-> None,
                 at |-> "reading"]
           j == [job[k] EXCEPT !.state = "active"]
<1>1. /\ run[r] = None
  BY DEF RunStarts, IdleRuns
<1>2. /\ job[k] # None /\ job[k].state = "waiting" /\ job' = [job EXCEPT ![k] = j]
      /\ run' = [run EXCEPT ![r] = x]
      /\ item' = item /\ row' = row /\ objects' = objects /\ erased' = erased
      /\ taken' = taken /\ overtaken' = overtaken
  BY DEF RunStarts, people, IInv, TypeOK
<1>3. x \in Run /\ k[1] \in Channels
  BY DEF Run, Jobs
<1>4. j \in Job /\ j.state = "active"
  BY <1>2 DEF IInv, TypeOK, Job
<1>5. x # None /\ j # None
  BY <1>3, <1>4, NoneAssumption
<1>6. x.job = k /\ x.channel = k[1] /\ x.at = "reading"
  OBVIOUS
<1> HIDE DEF x, j
<1>7. /\ run' \in [Runs -> Run \union {None}] /\ run'[r] = x
      /\ \A s \in Runs : s # r => run'[s] = run[s]
      /\ job' \in [Jobs -> Job \union {None}] /\ job'[k] = j
      /\ \A l \in Jobs : l # k => job'[l] = job[l]
  BY <1>2, <1>3, <1>4 DEF IInv, TypeOK
<1>8. TypeOK'
  BY <1>2, <1>7 DEF IInv, TypeOK
<1>9. ASSUME NEW s \in Runs, NEW q, q = run[s], q # None
      PROVE  Proper(q)' /\ (q.job # None => q.job # k)
  <2>1. q \in Run /\ Proper(q)
    BY <1>9, RunIs
  <2>2. q.job # None => q.job # k /\ q.job \in Jobs
    BY <1>2, <2>1 DEF Proper, HasJob, Run
  <2>3. HasJob(q)'
    BY <1>7, <2>1, <2>2 DEF Proper, HasJob
  <2> QED
    BY <1>2, <2>1, <2>2, <2>3 DEF Proper, Covers, Owns, CopyOf
<1>10. Proper(x)'
  BY <1>4, <1>5, <1>6, <1>7 DEF Proper, HasJob, Covers, Begun, Owning
<1>11. RunsAreProper'
  <2> SUFFICES ASSUME NEW s \in Runs, NEW q, q = run'[s], q # None
               PROVE  Proper(q)'
    BY DEF RunsAreProper
  <2> QED
    BY <1>7, <1>9, <1>10
<1>12. RunsAreApart'
  <2> SUFFICES ASSUME NEW s \in Runs, NEW t \in Runs, s # t,
                      NEW p, p = run'[s], p # None, NEW q, q = run'[t], q # None
               PROVE  Apart(p, q)
    BY DEF RunsAreApart, Apart, CopyOf
  <2>1. CASE s # r /\ t # r
    BY <1>7, <2>1 DEF IInv, RunsAreApart
  <2>2. CASE s = r
    BY <1>6, <1>7, <1>9, <2>2 DEF Apart, Owning
  <2>3. CASE t = r
    BY <1>6, <1>7, <1>9, <2>3 DEF Apart, Owning
  <2> QED
    BY <2>1, <2>2, <2>3
<1>13. LedgerIsProper' /\ AppsMailNobody'
  BY <1>2 DEF IInv, LedgerIsProper, Entered, AppsMailNobody
<1>14. NoCopyIsStranded'
  <2>1. NothingWaitsAgain /\ JobsCover
    BY <1>2, <1>5, <1>7 DEF NothingWaitsAgain, JobsCover
  <2> QED
    BY <1>2, <2>1, StrandedStays DEF IInv
<1> QED
  BY <1>8, <1>11, <1>12, <1>13, <1>14 DEF IInv

LEMMA WorksKeeps ==
  ASSUME IInv, NEW r \in Runs, Works(r)
  PROVE  IInv'
BY ReadsItemKeeps, ListsKeeps, FinishesKeeps, TakesKeeps, RefusesKeeps, ClaimsKeeps,
   SkipsKeeps, AsksAgainKeeps, WithdrawsKeeps, AddressesKeeps, SentKeeps, SendFailsKeeps,
   NotesKeeps DEF Works

-----------------------------------------------------------------------------
(* The steps of the others, who change no run but by giving up its job. *)
LEMMA OthersStep ==
  ASSUME IInv, TypeOK', run' = run, LedgerIsProper', NoCopyIsStranded', AppsMailNobody',
         \A r \in Runs : \A o \in {run[r]} \ {None} : Proper(o)'
  PROVE  IInv'
<1>1. RunsAreProper'
  <2> SUFFICES ASSUME NEW r \in Runs, NEW o, o = run'[r], o # None
               PROVE  Proper(o)'
    BY DEF RunsAreProper
  <2> QED
    OBVIOUS
<1>2. RunsAreApart'
  BY DEF IInv, RunsAreApart, Apart, CopyOf
<1> QED
  BY <1>1, <1>2 DEF IInv

(* Objections, restrictions and erasures. *)
LEMMA PeopleStep ==
  ASSUME IInv, UNCHANGED <<item, row, job, run, taken>>,
         objects' \in SUBSET Persons, erased' \in SUBSET Persons, erased \subseteq erased',
         overtaken' \subseteq overtaken,
         \A c \in overtaken' : c[2] \in objects' \union erased'
  PROVE  IInv'
<1>1. item' = item /\ row' = row /\ job' = job /\ run' = run /\ taken' = taken
  OBVIOUS
<1>2. TypeOK' /\ NoCopyIsStranded' /\ AppsMailNobody'
  BY <1>1 DEF IInv, TypeOK, NoCopyIsStranded, AppsMailNobody
<1>3. LedgerIsProper'
  <2> SUFFICES ASSUME NEW c \in Copies PROVE Entered(c)'
    BY DEF LedgerIsProper, Copies
  <2>1. Entered(c)
    BY DEF IInv, LedgerIsProper
  <2> QED
    BY <1>1, <2>1 DEF Entered
<1>4. ASSUME NEW r \in Runs, NEW o, o = run[r], o # None
      PROVE  Proper(o)'
  <2>1. o \in Run /\ Proper(o)
    BY <1>4, RunIs
  <2>2. NothingWaitsAgain /\ HasJob(o)'
    BY <1>1, <2>1 DEF NothingWaitsAgain, HasJob, Proper
  <2>3. o.at \in Owning => Owns(o)'
    BY <1>1, <2>1, OwnerKeepsCopy DEF Proper
  <2> QED
    BY <1>1, <2>1, <2>2, <2>3, ProperStays
<1> QED
  BY <1>1, <1>2, <1>3, <1>4, OthersStep

LEMMA OvertakenAre ==
  ASSUME IInv, NEW c \in overtaken
  PROVE  c \in Copies /\ c[2] \in objects \union erased
<1>1. c \in Copies
  BY DEF IInv, TypeOK
<1>2. Entered(c)
  BY <1>1 DEF IInv, LedgerIsProper
<1> QED
  BY <1>1, <1>2 DEF Entered

LEMMA ObjectKeeps ==
  ASSUME IInv, NEW p \in Persons, Object(p)
  PROVE  IInv'
<1>1. /\ UNCHANGED <<item, row, job, run, taken>>
      /\ objects' = objects \union {p} /\ erased' = erased /\ overtaken' = overtaken
  BY DEF Object
<1>2. objects \in SUBSET Persons /\ erased \in SUBSET Persons
  BY DEF IInv, TypeOK
<1>3. \A c \in overtaken' : c[2] \in objects' \union erased'
  BY <1>1, OvertakenAre
<1> QED
  BY <1>1, <1>2, <1>3, PeopleStep

LEMMA WithdrawKeeps ==
  ASSUME IInv, NEW p \in Persons, Withdraw(p)
  PROVE  IInv'
<1>1. /\ UNCHANGED <<item, row, job, run, taken>>
      /\ objects' = objects \ {p} /\ erased' = erased
      /\ overtaken' = {c \in overtaken : c[2] # p}
  BY DEF Withdraw
<1>2. objects \in SUBSET Persons /\ erased \in SUBSET Persons
  BY DEF IInv, TypeOK
<1>3. \A c \in overtaken' : c[2] \in objects' \union erased'
  BY <1>1, OvertakenAre
<1> QED
  BY <1>1, <1>2, <1>3, PeopleStep

LEMMA EraseKeeps ==
  ASSUME IInv, NEW p \in Persons, Erase(p)
  PROVE  IInv'
<1>1. /\ UNCHANGED <<item, row, job, run, taken>>
      /\ objects' = objects \ {p} /\ erased' = erased \union {p} /\ overtaken' = overtaken
  BY DEF Erase
<1>2. objects \in SUBSET Persons /\ erased \in SUBSET Persons
  BY DEF IInv, TypeOK
<1>3. \A c \in overtaken' : c[2] \in objects' \union erased'
  BY <1>1, OvertakenAre
<1> QED
  BY <1>1, <1>2, <1>3, PeopleStep

LEMMA RemoveKeeps ==
  ASSUME IInv, Remove
  PROVE  IInv'
<1>1. /\ item' = None /\ job' = job /\ run' = run /\ taken' = taken
      /\ objects' = objects /\ erased' = erased /\ overtaken' = overtaken
      /\ row' = [c \in Copies |-> IF row[c] = "absent" THEN "absent" ELSE "deleted"]
  BY DEF Remove, people
<1>2. "absent" \in Status /\ "deleted" \in Status
  BY DEF Status
<1>3. \A c \in Copies : row'[c] = IF row[c] = "absent" THEN "absent" ELSE "deleted"
  BY <1>1
<1>4. TypeOK'
  BY <1>1, <1>2 DEF IInv, TypeOK
<1>5. NothingWaitsAgain /\ \A c \in Copies : row'[c] # "PENDING"
  BY <1>3 DEF NothingWaitsAgain
<1>6. NoCopyIsStranded' /\ AppsMailNobody'
  BY <1>1 DEF NoCopyIsStranded, AppsMailNobody
<1>7. LedgerIsProper'
  <2> SUFFICES ASSUME NEW c \in Copies PROVE Entered(c)'
    BY DEF LedgerIsProper, Copies
  <2>1. Entered(c)
    BY DEF IInv, LedgerIsProper
  <2> QED
    BY <1>1, <1>3, <2>1 DEF Entered
<1>8. ASSUME NEW r \in Runs, NEW o, o = run[r], o # None
      PROVE  Proper(o)'
  <2>1. o \in Run /\ Proper(o)
    BY <1>8, RunIs
  <2>2. HasJob(o)'
    BY <1>1, <2>1 DEF HasJob, Proper
  <2>3. ASSUME o.at \in Owning PROVE Owns(o)'
    <3>1. Owns(o) /\ CopyOf(o) \in Copies
      BY <2>1, <2>3, CopyOfIs DEF Proper, Owning, Begun
    <3>2. row'[CopyOf(o)] \in {row[CopyOf(o)], "deleted"}
      BY <1>3, <3>1 DEF Owns
    <3>3. taken'[CopyOf(o)] = taken[CopyOf(o)]
      BY <1>1
    <3> QED
      BY <1>1, <3>1, <3>2, <3>3, OwnerKeepsCopy
  <2> QED
    BY <1>1, <1>5, <2>1, <2>2, <2>3, ProperStays
<1> QED
  BY <1>1, <1>4, <1>6, <1>7, <1>8, OthersStep

(* recordAbandoned gives up the waiting copies of a job no run has. *)
LEMMA RecordsAbandonedKeeps ==
  ASSUME IInv, NEW k \in Jobs, RecordsAbandoned(k)
  PROVE  IInv'
<1>1. /\ item' = item /\ run' = run /\ taken' = taken /\ overtaken' = overtaken
      /\ objects' = objects /\ erased' = erased
      /\ job[k] # None /\ job[k].state = "abandoned" /\ job' = [job EXCEPT ![k] = None]
      /\ row' = [c \in Copies |-> IF c[1] = k[1] /\ row[c] = "PENDING"
                                  THEN "mailing-interrupted" ELSE row[c]]
  BY DEF RecordsAbandoned, people
<1>2. /\ job' \in [Jobs -> Job \union {None}]
      /\ \A l \in Jobs : l # k => job'[l] = job[l]
  BY <1>1 DEF IInv, TypeOK
<1>3. \A c \in Copies : IF c[1] = k[1] /\ row[c] = "PENDING"
                        THEN row'[c] = "mailing-interrupted" ELSE row'[c] = row[c]
  BY <1>1
<1>4. "mailing-interrupted" \in Status
  BY DEF Status, Failures
<1>5. TypeOK'
  BY <1>1, <1>2, <1>4 DEF IInv, TypeOK
<1>6. NothingWaitsAgain
  BY <1>3 DEF NothingWaitsAgain
<1>7. \A p \in Persons : row'[<<k[1], p>>] # "PENDING"
  <2> SUFFICES ASSUME NEW p \in Persons PROVE row'[<<k[1], p>>] # "PENDING"
    OBVIOUS
  <2>1. <<k[1], p>> \in Copies /\ <<k[1], p>>[1] = k[1]
    BY DEF Jobs, Copies
  <2> QED
    BY <1>3, <2>1
<1>8. JobsCover
  BY <1>2, <1>7 DEF JobsCover
<1>9. NoCopyIsStranded' /\ AppsMailNobody'
  BY <1>1, <1>6, <1>8, StrandedStays, AppsStay DEF IInv
<1>10. LedgerIsProper'
  <2> SUFFICES ASSUME NEW c \in Copies PROVE Entered(c)'
    BY DEF LedgerIsProper, Copies
  <2>1. Entered(c)
    BY DEF IInv, LedgerIsProper
  <2> QED
    BY <1>1, <1>3, <2>1 DEF Entered
<1>11. ASSUME NEW r \in Runs, NEW o, o = run[r], o # None
       PROVE  Proper(o)'
  <2>1. o \in Run /\ Proper(o)
    BY <1>11, RunIs
  <2>2. HasJob(o)'
    <3>1. o.job # None => o.job \in Jobs /\ o.job # k
      BY <1>1, <2>1 DEF Run, Proper, HasJob
    <3> QED
      BY <1>2, <2>1, <3>1 DEF Proper, HasJob
  <2>3. ASSUME o.at \in Owning PROVE Owns(o)'
    <3>1. Owns(o) /\ CopyOf(o) \in Copies
      BY <2>1, <2>3, CopyOfIs DEF Proper, Owning, Begun
    <3>2. Untouched(CopyOf(o))
      BY <1>1, <1>3, <3>1 DEF Untouched, Owns
    <3> QED
      BY <1>1, <3>1, <3>2, OwnerKeepsCopy
  <2> QED
    BY <1>1, <1>6, <2>1, <2>2, <2>3, ProperStays
<1> QED
  BY <1>1, <1>5, <1>9, <1>10, <1>11, OthersStep

(* The queue takes a run for dead: the run goes on without its job. *)
LEMMA ExpiresKeeps ==
  ASSUME IInv, NEW k \in Jobs, Expires(k)
  PROVE  IInv'
<1> DEFINE j == Failed(job[k])
<1>1. /\ item' = item /\ row' = row /\ taken' = taken /\ overtaken' = overtaken
      /\ objects' = objects /\ erased' = erased
      /\ job[k] # None /\ job' = [job EXCEPT ![k] = j]
      /\ run' = [r \in Runs |-> IF run[r] # None /\ run[r].job = k
                                THEN [run[r] EXCEPT !.job = None] ELSE run[r]]
  BY DEF Expires, people, IInv, TypeOK
<1>2. j \in Job /\ j # None
  BY <1>1, FailedIs DEF IInv, TypeOK
<1> HIDE DEF j
<1>3. /\ job' \in [Jobs -> Job \union {None}] /\ job'[k] = j
      /\ \A l \in Jobs : l # k => job'[l] = job[l]
  BY <1>1, <1>2 DEF IInv, TypeOK
<1>4. ASSUME NEW o \in Run, o.job = k
      PROVE  /\ [o EXCEPT !.job = None] \in Run /\ [o EXCEPT !.job = None].job = None
             /\ [o EXCEPT !.job = None].at = o.at /\ [o EXCEPT !.job = None].to = o.to
             /\ [o EXCEPT !.job = None].channel = o.channel
             /\ [o EXCEPT !.job = None].todo = o.todo
             /\ [o EXCEPT !.job = None].why = o.why
  BY <1>4 DEF Run
<1>5. ASSUME NEW r \in Runs, NEW q, q = run'[r], q # None
      PROVE  \E o \in Run : /\ o = run[r] /\ q \in Run
                            /\ q.job = IF o.job = k THEN None ELSE o.job
                            /\ q.at = o.at /\ q.to = o.to /\ q.why = o.why
                            /\ q.channel = o.channel /\ q.todo = o.todo
  <2>1. PICK o : o = run[r]
    OBVIOUS
  <2>2. q = IF o # None /\ o.job = k THEN [o EXCEPT !.job = None] ELSE o
    BY <1>1, <1>5, <2>1
  <2>3. o # None /\ o \in Run
    BY <1>5, <2>1, <2>2 DEF IInv, TypeOK
  <2>4. CASE o.job = k
    BY <1>4, <2>1, <2>2, <2>3, <2>4
  <2>5. CASE o.job # k
    BY <2>1, <2>2, <2>3, <2>5
  <2> QED
    BY <2>4, <2>5
<1>6. ASSUME NEW r \in Runs
      PROVE  run'[r] \in Run \union {None}
  <2>1. PICK q : q = run'[r]
    OBVIOUS
  <2> QED
    BY <1>5, <2>1
<1>7. TypeOK'
  <2>1. run' \in [Runs -> Run \union {None}]
    BY <1>1, <1>6
  <2> QED
    BY <1>1, <1>3, <2>1 DEF IInv, TypeOK
<1>8. RunsAreProper'
  <2> SUFFICES ASSUME NEW r \in Runs, NEW q, q = run'[r], q # None
               PROVE  Proper(q)'
    BY DEF RunsAreProper
  <2>1. PICK o \in Run : /\ o = run[r] /\ q \in Run
                         /\ q.job = IF o.job = k THEN None ELSE o.job
                         /\ q.at = o.at /\ q.to = o.to /\ q.why = o.why
                         /\ q.channel = o.channel /\ q.todo = o.todo
    BY <1>5
  <2>2. Proper(o)
    <3>1. o # None
      BY NoneAssumption
    <3> QED
      BY <2>1, <3>1, RunIs
  <2>3. HasJob(q)'
    <3> SUFFICES ASSUME q.job # None
                 PROVE  HasJob(q)'
      BY DEF HasJob
    <3>1. q.job = o.job /\ o.job # k /\ o.job \in Jobs
      BY <2>1 DEF Run
    <3> QED
      BY <1>3, <2>1, <2>2, <3>1 DEF Proper, HasJob
  <2>4. CopyOf(q) = CopyOf(o)
    BY <2>1 DEF CopyOf
  <2>5. q.at \in Owning => Owns(q)'
    BY <1>1, <2>1, <2>2, <2>4 DEF Proper, Owns, CopyOf
  <2>6. Covers(q)'
    BY <1>1, <2>1, <2>2 DEF Proper, Covers
  <2> QED
    BY <1>1, <2>1, <2>2, <2>3, <2>5, <2>6 DEF Proper
<1>9. RunsAreApart'
  <2> SUFFICES ASSUME NEW s \in Runs, NEW t \in Runs, s # t,
                      NEW p, p = run'[s], p # None, NEW q, q = run'[t], q # None
               PROVE  Apart(p, q)
    BY DEF RunsAreApart, Apart, CopyOf
  <2>1. PICK o \in Run : /\ o = run[s] /\ p \in Run
                         /\ p.job = IF o.job = k THEN None ELSE o.job
                         /\ p.at = o.at /\ p.to = o.to /\ p.why = o.why
                         /\ p.channel = o.channel /\ p.todo = o.todo
    BY <1>5
  <2>2. PICK u \in Run : /\ u = run[t] /\ q \in Run
                         /\ q.job = IF u.job = k THEN None ELSE u.job
                         /\ q.at = u.at /\ q.to = u.to /\ q.why = u.why
                         /\ q.channel = u.channel /\ q.todo = u.todo
    BY <1>5
  <2>3. Apart(o, u)
    <3>1. o # None /\ u # None
      BY NoneAssumption
    <3> QED
      BY <2>1, <2>2, <3>1 DEF IInv, RunsAreApart
  <2>4. CopyOf(p) = CopyOf(o) /\ CopyOf(q) = CopyOf(u)
    BY <2>1, <2>2 DEF CopyOf
  <2>5. p.job # None => p.job = o.job /\ o.job # u.job
    BY <2>1, <2>3 DEF Apart
  <2> QED
    BY <2>1, <2>2, <2>3, <2>4, <2>5 DEF Apart
<1>10. LedgerIsProper' /\ AppsMailNobody'
  BY <1>1 DEF IInv, LedgerIsProper, Entered, AppsMailNobody
<1>11. NoCopyIsStranded'
  <2>1. NothingWaitsAgain /\ JobsCover
    BY <1>1, <1>2, <1>3 DEF NothingWaitsAgain, JobsCover
  <2> QED
    BY <1>1, <2>1, StrandedStays DEF IInv
<1> QED
  BY <1>7, <1>8, <1>9, <1>10, <1>11 DEF IInv

-----------------------------------------------------------------------------
(* A publish.  What it queues: a job on a slot nobody holds. *)
LEMMA EnqueueIs ==
  ASSUME IInv, NEW channels \in SUBSET Channels, Enqueue(channels)
  PROVE  /\ job' \in [Jobs -> Job \union {None}]
         /\ \A k \in Jobs : job[k] # None => job'[k] = job[k]
         /\ \A ch \in channels : \E s \in Slots : job'[<<ch, s>>] # None
<1> DEFINE j == [state |-> "waiting", left |-> Retries]
<1>1. j \in Job
  BY RetryAssumption DEF Job
<1>2. j # None
  BY <1>1, NoneAssumption
<1>3. job' = [k \in Jobs |-> IF k[1] \in channels /\ k[2] = NextSlot(k[1])
                             THEN j ELSE job[k]]
  BY DEF Enqueue
<1> HIDE DEF j
<1>4. \A k \in Jobs : job'[k] = IF k[1] \in channels /\ k[2] = NextSlot(k[1])
                                THEN j ELSE job[k]
  BY <1>3
<1>5. job' \in [Jobs -> Job \union {None}]
  BY <1>1, <1>3 DEF IInv, TypeOK
<1>6. ASSUME NEW ch \in channels
      PROVE  NextSlot(ch) \in Slots /\ job[<<ch, NextSlot(ch)>>] = None
  <2>1. FreeSlots(ch) # {}
    BY DEF Enqueue
  <2>2. NextSlot(ch) \in FreeSlots(ch)
    BY <2>1 DEF NextSlot
  <2> QED
    BY <2>2 DEF FreeSlots
<1>7. ASSUME NEW k \in Jobs, job[k] # None
      PROVE  job'[k] = job[k]
  <2>1. k = <<k[1], k[2]>>
    BY DEF Jobs
  <2>2. ~(k[1] \in channels /\ k[2] = NextSlot(k[1]))
    BY <1>6, <1>7, <2>1
  <2> QED
    BY <1>4, <2>2
<1>8. ASSUME NEW ch \in channels
      PROVE  \E s \in Slots : job'[<<ch, s>>] # None
  <2>1. PICK s \in Slots : s = NextSlot(ch)
    BY <1>6
  <2>2. <<ch, s>> \in Jobs /\ <<ch, s>>[1] = ch /\ <<ch, s>>[2] = s
    BY DEF Jobs
  <2>3. job'[<<ch, s>>] = j
    BY <1>4, <2>1, <2>2
  <2> QED
    BY <1>2, <2>3
<1> QED
  BY <1>5, <1>7, <1>8

LEMMA PublishKeeps ==
  ASSUME IInv, NEW by \in {"board", "app", "schedule"}, NEW up \in BOOLEAN,
         NEW send \in SUBSET Channels, Publish(by, up, send)
  PROVE  IInv'
<1>1. PICK claimed \in SUBSET Channels : claimed = Sends(up, send)
  BY DEF Sends
<1>2. PICK i \in Item : i = item
  BY DEF Publish, IInv, TypeOK
<1>3. PICK x : x = [item EXCEPT !.up = up, !.first = @ \/ up,
                                !.mailed = @ \union claimed,
                                !.byApp = up /\ by = "app"]
  OBVIOUS
<1>4. /\ item # None /\ item' = x
      /\ up # item.up \/ claimed # {}
      /\ MayPublish(by, up, send)
      /\ Enqueue(claimed \union Resumes(up))
      /\ row' = [c \in Copies |-> IF c[1] \in claimed /\ c[2] \in Recipients
                                  THEN "PENDING" ELSE row[c]]
      /\ run' = run /\ taken' = taken /\ overtaken' = overtaken
      /\ objects' = objects /\ erased' = erased
  BY <1>1, <1>3 DEF Publish, people
<1>5. /\ x \in Item /\ x.up = up /\ x.mailed = i.mailed \union claimed
      /\ (x.byApp <=> up /\ by = "app")
  BY <1>2, <1>3 DEF Item
<1>6. x # None
  BY <1>5, NoneAssumption
<1>7. item'.up = up /\ item'.mailed = item.mailed \union claimed /\ item' # None
  BY <1>2, <1>4, <1>5, <1>6
<1>8. Resumes(up) \in SUBSET Channels
  BY <1>2 DEF Resumes, Item
<1>9. /\ job' \in [Jobs -> Job \union {None}]
      /\ \A k \in Jobs : job[k] # None => job'[k] = job[k]
      /\ \A ch \in claimed \union Resumes(up) : \E s \in Slots : job'[<<ch, s>>] # None
  <2>1. claimed \union Resumes(up) \in SUBSET Channels
    BY <1>8
  <2> QED
    BY <1>4, <2>1, EnqueueIs
<1>10. \A c \in Copies : /\ c[1] \notin claimed => row'[c] = row[c]
                         /\ row'[c] \in {"PENDING", row[c]}
  BY <1>4
<1>11. ASSUME NEW c \in Copies, row[c] # "absent"
       PROVE  c[1] \notin claimed /\ c[1] \in item.mailed
  <2>1. c[1] \in item.mailed
    BY <1>4, <1>11 DEF IInv, LedgerIsProper, Entered
  <2> QED
    BY <1>1, <2>1 DEF Sends
<1>12. TypeOK'
  <2>1. row' \in [Copies -> Status]
    BY <1>4 DEF IInv, TypeOK, Status
  <2> QED
    BY <1>4, <1>5, <1>9, <2>1 DEF IInv, TypeOK
<1>13. LedgerIsProper'
  <2> SUFFICES ASSUME NEW c \in Copies PROVE Entered(c)'
    BY DEF LedgerIsProper, Copies
  <2>1. Entered(c)
    BY DEF IInv, LedgerIsProper
  <2>2. row[c] # "absent" => row'[c] = row[c]
    BY <1>10, <1>11
  <2>3. item' # None /\ c[1] \notin item'.mailed => row'[c] = "absent"
    BY <1>4, <1>7, <1>10, <2>1 DEF Entered
  <2> QED
    BY <1>4, <1>7, <2>1, <2>2, <2>3 DEF Entered
<1>14. NoCopyIsStranded'
  <2> SUFFICES ASSUME NEW c \in Copies, row'[c] = "PENDING", up
               PROVE  \E s \in Slots : job'[<<c[1], s>>] # None
    BY <1>7 DEF NoCopyIsStranded
  <2>1. CASE c[1] \in claimed \union Resumes(up)
    BY <1>9, <2>1
  <2>2. CASE c[1] \notin claimed \union Resumes(up)
    <3>1. row[c] = "PENDING" /\ c[1] \in item.mailed
      BY <1>10, <1>11, <2>2
    <3>2. c = <<c[1], c[2]>> /\ c[1] \in Channels /\ c[2] \in Persons
      BY CopyIs
    <3>3. c[2] \in Waiting(c[1])
      BY <3>1, <3>2 DEF Waiting
    <3>4. item.up
      BY <2>2, <3>1, <3>3 DEF Resumes
    <3>5. PICK s \in Slots : job[<<c[1], s>>] # None
      BY <1>4, <3>1, <3>4 DEF IInv, NoCopyIsStranded
    <3>6. <<c[1], s>> \in Jobs
      BY <3>2 DEF Jobs
    <3> QED
      BY <1>9, <3>5, <3>6
  <2> QED
    BY <2>1, <2>2
<1>15. AppsMailNobody'
  <2> SUFFICES ASSUME up, by = "app", NEW c \in Copies, row'[c] = "PENDING"
               PROVE  FALSE
    BY <1>4, <1>5 DEF AppsMailNobody
  <2>1. send = {} /\ Resumes(up) = {}
    BY <1>4 DEF MayPublish
  <2>2. claimed = {}
    BY <1>1, <2>1 DEF Sends
  <2>3. row[c] = "PENDING" /\ c[1] \in item.mailed
    BY <1>10, <1>11, <2>2
  <2>4. ~item.up
    BY <1>2, <1>4, <2>2 DEF Item
  <2>5. c[2] \in Waiting(c[1])
    BY <2>3, CopyIs DEF Waiting
  <2> QED
    BY <2>1, <2>3, <2>4, <2>5 DEF Resumes
<1>16. ASSUME NEW r \in Runs, NEW o, o = run[r], o # None
       PROVE  Proper(o)'
  <2>1. o \in Run /\ Proper(o) /\ o.channel \in Channels
    BY <1>16, RunIs DEF Run
  <2>2. o.at # "reading" => o.channel \in item.mailed /\ o.channel \notin claimed
    BY <1>1, <1>4, <2>1 DEF Proper, Sends
  <2>3. HasJob(o)'
    <3>1. o.job # None => o.job \in Jobs
      BY <2>1 DEF Run
    <3> QED
      BY <1>9, <2>1, <3>1 DEF Proper, HasJob
  <2>4. Covers(o)'
    <3> SUFFICES ASSUME o.at \notin Begun, NEW p \in Persons,
                        row'[<<o.channel, p>>] = "PENDING"
                 PROVE  p \in o.todo \/ (p = o.to /\ o.at \in {"refusing", "claiming"})
      BY DEF Covers
    <3>1. <<o.channel, p>> \in Copies /\ <<o.channel, p>>[1] = o.channel
      BY <2>1 DEF Copies
    <3>2. row[<<o.channel, p>>] = "PENDING"
      BY <1>10, <2>2, <3>1 DEF Begun
    <3> QED
      BY <2>1, <3>2 DEF Proper, Covers
  <2>5. ASSUME o.at \in Owning PROVE Owns(o)'
    <3>1. Owns(o) /\ CopyOf(o) \in Copies /\ CopyOf(o)[1] = o.channel
      BY <2>1, <2>5, CopyOfIs DEF Proper, Owning, Begun
    <3>2. Untouched(CopyOf(o))
      BY <1>4, <1>10, <2>2, <2>5, <3>1 DEF Untouched, Owning
    <3> QED
      BY <1>4, <3>1, <3>2, OwnerKeepsCopy
  <2>6. o.at # "reading" /\ item' # None => o.channel \in item'.mailed
    BY <1>7, <2>2
  <2> QED
    BY <2>1, <2>3, <2>4, <2>5, <2>6 DEF Proper
<1> QED
  BY <1>4, <1>12, <1>13, <1>14, <1>15, <1>16, OthersStep

-----------------------------------------------------------------------------
LEMMA InitHolds ==
  ASSUME Init
  PROVE  IInv
<1>1. "absent" \in Status
  BY DEF Status
<1>2. item \in Item /\ item.mailed = {} /\ ~item.byApp
  BY DEF Init, Item
<1>3. item # None
  BY <1>2, NoneAssumption
<1>4. \A c \in Copies : row[c] = "absent" /\ taken[c] = 0
  BY DEF Init
<1>5. TypeOK
  BY <1>1, <1>2 DEF Init, TypeOK
<1>6. RunsAreProper /\ RunsAreApart
  BY DEF Init, RunsAreProper, RunsAreApart
<1>7. LedgerIsProper
  BY <1>2, <1>3, <1>4 DEF Init, LedgerIsProper, Entered
<1>8. NoCopyIsStranded /\ AppsMailNobody
  BY <1>2, <1>4 DEF NoCopyIsStranded, AppsMailNobody
<1> QED
  BY <1>5, <1>6, <1>7, <1>8 DEF IInv

LEMMA StutterKeeps ==
  ASSUME IInv, UNCHANGED vars
  PROVE  IInv'
<1>1. /\ UNCHANGED <<item, row, job, run, taken>>
      /\ objects' = objects /\ erased' = erased /\ overtaken' = overtaken
  BY DEF vars, people
<1>2. objects \in SUBSET Persons /\ erased \in SUBSET Persons
  BY DEF IInv, TypeOK
<1>3. \A c \in overtaken' : c[2] \in objects' \union erased'
  BY <1>1, OvertakenAre
<1> QED
  BY <1>1, <1>2, <1>3, PeopleStep

LEMMA NextKeeps ==
  ASSUME IInv, [Next]_vars
  PROVE  IInv'
<1>1. ASSUME NEW by \in {"board", "app", "schedule"}, NEW up \in BOOLEAN,
             NEW send \in SUBSET Channels, Publish(by, up, send)
      PROVE  IInv'
  BY <1>1, PublishKeeps
<1>2. CASE Remove
  BY <1>2, RemoveKeeps
<1>3. ASSUME NEW p \in Persons, Object(p) \/ Withdraw(p) \/ Erase(p)
      PROVE  IInv'
  BY <1>3, ObjectKeeps, WithdrawKeeps, EraseKeeps
<1>4. ASSUME NEW r \in Runs, NEW k \in Jobs, RunStarts(r, k)
      PROVE  IInv'
  BY <1>4, RunStartsKeeps
<1>5. ASSUME NEW r \in Runs, Works(r)
      PROVE  IInv'
  BY <1>5, WorksKeeps
<1>6. ASSUME NEW r \in Runs, ClaimAnswerLost(r)
      PROVE  IInv'
  BY <1>6, ClaimAnswerLostKeeps
<1>7. ASSUME NEW r \in Runs, RunFails(r) \/ Dies(r)
      PROVE  IInv'
  <2>1. /\ run[r] # None /\ UNCHANGED <<item, row, people, taken, overtaken>>
        /\ Fails(r) \/ (Ends(r) /\ UNCHANGED job)
    BY <1>7 DEF RunFails, Dies
  <2> QED
    BY <2>1, RunEnds
<1>8. ASSUME NEW k \in Jobs, Expires(k) \/ RecordsAbandoned(k)
      PROVE  IInv'
  BY <1>8, ExpiresKeeps, RecordsAbandonedKeeps
<1>9. CASE UNCHANGED vars
  BY <1>9, StutterKeeps
<1> QED
  BY <1>1, <1>2, <1>3, <1>4, <1>5, <1>6, <1>7, <1>8, <1>9 DEF Next

(* Whatever board, members, workers and queue do, a row leaves PENDING once *)
(* and for good, and what it says then is the business of the one run that  *)
(* claimed the copy.                                                        *)
THEOREM InvariantHolds == Spec => []IInv
<1>1. Init => IInv
  BY InitHolds
<1>2. IInv /\ [Next]_vars => IInv'
  BY NextKeeps
<1> QED
  BY <1>1, <1>2, PTL DEF Spec

(* The item, the ledger, the queues and the runs are of their types: no    *)
(* statement of news-mailer.service.ts writes a row the ledger cannot hold. *)
THEOREM TypeCorrect == Spec => []TypeOK
<1>1. IInv => TypeOK
  BY DEF IInv
<1> QED
  BY <1>1, InvariantHolds, PTL

(* deliver, second ask: a copy that was claimed past an objection is not   *)
(* handed to the mail server while the objection stands.                   *)
THEOREM ObjectionsAreKept == Spec => []ObjectionStops
<1>1. IInv => ObjectionStops
  <2> SUFFICES ASSUME IInv, NEW c \in overtaken PROVE taken[c] = 0
    BY DEF ObjectionStops
  <2>1. c \in Copies
    BY DEF IInv, TypeOK
  <2> QED
    BY <2>1 DEF IInv, LedgerIsProper, Entered
<1> QED
  BY <1>1, InvariantHolds, PTL

(* The delivery report: a copy the ledger calls waiting, objected to, gone *)
(* or interrupted was handed to nobody, also by a run the queue gave up.   *)
THEOREM TheReportIsTrue == Spec => []ReportIsTrue
<1>1. IInv => ReportIsTrue
  <2> SUFFICES ASSUME IInv, NEW c \in Copies,
                      row[c] \in {"PENDING", "recipient-objected", "recipient-gone",
                                  "mailing-interrupted"}
               PROVE  taken[c] = 0
    BY DEF ReportIsTrue
  <2>1. Entered(c)
    BY DEF IInv, LedgerIsProper
  <2> QED
    BY <2>1 DEF Entered
<1> QED
  BY <1>1, InvariantHolds, PTL

(* publishLocked and enqueueInTransaction: a copy that waits of an item    *)
(* that is up has a job on its channel's queue.                            *)
THEOREM NoCopyIsLeft == Spec => []NoCopyIsStranded
<1>1. IInv => NoCopyIsStranded
  BY DEF IInv
<1> QED
  BY <1>1, InvariantHolds, PTL

(* refuseResumedMailing: what a connected app's action puts up is waited   *)
(* for by nobody.                                                          *)
THEOREM AnAppMailsNobody == Spec => []AppsMailNobody
<1>1. IInv => AppsMailNobody
  BY DEF IInv
<1> QED
  BY <1>1, InvariantHolds, PTL

(* The mail server has taken every copy at most once. *)
HandedOverOnce == \A c \in Copies : taken[c] <= 1

(* deliver under the conditional update: whichever runs die, are given up  *)
(* or started again, the mail server takes no copy twice.                  *)
THEOREM NoCopyGoesTwice == Spec => []HandedOverOnce
<1>1. Init => HandedOverOnce
  BY DEF Init, HandedOverOnce
<1>2. ASSUME IInv, HandedOverOnce, [Next]_vars
      PROVE  HandedOverOnce'
  <2>1. CASE taken' = taken
    BY <1>2, <2>1 DEF HandedOverOnce
  <2>2. ASSUME NEW r \in Runs, Sent(r)
        PROVE  HandedOverOnce'
    <3>1. PICK o : o = run[r] /\ o # None /\ o.at = "sending" /\ CopyOf(o) = Copy(r)
      BY <2>2 DEF Sent, At, CopyOf, Copy
    <3>2. taken[CopyOf(o)] = 0
      BY <1>2, <3>1, RunIs DEF Proper, Owns, Owning
    <3>3. taken' = [taken EXCEPT ![CopyOf(o)] = 1]
      BY <2>2, <3>1, <3>2 DEF Sent
    <3> QED
      BY <1>2, <3>3 DEF HandedOverOnce, IInv, TypeOK
  <2>3. taken' = taken \/ \E r \in Runs : Sent(r)
    BY <1>2 DEF Next, Works, Publish, Remove, Object, Withdraw, Erase, RunStarts, ReadsItem,
       Lists, Finishes, Takes, Refuses, Claims, Skips, AsksAgain, Withdraws, Addresses,
       SendFails, Notes, ClaimAnswerLost, RunFails, Dies, Expires, RecordsAbandoned, vars
  <2> QED
    BY <2>1, <2>2, <2>3
<1>3. IInv /\ HandedOverOnce /\ [Next]_vars => HandedOverOnce'
  BY <1>2
<1> QED
  BY <1>1, <1>3, InvariantHolds, PTL DEF Spec

-----------------------------------------------------------------------------
(* That the mailings implement HeldCall: a copy is a call, the claim gives *)
(* its permit and the mail server runs it.                                 *)
Permitted == {"asking", "addressing", "sending"}
Permits(q, c) == q # None /\ q.at \in Permitted /\ CopyOf(q) = c

PhaseOf(status) ==
    CASE status = "absent" -> "absent" [] status = "PENDING" -> "open"
      [] status = "SENT" -> "taken" [] OTHER -> "over"

LEMMA PhasesAre ==
  /\ phaseBar = [c \in Copies |-> PhaseOf(row[c])]
  /\ phaseBar' = [c \in Copies |-> PhaseOf(row'[c])]
BY DEF phaseBar, PhaseOf

LEMMA PermitsAre ==
  /\ \A c : c \in permitBar <=> c \in Copies /\ \E r \in Runs : Permits(run[r], c)
  /\ \A c : c \in permitBar' <=> c \in Copies /\ \E r \in Runs : Permits(run'[r], c)
BY DEF permitBar, Permits, Permitted, Copy, CopyOf

LEMMA SamePermits ==
  ASSUME \A r \in Runs, c \in Copies : Permits(run'[r], c) <=> Permits(run[r], c)
  PROVE  permitBar' = permitBar
<1>1. \A c : c \in permitBar' <=> c \in permitBar
  BY PermitsAre
<1> QED
  BY <1>1

LEMMA SameOnTheWhole ==
  ASSUME row' = row, taken' = taken, permitBar' = permitBar
  PROVE  UNCHANGED Held!vars
<1>1. phaseBar' = phaseBar
  BY PhasesAre
<1> QED
  BY <1>1 DEF Held!vars

LEMMA PhasesMove ==
  ASSUME NEW S \in SUBSET Copies, NEW v,
         \A c \in S : PhaseOf(row'[c]) = v,
         \A c \in Copies \ S : row'[c] = row[c] \/ PhaseOf(row'[c]) = PhaseOf(row[c])
  PROVE  phaseBar' = [c \in Copies |-> IF c \in S THEN v ELSE phaseBar[c]]
<1>1. \A c \in Copies : phaseBar[c] = PhaseOf(row[c])
  BY PhasesAre
<1>2. \A c \in Copies : PhaseOf(row'[c]) = IF c \in S THEN v ELSE phaseBar[c]
  BY <1>1
<1> QED
  BY <1>2, PhasesAre

LEMMA PhaseMoves ==
  ASSUME NEW c \in Copies, NEW v, PhaseOf(row'[c]) = v,
         \A d \in Copies : d # c => row'[d] = row[d]
  PROVE  phaseBar' = [phaseBar EXCEPT ![c] = v]
<1>1. phaseBar' = [d \in Copies |-> IF d = c THEN v ELSE PhaseOf(row[d])]
  <2>1. \A d \in Copies : PhaseOf(row'[d]) = IF d = c THEN v ELSE PhaseOf(row[d])
    OBVIOUS
  <2> QED
    BY <2>1, PhasesAre
<1> QED
  BY <1>1, PhasesAre

(* Rows that stop waiting, or end as failed or deleted, close their calls. *)
LEMMA RowsClose ==
  ASSUME row \in [Copies -> Status], taken' = taken, permitBar' = permitBar,
         \A c \in Copies : \/ row'[c] = row[c]
                           \/ row[c] # "absent" /\ row'[c] \in Failures \union {"deleted"}
  PROVE  Held!Next
<1> DEFINE S == {c \in Copies : row[c] \in {"PENDING", "SENT"} /\ row'[c] # row[c]}
<1>1. ASSUME NEW c \in S
      PROVE  phaseBar[c] \in {"open", "taken"} /\ PhaseOf(row'[c]) = "over"
  BY <1>1, PhasesAre DEF PhaseOf, Failures
<1>2. ASSUME NEW c \in Copies \ S
      PROVE  row'[c] = row[c] \/ PhaseOf(row'[c]) = PhaseOf(row[c])
  BY <1>2 DEF PhaseOf, Failures
<1>3. S \in SUBSET Copies
  OBVIOUS
<1> HIDE DEF S
<1>6. /\ \A c \in S : PhaseOf(row'[c]) = "over"
      /\ \A c \in Copies \ S : row'[c] = row[c] \/ PhaseOf(row'[c]) = PhaseOf(row[c])
  BY <1>1, <1>2
<1>7. PICK v : v = "over"
  OBVIOUS
<1>8. phaseBar' = [c \in Copies |-> IF c \in S THEN v ELSE phaseBar[c]]
  <2>1. \A c \in S : PhaseOf(row'[c]) = v
    BY <1>6, <1>7
  <2> QED
    BY <1>3, <1>6, <2>1, PhasesMove
<1>4. phaseBar' = [c \in Copies |-> IF c \in S THEN "over" ELSE phaseBar[c]]
  BY <1>7, <1>8
<1>5. Held!Close(S)
  BY <1>1, <1>4 DEF Held!Close
<1> QED
  BY <1>3, <1>5 DEF Held!Next

-----------------------------------------------------------------------------
(* A worker that leaves the ledger alone keeps its permit or loses it. *)
OthersStay(r) == \A s \in Runs : s # r => run'[s] = run[s]

LEMMA SameHand ==
  ASSUME NEW r \in Runs, OthersStay(r),
         \A c \in Copies : Permits(run'[r], c) <=> Permits(run[r], c)
  PROVE  permitBar' = permitBar
<1>1. \A s \in Runs, c \in Copies : Permits(run'[s], c) <=> Permits(run[s], c)
  BY DEF OthersStay
<1> QED
  BY <1>1, SamePermits

LEMMA PermitGoes ==
  ASSUME IInv, NEW r \in Runs, NEW o, o = run[r], o # None, o.at \in Permitted,
         OthersStay(r), NEW x, x = run'[r], x # None => x.at \notin Permitted
  PROVE  /\ CopyOf(o) \in permitBar /\ CopyOf(o) \in Copies
         /\ permitBar' = permitBar \ {CopyOf(o)}
<1>1. o.at \in Owning
  BY DEF Permitted, Owning
<1>2. CopyOf(o) \in Copies
  BY <1>1, CopyInHand DEF Owning, Begun
<1>3. \A s \in Runs : Permits(run[s], CopyOf(o)) => s = r
  <2> SUFFICES ASSUME NEW s \in Runs, s # r, NEW q, q = run[s], Permits(q, CopyOf(o))
               PROVE  FALSE
    OBVIOUS
  <2>1. q # None /\ q.at \in Owning /\ CopyOf(q) = CopyOf(o)
    BY DEF Permits, Permitted, Owning
  <2>2. Apart(o, q)
    BY <2>1, RunIs
  <2> QED
    BY <1>1, <2>1, <2>2 DEF Apart
<1>4. Permits(run[r], CopyOf(o))
  BY DEF Permits
<1>5. \A c : Permits(run[r], c) => c = CopyOf(o)
  BY DEF Permits
<1>6. \A c : ~Permits(run'[r], c)
  BY DEF Permits
<1>7. \A c : c \in permitBar' <=> c \in permitBar /\ c # CopyOf(o)
  <2> SUFFICES ASSUME NEW c \in Copies
               PROVE  (\E s \in Runs : Permits(run'[s], c))
                      <=> (\E s \in Runs : Permits(run[s], c)) /\ c # CopyOf(o)
    BY PermitsAre
  <2> QED
    BY <1>3, <1>5, <1>6 DEF OthersStay
<1> QED
  BY <1>2, <1>4, <1>7, PermitsAre

LEMMA HandOpens ==
  ASSUME IInv, NEW r \in Runs, NEW o, o = run[r], o # None, OthersStay(r),
         NEW x, x = run'[r], row' = row, taken' = taken,
         x # None /\ x.at \in Permitted =>
            o.at \in Permitted /\ x.channel = o.channel /\ x.to = o.to
  PROVE  Held!Next \/ UNCHANGED Held!vars
<1>1. CASE x # None /\ x.at \in Permitted
  <2>1. \A c \in Copies : Permits(run'[r], c) <=> Permits(run[r], c)
    BY <1>1 DEF Permits, CopyOf
  <2> QED
    BY <2>1, SameHand, SameOnTheWhole
<1>2. CASE ~(x # None /\ x.at \in Permitted) /\ o.at \notin Permitted
  <2>1. \A c \in Copies : Permits(run'[r], c) <=> Permits(run[r], c)
    BY <1>2 DEF Permits
  <2> QED
    BY <2>1, SameHand, SameOnTheWhole
<1>3. CASE ~(x # None /\ x.at \in Permitted) /\ o.at \in Permitted
  <2>1. /\ CopyOf(o) \in permitBar /\ CopyOf(o) \in Copies
        /\ permitBar' = permitBar \ {CopyOf(o)}
    BY <1>3, PermitGoes
  <2>2. phaseBar' = phaseBar
    BY PhasesAre
  <2>3. Held!Lose({CopyOf(o)})
    BY <2>1, <2>2 DEF Held!Lose
  <2> QED
    BY <2>1, <2>3 DEF Held!Next
<1> QED
  BY <1>1, <1>2, <1>3

LEMMA WorkerStays ==
  ASSUME IInv, NEW r \in Runs,
         \/ ReadsItem(r) \/ Lists(r) \/ Finishes(r) \/ Skips(r)
         \/ \E p \in Persons : Takes(r, p)
         \/ AsksAgain(r) \/ Addresses(r) \/ SendFails(r) \/ RunFails(r) \/ Dies(r)
  PROVE  Held!Next \/ UNCHANGED Held!vars
<1>1. PICK o : o = run[r] /\ o # None
  BY DEF ReadsItem, Lists, Finishes, Skips, Takes, AsksAgain, Addresses, SendFails,
         RunFails, Dies, At
<1>2. o \in Run
  BY <1>1, RunIs
<1>3. row' = row /\ taken' = taken
  BY DEF ReadsItem, Lists, Finishes, Skips, Takes, AsksAgain, Addresses, SendFails,
         RunFails, Dies
<1>4. run \in [Runs -> Run \union {None}]
  BY DEF IInv, TypeOK
<1>5. PICK x : x = run'[r]
  OBVIOUS
<1>6. CASE Ends(r)
  <2>1. OthersStay(r) /\ x = None
    BY <1>4, <1>5, <1>6 DEF Ends, OthersStay
  <2> QED
    BY <1>1, <1>3, <1>5, <2>1, HandOpens
<1>7. CASE Lists(r) \/ \E p \in Persons : Takes(r, p)
  <2>1. OthersStay(r) /\ x.at \in {"next", "refusing", "claiming"}
    <3>1. CASE Lists(r)
      <4>1. run' = [run EXCEPT ![r].at = "next", ![r].todo = Waiting(run[r].channel)]
        BY <3>1 DEF Lists
      <4> QED
        BY <1>1, <1>2, <1>4, <1>5, <4>1 DEF OthersStay, Run
    <3>2. ASSUME NEW p \in Persons, Takes(r, p)
          PROVE  OthersStay(r) /\ x.at \in {"next", "refusing", "claiming"}
      <4>1. PICK step \in {"refusing", "claiming"} :
               run' = [run EXCEPT ![r].todo = @ \ {p}, ![r].to = p, ![r].at = step]
        BY <3>2 DEF Takes
      <4> QED
        BY <1>1, <1>2, <1>4, <1>5, <4>1 DEF OthersStay, Run
    <3> QED
      BY <1>7, <3>1, <3>2
  <2>2. x.at \notin Permitted
    BY <2>1 DEF Permitted
  <2> QED
    BY <1>1, <1>3, <1>5, <2>1, <2>2, HandOpens
<1>8. CASE Skips(r)
  <2>1. OthersStay(r) /\ x.at = "next"
    BY <1>1, <1>2, <1>4, <1>5, <1>8 DEF Skips, GoesOn, OthersStay, Run
  <2>2. x.at \notin Permitted
    BY <2>1 DEF Permitted
  <2> QED
    BY <1>1, <1>3, <1>5, <2>1, <2>2, HandOpens
<1>9. CASE ReadsItem(r) /\ Proceed(r, "listing")
  <2>1. OthersStay(r) /\ x.at = "listing"
    BY <1>1, <1>2, <1>4, <1>5, <1>9 DEF Proceed, OthersStay, Run
  <2>2. x.at \notin Permitted
    BY <2>1 DEF Permitted
  <2> QED
    BY <1>1, <1>3, <1>5, <2>1, <2>2, HandOpens
<1>10. CASE AsksAgain(r)
  <2>1. PICK step \in {"withdrawing", "addressing"} : Proceed(r, step)
    BY <1>10 DEF AsksAgain
  <2>2. /\ OthersStay(r) /\ x.at = step /\ x.channel = o.channel /\ x.to = o.to
    BY <1>1, <1>2, <1>4, <1>5, <2>1 DEF Proceed, OthersStay, Run
  <2>3. o.at \in Permitted
    BY <1>1, <1>10 DEF AsksAgain, At, Permitted
  <2> QED
    BY <1>1, <1>3, <1>5, <2>2, <2>3, HandOpens
<1>11. CASE Addresses(r) /\ Proceed(r, "sending")
  <2>1. /\ OthersStay(r) /\ x.at = "sending" /\ x.channel = o.channel /\ x.to = o.to
    BY <1>1, <1>2, <1>4, <1>5, <1>11 DEF Proceed, OthersStay, Run
  <2>2. o.at \in Permitted
    BY <1>1, <1>11 DEF Addresses, At, Permitted
  <2> QED
    BY <1>1, <1>3, <1>5, <2>1, <2>2, HandOpens
<1>12. CASE \E why \in Failures : run' = [run EXCEPT ![r].at = "failing", ![r].why = why]
  <2>1. OthersStay(r) /\ x.at = "failing"
    BY <1>1, <1>2, <1>4, <1>5, <1>12 DEF OthersStay, Run
  <2>2. x.at \notin Permitted
    BY <2>1 DEF Permitted
  <2> QED
    BY <1>1, <1>3, <1>5, <2>1, <2>2, HandOpens
<1>13. CASE Addresses(r)
  BY <1>11, <1>12, <1>13 DEF Addresses, Failures
<1>14. CASE SendFails(r)
  BY <1>12, <1>14 DEF SendFails, Failures
<1>15. CASE ReadsItem(r)
  BY <1>6, <1>9, <1>15 DEF ReadsItem
<1>16. CASE Finishes(r) \/ RunFails(r) \/ Dies(r)
  BY <1>6, <1>16 DEF Finishes, RunFails, Dies, Fails
<1> QED
  BY <1>7, <1>8, <1>10, <1>13, <1>14, <1>15, <1>16

(* The claim takes the call, whether or not the run learns of it. *)
LEMMA ClaimTakesCall ==
  ASSUME IInv, NEW r \in Runs, Claims(r) \/ ClaimAnswerLost(r)
  PROVE  Held!Next
<1>1. PICK o : o = run[r] /\ o # None /\ o.at = "claiming"
  BY DEF Claims, ClaimAnswerLost, At
<1>2. Claimed(r) /\ UNCHANGED <<item, people, taken>> /\ taken' = taken
  BY DEF Claims, ClaimAnswerLost
<1>3. o \in Run /\ CopyOf(o) \in Copies
  BY <1>1, CopyInHand DEF Begun
<1>4. row[CopyOf(o)] = "PENDING" /\ row' = [row EXCEPT ![CopyOf(o)] = "SENT"]
  BY <1>1, <1>2, ClaimedIs
<1>5. PICK c \in Copies : c = CopyOf(o)
  BY <1>3
<1>6. row'[c] = "SENT" /\ \A d \in Copies : d # c => row'[d] = row[d]
  BY <1>4, <1>5 DEF IInv, TypeOK
<1>7. phaseBar[c] = "open"
  BY <1>4, <1>5, PhasesAre DEF PhaseOf
<1>8. PICK v : v = "taken"
  OBVIOUS
<1>9. PhaseOf(row'[c]) = v
  BY <1>6, <1>8 DEF PhaseOf
<1>10. phaseBar' = [phaseBar EXCEPT ![c] = v]
  BY <1>6, <1>9, PhaseMoves
<1>11. phaseBar' = [phaseBar EXCEPT ![c] = "taken"]
  BY <1>8, <1>10
<1>12. run \in [Runs -> Run \union {None}]
  BY DEF IInv, TypeOK
<1>13. \A d : ~Permits(run[r], d)
  BY <1>1 DEF Permits, Permitted
<1>14. PICK x : x = run'[r]
  OBVIOUS
<1>15. permitBar' \in {permitBar, permitBar \union {c}}
  <2>1. CASE Claims(r)
    <3>1. OthersStay(r) /\ x.at = "asking" /\ x.channel = o.channel /\ x.to = o.to /\ x \in Run
      BY <1>1, <1>3, <1>12, <1>14, <2>1 DEF Claims, Proceed, OthersStay, Run
    <3>2. x # None
      BY <3>1, NoneAssumption
    <3>3. \A d : Permits(run'[r], d) <=> d = c
      BY <1>5, <1>14, <3>1, <3>2 DEF Permits, Permitted, CopyOf
    <3>4. \A d : d \in permitBar' <=> d \in permitBar \/ d = c
      BY <1>13, <3>1, <3>3, PermitsAre DEF OthersStay
    <3> QED
      BY <3>4
  <2>2. CASE ClaimAnswerLost(r)
    <3>1. OthersStay(r) /\ run'[r] = None
      BY <1>12, <2>2 DEF ClaimAnswerLost, Fails, Ends, OthersStay
    <3>2. \A d \in Copies : Permits(run'[r], d) <=> Permits(run[r], d)
      BY <1>13, <3>1 DEF Permits
    <3> QED
      BY <3>1, <3>2, SameHand
  <2> QED
    BY <2>1, <2>2
<1>16. Held!Take(c)
  BY <1>2, <1>7, <1>11, <1>15 DEF Held!Take
<1> QED
  BY <1>16 DEF Held!Next

(* The mail server takes the copy on the permit of the run that owns it. *)
LEMMA SentRuns ==
  ASSUME IInv, NEW r \in Runs, Sent(r)
  PROVE  Held!Next
<1>1. PICK o : o = run[r] /\ o # None /\ o.at = "sending" /\ CopyOf(o) = Copy(r)
  BY DEF Sent, At, CopyOf, Copy
<1>2. o \in Run /\ run \in [Runs -> Run \union {None}]
  BY <1>1, RunIs DEF IInv, TypeOK
<1>3. row' = row /\ taken' = [taken EXCEPT ![CopyOf(o)] = taken[CopyOf(o)] + 1]
  BY <1>1 DEF Sent
<1>4. PICK x : x = run'[r]
  OBVIOUS
<1>5. OthersStay(r) /\ x.at \notin Permitted
  <2>1. CASE GoesOn(r)
    BY <1>1, <1>2, <1>4, <2>1 DEF GoesOn, OthersStay, Run, Permitted
  <2>2. CASE run' = [run EXCEPT ![r].at = "failing", ![r].why = "send-failed"]
    BY <1>1, <1>2, <1>4, <2>2 DEF OthersStay, Run, Permitted
  <2> QED
    BY <2>1, <2>2 DEF Sent
<1>6. o.at \in Permitted
  BY <1>1 DEF Permitted
<1>7. /\ CopyOf(o) \in permitBar /\ CopyOf(o) \in Copies
      /\ permitBar' = permitBar \ {CopyOf(o)}
  BY <1>1, <1>4, <1>5, <1>6, PermitGoes
<1>8. phaseBar' = phaseBar
  BY <1>3, PhasesAre
<1>9. Held!Run(CopyOf(o))
  BY <1>3, <1>7, <1>8 DEF Held!Run
<1> QED
  BY <1>7, <1>9 DEF Held!Next

(* A run that is past its permit writes how its copy ended. *)
LEMMA WorkerCloses ==
  ASSUME IInv, NEW r \in Runs, Refuses(r) \/ Withdraws(r) \/ Notes(r)
  PROVE  Held!Next
<1>1. PICK o : o = run[r] /\ o # None /\ o.at \in {"refusing", "withdrawing", "failing"}
  BY DEF Refuses, Withdraws, Notes, At
<1>2. /\ o \in Run /\ Proper(o) /\ CopyOf(o) \in Copies /\ CopyOf(o) = Copy(r)
  BY <1>1, CopyInHand DEF Begun
<1>3. /\ run \in [Runs -> Run \union {None}] /\ row \in [Copies -> Status] /\ taken' = taken
  BY DEF IInv, TypeOK, Refuses, Withdraws, Notes
<1>4. OthersStay(r) /\ \A c \in Copies : ~Permits(run'[r], c)
  <2>1. CASE GoesOn(r)
    <3>1. OthersStay(r) /\ run'[r].at = "next"
      BY <1>1, <1>2, <1>3, <2>1 DEF GoesOn, OthersStay, Run
    <3> QED
      BY <3>1 DEF Permits, Permitted
  <2>2. CASE Ends(r)
    BY <1>3, <2>2 DEF Ends, OthersStay, Permits
  <2> QED
    BY <2>1, <2>2 DEF Refuses, Withdraws, Notes, Fails
<1>5. \A c \in Copies : ~Permits(run[r], c)
  BY <1>1 DEF Permits, Permitted
<1>6. permitBar' = permitBar
  BY <1>4, <1>5, SameHand
<1>7. \/ row' = row
      \/ /\ row[CopyOf(o)] # "absent"
         /\ \E why \in Failures : row' = [row EXCEPT ![CopyOf(o)] = why]
  <2>1. CASE Refuses(r) \/ Withdraws(r)
    BY <1>2, <2>1 DEF Refuses, Withdraws, Failures
  <2>2. CASE Notes(r)
    <3>1. Owns(o) /\ o.at = "failing"
      BY <1>1, <1>2, <2>2 DEF Notes, At, Proper, Owning
    <3>2. row[CopyOf(o)] # "absent" /\ o.why \in Failures
      BY <3>1 DEF Owns, Failures
    <3>3. row' = row \/ row' = [row EXCEPT ![CopyOf(o)] = o.why]
      BY <1>1, <1>2, <2>2 DEF Notes
    <3> QED
      BY <3>2, <3>3
  <2> QED
    BY <2>1, <2>2
<1>8. \A c \in Copies : \/ row'[c] = row[c]
                        \/ row[c] # "absent" /\ row'[c] \in Failures \union {"deleted"}
  BY <1>3, <1>7
<1> QED
  BY <1>3, <1>6, <1>8, RowsClose

-----------------------------------------------------------------------------
(* The steps of the others. *)
LEMMA PublishHolds ==
  ASSUME IInv, NEW by \in {"board", "app", "schedule"}, NEW up \in BOOLEAN,
         NEW send \in SUBSET Channels, Publish(by, up, send)
  PROVE  Held!Next
<1> DEFINE S == {c \in Copies : c[1] \in Sends(up, send) /\ c[2] \in Recipients}
<1>1. /\ item # None /\ run' = run /\ taken' = taken
      /\ row' = [c \in Copies |-> IF c[1] \in Sends(up, send) /\ c[2] \in Recipients
                                  THEN "PENDING" ELSE row[c]]
  BY DEF Publish
<1>2. ASSUME NEW c \in S
      PROVE  phaseBar[c] = "absent" /\ PhaseOf(row'[c]) = "open"
  <2>1. Entered(c) /\ c[1] \notin item.mailed
    BY DEF IInv, LedgerIsProper, Sends
  <2>2. row[c] = "absent"
    BY <1>1, <2>1 DEF Entered
  <2> QED
    BY <1>1, <2>2, PhasesAre DEF PhaseOf
<1>3. \A c \in Copies \ S : row'[c] = row[c]
  BY <1>1
<1>4. S \in SUBSET Copies
  OBVIOUS
<1> HIDE DEF S
<1>5. PICK v : v = "open"
  OBVIOUS
<1>6. phaseBar' = [c \in Copies |-> IF c \in S THEN v ELSE phaseBar[c]]
  <2>1. \A c \in S : PhaseOf(row'[c]) = v
    BY <1>2, <1>5
  <2> QED
    BY <1>3, <1>4, <2>1, PhasesMove
<1>7. permitBar' = permitBar
  BY <1>1, SamePermits
<1>8. Held!Hold(S)
  BY <1>1, <1>2, <1>5, <1>6, <1>7 DEF Held!Hold
<1> QED
  BY <1>4, <1>8 DEF Held!Next

LEMMA LedgerCloses ==
  ASSUME IInv, Remove \/ \E k \in Jobs : RecordsAbandoned(k)
  PROVE  Held!Next
<1>1. run' = run /\ taken' = taken
  BY DEF Remove, RecordsAbandoned
<1>2. permitBar' = permitBar
  BY <1>1, SamePermits
<1>3. \A c \in Copies : \/ row'[c] = row[c]
                        \/ row[c] # "absent" /\ row'[c] \in Failures \union {"deleted"}
  BY DEF Remove, RecordsAbandoned, Failures
<1>4. row \in [Copies -> Status]
  BY DEF IInv, TypeOK
<1> QED
  BY <1>1, <1>2, <1>3, <1>4, RowsClose

(* The queue starts a run, or gives one up, with no permit coming or going. *)
LEMMA QueueStays ==
  ASSUME IInv, NEW k \in Jobs, Expires(k) \/ \E r \in Runs : RunStarts(r, k)
  PROVE  UNCHANGED Held!vars
<1>1. row' = row /\ taken' = taken
  BY DEF Expires, RunStarts
<1>2. run \in [Runs -> Run \union {None}]
  BY DEF IInv, TypeOK
<1>3. ASSUME NEW r \in Runs, NEW c \in Copies
      PROVE  Permits(run'[r], c) <=> Permits(run[r], c)
  <2>1. PICK o : o = run[r]
    OBVIOUS
  <2>2. PICK x : x = run'[r]
    OBVIOUS
  <2>3. o \in Run \/ o = None
    BY <1>2, <2>1
  <2>4. CASE x = o
    BY <2>1, <2>2, <2>4
  <2>5. CASE o = None /\ x.at = "reading"
    BY <2>1, <2>2, <2>5 DEF Permits, Permitted
  <2>6. CASE o # None /\ x = [o EXCEPT !.job = None]
    <3>1. /\ x \in Run /\ x.at = o.at /\ x.channel = o.channel /\ x.to = o.to
      BY <2>3, <2>6 DEF Run
    <3>2. x # None
      BY <3>1, NoneAssumption
    <3> QED
      BY <2>1, <2>2, <2>6, <3>1, <3>2 DEF Permits, CopyOf
  <2>7. CASE Expires(k)
    BY <2>1, <2>2, <2>4, <2>6, <2>7 DEF Expires
  <2>8. ASSUME NEW s \in Runs, RunStarts(s, k)
        PROVE  x = o \/ (o = None /\ x.at = "reading")
    <3>1. /\ run[s] = None
          /\ run' = [run EXCEPT ![s] = [job |-> k, channel |-> k[1], todo |-> {},
                                        to |-> None, why |-> None, at |-> "reading"]]
      BY <2>8 DEF RunStarts, IdleRuns
    <3> QED
      BY <1>2, <2>1, <2>2, <3>1
  <2> QED
    BY <2>4, <2>5, <2>7, <2>8
<1>4. permitBar' = permitBar
  BY <1>3, SamePermits
<1> QED
  BY <1>1, <1>4, SameOnTheWhole

LEMMA StepImplements ==
  ASSUME IInv, [Next]_vars
  PROVE  [Held!Next]_(Held!vars)
<1>1. ASSUME UNCHANGED <<row, run, taken>> PROVE UNCHANGED Held!vars
  <2>1. permitBar' = permitBar
    BY <1>1, SamePermits
  <2> QED
    BY <1>1, <2>1, SameOnTheWhole
<1>2. CASE \E p \in Persons : Object(p) \/ Withdraw(p) \/ Erase(p)
  BY <1>1, <1>2 DEF Object, Withdraw, Erase
<1>3. CASE UNCHANGED vars
  BY <1>1, <1>3 DEF vars
<1>4. ASSUME NEW r \in Runs, Works(r) \/ ClaimAnswerLost(r) \/ RunFails(r) \/ Dies(r)
      PROVE  Held!Next \/ UNCHANGED Held!vars
  BY <1>4, WorkerStays, WorkerCloses, ClaimTakesCall, SentRuns DEF Works
<1>5. CASE \E k \in Jobs : Expires(k) \/ RecordsAbandoned(k)
  BY <1>5, QueueStays, LedgerCloses
<1>6. CASE \E r \in Runs, k \in Jobs : RunStarts(r, k)
  BY <1>6, QueueStays
<1>7. CASE Remove
  BY <1>7, LedgerCloses
<1>8. ASSUME NEW by \in {"board", "app", "schedule"}, NEW up \in BOOLEAN,
             NEW send \in SUBSET Channels, Publish(by, up, send)
      PROVE  Held!Next
  BY <1>8, PublishHolds
<1> QED
  BY <1>2, <1>3, <1>4, <1>5, <1>6, <1>7, <1>8 DEF Next

LEMMA InitImplements ==
  ASSUME Init
  PROVE  Held!Init
<1>1. phaseBar = [c \in Copies |-> "absent"]
  BY PhasesAre DEF Init, PhaseOf
<1>2. permitBar = {}
  BY PermitsAre DEF Init, Permits
<1> QED
  BY <1>1, <1>2 DEF Init, Held!Init

(* deliver, with the conditional update of the ledger: each copy is handed *)
(* over on the claim of one run, at most once for each claim, and one that *)
(* was claimed or given up is never claimed again.                         *)
THEOREM MailingsHoldCopies == Spec => HeldCopySpec
<1>1. Init => Held!Init
  BY InitImplements
<1>2. IInv /\ [Next]_vars => [Held!Next]_(Held!vars)
  BY StepImplements
<1> QED
  BY <1>1, <1>2, InvariantHolds, PTL DEF Spec, HeldCopySpec, Held!Spec
=============================================================================
