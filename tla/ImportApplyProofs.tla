-------------------------- MODULE ImportApplyProofs --------------------------
(***************************************************************************)
(* Why an import writes each row once, to whom the preview showed, enters  *)
(* nobody twice and writes nothing once it has ended: for every number of  *)
(* sessions, workers, jobs and persons, through failures, expiries and a   *)
(* register that goes on changing.                                         *)
(***************************************************************************)
EXTENDS ImportApply, FiniteSetTheorems, TLAPS

(* A session that waits has written nothing, one that runs or failed has   *)
(* rows left, one that is applied has none; and a preview stands from the  *)
(* moment it was accepted.                                                 *)
SessionIsSound(s) ==
    /\ status[s] = "MAPPING" => cursor[s] = 0
    /\ status[s] # "MAPPING" => preview[s] # None /\ preview[s].at = "ready"
    /\ status[s] \in Running \union Failures => cursor[s] < Len(file[s])
    /\ status[s] = "APPLIED" => cursor[s] = Len(file[s])
    /\ preview[s] # None => file[s] # <<>>

OneRuns ==
    \A s, t \in Sessions : status[s] \in Running /\ status[t] \in Running => s = t

(* The rows before the cursor are written, each to one person, but for     *)
(* those left out; and none behind it.                                     *)
WrittenAs(s, i) == {p \in Persons : <<s, i, p>> \in lives}
RowsFollowTheCursor ==
    \A s \in Sessions, i \in Rows :
        IF i <= cursor[s] /\ preview[s].decisions[i] # "skip"
        THEN \E p \in Persons : WrittenAs(s, i) = {p} ELSE WrittenAs(s, i) = {}

(* What a worker o has read of its session's cursor and of whom the rows   *)
(* before it entered, which changes with the cursor only.                  *)
Abreast(o) ==
    /\ status[o.session] # "MAPPING"
    /\ o.cursor <= cursor[o.session]
    /\ o.cursor < Len(file[o.session])
    /\ o.cursor = cursor[o.session] => o.created = created[o.session]

(* The claim: the session's row is held. *)
Claimed(o) == status[o.session] = "APPLYING" /\ o.cursor = cursor[o.session]

(* Its plan is what the board was shown. *)
Checked(o) ==
    LET shown == preview[o.session]
        i == o.cursor + 1
    IN  /\ o.plan \in Planned
        /\ Fits(o.plan, shown.decisions[i])
        /\ ~Retargeted(shown, i, o.plan, o.created)
        /\ o.plan.outcome = "ambiguous" => ~Changed(shown, i, o.plan, o.created)

(* Under the locks of its address and its persons, it is what the register *)
(* would give now.                                                         *)
PlanFor(row) == PlanOf(row, Holders(row.email), {}, {})
LeftOut(o) == Asks(o.plan, preview[o.session].decisions[o.cursor + 1])
Settled(o) == LeftOut(o) \/ o.plan = PlanFor(file[o.session][o.cursor + 1])

Sound(o) ==
    /\ o.at # "reading" => Abreast(o)
    /\ o.at \in {"locking", "writing"} => Claimed(o)
    /\ o.at \in {"claiming", "locking", "writing"} => Checked(o)
    /\ o.at = "writing" => Settled(o)

WorkersAreSound == \A w \in Workers : \A o \in {worker[w]} \ {None} : Sound(o)

(* The row is held by one worker. *)
HoldsRow(w) == worker[w] # None /\ worker[w].at \in {"locking", "writing"}
OneHolds == \A v, w \in Workers : HoldsRow(v) /\ HoldsRow(w) => v = w

(* A worker's job is its own until the queue takes it away. *)
WorksOn(w, j) == worker[w] # None /\ worker[w].job = j
JobsAreActive ==
    \A w \in Workers, j \in Jobs :
        WorksOn(w, j) => /\ job[j] # None /\ job[j].state = "active"
                         /\ \A v \in Workers : WorksOn(v, j) => v = w

IInv ==
    /\ TypeOK /\ OneRuns /\ RowsFollowTheCursor /\ WorkersAreSound /\ OneHolds
    /\ JobsAreActive
    /\ \A s \in Sessions : SessionIsSound(s)

-----------------------------------------------------------------------------
(* What a row's plan says of those who have its address. *)
LEMMA PlanOfIs ==
  ASSUME NEW row, NEW holders \in SUBSET Persons, NEW earlier \in SUBSET Rows,
         NEW names, NEW p, p = PlanOf(row, holders, earlier, names)
  PROVE  /\ p \in Planned
         /\ p.outcome = "create" => holders = {} /\ earlier = {}
         /\ p.outcome = "update" => \/ holders = {} /\ p.person = None /\ p.sameAs \in Rows
                                    \/ p.person \in holders
         /\ p.outcome = "ambiguous" => p.candidates = holders
<1> DEFINE known == {register[q].name : q \in holders} \union names
<1> DEFINE one == Cardinality(holders) + Cardinality(earlier) = 1
<1> DEFINE by == IF one /\ earlier # {} THEN CHOOSE j \in earlier : TRUE ELSE None
<1> DEFINE him == IF holders = {} THEN None ELSE CHOOSE q \in holders : TRUE
<1>1. by \in Rows \union {None}
  OBVIOUS
<1>2. him \in Persons \union {None} /\ (holders # {} => him \in holders)
  OBVIOUS
<1>3. CASE holders = {} /\ earlier = {}
  <2>1. p = [outcome |-> "create", person |-> None, sameAs |-> None, candidates |-> {}]
    BY <1>3 DEF PlanOf
  <2> QED
    BY <1>3, <2>1 DEF Planned
<1>4. CASE ~(holders = {} /\ earlier = {}) /\ one /\ known = {row.name}
  <2>1. p = [outcome |-> "update", sameAs |-> by, candidates |-> {}, person |-> him]
    BY <1>4 DEF PlanOf
  <2>2. holders = {} => by \in earlier
    BY <1>4
  <2> HIDE DEF by, him
  <2>3. /\ p \in Planned /\ p.outcome = "update" /\ p.sameAs = by /\ p.person = him
    BY <1>1, <1>2, <2>1 DEF Planned
  <2>4. holders = {} => him = None /\ by \in Rows
    BY <2>2 DEF him
  <2> QED
    BY <1>2, <2>3, <2>4
<1>5. CASE ~(holders = {} /\ earlier = {}) /\ ~(one /\ known = {row.name})
  <2>1. p = [outcome |-> "ambiguous", person |-> None, sameAs |-> by, candidates |-> holders]
    BY <1>5 DEF PlanOf
  <2> HIDE DEF by
  <2> QED
    BY <1>1, <2>1 DEF Planned
<1> QED
  BY <1>3, <1>4, <1>5

LEMMA HoldersAre ==
  ASSUME NEW email
  PROVE  Holders(email) \in SUBSET Persons
BY DEF Holders

(* The plan of one row finds one person, or asks about all who may be it.  *)
LEMMA PlanForIs ==
  ASSUME NEW row, NEW p, p = PlanFor(row)
  PROVE  /\ p \in Planned
         /\ p.outcome = "create" => Holders(row.email) = {}
         /\ p.outcome = "update" => p.person \in Persons /\ Holders(row.email) = {p.person}
         /\ p.outcome = "ambiguous" => p.candidates = Holders(row.email)
<1>1. PICK holders \in SUBSET Persons : holders = Holders(row.email)
  BY HoldersAre
<1>2. p = PlanOf(row, holders, {}, {})
  BY <1>1 DEF PlanFor
<1>3. /\ p \in Planned
      /\ p.outcome = "create" => holders = {}
      /\ p.outcome = "ambiguous" => p.candidates = holders
  BY <1>2, PlanOfIs
<1>4. ASSUME p.outcome = "update"
      PROVE  p.person \in Persons /\ holders = {p.person}
  <2>1. Cardinality({}) = 0
    BY FS_EmptySet
  <2>2. IsFiniteSet(holders) /\ Cardinality(holders) \in Nat
    BY PersonsAssumption, FS_Subset, FS_CardinalityType
  <2>3. Cardinality(holders) + Cardinality({}) = 1 /\ holders # {}
    <3>1. CASE holders = {}
      <4>1. p = [outcome |-> "create", person |-> None, sameAs |-> None, candidates |-> {}]
        BY <1>2, <3>1 DEF PlanOf
      <4> QED
        BY <1>4, <4>1
    <3>2. CASE holders # {} /\ ~(Cardinality(holders) + Cardinality({}) = 1)
      <4>1. PICK names : names = {register[q].name : q \in holders} \union {}
        OBVIOUS
      <4>2. PICK by : p = [outcome |-> "ambiguous", person |-> None, sameAs |-> by,
                           candidates |-> holders]
        BY <1>2, <3>2 DEF PlanOf
      <4> QED
        BY <1>4, <4>2
    <3> QED
      BY <3>1, <3>2
  <2>4. Cardinality(holders) = 1
    BY <2>1, <2>2, <2>3
  <2>5. PICK q : holders = {q}
    BY <2>2, <2>4, FS_Singleton
  <2>6. p.person \in holders
    BY <1>2, <1>4, <2>3, PlanOfIs
  <2> QED
    BY <2>5, <2>6
<1> QED
  BY <1>1, <1>3, <1>4

(* The window of a chunk is one row: nothing of it depends on an earlier.  *)
LEMMA PlanOfOneRow ==
  ASSUME NEW rows, NEW n \in Nat, NEW decisions
  PROVE  Plan(rows, n, n + 1, decisions)[n + 1] = PlanFor(rows[n + 1])
<1> DEFINE body(f, i) ==
             LET earlier == {j \in (n + 1)..(i - 1) :
                               /\ rows[j].email = rows[i].email
                               /\ Enters(f[j], decisions[j])}
             IN  PlanOf(rows[i], Holders(rows[i].email), earlier,
                        {rows[j].name : j \in earlier})
<1>1. ASSUME NEW f
      PROVE  body(f, n + 1) = PlanFor(rows[n + 1])
  <2>1. (n + 1)..((n + 1) - 1) = {}
    OBVIOUS
  <2>2. {j \in {} : rows[j].email = rows[n + 1].email /\ Enters(f[j], decisions[j])} = {}
    OBVIOUS
  <2>3. {rows[j].name : j \in {}} = {}
    OBVIOUS
  <2> QED
    BY <2>1, <2>2, <2>3 DEF PlanFor
<1> DEFINE is(f) == f = [i \in (n + 1)..(n + 1) |-> body(f, i)]
<1>2. Plan(rows, n, n + 1, decisions) = CHOOSE f : is(f)
  BY Zenon DEF Plan
<1>3. PICK g : g = [i \in (n + 1)..(n + 1) |-> PlanFor(rows[n + 1])]
  OBVIOUS
<1> HIDE DEF body
<1>4. \A i \in (n + 1)..(n + 1) : i = n + 1
  OBVIOUS
<1>5. is(g)
  BY <1>1, <1>3, <1>4
<1> HIDE DEF is
<1>6. is(CHOOSE f : is(f))
  BY <1>5, Zenon
<1>7. is(Plan(rows, n, n + 1, decisions))
  BY <1>2, <1>6
<1>8. PICK p : p = Plan(rows, n, n + 1, decisions)
  OBVIOUS
<1>9. p = [i \in (n + 1)..(n + 1) |-> body(p, i)]
  BY <1>7, <1>8 DEF is
<1>10. p[n + 1] = body(p, n + 1)
  BY <1>9
<1> QED
  BY <1>1, <1>8, <1>10

(* The plan of a whole file of at most two rows. *)
LEMMA PlanOfAllRows ==
  ASSUME NEW rows, NEW n \in 0..2, NEW decisions, NEW p, p = Plan(rows, 0, n, decisions)
  PROVE  /\ DOMAIN p = 1..n
         /\ \A i \in 1..n : p[i] \in Planned /\ (p[i].outcome = "update" =>
                               p[i].person \in Persons \/ p[i].sameAs \in Rows)
<1> DEFINE body(f, i) ==
             LET earlier == {j \in (0 + 1)..(i - 1) :
                               /\ rows[j].email = rows[i].email
                               /\ Enters(f[j], decisions[j])}
             IN  PlanOf(rows[i], Holders(rows[i].email), earlier,
                        {rows[j].name : j \in earlier})
<1> DEFINE is(f) == f = [i \in (0 + 1)..n |-> body(f, i)]
<1>1. p = CHOOSE f : is(f)
  BY Zenon DEF Plan
<1>2. \A f, i : body(f, i) = LET earlier == {j \in (0 + 1)..(i - 1) :
                                               /\ rows[j].email = rows[i].email
                                               /\ Enters(f[j], decisions[j])}
                             IN  PlanOf(rows[i], Holders(rows[i].email), earlier,
                                        {rows[j].name : j \in earlier})
  OBVIOUS
<1>3. ASSUME NEW f, NEW g
      PROVE  body(f, 1) = body(g, 1)
  <2>1. (0 + 1)..(1 - 1) = {}
    OBVIOUS
  <2>2. \A h : {j \in (0 + 1)..(1 - 1) : /\ rows[j].email = rows[1].email
                                         /\ Enters(h[j], decisions[j])} = {}
    BY <2>1
  <2> QED
    BY <2>2
<1>4. ASSUME NEW f, NEW g, f[1] = g[1]
      PROVE  body(f, 2) = body(g, 2)
  <2>1. \A j \in (0 + 1)..(2 - 1) : j = 1
    OBVIOUS
  <2>2. {j \in (0 + 1)..(2 - 1) : /\ rows[j].email = rows[2].email
                                  /\ Enters(f[j], decisions[j])}
        = {j \in (0 + 1)..(2 - 1) : /\ rows[j].email = rows[2].email
                                    /\ Enters(g[j], decisions[j])}
    BY <1>4, <2>1
  <2> QED
    BY <2>2
<1>5. ASSUME NEW f, NEW i \in Rows
      PROVE  \E earlier \in SUBSET Rows : \E names :
                body(f, i) = PlanOf(rows[i], Holders(rows[i].email), earlier, names)
  <2>1. PICK earlier : earlier = {j \in (0 + 1)..(i - 1) :
                                    /\ rows[j].email = rows[i].email
                                    /\ Enters(f[j], decisions[j])}
    OBVIOUS
  <2>2. earlier \in SUBSET Rows
    BY <2>1 DEF Rows
  <2>3. body(f, i) = PlanOf(rows[i], Holders(rows[i].email), earlier,
                            {rows[j].name : j \in earlier})
    BY <2>1
  <2> QED
    BY <2>2, <2>3
<1> HIDE DEF body
<1>6. PICK f1 : f1 = [i \in (0 + 1)..n |-> body(<<>>, 1)]
  OBVIOUS
<1>7. PICK g : g = [i \in (0 + 1)..n |-> IF i = 1 THEN body(f1, 1) ELSE body(f1, 2)]
  OBVIOUS
<1>8. \A i \in (0 + 1)..n : g[i] = body(g, i)
  <2> TAKE i \in (0 + 1)..n
  <2>1. CASE i = 1
    BY <1>3, <1>7, <2>1
  <2>2. CASE i = 2
    <3>1. 1 \in (0 + 1)..n
      BY <2>2
    <3>2. f1[1] = g[1]
      BY <1>3, <1>6, <1>7, <3>1
    <3> QED
      BY <1>4, <1>7, <2>2, <3>2
  <2> QED
    BY <2>1, <2>2
<1>9. is(g)
  BY <1>7, <1>8
<1> HIDE DEF is
<1>10. is(CHOOSE f : is(f))
  BY <1>9, Zenon
<1>11. is(p)
  BY <1>1, <1>10
<1>12. p = [i \in (0 + 1)..n |-> body(p, i)]
  BY <1>11 DEF is
<1>13. (0 + 1)..n = 1..n /\ 1..n \subseteq Rows
  BY DEF Rows
<1>14. DOMAIN p = 1..n
  BY <1>12, <1>13
<1>15. ASSUME NEW i \in 1..n
       PROVE  p[i] \in Planned /\ (p[i].outcome = "update" =>
                                    p[i].person \in Persons \/ p[i].sameAs \in Rows)
  <2>1. PICK q : q = p[i] /\ q = body(p, i)
    BY <1>12, <1>13
  <2>2. i \in Rows
    BY <1>13
  <2>3. PICK earlier \in SUBSET Rows :
           \E names : q = PlanOf(rows[i], Holders(rows[i].email), earlier, names)
    BY <1>5, <2>1, <2>2
  <2>4. PICK names : q = PlanOf(rows[i], Holders(rows[i].email), earlier, names)
    BY <2>3
  <2>5. /\ q \in Planned
        /\ q.outcome = "update" => q.sameAs \in Rows \/ q.person \in Holders(rows[i].email)
    BY <2>4, PlanOfIs, HoldersAre
  <2> QED
    BY <2>1, <2>5, HoldersAre
<1> QED
  BY <1>14, <1>15

-----------------------------------------------------------------------------
(* A worker at work, its file, and the plan of a row that nothing moved. *)
LEMMA WorkerIs ==
  ASSUME IInv, NEW w \in Workers, NEW o, o = worker[w], o # None
  PROVE  o \in Worker /\ Sound(o) /\ o.session \in Sessions /\ o.cursor \in Nat
<1>1. o \in Worker /\ Sound(o)
  BY DEF IInv, TypeOK, WorkersAreSound
<1> QED
  BY <1>1 DEF Worker

LEMMA FileIs ==
  ASSUME IInv, NEW s \in Sessions
  PROVE  /\ file[s] \in Seq(Row) /\ Len(file[s]) \in 0..2
         /\ \A i \in 1..Len(file[s]) : i \in Rows /\ file[s][i] \in Row
         /\ file[s] # <<>> <=> Len(file[s]) > 0
<1>1. PICK f \in Seq(Row) : f = file[s] /\ Len(f) <= 2
  BY FilesAssumption DEF IInv, TypeOK
<1>2. Len(f) \in Nat /\ \A i \in 1..Len(f) : f[i] \in Row
  OBVIOUS
<1>3. f # <<>> <=> Len(f) > 0
  OBVIOUS
<1>4. PICK n \in Nat : n = Len(f)
  BY <1>2
<1>5. n <= 2
  BY <1>1, <1>4
<1>6. n \in 0..2 /\ \A i \in 1..n : i \in 1..2
  BY <1>5
<1>7. \A i \in 1..n : i \in Rows /\ f[i] \in Row
  BY <1>2, <1>4, <1>6 DEF Rows
<1> QED
  BY <1>1, <1>3, <1>4, <1>6, <1>7

LEMMA PlanForStays ==
  ASSUME NEW row, Holders(row.email)' = Holders(row.email),
         \A q \in Holders(row.email) : register'[q].name = register[q].name
  PROVE  PlanFor(row)' = PlanFor(row)
<1>1. PICK holders : holders = Holders(row.email)
  OBVIOUS
<1>2. Holders(row.email)' = holders
  BY <1>1
<1>3. PICK names : names = {register[q].name : q \in holders} \union {}
  OBVIOUS
<1>4. {register'[q].name : q \in holders} \union {} = names
  BY <1>1, <1>3
<1>5. PlanOf(row, holders, {}, {})' = PlanOf(row, holders, {}, {})
  BY <1>3, <1>4 DEF PlanOf
<1>6. PlanFor(row) = PlanOf(row, holders, {}, {})
  BY <1>1 DEF PlanFor
<1>7. PlanFor(row)' = PlanOf(row, holders, {}, {})'
  BY <1>2 DEF PlanFor
<1> QED
  BY <1>5, <1>6, <1>7

(* What a worker relies on, after a step that leaves its preview alone.    *)
LEMMA SoundKeeps ==
  ASSUME NEW o, Sound(o), file' = file,
         o.at # "reading" => Abreast(o)' /\ preview'[o.session] = preview[o.session],
         o.at \in {"locking", "writing"} => Claimed(o)',
         o.at = "writing" /\ ~LeftOut(o)
         => PlanFor(file[o.session][o.cursor + 1])' = PlanFor(file[o.session][o.cursor + 1])
  PROVE  Sound(o)'
<1>1. ASSUME o.at \in {"claiming", "locking", "writing"}
      PROVE  Checked(o)'
  <2>1. preview'[o.session] = preview[o.session] /\ Checked(o)
    BY <1>1 DEF Sound
  <2> QED
    BY <2>1 DEF Checked
<1>2. ASSUME o.at = "writing"
      PROVE  Settled(o)'
  <2>1. preview'[o.session] = preview[o.session] /\ Settled(o)
    BY <1>2 DEF Sound
  <2>2. LeftOut(o)' <=> LeftOut(o)
    BY <2>1 DEF LeftOut
  <2> QED
    BY <1>2, <2>1, <2>2 DEF Settled
<1> QED
  BY <1>1, <1>2 DEF Sound

LEMMA RegisterStays ==
  ASSUME register' = register
  PROVE  \A row : PlanFor(row)' = PlanFor(row)
<1>1. ASSUME NEW row
      PROVE  PlanFor(row)' = PlanFor(row)
  BY PlanForStays DEF Holders
<1> QED
  BY <1>1

(* The rows written follow the cursor as long as neither moves. *)
LEMMA RowsStay ==
  ASSUME IInv, lives' = lives, cursor' = cursor,
         \A s \in Sessions : cursor[s] # 0 => preview'[s] = preview[s]
  PROVE  RowsFollowTheCursor'
<1> SUFFICES ASSUME NEW s \in Sessions, NEW i \in Rows
             PROVE  IF i <= cursor[s] /\ preview'[s].decisions[i] # "skip"
                    THEN \E p \in Persons : WrittenAs(s, i)' = {p} ELSE WrittenAs(s, i)' = {}
  BY DEF RowsFollowTheCursor
<1>1. WrittenAs(s, i)' = WrittenAs(s, i)
  BY DEF WrittenAs
<1>2. IF i <= cursor[s] /\ preview[s].decisions[i] # "skip"
      THEN \E p \in Persons : WrittenAs(s, i) = {p} ELSE WrittenAs(s, i) = {}
  BY DEF IInv, RowsFollowTheCursor
<1>3. CASE cursor[s] = 0
  <2>1. ~(i <= cursor[s])
    BY <1>3 DEF Rows
  <2> QED
    BY <1>1, <1>2, <2>1
<1>4. CASE cursor[s] # 0
  BY <1>1, <1>2, <1>4
<1> QED
  BY <1>3, <1>4

(* Steps of the workers and the queue that write no row of a session. *)
LEMMA WorkersStep ==
  ASSUME IInv, UNCHANGED <<file, session, register, lives, revision>>,
         job' \in [Jobs -> Job \union {None}],
         worker' \in [Workers -> Worker \union {None}],
         \A v \in Workers : \A o \in {worker'[v]} \ {None} : Sound(o),
         OneHolds', JobsAreActive'
  PROVE  IInv'
<1>1. /\ file' = file /\ status' = status /\ preview' = preview /\ cursor' = cursor
      /\ created' = created /\ register' = register /\ lives' = lives /\ revision' = revision
  BY DEF session
<1>2. TypeOK'
  BY <1>1 DEF IInv, TypeOK
<1>3. OneRuns' /\ (\A s \in Sessions : SessionIsSound(s))'
  BY <1>1 DEF IInv, OneRuns, SessionIsSound
<1>4. RowsFollowTheCursor'
  BY <1>1, RowsStay
<1>5. ASSUME NEW o, Sound(o)
      PROVE  Sound(o)'
  <2>1. Abreast(o)' <=> Abreast(o)
    BY <1>1 DEF Abreast
  <2>2. Claimed(o)' <=> Claimed(o)
    BY <1>1 DEF Claimed
  <2>3. PlanFor(file[o.session][o.cursor + 1])' = PlanFor(file[o.session][o.cursor + 1])
    BY <1>1, RegisterStays
  <2> QED
    BY <1>1, <1>5, <2>1, <2>2, <2>3, SoundKeeps DEF Sound
<1>6. WorkersAreSound'
  BY <1>5 DEF WorkersAreSound
<1> QED
  BY <1>2, <1>3, <1>4, <1>6 DEF IInv

(* One worker becomes x. *)
Turns(w, x) == worker' = [worker EXCEPT ![w] = x]

LEMMA OneTurns ==
  ASSUME IInv, NEW w \in Workers, NEW x \in Worker \union {None}, Turns(w, x),
         x # None /\ x.at \in {"locking", "writing"}
         => \A v \in Workers : HoldsRow(v) => v = w
  PROVE  /\ worker' \in [Workers -> Worker \union {None}]
         /\ worker'[w] = x /\ \A v \in Workers : v # w => worker'[v] = worker[v]
         /\ OneHolds'
<1>1. worker \in [Workers -> Worker \union {None}]
  BY DEF IInv, TypeOK
<1>2. worker' = [worker EXCEPT ![w] = x]
  BY DEF Turns
<1>3. worker' \in [Workers -> Worker \union {None}] /\ worker'[w] = x
  BY <1>1, <1>2
<1>4. \A v \in Workers : v # w => worker'[v] = worker[v]
  BY <1>1, <1>2
<1>5. ASSUME NEW u \in Workers, NEW v \in Workers, HoldsRow(u)', HoldsRow(v)', u # v
      PROVE  FALSE
  <2>1. CASE u = w
    <3>1. HoldsRow(v) /\ v # w
      BY <1>4, <1>5, <2>1 DEF HoldsRow
    <3>2. x # None /\ x.at \in {"locking", "writing"}
      BY <1>3, <1>5, <2>1 DEF HoldsRow
    <3> QED
      BY <3>1, <3>2
  <2>2. CASE v = w
    <3>1. HoldsRow(u) /\ u # w
      BY <1>4, <1>5, <2>2 DEF HoldsRow
    <3>2. x # None /\ x.at \in {"locking", "writing"}
      BY <1>3, <1>5, <2>2 DEF HoldsRow
    <3> QED
      BY <3>1, <3>2
  <2>3. CASE u # w /\ v # w
    <3>1. HoldsRow(u) /\ HoldsRow(v)
      BY <1>4, <1>5, <2>3 DEF HoldsRow
    <3> QED
      BY <1>5, <3>1 DEF IInv, OneHolds
  <2> QED
    BY <2>1, <2>2, <2>3
<1>6. OneHolds'
  BY <1>5 DEF OneHolds
<1> QED
  BY <1>3, <1>4, <1>6

(* It has the job it had, and a job that is done with is its own. *)
KeepsJob(w, x) ==
    /\ x # None => worker[w] # None /\ x.job = worker[w].job
    /\ \A j \in Jobs : job'[j] = job[j] \/ (x = None /\ WorksOn(w, j))

LEMMA JobsAreKept ==
  ASSUME IInv, NEW w \in Workers, NEW x \in Worker \union {None}, Turns(w, x),
         KeepsJob(w, x)
  PROVE  JobsAreActive'
<1>1. worker'[w] = x /\ \A v \in Workers : v # w => worker'[v] = worker[v]
  BY DEF IInv, TypeOK, Turns
<1>2. ASSUME NEW v \in Workers, NEW j \in Jobs, WorksOn(v, j)'
      PROVE  WorksOn(v, j) /\ (v = w => x # None)
  BY <1>1, <1>2 DEF WorksOn, KeepsJob
<1>3. ASSUME NEW v \in Workers, NEW j \in Jobs, WorksOn(v, j)'
      PROVE  /\ job'[j] # None /\ job'[j].state = "active"
             /\ \A u \in Workers : WorksOn(u, j)' => u = v
  <2>1. /\ job[j] # None /\ job[j].state = "active"
        /\ \A u \in Workers : WorksOn(u, j) => u = v
    BY <1>2, <1>3 DEF IInv, JobsAreActive
  <2>2. job'[j] = job[j]
    <3> SUFFICES ASSUME x = None, WorksOn(w, j)
                 PROVE  FALSE
      BY DEF KeepsJob
    <3>1. v = w
      BY <2>1
    <3> QED
      BY <1>2, <1>3, <3>1
  <2> QED
    BY <1>2, <2>1, <2>2
<1> QED
  BY <1>3 DEF JobsAreActive

(* A step of one worker that changes no session. *)
LEMMA OneWorkerStep ==
  ASSUME IInv, NEW w \in Workers, NEW x \in Worker \union {None}, Turns(w, x),
         UNCHANGED <<file, session, register, lives, revision>>,
         job' \in [Jobs -> Job \union {None}],
         x # None => Sound(x),
         x # None /\ x.at \in {"locking", "writing"}
         => \A v \in Workers : HoldsRow(v) => v = w,
         JobsAreActive'
  PROVE  IInv'
<1>1. /\ worker' \in [Workers -> Worker \union {None}]
      /\ worker'[w] = x /\ \A v \in Workers : v # w => worker'[v] = worker[v]
      /\ OneHolds'
  BY OneTurns
<1>2. \A v \in Workers : \A o \in {worker'[v]} \ {None} : Sound(o)
  BY <1>1 DEF IInv, WorkersAreSound
<1> QED
  BY <1>1, <1>2, WorkersStep

-----------------------------------------------------------------------------
(* The queue. *)
LEMMA EnqueueIs ==
  ASSUME TypeOK, NEW s \in Sessions, Enqueue(s)
  PROVE  job' \in [Jobs -> Job \union {None}]
<1>1. PICK x : x = [session |-> s, state |-> "waiting", left |-> Retries]
  OBVIOUS
<1>2. x \in Job
  BY <1>1, RetriesAssumption DEF Job
<1>3. PICK j \in Jobs : job[j] = None /\ job' = [job EXCEPT ![j] = x]
  BY <1>1 DEF Enqueue, FreeJobs
<1> QED
  BY <1>2, <1>3 DEF TypeOK

(* A job put in the queue is nobody's yet. *)
LEMMA EnqueueLeaves ==
  ASSUME IInv, NEW s \in Sessions, Enqueue(s), worker' = worker
  PROVE  JobsAreActive'
<1>1. PICK k \in Jobs : job[k] = None /\ \A j \in Jobs : j # k => job'[j] = job[j]
  BY DEF Enqueue, FreeJobs, IInv, TypeOK
<1> QED
  BY <1>1 DEF IInv, JobsAreActive, WorksOn

(* A job that failed waits again, or its queue gives the run up. *)
LEMMA FailedIs ==
  ASSUME NEW x \in Job
  PROVE  Failed(x) \in Job
<1>1. PICK n \in 0..Retries : n = x.left
  BY DEF Job
<1>2. CASE n > 0
  <2>1. n - 1 \in 0..Retries
    BY <1>2, RetriesAssumption
  <2>2. Failed(x) = [x EXCEPT !.state = "waiting", !.left = n - 1]
    BY <1>1, <1>2 DEF Failed
  <2> QED
    BY <2>1, <2>2 DEF Job
<1>3. CASE ~(n > 0)
  BY <1>1, <1>3 DEF Failed, Job
<1> QED
  BY <1>2, <1>3

LEMMA JobStays ==
  ASSUME IInv, job' = job
  PROVE  job' \in [Jobs -> Job \union {None}]
BY DEF IInv, TypeOK

LEMMA ResumesKeeps ==
  ASSUME IInv, NEW s \in Sessions, Resumes(s)
  PROVE  IInv'
<1>1. /\ UNCHANGED <<file, session, register, lives, revision>> /\ worker' = worker
      /\ Enqueue(s)
  BY DEF Resumes
<1>2. job' \in [Jobs -> Job \union {None}]
  BY <1>1, EnqueueIs DEF IInv
<1>3. /\ worker' \in [Workers -> Worker \union {None}] /\ OneHolds'
      /\ \A v \in Workers : \A o \in {worker'[v]} \ {None} : Sound(o)
  BY <1>1 DEF IInv, TypeOK, OneHolds, HoldsRow, WorkersAreSound
<1>4. JobsAreActive'
  BY <1>1, EnqueueLeaves
<1> QED
  BY <1>1, <1>2, <1>3, <1>4, WorkersStep

(* A job starts with one worker, which has read nothing yet. *)
LEMMA StartsKeeps ==
  ASSUME IInv, NEW w \in Workers, NEW j \in Jobs, Starts(w, j)
  PROVE  IInv'
<1>1. PICK y \in Job : y = job[j]
  BY DEF Starts, IInv, TypeOK
<1>2. PICK z : z = [y EXCEPT !.state = "active"]
  OBVIOUS
<1>3. z \in Job /\ z.state = "active" /\ z # None
  BY <1>2, NoneAssumption DEF Job
<1>4. PICK x : x = Fresh(j, y.session)
  OBVIOUS
<1>5. x \in Worker /\ x.at = "reading"
  BY <1>1, <1>4 DEF Fresh, Worker, Job, NoRow
<1>6. Sound(x)
  BY <1>5 DEF Sound
<1>7. /\ job' = [job EXCEPT ![j] = z] /\ Turns(w, x)
      /\ UNCHANGED <<file, session, register, lives, revision>>
  BY <1>1, <1>2, <1>4 DEF Starts, Turns
<1>8. /\ job' \in [Jobs -> Job \union {None}] /\ job'[j] = z
      /\ \A k \in Jobs : k # j => job'[k] = job[k]
  BY <1>3, <1>7 DEF IInv, TypeOK
<1>9. x.job = j /\ \A v \in Workers : ~WorksOn(v, j)
  BY <1>4 DEF Fresh, Starts, IInv, JobsAreActive
<1>10. worker'[w] = x /\ \A v \in Workers : v # w => worker'[v] = worker[v]
  BY <1>7 DEF IInv, TypeOK, Turns
<1>11. worker[w] = None
  BY DEF Starts, IdleWorkers
<1>12. JobsAreActive'
  BY <1>3, <1>8, <1>9, <1>10, <1>11 DEF IInv, JobsAreActive, WorksOn
<1> QED
  BY <1>5, <1>6, <1>7, <1>8, <1>12, OneWorkerStep

(* A worker is done, and its job with it or not. *)
Leaves(w) ==
    /\ Turns(w, None)
    /\ \/ job' = job
       \/ \E j \in Jobs, y \in Job \union {None} :
             WorksOn(w, j) /\ job' = [job EXCEPT ![j] = y]

(* A worker that ends, fails or dies leaves its job to the queue. *)
LEMMA LeavesIs ==
  ASSUME IInv, NEW w \in Workers, Leaves(w)
  PROVE  job' \in [Jobs -> Job \union {None}] /\ JobsAreActive'
<1>1. job' \in [Jobs -> Job \union {None}]
  BY DEF Leaves, IInv, TypeOK
<1>2. PICK x : x = None
  OBVIOUS
<1>3. Turns(w, x) /\ KeepsJob(w, x)
  BY <1>2 DEF Leaves, KeepsJob, IInv, TypeOK
<1> QED
  BY <1>1, <1>2, <1>3, JobsAreKept

LEMMA LeavesKeeps ==
  ASSUME IInv, NEW w \in Workers, Leaves(w),
         UNCHANGED <<file, session, register, lives, revision>>
  PROVE  IInv'
<1>1. PICK x : x = None
  OBVIOUS
<1>2. Turns(w, x) /\ x \in Worker \union {None}
  BY <1>1 DEF Leaves
<1> QED
  BY <1>1, <1>2, LeavesIs, OneWorkerStep

LEMMA EndsIs ==
  ASSUME IInv, NEW w \in Workers, worker[w] # None, Ends(w)
  PROVE  Leaves(w)
<1>1. PICK y : y = None
  OBVIOUS
<1>2. CASE worker[w].job = None
  BY <1>2 DEF Ends, Completed, Leaves, Turns
<1>3. CASE worker[w].job # None
  <2>1. PICK j \in Jobs : j = worker[w].job
    BY <1>3, WorkerIs DEF Worker
  <2>2. WorksOn(w, j) /\ job' = [job EXCEPT ![j] = y]
    BY <1>1, <1>3, <2>1 DEF Ends, Completed, WorksOn
  <2> QED
    BY <1>1, <2>2 DEF Ends, Leaves, Turns
<1> QED
  BY <1>2, <1>3

LEMMA FailsKeeps ==
  ASSUME IInv, NEW w \in Workers, Fails(w) \/ Dies(w)
  PROVE  IInv'
<1>1. /\ worker[w] # None /\ Turns(w, None)
      /\ UNCHANGED <<file, session, register, lives, revision>>
  BY DEF Fails, Dies, Turns
<1>2. Leaves(w)
  <2>1. CASE job' = job
    BY <1>1, <2>1 DEF Leaves
  <2>2. CASE job' # job
    <3>1. PICK j : j = worker[w].job /\ j # None
      BY <2>2 DEF Fails, Dies
    <3>2. j \in Jobs /\ WorksOn(w, j)
      BY <1>1, <3>1, WorkerIs DEF Worker, WorksOn
    <3>3. PICK y \in Job : y = job[j]
      BY <3>2 DEF IInv, TypeOK, JobsAreActive
    <3>4. job' = [job EXCEPT ![j] = Failed(y)]
      BY <2>2, <3>1, <3>3 DEF Fails, Dies
    <3> QED
      BY <1>1, <3>2, <3>4, FailedIs DEF Leaves
  <2> QED
    BY <2>1, <2>2
<1> QED
  BY <1>1, <1>2, LeavesKeeps

(* A worker taken for dead goes on without its job. *)
LEMMA ExpiresKeeps ==
  ASSUME IInv, NEW j \in Jobs, Expires(j)
  PROVE  IInv'
<1>1. PICK y \in Job : y = job[j]
  BY DEF Expires, IInv, TypeOK
<1>2. /\ UNCHANGED <<file, session, register, lives, revision>>
      /\ job' = [job EXCEPT ![j] = Failed(y)]
  BY <1>1 DEF Expires
<1>3. /\ job' \in [Jobs -> Job \union {None}]
      /\ \A k \in Jobs : k # j => job'[k] = job[k]
  BY <1>2, FailedIs DEF IInv, TypeOK
<1>4. ASSUME NEW w \in Workers
      PROVE  /\ ~WorksOn(w, j) => worker'[w] = worker[w]
             /\ WorksOn(w, j) => worker'[w] = [worker[w] EXCEPT !.job = None]
  BY DEF Expires, WorksOn
<1>5. ASSUME NEW w \in Workers, NEW o, o = worker[w], WorksOn(w, j),
             NEW x, x = [o EXCEPT !.job = None]
      PROVE  /\ x \in Worker /\ x # None /\ x.job = None /\ x.at = o.at
             /\ Sound(x)
  <2>1. o \in Worker /\ Sound(o)
    BY <1>5, WorkerIs DEF WorksOn
  <2>2. /\ x \in Worker /\ x.job = None /\ x.at = o.at /\ x.session = o.session
        /\ x.cursor = o.cursor /\ x.created = o.created /\ x.plan = o.plan
    BY <1>5, <2>1 DEF Worker
  <2>3. Sound(x)
    BY <2>1, <2>2 DEF Sound, Abreast, Claimed, Checked, Settled, LeftOut
  <2> QED
    BY <2>2, <2>3, NoneAssumption
<1>6. ASSUME NEW w \in Workers
      PROVE  /\ worker'[w] \in Worker \union {None}
             /\ \A o \in {worker'[w]} \ {None} : Sound(o)
             /\ HoldsRow(w)' => HoldsRow(w)
             /\ ~WorksOn(w, j)'
             /\ \A k \in Jobs : WorksOn(w, k)' => WorksOn(w, k)
  <2>1. CASE WorksOn(w, j)
    <3>1. PICK o : o = worker[w]
      OBVIOUS
    <3>2. PICK x : x = [o EXCEPT !.job = None]
      OBVIOUS
    <3>3. worker'[w] = x
      BY <1>4, <2>1, <3>1, <3>2
    <3>4. /\ x \in Worker /\ x # None /\ x.job = None /\ x.at = o.at /\ Sound(x)
      BY <1>5, <2>1, <3>1, <3>2
    <3>5. \A k \in Jobs : x.job # k
      BY <3>4, NoneAssumption
    <3> QED
      BY <2>1, <3>1, <3>3, <3>4, <3>5 DEF HoldsRow, WorksOn
  <2>2. CASE ~WorksOn(w, j)
    BY <1>4, <2>2 DEF IInv, TypeOK, WorkersAreSound, HoldsRow, WorksOn
  <2> QED
    BY <2>1, <2>2
<1>7. worker' \in [Workers -> Worker \union {None}]
  <2>1. worker' = [w \in Workers |-> worker'[w]]
    BY DEF Expires
  <2> QED
    BY <1>6, <2>1
<1>8. OneHolds'
  BY <1>6 DEF IInv, OneHolds
<1>9. JobsAreActive'
  BY <1>3, <1>6 DEF IInv, JobsAreActive
<1> QED
  BY <1>2, <1>3, <1>6, <1>7, <1>8, <1>9, WorkersStep

-----------------------------------------------------------------------------
(* A worker's next step, with the job it has. *)
LEMMA GoesOnKeeps ==
  ASSUME IInv, NEW w \in Workers, worker[w] # None, NEW x \in Worker, Turns(w, x),
         x.job = worker[w].job, Sound(x), job' = job,
         UNCHANGED <<file, session, register, lives, revision>>,
         x.at \in {"locking", "writing"} => \A v \in Workers : HoldsRow(v) => v = w
  PROVE  IInv'
<1>1. KeepsJob(w, x)
  BY DEF KeepsJob
<1>2. JobsAreActive'
  BY <1>1, JobsAreKept
<1>3. job' \in [Jobs -> Job \union {None}]
  BY JobStays
<1> QED
  BY <1>2, <1>3, OneWorkerStep

(* What is read of the session is what stands there. *)
LEMMA ReadsKeeps ==
  ASSUME IInv, NEW w \in Workers, Reads(w)
  PROVE  IInv'
<1>1. PICK o : o = worker[w] /\ o # None /\ o.at = "reading"
  BY DEF Reads, At
<1>2. o \in Worker /\ o.session \in Sessions
  BY <1>1, WorkerIs
<1>3. PICK s \in Sessions : s = o.session
  BY <1>2
<1>4. UNCHANGED <<file, session, register, lives, revision>>
  BY DEF Reads
<1>5. CASE status[s] \in Running
  <2>1. PICK step \in {"starting", "planning"} :
          step = IF status[s] = "QUEUED" THEN "starting" ELSE "planning"
    OBVIOUS
  <2>2. PICK n \in Nat : n = cursor[s]
    BY DEF IInv, TypeOK
  <2>3. PICK by \in [Rows -> Persons \union {None}] : by = created[s]
    BY DEF IInv, TypeOK
  <2>4. PICK x : x = [o EXCEPT !.at = step, !.cursor = n, !.created = by]
    OBVIOUS
  <2>5. cursor[s] < Len(file[s]) /\ status[s] # "MAPPING"
    BY <1>5 DEF IInv, SessionIsSound, Running
  <2>6. /\ x \in Worker /\ x.job = o.job /\ x.at = step /\ x.session = s
        /\ x.cursor = cursor[s] /\ x.created = created[s]
    BY <1>2, <1>3, <2>1, <2>2, <2>3, <2>4 DEF Worker
  <2>7. Turns(w, x) /\ job' = job
    BY <1>1, <1>3, <1>5, <2>1, <2>2, <2>3, <2>4 DEF Reads, Turns
  <2>8. Abreast(x)
    BY <2>2, <2>5, <2>6 DEF Abreast
  <2>9. Sound(x)
    BY <2>6, <2>8 DEF Sound
  <2> QED
    BY <1>1, <1>4, <2>6, <2>7, <2>9, GoesOnKeeps
<1>6. CASE status[s] \notin Running
  <2>1. Ends(w)
    BY <1>1, <1>3, <1>6 DEF Reads
  <2> QED
    BY <1>1, <1>4, <2>1, EndsIs, LeavesKeeps
<1> QED
  BY <1>5, <1>6

(* What a worker finds for its row now. *)
LEMMA PlanNowIs ==
  ASSUME IInv, NEW w \in Workers, NEW o, o = worker[w], o # None
  PROVE  PlanNow(w) = PlanFor(file[o.session][o.cursor + 1])
<1>1. PICK rows, decisions : rows = file[o.session] /\ decisions = preview[o.session].decisions
  OBVIOUS
<1>2. PICK n \in Nat : n = o.cursor
  BY WorkerIs
<1>3. Window(w) = n + 1
  BY <1>2 DEF Window
<1>4. PlanNow(w) = Plan(rows, n, n + 1, decisions)[n + 1]
  BY <1>1, <1>2, <1>3 DEF PlanNow
<1> QED
  BY <1>1, <1>2, <1>4, PlanOfOneRow

(* A plan is made and compared with what the board was shown. *)
LEMMA PlansKeeps ==
  ASSUME IInv, NEW w \in Workers, Plans(w)
  PROVE  IInv'
<1>1. PICK o : o = worker[w] /\ o # None /\ o.at = "planning"
  BY DEF Plans, At
<1>2. o \in Worker /\ Sound(o)
  BY <1>1, WorkerIs
<1>3. PICK p : p = PlanNow(w)
  OBVIOUS
<1>4. p \in Planned
  BY <1>1, <1>3, PlanNowIs, PlanForIs
<1>5. PICK stale \in BOOLEAN :
        stale <=> Refused(w, p) \/ Changed(preview[o.session], Window(w), p, o.created)
  OBVIOUS
<1>6. PICK x : x = [o EXCEPT !.plan = p, !.at = IF stale THEN "stopping" ELSE "claiming"]
  OBVIOUS
<1>7. /\ x \in Worker /\ x.job = o.job /\ x.plan = p /\ x.session = o.session
      /\ x.cursor = o.cursor /\ x.created = o.created
      /\ x.at = IF stale THEN "stopping" ELSE "claiming"
  BY <1>2, <1>4, <1>6 DEF Worker
<1>8. Turns(w, x) /\ job' = job /\ UNCHANGED <<file, session, register, lives, revision>>
  BY <1>1, <1>3, <1>5, <1>6 DEF Plans, Turns
<1>9. Abreast(x)
  BY <1>1, <1>2, <1>7 DEF Sound, Abreast
<1>10. ~stale => Checked(x)
  BY <1>1, <1>4, <1>5, <1>7 DEF Checked, Refused, Window
<1>11. Sound(x)
  BY <1>7, <1>9, <1>10 DEF Sound
<1>12. x.at \notin {"locking", "writing"}
  BY <1>7
<1> QED
  BY <1>1, <1>7, <1>8, <1>11, <1>12, GoesOnKeeps

(* The claim finds the cursor where it was read, or ends the job. *)
LEMMA ClaimsKeeps ==
  ASSUME IInv, NEW w \in Workers, Claims(w)
  PROVE  IInv'
<1>1. PICK o : o = worker[w] /\ o # None /\ o.at = "claiming"
  BY DEF Claims, At
<1>2. o \in Worker /\ Sound(o) /\ o.session \in Sessions
  BY <1>1, WorkerIs
<1>3. UNCHANGED <<file, session, register, lives, revision>>
  BY DEF Claims
<1>4. CASE MayClaim(w)
  <2>1. PICK x : x = [o EXCEPT !.at = "locking"]
    OBVIOUS
  <2>2. /\ x \in Worker /\ x.job = o.job /\ x.plan = o.plan /\ x.session = o.session
        /\ x.cursor = o.cursor /\ x.created = o.created /\ x.at = "locking"
    BY <1>2, <2>1 DEF Worker
  <2>3. Turns(w, x) /\ job' = job
    BY <1>1, <1>4, <2>1 DEF Claims, Goes, Turns
  <2>4. Claimed(x)
    BY <1>1, <1>4, <2>2 DEF MayClaim, Claimed
  <2>5. Sound(x)
    BY <1>1, <1>2, <2>2, <2>4 DEF Sound, Abreast, Checked
  <2>6. ASSUME NEW v \in Workers, HoldsRow(v)
        PROVE  FALSE
    <3>1. PICK q : q = worker[v] /\ q # None /\ q.at \in {"locking", "writing"}
      BY <2>6 DEF HoldsRow
    <3>2. q.session \in Sessions /\ status[q.session] = "APPLYING"
      BY <3>1, WorkerIs DEF Sound, Claimed
    <3>3. status[o.session] = "APPLYING"
      BY <1>1, <1>4 DEF MayClaim
    <3>4. q.session = o.session
      BY <1>2, <3>2, <3>3 DEF IInv, OneRuns, Running
    <3> QED
      BY <1>1, <3>1, <3>4 DEF Claims, RowHeld
  <2> QED
    BY <1>1, <1>3, <2>2, <2>3, <2>5, <2>6, GoesOnKeeps
<1>5. CASE ~MayClaim(w)
  <2>1. Ends(w)
    BY <1>5 DEF Claims
  <2> QED
    BY <1>1, <1>3, <2>1, EndsIs, LeavesKeeps
<1> QED
  BY <1>4, <1>5

(* The plan made again under the locks is still what the board was shown.  *)
LEMMA LockedIsChecked ==
  ASSUME NEW o, Checked(o), NEW p \in Planned, NEW shown, shown = preview[o.session],
         NEW i, i = o.cursor + 1,
         ~ReachedOtherwise(o.plan, p, shown.decisions[i]),
         Fits(p, shown.decisions[i]), ~Retargeted(shown, i, p, o.created),
         p.outcome = "ambiguous"
  PROVE  ~Changed(shown, i, p, o.created)
<1>1. /\ o.plan \in Planned /\ Fits(o.plan, shown.decisions[i])
      /\ o.plan.outcome = "ambiguous" => ~Changed(shown, i, o.plan, o.created)
  BY DEF Checked
<1>2. shown.decisions[i] # "none"
  BY PersonsAssumption DEF Fits, Planned
<1>3. o.plan.outcome = "ambiguous"
  BY <1>1, <1>2 DEF Fits
<1>4. CASE shown.decisions[i] = "skip"
  BY <1>4 DEF Changed
<1>5. CASE shown.decisions[i] # "skip"
  <2>1. o.plan = p
    BY <1>3, <1>5 DEF ReachedOtherwise
  <2> QED
    BY <1>1, <1>3, <2>1
<1> QED
  BY <1>4, <1>5

(* Under the locks the row is planned once more. *)
LEMMA LocksKeeps ==
  ASSUME IInv, NEW w \in Workers, Locks(w)
  PROVE  IInv'
<1>1. PICK o : o = worker[w] /\ o # None /\ o.at = "locking"
  BY DEF Locks, At
<1>2. o \in Worker /\ Sound(o)
  BY <1>1, WorkerIs
<1>3. PICK p : p = PlanNow(w)
  OBVIOUS
<1>4. p \in Planned /\ p = PlanFor(file[o.session][o.cursor + 1])
  BY <1>1, <1>3, PlanNowIs, PlanForIs
<1>5. PICK shown, i : shown = preview[o.session] /\ i = o.cursor + 1
  OBVIOUS
<1>6. PICK stale \in BOOLEAN :
        stale <=> ReachedOtherwise(o.plan, p, shown.decisions[i]) \/ Refused(w, p)
  OBVIOUS
<1>7. PICK x : x = [o EXCEPT !.plan = p, !.at = IF stale THEN "stopping" ELSE "writing"]
  OBVIOUS
<1>8. /\ x \in Worker /\ x.job = o.job /\ x.plan = p /\ x.session = o.session
      /\ x.cursor = o.cursor /\ x.created = o.created
      /\ x.at = IF stale THEN "stopping" ELSE "writing"
  BY <1>2, <1>4, <1>7 DEF Worker
<1>9. Window(w) = i
  BY <1>1, <1>5 DEF Window
<1>10. Turns(w, x) /\ job' = job /\ UNCHANGED <<file, session, register, lives, revision>>
  BY <1>1, <1>3, <1>5, <1>6, <1>7, <1>9 DEF Locks, Turns
<1>11. Abreast(x) /\ Claimed(x)
  BY <1>1, <1>2, <1>8 DEF Sound, Abreast, Claimed
<1>12. ~stale => Checked(x) /\ Settled(x)
  <2> SUFFICES ASSUME ~stale
               PROVE  Checked(x) /\ Settled(x)
    OBVIOUS
  <2>1. Fits(p, shown.decisions[i]) /\ ~Retargeted(shown, i, p, o.created)
    BY <1>1, <1>5, <1>6, <1>9 DEF Refused
  <2>2. Checked(o)
    BY <1>1, <1>2 DEF Sound
  <2>3. p.outcome = "ambiguous" => ~Changed(shown, i, p, o.created)
    BY <1>4, <1>5, <1>6, <2>1, <2>2, LockedIsChecked
  <2>4. Checked(x)
    BY <1>4, <1>5, <1>8, <2>1, <2>3 DEF Checked
  <2> QED
    BY <1>4, <1>8, <2>4 DEF Settled
<1>13. Sound(x)
  BY <1>8, <1>11, <1>12 DEF Sound
<1>14. \A v \in Workers : HoldsRow(v) => v = w
  BY <1>1 DEF IInv, OneHolds, HoldsRow
<1> QED
  BY <1>1, <1>8, <1>10, <1>13, <1>14, GoesOnKeeps

-----------------------------------------------------------------------------
(* The sessions' own steps. *)
LEMMA StaysSound ==
  ASSUME NEW o, Sound(o), file' = file, register' = register, cursor' = cursor,
         created' = created,
         o.at # "reading" => /\ status'[o.session] # "MAPPING"
                             /\ preview'[o.session] = preview[o.session],
         o.at \in {"locking", "writing"} => status'[o.session] = "APPLYING"
  PROVE  Sound(o)'
<1>1. o.at # "reading" => Abreast(o)'
  BY DEF Sound, Abreast
<1>2. o.at \in {"locking", "writing"} => Claimed(o)'
  BY DEF Sound, Claimed
<1>3. PlanFor(file[o.session][o.cursor + 1])' = PlanFor(file[o.session][o.cursor + 1])
  BY RegisterStays
<1> QED
  BY <1>1, <1>2, <1>3, SoundKeeps

(* A preview changes only as long as its import waits. *)
LEMMA PreviewStep ==
  ASSUME IInv, NEW s \in Sessions, NEW x \in Preview \union {None},
         preview' = [preview EXCEPT ![s] = x], status[s] = "MAPPING",
         x # None => file[s] # <<>>,
         UNCHANGED <<file, status, cursor, created, register, lives, revision, job, worker>>
  PROVE  IInv'
<1>1. /\ preview' \in [Sessions -> Preview \union {None}] /\ preview'[s] = x
      /\ \A t \in Sessions : t # s => preview'[t] = preview[t]
  BY DEF IInv, TypeOK
<1>2. TypeOK'
  BY <1>1 DEF IInv, TypeOK
<1>3. OneRuns' /\ OneHolds' /\ JobsAreActive'
  BY DEF IInv, OneRuns, OneHolds, HoldsRow, JobsAreActive, WorksOn
<1>4. (\A t \in Sessions : SessionIsSound(t))'
  BY <1>1 DEF IInv, SessionIsSound, Running, Failures
<1>5. RowsFollowTheCursor'
  BY <1>1, RowsStay DEF IInv, SessionIsSound
<1>6. ASSUME NEW v \in Workers, NEW o, o = worker[v], o # None
      PROVE  Sound(o)'
  <2>1. o \in Worker /\ Sound(o) /\ o.session \in Sessions
    BY <1>6, WorkerIs
  <2>2. o.at # "reading" => status[o.session] # "MAPPING" /\ preview'[o.session] = preview[o.session]
    BY <1>1, <2>1 DEF Sound, Abreast
  <2>3. o.at \in {"locking", "writing"} => status[o.session] = "APPLYING"
    BY <2>1 DEF Sound, Claimed
  <2> QED
    BY <2>1, <2>2, <2>3, StaysSound
<1>7. WorkersAreSound'
  BY <1>6 DEF WorkersAreSound
<1> QED
  BY <1>2, <1>3, <1>4, <1>5, <1>7 DEF IInv

(* What a preview records has its types. *)
LEMMA TargetIs ==
  ASSUME NEW p \in Planned, NEW createdBy,
         p.outcome = "update" => p.person \in Persons \/ p.sameAs \in Rows
  PROVE  TargetOf(p, createdBy) \in Target
<1>1. PICK by \in SUBSET Rows :
        by = {j \in Rows : createdBy[j] # None /\ createdBy[j] = p.person}
  OBVIOUS
<1>2. CASE p.outcome # "update"
  <2>1. p.outcome \in {"create", "ambiguous"}
    BY <1>2 DEF Planned
  <2>2. TargetOf(p, createdBy) = <<p.outcome>>
    BY <1>2 DEF TargetOf
  <2> QED
    BY <2>1, <2>2 DEF Target
<1>3. CASE p.outcome = "update" /\ p.person = None
  <2>1. PICK j \in Rows : j = p.sameAs
    BY <1>3, NoneAssumption
  <2>2. TargetOf(p, createdBy) = <<"row", j>>
    BY <1>3, <2>1 DEF TargetOf
  <2> QED
    BY <2>2 DEF Target
<1>4. CASE p.outcome = "update" /\ p.person # None /\ by # {}
  <2>1. PICK j \in Rows : j = CHOOSE k \in by : TRUE
    BY <1>4
  <2>2. TargetOf(p, createdBy) = <<"row", j>>
    BY <1>1, <1>4, <2>1 DEF TargetOf
  <2> QED
    BY <2>2 DEF Target
<1>5. CASE p.outcome = "update" /\ p.person # None /\ by = {}
  <2>1. p.person \in Persons
    BY <1>5 DEF Planned
  <2>2. TargetOf(p, createdBy) = <<"person", p.person>>
    BY <1>1, <1>5 DEF TargetOf
  <2> QED
    BY <2>1, <2>2 DEF Target
<1> QED
  BY <1>2, <1>3, <1>4, <1>5

LEMMA PreviewStartsKeeps ==
  ASSUME IInv, NEW s \in Sessions, PreviewStarts(s)
  PROVE  IInv'
<1>1. PICK x : x = [at |-> "planning", revision |-> revision, targets |-> NoRow,
                    listed |-> NoRow, decisions |-> [i \in Rows |-> "none"]]
  OBVIOUS
<1>2. /\ revision \in Nat /\ NoRow \in [Rows -> Target \union {None}]
      /\ NoRow \in [Rows -> (SUBSET Persons) \union {None}]
      /\ [i \in Rows |-> "none"] \in [Rows -> Decision]
  BY DEF IInv, TypeOK, NoRow, Decision
<1>3. x \in Preview
  BY <1>1, <1>2 DEF Preview
<1> QED
  BY <1>1, <1>3, PreviewStep DEF PreviewStarts

LEMMA PreviewReadyKeeps ==
  ASSUME IInv, NEW s \in Sessions, PreviewReady(s)
  PROVE  IInv'
<1>1. PICK y \in Preview : y = preview[s]
  BY DEF PreviewReady, IInv, TypeOK
<1>2. PICK n \in 0..2 : n = Len(file[s])
  BY FileIs
<1>3. PICK decisions \in [Rows -> Decision] :
        LET plan == Plan(file[s], 0, Len(file[s]), decisions)
        IN  preview' = [preview EXCEPT
              ![s].at = "ready",
              ![s].decisions = decisions,
              ![s].targets = [i \in Rows |->
                 IF i \in DOMAIN plan THEN TargetOf(plan[i], NoRow) ELSE None],
              ![s].listed = [i \in Rows |->
                 IF i \in DOMAIN plan /\ plan[i].outcome = "ambiguous"
                 THEN plan[i].candidates ELSE None]]
  BY DEF PreviewReady
<1>4. PICK plan : plan = Plan(file[s], 0, n, decisions)
  OBVIOUS
<1>5. \A i \in DOMAIN plan : plan[i] \in Planned /\ (plan[i].outcome = "update" =>
                               plan[i].person \in Persons \/ plan[i].sameAs \in Rows)
  BY <1>4, PlanOfAllRows
<1>6. PICK targets : targets = [i \in Rows |->
                       IF i \in DOMAIN plan THEN TargetOf(plan[i], NoRow) ELSE None]
  OBVIOUS
<1>7. PICK listed : listed = [i \in Rows |->
                      IF i \in DOMAIN plan /\ plan[i].outcome = "ambiguous"
                      THEN plan[i].candidates ELSE None]
  OBVIOUS
<1>8. targets \in [Rows -> Target \union {None}]
  BY <1>5, <1>6, TargetIs
<1>9. listed \in [Rows -> (SUBSET Persons) \union {None}]
  BY <1>5, <1>7 DEF Planned
<1>10. PICK x : x = [y EXCEPT !.at = "ready", !.decisions = decisions,
                              !.targets = targets, !.listed = listed]
  OBVIOUS
<1>11. x \in Preview
  BY <1>8, <1>9, <1>10 DEF Preview
<1>12. preview' = [preview EXCEPT ![s] = x]
  BY <1>1, <1>2, <1>3, <1>4, <1>6, <1>7, <1>10
<1>13. file[s] # <<>>
  BY DEF PreviewReady, IInv, SessionIsSound
<1> QED
  BY <1>11, <1>12, <1>13, PreviewStep DEF PreviewReady

LEMMA PreviewStopsKeeps ==
  ASSUME IInv, NEW s \in Sessions, PreviewStops(s)
  PROVE  IInv'
<1>1. status[s] = "MAPPING"
  BY DEF PreviewStops, IInv, SessionIsSound
<1>2. PICK x : x = None
  OBVIOUS
<1> QED
  BY <1>1, <1>2, PreviewStep DEF PreviewStops

(* An import is accepted, begun or stopped: no row is written. *)
LEMMA StatusStep ==
  ASSUME IInv, UNCHANGED <<file, preview, cursor, created, register, lives, revision>>,
         status' \in [Sessions -> Status],
         job' \in [Jobs -> Job \union {None}],
         worker' \in [Workers -> Worker \union {None}],
         OneRuns', (\A s \in Sessions : SessionIsSound(s))', OneHolds', JobsAreActive',
         \A v \in Workers : \A o \in {worker'[v]} \ {None} :
            /\ Sound(o)
            /\ o.at # "reading" => status'[o.session] # "MAPPING"
            /\ o.at \in {"locking", "writing"} => status'[o.session] = "APPLYING"
  PROVE  IInv'
<1>1. TypeOK'
  BY DEF IInv, TypeOK
<1>2. RowsFollowTheCursor'
  BY RowsStay
<1>3. ASSUME NEW v \in Workers, NEW o, o = worker'[v], o # None
      PROVE  Sound(o)'
  BY <1>3, StaysSound
<1>4. WorkersAreSound'
  <2> SUFFICES ASSUME NEW v \in Workers
               PROVE  \A o \in {worker'[v]} \ {None} : Sound(o)'
    BY DEF WorkersAreSound
  <2> QED
    BY <1>3
<1> QED
  BY <1>1, <1>2, <1>4 DEF IInv

(* apply accepts an import as long as no other runs. *)
LEMMA ApplyKeeps ==
  ASSUME IInv, NEW s \in Sessions, Apply(s)
  PROVE  IInv'
<1>1. /\ UNCHANGED <<file, preview, cursor, created, register, lives, revision>>
      /\ worker' = worker /\ Enqueue(s)
      /\ status[s] = "MAPPING" /\ preview[s] # None /\ preview[s].at = "ready"
  BY DEF Apply
<1>2. /\ status' \in [Sessions -> Status] /\ status'[s] = "QUEUED"
      /\ \A t \in Sessions : t # s => status'[t] = status[t] /\ status[t] \notin Running
  BY DEF Apply, MayRun, IInv, TypeOK, Status, Running
<1>3. job' \in [Jobs -> Job \union {None}] /\ JobsAreActive'
  BY <1>1, EnqueueIs, EnqueueLeaves DEF IInv
<1>4. OneRuns'
  BY <1>2 DEF OneRuns
<1>5. ASSUME NEW t \in Sessions
      PROVE  SessionIsSound(t)'
  <2>1. CASE t # s
    BY <1>1, <1>2, <2>1 DEF IInv, SessionIsSound
  <2>2. CASE t = s
    <3>1. cursor[s] = 0 /\ file[s] # <<>>
      BY <1>1 DEF IInv, SessionIsSound
    <3>2. cursor[s] < Len(file[s])
      BY <3>1, FileIs
    <3> QED
      BY <1>1, <1>2, <2>2, <3>1, <3>2 DEF SessionIsSound
  <2> QED
    BY <2>1, <2>2
<1>6. OneHolds' /\ worker' \in [Workers -> Worker \union {None}]
  BY <1>1 DEF IInv, TypeOK, OneHolds, HoldsRow
<1>7. ASSUME NEW v \in Workers, NEW o, o = worker'[v], o # None
      PROVE  /\ Sound(o)
             /\ o.at # "reading" => status'[o.session] # "MAPPING"
             /\ o.at \in {"locking", "writing"} => status'[o.session] = "APPLYING"
  <2>1. Sound(o) /\ o.session \in Sessions
    BY <1>1, <1>7, WorkerIs
  <2>2. o.at # "reading" => o.session # s /\ status[o.session] # "MAPPING"
    BY <1>1, <2>1 DEF Sound, Abreast
  <2>3. o.at \in {"locking", "writing"} => status[o.session] = "APPLYING"
    BY <2>1 DEF Sound, Claimed
  <2> QED
    BY <1>2, <2>1, <2>2, <2>3
<1> QED
  BY <1>1, <1>2, <1>3, <1>4, <1>5, <1>6, <1>7, StatusStep

(* stopImport: a session whose row is held is not stopped. *)
LEMMA StopStep ==
  ASSUME IInv, NEW s \in Sessions, NEW reason \in Failures, StopImport(s, reason),
         UNCHANGED <<file, preview, cursor, created, register, lives, revision>>,
         job' \in [Jobs -> Job \union {None}],
         worker' \in [Workers -> Worker \union {None}],
         \A v \in Workers : worker'[v] = worker[v] \/ worker'[v] = None,
         JobsAreActive'
  PROVE  IInv'
<1>1. /\ status' \in [Sessions -> Status]
      /\ \A t \in Sessions : t # s => status'[t] = status[t]
      /\ \/ status'[s] = status[s]
         \/ status'[s] = reason /\ status[s] \in Running /\ cursor[s] < Len(file[s])
  BY DEF StopImport, IInv, TypeOK, Status
<1>2. reason \notin Running /\ reason # "MAPPING" /\ reason # "APPLIED"
  BY DEF Failures, Running
<1>3. OneRuns'
  BY <1>1, <1>2 DEF IInv, OneRuns
<1>4. ASSUME NEW t \in Sessions
      PROVE  SessionIsSound(t)'
  <2>1. CASE status'[t] = status[t]
    BY <2>1 DEF IInv, SessionIsSound
  <2>2. CASE status'[t] # status[t]
    <3>1. t = s /\ status'[s] = reason /\ status[s] \in Running /\ cursor[s] < Len(file[s])
      BY <1>1, <2>2
    <3>2. preview[s] # None /\ preview[s].at = "ready" /\ file[s] # <<>>
      BY <3>1 DEF IInv, SessionIsSound, Running
    <3> QED
      BY <1>2, <3>1, <3>2 DEF SessionIsSound
  <2> QED
    BY <2>1, <2>2
<1>5. OneHolds'
  BY DEF IInv, OneHolds, HoldsRow
<1>6. ASSUME NEW v \in Workers, NEW o, o = worker'[v], o # None
      PROVE  /\ Sound(o)
             /\ o.at # "reading" => status'[o.session] # "MAPPING"
             /\ o.at \in {"locking", "writing"} => status'[o.session] = "APPLYING"
  <2>1. o = worker[v]
    BY <1>6
  <2>2. Sound(o) /\ o.session \in Sessions
    BY <1>6, <2>1, WorkerIs
  <2>3. o.at # "reading" => status'[o.session] # "MAPPING"
    BY <1>1, <1>2, <2>2 DEF Sound, Abreast
  <2>4. o.at \in {"locking", "writing"} => o.session # s
    BY <1>6, <2>1 DEF StopImport, RowHeld
  <2>5. o.at \in {"locking", "writing"} => status[o.session] = "APPLYING"
    BY <2>2 DEF Sound, Claimed
  <2> QED
    BY <1>1, <2>2, <2>3, <2>4, <2>5
<1> QED
  BY <1>1, <1>3, <1>4, <1>5, <1>6, StatusStep

LEMMA AbandonKeeps ==
  ASSUME IInv, NEW s \in Sessions, Abandon(s)
  PROVE  IInv'
<1>1. PICK reason \in Failures : reason = "apply-abandoned"
  BY DEF Failures
<1>2. /\ UNCHANGED <<file, preview, cursor, created, register, lives, revision>>
      /\ job' = job /\ worker' = worker /\ StopImport(s, reason)
  BY <1>1 DEF Abandon
<1>3. /\ job' \in [Jobs -> Job \union {None}]
      /\ worker' \in [Workers -> Worker \union {None}] /\ JobsAreActive'
  BY <1>2 DEF IInv, TypeOK, JobsAreActive, WorksOn
<1> QED
  BY <1>2, <1>3, StopStep

LEMMA StopsKeeps ==
  ASSUME IInv, NEW w \in Workers, Stops(w)
  PROVE  IInv'
<1>1. PICK reason \in Failures : reason = "register-changed"
  BY DEF Failures
<1>2. PICK s \in Sessions : s = worker[w].session
  BY WorkerIs DEF Stops, At
<1>3. /\ UNCHANGED <<file, preview, cursor, created, register, lives, revision>>
      /\ worker[w] # None /\ Ends(w) /\ StopImport(s, reason)
  BY <1>1, <1>2 DEF Stops, At
<1>4. job' \in [Jobs -> Job \union {None}] /\ JobsAreActive'
  BY <1>3, EndsIs, LeavesIs
<1>5. /\ worker' \in [Workers -> Worker \union {None}]
      /\ \A v \in Workers : worker'[v] = worker[v] \/ worker'[v] = None
  BY <1>3 DEF Ends, IInv, TypeOK
<1> QED
  BY <1>3, <1>4, <1>5, StopStep

LEMMA RecordsRetriesSpentKeeps ==
  ASSUME IInv, NEW j \in Jobs, RecordsRetriesSpent(j)
  PROVE  IInv'
<1>1. PICK reason \in Failures : reason = "apply-interrupted"
  BY DEF Failures
<1>2. PICK y \in Job : y = job[j] /\ y.state = "abandoned"
  BY DEF RecordsRetriesSpent, IInv, TypeOK
<1>3. PICK s \in Sessions : s = y.session
  BY DEF Job
<1>4. /\ UNCHANGED <<file, preview, cursor, created, register, lives, revision>>
      /\ worker' = worker /\ StopImport(s, reason) /\ job' = [job EXCEPT ![j] = None]
  BY <1>1, <1>2, <1>3 DEF RecordsRetriesSpent
<1>5. /\ job' \in [Jobs -> Job \union {None}]
      /\ \A k \in Jobs : k # j => job'[k] = job[k]
  BY <1>4 DEF IInv, TypeOK
<1>6. \A v \in Workers : ~WorksOn(v, j)
  BY <1>2 DEF IInv, JobsAreActive
<1>7. JobsAreActive'
  BY <1>4, <1>5, <1>6 DEF IInv, JobsAreActive, WorksOn
<1>8. worker' \in [Workers -> Worker \union {None}]
  BY <1>4 DEF IInv, TypeOK
<1> QED
  BY <1>4, <1>5, <1>7, <1>8, StopStep

(* One worker starts a queued import. *)
LEMMA BeginsKeeps ==
  ASSUME IInv, NEW w \in Workers, Begins(w)
  PROVE  IInv'
<1>1. PICK o : o = worker[w] /\ o # None /\ o.at = "starting"
  BY DEF Begins, At
<1>2. o \in Worker /\ Sound(o)
  BY <1>1, WorkerIs
<1>3. PICK s \in Sessions : s = o.session
  BY <1>2 DEF Worker
<1>4. UNCHANGED <<file, preview, cursor, created, register, lives, revision>>
  BY DEF Begins
<1>5. CASE status[s] # "QUEUED"
  <2>1. Ends(w) /\ status' = status
    BY <1>1, <1>3, <1>5 DEF Begins
  <2> QED
    BY <1>1, <1>4, <2>1, EndsIs, LeavesKeeps DEF session
<1>6. CASE status[s] = "QUEUED"
  <2>1. PICK x : x = [o EXCEPT !.at = "planning"]
    OBVIOUS
  <2>2. /\ x \in Worker /\ x.job = o.job /\ x.session = o.session
        /\ x.cursor = o.cursor /\ x.created = o.created /\ x.at = "planning"
    BY <1>2, <2>1 DEF Worker
  <2>3. Turns(w, x) /\ job' = job /\ status' = [status EXCEPT ![s] = "APPLYING"]
    BY <1>1, <1>3, <1>6, <2>1 DEF Begins, Goes, Turns
  <2>4. /\ status' \in [Sessions -> Status] /\ status'[s] = "APPLYING"
        /\ \A t \in Sessions : t # s => status'[t] = status[t]
    BY <2>3 DEF IInv, TypeOK, Status, Running
  <2>5. OneRuns'
    BY <1>6, <2>4 DEF IInv, OneRuns, Running
  <2>6. ASSUME NEW t \in Sessions
        PROVE  SessionIsSound(t)'
    <3>1. CASE t # s
      BY <1>4, <2>4, <3>1 DEF IInv, SessionIsSound
    <3>2. CASE t = s
      BY <1>4, <1>6, <2>4, <3>2 DEF IInv, SessionIsSound, Running
    <3> QED
      BY <3>1, <3>2
  <2>7. KeepsJob(w, x)
    BY <1>1, <2>2, <2>3 DEF KeepsJob
  <2>8. JobsAreActive'
    BY <2>2, <2>3, <2>7, JobsAreKept
  <2>9. /\ worker' \in [Workers -> Worker \union {None}] /\ worker'[w] = x
        /\ \A v \in Workers : v # w => worker'[v] = worker[v]
        /\ OneHolds'
    BY <2>2, <2>3, OneTurns
  <2>10. Sound(x)
    BY <1>1, <1>2, <2>2 DEF Sound, Abreast
  <2>11. ASSUME NEW v \in Workers, NEW q, q = worker'[v], q # None
         PROVE  /\ Sound(q)
                /\ q.at # "reading" => status'[q.session] # "MAPPING"
                /\ q.at \in {"locking", "writing"} => status'[q.session] = "APPLYING"
    <3>1. Sound(q) /\ q.session \in Sessions
      <4>1. CASE v = w
        BY <1>3, <2>2, <2>9, <2>10, <2>11, <4>1
      <4>2. CASE v # w
        BY <2>9, <2>11, <4>2, WorkerIs
      <4> QED
        BY <4>1, <4>2
    <3> QED
      BY <2>4, <3>1 DEF Sound, Abreast, Claimed
  <2>12. job' \in [Jobs -> Job \union {None}]
    BY <2>3, JobStays
  <2> QED
    BY <1>4, <2>4, <2>5, <2>6, <2>8, <2>9, <2>11, <2>12, StatusStep
<1> QED
  BY <1>5, <1>6

-----------------------------------------------------------------------------
(* The register changes under the imports, except where a chunk holds it.  *)
LEMMA RegisterStep ==
  ASSUME IInv, UNCHANGED <<file, session, lives, revision, job, worker>>,
         register' \in [Persons -> [email : Emails \union {None}, name : Names] \union {None}],
         \A w \in Workers : \A o \in {worker[w]} \ {None} :
            o.at = "writing" /\ ~LeftOut(o)
            => PlanFor(file[o.session][o.cursor + 1])' = PlanFor(file[o.session][o.cursor + 1])
  PROVE  IInv'
<1>1. /\ file' = file /\ status' = status /\ preview' = preview /\ cursor' = cursor
      /\ created' = created /\ lives' = lives /\ revision' = revision
      /\ job' = job /\ worker' = worker
  BY DEF session
<1>2. TypeOK'
  BY <1>1 DEF IInv, TypeOK
<1>3. OneRuns' /\ OneHolds' /\ JobsAreActive' /\ (\A s \in Sessions : SessionIsSound(s))'
  BY <1>1 DEF IInv, OneRuns, OneHolds, HoldsRow, JobsAreActive, WorksOn, SessionIsSound
<1>4. RowsFollowTheCursor'
  BY <1>1, RowsStay
<1>5. ASSUME NEW w \in Workers, NEW o, o = worker[w], o # None
      PROVE  Sound(o)'
  <2>1. Sound(o)
    BY <1>5, WorkerIs
  <2>2. Abreast(o)' <=> Abreast(o)
    BY <1>1 DEF Abreast
  <2>3. Claimed(o)' <=> Claimed(o)
    BY <1>1 DEF Claimed
  <2>4. o.at = "writing" /\ ~LeftOut(o)
        => PlanFor(file[o.session][o.cursor + 1])' = PlanFor(file[o.session][o.cursor + 1])
    BY <1>5
  <2> QED
    BY <1>1, <2>1, <2>2, <2>3, <2>4, SoundKeeps DEF Sound
<1>6. WorkersAreSound'
  BY <1>1, <1>5 DEF WorkersAreSound
<1> QED
  BY <1>2, <1>3, <1>4, <1>6 DEF IInv

(* The row in hand. *)
LEMMA RowIs ==
  ASSUME IInv, NEW w \in Workers, NEW o, o = worker[w], o # None, o.at # "reading",
         NEW i, i = o.cursor + 1
  PROVE  /\ o.session \in Sessions /\ i \in Rows /\ i \in 1..Len(file[o.session])
         /\ file[o.session][i] \in Row
<1>1. Sound(o) /\ o.session \in Sessions /\ o.cursor \in Nat
  BY WorkerIs
<1>2. o.cursor < Len(file[o.session])
  BY <1>1 DEF Sound, Abreast
<1>3. PICK n \in 0..2 : n = Len(file[o.session])
  BY <1>1, FileIs
<1>4. i \in 1..n
  BY <1>1, <1>2, <1>3
<1> QED
  BY <1>1, <1>3, <1>4, FileIs

LEMMA HoldsIs ==
  ASSUME IInv, NEW w \in Workers, NEW o, o = worker[w], o # None, o.at = "writing",
         ~LeftOut(o)
  PROVE  Holds(w) /\ Window(w) = o.cursor + 1
BY DEF Holds, At, LeftOut, Window

(* Nobody comes to an address that a chunk holds, *)
LEMMA AddKeeps ==
  ASSUME IInv, NEW p \in Persons, NEW e \in Emails, NEW n \in Names, Add(p, e, n)
  PROVE  IInv'
<1>1. PICK r : r = [email |-> e, name |-> n]
  OBVIOUS
<1>2. /\ register' = [register EXCEPT ![p] = r] /\ register[p] = None
      /\ UNCHANGED <<file, session, lives, revision, job, worker>>
  BY <1>1 DEF Add
<1>3. /\ register' \in [Persons -> [email : Emails \union {None}, name : Names] \union {None}]
      /\ register'[p] = r /\ \A q \in Persons : q # p => register'[q] = register[q]
  BY <1>1, <1>2 DEF IInv, TypeOK
<1>4. ASSUME NEW w \in Workers, NEW o, o = worker[w], o # None, o.at = "writing", ~LeftOut(o)
      PROVE  PlanFor(file[o.session][o.cursor + 1])' = PlanFor(file[o.session][o.cursor + 1])
  <2>1. PICK row : row = file[o.session][o.cursor + 1]
    OBVIOUS
  <2>2. row.email # e
    BY <1>4, <2>1, HoldsIs DEF Add, EmailHeld
  <2>3. Holders(row.email)' = Holders(row.email)
    BY <1>1, <1>2, <1>3, <2>2 DEF Holders
  <2>4. \A q \in Holders(row.email) : register'[q].name = register[q].name
    BY <1>2, <1>3 DEF Holders
  <2>5. PlanFor(row)' = PlanFor(row)
    BY <2>3, <2>4, PlanForStays
  <2>6. file' = file
    BY <1>2
  <2> QED
    BY <2>1, <2>5, <2>6 DEF PlanFor, PlanOf, Holders
<1> QED
  BY <1>2, <1>3, <1>4, RegisterStep

(* nor is a person erased whom a chunk holds. *)
LEMMA EraseKeeps ==
  ASSUME IInv, NEW p \in Persons, Erase(p)
  PROVE  IInv'
<1>1. PICK r \in [email : Emails \union {None}, name : Names] : r = register[p]
  BY DEF Erase, IInv, TypeOK
<1>2. PICK z : z = [r EXCEPT !.email = None]
  OBVIOUS
<1>3. z \in [email : Emails \union {None}, name : Names] /\ z.email = None
  BY <1>2
<1>4. /\ register' = [register EXCEPT ![p] = z]
      /\ UNCHANGED <<file, session, lives, revision, job, worker>>
  BY <1>1, <1>2 DEF Erase
<1>5. /\ register' \in [Persons -> [email : Emails \union {None}, name : Names] \union {None}]
      /\ register'[p] = z /\ \A q \in Persons : q # p => register'[q] = register[q]
  BY <1>3, <1>4 DEF IInv, TypeOK
<1>6. ASSUME NEW w \in Workers, NEW o, o = worker[w], o # None, o.at = "writing", ~LeftOut(o)
      PROVE  PlanFor(file[o.session][o.cursor + 1])' = PlanFor(file[o.session][o.cursor + 1])
  <2>1. PICK row : row = file[o.session][o.cursor + 1]
    OBVIOUS
  <2>2. row \in Row
    BY <1>6, <2>1, RowIs
  <2>3. o.plan = PlanFor(row)
    BY <1>6, <2>1, WorkerIs DEF Sound, Settled
  <2>4. p # o.plan.person /\ p \notin o.plan.candidates
    BY <1>6, HoldsIs DEF Erase, PersonHeld
  <2>5. p \notin Holders(row.email)
    <3>1. PICK q : q = o.plan
      OBVIOUS
    <3>2. q.outcome \in {"create", "update", "ambiguous"}
      BY <2>3, <3>1, PlanForIs DEF Planned
    <3> QED
      BY <2>3, <2>4, <3>1, <3>2, PlanForIs
  <2>6. row.email # None
    BY <2>2, NoneAssumption DEF Row
  <2>7. Holders(row.email)' = Holders(row.email)
    BY <1>3, <1>5, <2>5, <2>6 DEF Holders
  <2>8. \A q \in Holders(row.email) : register'[q].name = register[q].name
    BY <1>5, <2>5 DEF Holders
  <2>9. PlanFor(row)' = PlanFor(row)
    BY <2>7, <2>8, PlanForStays
  <2>10. file' = file
    BY <1>4
  <2> QED
    BY <2>1, <2>9, <2>10 DEF PlanFor, PlanOf, Holders
<1> QED
  BY <1>4, <1>5, <1>6, RegisterStep

-----------------------------------------------------------------------------
(* A chunk is written: to nobody if its row is left out, to a new person,  *)
(* or to one who has the row's address.                                    *)
Answer(o) == preview[o.session].decisions[o.cursor + 1]

LEMMA WrittenToIs ==
  ASSUME IInv, NEW w \in Workers, At(w, "writing"),
         \E q \in Newcomers : register[q] = None,
         NEW o, o = worker[w], NEW p, p = WrittenTo(w)
  PROVE  /\ Answer(o) = "skip" <=> LeftOut(o)
         /\ LeftOut(o) => p = None
         /\ ~LeftOut(o) => p \in Persons
         /\ ~LeftOut(o) /\ Enters(o.plan, Answer(o)) => p \in Newcomers /\ register[p] = None
         /\ ~LeftOut(o) /\ ~Enters(o.plan, Answer(o))
            => /\ p \in Holders(file[o.session][o.cursor + 1].email)
               /\ o.plan.outcome = "update" => p = o.plan.person
               /\ o.plan.outcome = "ambiguous" => p = Answer(o)
<1>1. o # None /\ o.at = "writing" /\ Sound(o)
  BY WorkerIs DEF At
<1>2. PICK row : row = file[o.session][o.cursor + 1]
  OBVIOUS
<1>3. PICK a : a = Answer(o)
  OBVIOUS
<1>4. PICK plan \in Planned : plan = o.plan /\ Fits(plan, a)
  BY <1>1, <1>3 DEF Sound, Checked, Answer
<1>5. LeftOut(o) <=> plan.outcome = "ambiguous" /\ a = "skip"
  BY <1>3, <1>4 DEF LeftOut, Asks, Answer
<1>6. ~LeftOut(o) => plan = PlanFor(row)
  BY <1>1, <1>2, <1>4 DEF Sound, Settled
<1>7. a = "skip" => plan.outcome = "ambiguous"
  BY <1>4 DEF Fits
<1>8. p = IF plan.outcome = "ambiguous" /\ a = "skip" THEN None
          ELSE IF Enters(plan, a) THEN NewPerson
          ELSE IF plan.outcome = "ambiguous" THEN a
          ELSE plan.person
  BY <1>3, <1>4 DEF WrittenTo, Asks, Answer, Window
<1>9. CASE LeftOut(o)
  BY <1>3, <1>5, <1>7, <1>8, <1>9
<1>10. CASE ~LeftOut(o) /\ Enters(plan, a)
  <2>1. NewPerson \in Newcomers /\ register[NewPerson] = None
    BY DEF NewPerson
  <2>2. p = NewPerson
    BY <1>5, <1>8, <1>10
  <2> QED
    BY <1>3, <1>4, <1>5, <1>7, <1>10, <2>1, <2>2 DEF Persons
<1>11. CASE ~LeftOut(o) /\ ~Enters(plan, a)
  <2>1. /\ plan.outcome = "update" => Holders(row.email) = {plan.person}
        /\ plan.outcome = "ambiguous" => plan.candidates = Holders(row.email)
    BY <1>6, <1>11, PlanForIs
  <2>2. plan.outcome \in {"update", "ambiguous"}
    BY <1>11 DEF Enters, Planned
  <2>3. plan.outcome = "ambiguous" => a # "create" /\ a # "skip"
    BY <1>5, <1>11 DEF Enters
  <2>4. plan.outcome = "ambiguous" => p = a /\ a \in plan.candidates
    BY <1>4, <1>8, <1>11, <2>3 DEF Fits
  <2>5. plan.outcome = "update" => p = plan.person
    BY <1>8, <1>11
  <2>6. p \in Holders(row.email)
    BY <2>1, <2>2, <2>4, <2>5
  <2>7. p \in Persons
    BY <2>6, HoldersAre
  <2> QED
    BY <1>2, <1>3, <1>4, <1>5, <1>7, <1>11, <2>4, <2>5, <2>6, <2>7
<1> QED
  BY <1>9, <1>10, <1>11

(* What the transaction of a chunk leaves: worker o's row i of session s,  *)
(* written to p.                                                           *)
Chunk(w, o, s, i, p) ==
    /\ o = worker[w] /\ o # None /\ o.at = "writing" /\ s = o.session
    /\ i = o.cursor + 1 /\ i \in 1..Len(file[s]) /\ i \in Rows
    /\ status[s] = "APPLYING" /\ cursor[s] = o.cursor
    /\ p \in Persons \union {None}
    /\ p = None <=> preview[s].decisions[i] = "skip"

LEMMA ChunkIs ==
  ASSUME IInv, NEW w \in Workers, Writes(w)
  PROVE  \E o \in Worker : \E s \in Sessions : \E i \in Rows : \E p \in Persons \union {None} :
            Chunk(w, o, s, i, p) /\ p = WrittenTo(w)
<1>1. PICK o \in Worker : o = worker[w] /\ o.at = "writing" /\ Sound(o) /\ o # None
  BY WorkerIs DEF Writes, At
<1>2. PICK s \in Sessions : s = o.session
  BY <1>1 DEF Worker
<1>3. PICK i : i = o.cursor + 1
  OBVIOUS
<1>4. i \in 1..Len(file[s]) /\ i \in Rows
  BY <1>1, <1>2, <1>3, RowIs
<1>5. PICK p : p = WrittenTo(w)
  OBVIOUS
<1>6. At(w, "writing") /\ \E q \in Newcomers : register[q] = None
  BY DEF Writes
<1>7. /\ Answer(o) = "skip" <=> LeftOut(o)
      /\ LeftOut(o) => p = None
      /\ ~LeftOut(o) => p \in Persons
  BY <1>1, <1>5, <1>6, WrittenToIs
<1>8. p \in Persons \union {None} /\ (p = None <=> Answer(o) = "skip")
  BY <1>7, NoneAssumption
<1>9. status[s] = "APPLYING" /\ cursor[s] = o.cursor
  BY <1>1, <1>2 DEF Sound, Claimed
<1>10. Chunk(w, o, s, i, p)
  BY <1>1, <1>2, <1>3, <1>4, <1>8, <1>9 DEF Chunk, Answer
<1> QED
  BY <1>2, <1>4, <1>5, <1>8, <1>10

Records(w, o, s, i, p) ==
    /\ LET new == p # None /\ register[p] = None
       IN  /\ register' = IF new THEN [register EXCEPT ![p] = file[s][i]] ELSE register
           /\ created' = IF new THEN [created EXCEPT ![s][i] = p] ELSE created
    /\ lives' = IF p = None THEN lives ELSE lives \union {<<s, i, p>>}
    /\ revision' = IF p = None THEN revision ELSE revision + 1
    /\ cursor' = [cursor EXCEPT ![s] = i]
    /\ \/ i >= Len(file[s]) /\ status' = [status EXCEPT ![s] = "APPLIED"] /\ Ends(w)
       \/ /\ ~(i >= Len(file[s])) /\ status' = status /\ job' = job
          /\ Turns(w, Fresh(o.job, s))
    /\ file' = file /\ preview' = preview

LEMMA RecordsIs ==
  ASSUME NEW w, Writes(w), NEW o, NEW s, NEW i, NEW p,
         o = worker[w], s = o.session, i = o.cursor + 1, p = WrittenTo(w)
  PROVE  Records(w, o, s, i, p)
<1>1. Window(w) = i
  BY DEF Window
<1>2. worker' = [worker EXCEPT ![w] = Fresh(@.job, s)] => Turns(w, Fresh(o.job, s))
  BY DEF Turns
<1> QED
  BY <1>1, <1>2 DEF Writes, Records

(* The commit keeps the types, the order of the rows and what the          *)
(* other workers rely on.                                                  *)
LEMMA RecordsTypes ==
  ASSUME IInv, NEW w \in Workers, NEW o \in Worker, NEW s \in Sessions, NEW i \in Rows,
         NEW p \in Persons \union {None}, Chunk(w, o, s, i, p), Records(w, o, s, i, p)
  PROVE  /\ register' \in [Persons -> [email : Emails \union {None}, name : Names]
                                      \union {None}]
         /\ created' \in [Sessions -> [Rows -> Persons \union {None}]]
         /\ lives' \subseteq Sessions \X Rows \X Persons
         /\ revision' \in Nat
         /\ cursor'[s] = i /\ \A t \in Sessions : t # s => cursor'[t] = cursor[t]
         /\ cursor' \in [Sessions -> Nat]
         /\ \A t \in Sessions : cursor'[t] <= Len(file[t])
         /\ \A t \in Sessions : t # s => created'[t] = created[t]
<1>1. PICK row : row = file[s][i]
  OBVIOUS
<1>2. row \in Row /\ i \in 1..Len(file[s])
  BY <1>1, RowIs DEF Chunk
<1>3. row \in [email : Emails \union {None}, name : Names]
  BY <1>2 DEF Row
<1>4. register' \in [Persons -> [email : Emails \union {None}, name : Names] \union {None}]
  <2>1. \/ register' = register
        \/ p \in Persons /\ register' = [register EXCEPT ![p] = row]
    BY <1>1 DEF Records
  <2> QED
    BY <1>3, <2>1 DEF IInv, TypeOK
<1>5. PICK by \in [Rows -> Persons \union {None}] : by = created[s]
  BY DEF IInv, TypeOK
<1>6. PICK now : now = [by EXCEPT ![i] = p]
  OBVIOUS
<1>7. now \in [Rows -> Persons \union {None}]
  BY <1>6
<1>8. created' = created \/ created' = [created EXCEPT ![s] = now]
  BY <1>5, <1>6 DEF Records
<1>9. /\ created' \in [Sessions -> [Rows -> Persons \union {None}]]
      /\ \A t \in Sessions : t # s => created'[t] = created[t]
  BY <1>7, <1>8 DEF IInv, TypeOK
<1>10. lives' \subseteq Sessions \X Rows \X Persons
  <2>1. p # None => <<s, i, p>> \in Sessions \X Rows \X Persons
    OBVIOUS
  <2> QED
    BY <2>1 DEF Records, IInv, TypeOK
<1>11. revision' \in Nat
  BY DEF Records, IInv, TypeOK
<1>12. /\ cursor' \in [Sessions -> Nat] /\ cursor'[s] = i
       /\ \A t \in Sessions : t # s => cursor'[t] = cursor[t]
  BY DEF Records, IInv, TypeOK, Rows
<1>13. i <= Len(file[s])
  BY <1>2, FileIs
<1>14. \A t \in Sessions : cursor'[t] <= Len(file[t])
  BY <1>12, <1>13 DEF IInv, TypeOK
<1> QED
  BY <1>4, <1>9, <1>10, <1>11, <1>12, <1>14

LEMMA RowsAreRecorded ==
  ASSUME IInv, NEW w \in Workers, NEW o \in Worker, NEW s \in Sessions, NEW i \in Rows,
         NEW p \in Persons \union {None}, Chunk(w, o, s, i, p), Records(w, o, s, i, p)
  PROVE  RowsFollowTheCursor'
<1>1. /\ lives' = IF p = None THEN lives ELSE lives \union {<<s, i, p>>}
      /\ preview' = preview
  BY DEF Records
<1>2. cursor'[s] = i /\ \A t \in Sessions : t # s => cursor'[t] = cursor[t]
  BY RecordsTypes
<1>3. o.cursor \in Nat /\ cursor[s] = o.cursor /\ i = o.cursor + 1
  BY WorkerIs DEF Chunk
<1>4. ASSUME NEW t \in Sessions, NEW k \in Rows
      PROVE  IF k <= cursor[t] /\ preview[t].decisions[k] # "skip"
             THEN \E q \in Persons : WrittenAs(t, k) = {q} ELSE WrittenAs(t, k) = {}
  BY DEF IInv, RowsFollowTheCursor
<1>5. ASSUME NEW t \in Sessions, NEW k \in Rows
      PROVE  IF k <= cursor'[t] /\ preview[t].decisions[k] # "skip"
             THEN \E q \in Persons : WrittenAs(t, k)' = {q} ELSE WrittenAs(t, k)' = {}
  <2>1. CASE t = s /\ k = i
    <3>1. ~(i <= cursor[s]) /\ i <= cursor'[s]
      BY <1>2, <1>3
    <3>2. WrittenAs(s, i) = {}
      BY <1>4, <3>1
    <3>3. CASE p = None
      <4>1. WrittenAs(s, i)' = {}
        BY <1>1, <3>2, <3>3 DEF WrittenAs
      <4>2. preview[s].decisions[i] = "skip"
        BY <3>3 DEF Chunk
      <4> QED
        BY <2>1, <4>1, <4>2 DEF WrittenAs
    <3>4. CASE p # None
      <4>1. p \in Persons /\ lives' = lives \union {<<s, i, p>>}
        BY <1>1, <3>4
      <4>2. \A q \in Persons : <<s, i, q>> \in lives' <=> q = p
        BY <3>2, <4>1 DEF WrittenAs
      <4>3. WrittenAs(s, i)' = {p}
        BY <4>1, <4>2 DEF WrittenAs
      <4>4. preview[s].decisions[i] # "skip"
        BY <3>4 DEF Chunk
      <4> QED
        BY <2>1, <3>1, <4>1, <4>3, <4>4 DEF WrittenAs
    <3> QED
      BY <3>3, <3>4
  <2>2. CASE ~(t = s /\ k = i)
    <3>1. \A q \in Persons : <<t, k, q>> \in lives' <=> <<t, k, q>> \in lives
      BY <1>1, <2>2
    <3>2. WrittenAs(t, k)' = WrittenAs(t, k)
      BY <3>1 DEF WrittenAs
    <3>3. k <= cursor'[t] <=> k <= cursor[t]
      BY <1>2, <1>3, <2>2 DEF Rows
    <3> QED
      BY <1>4, <3>2, <3>3
  <2> QED
    BY <2>1, <2>2
<1> QED
  BY <1>1, <1>5 DEF RowsFollowTheCursor

LEMMA RecordsKeeps ==
  ASSUME IInv, NEW w \in Workers, NEW o \in Worker, NEW s \in Sessions, NEW i \in Rows,
         NEW p \in Persons \union {None}, Chunk(w, o, s, i, p), Records(w, o, s, i, p)
  PROVE  IInv'
<1>1. /\ file' = file /\ preview' = preview
      /\ o = worker[w] /\ o # None /\ o.at = "writing" /\ i = o.cursor + 1
      /\ status[s] = "APPLYING" /\ cursor[s] = o.cursor /\ i \in 1..Len(file[s])
  BY DEF Chunk, Records
<1>2. /\ cursor'[s] = i /\ \A t \in Sessions : t # s => cursor'[t] = cursor[t]
      /\ \A t \in Sessions : t # s => created'[t] = created[t]
  BY RecordsTypes
<1>3. /\ status' \in [Sessions -> Status]
      /\ \A t \in Sessions : t # s => status'[t] = status[t]
      /\ \/ status'[s] = "APPLIED" /\ i >= Len(file[s])
         \/ status'[s] = "APPLYING" /\ ~(i >= Len(file[s]))
  BY <1>1 DEF Records, IInv, TypeOK, Status
<1>4. PICK x \in Worker \union {None} :
        /\ Turns(w, x) /\ (x # None => x.at = "reading" /\ Sound(x))
        /\ job' \in [Jobs -> Job \union {None}] /\ JobsAreActive'
  <2>1. CASE Ends(w)
    <3>1. PICK x : x = None
      OBVIOUS
    <3>2. Leaves(w) /\ Turns(w, x)
      BY <1>1, <2>1, <3>1, EndsIs DEF Leaves
    <3> QED
      BY <3>1, <3>2, LeavesIs
  <2>2. CASE job' = job /\ Turns(w, Fresh(o.job, s))
    <3>1. PICK x : x = Fresh(o.job, s)
      OBVIOUS
    <3>2. o.job \in Jobs \union {None}
      BY DEF Worker
    <3>3. x \in Worker /\ x.at = "reading" /\ x.job = o.job
      BY <3>1, <3>2 DEF Fresh, Worker, NoRow
    <3>4. Sound(x)
      BY <3>3 DEF Sound
    <3>5. Turns(w, x) /\ KeepsJob(w, x)
      BY <1>1, <2>2, <3>1, <3>3 DEF KeepsJob
    <3> QED
      BY <2>2, <3>3, <3>4, <3>5, JobsAreKept, JobStays
  <2> QED
    BY <2>1, <2>2 DEF Records
<1>5. /\ worker' \in [Workers -> Worker \union {None}] /\ worker'[w] = x
      /\ \A v \in Workers : v # w => worker'[v] = worker[v]
      /\ OneHolds'
  BY <1>4, OneTurns
<1>6. TypeOK'
  BY <1>1, <1>3, <1>4, <1>5, RecordsTypes DEF IInv, TypeOK
<1>7. OneRuns'
  BY <1>1, <1>3 DEF IInv, OneRuns, Running
<1>8. ASSUME NEW t \in Sessions
      PROVE  SessionIsSound(t)'
  <2>1. CASE t # s
    BY <1>1, <1>2, <1>3, <2>1 DEF IInv, SessionIsSound
  <2>2. CASE t = s
    <3>1. PICK n \in 0..2 : n = Len(file[s])
      BY FileIs
    <3>2. (i >= n => cursor'[s] = n) /\ (~(i >= n) => cursor'[s] < n)
      BY <1>1, <1>2, <3>1
    <3>3. preview[s] # None /\ preview[s].at = "ready" /\ file[s] # <<>>
      BY <1>1 DEF IInv, SessionIsSound
    <3> QED
      BY <1>1, <1>3, <2>2, <3>1, <3>2, <3>3 DEF SessionIsSound, Failures, Running
  <2> QED
    BY <2>1, <2>2
<1>9. RowsFollowTheCursor'
  BY RowsAreRecorded
<1>10. ASSUME NEW v \in Workers, NEW q, q = worker'[v], q # None
       PROVE  Sound(q)'
  <2>1. CASE v = w
    <3>1. q.at = "reading"
      BY <1>4, <1>5, <1>10, <2>1
    <3> QED
      BY <3>1 DEF Sound
  <2>2. CASE v # w
    <3>1. q = worker[v] /\ Sound(q) /\ q.session \in Sessions /\ q.cursor \in Nat
      BY <1>5, <1>10, <2>2, WorkerIs
    <3>2. q.at \notin {"locking", "writing"}
      BY <1>1, <1>10, <2>2, <3>1 DEF IInv, OneHolds, HoldsRow
    <3>3. ASSUME q.at # "reading"
          PROVE  Abreast(q)'
      <4>1. Abreast(q)
        BY <3>1, <3>3 DEF Sound
      <4>2. CASE q.session = s
        <5>1. q.cursor <= cursor[s] /\ cursor[s] \in Nat
          BY <4>1, <4>2 DEF Abreast, IInv, TypeOK
        <5>2. q.cursor < i
          BY <1>1, <3>1, <5>1
        <5>3. q.cursor <= cursor'[s] /\ q.cursor # cursor'[s]
          BY <1>2, <3>1, <5>2 DEF Rows
        <5> QED
          BY <1>1, <1>3, <4>1, <4>2, <5>3 DEF Abreast
      <4>3. CASE q.session # s
        BY <1>1, <1>2, <1>3, <3>1, <4>1, <4>3 DEF Abreast
      <4> QED
        BY <4>2, <4>3
    <3> QED
      BY <1>1, <3>1, <3>2, <3>3, SoundKeeps
  <2> QED
    BY <2>1, <2>2
<1>11. WorkersAreSound'
  BY <1>10 DEF WorkersAreSound
<1> QED
  BY <1>4, <1>5, <1>6, <1>7, <1>8, <1>9, <1>11 DEF IInv

LEMMA WritesKeeps ==
  ASSUME IInv, NEW w \in Workers, Writes(w)
  PROVE  IInv'
<1>1. PICK o \in Worker, s \in Sessions, i \in Rows, p \in Persons \union {None} :
        Chunk(w, o, s, i, p) /\ p = WrittenTo(w)
  BY ChunkIs
<1>2. Records(w, o, s, i, p)
  BY <1>1, RecordsIs DEF Chunk
<1> QED
  BY <1>1, <1>2, RecordsKeeps

-----------------------------------------------------------------------------
(* At first nothing runs. *)
LEMMA InitHolds == Init => IInv
<1> SUFFICES ASSUME Init
             PROVE  IInv
  OBVIOUS
<1>1. NoRow \in [Rows -> Persons \union {None}]
  BY DEF NoRow
<1>2. \A s \in Sessions : Len(file[s]) \in Nat
  <2>1. \A s \in Sessions : file[s] \in Seq(Row)
    BY FilesAssumption DEF Init
  <2> QED
    BY <2>1
<1>3. TypeOK
  <2>1. cursor \in [Sessions -> Nat] /\ \A s \in Sessions : cursor[s] = 0
    BY DEF Init
  <2>2. \A s \in Sessions : cursor[s] <= Len(file[s])
    BY <1>2, <2>1
  <2>3. status \in [Sessions -> Status]
    BY DEF Init, Status
  <2>4. created \in [Sessions -> [Rows -> Persons \union {None}]]
    BY <1>1 DEF Init
  <2>5. revision \in Nat /\ lives \subseteq Sessions \X Rows \X Persons
    BY DEF Init
  <2> QED
    BY <2>1, <2>2, <2>3, <2>4, <2>5 DEF Init, TypeOK
<1>4. /\ \A s \in Sessions : status[s] = "MAPPING" /\ preview[s] = None /\ cursor[s] = 0
      /\ lives = {} /\ \A w \in Workers : worker[w] = None
  BY DEF Init
<1>5. OneRuns
  BY <1>4 DEF OneRuns, Running
<1>6. RowsFollowTheCursor
  <2>1. \A s \in Sessions, i \in Rows : ~(i <= cursor[s]) /\ WrittenAs(s, i) = {}
    BY <1>4 DEF WrittenAs, Rows
  <2> QED
    BY <2>1 DEF RowsFollowTheCursor
<1>7. WorkersAreSound /\ OneHolds
  BY <1>4 DEF WorkersAreSound, OneHolds, HoldsRow
<1>8. JobsAreActive
  BY <1>4 DEF JobsAreActive, WorksOn
<1>9. \A s \in Sessions : SessionIsSound(s)
  BY <1>4 DEF SessionIsSound, Running, Failures
<1> QED
  BY <1>3, <1>5, <1>6, <1>7, <1>8, <1>9 DEF IInv

LEMMA StutterKeeps ==
  ASSUME IInv, UNCHANGED vars
  PROVE  IInv'
<1>1. /\ UNCHANGED <<file, session, register, lives, revision>>
      /\ job' = job /\ worker' = worker
  BY DEF vars
<1>2. /\ worker' \in [Workers -> Worker \union {None}] /\ OneHolds' /\ JobsAreActive'
      /\ \A v \in Workers : \A o \in {worker'[v]} \ {None} : Sound(o)
  BY <1>1 DEF IInv, TypeOK, OneHolds, HoldsRow, JobsAreActive, WorksOn, WorkersAreSound
<1> QED
  BY <1>1, <1>2, JobStays, WorkersStep

LEMMA NextKeeps == IInv /\ [Next]_vars => IInv'
<1> SUFFICES ASSUME IInv, [Next]_vars
             PROVE  IInv'
  OBVIOUS
<1>1. ASSUME NEW s \in Sessions,
             PreviewStarts(s) \/ PreviewReady(s) \/ PreviewStops(s)
             \/ Apply(s) \/ Abandon(s) \/ Resumes(s)
      PROVE  IInv'
  BY <1>1, PreviewStartsKeeps, PreviewReadyKeeps, PreviewStopsKeeps, ApplyKeeps,
     AbandonKeeps, ResumesKeeps
<1>2. ASSUME NEW w \in Workers, Works(w)
      PROVE  IInv'
  BY <1>2, ReadsKeeps, BeginsKeeps, PlansKeeps, ClaimsKeeps, LocksKeeps, WritesKeeps,
     StopsKeeps DEF Works
<1>3. ASSUME NEW w \in Workers, (\E j \in Jobs : Starts(w, j)) \/ Fails(w) \/ Dies(w)
      PROVE  IInv'
  BY <1>3, StartsKeeps, FailsKeeps
<1>4. ASSUME NEW j \in Jobs, Expires(j) \/ RecordsRetriesSpent(j)
      PROVE  IInv'
  BY <1>4, ExpiresKeeps, RecordsRetriesSpentKeeps
<1>5. ASSUME NEW p \in Persons,
             (\E e \in Emails, n \in Names : Add(p, e, n)) \/ Erase(p)
      PROVE  IInv'
  BY <1>5, AddKeeps, EraseKeeps
<1>6. CASE UNCHANGED vars
  BY <1>6, StutterKeeps
<1> QED
  BY <1>1, <1>2, <1>3, <1>4, <1>5, <1>6 DEF Next

(* IInv is inductive: whatever the queue, the workers and the register do, *)
(* a worker's plan is no older than what it is checked against.            *)
THEOREM InvariantHolds == Spec => []IInv
<1> QED
  BY InitHolds, NextKeeps, PTL DEF Spec

(* The statuses, previews, jobs, workers and persons keep their shapes,    *)
(* and no cursor passes the end of its file.                               *)
THEOREM TypeCorrect == Spec => []TypeOK
<1>1. IInv => TypeOK
  BY DEF IInv
<1> QED
  BY <1>1, InvariantHolds, PTL

(* IInv says it of the residencies, the property of how many they are.     *)
LEMMA WrittenOnce ==
  ASSUME IInv
  PROVE  RowsAreWrittenOnce
<1>1. ASSUME NEW s \in Sessions, NEW i \in Rows
      PROVE  LET to == {p \in Persons : <<s, i, p>> \in lives}
             IN  IF i <= cursor[s] /\ preview[s].decisions[i] # "skip"
                 THEN Cardinality(to) = 1 ELSE to = {}
  <2>1. PICK to : to = {p \in Persons : <<s, i, p>> \in lives}
    OBVIOUS
  <2>2. IF i <= cursor[s] /\ preview[s].decisions[i] # "skip"
        THEN \E p \in Persons : to = {p} ELSE to = {}
    BY <2>1 DEF IInv, RowsFollowTheCursor, WrittenAs
  <2>3. \A p : Cardinality({p}) = 1
    BY FS_Singleton
  <2> QED
    BY <2>1, <2>2, <2>3
<1>2. ASSUME NEW s \in Sessions
      PROVE  status[s] = "APPLIED" <=> file[s] # <<>> /\ cursor[s] = Len(file[s])
  <2>1. PICK n \in 0..2 : n = Len(file[s]) /\ (file[s] # <<>> <=> n > 0)
    BY FileIs
  <2>2. /\ status[s] = "MAPPING" => cursor[s] = 0
        /\ status[s] # "MAPPING" => file[s] # <<>>
        /\ status[s] \in Running \union Failures => cursor[s] < n
        /\ status[s] = "APPLIED" => cursor[s] = n
    BY <2>1 DEF IInv, SessionIsSound
  <2>3. status[s] \in {"MAPPING", "APPLIED"} \union Running \union Failures
    BY DEF IInv, TypeOK, Status
  <2>4. cursor[s] \in Nat
    BY DEF IInv, TypeOK
  <2> QED
    BY <2>1, <2>2, <2>3, <2>4
<1> QED
  BY <1>1, <1>2 DEF RowsAreWrittenOnce, IInv, OneRuns

(* The cursor, moved by an update that asks for its old value: each row    *)
(* before it is written to one person, none behind it is written, an       *)
(* import is applied when all are, and one import runs at a time.          *)
THEOREM EachRowIsWrittenOnce == Spec => []RowsAreWrittenOnce
<1>1. IInv => RowsAreWrittenOnce
  BY WrittenOnce
<1> QED
  BY <1>1, InvariantHolds, PTL

-----------------------------------------------------------------------------
(* Residencies are written by the commit of a chunk, and an import's state *)
(* moves only as long as the import waits or runs.                         *)
LEMMA OnlyWrites ==
  ASSUME IInv, Next, lives' # lives
  PROVE  \E w \in Workers : Writes(w)
<1>1. \A s \in Sessions : ~(PreviewStarts(s) \/ PreviewReady(s) \/ PreviewStops(s)
                            \/ Apply(s) \/ Abandon(s) \/ Resumes(s))
  BY DEF PreviewStarts, PreviewReady, PreviewStops, Apply, Abandon, Resumes
<1>2. \A w \in Workers : ~(Reads(w) \/ Begins(w) \/ Plans(w) \/ Claims(w) \/ Locks(w)
                           \/ Stops(w))
  BY DEF Reads, Begins, Plans, Claims, Locks, Stops
<1>3. \A w \in Workers : ~((\E j \in Jobs : Starts(w, j)) \/ Fails(w) \/ Dies(w))
  BY DEF Starts, Fails, Dies
<1>4. \A j \in Jobs : ~(Expires(j) \/ RecordsRetriesSpent(j))
  BY DEF Expires, RecordsRetriesSpent
<1>5. \A p \in Persons : ~((\E e \in Emails, n \in Names : Add(p, e, n)) \/ Erase(p))
  BY DEF Add, Erase
<1> QED
  BY <1>1, <1>2, <1>3, <1>4, <1>5 DEF Next, Works

(* An import that does not run is not stopped. *)
LEMMA StopLeaves ==
  ASSUME TypeOK, NEW s \in Sessions, NEW reason, StopImport(s, reason),
         NEW t \in Sessions, status[t] \notin Running
  PROVE  status'[t] = status[t]
BY DEF StopImport, TypeOK

LEMMA EndedStays ==
  ASSUME IInv, Next, NEW t \in Sessions, status[t] \in Failures \union {"APPLIED"}
  PROVE  status'[t] = status[t]
<1>1. status[t] \notin Running /\ status[t] # "MAPPING" /\ TypeOK
  BY DEF Running, Failures, IInv
<1>2. ASSUME NEW s \in Sessions,
             PreviewStarts(s) \/ PreviewReady(s) \/ PreviewStops(s)
             \/ Apply(s) \/ Abandon(s) \/ Resumes(s)
      PROVE  status'[t] = status[t]
  <2>1. CASE Apply(s)
    <3>1. s # t
      BY <1>1, <2>1 DEF Apply
    <3> QED
      BY <1>1, <2>1, <3>1 DEF Apply, TypeOK
  <2>2. CASE Abandon(s)
    BY <1>1, <2>2, StopLeaves DEF Abandon
  <2> QED
    BY <1>2, <2>1, <2>2 DEF PreviewStarts, PreviewReady, PreviewStops, Resumes, session
<1>3. ASSUME NEW w \in Workers, Works(w)
      PROVE  status'[t] = status[t]
  <2>1. CASE Begins(w)
    <3>1. PICK s : s = worker[w].session
      OBVIOUS
    <3>2. \/ status' = status
          \/ status[s] = "QUEUED" /\ status' = [status EXCEPT ![s] = "APPLYING"]
      BY <2>1, <3>1 DEF Begins
    <3> QED
      BY <1>1, <3>2 DEF TypeOK, Running
  <2>2. CASE Writes(w)
    <3>1. PICK o \in Worker, s \in Sessions, i \in Rows, p \in Persons \union {None} :
            Chunk(w, o, s, i, p) /\ p = WrittenTo(w)
      BY <2>2, ChunkIs
    <3>2. status[s] = "APPLYING" /\ Records(w, o, s, i, p)
      BY <2>2, <3>1, RecordsIs DEF Chunk
    <3>3. status' = status \/ status' = [status EXCEPT ![s] = "APPLIED"]
      BY <3>2 DEF Records
    <3> QED
      BY <1>1, <3>2, <3>3 DEF TypeOK, Running
  <2>3. CASE Stops(w)
    <3>1. PICK s \in Sessions : s = worker[w].session
      BY <2>3, WorkerIs DEF Stops, At
    <3>2. StopImport(s, "register-changed")
      BY <2>3, <3>1 DEF Stops
    <3> QED
      BY <1>1, <3>2, StopLeaves
  <2> QED
    BY <1>3, <2>1, <2>2, <2>3 DEF Works, Reads, Plans, Claims, Locks, session
<1>4. ASSUME NEW w \in Workers, (\E j \in Jobs : Starts(w, j)) \/ Fails(w) \/ Dies(w)
      PROVE  status'[t] = status[t]
  BY <1>4 DEF Starts, Fails, Dies, session
<1>5. ASSUME NEW j \in Jobs, Expires(j) \/ RecordsRetriesSpent(j)
      PROVE  status'[t] = status[t]
  <2>1. CASE RecordsRetriesSpent(j)
    <3>1. PICK s \in Sessions : s = job[j].session
      BY <1>1, <2>1 DEF RecordsRetriesSpent, TypeOK, Job
    <3>2. StopImport(s, "apply-interrupted")
      BY <2>1, <3>1 DEF RecordsRetriesSpent
    <3> QED
      BY <1>1, <3>2, StopLeaves
  <2> QED
    BY <1>5, <2>1 DEF Expires, session
<1>6. ASSUME NEW p \in Persons,
             (\E e \in Emails, n \in Names : Add(p, e, n)) \/ Erase(p)
      PROVE  status'[t] = status[t]
  BY <1>6 DEF Add, Erase, session
<1> QED
  BY <1>2, <1>3, <1>4, <1>5, <1>6 DEF Next

(* What stands behind a residency that is written: a chunk whose row was   *)
(* not left out.                                                           *)
LEMMA WrittenIs ==
  ASSUME IInv, Next, NEW s \in Sessions, NEW i \in Rows, NEW p \in Persons,
         <<s, i, p>> \in lives', <<s, i, p>> \notin lives
  PROVE  \E w \in Workers : \E o \in Worker :
            /\ Chunk(w, o, s, i, p) /\ p = WrittenTo(w) /\ ~LeftOut(o)
            /\ At(w, "writing") /\ \E q \in Newcomers : register[q] = None
<1>1. PICK w \in Workers : Writes(w)
  BY OnlyWrites
<1>2. PICK o \in Worker, t \in Sessions, k \in Rows, q \in Persons \union {None} :
        Chunk(w, o, t, k, q) /\ q = WrittenTo(w)
  BY <1>1, ChunkIs
<1>3. Records(w, o, t, k, q)
  BY <1>1, <1>2, RecordsIs DEF Chunk
<1>4. t = s /\ k = i /\ q = p
  BY <1>3 DEF Records
<1>5. At(w, "writing") /\ \E n \in Newcomers : register[n] = None
  BY <1>1 DEF Writes
<1>6. ~LeftOut(o)
  BY <1>2, <1>4, <1>5, WrittenToIs, NoneAssumption DEF Chunk
<1> QED
  BY <1>2, <1>4, <1>5, <1>6

(* Under the locks: the plan is the register's, and the board was shown it. *)
LEMMA CheckedIs ==
  ASSUME IInv, NEW w \in Workers, NEW o \in Worker, NEW s \in Sessions, NEW i \in Rows,
         NEW p \in Persons, Chunk(w, o, s, i, p), ~LeftOut(o)
  PROVE  /\ Checked(o) /\ o.created = created[s] /\ o.plan = PlanFor(file[s][i])
         /\ Answer(o) = preview[s].decisions[i]
<1>1. o = worker[w] /\ o # None /\ o.at = "writing" /\ s = o.session /\ i = o.cursor + 1
  BY DEF Chunk
<1>2. Sound(o)
  BY <1>1, WorkerIs
<1> QED
  BY <1>1, <1>2 DEF Sound, Abreast, Claimed, Settled, Answer

LEMMA ShownStep ==
  ASSUME IInv, Next, NEW s \in Sessions, NEW i \in Rows, NEW p \in Persons,
         <<s, i, p>> \in lives' \ lives, register[p] # None
  PROVE  LET target == preview[s].targets[i]
         IN  /\ register[p].email = file[s][i].email
             /\ \/ target = <<"person", p>>
                \/ \E j \in Rows : target = <<"row", j>> /\ created[s][j] = p
                \/ target = <<"ambiguous">> /\ preview[s].decisions[i] = p
<1>1. PICK w \in Workers, o \in Worker :
        /\ Chunk(w, o, s, i, p) /\ p = WrittenTo(w) /\ ~LeftOut(o)
        /\ At(w, "writing") /\ \E q \in Newcomers : register[q] = None
  BY WrittenIs
<1>2. PICK plan \in Planned : plan = o.plan
  BY <1>1, CheckedIs DEF Checked
<1>3. PICK by : by = created[s]
  OBVIOUS
<1>4. /\ Checked(o) /\ o.created = by /\ Answer(o) = preview[s].decisions[i]
  BY <1>1, <1>3, CheckedIs
<1>5. o = worker[w] /\ s = o.session /\ i = o.cursor + 1
  BY <1>1 DEF Chunk
<1>6. /\ p \in Holders(file[s][i].email) /\ ~Enters(plan, Answer(o))
      /\ plan.outcome = "update" => p = plan.person
      /\ plan.outcome = "ambiguous" => p = Answer(o)
  BY <1>1, <1>2, <1>5, WrittenToIs
<1>7. preview[s].targets[i] = TargetOf(plan, by)
  BY <1>1, <1>2, <1>4, <1>5 DEF Checked, Retargeted, LeftOut
<1>8. plan.outcome \in {"update", "ambiguous"}
  BY <1>6 DEF Enters, Planned
<1>9. register[p].email = file[s][i].email
  BY <1>6 DEF Holders
<1>10. CASE plan.outcome = "ambiguous"
  <2>1. TargetOf(plan, by) = <<"ambiguous">>
    BY <1>10 DEF TargetOf
  <2> QED
    BY <1>4, <1>6, <1>7, <1>9, <1>10, <2>1
<1>11. CASE plan.outcome = "update"
  <2>1. plan.person = p /\ p # None
    BY <1>6, <1>11, NoneAssumption
  <2>2. PICK rows \in SUBSET Rows : rows = {j \in Rows : by[j] # None /\ by[j] = p}
    OBVIOUS
  <2>3. TargetOf(plan, by) = IF rows # {} THEN <<"row", CHOOSE j \in rows : TRUE>>
                             ELSE <<"person", p>>
    BY <1>11, <2>1, <2>2 DEF TargetOf
  <2>4. CASE rows # {}
    <3>1. PICK j \in rows : TargetOf(plan, by) = <<"row", j>>
      BY <2>3, <2>4
    <3>2. j \in Rows /\ created[s][j] = p
      BY <1>3, <2>2, <3>1
    <3> QED
      BY <1>7, <1>9, <3>1, <3>2
  <2>5. CASE rows = {}
    BY <1>7, <1>9, <2>3, <2>5
  <2> QED
    BY <2>4, <2>5
<1> QED
  BY <1>8, <1>10, <1>11

LEMMA EnteredStep ==
  ASSUME IInv, Next, NEW s \in Sessions, NEW i \in Rows, NEW p \in Newcomers,
         <<s, i, p>> \in lives' \ lives, register[p] = None
  PROVE  LET holders == Holders(file[s][i].email)
         IN  \/ holders = {}
             \/ /\ preview[s].decisions[i] = "create"
                /\ holders \ Before(s) = preview[s].listed[i]
<1>1. p \in Persons
  BY DEF Persons
<1>2. PICK w \in Workers, o \in Worker :
        /\ Chunk(w, o, s, i, p) /\ p = WrittenTo(w) /\ ~LeftOut(o)
        /\ At(w, "writing") /\ \E q \in Newcomers : register[q] = None
  BY <1>1, WrittenIs
<1>3. PICK plan : plan = o.plan
  OBVIOUS
<1>4. PICK holders : holders = Holders(file[s][i].email)
  OBVIOUS
<1>5. /\ Checked(o) /\ o.created = created[s] /\ plan = PlanFor(file[s][i])
      /\ Answer(o) = preview[s].decisions[i]
  BY <1>1, <1>2, <1>3, CheckedIs
<1>6. o = worker[w] /\ s = o.session /\ i = o.cursor + 1
  BY <1>2 DEF Chunk
<1>7. p \notin holders
  BY <1>4 DEF Holders
<1>8. Enters(plan, Answer(o))
  BY <1>2, <1>3, <1>4, <1>6, <1>7, WrittenToIs
<1>9. CASE plan.outcome = "create"
  <2>1. holders = {}
    BY <1>4, <1>5, <1>9, PlanForIs
  <2> QED
    BY <1>4, <2>1
<1>10. CASE plan.outcome = "ambiguous" /\ Answer(o) = "create"
  <2>1. plan.candidates = holders
    BY <1>4, <1>5, <1>10, PlanForIs
  <2>2. ~Changed(preview[s], i, plan, created[s])
    BY <1>3, <1>5, <1>6, <1>10 DEF Checked
  <2>3. preview[s].decisions[i] = "create"
    BY <1>5, <1>10
  <2>4. preview[s].listed[i] = plan.candidates \ {created[s][j] : j \in Rows}
    BY <1>10, <2>2, <2>3 DEF Changed
  <2> QED
    BY <1>4, <2>1, <2>3, <2>4 DEF Before
<1> QED
  BY <1>8, <1>9, <1>10 DEF Enters

-----------------------------------------------------------------------------
(* abandon: "After this returns, the abandoned session writes nothing      *)
(* more", nor does any import that ended: a chunk holds its session's row  *)
(* from the claim to the commit, and claims it only while the import runs. *)
THEOREM EndedImportsWriteNothing == Spec => EndedWritesNothing
<1>1. IInv /\ [Next]_vars =>
      [\A s \in Sessions :
        status[s] \in Failures \union {"APPLIED"} =>
            /\ status'[s] = status[s]
            /\ {x \in lives' : x[1] = s} = {x \in lives : x[1] = s}]_vars
  <2> SUFFICES ASSUME IInv, Next, NEW s \in Sessions,
                      status[s] \in Failures \union {"APPLIED"}
               PROVE  /\ status'[s] = status[s]
                      /\ {x \in lives' : x[1] = s} = {x \in lives : x[1] = s}
    OBVIOUS
  <2>1. status'[s] = status[s]
    BY EndedStays
  <2>2. ASSUME lives' # lives
        PROVE  {x \in lives' : x[1] = s} = {x \in lives : x[1] = s}
    <3>1. PICK w \in Workers : Writes(w)
      BY <2>2, OnlyWrites
    <3>2. PICK o \in Worker, t \in Sessions, i \in Rows, p \in Persons \union {None} :
            Chunk(w, o, t, i, p) /\ p = WrittenTo(w)
      BY <3>1, ChunkIs
    <3>3. Records(w, o, t, i, p)
      BY <3>1, <3>2, RecordsIs DEF Chunk
    <3>4. status[t] = "APPLYING"
      BY <3>2 DEF Chunk
    <3>5. t # s
      BY <3>4 DEF Failures
    <3>6. lives' = lives \/ lives' = lives \union {<<t, i, p>>}
      BY <3>3 DEF Records
    <3> QED
      BY <3>5, <3>6
  <2> QED
    BY <2>1, <2>2
<1> QED
  BY <1>1, InvariantHolds, PTL DEF Spec, EndedWritesNothing

(* retargetedSincePreview: a row is written to the person the board saw it *)
(* written to, who still has its address, whatever was added and erased    *)
(* between the preview and the commit.                                     *)
THEOREM RowsGoWhereTheBoardSaw == Spec => RowsGoWhereShown
<1>1. IInv /\ [Next]_vars =>
      [\A s \in Sessions, i \in Rows, p \in Persons :
        <<s, i, p>> \in lives' \ lives /\ register[p] # None =>
            LET target == preview[s].targets[i]
            IN  /\ register[p].email = file[s][i].email
                /\ \/ target = <<"person", p>>
                   \/ \E j \in Rows : target = <<"row", j>> /\ created[s][j] = p
                   \/ target = <<"ambiguous">> /\ preview[s].decisions[i] = p]_vars
  BY ShownStep
<1> QED
  BY <1>1, InvariantHolds, PTL DEF Spec, RowsGoWhereShown

(* changedSincePreview and the plan made again under the locks: the import *)
(* enters a new person only where nobody in the register has the row's     *)
(* address, or where the board was shown exactly those who have it.        *)
THEOREM NobodyEntersTwice == Spec => NobodyIsEnteredTwice
<1>1. IInv /\ [Next]_vars =>
      [\A s \in Sessions, i \in Rows, p \in Newcomers :
        <<s, i, p>> \in lives' \ lives /\ register[p] = None =>
            LET holders == Holders(file[s][i].email)
            IN  \/ holders = {}
                \/ /\ preview[s].decisions[i] = "create"
                   /\ holders \ Before(s) = preview[s].listed[i]]_vars
  BY EnteredStep
<1> QED
  BY <1>1, InvariantHolds, PTL DEF Spec, NobodyIsEnteredTwice
=============================================================================
