--------------------- MODULE ClientEventDelivery_proofs ---------------------
(***************************************************************************)
(* The deliveries of a subscription, for any number of requests, processes *)
(* and rows to a claim, and for both backends.                             *)
(*                                                                         *)
(* IInv relates where the operations and the worker's turns are to the     *)
(* rows of the queue. It holds on both backends, with any number of        *)
(* processes. Two invariants stand on it: AcksOK, of a single worker, and  *)
(* SqliteOK, of a single process whose statements run through.              *)
(***************************************************************************)
EXTENDS ClientEventDelivery, SequenceTheorems, FiniteSetTheorems,
        NaturalsInduction, WellFoundedInduction, TLAPS

\* A set of naturals has a least element: there is no infinite descent in Nat.
LEMMA HasLeast ==
  ASSUME NEW S \in SUBSET Nat, S # {}
  PROVE  \E n \in S : \A m \in S : n <= m
  <1>1. PICK n \in S : \A m \in S : ~(<<m, n>> \in OpToRel(<, Nat))
    BY NatLessThanWellFounded, WFMin
  <1>2. ASSUME NEW m \in S
        PROVE  n <= m
    <2>1. <<m, n>> \notin {pair \in Nat \X Nat : pair[1] < pair[2]}
      BY <1>1 DEF OpToRel
    <2> QED BY <2>1
  <1> QED BY <1>2

\* The first occurrence is all there is to remove of a sequence without
\* repetition: what is left is what was there, each once, without the element.
LEMMA RemoveFirstFacts ==
  ASSUME NEW X, NEW s \in Seq(X), NEW e,
         \A i, j \in DOMAIN s : s[i] = s[j] => i = j
  PROVE  LET t == RemoveFirst(s, e)
         IN  /\ t \in Seq(X)
             /\ \A i \in DOMAIN t : t[i] # e /\ \E j \in DOMAIN s : t[i] = s[j]
             /\ \A i, j \in DOMAIN t : t[i] = t[j] => i = j
  <1>1. CASE \E i \in 1..Len(s) : s[i] = e
    <2> DEFINE I == {i \in 1..Len(s) : s[i] = e}
               k == Min(I)
    <2>1. I \in SUBSET Nat /\ I # {}
      BY <1>1
    <2>2. k \in I
      <3> HIDE DEF I
      <3>1. PICK n \in I : \A m \in I : n <= m
        BY <2>1, HasLeast
      <3> QED BY <3>1 DEF Min
    <2>3. RemoveFirst(s, e) = SubSeq(s, 1, k - 1) \o SubSeq(s, k + 1, Len(s))
      BY <1>1 DEF RemoveFirst, SelectInSeq, RemoveAt
    <2> HIDE DEF k
    <2>4. k \in 1..Len(s) /\ s[k] = e
      BY <2>2
    <2> DEFINE before == SubSeq(s, 1, k - 1)
               after == SubSeq(s, k + 1, Len(s))
               t == before \o after
    <2>5. /\ t \in Seq(X)
          /\ Len(t) = Len(s) - 1
          /\ \A i \in 1..Len(t) : t[i] = s[IF i < k THEN i ELSE i + 1]
      <3>1. /\ before \in Seq(X) /\ Len(before) = k - 1
            /\ \A i \in 1..(k - 1) : before[i] = s[i]
        BY <2>4, SubSeqProperties
      <3>2. /\ after \in Seq(X) /\ Len(after) = Len(s) - k
            /\ \A i \in 1..(Len(s) - k) : after[i] = s[k + i]
        BY <2>4, SubSeqProperties
      <3> HIDE DEF before, after
      <3>3. /\ t \in Seq(X) /\ Len(t) = Len(s) - 1
            /\ \A i \in 1..Len(t) : t[i] = IF i <= k - 1 THEN before[i] ELSE after[i - (k - 1)]
        <4>1. /\ t \in Seq(X) /\ Len(t) = Len(before) + Len(after)
              /\ \A i \in 1..(Len(before) + Len(after)) : t[i] =
                    IF i <= Len(before) THEN before[i] ELSE after[i - Len(before)]
          BY <3>1, <3>2, ConcatProperties
        <4> QED BY <2>4, <3>1, <3>2, <4>1
      <3> HIDE DEF t
      <3>4. ASSUME NEW i \in 1..Len(t)
            PROVE  t[i] = s[IF i < k THEN i ELSE i + 1]
        <4>1. CASE i < k
          <5>1. i \in 1..(k - 1)
            BY <2>4, <4>1
          <5> QED BY <3>1, <3>3, <4>1, <5>1
        <4>2. CASE i >= k
          <5>1. i - (k - 1) \in 1..(Len(s) - k) /\ k + (i - (k - 1)) = i + 1
            BY <2>4, <3>3, <4>2
          <5>2. t[i] = after[i - (k - 1)]
            BY <2>4, <3>3, <4>2
          <5> QED BY <2>4, <3>2, <4>2, <5>1, <5>2
        <4> QED BY <2>4, <4>1, <4>2
      <3> QED BY <3>3, <3>4
    <2> HIDE DEF t
    <2>6. RemoveFirst(s, e) = t
      BY <2>3 DEF t
    <2>7. \A i \in 1..Len(t) :
             LET j == IF i < k THEN i ELSE i + 1 IN j \in 1..Len(s) /\ j # k /\ t[i] = s[j]
      BY <2>4, <2>5
    <2>8. \A i \in 1..Len(t) : t[i] # e /\ \E j \in DOMAIN s : t[i] = s[j]
      BY <2>4, <2>7
    <2>9. ASSUME NEW i \in 1..Len(t), NEW j \in 1..Len(t), t[i] = t[j]
          PROVE  i = j
      <3> DEFINE at(n) == IF n < k THEN n ELSE n + 1
      <3>1. at(i) \in DOMAIN s /\ at(j) \in DOMAIN s /\ s[at(i)] = s[at(j)]
        BY <2>5, <2>7, <2>9
      <3>2. at(i) = at(j)
        BY <3>1
      <3> QED BY <2>4, <2>5, <3>2
    <2> QED BY <2>5, <2>6, <2>8, <2>9
  <1>2. CASE ~ \E i \in 1..Len(s) : s[i] = e
    BY <1>2 DEF RemoveFirst
  <1> QED BY <1>1, <1>2

\* The only concatenation in the plans.
LEMMA TwoAndOne ==
  ASSUME NEW a, NEW b, NEW c PROVE <<a, b>> \o <<c>> = <<a, b, c>>
  <1> DEFINE S == {a,b,c}
     s == <<a,b>>
     t == <<c>>
     u == <<a,b,c>>
  <1>1. s \in Seq(S) /\ t \in Seq(S) /\ u \in Seq(S) /\ Len(s) = 2 /\ Len(t) = 1 /\ Len(u) = 3
    OBVIOUS
  <1>3. s[1] = a /\ s[2] = b /\ t[1] = c /\ u[1] = a /\ u[2] = b /\ u[3] = c
    OBVIOUS
  <1> HIDE DEF s, t, u, S
  <1>2. /\ s \o t \in Seq(S) /\ Len(s \o t) = 3
        /\ \A i \in 1..3 : (s \o t)[i] = IF i <= 2 THEN s[i] ELSE t[i-2]
    <2>1. /\ s \o t \in Seq(S) /\ Len(s \o t) = Len(s) + Len(t)
          /\ \A i \in 1..(Len(s) + Len(t)) : (s \o t)[i] = IF i <= Len(s) THEN s[i] ELSE t[i - Len(s)]
      BY <1>1, ConcatProperties
    <2> QED BY <1>1, <2>1
  <1>4. \A i \in 1..3 : (s \o t)[i] = u[i]
    BY <1>2, <1>3
  <1>5. s \o t = u
    BY <1>1, <1>2, <1>4, SeqEqual
  <1> QED BY <1>5 DEF s, t, u

\* What the statements of an operation look like that has loaded the status
\* seen: an enqueue is the last of them, at most one of them writes the status,
\* to where the lifecycle allows, and a revocation that announces itself does so
\* of a subscription that was not revoked, which it revokes.
SoundPlan(todo, op, seen) ==
    /\ todo \in Seq(Statement)
    /\ \A i \in DOMAIN todo :
          /\ todo[i] = "enqueue" => i = Len(todo) /\ op \in Op
          /\ todo[i] \in Status => todo[i] \in Lifecycle[seen]
          /\ \A j \in DOMAIN todo : todo[i] \in Status /\ todo[j] \in Status => i = j
          /\ todo[i] = "enqueue" /\ op = "revoke" =>
                 \E j \in DOMAIN todo : todo[j] = "disabled_revoked"
    /\ todo # <<>> /\ op = "revoke" => seen \notin {"none", "disabled_revoked", "deleted"}

LEMMA PlanIsSound ==
  ASSUME NEW op \in Op \cup {"verified", "failed"}, NEW seen \in Status
  PROVE  SoundPlan(Plan(op, seen), op, seen)
  <1> DEFINE todo == Plan(op, seen)
  <1>1. CASE seen \notin Admits(op)
    <2>1. todo = <<>>
      BY <1>1 DEF Plan
    <2> HIDE DEF todo
    <2>2. todo \in Seq(Statement) /\ DOMAIN todo = {}
      BY <2>1
    <2>3. SoundPlan(todo, op, seen)
      BY <2>1, <2>2 DEF SoundPlan
    <2> QED BY <2>3 DEF todo
  <1>2. CASE seen \in Admits(op)
    <2> USE <1>2
    <2>1. CASE op = "create"
      <3>1. todo = <<"pending_verification", "enqueue">> /\ seen \in {"none"}
        BY <2>1 DEF Plan, Admits, Live
      <3>2. "pending_verification" \in Lifecycle[seen]
        BY <3>1 DEF Lifecycle, Status, Live
      <3> HIDE DEF todo
      <3>3. SoundPlan(todo, op, seen)
        BY <2>1, <3>1, <3>2 DEF SoundPlan, Statement, Status, Live, Op, ClientOp
      <3> QED BY <3>3 DEF todo
    <2>2. CASE op \in {"enable", "verified"}
      <3>1. todo = <<"active">> /\ seen \in {"disabled", "disabled_failure", "pending_verification"}
        BY <2>2 DEF Plan, Admits, Live
      <3>2. "active" \in Lifecycle[seen]
        BY <3>1 DEF Lifecycle, Status, Live
      <3> HIDE DEF todo
      <3>3. SoundPlan(todo, op, seen)
        BY <2>2, <3>1, <3>2 DEF SoundPlan, Statement, Status, Live, Op, ClientOp
      <3> QED BY <3>3 DEF todo
    <2>3. CASE op = "disable"
      <3>1. todo = <<"disabled">> /\ seen \in Live
        BY <2>3 DEF Plan, Admits, Live
      <3>2. "disabled" \in Lifecycle[seen]
        BY <3>1 DEF Lifecycle, Status, Live
      <3> HIDE DEF todo
      <3>3. SoundPlan(todo, op, seen)
        BY <2>3, <3>1, <3>2 DEF SoundPlan, Statement, Status, Live, Op, ClientOp
      <3> QED BY <3>3 DEF todo
    <2>4. CASE op = "operatorDisable"
      <3>1. todo = <<"disabled", "drop">> /\ seen \in Live
        BY <2>4 DEF Plan, Admits, Live
      <3>2. "disabled" \in Lifecycle[seen]
        BY <3>1 DEF Lifecycle, Status, Live
      <3> HIDE DEF todo
      <3>3. SoundPlan(todo, op, seen)
        BY <2>4, <3>1, <3>2 DEF SoundPlan, Statement, Status, Live, Op, ClientOp
      <3> QED BY <3>3 DEF todo
    <2>5. CASE op = "delete"
      <3>1. todo = <<"deleted", "drop">> /\ seen \in Status \ {"none", "deleted"}
        BY <2>5 DEF Plan, Admits, Live
      <3>2. "deleted" \in Lifecycle[seen]
        BY <3>1 DEF Lifecycle, Status, Live
      <3> HIDE DEF todo
      <3>3. SoundPlan(todo, op, seen)
        BY <2>5, <3>1, <3>2 DEF SoundPlan, Statement, Status, Live, Op, ClientOp
      <3> QED BY <3>3 DEF todo
    <2>6. CASE op = "failed"
      <3>1. todo = <<"disabled_failure", "drop">> /\ seen \in Live
        BY <2>6 DEF Plan, Admits, Live
      <3>2. "disabled_failure" \in Lifecycle[seen]
        BY <3>1 DEF Lifecycle, Status, Live
      <3> HIDE DEF todo
      <3>3. SoundPlan(todo, op, seen)
        BY <2>6, <3>1, <3>2 DEF SoundPlan, Statement, Status, Live, Op, ClientOp
      <3> QED BY <3>3 DEF todo
    <2>7. CASE op \in {"test", "change"}
      <3>1. todo = <<"enqueue">> /\ seen \in Live
        BY <2>7 DEF Plan, Admits, Live
      <3> HIDE DEF todo
      <3>3. SoundPlan(todo, op, seen)
        BY <2>7, <3>1 DEF SoundPlan, Statement, Status, Live, Op, ClientOp
      <3> QED BY <3>3 DEF todo
    <2>8. CASE op = "revoke" /\ seen = "active"
      <3>1. todo = <<"drop", "disabled_revoked", "enqueue">> /\ seen \in {"active"}
        <4>1. todo = <<"drop", "disabled_revoked">> \o <<"enqueue">> /\ seen = "active"
          BY <2>8 DEF Plan, Admits, Live
        <4> HIDE DEF todo
        <4> QED BY <4>1, TwoAndOne
      <3>2. "disabled_revoked" \in Lifecycle[seen]
        BY <3>1 DEF Lifecycle, Status, Live
      <3> HIDE DEF todo
      <3>3. SoundPlan(todo, op, seen)
        BY <2>8, <3>1, <3>2 DEF SoundPlan, Statement, Status, Live, Op, ClientOp
      <3> QED BY <3>3 DEF todo
    <2>9. CASE op = "revoke" /\ seen # "active"
      <3>1. todo = <<"drop", "disabled_revoked">> /\ seen \in Status \ {"none", "deleted", "disabled_revoked"}
        BY <2>9 DEF Plan, Admits, Live, Status
      <3>2. "disabled_revoked" \in Lifecycle[seen]
        BY <3>1 DEF Lifecycle, Status, Live
      <3> HIDE DEF todo
      <3>3. SoundPlan(todo, op, seen)
        BY <2>9, <3>1, <3>2 DEF SoundPlan, Statement, Status, Live, Op, ClientOp
      <3> QED BY <3>3 DEF todo
    <2> QED BY <2>1, <2>2, <2>3, <2>4, <2>5, <2>6, <2>7, <2>8, <2>9 DEF Op, ClientOp
  <1> QED BY <1>1, <1>2

-----------------------------------------------------------------------------
\* An operation is that of its request, or a follow-up of a worker; it is at its
\* statements exactly when some are left; and the row it enqueues, by its last
\* statement, is not there before.
TaskOK(x) ==
    /\ \/ x \in Req /\ job[x].op = OpOf[x]
       \/ x \in Process /\ job[x].op \in {"verified", "failed"}
       \/ job[x].op = "none" /\ job[x].at = "done"
    /\ job[x].at = "write" <=> job[x].todo # <<>>
    /\ x \in Req /\ job[x].at \in {"idle", "load"} => queue[x].status = "none"
    /\ \A i \in DOMAIN job[x].todo : job[x].todo[i] = "enqueue" =>
           i = Len(job[x].todo) /\ x \in Req /\ queue[x].status = "none"

\* A worker that sends or has an answer has a row it does so for; what is put off
\* for another attempt has one left; and what was claimed once is still a row.
TurnOK(p) ==
    /\ tick[p].at \in {"request", "answered"} => tick[p].batch # <<>>
    /\ tick[p].at = "idle" => tick[p].batch = <<>>
    /\ tick[p].at = "answered" <=> tick[p].outcome # "none"
    /\ tick[p].outcome = "retry" => tick[p].batch[1].attempts + 1 < MaxAttempts
    /\ \A i \in DOMAIN tick[p].batch : /\ queue[tick[p].batch[i].id].status # "none"
                                       /\ tick[p].batch[i].attempts < MaxAttempts

\* An open row has attempts left.
Counted ==
    \A r \in Req : queue[r].status \in {"none", "pending"} => queue[r].attempts < MaxAttempts

\* What is due is pending, and due once.
DueOnce ==
    /\ \A i \in DOMAIN due : queue[due[i]].status = "pending"
    /\ \A i, j \in DOMAIN due : due[i] = due[j] => i = j

\* The inductive invariant.
IInv ==
    /\ TypeOK
    /\ \A x \in Actor : TaskOK(x)
    /\ \A p \in Process : TurnOK(p)
    /\ Counted
    /\ DueOnce

\* It holds at the start.
LEMMA InitIInv == Init => IInv
  <1> SUFFICES ASSUME Init
      PROVE  IInv
    OBVIOUS
  <1>1. TypeOK
    <2>1. queue \in [Req -> QueueRow]
      BY DEF Init, QueueRow, RowStatus
    <2>2. job \in [Actor -> Task]
      <3>1. ASSUME NEW x \in Actor
            PROVE  job[x] \in Task
        <4>1. CASE x \in scenario.requests
          <5>1. x \in Req
            BY <4>1 DEF Init, Req
          <5>2. job[x] = [op |-> OpOf[x], at |-> "idle", todo |-> <<>>] /\ OpOf[x] \in Op
            BY <4>1, <5>1, OpOfType DEF Init
          <5> QED BY <5>2 DEF Task
        <4>2. CASE x \notin scenario.requests
          <5>1. job[x] = Finished
            BY <4>2 DEF Init
          <5> QED BY <5>1 DEF Task, Finished
        <4> QED BY <4>1, <4>2
      <3>2. job = [x \in Actor |-> job[x]]
        BY DEF Init
      <3> QED BY <3>1, <3>2
    <2>3. tick \in [Process -> Turn]
      <3>1. Idle \in Turn
        BY DEF Idle, Turn, Status
      <3> QED BY <3>1 DEF Init
    <2>4. due \in Seq(Req) /\ acks \in [Req -> Nat] /\ status \in Status
      BY DEF Init, Status
    <2> QED BY <2>1, <2>2, <2>3, <2>4 DEF Init, TypeOK
  <1>2. ASSUME NEW x \in Actor
        PROVE  TaskOK(x)
    <2>1. CASE x \in scenario.requests
      <3>1. x \in Req
        BY <2>1 DEF Init, Req
      <3> QED BY <2>1, <3>1 DEF Init, TaskOK
    <2>2. CASE x \notin scenario.requests
      <3>1. job[x] = Finished
        BY <2>2 DEF Init
      <3> QED BY <3>1 DEF TaskOK, Finished
    <2> QED BY <2>1, <2>2
  <1>3. ASSUME NEW p \in Process
        PROVE  TurnOK(p)
    BY DEF Init, TurnOK, Idle
  <1>4. Counted /\ DueOnce
    BY LimitsArePositive DEF Init, Counted, DueOnce
  <1> QED BY <1>1, <1>2, <1>3, <1>4 DEF IInv

\* What the helpers of the actions do to the functions they update.
LEMMA GoesOn ==
  ASSUME TypeOK, NEW x \in Actor, NEW todo \in Seq(Statement), GoOnWith(x, todo)
  PROVE  /\ job' \in [Actor -> Task]
         /\ \A y \in Actor : y # x => job'[y] = job[y]
         /\ job'[x].op = job[x].op /\ job'[x].todo = todo
         /\ job'[x].at = IF todo = <<>> THEN "done" ELSE "write"
  <1>1. CASE todo = <<>>
    BY <1>1 DEF GoOnWith, TypeOK, Task
  <1>2. CASE todo # <<>>
    BY <1>2 DEF GoOnWith, TypeOK, Task
  <1> QED BY <1>1, <1>2

\* The row a worker is at is the first of its batch;
LEMMA RowIsFirst ==
  ASSUME TypeOK, NEW p \in Process, tick[p].batch # <<>>
  PROVE  Row(p) = tick[p].batch[1] /\ Row(p) \in Claim /\ 1 \in DOMAIN tick[p].batch
  BY DEF TypeOK, Turn, Row

\* advancing leaves it the others, each one place further on;
LEMMA Advances ==
  ASSUME TypeOK, NEW p \in Process, tick[p].batch # <<>>, Advance(p)
  PROVE  /\ tick' \in [Process -> Turn]
         /\ \A q \in Process : q # p => tick'[q] = tick[q]
         /\ tick'[p].at = "next" /\ tick'[p].outcome = "none"
         /\ Len(tick'[p].batch) = Len(tick[p].batch) - 1
         /\ \A i \in DOMAIN tick'[p].batch :
               i + 1 \in DOMAIN tick[p].batch /\ tick'[p].batch[i] = tick[p].batch[i + 1]
  <1>1. tick[p].batch \in Seq(Claim) /\ tick[p] \in Turn
    BY DEF TypeOK, Turn
  <1>2. /\ Tail(tick[p].batch) \in Seq(Claim)
        /\ Len(Tail(tick[p].batch)) = Len(tick[p].batch) - 1
        /\ \A i \in 1..(Len(tick[p].batch) - 1) : Tail(tick[p].batch)[i] = tick[p].batch[i + 1]
    BY <1>1, HeadTailProperties
  <1>3. tick' = [tick EXCEPT ![p] = [tick[p] EXCEPT !.batch = Tail(@), !.at = "next", !.outcome = "none"]]
    BY DEF Advance, TypeOK
  <1>4. /\ tick'[p] = [tick[p] EXCEPT !.batch = Tail(@), !.at = "next", !.outcome = "none"]
        /\ \A q \in Process : q # p => tick'[q] = tick[q]
        /\ DOMAIN tick' = Process
    BY <1>3 DEF TypeOK
  <1>5. /\ tick'[p] \in Turn
        /\ tick'[p].batch = Tail(tick[p].batch)
        /\ tick'[p].at = "next" /\ tick'[p].outcome = "none"
    BY <1>1, <1>2, <1>4 DEF Turn
  <1>6. tick' \in [Process -> Turn]
    BY <1>3, <1>4, <1>5 DEF TypeOK
  <1> QED BY <1>1, <1>2, <1>4, <1>5, <1>6

\* and what it records of a row takes that row from what is due.
LEMMA Updates ==
  ASSUME TypeOK, DueOnce, NEW id \in Req, NEW to \in RowStatus, NEW n \in Nat, UpdateRow(id, to, n)
  PROVE  /\ queue' \in [Req -> QueueRow]
         /\ \A r \in Req : r # id => queue'[r] = queue[r]
         /\ IF queue[id].status = "gone" THEN queue'[id] = queue[id]
            ELSE queue'[id].status = to /\ queue'[id].attempts = n
         /\ due' \in Seq(Req)
         /\ \A i \in DOMAIN due' : due'[i] # id /\ \E j \in DOMAIN due : due'[i] = due[j]
         /\ \A i, j \in DOMAIN due' : due'[i] = due'[j] => i = j
  <1>1. due \in Seq(Req) /\ due' = RemoveFirst(due, id)
    BY DEF UpdateRow, TypeOK
  <1>2. /\ due' \in Seq(Req)
        /\ \A i \in DOMAIN due' : due'[i] # id /\ \E j \in DOMAIN due : due'[i] = due[j]
        /\ \A i, j \in DOMAIN due' : due'[i] = due'[j] => i = j
    BY <1>1, RemoveFirstFacts DEF DueOnce
  <1>3. CASE queue[id].status = "gone"
    BY <1>2, <1>3 DEF UpdateRow, TypeOK
  <1>4. CASE queue[id].status # "gone"
    BY <1>2, <1>4 DEF UpdateRow, TypeOK, QueueRow
  <1> QED BY <1>3, <1>4

\* What a step leaves alone keeps its part of the invariant.
LEMMA TaskKept ==
  ASSUME NEW x \in Actor, TaskOK(x), job'[x] = job[x],
         x \in Req /\ queue[x].status = "none" => queue'[x].status = "none"
  PROVE  TaskOK(x)'
  BY DEF TaskOK

LEMMA TurnKept ==
  ASSUME TypeOK, NEW p \in Process, TurnOK(p), tick'[p] = tick[p],
         \A r \in Req : queue[r].status # "none" => queue'[r].status # "none"
  PROVE  TurnOK(p)'
  <1>1. \A i \in DOMAIN tick[p].batch : tick[p].batch[i].id \in Req
    <2>1. tick[p].batch \in Seq(Claim)
      BY DEF TypeOK, Turn
    <2>2. ASSUME NEW i \in DOMAIN tick[p].batch
          PROVE  tick[p].batch[i] \in Claim
      BY <2>1
    <2> QED BY <2>2 DEF Claim
  <1> QED BY <1>1 DEF TurnOK

\* The invariant is kept by each action.
LEMMA BeginKeeps ==
  ASSUME IInv, NEW r \in Req, Begin(r)
  PROVE  IInv'
  <1> USE DEF IInv
  <1>1. /\ job' = [job EXCEPT ![r] = [job[r] EXCEPT !.at = "load"]]
        /\ r \in Actor /\ job[r] \in Task
    BY DEF Begin, TypeOK, Actor
  <1>2. /\ job' \in [Actor -> Task] /\ job'[r] = [job[r] EXCEPT !.at = "load"]
        /\ \A y \in Actor : y # r => job'[y] = job[y]
    BY <1>1 DEF TypeOK, Task
  <1>3. TypeOK'
    BY <1>2 DEF Begin, TypeOK
  <1>4. ASSUME NEW x \in Actor
        PROVE  TaskOK(x)'
    <2>1. CASE x = r
      <3>1. /\ job'[r].op = job[r].op /\ job'[r].todo = job[r].todo /\ job'[r].at = "load"
            /\ queue' = queue /\ job[r].at = "idle"
        BY <1>1, <1>2 DEF Begin, Task
      <3> QED BY <2>1, <3>1 DEF TaskOK
    <2>2. CASE x # r
      BY <1>2, <2>2, TaskKept DEF Begin
    <2> QED BY <2>1, <2>2
  <1>5. \A p \in Process : TurnOK(p)'
    BY TurnKept DEF Begin
  <1>6. Counted' /\ DueOnce'
    BY DEF Begin, Counted, DueOnce
  <1> QED BY <1>3, <1>4, <1>5, <1>6

LEMMA LoadKeeps ==
  ASSUME IInv, NEW x \in Actor, Load(x)
  PROVE  IInv'
  <1> USE DEF IInv
  <1> DEFINE todo == Plan(job[x].op, status)
  <1>1. /\ \/ x \in Req /\ job[x].op \in Op
           \/ x \in Process /\ job[x].op \in {"verified", "failed"}
        /\ x \in Req => queue[x].status = "none"
    BY OpOfType DEF Load, TaskOK
  <1>2. SoundPlan(todo, job[x].op, status)
    BY <1>1, PlanIsSound DEF TypeOK
  <1> HIDE DEF todo
  <1>3. GoOnWith(x, todo)
    BY DEF Load, todo
  <1>4. /\ job' \in [Actor -> Task]
        /\ \A y \in Actor : y # x => job'[y] = job[y]
        /\ job'[x].op = job[x].op /\ job'[x].todo = todo
        /\ job'[x].at = IF todo = <<>> THEN "done" ELSE "write"
    BY <1>2, <1>3, GoesOn DEF SoundPlan
  <1>5. TypeOK'
    BY <1>4 DEF Load, TypeOK
  <1>6. ASSUME NEW y \in Actor
        PROVE  TaskOK(y)'
    <2>1. CASE y = x
      <3>1. ASSUME NEW i \in DOMAIN todo, todo[i] = "enqueue"
            PROVE  i = Len(todo) /\ x \in Req
        BY <1>1, <1>2, <3>1 DEF SoundPlan, Op, ClientOp
      <3> QED BY <1>1, <1>4, <2>1, <3>1 DEF Load, TaskOK
    <2>2. CASE y # x
      BY <1>4, <2>2, TaskKept DEF Load
    <2> QED BY <2>1, <2>2
  <1>7. \A p \in Process : TurnOK(p)'
    BY TurnKept DEF Load
  <1>8. Counted' /\ DueOnce'
    BY DEF Load, Counted, DueOnce
  <1> QED BY <1>5, <1>6, <1>7, <1>8

\* The next statement of an operation, and those that are left.
LEMMA NextStatement ==
  ASSUME TypeOK, NEW x \in Actor, job[x].todo # <<>>
  PROVE  /\ Head(job[x].todo) = job[x].todo[1] /\ Head(job[x].todo) \in Statement
         /\ Tail(job[x].todo) \in Seq(Statement)
         /\ Len(Tail(job[x].todo)) = Len(job[x].todo) - 1
         /\ \A i \in DOMAIN Tail(job[x].todo) :
               i + 1 \in DOMAIN job[x].todo /\ Tail(job[x].todo)[i] = job[x].todo[i + 1]
         /\ 1 \in DOMAIN job[x].todo
  <1>1. job[x].todo \in Seq(Statement)
    BY DEF TypeOK, Task
  <1> QED BY <1>1, HeadTailProperties

LEMMA WriteKeeps ==
  ASSUME IInv, NEW x \in Actor, Write(x)
  PROVE  IInv'
  <1> USE DEF IInv
  <1> DEFINE statement == Head(job[x].todo)
             rest == Tail(job[x].todo)
  <1>1. job[x].todo # <<>>
    BY DEF Write, TaskOK
  <1>2. /\ statement = job[x].todo[1] /\ statement \in Statement
        /\ rest \in Seq(Statement)
        /\ Len(rest) = Len(job[x].todo) - 1
        /\ \A i \in DOMAIN rest : i + 1 \in DOMAIN job[x].todo /\ rest[i] = job[x].todo[i + 1]
        /\ 1 \in DOMAIN job[x].todo
    BY <1>1, NextStatement
  <1>3. Execute(x, statement) /\ GoOnWith(x, rest)
    BY DEF Write
  <1> HIDE DEF statement, rest
  <1>4. /\ job' \in [Actor -> Task]
        /\ \A y \in Actor : y # x => job'[y] = job[y]
        /\ job'[x].op = job[x].op /\ job'[x].todo = rest
        /\ job'[x].at = IF rest = <<>> THEN "done" ELSE "write"
    BY <1>2, <1>3, GoesOn
  <1>5. /\ UNCHANGED <<scenario, revoked, tick, acks, echoed, faults, crashes>>
        /\ job[x].at = "write"
    BY DEF Write
  \* A statement that is none of the rows' leaves what x is still to enqueue to it.
  <1>6. ASSUME \A r \in Req : queue[r].status = "none" => queue'[r].status = "none", NEW y \in Actor
        PROVE  TaskOK(y)'
    <2>1. CASE y = x
      <3>1. ASSUME NEW i \in DOMAIN rest, rest[i] = "enqueue"
            PROVE  i = Len(rest) /\ x \in Req /\ queue[x].status = "none"
        BY <1>2, <3>1 DEF TaskOK, TypeOK, Task
      <3>2. \/ x \in Req /\ job[x].op = OpOf[x]
            \/ x \in Process /\ job[x].op \in {"verified", "failed"}
        BY <1>5 DEF TaskOK
      <3> QED BY <1>4, <1>6, <2>1, <3>1, <3>2 DEF TaskOK
    <2>2. CASE y # x
      BY <1>4, <1>6, <2>2, TaskKept
    <2> QED BY <2>1, <2>2
  <1>7. CASE statement \in Status /\ status' = statement /\ UNCHANGED <<queue, due>>
    <2>1. TypeOK'
      BY <1>4, <1>5, <1>7 DEF TypeOK
    <2>2. \A y \in Actor : TaskOK(y)'
      BY <1>6, <1>7
    <2>3. \A p \in Process : TurnOK(p)'
      BY <1>5, <1>7, TurnKept
    <2>4. Counted' /\ DueOnce'
      BY <1>7 DEF Counted, DueOnce
    <2> QED BY <2>1, <2>2, <2>3, <2>4
  <1>8. CASE /\ queue' = [r \in Req |-> Dropped(queue[r])]
             /\ due' = <<>> /\ UNCHANGED status
    <2>1. ASSUME NEW r \in Req
          PROVE  /\ queue'[r] = Dropped(queue[r]) /\ queue'[r] \in QueueRow
                 /\ queue[r].status = "none" <=> queue'[r].status = "none"
                 /\ queue'[r].status # "pending"
                 /\ queue'[r].attempts = queue[r].attempts
      <3>1. queue'[r] = Dropped(queue[r]) /\ queue[r] \in QueueRow
        BY <1>8 DEF TypeOK
      <3>2. CASE queue[r].status = "pending"
        BY <3>1, <3>2 DEF Dropped, QueueRow, RowStatus
      <3>3. CASE queue[r].status # "pending"
        BY <3>1, <3>3 DEF Dropped
      <3> QED BY <3>1, <3>2, <3>3
    <2>2. TypeOK'
      BY <1>4, <1>5, <1>8, <2>1 DEF TypeOK
    <2>3. \A y \in Actor : TaskOK(y)'
      BY <1>6, <2>1
    <2>4. \A p \in Process : TurnOK(p)'
      BY <1>5, <2>1, TurnKept
    <2>5. Counted' /\ DueOnce'
      BY <1>8, <2>1 DEF Counted, DueOnce
    <2> QED BY <2>2, <2>3, <2>4, <2>5
  <1>9. CASE /\ statement = "enqueue"
             /\ queue' = [queue EXCEPT ![x].status = "pending"]
             /\ due' = Append(due, x) /\ UNCHANGED status
    <2>1. /\ x \in Req /\ queue[x].status = "none" /\ rest = <<>>
      <3>1. 1 = Len(job[x].todo) /\ x \in Req /\ queue[x].status = "none"
        BY <1>2, <1>9 DEF TaskOK
      <3> QED BY <1>2, <3>1
    <2>2. /\ queue' \in [Req -> QueueRow]
          /\ \A r \in Req : r # x => queue'[r] = queue[r]
          /\ queue'[x].status = "pending" /\ queue'[x].attempts = queue[x].attempts
      BY <1>9, <2>1 DEF TypeOK, QueueRow, RowStatus
    <2>3. /\ due' \in Seq(Req) /\ Len(due') = Len(due) + 1 /\ due'[Len(due) + 1] = x
          /\ \A i \in 1..Len(due) : due'[i] = due[i]
      BY <1>9, <2>1, AppendProperties DEF TypeOK
    <2>4. TypeOK'
      BY <1>4, <1>5, <1>9, <2>2, <2>3 DEF TypeOK
    <2>5. ASSUME NEW y \in Actor
          PROVE  TaskOK(y)'
      <3>1. CASE y = x
        <4>1. job'[x].todo = <<>> /\ job'[x].at = "done" /\ job'[x].op = OpOf[x]
          BY <1>4, <1>5, <2>1, ReqIsFinite DEF TaskOK
        <4> QED BY <2>1, <3>1, <4>1 DEF TaskOK
      <3>2. CASE y # x
        BY <1>4, <2>2, <3>2, TaskKept
      <3> QED BY <3>1, <3>2
    <2>6. \A p \in Process : TurnOK(p)'
      BY <1>5, <2>2, TurnKept
    <2>7. Counted'
      BY <2>1, <2>2 DEF Counted
    <2>8. DueOnce'
      <3>1. due \in Seq(Req)
        BY DEF TypeOK
      <3>2. \A i \in 1..Len(due) : due[i] # x /\ due'[i] # x /\ due[i] \in Req
        BY <2>1, <2>3, <3>1 DEF DueOnce
      <3> QED BY <2>2, <2>3, <3>1, <3>2 DEF DueOnce
    <2> QED BY <2>4, <2>5, <2>6, <2>7, <2>8
  <1> QED BY <1>3, <1>7, <1>8, <1>9 DEF Execute
-----------------------------------------------------------------------------
LEMMA TickKeeps ==
  ASSUME IInv, NEW p \in Process, Tick(p)
  PROVE  IInv'
  <1> USE DEF IInv
  <1> DEFINE n == IF Len(due) < ClaimLimit THEN Len(due) ELSE ClaimLimit
             batch == [i \in 1..n |-> [id |-> due[i], attempts |-> queue[due[i]].attempts]]
  <1>1. n \in Nat /\ n <= Len(due) /\ \A i \in 1..n : i \in DOMAIN due
    BY LimitsArePositive DEF TypeOK
  <1>2. tick' = [tick EXCEPT ![p] = [at |-> "next", seen |-> status, outcome |-> "none", batch |-> batch]]
    BY DEF Tick
  <1> HIDE DEF n
  <1>3. ASSUME NEW i \in 1..n
        PROVE  /\ due[i] \in Req /\ queue[due[i]].status = "pending"
               /\ queue[due[i]].attempts \in Nat /\ queue[due[i]].attempts < MaxAttempts
    <2>1. due[i] \in Req /\ queue[due[i]].status = "pending"
      BY <1>1 DEF TypeOK, DueOnce
    <2> QED BY <2>1 DEF TypeOK, QueueRow, Counted
  <1>4. batch \in Seq(Claim) /\ DOMAIN batch = 1..n
    <2>1. \A i \in 1..n : batch[i] \in Claim
      BY <1>3 DEF Claim
    <2>2. batch = [i \in 1..n |-> batch[i]] /\ DOMAIN batch = 1..n
      OBVIOUS
    <2> HIDE DEF batch
    <2> QED BY <1>1, <2>1, <2>2, IsASeq
  <1>5. \A i \in 1..n : batch[i].id = due[i] /\ batch[i].attempts = queue[due[i]].attempts
    OBVIOUS
  <1> HIDE DEF batch
  <1>6. /\ tick' \in [Process -> Turn]
        /\ tick'[p] = [at |-> "next", seen |-> status, outcome |-> "none", batch |-> batch]
        /\ \A q \in Process : q # p => tick'[q] = tick[q]
    BY <1>2, <1>4 DEF TypeOK, Turn
  <1>7. TypeOK'
    BY <1>6 DEF Tick, TypeOK
  <1>8. \A x \in Actor : TaskOK(x)'
    BY TaskKept DEF Tick
  <1>9. ASSUME NEW q \in Process
        PROVE  TurnOK(q)'
    <2>1. CASE q = p
      BY <1>3, <1>4, <1>5, <1>6, <2>1 DEF Tick, TurnOK
    <2>2. CASE q # p
      BY <1>6, <2>2, TurnKept DEF Tick
    <2> QED BY <2>1, <2>2
  <1>10. Counted' /\ DueOnce'
    BY DEF Tick, Counted, DueOnce
  <1> QED BY <1>7, <1>8, <1>9, <1>10

LEMMA EndTickKeeps ==
  ASSUME IInv, NEW p \in Process, EndTick(p)
  PROVE  IInv'
  <1> USE DEF IInv
  <1>1. Idle \in Turn
    BY DEF Idle, Turn, Status
  <1>2. /\ tick' \in [Process -> Turn] /\ tick'[p] = Idle
        /\ \A q \in Process : q # p => tick'[q] = tick[q]
    BY <1>1 DEF EndTick, TypeOK
  <1>3. TypeOK'
    BY <1>2 DEF EndTick, TypeOK
  <1>4. \A x \in Actor : TaskOK(x)'
    BY TaskKept DEF EndTick
  <1>5. ASSUME NEW q \in Process
        PROVE  TurnOK(q)'
    <2>1. CASE q = p
      BY <1>2, <2>1 DEF TurnOK, Idle
    <2>2. CASE q # p
      BY <1>2, <2>2, TurnKept DEF EndTick
    <2> QED BY <2>1, <2>2
  <1>6. Counted' /\ DueOnce'
    BY DEF EndTick, Counted, DueOnce
  <1> QED BY <1>3, <1>4, <1>5, <1>6

\* The worker goes on to the next row, of which it knows what it knew.
LEMMA AdvanceKeepsTurns ==
  ASSUME IInv, NEW p \in Process, tick[p].batch # <<>>, Advance(p),
         \A r \in Req : queue[r].status # "none" => queue'[r].status # "none"
  PROVE  tick' \in [Process -> Turn] /\ \A q \in Process : TurnOK(q)'
  <1> USE DEF IInv
  <1>1. /\ tick' \in [Process -> Turn]
        /\ \A q \in Process : q # p => tick'[q] = tick[q]
        /\ tick'[p].at = "next" /\ tick'[p].outcome = "none"
        /\ \A i \in DOMAIN tick'[p].batch :
              i + 1 \in DOMAIN tick[p].batch /\ tick'[p].batch[i] = tick[p].batch[i + 1]
    BY Advances
  <1>2. ASSUME NEW i \in DOMAIN tick'[p].batch
        PROVE  /\ queue'[tick'[p].batch[i].id].status # "none"
               /\ tick'[p].batch[i].attempts < MaxAttempts
    <2>1. i + 1 \in DOMAIN tick[p].batch /\ tick'[p].batch[i] = tick[p].batch[i + 1]
      BY <1>1
    <2>2. tick[p].batch \in Seq(Claim)
      BY DEF TypeOK, Turn
    <2>3. tick[p].batch[i + 1] \in Claim
      BY <2>1, <2>2
    <2> QED BY <2>1, <2>3 DEF TurnOK, Claim
  <1>3. TurnOK(p)'
    BY <1>1, <1>2 DEF TurnOK
  <1> QED BY <1>1, <1>3, TurnKept

LEMMA SkipRowKeeps ==
  ASSUME IInv, NEW p \in Process, SkipRow(p)
  PROVE  IInv'
  <1> USE DEF IInv
  <1>1. tick' \in [Process -> Turn] /\ \A q \in Process : TurnOK(q)'
    BY AdvanceKeepsTurns DEF SkipRow, Treat
  <1>2. TypeOK'
    BY <1>1 DEF SkipRow, TypeOK
  <1>3. \A x \in Actor : TaskOK(x)'
    BY TaskKept DEF SkipRow
  <1>4. Counted' /\ DueOnce'
    BY DEF SkipRow, Counted, DueOnce
  <1> QED BY <1>1, <1>2, <1>3, <1>4

\* The worker writes the queue row of its first claim and advances.
LEMMA UpdateKeepsRows ==
  ASSUME IInv, NEW p \in Process, tick[p].batch # <<>>, Advance(p),
         NEW to \in RowStatus, to # "none", NEW n \in Nat, to = "pending" => n < MaxAttempts,
         UpdateRow(Row(p).id, to, n)
  PROVE  /\ queue' \in [Req -> QueueRow] /\ due' \in Seq(Req) /\ tick' \in [Process -> Turn]
         /\ \A r \in Req : queue[r].status = "none" <=> queue'[r].status = "none"
         /\ \A q \in Process : TurnOK(q)'
         /\ Counted' /\ DueOnce'
  <1> USE DEF IInv
  <1> DEFINE id == Row(p).id
  <1>1. id \in Req /\ queue[id].status # "none"
    BY RowIsFirst DEF Claim, TurnOK
  <1> HIDE DEF id
  <1>2. UpdateRow(id, to, n)
    BY DEF id
  <1>3. /\ queue' \in [Req -> QueueRow]
        /\ \A r \in Req : r # id => queue'[r] = queue[r]
        /\ IF queue[id].status = "gone" THEN queue'[id] = queue[id]
           ELSE queue'[id].status = to /\ queue'[id].attempts = n
        /\ due' \in Seq(Req)
        /\ \A i \in DOMAIN due' : due'[i] # id /\ \E j \in DOMAIN due : due'[i] = due[j]
        /\ \A i, j \in DOMAIN due' : due'[i] = due'[j] => i = j
    BY <1>1, <1>2, Updates
  <1>4. \A r \in Req : queue[r].status = "none" <=> queue'[r].status = "none"
    BY <1>1, <1>3
  <1>5. tick' \in [Process -> Turn] /\ \A q \in Process : TurnOK(q)'
    BY <1>4, AdvanceKeepsTurns
  <1>6. Counted'
    BY <1>1, <1>3 DEF Counted
  <1>7. DueOnce'
    <2>1. ASSUME NEW i \in DOMAIN due'
          PROVE  queue'[due'[i]].status = "pending"
      <3>1. PICK j \in DOMAIN due : due'[i] = due[j]
        BY <1>3
      <3>2. due'[i] \in Req /\ due'[i] # id
        BY <1>3
      <3> QED BY <1>3, <3>1, <3>2 DEF DueOnce
    <2> QED BY <1>3, <2>1 DEF DueOnce
  <1> QED BY <1>3, <1>4, <1>5, <1>6, <1>7

LEMMA DropRowKeeps ==
  ASSUME IInv, NEW p \in Process, DropRow(p)
  PROVE  IInv'
  <1> USE DEF IInv
  <1>1. /\ tick[p].batch # <<>> /\ Row(p).attempts \in Nat
        /\ UpdateRow(Row(p).id, "dropped", Row(p).attempts) /\ Advance(p)
    BY RowIsFirst DEF DropRow, Treat, Claim
  <1>2. /\ queue' \in [Req -> QueueRow] /\ due' \in Seq(Req) /\ tick' \in [Process -> Turn]
        /\ \A r \in Req : queue[r].status = "none" <=> queue'[r].status = "none"
        /\ \A q \in Process : TurnOK(q)'
        /\ Counted' /\ DueOnce'
    BY <1>1, UpdateKeepsRows DEF RowStatus
  <1>3. TypeOK'
    BY <1>2 DEF DropRow, TypeOK
  <1>4. \A x \in Actor : TaskOK(x)'
    BY <1>2, TaskKept DEF DropRow
  <1> QED BY <1>2, <1>3, <1>4

LEMMA SendKeeps ==
  ASSUME IInv, NEW p \in Process, Send(p)
  PROVE  IInv'
  <1> USE DEF IInv
  <1>1. /\ tick' = [tick EXCEPT ![p] = [tick[p] EXCEPT !.at = "request"]]
        /\ tick[p] \in Turn /\ tick[p].batch # <<>> /\ tick[p].at = "next"
    BY DEF Send, Treat, AtNext, TypeOK
  <1>2. /\ tick' \in [Process -> Turn]
        /\ \A q \in Process : q # p => tick'[q] = tick[q]
        /\ tick'[p].at = "request" /\ tick'[p].batch = tick[p].batch
        /\ tick'[p].outcome = tick[p].outcome
    BY <1>1 DEF TypeOK, Turn
  <1>3. TypeOK'
    BY <1>2 DEF Send, TypeOK
  <1>4. \A x \in Actor : TaskOK(x)'
    BY TaskKept DEF Send
  <1>5. ASSUME NEW q \in Process
        PROVE  TurnOK(q)'
    <2>1. CASE q = p
      BY <1>1, <1>2, <2>1 DEF Send, TurnOK
    <2>2. CASE q # p
      BY <1>2, <2>2, TurnKept DEF Send
    <2> QED BY <2>1, <2>2
  <1>6. Counted' /\ DueOnce'
    BY DEF Send, Counted, DueOnce
  <1> QED BY <1>3, <1>4, <1>5, <1>6

\* What a request may come to.
Outcome == {"delivered", "verified", "retry", "throttle", "permanent_failure", "final_failure"}

\* An answer gives the turn an outcome, and another attempt only where one is left.
LEMMA Answered ==
  ASSUME IInv, NEW p \in Process, Answer(p)
  PROVE  /\ tick[p].at = "request" /\ tick[p].batch # <<>>
         /\ \E outcome \in Outcome :
               /\ tick' = [tick EXCEPT ![p] = [tick[p] EXCEPT !.at = "answered", !.outcome = outcome]]
               /\ outcome = "retry" => Row(p).attempts + 1 < MaxAttempts
               /\ \/ Accepted(p) /\ outcome \in {"delivered", "verified"}
                  \/ Refused(p) /\ outcome \notin {"delivered", "verified"}
  <1> USE DEF IInv
  <1>1. tick[p].at = "request" /\ tick[p].batch # <<>>
    BY DEF Answer, TurnOK
  <1>2. Row(p).attempts \in Nat /\ MaxAttempts \in Nat
    BY <1>1, RowIsFirst, LimitsArePositive DEF Claim
  <1>3. CASE Accepted(p)
    <2> DEFINE outcome == IF EventType(Row(p).id) = "verify" THEN "verified" ELSE "delivered"
    <2>1. tick' = [tick EXCEPT ![p] = [tick[p] EXCEPT !.at = "answered", !.outcome = outcome]]
      BY <1>3 DEF Accepted, TypeOK
    <2> QED BY <1>1, <1>3, <2>1 DEF Outcome
  <1>4. CASE Refused(p)
    <2>1. PICK outcome \in {"permanent_failure", "throttle",
                            IF IsLastAttempt(Row(p).attempts) THEN "final_failure" ELSE "retry"} :
             tick' = [tick EXCEPT ![p].at = "answered", ![p].outcome = outcome]
      BY <1>4 DEF Refused
    <2>2. outcome = "retry" => Row(p).attempts + 1 < MaxAttempts
      BY <1>2, <2>1 DEF IsLastAttempt
    <2>3. tick' = [tick EXCEPT ![p] = [tick[p] EXCEPT !.at = "answered", !.outcome = outcome]]
      BY <2>1 DEF TypeOK
    <2>4. outcome \in Outcome /\ outcome \notin {"delivered", "verified"}
      BY <2>1 DEF Outcome
    <2> QED BY <1>1, <1>4, <2>2, <2>3, <2>4
  <1> QED BY <1>3, <1>4 DEF Answer

LEMMA AnswerKeeps ==
  ASSUME IInv, NEW p \in Process, Answer(p)
  PROVE  IInv'
  <1> USE DEF IInv
  <1>1. tick[p].batch # <<>>
    BY Answered
  <1>2. PICK outcome \in Outcome :
           /\ tick' = [tick EXCEPT ![p] = [tick[p] EXCEPT !.at = "answered", !.outcome = outcome]]
           /\ outcome = "retry" => Row(p).attempts + 1 < MaxAttempts
           /\ Accepted(p) \/ Refused(p)
    BY Answered
  <1>3. /\ tick' \in [Process -> Turn]
        /\ \A q \in Process : q # p => tick'[q] = tick[q]
        /\ tick'[p].at = "answered" /\ tick'[p].batch = tick[p].batch
        /\ tick'[p].outcome = outcome
    BY <1>2 DEF TypeOK, Turn, Outcome
  <1>4. acks' \in [Req -> Nat] /\ echoed' \in BOOLEAN /\ faults' \in Nat
    <2>1. CASE Accepted(p)
      <3>1. Row(p).id \in Req
        BY <1>1, RowIsFirst DEF Claim
      <3> QED BY <2>1, <3>1 DEF Accepted, TypeOK
    <2>2. CASE Refused(p)
      BY <2>2 DEF Refused, TypeOK
    <2> QED BY <1>2, <2>1, <2>2
  <1>5. TypeOK'
    BY <1>3, <1>4 DEF Answer, TypeOK
  <1>6. \A x \in Actor : TaskOK(x)'
    BY TaskKept DEF Answer
  <1>7. ASSUME NEW q \in Process
        PROVE  TurnOK(q)'
    <2>1. CASE q = p
      <3>1. outcome = "retry" => tick[p].batch[1].attempts + 1 < MaxAttempts
        BY <1>1, <1>2, RowIsFirst
      <3>2. queue' = queue
        BY DEF Answer
      <3> QED BY <1>1, <1>3, <2>1, <3>1, <3>2 DEF TurnOK, Outcome
    <2>2. CASE q # p
      BY <1>3, <2>2, TurnKept DEF Answer
    <2> QED BY <2>1, <2>2
  <1>8. Counted' /\ DueOnce'
    BY DEF Answer, Counted, DueOnce
  <1> QED BY <1>5, <1>6, <1>7, <1>8

\* What becomes of the row and of the worker's own operation after an answer.
LEMMA Recorded ==
  ASSUME IInv, NEW p \in Process, Record(p)
  PROVE  /\ tick[p].batch # <<>> /\ tick[p].outcome \in Outcome
         /\ RowAfter(tick[p].outcome) \in RowStatus /\ RowAfter(tick[p].outcome) # "none"
         /\ AttemptsAfter(tick[p].outcome, Row(p).attempts) \in Nat
         /\ RowAfter(tick[p].outcome) = "pending" =>
               AttemptsAfter(tick[p].outcome, Row(p).attempts) < MaxAttempts
         /\ RowAfter(tick[p].outcome) = "delivered" <=> tick[p].outcome \in {"delivered", "verified"}
         /\ \/ UNCHANGED job
            \/ \E op \in {"verified", "failed"} :
                  job' = [job EXCEPT ![p] = [op |-> op, at |-> "load", todo |-> <<>>]]
  <1> USE DEF IInv
  <1>1. tick[p].batch # <<>> /\ tick[p].outcome # "none" /\ tick[p].at = "answered"
    BY DEF Record, TurnOK
  <1>2. tick[p].outcome \in Outcome
    BY <1>1 DEF TypeOK, Turn, Outcome
  <1>3. /\ Row(p).attempts \in Nat /\ MaxAttempts \in Nat /\ Row(p).attempts < MaxAttempts
        /\ tick[p].outcome = "retry" => Row(p).attempts + 1 < MaxAttempts
    BY <1>1, RowIsFirst, LimitsArePositive DEF Claim, TurnOK
  <1>4. \/ UNCHANGED job
        \/ \E op \in {"verified", "failed"} :
              job' = [job EXCEPT ![p] = [op |-> op, at |-> "load", todo |-> <<>>]]
    BY DEF Record
  <1> QED BY <1>1, <1>2, <1>3, <1>4 DEF RowAfter, AttemptsAfter, Outcome, RowStatus

LEMMA RecordKeeps ==
  ASSUME IInv, NEW p \in Process, Record(p)
  PROVE  IInv'
  <1> USE DEF IInv
  <1>1. /\ UpdateRow(Row(p).id, RowAfter(tick[p].outcome),
                     AttemptsAfter(tick[p].outcome, Row(p).attempts))
        /\ Advance(p)
        /\ UNCHANGED <<scenario, status, revoked, acks, echoed, faults, crashes>>
    BY DEF Record
  <1>2. /\ queue' \in [Req -> QueueRow] /\ due' \in Seq(Req) /\ tick' \in [Process -> Turn]
        /\ \A r \in Req : queue[r].status = "none" <=> queue'[r].status = "none"
        /\ \A q \in Process : TurnOK(q)'
        /\ Counted' /\ DueOnce'
    BY <1>1, Recorded, UpdateKeepsRows
  <1>3. job' \in [Actor -> Task] /\ \A x \in Actor : TaskOK(x)'
    <2>1. CASE UNCHANGED job
      BY <1>2, <2>1, TaskKept DEF TypeOK
    <2>2. CASE \E op \in {"verified", "failed"} :
                  job' = [job EXCEPT ![p] = [op |-> op, at |-> "load", todo |-> <<>>]]
      <3>1. PICK op \in {"verified", "failed"} :
               job' = [job EXCEPT ![p] = [op |-> op, at |-> "load", todo |-> <<>>]]
        BY <2>2
      <3>2. /\ job' \in [Actor -> Task] /\ \A y \in Actor : y # p => job'[y] = job[y]
            /\ job'[p] = [op |-> op, at |-> "load", todo |-> <<>>]
        BY <3>1 DEF TypeOK, Task, Actor
      <3>3. TaskOK(p)'
        BY <3>2, ReqIsFinite DEF TaskOK
      <3> QED BY <1>2, <3>2, <3>3, TaskKept
    <2> QED BY <2>1, <2>2, Recorded
  <1>4. TypeOK'
    BY <1>1, <1>2, <1>3 DEF TypeOK
  <1> QED BY <1>2, <1>3, <1>4

LEMMA BackoffElapsesKeeps ==
  ASSUME IInv, NEW r \in Req, BackoffElapses(r)
  PROVE  IInv'
  <1> USE DEF IInv
  <1>1. due \in Seq(Req) /\ due' = Append(due, r)
    BY DEF BackoffElapses, TypeOK
  <1>2. /\ due' \in Seq(Req) /\ Len(due') = Len(due) + 1 /\ due'[Len(due) + 1] = r
        /\ \A i \in 1..Len(due) : due'[i] = due[i]
    BY <1>1, AppendProperties
  <1>3. TypeOK'
    BY <1>2 DEF BackoffElapses, TypeOK
  <1>4. \A x \in Actor : TaskOK(x)'
    BY TaskKept DEF BackoffElapses
  <1>5. \A p \in Process : TurnOK(p)'
    BY TurnKept DEF BackoffElapses
  <1>6. Counted'
    BY DEF BackoffElapses, Counted
  <1>7. DueOnce'
    <2>1. /\ \A i \in 1..Len(due) : due'[i] = due[i] /\ due[i] # r
          /\ queue' = queue /\ queue[r].status = "pending"
      BY <1>1, <1>2 DEF BackoffElapses, ToSet
    <2> QED BY <1>1, <1>2, <2>1 DEF DueOnce
  <1> QED BY <1>3, <1>4, <1>5, <1>6, <1>7

LEMMA CrashKeeps ==
  ASSUME IInv, NEW p \in Process, Crash(p)
  PROVE  IInv'
  <1> USE DEF IInv
  <1>1. Idle \in Turn
    BY DEF Idle, Turn, Status
  <1>2. /\ tick' \in [Process -> Turn] /\ tick'[p] = Idle
        /\ \A q \in Process : q # p => tick'[q] = tick[q]
    BY <1>1 DEF Crash, TypeOK
  <1>3. ASSUME NEW x \in Actor
        PROVE  \/ job'[x] = job[x]
               \/ job'[x] \in Task /\ job'[x].op = job[x].op
                  /\ job'[x].at = "done" /\ job'[x].todo = <<>> /\ (x \in Process \/ job[x].at # "idle")
    <2>1. job[x] \in Task
      BY DEF TypeOK
    <2>2. CASE job'[x] = [job[x] EXCEPT !.at = "done", !.todo = <<>>]
               /\ (x \in Process \/ job[x].at # "idle")
      <3>1. job'[x] \in Task /\ job'[x].op = job[x].op
            /\ job'[x].at = "done" /\ job'[x].todo = <<>>
        <4>1. job'[x] = [op |-> job[x].op, at |-> "done", todo |-> <<>>]
          BY <2>1, <2>2 DEF Task
        <4> QED BY <2>1, <4>1 DEF Task
      <3> QED BY <2>2, <3>1
    <2> QED BY <2>2 DEF Crash
  <1>4. job' \in [Actor -> Task]
    <2>1. \A x \in Actor : job'[x] \in Task
      BY <1>3 DEF TypeOK
    <2>2. job' = [x \in Actor |-> job'[x]]
      BY DEF Crash
    <2> QED BY <2>1, <2>2
  <1>5. TypeOK'
    <2>1. crashes' \in Nat
      <3>1. crashes' = crashes + 1
        BY DEF Crash
      <3> QED BY <3>1 DEF TypeOK
    <2> QED BY <1>2, <1>4, <2>1 DEF Crash, TypeOK
  <1>6. ASSUME NEW x \in Actor
        PROVE  TaskOK(x)'
    <2>1. queue' = queue
      BY DEF Crash
    <2>2. CASE job'[x] = job[x]
      BY <2>1, <2>2, TaskKept
    <2>3. CASE job'[x] # job[x]
      BY <1>3, <2>1, <2>3 DEF TaskOK
    <2> QED BY <2>2, <2>3
  <1>7. ASSUME NEW q \in Process
        PROVE  TurnOK(q)'
    <2>1. CASE q = p
      BY <1>2, <2>1 DEF TurnOK, Idle
    <2>2. CASE q # p
      BY <1>2, <2>2, TurnKept DEF Crash
    <2> QED BY <2>1, <2>2
  <1>8. Counted' /\ DueOnce'
    BY DEF Crash, Counted, DueOnce
  <1> QED BY <1>5, <1>6, <1>7, <1>8

\* Hence by every step.
LEMMA NextIInv == IInv /\ [Next]_vars => IInv'
  <1> SUFFICES ASSUME IInv, [Next]_vars
      PROVE  IInv'
    OBVIOUS
  <1>1. CASE UNCHANGED vars
    BY <1>1 DEF vars, IInv, TypeOK, TaskOK, TurnOK, Counted, DueOnce
  <1>2. CASE \E x \in Actor : Load(x) \/ Write(x)
    BY <1>2, LoadKeeps, WriteKeeps
  <1>3. CASE \E r \in Req : Begin(r) \/ BackoffElapses(r)
    BY <1>3, BeginKeeps, BackoffElapsesKeeps
  <1>4. CASE \E p \in Process : WorkerStep(p) \/ Crash(p)
    BY <1>4, TickKeeps, EndTickKeeps, SkipRowKeeps, DropRowKeeps, SendKeeps, AnswerKeeps,
       RecordKeeps, CrashKeeps DEF WorkerStep
  <1> QED BY <1>1, <1>2, <1>3, <1>4 DEF Next

\* So it is an invariant.
LEMMA InvariantHolds == Spec => []IInv
  BY InitIInv, NextIInv, PTL DEF Spec

\* Every variable keeps its type: what operations, workers and crashes write of
\* the subscription, its queue and its deliveries is of the shape they read.
THEOREM DeliveryTypeCorrect == Spec => []TypeOK
  BY InvariantHolds, PTL DEF IInv
-----------------------------------------------------------------------------
\* The worker has an answer that is a success, and has not recorded it.
Succeeded(p) == tick[p].at = "answered" /\ tick[p].outcome \in {"delivered", "verified"}

\* What a worker that is the only one knows of how often its events have been
\* taken: a row that is open, or that the worker still has to send, has not been
\* taken since the last crash, unless its success is about to be recorded.
AcksOK(p) ==
    /\ \A r \in Req : acks[r] <= 1 + crashes
    /\ \A r \in Req : queue[r].status \in {"none", "pending"} =>
           acks[r] <= crashes \/ (Succeeded(p) /\ tick[p].batch[1].id = r)
    /\ \A i \in DOMAIN tick[p].batch :
           acks[tick[p].batch[i].id] <= crashes \/ (i = 1 /\ Succeeded(p))
    /\ \A i, j \in DOMAIN tick[p].batch : tick[p].batch[i].id = tick[p].batch[j].id => i = j

\* It holds at the start, when nothing has been sent.
LEMMA InitAcks ==
  ASSUME Init, NEW p \in Process
  PROVE  AcksOK(p)
  BY DEF Init, AcksOK, Idle

\* Steps that neither count nor send nor write a row that was open.
LEMMA AcksKept ==
  ASSUME IInv, NEW p \in Process, AcksOK(p), UNCHANGED <<tick, acks, crashes>>,
         \A r \in Req : queue'[r].status \in {"none", "pending"} =>
                            queue[r].status \in {"none", "pending"}
  PROVE  AcksOK(p)'
  BY DEF AcksOK, Succeeded

\* A statement of an operation reopens no row: it inserts one, once, or drops.
LEMMA WriteOpensNothing ==
  ASSUME IInv, NEW x \in Actor, Write(x), NEW r \in Req, queue'[r].status \in {"none", "pending"}
  PROVE  queue[r].status \in {"none", "pending"}
  <1> USE DEF IInv
  <1> DEFINE statement == Head(job[x].todo)
  <1>1. CASE UNCHANGED queue
    BY <1>1
  <1>2. CASE queue' = [s \in Req |-> Dropped(queue[s])]
    BY <1>2 DEF Dropped
  <1>3. CASE statement = "enqueue" /\ queue' = [queue EXCEPT ![x].status = "pending"]
    <2>1. job[x].todo # <<>>
      BY DEF Write, TaskOK
    <2>2. x \in Req /\ queue[x].status = "none"
      BY <1>3, <2>1, NextStatement DEF TaskOK
    <2>3. r # x => queue'[r] = queue[r]
      BY <1>3, <2>2 DEF TypeOK
    <2> QED BY <2>2, <2>3
  <1> QED BY <1>1, <1>2, <1>3 DEF Write, Execute

\* The worker claims rows that are pending, each once.
LEMMA TickAcks ==
  ASSUME IInv, NEW p \in Process, AcksOK(p), Tick(p)
  PROVE  AcksOK(p)'
  <1> USE DEF IInv
  <1> DEFINE n == IF Len(due) < ClaimLimit THEN Len(due) ELSE ClaimLimit
             batch == [i \in 1..n |-> [id |-> due[i], attempts |-> queue[due[i]].attempts]]
  <1>1. \A i \in 1..n : i \in DOMAIN due
    BY LimitsArePositive DEF TypeOK
  <1>2. tick'[p] = [at |-> "next", seen |-> status, outcome |-> "none", batch |-> batch]
    BY DEF Tick, TypeOK
  <1> HIDE DEF n
  <1>3. DOMAIN batch = 1..n /\ \A i \in 1..n : batch[i].id = due[i]
    OBVIOUS
  <1> HIDE DEF batch
  <1>4. \A r \in Req : queue[r].status \in {"none", "pending"} => acks[r] <= crashes
    BY DEF Tick, AcksOK, Succeeded
  <1>5. \A i \in 1..n : due[i] \in Req /\ queue[due[i]].status = "pending"
    BY <1>1 DEF TypeOK, DueOnce
  <1>6. UNCHANGED <<acks, crashes, queue>>
    BY DEF Tick
  <1> QED BY <1>1, <1>2, <1>3, <1>4, <1>5, <1>6 DEF AcksOK, DueOnce

\* A worker that comes to a row after its first, or to the end of its batch.
LEMMA AdvanceAcks ==
  ASSUME IInv, NEW p \in Process, AcksOK(p), tick[p].batch # <<>>, Advance(p),
         UNCHANGED <<acks, crashes>>,
         \A r \in Req : queue'[r].status \in {"none", "pending"} =>
            \/ queue[r].status \in {"none", "pending"} /\ r # tick[p].batch[1].id
            \/ r = tick[p].batch[1].id /\ ~Succeeded(p)
  PROVE  AcksOK(p)'
  <1> USE DEF IInv
  <1>1. /\ tick'[p].at = "next"
        /\ \A i \in DOMAIN tick'[p].batch :
              i + 1 \in DOMAIN tick[p].batch /\ tick'[p].batch[i] = tick[p].batch[i + 1]
    BY Advances
  <1>2. tick[p].batch \in Seq(Claim) /\ tick'[p].batch \in Seq(Claim)
    BY Advances DEF TypeOK, Turn
  <1>3. 1 \in DOMAIN tick[p].batch
    BY RowIsFirst
  <1>4. ASSUME NEW r \in Req, queue'[r].status \in {"none", "pending"}
        PROVE  acks'[r] <= crashes'
    BY <1>3, <1>4 DEF AcksOK
  <1>5. ASSUME NEW i \in DOMAIN tick'[p].batch
        PROVE  acks'[tick'[p].batch[i].id] <= crashes'
    <2>1. i + 1 \in DOMAIN tick[p].batch /\ i + 1 # 1 /\ tick'[p].batch[i] = tick[p].batch[i + 1]
      BY <1>1, <1>2
    <2> QED BY <2>1 DEF AcksOK
  <1>6. ASSUME NEW i \in DOMAIN tick'[p].batch, NEW j \in DOMAIN tick'[p].batch,
               tick'[p].batch[i].id = tick'[p].batch[j].id
        PROVE  i = j
    <2>1. i + 1 = j + 1
      BY <1>1, <1>6 DEF AcksOK
    <2> QED BY <1>2, <2>1
  <1> QED BY <1>4, <1>5, <1>6 DEF AcksOK

\* A success is the first since the last crash, and is about to be recorded.
LEMMA AnswerAcks ==
  ASSUME IInv, NEW p \in Process, AcksOK(p), Answer(p)
  PROVE  AcksOK(p)'
  <1> USE DEF IInv
  <1>1. tick[p].at = "request" /\ tick[p].batch # <<>> /\ UNCHANGED <<queue, crashes>>
    BY Answered DEF Answer
  <1>2. PICK outcome \in Outcome :
           /\ tick' = [tick EXCEPT ![p] = [tick[p] EXCEPT !.at = "answered", !.outcome = outcome]]
           /\ \/ Accepted(p) /\ outcome \in {"delivered", "verified"}
              \/ Refused(p) /\ outcome \notin {"delivered", "verified"}
    BY Answered
  <1>3. /\ tick'[p].at = "answered" /\ tick'[p].batch = tick[p].batch
        /\ tick'[p].outcome = outcome
    BY <1>2 DEF TypeOK, Turn, Outcome
  <1>4. Row(p) = tick[p].batch[1] /\ Row(p).id \in Req /\ 1 \in DOMAIN tick[p].batch
    BY <1>1, RowIsFirst DEF Claim
  <1>5. ~Succeeded(p)
    BY <1>1 DEF Succeeded
  <1>6. CASE Accepted(p) /\ outcome \in {"delivered", "verified"}
    <2>1. /\ acks'[Row(p).id] = acks[Row(p).id] + 1
          /\ \A r \in Req : r # Row(p).id => acks'[r] = acks[r]
      BY <1>4, <1>6 DEF Accepted, TypeOK
    <2>2. acks[Row(p).id] <= crashes /\ acks[Row(p).id] \in Nat /\ crashes \in Nat
      BY <1>4, <1>5 DEF AcksOK, TypeOK
    <2>3. Succeeded(p)'
      BY <1>3, <1>6 DEF Succeeded
    <2>4. \A i \in DOMAIN tick[p].batch : tick[p].batch[i].id \in Req
      <3>1. tick[p].batch \in Seq(Claim)
        BY DEF TypeOK, Turn
      <3>2. ASSUME NEW i \in DOMAIN tick[p].batch
            PROVE  tick[p].batch[i] \in Claim
        BY <3>1
      <3> QED BY <3>2 DEF Claim
    <2> QED BY <1>1, <1>3, <1>4, <1>5, <2>1, <2>2, <2>3, <2>4 DEF AcksOK
  <1>7. CASE Refused(p)
    <2>1. UNCHANGED acks
      BY <1>7 DEF Refused
    <2> QED BY <1>1, <1>3, <1>5, <2>1 DEF AcksOK
  <1> QED BY <1>2, <1>6, <1>7

\* Recorded, the row is open no longer, unless it was not a success.
LEMMA RecordAcks ==
  ASSUME IInv, NEW p \in Process, AcksOK(p), Record(p)
  PROVE  AcksOK(p)'
  <1> USE DEF IInv
  <1> DEFINE id == Row(p).id
             to == RowAfter(tick[p].outcome)
  <1>1. /\ tick[p].batch # <<>> /\ tick[p].outcome \in Outcome /\ to \in RowStatus
        /\ AttemptsAfter(tick[p].outcome, Row(p).attempts) \in Nat
        /\ to = "delivered" <=> tick[p].outcome \in {"delivered", "verified"}
    BY Recorded
  <1>2. id = tick[p].batch[1].id /\ id \in Req
    BY <1>1, RowIsFirst DEF Claim
  <1>3. UpdateRow(id, to, AttemptsAfter(tick[p].outcome, Row(p).attempts)) /\ Advance(p)
    BY DEF Record
  <1> HIDE DEF id, to
  <1>4. /\ \A r \in Req : r # id => queue'[r] = queue[r]
        /\ queue'[id].status = "gone" \/ queue'[id].status = to
    BY <1>1, <1>2, <1>3, Updates
  <1>5. UNCHANGED <<acks, crashes>>
    BY DEF Record
  <1>6. ASSUME NEW r \in Req, queue'[r].status \in {"none", "pending"}
        PROVE  \/ queue[r].status \in {"none", "pending"} /\ r # id
               \/ r = id /\ ~Succeeded(p)
    BY <1>1, <1>4, <1>6 DEF Succeeded
  <1> QED BY <1>1, <1>2, <1>3, <1>5, <1>6, AdvanceAcks

\* A crash forgets the turn, and counts.
LEMMA CrashAcks ==
  ASSUME IInv, NEW p \in Process, AcksOK(p), Crash(p)
  PROVE  AcksOK(p)'
  <1> USE DEF IInv
  <1>1. tick'[p].batch = <<>> /\ UNCHANGED <<acks, queue>> /\ crashes' = crashes + 1
    BY DEF Crash, TypeOK, Idle
  <1>2. \A r \in Req : acks[r] \in Nat
    BY DEF TypeOK
  <1>3. crashes \in Nat
    BY DEF TypeOK
  <1> QED BY <1>1, <1>2, <1>3 DEF AcksOK

\* With one worker every step keeps it.
LEMMA NextAcks ==
  ASSUME NEW p, Process = {p}, IInv, AcksOK(p), [Next]_vars
  PROVE  AcksOK(p)'
  <1> USE DEF IInv
  <1>1. CASE UNCHANGED vars
    BY <1>1, AcksKept DEF vars
  <1>2. ASSUME NEW x \in Actor, Load(x)
        PROVE  AcksOK(p)'
    BY <1>2, AcksKept DEF Load
  <1>3. ASSUME NEW x \in Actor, Write(x)
        PROVE  AcksOK(p)'
    <2>1. UNCHANGED <<tick, acks, crashes>>
      BY <1>3 DEF Write
    <2> QED BY <1>3, <2>1, AcksKept, WriteOpensNothing
  <1>4. ASSUME NEW r \in Req, Begin(r) \/ BackoffElapses(r)
        PROVE  AcksOK(p)'
    BY <1>4, AcksKept DEF Begin, BackoffElapses
  <1>5. CASE Tick(p)
    BY <1>5, TickAcks
  <1>6. CASE EndTick(p)
    <2>1. tick'[p].batch = <<>> /\ tick'[p].at = "idle" /\ UNCHANGED <<queue, acks, crashes>>
      BY <1>6 DEF EndTick, TypeOK, Idle
    <2>2. ~Succeeded(p)
      BY <1>6 DEF EndTick, AtNext, Succeeded
    <2> QED BY <2>1, <2>2 DEF AcksOK
  <1>7. CASE SkipRow(p)
    <2>1. tick[p].batch # <<>> /\ Advance(p) /\ UNCHANGED <<queue, acks, crashes>> /\ ~Succeeded(p)
      BY <1>7 DEF SkipRow, Treat, AtNext, Succeeded
    <2> QED BY <2>1, AdvanceAcks
  <1>8. CASE DropRow(p)
    <2>1. /\ tick[p].batch # <<>> /\ Advance(p) /\ UNCHANGED <<acks, crashes>> /\ ~Succeeded(p)
          /\ UpdateRow(Row(p).id, "dropped", Row(p).attempts)
      BY <1>8 DEF DropRow, Treat, AtNext, Succeeded
    <2>2. Row(p).id = tick[p].batch[1].id /\ Row(p).id \in Req /\ Row(p).attempts \in Nat
      BY <2>1, RowIsFirst DEF Claim
    <2>3. \A r \in Req : r # Row(p).id => queue'[r] = queue[r]
      BY <2>1, <2>2, Updates DEF RowStatus
    <2> QED BY <2>1, <2>2, <2>3, AdvanceAcks
  <1>9. CASE Send(p)
    <2>1. /\ tick' = [tick EXCEPT ![p] = [tick[p] EXCEPT !.at = "request"]]
          /\ UNCHANGED <<queue, acks, crashes>> /\ ~Succeeded(p)
      BY <1>9 DEF Send, Treat, AtNext, Succeeded, TypeOK
    <2>2. tick'[p].batch = tick[p].batch
      BY <2>1 DEF TypeOK, Turn
    <2> QED BY <2>1, <2>2 DEF AcksOK
  <1> QED BY <1>1, <1>2, <1>3, <1>4, <1>5, <1>6, <1>7, <1>8, <1>9,
             AnswerAcks, RecordAcks, CrashAcks DEF Next, WorkerStep

\* With one process, an event the receiver has answered 2xx is sent again only
\* because of a crash in between, and a pending row has attempts left, whatever
\* operations drop, enqueue or revoke while the worker awaits an answer.
THEOREM NothingSentTwice ==
  ASSUME NEW p, Process = {p}
  PROVE  Spec => []NoNeedlessSend
  <1>1. Init => AcksOK(p)
    BY InitAcks
  <1>2. IInv /\ AcksOK(p) /\ [Next]_vars => AcksOK(p)'
    BY NextAcks
  <1>3. IInv /\ AcksOK(p) => NoNeedlessSend
    BY DEF IInv, Counted, AcksOK, NoNeedlessSend
  <1> QED BY <1>1, <1>2, <1>3, InvariantHolds, PTL DEF Spec
-----------------------------------------------------------------------------
\* An announcement that has been queued.
Noticed(r) == EventType(r) = "notice" /\ queue[r].status # "none"

\* One actor is between two of its statements at a time.
OneMidway == \A x, y \in Actor : Midway(x) /\ Midway(y) => x = y

\* What an operation is still to write fits what it finds when it writes it: the
\* status may go where the operation will take it, and an announcement is still
\* to be the only one, of a subscription that is revoked by then.
Fits(x) ==
    \A i \in DOMAIN job[x].todo :
        /\ job[x].todo[i] \in Status => job[x].todo[i] \in Lifecycle[status]
        /\ \A j \in DOMAIN job[x].todo :
              job[x].todo[i] \in Status /\ job[x].todo[j] \in Status => i = j
        /\ job[x].todo[i] = "enqueue" /\ job[x].op = "revoke" =>
              /\ \A r \in Req : ~Noticed(r)
              /\ \/ /\ status = "disabled_revoked"
                    /\ \A j \in DOMAIN job[x].todo : job[x].todo[j] \notin Status
                 \/ \E j \in DOMAIN job[x].todo : job[x].todo[j] = "disabled_revoked"

\* What is announced has happened, and is announced once.
Announced ==
    /\ \A r \in Req : Noticed(r) => status \in {"disabled_revoked", "deleted"}
    /\ \A r, s \in Req : Noticed(r) /\ Noticed(s) => r = s

\* The inductive invariant of the operations on SQLite.
SqliteOK == OneMidway /\ (\A x \in Actor : Fits(x)) /\ Announced

\* It is one of a single process, in which statements run through.
Serial == scenario.backend = "sqlite" /\ \E p : Process = {p}

\* Whoever may run there finds nobody else midway.
LEMMA RunsAlone ==
  ASSUME Serial, NEW x \in Actor, MayRun(x), NEW y \in Actor, y # x
  PROVE  ~Midway(y)
  <1>1. RunsIn(x) = RunsIn(y)
    BY OpOfType DEF Serial, RunsIn, Actor
  <1> QED BY <1>1 DEF MayRun, Serial

\* It holds at the start, when nothing is under way.
LEMMA InitSqlite == Init => SqliteOK
  <1> SUFFICES ASSUME Init
      PROVE  SqliteOK
    OBVIOUS
  <1>1. ASSUME NEW x \in Actor
        PROVE  job[x].todo = <<>> /\ job[x].at \in {"idle", "done"}
    BY DEF Init, Finished
  <1>2. \A x \in Actor : ~Midway(x) /\ Fits(x)
    BY <1>1 DEF Midway, Fits, Init, Idle
  <1>3. Announced
    BY DEF Announced, Noticed, Init
  <1> QED BY <1>2, <1>3 DEF SqliteOK, OneMidway

\* A step of an actor that may run: whoever is midway afterwards is that actor.
LEMMA MidwayAfter ==
  ASSUME IInv, Serial, NEW x \in Actor, MayRun(x),
         \A y \in Actor : y # x => job'[y] = job[y],
         \A q \in Process : q # x => tick'[q] = tick[q]
  PROVE  OneMidway'
  <1>1. \A y \in Actor : y # x => ~Midway(y)'
    BY RunsAlone DEF Midway
  <1> QED BY <1>1 DEF OneMidway

\* The statements of others stand aside while one actor runs.
LEMMA OthersHaveNone ==
  ASSUME IInv, Serial, NEW x \in Actor, MayRun(x), NEW y \in Actor, y # x
  PROVE  job[y].todo = <<>>
  BY RunsAlone DEF IInv, Midway, TaskOK

\* Where the subscription stays as it is, what is left to write still fits,
LEMMA FitsKept ==
  ASSUME IInv, NEW x \in Actor, Fits(x), UNCHANGED status, job'[x] = job[x],
         \A r \in Req : Noticed(r)' => Noticed(r)
  PROVE  Fits(x)'
  BY DEF Fits

\* and nothing always does.
LEMMA NothingFits ==
  ASSUME NEW x \in Actor, job'[x].todo = <<>>
  PROVE  Fits(x)'
  BY DEF Fits

\* Steps of a worker, and whatever leaves the subscription and the operations
\* alone and inserts no row.
LEMMA WorkerKeepsAnnounced ==
  ASSUME IInv, Announced, UNCHANGED status,
         \A r \in Req : queue[r].status = "none" => queue'[r].status = "none"
  PROVE  Announced' /\ \A r \in Req : Noticed(r)' => Noticed(r)
  BY DEF Announced, Noticed, EventType

\* A status that the lifecycle lets follow a revocation is its deletion.
LEMMA AfterRevocation ==
  ASSUME NEW s \in {"disabled_revoked", "deleted"}
  PROVE  Lifecycle[s] \subseteq {"disabled_revoked", "deleted"}
  BY DEF Lifecycle, Status, Live

\* An operation that loads the subscription plans what fits it.
LEMMA LoadSqlite ==
  ASSUME IInv, Serial, SqliteOK, NEW x \in Actor, Load(x)
  PROVE  SqliteOK'
  <1> USE DEF IInv, SqliteOK
  <1> DEFINE todo == Plan(job[x].op, status)
  <1>1. job[x].op \in Op \cup {"verified", "failed"}
    BY OpOfType DEF Load, TaskOK
  <1>2. SoundPlan(todo, job[x].op, status)
    BY <1>1, PlanIsSound DEF TypeOK
  <1>3. GoOnWith(x, todo) /\ MayRun(x) /\ UNCHANGED <<status, queue, tick>>
    BY DEF Load
  <1> HIDE DEF todo
  <1>4. /\ \A y \in Actor : y # x => job'[y] = job[y]
        /\ job'[x].op = job[x].op /\ job'[x].todo = todo
    BY <1>2, <1>3, GoesOn DEF SoundPlan
  <1>5. OneMidway'
    BY <1>3, <1>4, MidwayAfter
  <1>6. Announced' /\ \A r \in Req : Noticed(r)' => Noticed(r)
    BY <1>3, WorkerKeepsAnnounced
  <1>7. ASSUME NEW y \in Actor
        PROVE  Fits(y)'
    <2>1. CASE y = x
      <3>1. job[x].op = "revoke" /\ todo # <<>> => \A r \in Req : ~Noticed(r)
        BY <1>2 DEF SoundPlan, Announced
      <3>2. \A i \in DOMAIN todo : todo # <<>>
        BY <1>2 DEF SoundPlan
      <3> QED BY <1>2, <1>3, <1>4, <1>6, <2>1, <3>1, <3>2 DEF Fits, SoundPlan
    <2>2. CASE y # x
      BY <1>3, <1>4, <1>6, <2>2, FitsKept
    <2> QED BY <2>1, <2>2
  <1> QED BY <1>5, <1>6, <1>7

\* What an actor writes next, on SQLite.
LEMMA WriteFits ==
  ASSUME IInv, Serial, SqliteOK, NEW x \in Actor, Write(x)
  PROVE  KeepsLifecycle
  <1> USE DEF IInv, SqliteOK
  <1>1. job[x].todo # <<>>
    BY DEF Write, TaskOK
  <1>2. Head(job[x].todo) \in Status => Head(job[x].todo) \in Lifecycle[status]
    BY <1>1, NextStatement DEF Fits
  <1> QED BY <1>2 DEF Write, Execute, KeepsLifecycle

\* Each of its statements leaves the others what they need.
LEMMA WriteSqlite ==
  ASSUME IInv, Serial, SqliteOK, NEW x \in Actor, Write(x)
  PROVE  SqliteOK'
  <1> USE DEF IInv, SqliteOK
  <1> DEFINE statement == Head(job[x].todo)
             rest == Tail(job[x].todo)
  <1>1. job[x].todo # <<>> /\ job[x].at = "write"
    BY DEF Write, TaskOK
  <1>2. /\ statement = job[x].todo[1] /\ statement \in Statement
        /\ rest \in Seq(Statement)
        /\ Len(rest) = Len(job[x].todo) - 1
        /\ \A i \in DOMAIN rest : i + 1 \in DOMAIN job[x].todo /\ rest[i] = job[x].todo[i + 1]
        /\ 1 \in DOMAIN job[x].todo
    BY <1>1, NextStatement
  <1>3. Execute(x, statement) /\ GoOnWith(x, rest) /\ MayRun(x) /\ UNCHANGED tick
    BY DEF Write
  <1> HIDE DEF statement, rest
  <1>4. /\ \A y \in Actor : y # x => job'[y] = job[y]
        /\ job'[x].op = job[x].op /\ job'[x].todo = rest
    BY <1>2, <1>3, GoesOn
  <1>5. OneMidway'
    BY <1>3, <1>4, MidwayAfter
  <1>6. \A y \in Actor : y # x => Fits(y)'
    BY <1>3, <1>4, OthersHaveNone, NothingFits
  <1>7. \A i \in DOMAIN rest : i + 1 # 1 /\ i \in Nat
    BY <1>2
  <1>8. CASE statement \in Status /\ status' = statement /\ UNCHANGED <<queue, due>>
    <2>1. statement \in Lifecycle[status]
      BY <1>2, <1>8 DEF Fits
    <2>2. \A i \in DOMAIN rest : rest[i] \notin Status
      BY <1>2, <1>7, <1>8 DEF Fits
    <2>3. \A r \in Req : Noticed(r)' <=> Noticed(r)
      BY <1>8 DEF Noticed, EventType
    <2>4. Announced'
      BY <1>8, <2>1, <2>3, AfterRevocation DEF Announced
    <2>5. ASSUME NEW i \in DOMAIN rest, rest[i] = "enqueue", job[x].op = "revoke"
          PROVE  (\A r \in Req : ~Noticed(r)) /\ statement = "disabled_revoked"
      <3>1. i + 1 \in DOMAIN job[x].todo /\ job[x].todo[i + 1] = "enqueue"
        BY <1>2, <2>5
      <3>2. /\ \A r \in Req : ~Noticed(r)
            /\ \E j \in DOMAIN job[x].todo : job[x].todo[j] = "disabled_revoked"
        BY <1>2, <1>8, <2>5, <3>1 DEF Fits
      <3> QED BY <1>2, <1>8, <3>2 DEF Fits, Status
    <2>6. Fits(x)'
      BY <1>4, <1>8, <2>2, <2>3, <2>5 DEF Fits
    <2> QED BY <1>5, <1>6, <2>4, <2>6
  <1>9. CASE /\ statement = "drop" /\ queue' = [r \in Req |-> Dropped(queue[r])]
             /\ due' = <<>> /\ UNCHANGED status
    <2>1. \A r \in Req : queue[r].status = "none" => queue'[r].status = "none"
      BY <1>9 DEF Dropped
    <2>2. Announced' /\ \A r \in Req : Noticed(r)' => Noticed(r)
      BY <1>9, <2>1, WorkerKeepsAnnounced
    <2>3. ASSUME NEW i \in DOMAIN rest, rest[i] = "enqueue", job[x].op = "revoke"
          PROVE  /\ \A r \in Req : ~Noticed(r)
                 /\ \/ status = "disabled_revoked" /\ \A j \in DOMAIN rest : rest[j] \notin Status
                    \/ \E j \in DOMAIN rest : rest[j] = "disabled_revoked"
      <3>1. i + 1 \in DOMAIN job[x].todo /\ job[x].todo[i + 1] = "enqueue"
        BY <1>2, <2>3
      <3>2. /\ \A r \in Req : ~Noticed(r)
            /\ \/ /\ status = "disabled_revoked"
                  /\ \A j \in DOMAIN job[x].todo : job[x].todo[j] \notin Status
               \/ \E j \in DOMAIN job[x].todo : job[x].todo[j] = "disabled_revoked"
        BY <2>3, <3>1 DEF Fits
      <3>3. ASSUME NEW j \in DOMAIN job[x].todo, job[x].todo[j] = "disabled_revoked"
            PROVE  \E k \in DOMAIN rest : rest[k] = "disabled_revoked"
        <4>1. j # 1
          BY <1>2, <1>9, <3>3
        <4>2. job[x].todo \in Seq(Statement)
          BY DEF TypeOK, Task
        <4>3. j - 1 \in DOMAIN rest /\ (j - 1) + 1 = j
          BY <1>2, <4>1, <4>2
        <4> QED BY <1>2, <3>3, <4>3
      <3> QED BY <1>2, <3>2, <3>3
    <2>4. \A i, j \in DOMAIN rest : rest[i] \in Status /\ rest[j] \in Status => i = j
      <3>1. ASSUME NEW i \in DOMAIN rest, NEW j \in DOMAIN rest, rest[i] \in Status, rest[j] \in Status
            PROVE  i = j
        <4>1. i + 1 = j + 1
          BY <1>2, <3>1 DEF Fits
        <4> QED BY <1>7, <4>1
      <3> QED BY <3>1
    <2>5. \A i \in DOMAIN rest : rest[i] \in Status => rest[i] \in Lifecycle[status]
      BY <1>2 DEF Fits
    <2>6. Fits(x)'
      BY <1>4, <1>9, <2>2, <2>3, <2>4, <2>5 DEF Fits
    <2> QED BY <1>5, <1>6, <2>2, <2>6
  <1>10. CASE /\ statement = "enqueue"
              /\ queue' = [queue EXCEPT ![x].status = "pending"]
              /\ due' = Append(due, x) /\ UNCHANGED status
    <2>1. x \in Req /\ rest = <<>> /\ job[x].op = OpOf[x]
      <3>1. 1 = Len(job[x].todo) /\ x \in Req
        BY <1>2, <1>10 DEF TaskOK
      <3>2. job[x].op = OpOf[x]
        BY <1>1, <3>1, ReqIsFinite DEF TaskOK
      <3> QED BY <1>2, <3>1, <3>2
    <2>2. \A r \in Req : r # x => queue'[r] = queue[r]
      BY <1>10, <2>1 DEF TypeOK
    <2>3. ASSUME OpOf[x] = "revoke"
          PROVE  Announced'
      <3>1. \A i \in DOMAIN job[x].todo : i = 1
        <4>1. job[x].todo \in Seq(Statement)
          BY DEF TypeOK, Task
        <4>2. Len(job[x].todo) = 1
          BY <1>2, <1>10 DEF TaskOK
        <4> QED BY <4>1, <4>2
      <3>2. (\A r \in Req : ~Noticed(r)) /\ status = "disabled_revoked"
        BY <1>2, <1>10, <2>1, <2>3, <3>1 DEF Fits
      <3>3. \A r \in Req : Noticed(r)' => r = x
        BY <2>2, <3>2 DEF Noticed, EventType
      <3> QED BY <1>10, <3>2, <3>3 DEF Announced
    <2>4. ASSUME OpOf[x] # "revoke"
          PROVE  Announced'
      <3>1. EventType(x) # "notice"
        BY <2>4 DEF EventType
      <3>2. \A r \in Req : Noticed(r)' => Noticed(r)
        BY <2>2, <3>1 DEF Noticed, EventType
      <3> QED BY <1>10, <3>2 DEF Announced
    <2>5. Fits(x)'
      BY <1>4, <2>1, NothingFits
    <2> QED BY <1>5, <1>6, <2>3, <2>4, <2>5
  <1> QED BY <1>3, <1>8, <1>9, <1>10 DEF Execute

\* The steps of a worker do what SqliteOK needs of them.
LEMMA WorkerSqlite ==
  ASSUME IInv, IInv', Serial, SqliteOK, NEW p \in Process, WorkerStep(p)
  PROVE  SqliteOK'
  <1> USE DEF IInv, SqliteOK
  <1>1. /\ MayRun(p) /\ UNCHANGED status
        /\ \A q \in Process : q # p => tick'[q] = tick[q]
        /\ \A y \in Actor : y # p => job'[y] = job[y]
        /\ job'[p] = job[p] \/ job'[p].todo = <<>>
    <2>1. CASE Tick(p)
      BY <2>1 DEF Tick, TypeOK
    <2>2. CASE EndTick(p)
      BY <2>2 DEF EndTick, AtNext, TypeOK
    <2>3. CASE SkipRow(p) \/ DropRow(p)
      BY <2>3 DEF SkipRow, DropRow, Treat, AtNext, Advance, TypeOK
    <2>4. CASE Send(p)
      BY <2>4 DEF Send, Treat, AtNext, TypeOK
    <2>5. CASE Answer(p)
      BY <2>5, Answered DEF Answer, TypeOK
    <2>6. CASE Record(p)
      BY <2>6 DEF Record, Advance, TypeOK, Actor
    <2> QED BY <2>1, <2>2, <2>3, <2>4, <2>5, <2>6 DEF WorkerStep
  <1>2. \A r \in Req : queue[r].status = "none" => queue'[r].status = "none"
    <2>1. CASE UNCHANGED queue
      BY <2>1
    <2>2. CASE DropRow(p)
      <3>1. /\ tick[p].batch # <<>> /\ Row(p).attempts \in Nat
            /\ UpdateRow(Row(p).id, "dropped", Row(p).attempts) /\ Advance(p)
        BY <2>2, RowIsFirst DEF DropRow, Treat, Claim
      <3> QED BY <3>1, UpdateKeepsRows DEF RowStatus
    <2>3. CASE Record(p)
      <3>1. /\ UpdateRow(Row(p).id, RowAfter(tick[p].outcome),
                         AttemptsAfter(tick[p].outcome, Row(p).attempts))
            /\ Advance(p)
        BY <2>3 DEF Record
      <3> QED BY <2>3, <3>1, Recorded, UpdateKeepsRows
    <2> QED BY <2>1, <2>2, <2>3 DEF WorkerStep, Tick, EndTick, SkipRow, Send, Answer
  <1>3. OneMidway'
    BY <1>1, MidwayAfter DEF Actor
  <1>4. Announced' /\ \A r \in Req : Noticed(r)' => Noticed(r)
    BY <1>1, <1>2, WorkerKeepsAnnounced
  <1>5. ASSUME NEW x \in Actor
        PROVE  Fits(x)'
    BY <1>1, <1>4, FitsKept, NothingFits
  <1> QED BY <1>3, <1>4, <1>5

\* A request that begins has planned nothing,
LEMMA BeginSqlite ==
  ASSUME IInv, Serial, SqliteOK, NEW r \in Req, Begin(r)
  PROVE  SqliteOK'
  <1> USE DEF IInv, SqliteOK
  <1>1. /\ r \in Actor /\ MayRun(r) /\ UNCHANGED <<status, queue, tick>>
        /\ \A y \in Actor : y # r => job'[y] = job[y]
        /\ job[r].at = "idle" /\ job[r] \in Task
        /\ job' = [job EXCEPT ![r] = [job[r] EXCEPT !.at = "load"]]
    BY DEF Begin, TypeOK, Actor
  <1>2. job'[r].todo = <<>>
    <2>1. job'[r].todo = job[r].todo
      BY <1>1 DEF TypeOK, Task
    <2> QED BY <1>1, <2>1 DEF TaskOK
  <1>3. OneMidway'
    BY <1>1, MidwayAfter
  <1>4. Announced' /\ \A s \in Req : Noticed(s)' => Noticed(s)
    BY <1>1, WorkerKeepsAnnounced
  <1>5. ASSUME NEW x \in Actor
        PROVE  Fits(x)'
    BY <1>1, <1>2, <1>4, FitsKept, NothingFits
  <1> QED BY <1>3, <1>4, <1>5

\* and a crash leaves nothing to write.
LEMMA CrashSqlite ==
  ASSUME IInv, Serial, SqliteOK, NEW p \in Process, Crash(p)
  PROVE  SqliteOK'
  <1> USE DEF IInv, SqliteOK
  <1>1. UNCHANGED <<status, queue>> /\ \A q \in Process : tick'[q] = tick[q] \/ tick'[q] = Idle
    BY DEF Crash, TypeOK
  <1>2. ASSUME NEW x \in Actor
        PROVE  job'[x] = job[x] \/ (job'[x].at = "done" /\ job'[x].todo = <<>>)
    <2>1. job[x] \in Task
      BY DEF TypeOK
    <2>2. CASE job'[x] = [job[x] EXCEPT !.at = "done", !.todo = <<>>]
      BY <2>1, <2>2 DEF Task
    <2> QED BY <2>2 DEF Crash
  <1>3. \A x \in Actor : Midway(x)' => Midway(x)
    BY <1>1, <1>2 DEF Midway, Idle, Actor
  <1>4. OneMidway'
    BY <1>3 DEF OneMidway
  <1>5. Announced' /\ \A r \in Req : Noticed(r)' => Noticed(r)
    BY <1>1, WorkerKeepsAnnounced
  <1>6. ASSUME NEW x \in Actor
        PROVE  Fits(x)'
    BY <1>1, <1>2, <1>5, FitsKept, NothingFits
  <1> QED BY <1>4, <1>5, <1>6

\* The invariant says nothing where others come in between: on Postgres, and
\* among several processes on one file.
OnSqlite == Serial => SqliteOK

\* Every step keeps it.
LEMMA NextSqlite == IInv /\ OnSqlite /\ [Next]_vars => OnSqlite'
  <1> SUFFICES ASSUME IInv, OnSqlite, [Next]_vars, Serial'
      PROVE  SqliteOK'
    BY DEF OnSqlite
  <1>1. scenario' = scenario
    BY DEF Next, vars, WorkerStep, Load, Write, Begin, BackoffElapses, Tick, EndTick, SkipRow,
           DropRow, Send, Answer, Record, Crash
  <1>2. Serial /\ SqliteOK
    BY <1>1 DEF OnSqlite, Serial
  <1>3. CASE UNCHANGED vars
    BY <1>2, <1>3 DEF vars, SqliteOK, OneMidway, Midway, Fits, Announced, Noticed, EventType
  <1>4. CASE \E x \in Actor : Load(x) \/ Write(x)
    BY <1>2, <1>4, LoadSqlite, WriteSqlite
  <1>5. CASE \E r \in Req : Begin(r)
    BY <1>2, <1>5, BeginSqlite
  <1>6. CASE \E r \in Req : BackoffElapses(r)
    BY <1>2, <1>6 DEF BackoffElapses, SqliteOK, OneMidway, Midway, Fits, Announced, Noticed, EventType
  <1>7. CASE \E p \in Process : WorkerStep(p) \/ Crash(p)
    BY <1>2, <1>7, NextIInv, WorkerSqlite, CrashSqlite
  <1> QED BY <1>3, <1>4, <1>5, <1>6, <1>7 DEF Next

\* So it holds throughout.
LEMMA SqliteHolds == Spec => []OnSqlite
  <1>1. Init => OnSqlite
    BY InitSqlite DEF OnSqlite
  <1> QED BY <1>1, NextSqlite, InvariantHolds, PTL DEF Spec

\* With one process on SQLite at most one revocation is announced, and only of a
\* subscription that is revoked or deleted by then, with any number of
\* revocations, and crashes between their statements.
THEOREM NoticesFollowRevocation ==
  ASSUME NEW p, Process = {p}
  PROVE  Spec => []NoticeMeansRevoked
  <1>1. OnSqlite => NoticeMeansRevoked
    <2> SUFFICES ASSUME scenario.backend = "sqlite", SqliteOK
        PROVE  LET notices == {r \in Req : EventType(r) = "notice" /\ queue[r].status # "none"}
               IN  /\ Cardinality(notices) <= 1
                   /\ notices # {} => status \in {"disabled_revoked", "deleted"}
      BY DEF OnSqlite, Serial, NoticeMeansRevoked
    <2> DEFINE notices == {r \in Req : EventType(r) = "notice" /\ queue[r].status # "none"}
    <2> SUFFICES /\ Cardinality(notices) <= 1
                 /\ notices # {} => status \in {"disabled_revoked", "deleted"}
      OBVIOUS
    <2>1. \A r \in notices : r \in Req /\ Noticed(r)
      BY DEF Noticed
    <2> HIDE DEF notices
    <2>2. CASE notices = {}
      BY <2>2, FS_EmptySet
    <2>3. CASE notices # {}
      <3>1. PICK r \in notices : TRUE
        BY <2>3
      <3>2. notices = {r}
        BY <2>1, <3>1 DEF SqliteOK, Announced
      <3>3. Cardinality(notices) = 1
        BY <3>2, FS_Singleton
      <3> QED BY <2>1, <3>1, <3>3 DEF SqliteOK, Announced
    <2> QED BY <2>2, <2>3
  <1> QED BY <1>1, SqliteHolds, PTL

\* With one process on SQLite a subscription keeps to its lifecycle: what an
\* operation or a worker's follow-up decided by is still so when it writes.
THEOREM SqliteKeepsLifecycle ==
  ASSUME NEW p, Process = {p}
  PROVE  Spec => SqliteRespectsLifecycle
  <1>1. IInv /\ OnSqlite /\ [Next]_vars => [scenario.backend = "sqlite" => KeepsLifecycle]_vars
    <2> SUFFICES ASSUME IInv, OnSqlite, Next, scenario.backend = "sqlite"
        PROVE  KeepsLifecycle
      OBVIOUS
    <2>1. CASE \E x \in Actor : Write(x)
      BY <2>1, WriteFits DEF OnSqlite, Serial
    <2>2. CASE UNCHANGED status
      BY <2>2 DEF KeepsLifecycle
    <2> QED BY <2>1, <2>2 DEF Next, WorkerStep, Load, Begin, BackoffElapses, Tick, EndTick, SkipRow,
           DropRow, Send, Answer, Record, Crash
  <1> QED BY <1>1, InvariantHolds, SqliteHolds, PTL DEF Spec, SqliteRespectsLifecycle
=============================================================================
