------------------------ MODULE ClientEventDelivery ------------------------
(***************************************************************************)
(* One client event subscription, the queue of its events, and the         *)
(* workers that deliver them (reference-implementation/server/client-      *)
(* event-delivery-worker.ts with operations/as-client-event-subscriptions, *)
(* operations/rs-client-event-deliver and the subscription store).         *)
(*                                                                         *)
(* An operation loads the subscription, decides, and then writes, one      *)
(* statement after another. On Postgres every statement is awaited, and    *)
(* the statements of others come in between. On SQLite the statements are  *)
(* synchronous: one operation, or one stretch of the worker between two    *)
(* requests, runs through before anybody else in its process does. Those   *)
(* of another process on the same file come in between all the same.       *)
(*                                                                         *)
(* A request is one call that may write: it has one operation, runs in one *)
(* process, happens at most once, and enqueues at most one event, which    *)
(* has its name. Time is not counted: a backoff may elapse at any moment.  *)
(***************************************************************************)
EXTENDS Naturals, FiniteSets, SequencesExt

CONSTANTS
    Scenario,       \* what the server is started with and sent, one of these
    Process,        \* server processes; each runs one delivery worker
    OpOf,           \* the operation of each request
    HomeOf,         \* the process it runs in
    ClaimLimit,     \* rows of one claim
    MaxAttempts     \* length of the backoff table

\* Requests, and the events they enqueue
Req == UNION {s.requests : s \in Scenario}

ClientOp == {"create", "enable", "disable", "delete", "test"}
Op == ClientOp \cup {"operatorDisable", "change", "revoke"}

ASSUME ReqIsFinite == IsFiniteSet(Req) /\ Req \cap Process = {}
ASSUME OpOfType == OpOf \in [Req -> Op] /\ HomeOf \in [Req -> Process]
ASSUME LimitsArePositive == ClaimLimit \in Nat \ {0} /\ MaxAttempts \in Nat \ {0}

\* A scenario bounds the answers that are not a success, and the crashes.
ASSUME ScenarioType ==
    \A s \in Scenario : /\ s.backend \in {"sqlite", "postgres"}
                        /\ s.faults \in Nat /\ s.crashes \in Nat

VARIABLES
    scenario,
    status,         \* client_event_subscriptions.status, "none" before it exists
    revoked,        \* the grant is revoked
    queue,          \* client_event_queue: a row for each event
    due,            \* pending rows whose next_attempt_at has passed, in its order
    job,            \* the operation of each request, and each worker's follow-up
    tick,           \* the tick of each worker
    acks,           \* how often the receiver answered 2xx, for each event
    echoed,         \* the receiver has returned the challenge
    faults, crashes

vars == <<scenario, status, revoked, queue, due, job, tick, acks, echoed, faults, crashes>>
-----------------------------------------------------------------------------
Live == {"pending_verification", "active"}
Status == Live \cup {"none", "disabled", "disabled_failure", "disabled_revoked", "deleted"}
RowStatus == {"none", "pending", "delivered", "final_failure", "dropped", "gone"}
Actor == Req \cup Process

\* The type of the event a request enqueues.
EventType(r) ==
    CASE OpOf[r] = "create" -> "verify"
      [] OpOf[r] = "revoke" -> "notice"
      [] OTHER -> "record"

Idle == [at |-> "idle", batch |-> <<>>, seen |-> "none", outcome |-> "none"]
Finished == [op |-> "none", at |-> "done", todo |-> <<>>]

QueueRow == [status : RowStatus, attempts : Nat]
Claim == [id : Req, attempts : Nat]
Statement == Status \cup {"drop", "enqueue"}
Task == [op : Op \cup {"none", "verified", "failed"},
         at : {"idle", "load", "write", "done"}, todo : Seq(Statement)]
Turn == [at : {"idle", "next", "request", "answered"}, batch : Seq(Claim), seen : Status,
         outcome : {"none", "delivered", "verified", "retry", "throttle",
                    "permanent_failure", "final_failure"}]

TypeOK ==
    /\ scenario \in Scenario
    /\ status \in Status
    /\ revoked \in BOOLEAN /\ echoed \in BOOLEAN
    /\ queue \in [Req -> QueueRow]
    /\ due \in Seq(Req)
    /\ job \in [Actor -> Task]
    /\ tick \in [Process -> Turn]
    /\ acks \in [Req -> Nat]
    /\ faults \in Nat /\ crashes \in Nat

Init ==
    /\ scenario \in Scenario
    /\ status = "none"
    /\ revoked = FALSE
    /\ queue = [r \in Req |-> [status |-> "none", attempts |-> 0]]
    /\ due = <<>>
    /\ job = [x \in Actor |-> IF x \in scenario.requests
                              THEN [op |-> OpOf[x], at |-> "idle", todo |-> <<>>]
                              ELSE Finished]
    /\ tick = [p \in Process |-> Idle]
    /\ acks = [r \in Req |-> 0]
    /\ echoed = FALSE
    /\ faults = 0
    /\ crashes = 0
-----------------------------------------------------------------------------
\* Between two statements of an operation, or of a worker's stretch.
Midway(x) ==
    \/ job[x].at = "write"
    \/ x \in Process /\ (tick[x].at \in {"next", "answered"} \/ job[x].at = "load")

RunsIn(x) == IF x \in Process THEN x ELSE HomeOf[x]

MayRun(x) ==
    \/ scenario.backend = "postgres"
    \/ \A y \in Actor \ {x} : RunsIn(y) = RunsIn(x) => ~Midway(y)

\* Mutant: enabling takes any subscription that is not active.
AdmitsEnablingAny(op) ==
    CASE op = "create"   -> {"none"}
      [] op = "enable"   -> Status \ {"none", "deleted", "active"}
      [] op = "change"   -> {"active"}
      [] op = "verified" -> {"pending_verification"}
      [] op = "delete"   -> Status \ {"none", "deleted"}
      [] op = "revoke"   -> Status \ {"none", "deleted", "disabled_revoked"}
      [] OTHER           -> Live

\* What a loaded status must be for an operation to write at all.
Admits(op) ==
    CASE op = "create"   -> {"none"}
      [] op = "enable"   -> {"disabled", "disabled_failure"}
      [] op = "change"   -> {"active"}
      [] op = "verified" -> {"pending_verification"}
      [] op = "delete"   -> Status \ {"none", "deleted"}
      [] op = "revoke"   -> Status \ {"none", "deleted", "disabled_revoked"}
      [] OTHER           -> Live    \* disable, operatorDisable, test, failed

\* Mutant: a revocation is announced before it takes effect.
PlanNotifyingFirst(op, seen) ==
    CASE op = "create" -> <<"pending_verification", "enqueue">>
      [] op = "verified" /\ seen = "pending_verification" -> <<"active">>
      [] op = "revoke" /\ seen = "active" -> <<"drop", "enqueue", "disabled_revoked">>
      [] OTHER -> <<>>

\* The statements of an operation that has loaded the status seen.
Plan(op, seen) ==
    IF seen \notin Admits(op) THEN <<>>
    ELSE CASE op = "create"             -> <<"pending_verification", "enqueue">>
           [] op \in {"enable", "verified"} -> <<"active">>
           [] op = "disable"            -> <<"disabled">>
           [] op = "operatorDisable"    -> <<"disabled", "drop">>
           [] op = "delete"             -> <<"deleted", "drop">>
           [] op = "failed"             -> <<"disabled_failure", "drop">>
           [] op \in {"test", "change"} -> <<"enqueue">>
           [] op = "revoke"             ->
                  <<"drop", "disabled_revoked">>
                  \o (IF seen = "active" THEN <<"enqueue">> ELSE <<>>)

\* A request passes its authorization; a revocation marks the grant first.
Begin(r) ==
    /\ job[r].at = "idle"
    /\ OpOf[r] \in ClientOp => ~revoked
    /\ MayRun(r)
    /\ job' = [job EXCEPT ![r].at = "load"]
    /\ revoked' = (revoked \/ OpOf[r] = "revoke")
    /\ UNCHANGED <<scenario, status, queue, due, tick, acks, echoed, faults, crashes>>

GoOnWith(x, todo) ==
    job' = [job EXCEPT ![x].todo = todo, ![x].at = IF todo = <<>> THEN "done" ELSE "write"]

Load(x) ==
    /\ job[x].at = "load"
    /\ MayRun(x)
    /\ GoOnWith(x, Plan(job[x].op, status))
    /\ UNCHANGED <<scenario, status, revoked, queue, due, tick, acks, echoed, faults, crashes>>

\* dropQueuedForSubscription: SQLite deletes the rows, Postgres marks them.
Dropped(row) ==
    IF row.status # "pending" THEN row
    ELSE [row EXCEPT !.status = IF scenario.backend = "sqlite" THEN "gone" ELSE "dropped"]

Execute(x, statement) ==
    \/ /\ statement \in Status
       /\ status' = statement
       /\ UNCHANGED <<queue, due>>
    \/ /\ statement = "drop"
       /\ queue' = [r \in Req |-> Dropped(queue[r])]
       /\ due' = <<>>
       /\ UNCHANGED status
    \/ /\ statement = "enqueue"
       /\ queue' = [queue EXCEPT ![x].status = "pending"]
       /\ due' = Append(due, x)
       /\ UNCHANGED status

Write(x) ==
    /\ job[x].at = "write"
    /\ MayRun(x)
    /\ Execute(x, Head(job[x].todo))
    /\ GoOnWith(x, Tail(job[x].todo))
    /\ UNCHANGED <<scenario, revoked, tick, acks, echoed, faults, crashes>>
-----------------------------------------------------------------------------
AtNext(p) == tick[p].at = "next" /\ job[p].at = "done" /\ MayRun(p)

\* tickInternal, and claimDueQueue with the subscription's status.
Tick(p) ==
    /\ tick[p].at = "idle"
    /\ due # <<>>
    /\ MayRun(p)
    /\ LET n == IF Len(due) < ClaimLimit THEN Len(due) ELSE ClaimLimit
       IN  tick' = [tick EXCEPT ![p] =
                       [at |-> "next", seen |-> status, outcome |-> "none",
                        batch |-> [i \in 1..n |->
                            [id |-> due[i], attempts |-> queue[due[i]].attempts]]]]
    /\ UNCHANGED <<scenario, status, revoked, queue, due, job, acks, echoed, faults, crashes>>

\* Mutant: verification has to wait for the subscription to be active.
DispositionActiveOnly(seen, type) ==
    CASE seen = "active" -> "deliver"
      [] seen = "pending_verification" -> "skip"
      [] OTHER -> "drop"

\* Mutant: the rows of a disabled subscription are kept for later.
DispositionKeeping(seen, type) ==
    CASE seen = "active" \/ type = "verify" -> "deliver"
      [] seen = "disabled_revoked" /\ type = "notice" -> "deliver"
      [] seen \in {"deleted", "disabled_revoked"} -> "drop"
      [] OTHER -> "skip"

\* classifyRow
Disposition(seen, type) ==
    CASE seen = "active" -> "deliver"
      [] seen = "pending_verification" /\ type # "verify" -> "skip"
      [] seen \in {"pending_verification", "disabled", "disabled_failure"} /\ type = "verify" -> "deliver"
      [] seen = "disabled_revoked" /\ type = "notice" -> "deliver"
      [] OTHER -> "drop"

Row(p) == Head(tick[p].batch)
Advance(p) == tick' = [tick EXCEPT ![p].batch = Tail(@), ![p].at = "next", ![p].outcome = "none"]

\* updateQueueAttempt, of a row that need no longer be there or pending.
UpdateRow(id, to, attempts) ==
    /\ queue' = IF queue[id].status = "gone" THEN queue
                ELSE [queue EXCEPT ![id] = [status |-> to, attempts |-> attempts]]
    /\ due' = RemoveFirst(due, id)

EndTick(p) ==
    /\ AtNext(p)
    /\ tick[p].batch = <<>>
    /\ tick' = [tick EXCEPT ![p] = Idle]
    /\ UNCHANGED <<scenario, status, revoked, queue, due, job, acks, echoed, faults, crashes>>

Treat(p, disposition) ==
    /\ AtNext(p)
    /\ tick[p].batch # <<>>
    /\ Disposition(tick[p].seen, EventType(Row(p).id)) = disposition

SkipRow(p) ==
    /\ Treat(p, "skip")
    /\ Advance(p)
    /\ UNCHANGED <<scenario, status, revoked, queue, due, job, acks, echoed, faults, crashes>>

DropRow(p) ==
    /\ Treat(p, "drop")
    /\ UpdateRow(Row(p).id, "dropped", Row(p).attempts)
    /\ Advance(p)
    /\ UNCHANGED <<scenario, status, revoked, job, acks, echoed, faults, crashes>>

Send(p) ==
    /\ Treat(p, "deliver")
    /\ tick' = [tick EXCEPT ![p].at = "request"]
    /\ UNCHANGED <<scenario, status, revoked, queue, due, job, acks, echoed, faults, crashes>>

\* The receiver takes the event, and returns the challenge if it is one.
Accepted(p) ==
    LET id == Row(p).id
    IN  /\ acks' = [acks EXCEPT ![id] = @ + 1]
        /\ echoed' = (echoed \/ EventType(id) = "verify")
        /\ tick' = [tick EXCEPT ![p].at = "answered",
                                ![p].outcome = IF EventType(id) = "verify" THEN "verified" ELSE "delivered"]
        /\ UNCHANGED faults

\* Mutant: one attempt more than the backoff table has entries.
IsLastAttemptOffByOne(n) == n >= MaxAttempts

IsLastAttempt(n) == n + 1 >= MaxAttempts

\* executeDelivery for every other answer, and for none: 410, then 429, 502
\* and 504, then the rest.
Refused(p) ==
    /\ faults < scenario.faults
    /\ faults' = faults + 1
    /\ \E outcome \in {"permanent_failure", "throttle",
                       IF IsLastAttempt(Row(p).attempts) THEN "final_failure" ELSE "retry"} :
           tick' = [tick EXCEPT ![p].at = "answered", ![p].outcome = outcome]
    /\ UNCHANGED <<acks, echoed>>

Answer(p) ==
    /\ tick[p].at = "request"
    /\ MayRun(p)
    /\ Accepted(p) \/ Refused(p)
    /\ UNCHANGED <<scenario, status, revoked, queue, due, job, crashes>>

\* Mutant: a verification is not taken for a success of its row.
RowAfterForRecords(outcome) ==
    CASE outcome = "delivered" -> "delivered"
      [] outcome \in {"permanent_failure", "final_failure"} -> "final_failure"
      [] OTHER -> "pending"

\* The row's status after an outcome, and the attempts it then has.
RowAfter(outcome) ==
    CASE outcome \in {"delivered", "verified"} -> "delivered"
      [] outcome \in {"retry", "throttle"} -> "pending"
      [] OTHER -> "final_failure"

AttemptsAfter(outcome, n) == IF outcome \in {"throttle", "permanent_failure"} THEN n ELSE n + 1

\* Mutant: the follow-up of a verification is forgotten.
RecordWithoutFollowUp(p) ==
    /\ tick[p].at = "answered"
    /\ UpdateRow(Row(p).id, RowAfter(tick[p].outcome), AttemptsAfter(tick[p].outcome, Row(p).attempts))
    /\ Advance(p)
    /\ UNCHANGED <<scenario, status, revoked, job, acks, echoed, faults, crashes>>

\* The rest of processOne: the queue row, and then the subscription by an
\* operation that loads it anew.
Record(p) ==
    LET outcome == tick[p].outcome
        FollowUp(op) == job' = [job EXCEPT ![p] = [op |-> op, at |-> "load", todo |-> <<>>]]
    IN  /\ tick[p].at = "answered"
        /\ MayRun(p)
        /\ UpdateRow(Row(p).id, RowAfter(outcome), AttemptsAfter(outcome, Row(p).attempts))
        /\ Advance(p)
        /\ \/ outcome = "verified" /\ FollowUp("verified")
           \/ RowAfter(outcome) = "final_failure" /\ FollowUp("failed")
           \/ outcome \in {"delivered", "retry", "throttle"} /\ UNCHANGED job
        /\ UNCHANGED <<scenario, status, revoked, acks, echoed, faults, crashes>>
-----------------------------------------------------------------------------
\* The next attempt of a row that was put off comes due.
BackoffElapses(r) ==
    /\ queue[r].status = "pending"
    /\ r \notin ToSet(due)
    /\ due' = Append(due, r)
    /\ UNCHANGED <<scenario, status, revoked, queue, job, tick, acks, echoed, faults, crashes>>

\* A process stops; nothing it was about to do is done.
Crash(p) ==
    /\ crashes < scenario.crashes
    /\ crashes' = crashes + 1
    /\ tick' = [tick EXCEPT ![p] = Idle]
    /\ job' = [x \in Actor |->
                  IF x = p \/ (x \in Req /\ HomeOf[x] = p /\ job[x].at # "idle")
                  THEN [job[x] EXCEPT !.at = "done", !.todo = <<>>] ELSE job[x]]
    /\ UNCHANGED <<scenario, status, revoked, queue, due, acks, echoed, faults>>

WorkerStep(p) ==
    Tick(p) \/ EndTick(p) \/ SkipRow(p) \/ DropRow(p) \/ Send(p) \/ Answer(p) \/ Record(p)

Next ==
    \/ \E x \in Actor : Load(x) \/ Write(x)
    \/ \E r \in Req : Begin(r) \/ BackoffElapses(r)
    \/ \E p \in Process : WorkerStep(p) \/ Crash(p)

Spec == Init /\ [][Next]_vars

\* The timer ticks, receivers answer or time out, operations that have begun
\* go on, and backoffs end.
FairSpec ==
    /\ Spec
    /\ \A p \in Process : WF_vars(WorkerStep(p))
    /\ \A x \in Actor : WF_vars(Load(x) \/ Write(x))
    /\ \A r \in Req : WF_vars(BackoffElapses(r))
-----------------------------------------------------------------------------
\* Where a subscription may go from each status.
Lifecycle ==
    [s \in Status |->
        CASE s = "none" -> {"pending_verification"}
          [] s \in Live -> Status \ {"none", "pending_verification"}
          [] s \in {"disabled", "disabled_failure"} -> {"active", "disabled_revoked", "deleted"}
          [] s = "disabled_revoked" -> {"deleted"}
          [] s = "deleted" -> {}]

KeepsLifecycle == status' # status => status' \in Lifecycle[status]

\* A subscription keeps to its lifecycle although operations decide by a status
\* they loaded before they write: what was revoked or deleted never comes back,
\* and nothing moves on from a state another operation has already left.
LifecycleRespected == [][KeepsLifecycle]_vars

\* With one process it does on SQLite, although the process may crash between
\* any two statements.
SqliteRespectsLifecycle == [][scenario.backend = "sqlite" => KeepsLifecycle]_vars

\* On SQLite and with one process at most one revocation is announced, only of
\* a subscription that is revoked by then, whatever else was under way.
NoticeMeansRevoked ==
    LET notices == {r \in Req : EventType(r) = "notice" /\ queue[r].status # "none"}
    IN  scenario.backend = "sqlite" =>
        /\ Cardinality(notices) <= 1
        /\ notices # {} => status \in {"disabled_revoked", "deleted"}

\* With one process, an event the receiver has answered 2xx is sent again only
\* because of a crash in between, and no row waits for an attempt it has no
\* longer: no operation that drops or enqueues meanwhile makes the worker repeat
\* itself or lose count.
NoNeedlessSend ==
    \A r \in Req : /\ acks[r] <= 1 + crashes
                   /\ queue[r].status = "pending" => queue[r].attempts < MaxAttempts

\* Every event settles: a verification by being attempted until it succeeds or
\* has used up its attempts, the others too unless they wait for verification.
EveryEventSettles ==
    \A r \in Req : queue[r].status = "pending"
                   ~> \/ queue[r].status # "pending"
                      \/ status = "pending_verification" /\ EventType(r) # "verify"

\* A receiver that has returned the challenge does not stay unverified, unless
\* the process crashes before it has recorded that.
HandshakeCounts == echoed ~> status # "pending_verification" \/ crashes > 0
=============================================================================
