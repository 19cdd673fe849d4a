--------------------------- MODULE CollectorDrain ---------------------------
(***************************************************************************)
(* How collector processes drain the outbox                                *)
(* (packages/collector-runtime/src/collector-runner.ts). Every drain is a  *)
(* holder of LocalDeviceOutbox; its steps are that module's statements, in *)
(* the order the drain loop sends them, with the send in between.          *)
(*                                                                         *)
(* The scan is an environment that enqueues rows at any time. The server   *)
(* is the set of rows it has accepted: DeviceIngest looks inside.          *)
(***************************************************************************)
EXTENDS LocalDeviceOutbox

CONSTANTS
    DrainBatchSize, \* rows claimed at a time
    MaxAttempts,    \* failed attempts after which a row dead-letters
    Outcomes,       \* what a send may come to, besides an acknowledgement
    MaxFaults       \* bound: failed sends, crashes and leases lost, in all

ASSUME PolicyIsNat == DrainBatchSize \in Nat \ {0} /\ MaxAttempts \in Nat \ {0} /\ MaxFaults \in Nat
ASSUME OutcomesType == Outcomes \subseteq {"transient", "counted", "terminal"}

VARIABLES
    pc,             \* where each drain is
    accepted,       \* rows whose effect the server has
    refused,        \* rows that have failed in a way that is not retryable, for EveryRowDelivered
    faults          \* failed sends, crashes and leases lost so far

drainVars == <<pc, accepted, refused, faults>>
allVars == <<vars, drainVars>>

DrainInit ==
    /\ Init
    /\ pc = [d \in Holder |-> "off"]
    /\ accepted = {}
    /\ refused = {}
    /\ faults = 0

Goto(d, from, to) == pc[d] = from /\ pc' = [pc EXCEPT ![d] = to]
Fault == faults < MaxFaults /\ faults' = faults + 1
-----------------------------------------------------------------------------
\* The scan of some run puts a row into the outbox.
Scan(x) ==
    /\ Enqueue(x)
    /\ UNCHANGED drainVars

\* runCollectorConnector begins: dead letters whose last_error reads like a
\* transient failure are put back, then expired leases are recovered.
StartRun(d) ==
    /\ Goto(d, "off", "recover")
    /\ \E S \in SUBSET Requeueable : RequeueDeadLetters(S)
    /\ UNCHANGED <<accepted, refused, faults>>

RecoverLeases(d) ==
    /\ Goto(d, "recover", "first")
    /\ RecoverExpiredLeases
    /\ UNCHANGED <<accepted, refused, faults>>

\* peekReady
DueRows == ReadyRows({}, Cardinality(Id))
IsHead(x) == x \in DueRows /\ \A y \in DueRows : OrderOf(x) <= OrderOf(y)

\* Mutant: a dead-lettered predecessor no longer holds a commit back.
ClaimablePastDeadLetters(x) ==
    /\ IsHead(x)
    /\ KindOf[x] \in CommitKind
         => \A y \in InStatus({"ready", "leased"}) :
                KindOf[y] \in {"record_batch", "gap"} => OrderOf(x) < OrderOf(y)

\* claimableReadyOutboxItem: only the head of the queue is looked at, and a
\* commit is held back by what was enqueued before it.
Claimable(x) ==
    /\ IsHead(x)
    /\ KindOf[x] \in CommitKind => ~HasNonSucceededPredecessor(OrderOf(x), {"record_batch", "gap"})

\* claimReadyOutboxItems, up to the call of claimReady. The first iteration of
\* a drain is always within budget.
Peek(d) ==
    /\ pc[d] \in {"first", "loop"}
    /\ \/ \E x \in Id : /\ Claimable(x)
                        /\ pc' = [pc EXCEPT ![d] = IF KindOf[x] \in CommitKind
                                                   THEN "claimCommit" ELSE "claimBatch"]
       \/ /\ \A x \in Id : ~Claimable(x)
          /\ pc' = [pc EXCEPT ![d] = "empty"]
    /\ UNCHANGED <<vars, accepted, refused, faults>>

\* The call of claimReady: a commit alone, or a batch without commits.
Claim(d) ==
    /\ \/ Goto(d, "claimCommit", "update") /\ SelectReady(d, {}, 1)
       \/ Goto(d, "claimBatch", "update") /\ SelectReady(d, CommitKind, DrainBatchSize)
    /\ UNCHANGED <<accepted, refused, faults>>

First(S) == {t \in S : \A u \in S : t.order <= u.order}

Update(d) ==
    /\ pc[d] = "update"
    /\ \E c \in First(candidates[d]) : ClaimRow(d, c)
    /\ UNCHANGED drainVars

Claimed(d) ==
    /\ candidates[d] = {}
    /\ Goto(d, "update", IF claims[d] = {} THEN "empty" ELSE "work")
    /\ UNCHANGED <<vars, accepted, refused, faults>>

\* resolveEmptyClaimOutcome asks nextRetryTime first: a row that backs off is
\* waited for, and the loop starts over when it comes due.
Backoffs == {x \in InStatus({"ready"}) : rows[x].retry = "waiting"}

NextRetry(d) ==
    /\ Goto(d, "empty", IF Backoffs = {} THEN "recheck" ELSE "loop")
    /\ UNCHANGED <<vars, accepted, refused, faults>>

\* Mutant: nothing waits, so the drain ends without looking again.
ExitWithoutRecheck(d) ==
    /\ Goto(d, "recheck", "off")
    /\ UNCHANGED <<vars, accepted, refused, faults>>

\* With nothing to wait for it looks at the head again, by a later clock.
Recheck(d) ==
    /\ Goto(d, "recheck", IF \E x \in Id : Claimable(x) THEN "loop" ELSE "off")
    /\ UNCHANGED <<vars, accepted, refused, faults>>

\* The iteration or the duration budget is spent: at the top of the loop, or
\* because the next retry lies beyond it.
BudgetSpent(d) ==
    /\ \/ Goto(d, "loop", "off")
       \/ Backoffs # {} /\ Goto(d, "empty", "off")
    /\ UNCHANGED <<vars, accepted, refused, faults>>
-----------------------------------------------------------------------------
\* drainClaimedOutboxItem works off the claimed rows in insert order.
Current(d) == First(claims[d])

BatchDone(d) ==
    /\ claims[d] = {}
    /\ Goto(d, "work", "loop")
    /\ UNCHANGED <<vars, accepted, refused, faults>>

Renew(d) ==
    /\ Goto(d, "work", "send")
    /\ \E t \in Current(d) : RenewLease(d, t)
    /\ UNCHANGED <<accepted, refused, faults>>

\* sendOutboxItem reaches the server, which takes the row in.
Accept(d) ==
    /\ Goto(d, "send", "accepted")
    /\ accepted' = accepted \cup {t.id : t \in Current(d)}
    /\ UNCHANGED <<vars, refused, faults>>

Response(d) ==
    /\ Goto(d, "accepted", "ack")
    /\ UNCHANGED <<vars, accepted, refused, faults>>

\* Mutant: a timeout is taken for an answer.
AckOnTimeout(d) ==
    /\ Fault
    /\ pc[d] \in {"send", "accepted"}
    /\ \E o \in Outcomes : pc' = [pc EXCEPT ![d] = IF o = "transient" THEN "ack" ELSE o]
    /\ UNCHANGED <<vars, accepted, refused>>

\* The send throws: a request fails or is refused before the server acts, or its
\* answer is lost. The outcome is how classifyLocalDeviceFailure and the tests of
\* failOutboxItem sort the error; a receipt that does not match is terminal for
\* a terminal commit.
SendFails(d) ==
    /\ Fault
    /\ \E o \in Outcomes :
           \/ Goto(d, "send", o)
           \/ /\ Goto(d, "accepted", o)
              /\ o = "terminal" =>
                     \A t \in Current(d) : KindOf[t.id] = "terminal_run_commit"
    /\ UNCHANGED <<vars, accepted, refused>>

Ack(d) ==
    /\ Goto(d, "ack", "work")
    /\ \E t \in Current(d) : Acknowledge(d, t)
    /\ UNCHANGED <<accepted, refused, faults>>

\* Mutant: transient failures use up the attempts, too.
RetryWithinAttempts(d) ==
    /\ Goto(d, "transient", "work")
    /\ \E t \in Current(d) : IF rows[t.id].attempts + 1 >= MaxAttempts
                              THEN DeadLetter(d, t)
                              ELSE FailRetryable(d, t)
    /\ UNCHANGED <<accepted, refused, faults>>

\* failOutboxItem, an explicitly transient error: never exhausts attempts.
Retry(d) ==
    /\ Goto(d, "transient", "work")
    /\ \E t \in Current(d) : FailRetryable(d, t)
    /\ UNCHANGED <<accepted, refused, faults>>

\* failOutboxItem, any other error that is worth a retry.
Count(d) ==
    /\ Goto(d, "counted", "work")
    /\ \E t \in Current(d) :
           /\ refused' = refused \cup {t.id}
           /\ IF rows[t.id].attempts + 1 >= MaxAttempts
              THEN DeadLetter(d, t)
              ELSE FailRetryable(d, t)
    /\ UNCHANGED <<accepted, faults>>

\* failOutboxItem, an error no retry can mend.
GiveUp(d) ==
    /\ Goto(d, "terminal", "work")
    /\ \E t \in Current(d) : DeadLetter(d, t) /\ refused' = refused \cup {t.id}
    /\ UNCHANGED <<accepted, faults>>

\* renewLease, acknowledge, or the transition of failOutboxItem throws "lease
\* not current": the row is left to whoever has it now.
LeaseLost(d) ==
    /\ pc[d] \in {"work", "ack", "transient", "counted", "terminal"}
    /\ pc' = [pc EXCEPT ![d] = "work"]
    /\ \E t \in Current(d) : LeaseNotCurrent(d, t)
    /\ UNCHANGED <<accepted, refused, faults>>

\* The process is aborted or crashes.
Crash(d) ==
    /\ Fault
    /\ pc[d] # "off"
    /\ pc' = [pc EXCEPT ![d] = "off"]
    /\ candidates' = [candidates EXCEPT ![d] = {}]
    /\ claims' = [claims EXCEPT ![d] = {}]
    /\ UNCHANGED <<rows, superseded, doomed, accepted, refused>>
-----------------------------------------------------------------------------
\* A lease runs out: for nobody, when its holder is gone, or under a holder
\* that is too slow.
Orphaned(x) == \A t \in claims[rows[x].holder] : t.id # x

LeaseRunsOut(x) ==
    /\ LeaseExpires(x)
    /\ IF Orphaned(x) THEN UNCHANGED faults ELSE Fault
    /\ UNCHANGED <<pc, accepted, refused>>

RetryComesDue(x) ==
    /\ BackoffElapses(x)
    /\ UNCHANGED drainVars

Step(d) ==
    \/ RecoverLeases(d) \/ Peek(d) \/ Claim(d) \/ Update(d) \/ Claimed(d)
    \/ NextRetry(d) \/ Recheck(d) \/ BatchDone(d) \/ Renew(d) \/ Response(d)
    \/ Ack(d) \/ Retry(d) \/ Count(d) \/ GiveUp(d) \/ LeaseLost(d)

DrainNext ==
    \/ \E x \in Id : Scan(x) \/ LeaseRunsOut(x) \/ RetryComesDue(x)
    \/ \E d \in Holder : \/ StartRun(d) \/ Step(d) \/ BudgetSpent(d)
                         \/ Accept(d) \/ SendFails(d) \/ Crash(d)

DrainSpec == DrainInit /\ [][DrainNext]_allVars

\* Runs are started again and again by the machine's timer; a process that has
\* started takes its steps; the server or the network answers; clocks advance.
Fairness ==
    /\ \A d \in Holder : /\ WF_allVars(StartRun(d))
                         /\ WF_allVars(Step(d))
                         /\ WF_allVars(Accept(d) \/ SendFails(d))
    /\ \A x \in Id : /\ WF_allVars(LeaseRunsOut(x) /\ Orphaned(x))
                     /\ WF_allVars(RetryComesDue(x))

FairDrainSpec == DrainSpec /\ Fairness
-----------------------------------------------------------------------------
Point == {"off", "recover", "first", "loop", "claimCommit", "claimBatch", "update", "empty",
          "recheck", "work", "send", "accepted", "ack", "transient", "counted", "terminal"}

\* Every variable has its type, and a drain holds leases or candidates only at
\* the points of the loop where the code has them.
DrainTypeOK ==
    /\ TypeOK
    /\ pc \in [Holder -> Point]
    /\ accepted \subseteq Id
    /\ refused \subseteq Id
    /\ faults \in 0..MaxFaults
    /\ \A d \in Holder :
           /\ candidates[d] # {} => pc[d] = "update"
           /\ claims[d] # {} => pc[d] \in {"update", "work", "send", "accepted", "ack",
                                           "transient", "counted", "terminal"}
           /\ pc[d] \in {"send", "accepted", "ack", "transient", "counted", "terminal"}
                  => claims[d] # {}

\* A row counts as delivered only if the server has it: no timeout, lost lease
\* or crash turns an unanswered send into a success.
AckedWasAccepted == InStatus({"succeeded"}) \subseteq accepted

\* The server takes in a checkpoint or terminal commit only after every record
\* batch and gap enqueued before it has been acknowledged, so that the cursor
\* never passes undelivered records.
CommitNeverOvertakes ==
    \A c \in accepted \cap Stored :
        KindOf[c] \in CommitKind
          => ~HasNonSucceededPredecessor(OrderOf(c), {"record_batch", "gap"})

\* A drain that ends of its own accord has nothing left to do: every row still
\* ready stands behind a commit that an undelivered predecessor holds back.
\* It looks at the clock three times on the way out, and a backoff may elapse
\* between any two.
HeldBack(c) ==
    /\ c \in InStatus({"ready"})
    /\ KindOf[c] \in CommitKind
    /\ HasNonSucceededPredecessor(OrderOf(c), {"record_batch", "gap"})

EndsWithNothingToDo ==
    [][\A d \in Holder :
          pc[d] = "recheck" /\ pc'[d] = "off" /\ faults' = faults
            => \A x \in InStatus({"ready"}) :
                   \E c \in Id : HeldBack(c) /\ OrderOf(c) <= OrderOf(x)]_allVars

\* A failure the server calls retryable never dead-letters a row by itself, and
\* an outage that ends costs no row: as long as failures are retryable, answers
\* are lost, processes crash and leases run out, every row is delivered in the
\* end, since a row is enqueued once; only another failure may keep rows back.
EveryRowDelivered ==
    <>[](refused # {} \/ \A x \in Id : rows[x].status \in {"absent", "succeeded"})
=============================================================================
