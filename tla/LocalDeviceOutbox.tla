------------------------- MODULE LocalDeviceOutbox -------------------------
(***************************************************************************)
(* The durable outbox of the local collector: one SQLite table shared by   *)
(* every collector process of a machine                                    *)
(* (packages/collector-runtime/src/local-device-outbox.ts).                *)
(*                                                                         *)
(* A holder is one drain of one process; its identifier is a fresh UUID.   *)
(* Each SQL statement is one step. claimReady is several statements (one   *)
(* SELECT, then one UPDATE a candidate) and so is pruneSent (SELECT, then  *)
(* DELETE): other processes run between them. A fenced UPDATE and the      *)
(* clock reading it carries are one step.                                  *)
(*                                                                         *)
(* Time is not counted. A lease is "current" until LeaseExpires, a row     *)
(* that backs off is "waiting" until BackoffElapses; both may happen at    *)
(* any moment after the statement that set them.                           *)
(***************************************************************************)
EXTENDS Naturals, FiniteSets

CONSTANTS
    Id,             \* row identifiers; an identifier is a hash of kind and content
    Holder,         \* drains
    NoHolder,       \* lease_holder IS NULL
    KindOf,         \* the kind of each identifier
    BoundaryOf,     \* connector, instance and collection boundary of a terminal commit
    AttemptCap,     \* attempt_count is counted up to here
    MaxEpoch,       \* bound: lease epochs
    MaxOrder        \* bound: insert orders (SQLite rowids)

Kind == {"record_batch", "checkpoint", "terminal_run_commit", "gap", "blob_upload"}

ASSUME IdIsFinite == IsFiniteSet(Id)
ASSUME KindOfType == KindOf \in [Id -> Kind]
ASSUME NoHolderIsNoHolder == NoHolder \notin Holder
ASSUME BoundsAreNat == AttemptCap \in Nat /\ MaxEpoch \in Nat /\ MaxOrder \in Nat

VARIABLES
    rows,           \* the table local_device_outbox, by identifier
    superseded,     \* identifiers in local_device_terminal_commit_supersessions
    candidates,     \* per holder: rows claimReady has selected and not yet updated
    claims,         \* per holder: the leases its drain loop still has to work off
    doomed          \* identifiers pruneSent has selected and not yet deleted

vars == <<rows, superseded, candidates, claims, doomed>>
-----------------------------------------------------------------------------
Status == {"absent", "ready", "leased", "succeeded", "dead_letter"}

Row == [status   : Status,
        order    : Nat,
        attempts : 0..AttemptCap,
        retry    : {"due", "waiting"},
        holder   : Holder \cup {NoHolder},
        epoch    : Nat,
        lease    : {"none", "current", "expired"}]

\* A row as claimReady's SELECT saw it, and the lease a claim handed out.
Token == [id : Id, order : Nat, epoch : Nat]

NoRow == [status |-> "absent", order |-> 0, attempts |-> 0, retry |-> "due",
          holder |-> NoHolder, epoch |-> 0, lease |-> "none"]

FreshRow(order) == [NoRow EXCEPT !.status = "ready", !.order = order]

InStatus(st) == {x \in Id : rows[x].status \in st}
Stored == InStatus(Status \ {"absent"})
OrderOf(x) == rows[x].order

\* Identifiers of S that are among the n lowest insert orders of S.
Lowest(S, n) == {x \in S : Cardinality({y \in S : OrderOf(y) < OrderOf(x)}) < n}

\* Mutant: the insert order is the number of rows, plus one.
IsNextOrderByCount(n) == n = 1 + Cardinality(Stored)

\* SQLite gives a new row the largest rowid in use, plus one.
IsNextOrder(n) ==
    /\ \A x \in Stored : OrderOf(x) < n
    /\ n = 1 \/ \E x \in Stored : OrderOf(x) + 1 = n

\* hasNonSucceededPredecessor
HasNonSucceededPredecessor(order, kinds) ==
    \E x \in InStatus({"ready", "leased", "dead_letter"}) :
        KindOf[x] \in kinds /\ OrderOf(x) < order

\* The WHERE clause every operation on a lease shares.
LeaseIsCurrent(h, t) ==
    /\ rows[t.id].status = "leased"
    /\ rows[t.id].holder = h
    /\ rows[t.id].epoch = t.epoch
    /\ rows[t.id].lease = "current"

\* Mutant: the lease ends and its holder stays.
UnleasedKeepingHolder(row) == [row EXCEPT !.lease = "none"]

Unleased(row) == [row EXCEPT !.holder = NoHolder, !.lease = "none"]
CountAttempt(n) == IF n < AttemptCap THEN n + 1 ELSE AttemptCap
-----------------------------------------------------------------------------
Init ==
    /\ rows = [x \in Id |-> NoRow]
    /\ superseded = {}
    /\ candidates = [h \in Holder |-> {}]
    /\ claims = [h \in Holder |-> {}]
    /\ doomed = {}

\* enqueue: a row that is already stored is returned as it is.
Enqueue(x) ==
    /\ rows[x].status = "absent"
    /\ \E n \in 1..MaxOrder :
           /\ IsNextOrder(n)
           /\ rows' = [rows EXCEPT ![x] = FreshRow(n)]
    /\ UNCHANGED <<superseded, candidates, claims, doomed>>

\* #selectReady
ReadyRows(excluded, limit) ==
    Lowest({x \in InStatus({"ready"}) : rows[x].retry = "due" /\ KindOf[x] \notin excluded},
           limit)

\* claimReady, its SELECT. The drain loop claims again only when it has
\* worked off what it claimed before.
SelectReady(h, excluded, limit) ==
    /\ candidates[h] = {}
    /\ claims[h] = {}
    /\ candidates' = [candidates EXCEPT ![h] =
           {[id |-> x, order |-> OrderOf(x), epoch |-> rows[x].epoch]
                : x \in ReadyRows(excluded, limit)}]
    /\ UNCHANGED <<rows, superseded, claims, doomed>>

\* claimReady, the UPDATE of one candidate: the epoch comes from the SELECT,
\* the status is tested again, nothing else is.
ClaimRow(h, c) ==
    /\ c \in candidates[h]
    /\ c.epoch < MaxEpoch
    /\ candidates' = [candidates EXCEPT ![h] = @ \ {c}]
    /\ IF rows[c.id].status = "ready"
       THEN /\ rows' = [rows EXCEPT ![c.id] = [@ EXCEPT !.status = "leased",
                                                       !.holder = h,
                                                       !.epoch = c.epoch + 1,
                                                       !.lease = "current"]]
            /\ claims' = [claims EXCEPT ![h] =
                   @ \cup {[id |-> c.id, order |-> OrderOf(c.id), epoch |-> c.epoch + 1]}]
       ELSE UNCHANGED <<rows, claims>>
    /\ UNCHANGED <<superseded, doomed>>

\* renewLease
RenewLease(h, t) ==
    /\ LeaseIsCurrent(h, t)
    /\ UNCHANGED vars

\* What acknowledge, failRetryable and deadLetter have in common: they end
\* the lease, and the holder is done with the row.
EndLease(h, t, row) ==
    /\ LeaseIsCurrent(h, t)
    /\ rows' = [rows EXCEPT ![t.id] = row]
    /\ claims' = [claims EXCEPT ![h] = @ \ {t}]
    /\ UNCHANGED <<superseded, candidates, doomed>>

Acknowledge(h, t) ==
    EndLease(h, t, [Unleased(rows[t.id]) EXCEPT !.status = "succeeded"])

FailRetryable(h, t) ==
    EndLease(h, t, [Unleased(rows[t.id]) EXCEPT !.status = "ready",
                                                !.attempts = CountAttempt(@),
                                                !.retry = "waiting"])

DeadLetter(h, t) ==
    EndLease(h, t, [Unleased(rows[t.id]) EXCEPT !.status = "dead_letter",
                                                !.attempts = CountAttempt(@)])

\* Any of the four finding the lease gone: it throws, and the drain gives
\* the row up without touching it.
LeaseNotCurrent(h, t) ==
    /\ ~LeaseIsCurrent(h, t)
    /\ claims' = [claims EXCEPT ![h] = @ \ {t}]
    /\ UNCHANGED <<rows, superseded, candidates, doomed>>

Recovered(row) == [Unleased(row) EXCEPT !.status = "ready"]

\* Mutant: lease_until is not compared with the clock.
RecoverEveryLease ==
    /\ rows' = [x \in Id |-> IF rows[x].status = "leased" THEN Recovered(rows[x]) ELSE rows[x]]
    /\ UNCHANGED <<superseded, candidates, claims, doomed>>

\* recoverExpiredLeases
RecoverExpiredLeases ==
    /\ rows' = [x \in Id |-> IF rows[x].status = "leased" /\ rows[x].lease = "expired"
                             THEN Recovered(rows[x]) ELSE rows[x]]
    /\ UNCHANGED <<superseded, candidates, claims, doomed>>

\* Mutant: terminal commits are requeued like any dead letter.
RequeueableOfAnyKind == InStatus({"dead_letter"})

\* requeueDeadLetters: deadLetterWhere keeps terminal commits out; the caller
\* narrows the rest by kind, by a limit, or by what last_error says.
Requeueable == {x \in InStatus({"dead_letter"}) : KindOf[x] # "terminal_run_commit"}

Requeued(row) ==
    [Unleased(row) EXCEPT !.status = "ready", !.attempts = 0, !.retry = "due"]

RequeueDeadLetters(S) ==
    /\ rows' = [x \in Id |-> IF x \in S \cap Requeueable THEN Requeued(rows[x]) ELSE rows[x]]
    /\ UNCHANGED <<superseded, candidates, claims, doomed>>

\* deleteSucceeded
DeleteSucceeded(x) ==
    /\ rows[x].status = "succeeded"
    /\ rows' = [rows EXCEPT ![x] = NoRow]
    /\ UNCHANGED <<superseded, candidates, claims, doomed>>

\* pruneSent, its SELECT: succeeded rows out of the `keep` newest, narrowed to
\* those older than the age window when the caller gives one.
PruneCandidates(keep, aged) ==
    {x \in InStatus({"succeeded"}) \cap aged :
        Cardinality({y \in InStatus({"succeeded"}) : OrderOf(y) > OrderOf(x)}) >= keep}

SelectPrunable(keep, aged) ==
    /\ doomed = {}
    /\ doomed' = PruneCandidates(keep, aged)
    /\ UNCHANGED <<rows, superseded, candidates, claims>>

\* Mutant: the DELETE trusts the identifiers the SELECT found.
PruneWithoutStatusTest ==
    /\ doomed # {}
    /\ rows' = [x \in Id |-> IF x \in doomed THEN NoRow ELSE rows[x]]
    /\ doomed' = {}
    /\ UNCHANGED <<superseded, candidates, claims>>

\* pruneSent, its DELETE: by identifier, and only rows that are succeeded.
PruneSent ==
    /\ doomed # {}
    /\ rows' = [x \in Id |-> IF x \in doomed /\ rows[x].status = "succeeded"
                             THEN NoRow ELSE rows[x]]
    /\ doomed' = {}
    /\ UNCHANGED <<superseded, candidates, claims>>

\* retireDeadLetteredTerminalCommits
Retirable(r) ==
    {x \in InStatus({"dead_letter"}) : /\ KindOf[x] = "terminal_run_commit"
                                       /\ BoundaryOf[x] = BoundaryOf[r]
                                       /\ OrderOf(x) < OrderOf(r)}

RetireDeadLetteredTerminalCommits(r) ==
    /\ KindOf[r] = "terminal_run_commit"
    /\ rows[r].status = "succeeded"
    /\ superseded' = superseded \cup Retirable(r)
    /\ UNCHANGED <<rows, candidates, claims, doomed>>

\* The clock passes lease_until, or next_attempt_at.
LeaseExpires(x) ==
    /\ rows[x].lease = "current"
    /\ rows' = [rows EXCEPT ![x].lease = "expired"]
    /\ UNCHANGED <<superseded, candidates, claims, doomed>>

BackoffElapses(x) ==
    /\ rows[x].retry = "waiting"
    /\ rows' = [rows EXCEPT ![x].retry = "due"]
    /\ UNCHANGED <<superseded, candidates, claims, doomed>>

\* A process ends, at its budget or by a crash. What it held in memory is
\* gone; its leases stay in the table until they expire.
Abandon(h) ==
    /\ candidates[h] \cup claims[h] # {}
    /\ candidates' = [candidates EXCEPT ![h] = {}]
    /\ claims' = [claims EXCEPT ![h] = {}]
    /\ UNCHANGED <<rows, superseded, doomed>>
-----------------------------------------------------------------------------
CommitKind == {"checkpoint", "terminal_run_commit"}

\* A holder works on a lease it was given.
WorkOff(h, t) ==
    \/ RenewLease(h, t)
    \/ Acknowledge(h, t)
    \/ FailRetryable(h, t)
    \/ DeadLetter(h, t)
    \/ LeaseNotCurrent(h, t)

Drain(h) ==
    \/ \E excluded \in {{}, CommitKind}, limit \in 1..Cardinality(Id) :
           SelectReady(h, excluded, limit)
    \/ \E c \in candidates[h] : ClaimRow(h, c)
    \/ \E t \in claims[h] : WorkOff(h, t)
    \/ Abandon(h)

Maintain ==
    \/ RecoverExpiredLeases
    \/ \E S \in SUBSET Requeueable : RequeueDeadLetters(S)
    \/ \E keep \in 0..Cardinality(Id), aged \in SUBSET Id : SelectPrunable(keep, aged)
    \/ PruneSent

Next ==
    \/ \E x \in Id : \/ Enqueue(x)
                     \/ DeleteSucceeded(x)
                     \/ RetireDeadLetteredTerminalCommits(x)
                     \/ LeaseExpires(x)
                     \/ BackoffElapses(x)
    \/ \E h \in Holder : Drain(h)
    \/ Maintain

Spec == Init /\ [][Next]_vars
-----------------------------------------------------------------------------
WellFormed(row) ==
    /\ row.status = "absent" => row = NoRow
    /\ row.status = "leased" <=> row.holder \in Holder
    /\ row.status = "leased" <=> row.lease # "none"

\* Every variable has its type; a row has a holder and a lease exactly while
\* it is leased, and an identifier without a row carries nothing over.
TypeOK ==
    /\ rows \in [Id -> Row]
    /\ superseded \subseteq Id
    /\ candidates \in [Holder -> SUBSET Token]
    /\ claims \in [Holder -> SUBSET Token]
    /\ doomed \subseteq Id
    /\ \A x \in Id : WellFormed(rows[x])

\* Insert order is a total order of the stored rows, whatever was pruned and
\* enqueued again: it is what puts a checkpoint after the records it covers.
InsertOrderIsTotal ==
    \A x, y \in Stored : OrderOf(x) = OrderOf(y) => x = y

\* A terminal commit retired by an accepted replacement is never sent again,
\* and its row stays as evidence: no retry, recovery or prune moves it.
RetiredStaysRetired ==
    \A x \in superseded : KindOf[x] = "terminal_run_commit" /\ rows[x].status = "dead_letter"

\* While a lease is current, only the holder that was given it moves the row:
\* no other drain, recovery, operator command or prune takes it away.
LeaseOf(row) == <<row.status, row.holder, row.epoch>>

LiveLeaseUndisturbed ==
    [][\A x \in Id :
         rows[x].lease = "current" /\ LeaseOf(rows'[x]) # LeaseOf(rows[x])
           => \E t \in claims[rows[x].holder] \ claims'[rows[x].holder] :
                  t.id = x /\ t.epoch = rows[x].epoch]_vars

\* A row ends by acknowledgement only; an acknowledged row is never owed again
\* under the same row, and only acknowledged rows are ever deleted.
Stage(st) == CASE st = "absent" -> "none"
               [] st = "succeeded" -> "delivered"
               [] OTHER -> "owed"

Obligations == INSTANCE DeliveryObligations WITH
                   obligation <- [x \in Id |-> Stage(rows[x].status)]

ImplementsObligations == Obligations!Spec
=============================================================================
