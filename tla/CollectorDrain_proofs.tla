----------------------- MODULE CollectorDrain_proofs -----------------------
(***************************************************************************)
(* The outbox and the drains that work on it, for every set of identifiers *)
(* and holders and any number of drains.                                   *)
(*                                                                         *)
(* The outbox comes first: TypeOK is inductive, and its other properties   *)
(* are proved from it, one step for each statement that writes the table.  *)
(* Every step of a drain is a step of the outbox or leaves it alone, so    *)
(* that all this holds while drains work on it; the rest follows from      *)
(* where a drain is when it holds what.                                    *)
(***************************************************************************)
EXTENDS CollectorDrain, FiniteSetTheorems, NaturalsInduction, WellFoundedInduction, TLAPS

\* The rows the statements write are rows, of the shape TypeOK asks for: a row
\* that has not been tried yet,
LEMMA ZeroAttempts == 0 \in 0..AttemptCap
  BY BoundsAreNat

\* the absence of a row,
LEMMA NoRowType == NoRow \in Row /\ WellFormed(NoRow)
  <1>1. NoRow \in Row
    BY ZeroAttempts DEF Row, Status, NoRow
  <1> QED BY <1>1, NoHolderIsNoHolder DEF WellFormed, NoRow

\* a row enqueue inserts,
LEMMA FreshRowType ==
  ASSUME NEW n \in Nat
  PROVE  FreshRow(n) \in Row /\ WellFormed(FreshRow(n)) /\ FreshRow(n).status = "ready"
  <1>1. FreshRow(n) \in Row
    BY NoRowType DEF FreshRow, Row, Status
  <1>2. /\ FreshRow(n).status = "ready"
        /\ FreshRow(n).holder = NoRow.holder
        /\ FreshRow(n).lease = NoRow.lease
    BY NoRowType DEF FreshRow, Row
  <1>3. NoRow.holder = NoHolder /\ NoRow.lease = "none"
    BY DEF NoRow
  <1> QED BY <1>1, <1>2, <1>3, NoHolderIsNoHolder DEF WellFormed

\* a row whose expired lease is recovered,
LEMMA RecoveredType ==
  ASSUME NEW row \in Row
  PROVE  Recovered(row) \in Row /\ WellFormed(Recovered(row)) /\ Recovered(row).status = "ready"
  <1>1. Recovered(row) \in Row
    BY DEF Row, Recovered, Unleased, Status
  <1>2. /\ Recovered(row).status = "ready"
        /\ Recovered(row).holder = NoHolder
        /\ Recovered(row).lease = "none"
    BY DEF Row, Recovered, Unleased, Status
  <1> QED BY <1>1, <1>2, NoHolderIsNoHolder DEF WellFormed

\* a dead letter put back,
LEMMA RequeuedType ==
  ASSUME NEW row \in Row
  PROVE  Requeued(row) \in Row /\ WellFormed(Requeued(row)) /\ Requeued(row).status = "ready"
  <1>1. Requeued(row) \in Row
    BY ZeroAttempts DEF Row, Requeued, Unleased, Status
  <1>2. /\ Requeued(row).status = "ready"
        /\ Requeued(row).holder = NoHolder
        /\ Requeued(row).lease = "none"
    BY DEF Row, Requeued, Unleased, Status
  <1> QED BY <1>1, <1>2, NoHolderIsNoHolder DEF WellFormed

\* a row one of the fenced statements takes out of its lease,
LEMMA AttemptsType ==
  ASSUME NEW n \in 0..AttemptCap
  PROVE  CountAttempt(n) \in 0..AttemptCap
  BY BoundsAreNat DEF CountAttempt

LEMMA EndedType ==
  ASSUME NEW row \in Row, NEW st \in {"ready", "succeeded", "dead_letter"},
         NEW new \in Row, new.status = st, new.holder = NoHolder, new.lease = "none"
  PROVE  WellFormed(new)
  BY NoHolderIsNoHolder DEF WellFormed

\* and a row a claim leases.
LEMMA LeasedType ==
  ASSUME NEW row \in Row, NEW h \in Holder, NEW n \in Nat
  PROVE  LET new == [row EXCEPT !.status = "leased", !.holder = h,
                                !.epoch = n, !.lease = "current"]
         IN  /\ new \in Row /\ WellFormed(new)
             /\ new.status = "leased"
  <1> DEFINE new == [row EXCEPT !.status = "leased", !.holder = h,
                                !.epoch = n, !.lease = "current"]
  <1>1. new \in Row
    BY DEF Row, Status
  <1>2. new.status = "leased" /\ new.holder = h /\ new.lease = "current"
    BY DEF Row
  <1> QED
    BY <1>1, <1>2 DEF WellFormed

\* Initially the table is empty and no process holds anything.
LEMMA InitTypeOK == Init => TypeOK
  BY NoRowType DEF Init, TypeOK

\* Replacing one row, or every row at once, by a good row keeps the table good.
LEMMA OneRow ==
  ASSUME TypeOK, NEW x \in Id, NEW new \in Row, WellFormed(new),
         rows' = [rows EXCEPT ![x] = new]
  PROVE  rows' \in [Id -> Row] /\ \A y \in Id : WellFormed(rows'[y])
  BY DEF TypeOK

\* The statements a drain sends keep the table and what the drains hold typed.
LEMMA DrainKeepsTypeOK ==
  ASSUME TypeOK, NEW h \in Holder, Drain(h)
  PROVE  TypeOK'
  <1>1. ASSUME NEW excluded, NEW limit, SelectReady(h, excluded, limit)
        PROVE  TypeOK'
    <2>1. ReadyRows(excluded, limit) \subseteq Id
      BY DEF ReadyRows, Lowest, InStatus
    <2>2. \A x \in Id : OrderOf(x) \in Nat /\ rows[x].epoch \in Nat
      BY DEF TypeOK, Row, OrderOf
    <2>3. {[id |-> x, order |-> OrderOf(x), epoch |-> rows[x].epoch]
              : x \in ReadyRows(excluded, limit)} \in SUBSET Token
      BY <2>1, <2>2 DEF Token
    <2> QED
      BY <1>1, <2>3 DEF SelectReady, TypeOK
  <1>2. ASSUME NEW c \in candidates[h], ClaimRow(h, c)
        PROVE  TypeOK'
    <2>1. c \in Token /\ c.id \in Id /\ c.epoch + 1 \in Nat
      BY DEF TypeOK, Token
    <2>2. CASE rows[c.id].status = "ready"
      <3> DEFINE new == [rows[c.id] EXCEPT !.status = "leased", !.holder = h,
                                           !.epoch = c.epoch + 1, !.lease = "current"]
      <3>1. rows' = [rows EXCEPT ![c.id] = new]
        BY <1>2, <2>2 DEF ClaimRow
      <3>2. rows[c.id] \in Row
        BY <2>1 DEF TypeOK
      <3>3. new \in Row /\ WellFormed(new)
        BY <2>1, <3>2, LeasedType
      <3>4. rows' \in [Id -> Row] /\ \A y \in Id : WellFormed(rows'[y])
        BY <2>1, <3>1, <3>3, OneRow
      <3>5. [id |-> c.id, order |-> OrderOf(c.id), epoch |-> c.epoch + 1] \in Token
        BY <2>1, <3>2 DEF Token, OrderOf, Row
      <3>6. claims' \in [Holder -> SUBSET Token] /\ candidates' \in [Holder -> SUBSET Token]
        BY <1>2, <2>2, <3>5 DEF ClaimRow, TypeOK
      <3> QED
        BY <1>2, <3>4, <3>6 DEF ClaimRow, TypeOK
    <2>3. CASE rows[c.id].status # "ready"
      BY <1>2, <2>3 DEF ClaimRow, TypeOK
    <2> QED
      BY <2>2, <2>3
  <1>3. ASSUME NEW t \in claims[h], NEW row \in Row, EndLease(h, t, row), WellFormed(row)
        PROVE  TypeOK'
    <2>1. t.id \in Id
      BY DEF TypeOK, Token
    <2>2. rows' \in [Id -> Row] /\ \A y \in Id : WellFormed(rows'[y])
      BY <1>3, <2>1, OneRow DEF EndLease
    <2> QED
      BY <1>3, <2>2 DEF EndLease, TypeOK
  <1>4. ASSUME NEW t \in claims[h], WorkOff(h, t)
        PROVE  TypeOK'
    <2>1. rows[t.id] \in Row /\ rows[t.id].attempts \in 0..AttemptCap
      BY DEF TypeOK, Token, Row
    <2>2. CountAttempt(rows[t.id].attempts) \in 0..AttemptCap
      BY <2>1, AttemptsType
    <2>3. CASE RenewLease(h, t)
      BY <2>3 DEF RenewLease, TypeOK, vars
    <2>4. CASE Acknowledge(h, t)
      <3> DEFINE row == [Unleased(rows[t.id]) EXCEPT !.status = "succeeded"]
      <3>1. /\ row \in Row
            /\ row.status = "succeeded" /\ row.holder = NoHolder /\ row.lease = "none"
        BY <2>1 DEF Row, Unleased, Status
      <3> QED
        BY <1>3, <2>1, <2>4, <3>1, EndedType DEF Acknowledge
    <2>5. CASE FailRetryable(h, t)
      <3> DEFINE row == [Unleased(rows[t.id]) EXCEPT !.status = "ready",
                                                     !.attempts = CountAttempt(@),
                                                     !.retry = "waiting"]
      <3>1. /\ row \in Row
            /\ row.status = "ready" /\ row.holder = NoHolder /\ row.lease = "none"
        BY <2>1, <2>2 DEF Row, Unleased, Status
      <3> QED
        BY <1>3, <2>1, <2>5, <3>1, EndedType DEF FailRetryable
    <2>6. CASE DeadLetter(h, t)
      <3> DEFINE row == [Unleased(rows[t.id]) EXCEPT !.status = "dead_letter",
                                                     !.attempts = CountAttempt(@)]
      <3>1. /\ row \in Row
            /\ row.status = "dead_letter" /\ row.holder = NoHolder /\ row.lease = "none"
        BY <2>1, <2>2 DEF Row, Unleased, Status
      <3> QED
        BY <1>3, <2>1, <2>6, <3>1, EndedType DEF DeadLetter
    <2>7. CASE LeaseNotCurrent(h, t)
      BY <2>7 DEF LeaseNotCurrent, TypeOK
    <2> QED
      BY <1>4, <2>3, <2>4, <2>5, <2>6, <2>7 DEF WorkOff
  <1>5. CASE Abandon(h)
    BY <1>5 DEF Abandon, TypeOK
  <1> QED
    BY <1>1, <1>2, <1>4, <1>5 DEF Drain
\* The statements of the collector run and of the operator commands, and the
\* clock, keep the table typed.
LEMMA MaintainTypeOK ==
  ASSUME TypeOK, Maintain
  PROVE  TypeOK'
  <1> USE DEF TypeOK
  <1>1. CASE RecoverExpiredLeases
    BY <1>1, RecoveredType DEF RecoverExpiredLeases
  <1>2. ASSUME NEW S, RequeueDeadLetters(S)
        PROVE  TypeOK'
    BY <1>2, RequeuedType DEF RequeueDeadLetters
  <1>3. ASSUME NEW keep, NEW aged, SelectPrunable(keep, aged)
        PROVE  TypeOK'
    BY <1>3 DEF SelectPrunable, PruneCandidates, InStatus
  <1>4. CASE PruneSent
    BY <1>4, NoRowType DEF PruneSent
  <1> QED
    BY <1>1, <1>2, <1>3, <1>4 DEF Maintain

LEMMA RowActionTypeOK ==
  ASSUME TypeOK, NEW x \in Id,
         \/ Enqueue(x)
         \/ DeleteSucceeded(x)
         \/ RetireDeadLetteredTerminalCommits(x)
         \/ LeaseExpires(x)
         \/ BackoffElapses(x)
  PROVE  TypeOK'
  <1>1. CASE Enqueue(x)
    <2>1. PICK n \in 1..MaxOrder : rows' = [rows EXCEPT ![x] = FreshRow(n)]
      BY <1>1 DEF Enqueue
    <2>2. n \in Nat
      BY BoundsAreNat
    <2> QED
      BY <1>1, <2>1, <2>2, FreshRowType, OneRow DEF Enqueue, TypeOK
  <1>2. CASE DeleteSucceeded(x)
    BY <1>2, NoRowType, OneRow DEF DeleteSucceeded, TypeOK
  <1>3. CASE RetireDeadLetteredTerminalCommits(x)
    BY <1>3 DEF RetireDeadLetteredTerminalCommits, Retirable, InStatus, TypeOK
  <1>4. CASE LeaseExpires(x)
    <2> DEFINE new == [rows[x] EXCEPT !.lease = "expired"]
    <2>1. rows[x] \in Row /\ WellFormed(rows[x])
      BY DEF TypeOK
    <2>2. /\ new \in Row
          /\ new.status = rows[x].status /\ new.holder = rows[x].holder
          /\ new.lease = "expired"
      BY <2>1 DEF Row
    <2>3. rows[x].lease = "current" /\ rows[x].status # "absent"
      BY <1>4, <2>1 DEF LeaseExpires, WellFormed, NoRow
    <2>4. WellFormed(new)
      BY <2>1, <2>2, <2>3 DEF WellFormed
    <2>5. rows' = [rows EXCEPT ![x] = new]
      BY <1>4 DEF LeaseExpires, TypeOK
    <2> QED
      BY <1>4, <2>2, <2>4, <2>5, OneRow DEF LeaseExpires, TypeOK
  <1>5. CASE BackoffElapses(x)
    <2> DEFINE new == [rows[x] EXCEPT !.retry = "due"]
    <2>1. rows[x] \in Row /\ WellFormed(rows[x])
      BY DEF TypeOK
    <2>2. /\ new \in Row
          /\ new.status = rows[x].status /\ new.holder = rows[x].holder
          /\ new.lease = rows[x].lease
      BY <2>1 DEF Row
    <2>3. rows[x].status # "absent"
      BY <1>5, <2>1 DEF BackoffElapses, WellFormed, NoRow
    <2>4. WellFormed(new)
      BY <2>1, <2>2, <2>3 DEF WellFormed
    <2>5. rows' = [rows EXCEPT ![x] = new]
      BY <1>5 DEF BackoffElapses, TypeOK
    <2> QED
      BY <1>5, <2>2, <2>4, <2>5, OneRow DEF BackoffElapses, TypeOK
  <1> QED
    BY <1>1, <1>2, <1>3, <1>4, <1>5

LEMMA NextTypeOK == TypeOK /\ [Next]_vars => TypeOK'
  <1> SUFFICES ASSUME TypeOK, [Next]_vars PROVE TypeOK'
    OBVIOUS
  <1>1. CASE UNCHANGED vars
    BY <1>1 DEF vars, TypeOK
  <1> QED
    BY <1>1, DrainKeepsTypeOK, MaintainTypeOK, RowActionTypeOK DEF Next

\* The table keeps its types and every row its shape, for any number of rows
\* and drains: a row has a holder exactly while it is leased.
THEOREM TypeCorrect == Spec => []TypeOK
  BY InitTypeOK, NextTypeOK, PTL DEF Spec
-----------------------------------------------------------------------------
\* The life of a row, as one step moves it: inserted, claimed, taken out of its
\* lease, put back from the dead letters unless it is a terminal commit, and
\* deleted once it succeeded. Nothing else happens to a status.
StatusMove(x) ==
    \/ rows'[x].status = rows[x].status
    \/ rows[x].status = "absent" /\ rows'[x].status = "ready"
    \/ rows[x].status = "ready" /\ rows'[x].status = "leased"
    \/ rows[x].status = "leased" /\ rows'[x].status \in {"ready", "succeeded", "dead_letter"}
    \/ /\ rows[x].status = "dead_letter" /\ rows'[x].status = "ready"
       /\ KindOf[x] # "terminal_run_commit"
    \/ rows[x].status = "succeeded" /\ rows'[x].status = "absent"

\* A statement that writes one row moves the others nowhere.
LEMMA OneRowMove ==
  ASSUME TypeOK, NEW x \in Id, NEW new, rows' = [rows EXCEPT ![x] = new],
         rows'[x].status = new.status => StatusMove(x)
  PROVE  \A y \in Id : StatusMove(y)
  BY DEF TypeOK, StatusMove

LEMMA DrainMoves ==
  ASSUME TypeOK, NEW h \in Holder, Drain(h)
  PROVE  \A x \in Id : StatusMove(x)
  <1>1. CASE UNCHANGED rows
    BY <1>1 DEF StatusMove
  <1>2. ASSUME NEW c \in candidates[h], ClaimRow(h, c)
        PROVE  \A x \in Id : StatusMove(x)
    <2>1. c.id \in Id /\ rows[c.id] \in Row
      BY DEF TypeOK, Token
    <2>2. CASE rows[c.id].status = "ready"
      <3> DEFINE new == [rows[c.id] EXCEPT !.status = "leased", !.holder = h,
                                           !.epoch = c.epoch + 1, !.lease = "current"]
      <3>1. rows' = [rows EXCEPT ![c.id] = new] /\ new.status = "leased"
        BY <1>2, <2>1, <2>2 DEF ClaimRow, Row
      <3> QED
        BY <2>1, <2>2, <3>1, OneRowMove DEF StatusMove
    <2> QED
      BY <1>1, <1>2, <2>2 DEF ClaimRow
  <1>3. ASSUME NEW t \in claims[h], NEW row, EndLease(h, t, row),
               row.status \in {"ready", "succeeded", "dead_letter"}
        PROVE  \A x \in Id : StatusMove(x)
    <2>1. t.id \in Id /\ rows[t.id].status = "leased" /\ rows' = [rows EXCEPT ![t.id] = row]
      BY <1>3 DEF TypeOK, Token, EndLease, LeaseIsCurrent
    <2> QED
      BY <1>3, <2>1, OneRowMove DEF StatusMove
  <1>4. ASSUME NEW t \in claims[h], WorkOff(h, t)
        PROVE  \A x \in Id : StatusMove(x)
    <2>1. rows[t.id] \in Row
      BY DEF TypeOK, Token
    <2>2. /\ [Unleased(rows[t.id]) EXCEPT !.status = "succeeded"].status = "succeeded"
          /\ [Unleased(rows[t.id]) EXCEPT !.status = "ready",
                                          !.attempts = CountAttempt(@),
                                          !.retry = "waiting"].status = "ready"
          /\ [Unleased(rows[t.id]) EXCEPT !.status = "dead_letter",
                                          !.attempts = CountAttempt(@)].status = "dead_letter"
      BY <2>1 DEF Row, Unleased
    <2>3. CASE RenewLease(h, t) \/ LeaseNotCurrent(h, t)
      BY <1>1, <2>3 DEF RenewLease, LeaseNotCurrent, vars
    <2>4. CASE Acknowledge(h, t) \/ FailRetryable(h, t) \/ DeadLetter(h, t)
      BY <1>3, <2>2, <2>4 DEF Acknowledge, FailRetryable, DeadLetter
    <2> QED
      BY <1>4, <2>3, <2>4 DEF WorkOff
  <1> QED
    BY <1>1, <1>2, <1>4 DEF Drain, SelectReady, Abandon

LEMMA MaintainMoves ==
  ASSUME TypeOK, Maintain
  PROVE  \A x \in Id : StatusMove(x)
  <1> USE DEF TypeOK, StatusMove
  <1>1. CASE RecoverExpiredLeases
    BY <1>1, RecoveredType DEF RecoverExpiredLeases
  <1>2. ASSUME NEW S, RequeueDeadLetters(S)
        PROVE  \A x \in Id : StatusMove(x)
    BY <1>2, RequeuedType DEF RequeueDeadLetters, Requeueable, InStatus
  <1>3. ASSUME NEW keep, NEW aged, SelectPrunable(keep, aged)
        PROVE  \A x \in Id : StatusMove(x)
    BY <1>3 DEF SelectPrunable
  <1>4. CASE PruneSent
    BY <1>4 DEF PruneSent, NoRow
  <1> QED
    BY <1>1, <1>2, <1>3, <1>4 DEF Maintain

LEMMA RowActionMoves ==
  ASSUME TypeOK, NEW x \in Id,
         \/ Enqueue(x)
         \/ DeleteSucceeded(x)
         \/ RetireDeadLetteredTerminalCommits(x)
         \/ LeaseExpires(x)
         \/ BackoffElapses(x)
  PROVE  \A y \in Id : StatusMove(y)
  <1>1. CASE Enqueue(x)
    <2>1. PICK n \in 1..MaxOrder : rows' = [rows EXCEPT ![x] = FreshRow(n)]
      BY <1>1 DEF Enqueue
    <2>2. n \in Nat
      BY BoundsAreNat
    <2> QED
      BY <1>1, <2>1, <2>2, FreshRowType, OneRowMove DEF Enqueue, StatusMove
  <1>2. CASE DeleteSucceeded(x)
    BY <1>2, OneRowMove DEF DeleteSucceeded, StatusMove, NoRow
  <1>3. CASE RetireDeadLetteredTerminalCommits(x)
    BY <1>3 DEF RetireDeadLetteredTerminalCommits, StatusMove
  <1>4. CASE LeaseExpires(x)
    BY <1>4 DEF LeaseExpires, StatusMove, TypeOK, Row
  <1>5. CASE BackoffElapses(x)
    BY <1>5 DEF BackoffElapses, StatusMove, TypeOK, Row
  <1> QED
    BY <1>1, <1>2, <1>3, <1>4, <1>5

LEMMA NextMoves == TypeOK /\ [Next]_vars => \A x \in Id : StatusMove(x)
  <1> SUFFICES ASSUME TypeOK, [Next]_vars PROVE \A x \in Id : StatusMove(x)
    OBVIOUS
  <1>1. CASE UNCHANGED vars
    BY <1>1 DEF vars, StatusMove
  <1> QED
    BY <1>1, DrainMoves, MaintainMoves, RowActionMoves DEF Next

\* A terminal commit that an accepted replacement retired is never sent again:
\* its row stays a dead letter under every operation of the store.
THEOREM RetiredForever == Spec => []RetiredStaysRetired
  <1>1. Init => RetiredStaysRetired
    BY DEF Init, RetiredStaysRetired
  <1>2. TypeOK /\ RetiredStaysRetired /\ [Next]_vars => RetiredStaysRetired'
    <2> SUFFICES ASSUME TypeOK, RetiredStaysRetired, [Next]_vars
                 PROVE  RetiredStaysRetired'
      OBVIOUS
    <2>1. \A x \in Id : StatusMove(x)
      BY NextMoves
    <2>2. superseded \subseteq Id
      BY DEF TypeOK
    <2>3. CASE UNCHANGED superseded
      BY <2>1, <2>2, <2>3 DEF RetiredStaysRetired, StatusMove
    <2>4. ASSUME NEW r \in Id, RetireDeadLetteredTerminalCommits(r)
          PROVE  RetiredStaysRetired'
      BY <2>4 DEF RetireDeadLetteredTerminalCommits, Retirable, InStatus, RetiredStaysRetired
    <2> QED
      BY <2>3, <2>4
      DEF Next, vars, Drain, SelectReady, ClaimRow, WorkOff, RenewLease, Acknowledge,
          FailRetryable, DeadLetter, EndLease, LeaseNotCurrent, Abandon, Maintain,
          RecoverExpiredLeases, RequeueDeadLetters, SelectPrunable, PruneSent, Enqueue,
          DeleteSucceeded, LeaseExpires, BackoffElapses
  <1> QED
    BY <1>1, <1>2, TypeCorrect, PTL DEF Spec

\* The outbox implements DeliveryObligations: whatever leases, retries, dead
\* letters and prunes do, a row leaves the table only after it was acknowledged
\* and an acknowledged row is not owed again.
THEOREM OutboxImplementsObligations == Spec => ImplementsObligations
  <1>1. Init => Obligations!Init
    BY DEF Init, Obligations!Init, NoRow, Stage
  <1>2. TypeOK /\ [Next]_vars => [Obligations!Next]_([x \in Id |-> Stage(rows[x].status)])
    <2> SUFFICES ASSUME TypeOK, [Next]_vars PROVE Obligations!Next
      OBVIOUS
    <2>1. \A x \in Id : StatusMove(x)
      BY NextMoves
    <2>2. \A st : Stage(st) \in Obligations!Stages
      BY DEF Stage, Obligations!Stages
    <2> QED
      BY <2>1, <2>2 DEF StatusMove, Stage, Obligations!Next, Obligations!Moves
  <1> QED
    BY <1>1, <1>2, TypeCorrect, PTL DEF Spec, ImplementsObligations, Obligations!Spec
-----------------------------------------------------------------------------
\* What a step leaves alone of row x: its absence, unless it is enqueue; its
\* insert order, while x is stored; and, while x has a current lease, its status, holder and epoch, unless it is
\* the holder that ends the lease.
OrderKept(x) ==
    \/ OrderOf(x)' = OrderOf(x)
    \/ rows[x].status = "absent"
    \/ rows'[x].status = "absent"

LeaseKept(x) ==
    rows[x].lease = "current" /\ LeaseOf(rows'[x]) # LeaseOf(rows[x])
      => \E t \in claims[rows[x].holder] \ claims'[rows[x].holder] :
             t.id = x /\ t.epoch = rows[x].epoch

AbsenceKept(x) == rows[x].status = "absent" => rows'[x].status = "absent" \/ Enqueue(x)

Kept(x) == OrderKept(x) /\ LeaseKept(x) /\ AbsenceKept(x)

LEMMA DrainKeeps ==
  ASSUME TypeOK, NEW h \in Holder, Drain(h)
  PROVE  \A x \in Id : Kept(x)
  <1> USE DEF Kept, OrderKept, LeaseKept, AbsenceKept, OrderOf, LeaseOf
  <1>1. CASE UNCHANGED rows
    BY <1>1
  <1>2. ASSUME NEW c \in candidates[h], ClaimRow(h, c), rows[c.id].status = "ready"
        PROVE  \A x \in Id : Kept(x)
    <2>1. c.id \in Id /\ rows[c.id] \in Row /\ rows[c.id].lease = "none"
      BY <1>2 DEF TypeOK, Token, WellFormed, Row
    <2>2. rows'[c.id].order = rows[c.id].order
      <3>1. rows'[c.id] = [rows[c.id] EXCEPT !.status = "leased", !.holder = h,
                                             !.epoch = c.epoch + 1, !.lease = "current"]
        BY <1>2, <2>1 DEF ClaimRow, TypeOK
      <3> QED
        BY <2>1, <3>1 DEF Row
    <2>3. \A x \in Id \ {c.id} : rows'[x] = rows[x]
      BY <1>2, <2>1 DEF ClaimRow, TypeOK
    <2>4. Kept(c.id)
      BY <1>2, <2>1, <2>2
    <2>5. ASSUME NEW x \in Id \ {c.id} PROVE Kept(x)
      BY <2>3, <2>5
    <2> QED
      BY <2>4, <2>5
  <1>3. ASSUME NEW t \in claims[h], NEW row, EndLease(h, t, row),
               row.order = rows[t.id].order
        PROVE  \A x \in Id : Kept(x)
    <2>1. t.id \in Id /\ rows' = [rows EXCEPT ![t.id] = row]
      BY <1>3 DEF TypeOK, Token, EndLease
    <2>2. rows[t.id].holder = h /\ rows[t.id].epoch = t.epoch
      BY <1>3 DEF EndLease, LeaseIsCurrent
    <2>3. t \in claims[h] \ claims'[h]
      BY <1>3 DEF EndLease, TypeOK
    <2>4. rows'[t.id] = row /\ \A x \in Id \ {t.id} : rows'[x] = rows[x]
      BY <2>1 DEF TypeOK
    <2>5. rows[t.id].status = "leased"
      BY <1>3 DEF EndLease, LeaseIsCurrent
    <2>6. Kept(t.id)
      BY <1>3, <2>1, <2>2, <2>3, <2>4, <2>5
    <2>7. ASSUME NEW x \in Id \ {t.id} PROVE Kept(x)
      BY <2>4, <2>7
    <2> QED
      BY <2>6, <2>7
  <1>4. ASSUME NEW t \in claims[h], WorkOff(h, t)
        PROVE  \A x \in Id : Kept(x)
    <2>1. rows[t.id] \in Row
      BY DEF TypeOK, Token
    <2>2. LET row == rows[t.id]
          IN  /\ [Unleased(row) EXCEPT !.status = "succeeded"].order = row.order
              /\ [Unleased(row) EXCEPT !.status = "ready",
                                       !.attempts = CountAttempt(@),
                                       !.retry = "waiting"].order = row.order
              /\ [Unleased(row) EXCEPT !.status = "dead_letter",
                                       !.attempts = CountAttempt(@)].order = row.order
      BY <2>1 DEF Row, Unleased
    <2>3. CASE RenewLease(h, t) \/ LeaseNotCurrent(h, t)
      BY <1>1, <2>3 DEF RenewLease, LeaseNotCurrent, vars
    <2>4. CASE Acknowledge(h, t) \/ FailRetryable(h, t) \/ DeadLetter(h, t)
      BY <1>3, <2>2, <2>4 DEF Acknowledge, FailRetryable, DeadLetter
    <2> QED
      BY <1>4, <2>3, <2>4 DEF WorkOff
  <1> QED
    BY <1>1, <1>2, <1>4 DEF Drain, SelectReady, ClaimRow, Abandon

LEMMA OthersKeep ==
  ASSUME TypeOK,
         \/ Maintain
         \/ \E x \in Id : \/ Enqueue(x)
                          \/ DeleteSucceeded(x)
                          \/ RetireDeadLetteredTerminalCommits(x)
                          \/ LeaseExpires(x)
                          \/ BackoffElapses(x)
  PROVE  \A x \in Id : Kept(x)
  <1> USE DEF Kept, OrderKept, LeaseKept, AbsenceKept, OrderOf, LeaseOf
  <1>1. \A x \in Id : /\ rows[x] \in Row
                      /\ rows[x].lease = "current" => rows[x].status = "leased"
    BY DEF TypeOK, WellFormed
  <1>2. CASE UNCHANGED rows
    BY <1>2
  <1>3. CASE RecoverExpiredLeases
    <2>1. \A x \in Id : Recovered(rows[x]).order = rows[x].order
      BY <1>1 DEF Recovered, Unleased, Row
    <2> QED
      BY <1>3, <2>1 DEF RecoverExpiredLeases
  <1>4. ASSUME NEW S, RequeueDeadLetters(S)
        PROVE  \A x \in Id : Kept(x)
    <2>1. \A x \in Id : Requeued(rows[x]).order = rows[x].order
      BY <1>1 DEF Requeued, Unleased, Row
    <2> QED
      BY <1>1, <1>4, <2>1 DEF RequeueDeadLetters, Requeueable, InStatus
  <1>5. CASE PruneSent
    BY <1>1, <1>5 DEF PruneSent, NoRow
  <1>6. ASSUME NEW x \in Id, Enqueue(x)
        PROVE  \A y \in Id : Kept(y)
    <2>1. \A y \in Id \ {x} : rows'[y] = rows[y]
      BY <1>6 DEF Enqueue, TypeOK
    <2> QED
      BY <1>1, <1>6, <2>1 DEF Enqueue
  <1>7. ASSUME NEW x \in Id, DeleteSucceeded(x)
        PROVE  \A y \in Id : Kept(y)
    <2>1. rows'[x].status = "absent" /\ \A y \in Id \ {x} : rows'[y] = rows[y]
      BY <1>7 DEF DeleteSucceeded, TypeOK, NoRow
    <2> QED
      BY <1>1, <1>7, <2>1 DEF DeleteSucceeded
  <1>8. ASSUME NEW x \in Id, LeaseExpires(x) \/ BackoffElapses(x)
        PROVE  \A y \in Id : Kept(y)
    BY <1>1, <1>8 DEF LeaseExpires, BackoffElapses, TypeOK, Row
  <1> QED
    BY <1>2, <1>3, <1>4, <1>5, <1>6, <1>7, <1>8
    DEF Maintain, SelectPrunable, RetireDeadLetteredTerminalCommits

LEMMA NextKeeps == TypeOK /\ [Next]_vars => \A x \in Id : Kept(x)
  <1> SUFFICES ASSUME TypeOK, [Next]_vars PROVE \A x \in Id : Kept(x)
    OBVIOUS
  <1>1. CASE UNCHANGED vars
    BY <1>1 DEF vars, Kept, OrderKept, LeaseKept, AbsenceKept, OrderOf, LeaseOf
  <1> QED
    BY <1>1, DrainKeeps, OthersKeep DEF Next

\* A current lease is exclusive: until it expires, no other drain, recovery,
\* operator command or prune changes who holds the row or what became of it.
THEOREM LeaseIsExclusive == Spec => LiveLeaseUndisturbed
  <1>1. TypeOK /\ [Next]_vars
          => [\A x \in Id :
                rows[x].lease = "current" /\ LeaseOf(rows'[x]) # LeaseOf(rows[x])
                  => \E t \in claims[rows[x].holder] \ claims'[rows[x].holder] :
                         t.id = x /\ t.epoch = rows[x].epoch]_vars
    BY NextKeeps DEF Kept, LeaseKept
  <1> QED
    BY <1>1, TypeCorrect, PTL DEF Spec, LiveLeaseUndisturbed

\* Two stored rows never share an insert order, although rowids are reused
\* after a prune: "before this checkpoint" always has a meaning.
THEOREM InsertOrderTotal == Spec => []InsertOrderIsTotal
  <1>1. Init => InsertOrderIsTotal
    BY DEF Init, InsertOrderIsTotal, Stored, InStatus, Status, NoRow
  <1>2. TypeOK /\ InsertOrderIsTotal /\ [Next]_vars => InsertOrderIsTotal'
    <2> SUFFICES ASSUME TypeOK, InsertOrderIsTotal, [Next]_vars,
                        NEW x \in Id, NEW y \in Id,
                        rows'[x].status # "absent", rows'[y].status # "absent",
                        rows'[x].order = rows'[y].order
                 PROVE  x = y
      BY DEF InsertOrderIsTotal, Stored, InStatus, OrderOf
    <2>1. \A z \in Id : Kept(z) /\ rows[z] \in Row
      BY NextKeeps DEF TypeOK
    <2>2. CASE rows[x].status # "absent" /\ rows[y].status # "absent"
      <3>1. x \in Stored /\ y \in Stored
        BY <2>1, <2>2 DEF Stored, InStatus, Row
      <3>2. OrderOf(x) = OrderOf(y)
        BY <2>1, <2>2 DEF Kept, OrderKept, OrderOf
      <3> QED
        BY <3>1, <3>2 DEF InsertOrderIsTotal
    <2>3. ASSUME NEW z \in Id, NEW w \in Id, Enqueue(z), z # w,
                 rows'[w].status # "absent"
          PROVE  rows'[w].order # rows'[z].order
      <3>1. PICK n \in 1..MaxOrder : IsNextOrder(n) /\ rows' = [rows EXCEPT ![z] = FreshRow(n)]
        BY <2>3 DEF Enqueue
      <3>2. rows'[w] = rows[w] /\ rows'[z] = FreshRow(n)
        BY <2>3, <3>1 DEF TypeOK
      <3>3. w \in Stored
        BY <2>1, <2>3, <3>2 DEF Stored, InStatus, Row
      <3>4. rows[w].order < n /\ n \in Nat /\ rows[w].order \in Nat
        BY <2>1, <3>1, <3>3, BoundsAreNat DEF IsNextOrder, OrderOf, Row
      <3>5. FreshRow(n).order = n
        BY NoRowType DEF FreshRow, Row
      <3> QED
        BY <3>2, <3>4, <3>5
    <2>4. CASE rows[x].status = "absent"
      BY <2>1, <2>3, <2>4 DEF Kept, AbsenceKept
    <2>5. CASE rows[y].status = "absent"
      BY <2>1, <2>3, <2>5 DEF Kept, AbsenceKept
    <2> QED
      BY <2>2, <2>4, <2>5
  <1> QED
    BY <1>1, <1>2, TypeCorrect, PTL DEF Spec
-----------------------------------------------------------------------------
\* Claiming more rows than there are is claiming all of them.
LEMMA LimitBeyondAll ==
  ASSUME TypeOK, NEW S \in SUBSET Id, NEW n \in Nat, n >= Cardinality(Id)
  PROVE  Lowest(S, n) = Lowest(S, Cardinality(Id))
  <1>1. ASSUME NEW x \in S
        PROVE  /\ Cardinality({y \in S : OrderOf(y) < OrderOf(x)}) \in Nat
               /\ Cardinality({y \in S : OrderOf(y) < OrderOf(x)}) < Cardinality(Id)
    <2> DEFINE T == {y \in S : OrderOf(y) < OrderOf(x)}
    <2>1. OrderOf(x) \in Nat
      BY DEF TypeOK, Row, OrderOf
    <2>2. T \subseteq Id \ {x}
      BY <2>1
    <2>3. x \in Id /\ IsFiniteSet(Id)
      BY IdIsFinite
    <2>4. /\ IsFiniteSet(Id \ {x})
          /\ Cardinality(Id \ {x}) = Cardinality(Id) - 1
      BY <2>3, FS_RemoveElement
    <2>5. IsFiniteSet(T) /\ Cardinality(T) <= Cardinality(Id \ {x})
      BY <2>2, <2>4, FS_Subset
    <2>6. Cardinality(T) \in Nat /\ Cardinality(Id) \in Nat
      BY <2>3, <2>5, FS_CardinalityType
    <2> HIDE DEF T
    <2>7. Cardinality(T) < Cardinality(Id)
      BY <2>4, <2>5, <2>6
    <2> QED
      BY <2>6, <2>7 DEF T
  <1>2. Cardinality(Id) \in Nat
    BY IdIsFinite, FS_CardinalityType
  <1> QED
    BY <1>1, <1>2 DEF Lowest

\* A selection is one the outbox allows, or selects nothing from nothing.
LEMMA SelectIsOutboxStep ==
  ASSUME TypeOK, NEW d \in Holder, NEW excluded \in {{}, CommitKind}, NEW n \in Nat \ {0},
         SelectReady(d, excluded, n)
  PROVE  [Next]_vars
  <1> DEFINE S == {x \in InStatus({"ready"}) : rows[x].retry = "due" /\ KindOf[x] \notin excluded}
  <1>1. S \in SUBSET Id /\ Cardinality(Id) \in Nat
    BY IdIsFinite, FS_CardinalityType DEF InStatus
  <1>2. CASE n <= Cardinality(Id)
    <2>1. n \in 1..Cardinality(Id)
      BY <1>1, <1>2
    <2> QED
      BY <2>1 DEF Next, Drain
  <1>3. CASE n > Cardinality(Id) /\ Cardinality(Id) # 0
    <2>1. ReadyRows(excluded, n) = ReadyRows(excluded, Cardinality(Id))
      BY <1>1, <1>3, LimitBeyondAll DEF ReadyRows
    <2>2. SelectReady(d, excluded, Cardinality(Id))
      BY <2>1 DEF SelectReady
    <2>3. Cardinality(Id) \in 1..Cardinality(Id)
      BY <1>1, <1>3
    <2> QED
      BY <2>2, <2>3 DEF Next, Drain
  <1>4. CASE Cardinality(Id) = 0
    <2>1. Id = {}
      BY <1>4, IdIsFinite, FS_EmptySet
    <2>2. ReadyRows(excluded, n) = {}
      BY <2>1 DEF ReadyRows, Lowest, InStatus
    <2>3. candidates' = candidates
      BY <2>2 DEF SelectReady, TypeOK
    <2> QED
      BY <2>3 DEF SelectReady, vars
  <1> QED
    BY <1>1, <1>2, <1>3, <1>4

\* What a drain does with the row it is working on.
LEMMA WorkIsOutboxStep ==
  ASSUME NEW d \in Holder, NEW t \in Current(d), WorkOff(d, t)
  PROVE  Next
  <1>1. t \in claims[d]
    BY DEF Current, First
  <1> QED
    BY <1>1 DEF Next, Drain

\* Every step of every drain is a statement of the outbox, or none.
LEMMA DrainStepIsOutboxStep == TypeOK /\ [DrainNext]_allVars => [Next]_vars
  <1> SUFFICES ASSUME TypeOK, DrainNext PROVE [Next]_vars
    BY DEF allVars
  <1>1. ASSUME NEW x \in Id, Scan(x) \/ LeaseRunsOut(x) \/ RetryComesDue(x)
        PROVE  [Next]_vars
    BY <1>1 DEF Scan, LeaseRunsOut, RetryComesDue, Next
  <1>2. ASSUME NEW d \in Holder, StartRun(d) \/ RecoverLeases(d)
        PROVE  [Next]_vars
    BY <1>2 DEF StartRun, RecoverLeases, Next, Maintain
  <1>3. ASSUME NEW d \in Holder,
               \/ Peek(d) \/ Claimed(d) \/ NextRetry(d) \/ Recheck(d) \/ BatchDone(d)
               \/ Response(d) \/ BudgetSpent(d) \/ Accept(d) \/ SendFails(d)
        PROVE  [Next]_vars
    BY <1>3 DEF Peek, Claimed, NextRetry, Recheck, BatchDone, Response, BudgetSpent, Accept,
                SendFails
  <1>4. ASSUME NEW d \in Holder, Claim(d)
        PROVE  [Next]_vars
    <2>1. DrainBatchSize \in Nat \ {0} /\ 1 \in Nat \ {0}
      BY PolicyIsNat
    <2> QED
      BY <1>4, <2>1, SelectIsOutboxStep DEF Claim
  <1>5. ASSUME NEW d \in Holder, Update(d)
        PROVE  [Next]_vars
    <2>1. PICK c \in First(candidates[d]) : ClaimRow(d, c)
      BY <1>5 DEF Update
    <2> QED
      BY <2>1 DEF First, Next, Drain
  <1>6. ASSUME NEW d \in Holder,
               Renew(d) \/ Ack(d) \/ Retry(d) \/ Count(d) \/ GiveUp(d) \/ LeaseLost(d)
        PROVE  [Next]_vars
    <2>1. PICK t \in Current(d) : WorkOff(d, t)
      BY <1>6 DEF Renew, Ack, Retry, Count, GiveUp, LeaseLost, WorkOff
    <2> QED
      BY <2>1, WorkIsOutboxStep
  <1>7. ASSUME NEW d \in Holder, Crash(d)
        PROVE  [Next]_vars
    <2>1. CASE candidates[d] \cup claims[d] # {}
      BY <1>7, <2>1 DEF Crash, Abandon, Next, Drain
    <2>2. CASE candidates[d] \cup claims[d] = {}
      <3>1. candidates' = candidates /\ claims' = claims
        BY <1>7, <2>2 DEF Crash, TypeOK
      <3> QED
        BY <1>7, <3>1 DEF Crash, vars
    <2> QED
      BY <2>1, <2>2
  <1> QED
    BY <1>1, <1>2, <1>3, <1>4, <1>5, <1>6, <1>7 DEF DrainNext, Step

\* The drains use the outbox by its operations only, whatever they have in
\* memory: any number of them, of any batch size, crashing at any point.
LEMMA DrainsUseOutbox == DrainSpec => Spec
  <1>1. DrainInit => Init
    BY DEF DrainInit
  <1>2. DrainInit => TypeOK
    BY InitTypeOK DEF DrainInit
  <1>3. TypeOK /\ [DrainNext]_allVars => TypeOK'
    BY DrainStepIsOutboxStep, NextTypeOK
  <1> QED
    BY <1>1, <1>2, <1>3, DrainStepIsOutboxStep, PTL DEF DrainSpec, Spec
-----------------------------------------------------------------------------
\* What the place of drain d in its loop says of what it holds.
Busy == {"send", "accepted", "ack", "transient", "counted", "terminal"}

Holds(d) ==
    /\ candidates[d] # {} => pc[d] = "update"
    /\ claims[d] # {} => pc[d] \in {"update", "work"} \cup Busy
    /\ pc[d] \in Busy => claims[d] # {}

\* What d may change of itself: the others keep their places and what they hold.
Alone(d) ==
    /\ pc' \in [Holder -> Point]
    /\ \A e \in Holder \ {d} : /\ pc'[e] = pc[e]
                               /\ candidates'[e] = candidates[e]
                               /\ claims'[e] = claims[e]

LEMMA StepIsAlone ==
  ASSUME DrainTypeOK, NEW d \in Holder,
         \/ StartRun(d) \/ Step(d) \/ BudgetSpent(d) \/ Accept(d) \/ SendFails(d) \/ Crash(d)
  PROVE  Alone(d)
  <1> USE DEF Alone, DrainTypeOK, TypeOK, Point, Goto
  <1>1. CASE StartRun(d) \/ RecoverLeases(d)
    BY <1>1 DEF StartRun, RecoverLeases, RequeueDeadLetters, RecoverExpiredLeases
  <1>2. CASE \/ Peek(d) \/ Claimed(d) \/ NextRetry(d) \/ Recheck(d) \/ BatchDone(d)
             \/ Response(d) \/ BudgetSpent(d) \/ Accept(d)
    BY <1>2 DEF Peek, Claimed, NextRetry, Recheck, BatchDone, Response, BudgetSpent, Accept, vars
  <1>3. CASE SendFails(d)
    BY <1>3, OutcomesType DEF SendFails, vars
  <1>4. CASE Claim(d)
    BY <1>4 DEF Claim, SelectReady
  <1>5. CASE Update(d)
    BY <1>5 DEF Update, ClaimRow, drainVars
  <1>6. CASE Renew(d)
    BY <1>6 DEF Renew, RenewLease, vars
  <1>7. CASE Ack(d)
    BY <1>7 DEF Ack, Acknowledge, EndLease
  <1>8. CASE Retry(d)
    BY <1>8 DEF Retry, FailRetryable, EndLease
  <1>9. CASE Count(d)
    BY <1>9 DEF Count, FailRetryable, DeadLetter, EndLease
  <1>10. CASE GiveUp(d)
    BY <1>10 DEF GiveUp, DeadLetter, EndLease
  <1>11. CASE LeaseLost(d)
    BY <1>11 DEF LeaseLost, LeaseNotCurrent
  <1>12. CASE Crash(d)
    BY <1>12 DEF Crash
  <1> QED
    BY <1>1, <1>2, <1>3, <1>4, <1>5, <1>6, <1>7, <1>8, <1>9, <1>10, <1>11, <1>12 DEF Step

LEMMA StepHolds ==
  ASSUME DrainTypeOK, NEW d \in Holder,
         \/ StartRun(d) \/ Step(d) \/ BudgetSpent(d) \/ Accept(d) \/ SendFails(d) \/ Crash(d)
  PROVE  Holds(d)'
  <1> USE DEF Holds, Busy, DrainTypeOK, TypeOK, Point, Goto
  <1>1. CASE StartRun(d) \/ RecoverLeases(d)
    BY <1>1 DEF StartRun, RecoverLeases, RequeueDeadLetters, RecoverExpiredLeases
  <1>2. CASE \/ Peek(d) \/ Claimed(d) \/ NextRetry(d) \/ Recheck(d) \/ BatchDone(d)
             \/ Response(d) \/ BudgetSpent(d) \/ Accept(d)
    BY <1>2 DEF Peek, Claimed, NextRetry, Recheck, BatchDone, Response, BudgetSpent, Accept, vars
  <1>3. CASE SendFails(d)
    BY <1>3, OutcomesType DEF SendFails, vars
  <1>4. CASE Claim(d)
    BY <1>4 DEF Claim, SelectReady
  <1>5. CASE Update(d)
    BY <1>5 DEF Update, ClaimRow, drainVars
  <1>6. CASE Renew(d)
    BY <1>6 DEF Renew, RenewLease, Current, First, vars
  <1>7. CASE Ack(d)
    BY <1>7 DEF Ack, Acknowledge, EndLease
  <1>8. CASE Retry(d)
    BY <1>8 DEF Retry, FailRetryable, EndLease
  <1>9. CASE Count(d)
    BY <1>9 DEF Count, FailRetryable, DeadLetter, EndLease
  <1>10. CASE GiveUp(d)
    BY <1>10 DEF GiveUp, DeadLetter, EndLease
  <1>11. CASE LeaseLost(d)
    BY <1>11 DEF LeaseLost, LeaseNotCurrent
  <1>12. CASE Crash(d)
    BY <1>12 DEF Crash
  <1> QED
    BY <1>1, <1>2, <1>3, <1>4, <1>5, <1>6, <1>7, <1>8, <1>9, <1>10, <1>11, <1>12 DEF Step

\* What the server has taken in, the rows that were refused and the count of faults.
LEMMA RecordsTyped ==
  ASSUME DrainTypeOK, DrainNext
  PROVE  accepted' \subseteq Id /\ refused' \subseteq Id /\ faults' \in 0..MaxFaults
  <1>1. \A d \in Holder : \A t \in Current(d) : t.id \in Id
    BY DEF DrainTypeOK, TypeOK, Token, Current, First
  <1>2. accepted' \subseteq Id
    BY <1>1 DEF DrainNext, Step, Scan, LeaseRunsOut, RetryComesDue, StartRun, RecoverLeases, Peek,
                Claim, Update, Claimed, NextRetry, Recheck, BatchDone, Renew, Response, Ack, Retry,
                Count, GiveUp, LeaseLost, BudgetSpent, Accept, SendFails, Crash, drainVars,
                DrainTypeOK
  <1>3. refused' \subseteq Id
    BY <1>1 DEF DrainNext, Step, Scan, LeaseRunsOut, RetryComesDue, StartRun, RecoverLeases, Peek,
                Claim, Update, Claimed, NextRetry, Recheck, BatchDone, Renew, Response, Ack, Retry,
                Count, GiveUp, LeaseLost, BudgetSpent, Accept, SendFails, Crash, drainVars,
                DrainTypeOK
  <1>4. faults' = faults \/ Fault
    BY DEF DrainNext, Step, Scan, LeaseRunsOut, RetryComesDue, StartRun, RecoverLeases, Peek,
           Claim, Update, Claimed, NextRetry, Recheck, BatchDone, Renew, Response, Ack, Retry,
           Count, GiveUp, LeaseLost, BudgetSpent, Accept, SendFails, Crash, drainVars
  <1>5. faults' \in 0..MaxFaults
    BY <1>4, PolicyIsNat DEF Fault, DrainTypeOK
  <1> QED
    BY <1>2, <1>3, <1>5

LEMMA DrainKeepsType == DrainTypeOK /\ [DrainNext]_allVars => DrainTypeOK'
  <1> SUFFICES ASSUME DrainTypeOK, DrainNext PROVE DrainTypeOK'
    BY DEF allVars, vars, drainVars, DrainTypeOK, TypeOK, InStatus
  <1>1. TypeOK'
    BY DrainStepIsOutboxStep, NextTypeOK DEF DrainTypeOK
  <1>2. pc' \in [Holder -> Point] /\ \A d \in Holder : Holds(d)'
    <2>1. ASSUME NEW x \in Id, Scan(x) \/ LeaseRunsOut(x) \/ RetryComesDue(x)
          PROVE  UNCHANGED <<pc, candidates, claims>>
      BY <2>1 DEF Scan, LeaseRunsOut, RetryComesDue, Enqueue, LeaseExpires, BackoffElapses,
                  drainVars
    <2>2. CASE UNCHANGED <<pc, candidates, claims>>
      BY <2>2 DEF Holds, Busy, DrainTypeOK
    <2>3. ASSUME NEW d \in Holder,
                 \/ StartRun(d) \/ Step(d) \/ BudgetSpent(d)
                 \/ Accept(d) \/ SendFails(d) \/ Crash(d)
          PROVE  pc' \in [Holder -> Point] /\ \A e \in Holder : Holds(e)'
      <3>1. Alone(d) /\ Holds(d)'
        BY <2>3, StepIsAlone, StepHolds
      <3>2. \A e \in Holder : Holds(e)
        BY DEF Holds, Busy, DrainTypeOK
      <3> QED
        BY <3>1, <3>2 DEF Alone, Holds
    <2> QED
      BY <2>1, <2>2, <2>3 DEF DrainNext
  <1> QED
    BY <1>1, <1>2, RecordsTyped DEF DrainTypeOK, Holds, Busy

\* A drain holds candidates and leases only where its code has them, and has one
\* to work on wherever it sends or settles one.
THEOREM DrainTypeCorrect == DrainSpec => []DrainTypeOK
  <1>1. DrainInit => DrainTypeOK
    BY InitTypeOK, PolicyIsNat DEF DrainInit, Init, DrainTypeOK, Point
  <1> QED
    BY <1>1, DrainKeepsType, PTL DEF DrainSpec
-----------------------------------------------------------------------------
\* A drain about to acknowledge has its answer: the server has the row.
Answered == \A d \in Holder : pc[d] \in {"accepted", "ack"} => \A t \in Current(d) : t.id \in accepted

\* What still stands in the way of a commit: rows stored and not delivered.
Owed == {"ready", "leased", "dead_letter"}

\* Drains delete no row, and a row becomes "succeeded" by an acknowledgement only.
LEMMA WhereRowsGo ==
  ASSUME DrainTypeOK, DrainNext, NEW x \in Id, rows'[x].status # rows[x].status
  PROVE  \/ rows'[x].status \in Owed
         \/ /\ rows'[x].status = "succeeded"
            /\ \E d \in Holder : Ack(d) /\ \E t \in Current(d) : t.id = x
  <1> USE DEF DrainTypeOK, TypeOK, Owed
  <1>1. ASSUME NEW y \in Id, Scan(y) \/ LeaseRunsOut(y) \/ RetryComesDue(y)
        PROVE  rows'[x].status \in Owed
    <2>1. rows[y] \in Row
      OBVIOUS
    <2>2. CASE Enqueue(y)
      <3>1. PICK n \in 1..MaxOrder : rows' = [rows EXCEPT ![y] = FreshRow(n)]
        BY <2>2 DEF Enqueue
      <3>2. FreshRow(n).status = "ready"
        BY BoundsAreNat, FreshRowType
      <3> QED
        BY <3>1, <3>2
    <2>3. CASE LeaseExpires(y)
      BY <2>1, <2>3 DEF LeaseExpires, Row
    <2>4. CASE BackoffElapses(y)
      BY <2>1, <2>4 DEF BackoffElapses, Row
    <2> QED
      BY <1>1, <2>2, <2>3, <2>4 DEF Scan, LeaseRunsOut, RetryComesDue
  <1>2. ASSUME NEW d \in Holder, StartRun(d) \/ RecoverLeases(d)
        PROVE  rows'[x].status \in Owed
    <2>1. rows[x] \in Row
      OBVIOUS
    <2>2. Recovered(rows[x]).status = "ready" /\ Requeued(rows[x]).status = "ready"
      BY <2>1, RecoveredType, RequeuedType
    <2> QED
      BY <1>2, <2>2 DEF StartRun, RecoverLeases, RequeueDeadLetters, RecoverExpiredLeases
  <1>3. ASSUME NEW d \in Holder,
               \/ Peek(d) \/ Claimed(d) \/ NextRetry(d) \/ Recheck(d) \/ BatchDone(d)
               \/ Response(d) \/ BudgetSpent(d) \/ Accept(d) \/ SendFails(d)
               \/ Claim(d) \/ Renew(d) \/ LeaseLost(d) \/ Crash(d)
        PROVE  rows'[x].status \in Owed
    BY <1>3 DEF Peek, Claimed, NextRetry, Recheck, BatchDone, Response, BudgetSpent, Accept,
                SendFails, Claim, SelectReady, Renew, RenewLease, LeaseLost, LeaseNotCurrent,
                Crash, vars
  <1>4. ASSUME NEW d \in Holder, Update(d)
        PROVE  rows'[x].status \in Owed
    <2>1. PICK c \in First(candidates[d]) : ClaimRow(d, c)
      BY <1>4 DEF Update
    <2>2. c.id \in Id /\ c.epoch + 1 \in Nat
      BY <2>1 DEF First, Token
    <2>3. rows[c.id] \in Row
      BY <2>2
    <2> DEFINE new == [rows[c.id] EXCEPT !.status = "leased", !.holder = d,
                                         !.epoch = c.epoch + 1, !.lease = "current"]
    <2>4. rows' = rows \/ rows' = [rows EXCEPT ![c.id] = new]
      BY <2>1 DEF ClaimRow
    <2>5. new.status = "leased"
      BY <2>2, <2>3, LeasedType
    <2> HIDE DEF new
    <2> QED
      BY <2>2, <2>4, <2>5
  <1>5. ASSUME NEW d \in Holder, Retry(d) \/ Count(d) \/ GiveUp(d)
        PROVE  rows'[x].status \in Owed
    <2>1. PICK t \in Current(d) : FailRetryable(d, t) \/ DeadLetter(d, t)
      BY <1>5 DEF Retry, Count, GiveUp
    <2>2. t.id \in Id
      BY <2>1 DEF Current, First, Token
    <2>3. rows[t.id] \in Row
      BY <2>2
    <2>4. CASE FailRetryable(d, t)
      BY <2>2, <2>3, <2>4 DEF FailRetryable, EndLease, Unleased, Row
    <2>5. CASE DeadLetter(d, t)
      BY <2>2, <2>3, <2>5 DEF DeadLetter, EndLease, Unleased, Row
    <2> QED
      BY <2>1, <2>4, <2>5
  <1>6. ASSUME NEW d \in Holder, Ack(d)
        PROVE  rows'[x].status = "succeeded" /\ \E t \in Current(d) : t.id = x
    <2>1. PICK t \in Current(d) : Acknowledge(d, t)
      BY <1>6 DEF Ack
    <2>2. t.id \in Id /\ rows[t.id] \in Row
      BY <2>1 DEF Current, First, Token
    <2> QED
      BY <2>1, <2>2 DEF Acknowledge, EndLease, Unleased, Row
  <1> QED
    BY <1>1, <1>2, <1>3, <1>4, <1>5, <1>6 DEF DrainNext, Step

LEMMA AcceptedGrows == DrainNext => accepted \subseteq accepted'
  BY DEF DrainNext, Step, Scan, LeaseRunsOut, RetryComesDue, StartRun, RecoverLeases, Peek,
         Claim, Update, Claimed, NextRetry, Recheck, BatchDone, Renew, Response, Ack, Retry,
         Count, GiveUp, LeaseLost, BudgetSpent, Accept, SendFails, Crash, drainVars

LEMMA AnsweredKept ==
  ASSUME DrainTypeOK, Answered, DrainNext
  PROVE  Answered'
  <1>1. accepted \subseteq accepted'
    BY AcceptedGrows
  <1>2. ASSUME NEW x \in Id, Scan(x) \/ LeaseRunsOut(x) \/ RetryComesDue(x)
        PROVE  Answered'
    BY <1>2, <1>1 DEF Scan, LeaseRunsOut, RetryComesDue, Enqueue, LeaseExpires, BackoffElapses,
                      drainVars, Answered, Current
  <1>3. ASSUME NEW d \in Holder,
               \/ StartRun(d) \/ Step(d) \/ BudgetSpent(d)
               \/ Accept(d) \/ SendFails(d) \/ Crash(d)
        PROVE  Answered'
    <2>1. Alone(d)
      BY <1>3, StepIsAlone
    <2>2. pc'[d] \in {"accepted", "ack"} => \A t \in Current(d)' : t.id \in accepted'
      <3>1. CASE Accept(d)
        BY <3>1 DEF Accept, vars, Current, First
      <3>2. CASE Response(d)
        BY <3>2 DEF Response, vars, Current, First, Goto, Answered, DrainTypeOK
      <3>3. CASE Update(d)
        BY <3>3 DEF Update, drainVars, DrainTypeOK
      <3>4. CASE Peek(d) \/ Claimed(d) \/ NextRetry(d) \/ Recheck(d) \/ BatchDone(d)
                 \/ BudgetSpent(d) \/ Claim(d) \/ Renew(d) \/ Crash(d) \/ StartRun(d)
                 \/ RecoverLeases(d) \/ Ack(d) \/ Retry(d) \/ Count(d) \/ GiveUp(d) \/ LeaseLost(d)
        BY <3>4 DEF Peek, Claimed, NextRetry, Recheck, BatchDone, BudgetSpent, Claim, Renew,
                    Crash, StartRun, RecoverLeases, Ack, Retry, Count, GiveUp, LeaseLost, Goto,
                    DrainTypeOK
      <3>5. CASE SendFails(d)
        BY <3>5, OutcomesType DEF SendFails, Goto, DrainTypeOK
      <3> QED
        BY <1>3, <3>1, <3>2, <3>3, <3>4, <3>5 DEF Step
    <2> QED
      BY <2>1, <2>2, <1>1 DEF Alone, Answered, Current
  <1> QED
    BY <1>2, <1>3 DEF DrainNext

\* Whatever timeouts, lost answers, lost leases and crashes do to any number of
\* drains, a row is marked delivered only if the server has it.
THEOREM AcknowledgedIsAccepted == DrainSpec => []AckedWasAccepted
  <1> DEFINE IInv == AckedWasAccepted /\ Answered
  <1>1. DrainInit => IInv
    BY DEF DrainInit, Init, AckedWasAccepted, Answered, InStatus, NoRow
  <1>2. DrainTypeOK /\ IInv /\ [DrainNext]_allVars => IInv'
    <2>1. ASSUME DrainTypeOK, IInv, DrainNext PROVE IInv'
      <3>1. Answered' /\ accepted \subseteq accepted'
        BY <2>1, AnsweredKept, AcceptedGrows
      <3>2. \A x \in Id : rows'[x].status = "succeeded" => x \in accepted'
        BY <2>1, <3>1, WhereRowsGo DEF Owed, AckedWasAccepted, InStatus, Answered, Ack, Goto
      <3> QED
        BY <3>1, <3>2 DEF AckedWasAccepted, InStatus
    <2>2. ASSUME IInv, UNCHANGED allVars PROVE IInv'
      BY <2>2 DEF AckedWasAccepted, InStatus, Answered, Current, allVars, vars, drainVars
    <2> QED
      BY <2>1, <2>2
  <1> QED
    BY <1>1, <1>2, DrainTypeCorrect, PTL DEF DrainSpec
-----------------------------------------------------------------------------
\* No record batch or gap enqueued before x is still owed.
Clear(x) == rows[x].status # "absent" /\ ~HasNonSucceededPredecessor(OrderOf(x), {"record_batch", "gap"})

\* Once clear, always clear: what is delivered stays delivered, and what is
\* enqueued later comes behind x.
LEMMA ClearStays ==
  ASSUME DrainTypeOK, DrainNext, NEW x \in Id, Clear(x)
  PROVE  Clear(x)'
  <1>1. TypeOK /\ [Next]_vars
    BY DrainStepIsOutboxStep DEF DrainTypeOK
  <1>2. /\ \A y \in Id : StatusMove(y)
        /\ \A y \in Id : Kept(y)
    BY <1>1, NextMoves, NextKeeps
  <1>3. \A y \in Id : rows'[y].status # rows[y].status => rows'[y].status \in Owed \cup {"succeeded"}
    BY WhereRowsGo
  <1>4. rows'[x].status # "absent" /\ OrderOf(x)' = OrderOf(x)
    BY <1>2, <1>3 DEF Clear, Kept, OrderKept, Owed
  <1>5. ASSUME NEW y \in Id, KindOf[y] \in {"record_batch", "gap"}, rows'[y].status \in Owed,
               rows'[y].order < OrderOf(x)
        PROVE  FALSE
    <2>1. CASE rows[y].status \in Owed
      <3>1. OrderOf(y)' = OrderOf(y)
        BY <1>2, <1>5, <2>1 DEF Kept, OrderKept, Owed
      <3> QED
        BY <3>1, <1>5, <2>1 DEF Clear, HasNonSucceededPredecessor, InStatus, OrderOf, Owed
    <2>2. CASE rows[y].status = "absent"
      <3>1. Enqueue(y)
        BY <1>2, <1>5, <2>2 DEF Kept, AbsenceKept, Owed
      <3>2. PICK n \in 1..MaxOrder : IsNextOrder(n) /\ rows' = [rows EXCEPT ![y] = FreshRow(n)]
        BY <3>1 DEF Enqueue
      <3>3. rows'[y].order = n
        <4>1. FreshRow(n).order = n
          BY DEF FreshRow, NoRow
        <4> QED
          BY <3>2, <4>1, <1>1 DEF TypeOK
      <3>4. x \in Stored
        BY <1>1 DEF Clear, Stored, InStatus, TypeOK, Row
      <3>5. OrderOf(x) < n /\ OrderOf(x) \in Nat /\ n \in Nat
        BY <3>2, <3>4, <1>1, BoundsAreNat DEF IsNextOrder, TypeOK, Row, OrderOf
      <3> QED
        BY <1>5, <3>3, <3>5
    <2>3. CASE rows[y].status = "succeeded"
      BY <1>2, <1>5, <2>3 DEF StatusMove, Owed
    <2> QED
      BY <1>1, <2>1, <2>2, <2>3 DEF TypeOK, Row, Status, Owed
  <1> QED
    BY <1>4, <1>5 DEF Clear, HasNonSucceededPredecessor, InStatus, OrderOf, Owed

\* What one drain knows on its way to a commit: the head it looked at is still
\* there and clear, and so is every commit it selected or claimed.
Ahead(d) ==
    /\ pc[d] = "claimCommit" =>
           \E c \in Id : /\ rows[c].status = "ready" /\ rows[c].retry = "due"
                         /\ Clear(c)
    /\ \A t \in candidates[d] \cup claims[d] : KindOf[t.id] \in CommitKind => Clear(t.id)

\* With one drain nobody else takes the head between its peek and its claim.
LEMMA AheadKept ==
  ASSUME \A d, e \in Holder : d = e,
         DrainTypeOK, DrainNext, NEW d \in Holder, Ahead(d)
  PROVE  Ahead(d)'
  <1> USE DEF DrainTypeOK, TypeOK
  <1>1. \A x \in Id : Clear(x) => Clear(x)'
    BY ClearStays
  <1>2. \A t \in candidates[d] \cup claims[d] : t.id \in Id
    BY DEF Token
  <1>3. ASSUME NEW x \in Id, Scan(x) \/ LeaseRunsOut(x) \/ RetryComesDue(x)
        PROVE  Ahead(d)'
    <2>1. UNCHANGED <<pc, candidates, claims>>
      BY <1>3 DEF Scan, LeaseRunsOut, RetryComesDue, Enqueue, LeaseExpires, BackoffElapses,
                  drainVars
    <2>2. \A y \in Id : rows[y].status = "ready" /\ rows[y].retry = "due"
                          => rows'[y].status = "ready" /\ rows'[y].retry = "due"
      <3>1. CASE Enqueue(x)
        BY <3>1 DEF Enqueue
      <3>2. CASE LeaseExpires(x)
        BY <3>2 DEF LeaseExpires, Row
      <3>3. CASE BackoffElapses(x)
        BY <3>3 DEF BackoffElapses, Row
      <3> QED
        BY <1>3, <3>1, <3>2, <3>3 DEF Scan, LeaseRunsOut, RetryComesDue
    <2> QED
      BY <1>1, <1>2, <2>1, <2>2 DEF Ahead
  <1>4. CASE Peek(d)
    <2>1. UNCHANGED <<rows, candidates, claims>>
      BY <1>4 DEF Peek, vars
    <2>2. ASSUME pc'[d] = "claimCommit"
          PROVE  \E c \in Id : rows[c].status = "ready" /\ rows[c].retry = "due" /\ Clear(c)
      <3>1. PICK c \in Id : Claimable(c) /\ KindOf[c] \in CommitKind
        BY <1>4, <2>2 DEF Peek
      <3>2. rows[c].status = "ready" /\ rows[c].retry = "due"
        BY <3>1 DEF Claimable, IsHead, DueRows, ReadyRows, Lowest, InStatus
      <3> QED
        BY <3>1, <3>2 DEF Claimable, Clear
    <2> QED
      BY <1>1, <1>2, <2>1, <2>2 DEF Ahead, Clear, HasNonSucceededPredecessor, InStatus, OrderOf
  <1>5. CASE Claim(d)
    <2>1. UNCHANGED <<rows, claims>> /\ pc'[d] = "update"
      BY <1>5 DEF Claim, SelectReady, Goto
    <2>2. ASSUME NEW t \in candidates'[d], KindOf[t.id] \in CommitKind
          PROVE  Clear(t.id)
      <3>1. CASE pc[d] = "claimCommit" /\ SelectReady(d, {}, 1)
        <4>1. PICK c \in Id : rows[c].status = "ready" /\ rows[c].retry = "due" /\ Clear(c)
          BY <3>1 DEF Ahead
        <4>2. t.id \in ReadyRows({}, 1)
          BY <3>1, <2>2 DEF SelectReady
        <4> DEFINE S == {x \in InStatus({"ready"}) : rows[x].retry = "due" /\ KindOf[x] \notin {}}
                   T == {y \in S : OrderOf(y) < OrderOf(t.id)}
        <4>3. t.id \in S /\ Cardinality(T) < 1 /\ c \in S
          BY <4>1, <4>2 DEF ReadyRows, Lowest, InStatus
        <4>4. IsFiniteSet(T)
          <5>1. T \in SUBSET Id
            BY DEF InStatus
          <5> QED
            BY <5>1, IdIsFinite, FS_Subset
        <4>5. T = {}
          <5>1. Cardinality(T) \in Nat /\ Cardinality(T) < 1
            BY <4>3, <4>4, FS_CardinalityType
          <5>2. Cardinality(T) = 0
            BY <5>1
          <5> QED
            BY <4>4, <5>2, FS_EmptySet
        <4>6. ~(OrderOf(c) < OrderOf(t.id)) /\ t.id \in Id /\ rows[t.id].status = "ready"
          BY <4>3, <4>5 DEF InStatus
        <4>7. OrderOf(t.id) <= OrderOf(c)
          BY <4>6, <4>1 DEF Row, OrderOf
        <4>8. \A y \in Id : OrderOf(y) \in Nat
          BY DEF Row, OrderOf
        <4>9. \A y \in Id : OrderOf(y) < OrderOf(t.id) => OrderOf(y) < OrderOf(c)
          BY <4>6, <4>7, <4>8
        <4>10. HasNonSucceededPredecessor(OrderOf(t.id), {"record_batch", "gap"})
                 => HasNonSucceededPredecessor(OrderOf(c), {"record_batch", "gap"})
          BY <4>9 DEF HasNonSucceededPredecessor, InStatus
        <4>11. ~HasNonSucceededPredecessor(OrderOf(c), {"record_batch", "gap"})
          BY <4>1 DEF Clear
        <4>12. rows[t.id].status # "absent"
          BY <4>6
        <4> QED
          BY <4>10, <4>11, <4>12, Zenon DEF Clear
      <3>2. CASE SelectReady(d, CommitKind, DrainBatchSize)
        <4>1. t.id \in ReadyRows(CommitKind, DrainBatchSize)
          BY <3>2, <2>2 DEF SelectReady
        <4>2. KindOf[t.id] \notin CommitKind
          BY <4>1 DEF ReadyRows, Lowest
        <4> QED
          BY <4>2, <2>2
      <3> QED
        BY <1>5, <3>1, <3>2 DEF Claim, Goto
    <2> QED
      BY <1>1, <1>2, <2>1, <2>2 DEF Ahead, Clear, HasNonSucceededPredecessor, InStatus, OrderOf
  <1>6. CASE Update(d)
    <2>1. PICK c \in First(candidates[d]) : ClaimRow(d, c)
      BY <1>6 DEF Update
    <2>2. c \in candidates[d] /\ candidates'[d] \subseteq candidates[d]
      BY <2>1 DEF First, ClaimRow
    <2>3. \A t \in claims'[d] : t \in claims[d] \/ t.id = c.id
      BY <2>1 DEF ClaimRow
    <2>4. pc'[d] = "update"
      BY <1>6 DEF Update, drainVars
    <2> QED
      BY <1>1, <1>2, <2>2, <2>3, <2>4 DEF Ahead
  <1>7. CASE \/ StartRun(d) \/ RecoverLeases(d) \/ Claimed(d) \/ NextRetry(d) \/ Recheck(d)
             \/ BatchDone(d) \/ Renew(d) \/ Response(d) \/ Ack(d) \/ Retry(d) \/ Count(d)
             \/ GiveUp(d) \/ LeaseLost(d) \/ BudgetSpent(d) \/ Accept(d) \/ SendFails(d)
             \/ Crash(d)
    <2>1. pc'[d] # "claimCommit"
      <3>1. CASE Renew(d) \/ Response(d) \/ Ack(d) \/ Retry(d) \/ Count(d) \/ GiveUp(d)
                 \/ LeaseLost(d) \/ BudgetSpent(d) \/ Accept(d) \/ Crash(d)
        BY <3>1 DEF Renew, Response, Ack, Retry, Count, GiveUp, LeaseLost, BudgetSpent, Accept,
                    Crash, Goto
      <3>2. CASE StartRun(d) \/ RecoverLeases(d) \/ Claimed(d) \/ NextRetry(d) \/ Recheck(d)
                 \/ BatchDone(d)
        BY <3>2 DEF StartRun, RecoverLeases, Claimed, NextRetry, Recheck, BatchDone, Goto
      <3>3. CASE SendFails(d)
        BY <3>3, OutcomesType DEF SendFails, Goto
      <3> QED
        BY <1>7, <3>1, <3>2, <3>3
    <2>2. candidates'[d] \subseteq candidates[d] /\ claims'[d] \subseteq claims[d]
      <3>1. CASE StartRun(d) \/ RecoverLeases(d)
        BY <3>1 DEF StartRun, RequeueDeadLetters, RecoverLeases, RecoverExpiredLeases
      <3>2. CASE \/ Claimed(d) \/ NextRetry(d) \/ Recheck(d) \/ BatchDone(d) \/ Renew(d)
                 \/ Response(d) \/ BudgetSpent(d) \/ Accept(d) \/ SendFails(d)
        BY <3>2 DEF Claimed, NextRetry, Recheck, BatchDone, Renew, RenewLease, Response,
                    BudgetSpent, Accept, SendFails, vars
      <3>3. CASE Ack(d) \/ Retry(d) \/ Count(d) \/ GiveUp(d)
        <4>1. PICK t \in Current(d) : Acknowledge(d, t) \/ FailRetryable(d, t) \/ DeadLetter(d, t)
          BY <3>3 DEF Ack, Retry, Count, GiveUp
        <4> QED
          BY <4>1 DEF Acknowledge, FailRetryable, DeadLetter, EndLease
      <3>4. CASE LeaseLost(d)
        BY <3>4 DEF LeaseLost, LeaseNotCurrent
      <3>5. CASE Crash(d)
        BY <3>5 DEF Crash
      <3> QED
        BY <1>7, <3>1, <3>2, <3>3, <3>4, <3>5
    <2> QED
      BY <1>1, <1>2, <2>1, <2>2 DEF Ahead
  <1> QED
    BY <1>3, <1>4, <1>5, <1>6, <1>7 DEF DrainNext, Step

\* With one drain on the outbox, the server takes in no checkpoint or terminal
\* commit before every record batch and gap enqueued before it is delivered,
\* for any number of rows, faults and restarts: the cursor never passes records
\* that did not arrive. Two drains break it: one may claim the row behind the one it
\* looked at.
THEOREM OneDrainKeepsOrder ==
  ASSUME \A d, e \in Holder : d = e
  PROVE  DrainSpec => []CommitNeverOvertakes
  <1> DEFINE IInv == /\ \A x \in accepted : KindOf[x] \in CommitKind => Clear(x)
                     /\ \A d \in Holder : Ahead(d)
  <1>1. DrainInit => IInv
    BY DEF DrainInit, Init, Ahead
  <1>2. DrainTypeOK /\ IInv /\ [DrainNext]_allVars => IInv'
    <2>1. ASSUME DrainTypeOK, IInv, DrainNext PROVE IInv'
      <3>1. \A d \in Holder : Ahead(d)'
        BY <2>1, AheadKept
      <3>2. \A x \in Id : Clear(x) => Clear(x)'
        BY <2>1, ClearStays
      <3>3. ASSUME NEW x \in accepted' \ accepted, KindOf[x] \in CommitKind
            PROVE  Clear(x)
        <4>1. PICK d \in Holder : \E t \in claims[d] : t.id = x
          BY <2>1, <3>3
          DEF DrainNext, Step, Scan, LeaseRunsOut, RetryComesDue, StartRun, RecoverLeases, Peek,
              Claim, Update, Claimed, NextRetry, Recheck, BatchDone, Renew, Response, Ack, Retry,
              Count, GiveUp, LeaseLost, BudgetSpent, Accept, SendFails, Crash, drainVars, Current,
              First
        <4> QED
          BY <2>1, <3>3, <4>1 DEF Ahead
      <3>4. accepted' \subseteq Id
        BY <2>1, RecordsTyped
      <3> QED
        BY <2>1, <3>1, <3>2, <3>3, <3>4
    <2>2. ASSUME IInv, UNCHANGED allVars PROVE IInv'
      BY <2>2 DEF Ahead, Clear, HasNonSucceededPredecessor, InStatus, OrderOf, allVars, vars,
                  drainVars
    <2> QED
      BY <2>1, <2>2
  <1>3. IInv => CommitNeverOvertakes
    BY DEF CommitNeverOvertakes, Clear
  <1> QED
    BY <1>1, <1>2, <1>3, DrainTypeCorrect, PTL DEF DrainSpec
-----------------------------------------------------------------------------
\* A set of rows that is not empty has a head.
LEMMA HasHead ==
  ASSUME TypeOK, NEW S \in SUBSET Id, S # {}
  PROVE  \E x \in S : \A y \in S : OrderOf(x) <= OrderOf(y)
  <1> DEFINE orders == {OrderOf(x) : x \in S}
  <1>1. orders \in SUBSET Nat /\ orders # {}
    BY DEF TypeOK, Row, OrderOf
  <1>2. PICK n \in orders : \A m \in orders : ~(<<m, n>> \in OpToRel(<, Nat))
    BY <1>1, NatLessThanWellFounded, WFMin
  <1>3. ASSUME NEW m \in orders
        PROVE  n <= m
    <2>1. <<m, n>> \notin {pair \in Nat \X Nat : pair[1] < pair[2]}
      BY <1>2 DEF OpToRel
    <2> QED
      BY <1>1, <2>1
  <1> QED
    BY <1>2, <1>3

\* The drain looks at all that is due, however much it is.
LEMMA DueRowsAreAll ==
  ASSUME TypeOK, NEW x \in InStatus({"ready"}), rows[x].retry = "due"
  PROVE  x \in DueRows
  <1> DEFINE S == {y \in InStatus({"ready"}) : rows[y].retry = "due" /\ KindOf[y] \notin {}}
  <1>1. x \in S /\ S \in SUBSET Id
    BY DEF InStatus
  <1> HIDE DEF S
  <1>2. IsFiniteSet(Id) /\ Cardinality(Id) \in Nat
    BY IdIsFinite, FS_CardinalityType
  <1> DEFINE T == {y \in S : OrderOf(y) < OrderOf(x)}
  <1>3. T \subseteq Id \ {x}
    BY <1>1 DEF TypeOK, Row, OrderOf
  <1> HIDE DEF T
  <1>4. IsFiniteSet(Id \ {x}) /\ Cardinality(Id \ {x}) = Cardinality(Id) - 1
    BY <1>1, <1>2, FS_RemoveElement
  <1>5. IsFiniteSet(T) /\ Cardinality(T) <= Cardinality(Id \ {x})
    BY <1>3, <1>4, FS_Subset
  <1>6. Cardinality(T) < Cardinality(Id)
    BY <1>2, <1>4, <1>5, FS_CardinalityType
  <1> QED
    BY <1>1, <1>6 DEF DueRows, ReadyRows, Lowest, S, T

\* A drain that finds nothing to claim, at a time when nothing backs off, has
\* only rows before it that a commit at their head keeps back.
LEMMA NothingToClaim ==
  ASSUME TypeOK, Backoffs = {}, \A x \in Id : ~Claimable(x), NEW x \in InStatus({"ready"})
  PROVE  \E c \in Id : HeldBack(c) /\ OrderOf(c) <= OrderOf(x)
  <1>1. \A y \in InStatus({"ready"}) : rows[y].retry = "due"
    BY DEF Backoffs, InStatus, TypeOK, Row
  <1>2. InStatus({"ready"}) \in SUBSET Id
    BY DEF InStatus
  <1>3. PICK c \in InStatus({"ready"}) : \A y \in InStatus({"ready"}) : OrderOf(c) <= OrderOf(y)
    BY <1>2, HasHead
  <1>4. c \in DueRows
    BY <1>1, DueRowsAreAll
  <1>5. DueRows \subseteq InStatus({"ready"})
    BY DEF DueRows, ReadyRows, Lowest
  <1>6. IsHead(c)
    BY <1>3, <1>4, <1>5 DEF IsHead
  <1> QED
    BY <1>2, <1>3, <1>6 DEF Claimable, HeldBack

\* A drain that is alone and looks once more before it ends has nothing to wait
\* for: it asked, and only its own failures make a row wait.
LookedForBackoffs == \A d \in Holder : pc[d] = "recheck" => Backoffs = {}

LEMMA LookedKept ==
  ASSUME \A d, e \in Holder : d = e,
         DrainTypeOK, DrainNext, LookedForBackoffs
  PROVE  LookedForBackoffs'
  <1> SUFFICES ASSUME NEW d \in Holder, pc'[d] = "recheck"
               PROVE  Backoffs' = {}
    BY DEF LookedForBackoffs
  <1> USE DEF DrainTypeOK, TypeOK
  <1>1. CASE \E x \in Id : Scan(x) \/ LeaseRunsOut(x) \/ RetryComesDue(x)
    <2>1. PICK x \in Id : Scan(x) \/ LeaseRunsOut(x) \/ RetryComesDue(x)
      BY <1>1
    <2>2. Backoffs = {}
      BY <2>1 DEF Scan, LeaseRunsOut, RetryComesDue, drainVars, LookedForBackoffs
    <2>3. ASSUME NEW y \in Id, rows'[y].status = "ready", rows'[y].retry = "waiting"
          PROVE  rows[y].status = "ready" /\ rows[y].retry = "waiting"
      <3>1. CASE Enqueue(x)
        BY <2>3, <3>1 DEF Enqueue, FreshRow, NoRow
      <3>2. CASE LeaseExpires(x)
        BY <2>3, <3>2 DEF LeaseExpires, Row
      <3>3. CASE BackoffElapses(x)
        BY <2>3, <3>3 DEF BackoffElapses, Row
      <3> QED
        BY <2>1, <3>1, <3>2, <3>3 DEF Scan, LeaseRunsOut, RetryComesDue
    <2> QED
      BY <2>2, <2>3 DEF Backoffs, InStatus
  <1>2. CASE StartRun(d) \/ RecoverLeases(d) \/ Peek(d) \/ Claim(d) \/ Update(d) \/ Claimed(d)
             \/ Recheck(d) \/ BatchDone(d) \/ BudgetSpent(d) \/ Crash(d)
    BY <1>2 DEF StartRun, RecoverLeases, Peek, Claim, Update, Claimed, Recheck, BatchDone,
                BudgetSpent, Crash, Goto, drainVars
  <1>3. CASE Renew(d) \/ Response(d) \/ Ack(d) \/ Retry(d) \/ Count(d) \/ GiveUp(d)
             \/ LeaseLost(d) \/ Accept(d)
    BY <1>3 DEF Renew, Response, Ack, Retry, Count, GiveUp, LeaseLost, Accept, Goto
  <1>4. CASE SendFails(d)
    BY <1>4, OutcomesType DEF SendFails, Goto
  <1>5. CASE NextRetry(d)
    BY <1>5 DEF NextRetry, Goto, vars, Backoffs, InStatus
  <1> QED
    BY <1>1, <1>2, <1>3, <1>4, <1>5 DEF DrainNext, Step

\* With one drain on the outbox, a drain that ends of its own accord leaves no
\* row that it could send: whatever is ready stands behind a commit that an
\* undelivered record batch or gap holds back, for any number of rows and
\* whenever backoffs end and the scan enqueues. What saves it is the order of
\* its last two looks: first for rows that back off, then at the head.
THEOREM OneDrainEndsDone ==
  ASSUME \A d, e \in Holder : d = e
  PROVE  DrainSpec => EndsWithNothingToDo
  <1>1. DrainInit => LookedForBackoffs
    BY DEF DrainInit, LookedForBackoffs
  <1>2. DrainTypeOK /\ LookedForBackoffs /\ [DrainNext]_allVars => LookedForBackoffs'
    <2>1. ASSUME LookedForBackoffs, UNCHANGED allVars PROVE LookedForBackoffs'
      BY <2>1 DEF LookedForBackoffs, Backoffs, InStatus, allVars, vars, drainVars
    <2> QED
      BY <2>1, LookedKept
  <1>3. ASSUME DrainTypeOK, LookedForBackoffs, [DrainNext]_allVars, NEW d \in Holder,
               pc[d] = "recheck", pc'[d] = "off", faults' = faults
        PROVE  Backoffs = {} /\ \A x \in Id : ~Claimable(x)
    <2>1. DrainNext
      BY <1>3 DEF allVars, drainVars
    <2>2. Recheck(d)
      <3>1. faults \in Nat
        BY <1>3, PolicyIsNat DEF DrainTypeOK
      <3>2. ~SendFails(d) /\ ~Crash(d)
        BY <1>3, <3>1 DEF SendFails, Crash, Fault
      <3>3. CASE \E x \in Id : Scan(x) \/ LeaseRunsOut(x) \/ RetryComesDue(x)
        BY <1>3, <3>3 DEF Scan, LeaseRunsOut, RetryComesDue, drainVars
      <3>4. ~(\/ StartRun(d) \/ RecoverLeases(d) \/ Peek(d) \/ Claim(d) \/ Update(d)
              \/ Claimed(d) \/ NextRetry(d) \/ BatchDone(d) \/ BudgetSpent(d))
        BY <1>3 DEF StartRun, RecoverLeases, Peek, Claim, Update, Claimed, NextRetry, BatchDone,
                    BudgetSpent, Goto, drainVars
      <3>5. ~(\/ Renew(d) \/ Response(d) \/ Ack(d) \/ Retry(d) \/ Count(d) \/ GiveUp(d)
              \/ LeaseLost(d) \/ Accept(d))
        BY <1>3 DEF Renew, Response, Ack, Retry, Count, GiveUp, LeaseLost, Accept, Goto
      <3> QED
        BY <2>1, <3>2, <3>3, <3>4, <3>5 DEF DrainNext, Step
    <2>3. pc \in [Holder -> Point]
      BY <1>3 DEF DrainTypeOK
    <2> QED
      BY <1>3, <2>2, <2>3 DEF Recheck, Goto, LookedForBackoffs
  <1>4. DrainTypeOK /\ LookedForBackoffs /\ [DrainNext]_allVars =>
          \A d \in Holder : pc[d] = "recheck" /\ pc'[d] = "off" /\ faults' = faults
            => \A x \in InStatus({"ready"}) :
                   \E c \in Id : HeldBack(c) /\ OrderOf(c) <= OrderOf(x)
    BY <1>3, NothingToClaim DEF DrainTypeOK
  <1> QED
    BY <1>1, <1>2, <1>4, DrainTypeCorrect, PTL DEF DrainSpec, EndsWithNothingToDo

\* What the outbox promises by itself, it promises with any number of drains at
\* work, for each of their steps is its own: rows are forgotten only once they
\* are delivered, retired commits stay, insert orders stay apart, and a current
\* lease is moved by its holder alone.
COROLLARY DrainsKeepPromises ==
  DrainSpec => /\ ImplementsObligations
               /\ [](InsertOrderIsTotal /\ RetiredStaysRetired)
               /\ LiveLeaseUndisturbed
  BY DrainsUseOutbox, OutboxImplementsObligations, InsertOrderTotal, RetiredForever,
     LeaseIsExclusive, PTL
=============================================================================
