------------------------ MODULE DeviceIngest_proofs ------------------------
(***************************************************************************)
(* Proofs about DeviceIngest, for every set of processes, attempts, bodies *)
(* and facts.                                                              *)
(***************************************************************************)
EXTENDS DeviceIngest, TLAPS

\* The number of records of a body is a positive number, and each of them has a
\* key and a value.
LEMMA BodyType ==
    ASSUME NEW b \in Body
    PROVE  /\ SizeOf(b) \in Nat
           /\ \A i \in 1..SizeOf(b) : /\ RecordsOf[b][i].key \in Key
                                      /\ RecordsOf[b][i].value \in Value \cup {Deleted}
  <1> DEFINE Rec == [key : Key, value : Value \cup {Deleted}]
  <1>1. RecordsOf[b] \in Seq(Rec)
    BY BodiesAreRecords
  <1>2. ASSUME NEW i \in 1..SizeOf(b)
        PROVE  RecordsOf[b][i] \in Rec
    <2> HIDE DEF Rec
    <2> QED
      BY <1>1 DEF SizeOf
  <1>3. SizeOf(b) \in Nat
    <2> HIDE DEF Rec
    <2> QED
      BY <1>1 DEF SizeOf
  <1> QED
    BY <1>2, <1>3
-----------------------------------------------------------------------------
(***************************************************************************)
(* The inductive invariant. An attempt that has read the reservation works *)
(* on the reserved body; one that is about to answer has seen it accepted; *)
(* what was written is told by the reservation alone.                      *)
(***************************************************************************)
Working == {"refresh", "reread", "ingest", "complete", "answer"}

MemoryOK(m, o) ==
    /\ m \in Memory
    /\ m.pc = "idle" => m = Idle
    /\ m.pc # "idle" => m.body \in Body
    /\ m.pc \in Working => m.body = o.body
    /\ m.pc = "answer" => o.status = "accepted"
    /\ m.pc = "ingest" => m.next <= SizeOf(m.body) + 1

OutcomeOK ==
    /\ outcome \in Outcome
    /\ outcome.status = "none" <=> outcome.body = NoBody
    /\ outcome.status = "none" => outcome.prefix = 0
    /\ outcome.body \in Body => outcome.prefix <= SizeOf(outcome.body)
    /\ outcome.status = "accepted" => outcome.prefix = SizeOf(outcome.body)

AnsweredOK == answered # {} => outcome.status = "accepted" /\ answered = {outcome.body}

RestOK ==
    /\ records \in [Key -> Row]
    /\ facts \in Facts
    /\ changes \in 0..MaxChanges
    /\ faults \in 0..MaxFaults

WrittenExactly ==
    written = [b \in Body |-> [i \in 1..SizeOf(b) |->
                   IF outcome.body = b /\ i <= outcome.prefix THEN 1 ELSE 0]]

IInv ==
    /\ OutcomeOK
    /\ RestOK
    /\ AnsweredOK
    /\ WrittenExactly
    /\ attempt \in [Attempt -> Memory]
    /\ \A a \in Attempt : MemoryOK(attempt[a], outcome)

\* The invariant holds initially.
LEMMA InitIInv == Init => IInv
  <1> SUFFICES ASSUME Init PROVE IInv
    OBVIOUS
  <1> USE FactsType, BodiesAreRecords, NoValues, IngestBoundsAreNat DEF Init
  <1>1. Idle \in Memory /\ Idle.pc = "idle" /\ Idle.body = NoBody
    BY DEF Idle, Memory, Point
  <1>2. OutcomeOK
    BY DEF OutcomeOK, Outcome, Status
  <1>3. RestOK
    BY DEF RestOK, Row
  <1>4. AnsweredOK
    BY DEF AnsweredOK
  <1>5. WrittenExactly
    BY BodyType DEF WrittenExactly
  <1>6. \A a \in Attempt : MemoryOK(attempt[a], outcome)
    BY <1>1 DEF MemoryOK, Working
  <1> QED
    BY <1>1, <1>2, <1>3, <1>4, <1>5, <1>6 DEF IInv

\* A step that changes the memory of one attempt, and of the reservation at most
\* its facts, its prefix or its acceptance, keeps all other attempts right.
LEMMA OthersStayOK ==
    ASSUME IInv, NEW a \in Attempt, NEW m,
           attempt' = [attempt EXCEPT ![a] = m], MemoryOK(m, outcome'),
           outcome.body # NoBody => outcome'.body = outcome.body,
           outcome.status = "accepted" => outcome'.status = "accepted"
    PROVE  /\ attempt' \in [Attempt -> Memory]
           /\ \A c \in Attempt : MemoryOK(attempt'[c], outcome')
  <1>1. attempt' \in [Attempt -> Memory]
    BY DEF IInv, MemoryOK
  <1>2. MemoryOK(attempt'[a], outcome')
    BY DEF IInv
  <1>3. ASSUME NEW c \in Attempt, c # a PROVE MemoryOK(attempt'[c], outcome')
    <2>1. attempt'[c] = attempt[c] /\ MemoryOK(attempt[c], outcome)
      BY <1>3 DEF IInv
    <2>2. attempt[c].pc \in Working => outcome.body # NoBody
      BY <2>1, BodiesAreRecords DEF MemoryOK, Working
    <2> QED
      BY <2>1, <2>2 DEF MemoryOK
  <1> QED
    BY <1>1, <1>2, <1>3

\* A step of one attempt that leaves the database alone keeps the invariant.
LEMMA MemoryStep ==
    ASSUME IInv, NEW a \in Attempt, NEW m,
           attempt' = [attempt EXCEPT ![a] = m], MemoryOK(m, outcome),
           UNCHANGED <<outcome, records, written, facts, changes, answered>>,
           faults' \in 0..MaxFaults
    PROVE  IInv'
  <1>1. MemoryOK(m, outcome')
    BY DEF MemoryOK
  <1>2. /\ attempt' \in [Attempt -> Memory]
        /\ \A c \in Attempt : MemoryOK(attempt'[c], outcome')
    BY <1>1, OthersStayOK
  <1>3. OutcomeOK' /\ RestOK' /\ AnsweredOK' /\ WrittenExactly'
    BY DEF IInv, OutcomeOK, RestOK, AnsweredOK, WrittenExactly
  <1> QED
    BY <1>2, <1>3 DEF IInv

\* Giving up is always right.
LEMMA IdleIsOK == MemoryOK(Idle, outcome)
  BY FactsType DEF MemoryOK, Idle, Memory, Point, Working

\* Before the reservation.
LEMMA BeginIInv == ASSUME IInv, NEW a \in Attempt, NEW b \in Body, Begin(a, b) PROVE IInv'
  <1> DEFINE m == [Idle EXCEPT !.pc = "lookup", !.body = b]
  <1>1. MemoryOK(m, outcome)
    BY FactsType DEF MemoryOK, Idle, Memory, Point, Working
  <1> QED
    BY <1>1, MemoryStep DEF Begin, Database, World, IInv, RestOK

LEMMA LookupIInv == ASSUME IInv, NEW a \in Attempt, Lookup(a) PROVE IInv'
  <1>1. MemoryOK(attempt[a], outcome) /\ OutcomeOK
    BY DEF IInv
  <1>2. CASE outcome.status # "none" /\ outcome.body # attempt[a].body
    BY <1>2, IdleIsOK, MemoryStep DEF Lookup, Give, Database, World, IInv, RestOK
  <1>3. CASE ~(outcome.status # "none" /\ outcome.body # attempt[a].body)
    <2> DEFINE point == IF outcome.status = "accepted" THEN "answer" ELSE "compile"
               m == [attempt[a] EXCEPT !.pc = point]
    <2>1. MemoryOK(m, outcome)
      BY <1>1, <1>3 DEF MemoryOK, Memory, Point, Working, Lookup, At, OutcomeOK
    <2> QED
      BY <1>3, <2>1, MemoryStep DEF Lookup, Goto, Database, World, IInv, RestOK
  <1> QED
    BY <1>2, <1>3

LEMMA CompileIInv == ASSUME IInv, NEW a \in Attempt, Compile(a) PROVE IInv'
  <1> DEFINE m == [attempt[a] EXCEPT !.facts = facts, !.pc = "reserve"]
  <1>1. MemoryOK(m, outcome)
    BY DEF MemoryOK, Memory, Point, Working, Compile, At, IInv, RestOK
  <1>2. attempt' = [attempt EXCEPT ![a] = m]
    BY DEF Compile, IInv, Memory
  <1> QED
    BY <1>1, <1>2, MemoryStep DEF Compile, Database, World, IInv, RestOK

\* The reservation.
LEMMA ReserveIInv == ASSUME IInv, NEW a \in Attempt, Reserve(a) PROVE IInv'
  <1> DEFINE m == [attempt[a] EXCEPT !.pc = "reserved"]
  <1>1. MemoryOK(attempt[a], outcome) /\ OutcomeOK /\ attempt[a].body \in Body /\ attempt[a].facts \in Facts
    BY DEF IInv, MemoryOK, Memory, Reserve, At
  <1>2. MemoryOK(m, outcome')
    BY <1>1 DEF MemoryOK, Memory, Point, Working, Reserve, At
  <1>3. /\ attempt' \in [Attempt -> Memory]
        /\ \A c \in Attempt : MemoryOK(attempt'[c], outcome')
    BY <1>1, <1>2, OthersStayOK DEF Reserve, Goto, OutcomeOK
  <1>4. CASE outcome.status # "none"
    BY <1>3, <1>4 DEF Reserve, IInv, OutcomeOK, RestOK, AnsweredOK, WrittenExactly, World
  <1>5. CASE outcome.status = "none"
    <2>1. outcome' = [status |-> "processing", body |-> attempt[a].body, prefix |-> 0,
                      facts |-> attempt[a].facts]
      BY <1>5 DEF Reserve
    <2>2. OutcomeOK'
      BY <2>1, <1>1, BodyType, BodiesAreRecords DEF OutcomeOK, Outcome, Status
    <2>3. WrittenExactly'
      BY <2>1, <1>1, <1>5, BodiesAreRecords, BodyType DEF IInv, WrittenExactly, OutcomeOK, Reserve
    <2>4. RestOK' /\ AnsweredOK'
      BY <1>5 DEF IInv, RestOK, AnsweredOK, Reserve, World
    <2> QED
      BY <1>3, <2>2, <2>3, <2>4 DEF IInv
  <1> QED
    BY <1>4, <1>5

\* Taking up the prefix of the reserved body keeps the memory right.
LEMMA ResumedIsOK ==
    ASSUME IInv, NEW m, MemoryOK(m, outcome), m.body \in Body, m.body = outcome.body
    PROVE  MemoryOK(Resumed(m), outcome)
  <1>1. /\ outcome.prefix \in Nat
        /\ outcome.prefix <= SizeOf(m.body)
        /\ SizeOf(m.body) \in Nat
    BY BodyType DEF IInv, OutcomeOK, Outcome
  <1>2. Resumed(m) \in Memory
    BY <1>1 DEF MemoryOK, Memory, Point, Resumed
  <1> QED
    BY <1>1, <1>2 DEF MemoryOK, Working, Resumed

LEMMA ReservedIInv == ASSUME IInv, NEW a \in Attempt, Reserved(a) PROVE IInv'
  <1>1. MemoryOK(attempt[a], outcome) /\ attempt[a].body \in Body
    BY DEF IInv, MemoryOK, Reserved, At
  <1>2. CASE Give(a)
    BY <1>2, IdleIsOK, MemoryStep DEF Reserved, Give, Database, World, IInv, RestOK
  <1>3. CASE outcome.body = attempt[a].body /\ outcome.status = "accepted" /\ Goto(a, "answer")
    <2>1. MemoryOK([attempt[a] EXCEPT !.pc = "answer"], outcome)
      BY <1>1, <1>3 DEF MemoryOK, Memory, Point, Working
    <2> QED
      BY <1>3, <2>1, MemoryStep DEF Reserved, Goto, Database, World, IInv, RestOK
  <1>4. CASE outcome.body = attempt[a].body /\ attempt' = [attempt EXCEPT ![a] = Resumed(@)]
    BY <1>1, <1>4, ResumedIsOK, MemoryStep DEF Reserved, Database, World, IInv, RestOK
  <1>5. CASE outcome.body = attempt[a].body /\ Goto(a, "refresh")
    <2>1. MemoryOK([attempt[a] EXCEPT !.pc = "refresh"], outcome)
      BY <1>1, <1>5 DEF MemoryOK, Memory, Point, Working
    <2> QED
      BY <1>5, <2>1, MemoryStep DEF Reserved, Goto, Database, World, IInv, RestOK
  <1> QED
    BY <1>2, <1>3, <1>4, <1>5 DEF Reserved

LEMMA RefreshIInv == ASSUME IInv, NEW a \in Attempt, Refresh(a) PROVE IInv'
  <1>1. MemoryOK(attempt[a], outcome) /\ OutcomeOK /\ attempt[a].facts \in Facts
    BY DEF IInv, MemoryOK, Memory
  <1>2. CASE outcome.status # "processing"
    BY <1>2, IdleIsOK, MemoryStep DEF Refresh, Give, World, IInv, RestOK
  <1>3. CASE outcome.status = "processing"
    <2> DEFINE m == [attempt[a] EXCEPT !.pc = "reread"]
    <2>1. outcome' = [outcome EXCEPT !.facts = attempt[a].facts] /\ Goto(a, "reread")
      BY <1>3 DEF Refresh
    <2>2. OutcomeOK' /\ outcome'.body = outcome.body /\ outcome'.status = outcome.status
          /\ outcome'.prefix = outcome.prefix
      BY <1>1, <2>1 DEF OutcomeOK, Outcome
    <2>3. MemoryOK(m, outcome')
      BY <1>1, <2>2 DEF MemoryOK, Memory, Point, Working, Refresh, At
    <2>4. /\ attempt' \in [Attempt -> Memory]
          /\ \A c \in Attempt : MemoryOK(attempt'[c], outcome')
      BY <2>1, <2>2, <2>3, OthersStayOK DEF Goto
    <2>5. RestOK' /\ AnsweredOK' /\ WrittenExactly'
      BY <2>2 DEF Refresh, IInv, RestOK, AnsweredOK, WrittenExactly, World
    <2> QED
      BY <2>2, <2>4, <2>5 DEF IInv
  <1> QED
    BY <1>2, <1>3

LEMMA RereadIInv == ASSUME IInv, NEW a \in Attempt, Reread(a) PROVE IInv'
  <1>1. MemoryOK(attempt[a], outcome) /\ attempt[a].body \in Body /\ attempt[a].body = outcome.body
    BY DEF IInv, MemoryOK, Reread, At, Working
  <1> QED
    BY <1>1, ResumedIsOK, MemoryStep DEF Reread, Database, World, IInv, RestOK
-----------------------------------------------------------------------------
(***************************************************************************)
(* The record loop and the completion.                                     *)
(***************************************************************************)
LEMMA IngestIInv == ASSUME IInv, NEW a \in Attempt, Ingest(a) PROVE IInv'
  <1> DEFINE m == attempt[a]
             n == [m EXCEPT !.next = @ + 1]
             b == m.body
  <1>1. /\ MemoryOK(m, outcome) /\ OutcomeOK
        /\ m.pc = "ingest" /\ m.next <= SizeOf(b)
        /\ b \in Body /\ b = outcome.body
        /\ m \in Memory /\ m.next \in Nat /\ m.facts \in Facts
    BY DEF IInv, MemoryOK, Memory, Ingest, At, InLoop, Working
  <1>2. CASE ~PrefixIsCurrent(m)
    BY <1>2, IdleIsOK, MemoryStep DEF Ingest, Give, Database, World, IInv, RestOK
  <1>3. CASE PrefixIsCurrent(m)
    <2>1. /\ outcome.status = "processing"
          /\ outcome.prefix = m.next - 1
          /\ outcome.prefix \in Nat
          /\ m.next \in 1..SizeOf(b)
      BY <1>1, <1>3, BodyType DEF PrefixIsCurrent, OutcomeOK, Outcome
    <2>2. /\ outcome' = [outcome EXCEPT !.prefix = @ + 1]
          /\ Write(b, m.next, m.facts)
          /\ attempt' = [attempt EXCEPT ![a] = n]
      BY <1>1, <1>3 DEF Ingest, IInv
    <2>3. /\ outcome' \in Outcome
          /\ outcome'.status = outcome.status
          /\ outcome'.body = outcome.body
          /\ outcome'.prefix = m.next
      BY <1>1, <2>1, <2>2 DEF OutcomeOK, Outcome
    <2>4. OutcomeOK'
      BY <1>1, <2>1, <2>3 DEF OutcomeOK
    <2>5. MemoryOK(n, outcome')
      BY <1>1, <2>1, <2>3, BodyType DEF MemoryOK, Memory, Working
    <2>6. /\ attempt' \in [Attempt -> Memory]
          /\ \A c \in Attempt : MemoryOK(attempt'[c], outcome')
      BY <2>2, <2>3, <2>5, OthersStayOK
    <2>7. WrittenExactly'
      <3>1. written' = [written EXCEPT ![b][m.next] = @ + 1]
        BY <2>2 DEF Write
      <3>2. \A c \in Body : written'[c] = [i \in 1..SizeOf(c) |->
                IF outcome'.body = c /\ i <= outcome'.prefix THEN 1 ELSE 0]
        <4> TAKE c \in Body
        <4>1. CASE c # b
          BY <1>1, <2>3, <3>1, <4>1 DEF IInv, WrittenExactly
        <4>2. CASE c = b
          <5>1. written[b] = [i \in 1..SizeOf(b) |-> IF i <= outcome.prefix THEN 1 ELSE 0]
            BY <1>1 DEF IInv, WrittenExactly
          <5>2. written'[b] = [written[b] EXCEPT ![m.next] = @ + 1]
            BY <1>1, <3>1 DEF IInv, WrittenExactly
          <5>3. written'[b] = [i \in 1..SizeOf(b) |-> IF i <= m.next THEN 1 ELSE 0]
            BY <1>1, <2>1, <5>1, <5>2, BodyType
          <5> QED
            BY <1>1, <2>3, <4>2, <5>3
        <4> QED
          BY <4>1, <4>2
      <3> QED
        BY <3>1, <3>2 DEF IInv, WrittenExactly
    <2>8. RestOK'
      <3>1. records' \in [Key -> Row]
        BY <1>1, <2>1, <2>2, BodyType DEF Write, Ingested, IInv, RestOK, Row
      <3> QED
        BY <3>1 DEF Ingest, World, IInv, RestOK
    <2>9. AnsweredOK'
      BY <2>3 DEF Ingest, IInv, AnsweredOK
    <2> QED
      BY <2>4, <2>6, <2>7, <2>8, <2>9 DEF IInv
  <1> QED
    BY <1>2, <1>3

LEMMA RepairIInv == ASSUME IInv, NEW a \in Attempt, Repair(a) PROVE IInv'
  <1> DEFINE m == [attempt[a] EXCEPT !.pc = "complete"]
  <1>1. MemoryOK(attempt[a], outcome) /\ attempt[a].facts \in Facts
    BY DEF IInv, MemoryOK, Memory
  <1>2. MemoryOK(m, outcome')
    BY <1>1 DEF MemoryOK, Memory, Point, Working, Repair, At
  <1>3. /\ attempt' \in [Attempt -> Memory]
        /\ \A c \in Attempt : MemoryOK(attempt'[c], outcome')
    BY <1>2, OthersStayOK DEF Repair, Goto
  <1>4. records' \in [Key -> Row]
    BY <1>1 DEF Repair, IInv, RestOK, Row
  <1> QED
    BY <1>3, <1>4 DEF Repair, World, IInv, OutcomeOK, RestOK, AnsweredOK, WrittenExactly

LEMMA DeadlineIInv == ASSUME IInv, NEW a \in Attempt, Deadline(a) PROVE IInv'
  BY IdleIsOK, MemoryStep DEF Deadline, Give, Database, World, IInv, RestOK

LEMMA CompleteIInv == ASSUME IInv, NEW a \in Attempt, Complete(a) PROVE IInv'
  <1>1. MemoryOK(attempt[a], outcome) /\ OutcomeOK
    BY DEF IInv
  <1>2. CASE Give(a) /\ UNCHANGED outcome
    BY <1>2, IdleIsOK, MemoryStep DEF Complete, Give, World, IInv, RestOK
  <1>3. CASE ~(Give(a) /\ UNCHANGED outcome)
    <2> DEFINE m == [attempt[a] EXCEPT !.pc = "answer"]
    <2>1. /\ outcome' = [outcome EXCEPT !.status = "accepted"]
          /\ Goto(a, "answer")
          /\ outcome.status = "processing"
          /\ outcome.body = attempt[a].body
          /\ outcome.prefix = SizeOf(outcome.body)
      BY <1>3 DEF Complete
    <2>2. /\ OutcomeOK'
          /\ outcome'.body = outcome.body
          /\ outcome'.prefix = outcome.prefix
          /\ outcome'.status = "accepted"
      BY <1>1, <2>1 DEF OutcomeOK, Outcome, Status
    <2>3. MemoryOK(m, outcome')
      BY <1>1, <2>1, <2>2 DEF MemoryOK, Memory, Point, Working, Complete, At
    <2>4. /\ attempt' \in [Attempt -> Memory]
          /\ \A c \in Attempt : MemoryOK(attempt'[c], outcome')
      BY <2>1, <2>2, <2>3, OthersStayOK DEF Goto
    <2> QED
      BY <2>1, <2>2, <2>4 DEF Complete, World, IInv, RestOK, AnsweredOK, WrittenExactly
  <1> QED
    BY <1>2, <1>3

LEMMA AnswerIInv == ASSUME IInv, NEW a \in Attempt, Answer(a) PROVE IInv'
  <1>1. MemoryOK(attempt[a], outcome) /\ attempt[a].body = outcome.body /\ outcome.status = "accepted"
    BY DEF IInv, MemoryOK, Answer, At, Working
  <1>2. /\ attempt' \in [Attempt -> Memory]
        /\ \A c \in Attempt : MemoryOK(attempt'[c], outcome')
    BY IdleIsOK, OthersStayOK DEF Answer, Give, Database
  <1> QED
    BY <1>1, <1>2 DEF Answer, Database, World, IInv, OutcomeOK, RestOK, AnsweredOK, WrittenExactly
-----------------------------------------------------------------------------
(***************************************************************************)
(* Failures and the environment, and the invariant as a whole.             *)
(***************************************************************************)
LEMMA FailIInv == ASSUME IInv, NEW a \in Attempt, Fail(a) PROVE IInv'
  <1>1. faults' \in 0..MaxFaults
    BY IngestBoundsAreNat DEF Fail, Fault, IInv, RestOK
  <1> QED
    BY <1>1, IdleIsOK, MemoryStep DEF Fail, Give, Database

LEMMA CrashIInv == ASSUME IInv, NEW p \in Process, Crash(p) PROVE IInv'
  <1>1. \A c \in Attempt : MemoryOK(attempt'[c], outcome')
    BY IdleIsOK DEF Crash, Database, IInv
  <1>2. attempt' \in [Attempt -> Memory]
    BY IdleIsOK DEF Crash, IInv, MemoryOK
  <1>3. OutcomeOK' /\ AnsweredOK' /\ WrittenExactly'
    BY DEF Crash, Database, IInv, OutcomeOK, AnsweredOK, WrittenExactly
  <1>4. RestOK'
    BY IngestBoundsAreNat DEF Crash, Fault, Database, IInv, RestOK
  <1> QED
    BY <1>1, <1>2, <1>3, <1>4 DEF IInv

LEMMA FactsChangeIInv == ASSUME IInv, NEW f \in Facts, FactsChange(f) PROVE IInv'
  BY IngestBoundsAreNat
  DEF FactsChange, Database, IInv, OutcomeOK, RestOK, AnsweredOK, WrittenExactly

LEMMA OtherWriteIInv ==
    ASSUME IInv, NEW k \in Key, NEW v \in Value \cup {Deleted}, OtherWrite(k, v) PROVE IInv'
  <1>1. records' \in [Key -> Row]
    BY DEF OtherWrite, IInv, RestOK, Row
  <1> QED
    BY <1>1 DEF OtherWrite, World, IInv, OutcomeOK, RestOK, AnsweredOK, WrittenExactly

\* Every step keeps the invariant.
LEMMA NextIInv == IInv /\ [Next]_vars => IInv'
  <1> SUFFICES ASSUME IInv, [Next]_vars PROVE IInv'
    OBVIOUS
  <1>1. CASE UNCHANGED vars
    BY <1>1 DEF vars, IInv, OutcomeOK, RestOK, AnsweredOK, WrittenExactly
  <1>2. ASSUME NEW a \in Attempt, NEW b \in Body, Begin(a, b) PROVE IInv'
    BY <1>2, BeginIInv
  <1>3. ASSUME NEW a \in Attempt, Step(a) PROVE IInv'
    BY <1>3, LookupIInv, CompileIInv, ReserveIInv, ReservedIInv, RefreshIInv, RereadIInv,
       IngestIInv, RepairIInv, CompleteIInv, AnswerIInv DEF Step
  <1>4. ASSUME NEW a \in Attempt, Deadline(a) \/ Fail(a) PROVE IInv'
    BY <1>4, DeadlineIInv, FailIInv
  <1>5. ASSUME NEW p \in Process, Crash(p) PROVE IInv'
    BY <1>5, CrashIInv
  <1>6. ASSUME NEW f \in Facts, FactsChange(f) PROVE IInv'
    BY <1>6, FactsChangeIInv
  <1>7. ASSUME NEW k \in Key, NEW v \in Value \cup {Deleted}, OtherWrite(k, v) PROVE IInv'
    BY <1>7, OtherWriteIInv
  <1> QED
    BY <1>1, <1>2, <1>3, <1>4, <1>5, <1>6, <1>7 DEF Next

LEMMA Invariant == Spec => []IInv
  BY InitIInv, NextIInv, PTL DEF Spec

\* Every variable of the ingest keeps its type, and no attempt runs past the end
\* of its batch.
THEOREM IngestTypeCorrect == Spec => []TypeOK
  <1>1. IInv => TypeOK
    BY DEF IInv, OutcomeOK, RestOK, AnsweredOK, MemoryOK, TypeOK, At, Outcome
  <1> QED
    BY <1>1, Invariant, PTL

\* For any number of attempts and server processes, each record of the reserved
\* body is written once and in order, and no other body is written at all.
THEOREM ExactlyOnce == Spec => []WrittenOnceInOrder
  <1>1. IInv => WrittenOnceInOrder
    BY DEF IInv, WrittenExactly, WrittenOnceInOrder
  <1> QED
    BY <1>1, Invariant, PTL
-----------------------------------------------------------------------------
(***************************************************************************)
(* The refinement.                                                         *)
(***************************************************************************)
LEMMA StepKeepsPromise ==
    IInv /\ [Next]_vars => [Promise!Next]_(Promise!promise)
  <1> SUFFICES ASSUME IInv, [Next]_vars
               PROVE  Promise!Next \/ UNCHANGED Promise!promise
    OBVIOUS
  <1>1. CASE UNCHANGED <<outcome, answered>>
    BY <1>1 DEF Promise!promise
  <1>2. ASSUME NEW a \in Attempt, Reserve(a)
        PROVE  Promise!Next \/ UNCHANGED Promise!promise
    <2>1. attempt[a].body \in Body /\ OutcomeOK
      BY <1>2 DEF Reserve, At, IInv, MemoryOK
    <2>2. CASE outcome.status # "none"
      BY <1>2, <2>2 DEF Reserve, Promise!promise
    <2>3. CASE outcome.status = "none"
      <3>1. outcome.body = NoBody /\ outcome.prefix = 0
        BY <2>1, <2>3 DEF OutcomeOK
      <3> QED
        BY <1>2, <2>1, <2>3, <3>1 DEF Reserve, Promise!Next, Promise!Take
    <2> QED
      BY <2>2, <2>3
  <1>3. ASSUME NEW a \in Attempt, Refresh(a) \/ Complete(a)
        PROVE  UNCHANGED Promise!promise
    BY <1>3 DEF Refresh, Complete, Promise!promise, IInv, OutcomeOK, Outcome
  <1>4. ASSUME NEW a \in Attempt, Ingest(a), UNCHANGED outcome
        PROVE  UNCHANGED Promise!promise
    BY <1>4 DEF Ingest, Promise!promise
  <1>5. ASSUME NEW a \in Attempt, Ingest(a), ~UNCHANGED outcome
        PROVE  Promise!Next
    <2>1. /\ attempt[a].next <= SizeOf(attempt[a].body)
          /\ outcome.body = attempt[a].body
          /\ outcome.prefix = attempt[a].next - 1
          /\ outcome' = [outcome EXCEPT !.prefix = @ + 1]
          /\ UNCHANGED answered
      BY <1>5 DEF Ingest, InLoop, PrefixIsCurrent, Database
    <2>2. attempt[a].body \in Body /\ attempt[a].next \in Nat /\ outcome \in Outcome
      BY <1>5 DEF Ingest, At, IInv, MemoryOK, Memory, OutcomeOK
    <2>3. /\ outcome.body # NoBody
          /\ outcome.prefix < SizeOf(outcome.body)
          /\ outcome'.prefix = outcome.prefix + 1
          /\ outcome'.body = outcome.body
      BY <2>1, <2>2, BodyType, BodiesAreRecords DEF Outcome
    <2> QED
      BY <2>1, <2>2, <2>3 DEF Promise!Next, Promise!TakeEffect
  <1>6. ASSUME NEW a \in Attempt, Answer(a)
        PROVE  Promise!Next
    <2>1. /\ attempt[a].body \in Body
          /\ attempt[a].body = outcome.body
          /\ outcome.status = "accepted"
          /\ outcome.prefix = SizeOf(outcome.body)
      BY <1>6 DEF Answer, At, IInv, MemoryOK, Working, OutcomeOK
    <2>2. answered' = {outcome.body} /\ UNCHANGED outcome
      BY <1>6, <2>1 DEF Answer, Database, IInv, AnsweredOK
    <2> QED
      BY <2>1, <2>2, BodiesAreRecords DEF Promise!Next, Promise!Answer
  <1> QED
    BY <1>1, <1>2, <1>3, <1>4, <1>5, <1>6
    DEF Next, Step, vars, Begin, Lookup, Compile, Reserved, Reread, Repair, Deadline, Fail,
        Crash, FactsChange, OtherWrite, Database

\* Whatever races, crashes and runs out of time, the server keeps its promise
\* about the batch: the abstract specification is implemented.
THEOREM IngestKeepsPromise == Spec => KeepsPromise
  <1>1. Init => Promise!Init
    BY DEF Init, Promise!Init
  <1> QED
    BY <1>1, StepKeepsPromise, Invariant, PTL DEF Spec, KeepsPromise, Promise!Spec
-----------------------------------------------------------------------------
(***************************************************************************)
(* Facts, when one process serves every attempt: attempts take turns, and  *)
(* the attempt under way has already seen to each key it is done with.     *)
(***************************************************************************)
OneProcess == \A a, c \in Attempt : ProcessOf[a] = ProcessOf[c]

Turns == \A a, c \in Attempt : ~At(a, "idle") /\ ~At(c, "idle") => a = c

\* A row the batch wrote last, if live, carries the facts f.
Carries(row, f) == Live(row) /\ row.writer = "batch" => row.facts = f

Done(m, i, rows) == Carries(rows[RecordsOf[m.body][i].key], m.facts)

SeenTo(m, rows) ==
    /\ m.pc = "ingest" => \A i \in m.start + 1..m.next - 1 : Done(m, i, rows)
    /\ m.pc = "complete" => \A i \in 1..SizeOf(m.body) : Done(m, i, rows)

FInv == Turns /\ \A a \in Attempt : SeenTo(attempt[a], records)

\* Every step of one attempt finds the others idle and leaves them so; it is then
\* enough to look at that attempt.
LEMMA OnlyOneMoves ==
    ASSUME IInv, FInv, NEW a \in Attempt, NEW m,
           attempt' = [attempt EXCEPT ![a] = m],
           \A c \in Attempt : c # a => At(c, "idle"),
           SeenTo(m, records')
    PROVE  FInv'
  <1>1. \A c \in Attempt : c # a => attempt'[c].pc = "idle"
    BY DEF At
  <1>2. attempt'[a] = m
    BY DEF IInv
  <1> QED
    BY <1>1, <1>2 DEF FInv, Turns, At, SeenTo

\* Ingesting record i leaves the batch's rows with the facts of the attempt
\* wherever they had them, and gives them to the key of record i.
LEMMA IngestSeesTo ==
    ASSUME IInv, FInv, NEW a \in Attempt, Ingest(a)
    PROVE  SeenTo(attempt'[a], records')
  <1> DEFINE m == attempt[a]
             rec == RecordsOf[m.body][m.next]
  <1>1. m \in Memory /\ m.pc = "ingest" /\ m.next <= SizeOf(m.body) /\ m.body \in Body
    BY DEF Ingest, At, InLoop, IInv, MemoryOK
  <1>2. CASE ~PrefixIsCurrent(m)
    BY <1>2 DEF Ingest, Give, IInv, SeenTo, Idle
  <1>3. CASE PrefixIsCurrent(m)
    <2>1. /\ attempt'[a] = [m EXCEPT !.next = @ + 1]
          /\ records' = [records EXCEPT ![rec.key] = Ingested(@, rec.value, m.facts)]
      BY <1>1, <1>3 DEF Ingest, Write, IInv
    <2>2. /\ m.next \in Nat /\ m.start \in Nat /\ m.facts \in Facts
          /\ m.next >= 1
          /\ rec.key \in Key /\ rec.value \in Value \cup {Deleted}
      BY <1>1, <1>3, BodyType DEF Memory, PrefixIsCurrent, IInv, OutcomeOK, Outcome
    <2>3. /\ attempt'[a].pc = "ingest" /\ attempt'[a].start = m.start
          /\ attempt'[a].next = m.next + 1 /\ attempt'[a].body = m.body
          /\ attempt'[a].facts = m.facts
      BY <1>1, <2>1, <2>2 DEF Memory
    <2>4. records \in [Key -> Row]
      BY DEF IInv, RestOK
    <2>5. Carries(records'[rec.key], m.facts)
      BY <2>1, <2>2, <2>4, NoValues DEF Carries, Ingested, Live, Row
    <2>6. ASSUME NEW k \in Key, Carries(records[k], m.facts)
          PROVE  Carries(records'[k], m.facts)
      BY <2>1, <2>2, <2>4, <2>5, <2>6
    <2>7. ASSUME NEW i \in m.start + 1..m.next PROVE Done(m, i, records')
      <3>1. CASE i = m.next
        BY <2>5, <3>1 DEF Done
      <3>2. CASE i # m.next
        <4>1. i \in m.start + 1..m.next - 1 /\ i \in 1..SizeOf(m.body)
          BY <1>1, <2>2, <2>7, <3>2, BodyType
        <4>2. Done(m, i, records)
          BY <1>1, <4>1 DEF FInv, SeenTo
        <4>3. RecordsOf[m.body][i].key \in Key
          BY <1>1, <4>1, BodyType
        <4> QED
          BY <4>2, <4>3, <2>6 DEF Done
      <3> QED
        BY <3>1, <3>2
    <2>8. attempt'[a].start + 1..attempt'[a].next - 1 = m.start + 1..m.next
      BY <2>2, <2>3
    <2> QED
      BY <2>3, <2>7, <2>8 DEF SeenTo, Done
  <1> QED
    BY <1>2, <1>3

\* The repair gives the facts of the attempt to every key it did not ingest
\* itself: a key is skipped, or its last record is one the attempt has ingested.
LEMMA RepairSeesTo ==
    ASSUME IInv, FInv, NEW a \in Attempt, Repair(a)
    PROVE  SeenTo(attempt'[a], records')
  <1> DEFINE m == attempt[a]
  <1>1. m \in Memory /\ m.pc = "ingest" /\ m.next > SizeOf(m.body) /\ m.body \in Body
    BY BodyType DEF Repair, At, InLoop, IInv, MemoryOK, Memory
  <1>2. /\ m.next \in Nat /\ m.start \in Nat /\ m.facts \in Facts /\ SizeOf(m.body) \in Nat
    BY <1>1, BodyType DEF Memory
  <1>3. /\ attempt'[a].pc = "complete" /\ attempt'[a].body = m.body
        /\ attempt'[a].facts = m.facts
    BY <1>1 DEF Repair, Goto, IInv, Memory
  <1>4. \A k \in Key : records'[k] = IF k \in SkippedKeys(m) /\ Live(records[k])
                                     THEN [records[k] EXCEPT !.facts = m.facts]
                                     ELSE records[k]
    BY DEF Repair
  <1>5. \A k \in Key : records[k] \in Row
    BY DEF IInv, RestOK
  <1>6. ASSUME NEW k \in Key, k \in SkippedKeys(m) PROVE Carries(records'[k], m.facts)
    BY <1>4, <1>5, <1>6 DEF Carries, Row
  <1>7. ASSUME NEW k \in Key, Carries(records[k], m.facts) PROVE Carries(records'[k], m.facts)
    BY <1>4, <1>5, <1>6, <1>7
  <1>8. ASSUME NEW i \in 1..SizeOf(m.body) PROVE Done(m, i, records')
    <2> DEFINE k == RecordsOf[m.body][i].key
    <2>1. k \in Key
      BY <1>1, BodyType
    <2>2. ASSUME NEW l \in m.start + 1..SizeOf(m.body), RecordsOf[m.body][l].key = k
          PROVE  Carries(records'[k], m.facts)
      <3>1. l \in m.start + 1..m.next - 1
        BY <1>1, <1>2
      <3>2. Done(m, l, records)
        BY <1>1, <3>1 DEF FInv, SeenTo
      <3> QED
        BY <2>1, <2>2, <3>2, <1>7 DEF Done
    <2>3. CASE \E l \in m.start + 1..SizeOf(m.body) : RecordsOf[m.body][l].key = k
      BY <2>2, <2>3 DEF Done
    <2>4. CASE ~\E l \in m.start + 1..SizeOf(m.body) : RecordsOf[m.body][l].key = k
      <3>1. i \in 1..m.start
        BY <1>2, <2>4
      <3>2. k \in SkippedKeys(m)
        BY <2>4, <3>1 DEF SkippedKeys
      <3> QED
        BY <2>1, <3>2, <1>6 DEF Done
    <2> QED
      BY <2>3, <2>4
  <1> QED
    BY <1>3, <1>8 DEF SeenTo, Done

\* With one process, no attempt begins while another is under way.
LEMMA NextFInv == ASSUME OneProcess PROVE IInv /\ FInv /\ [Next]_vars => FInv'
  <1> SUFFICES ASSUME IInv, FInv, [Next]_vars PROVE FInv'
    OBVIOUS
  <1>1. CASE UNCHANGED vars
    BY <1>1 DEF vars, FInv, Turns, At
  <1>2. ASSUME NEW a \in Attempt, ~At(a, "idle"), NEW c \in Attempt, c # a
        PROVE  At(c, "idle")
    BY <1>2 DEF FInv, Turns
  <1>3. ASSUME NEW a \in Attempt, NEW b \in Body, Begin(a, b) PROVE FInv'
    <2> DEFINE m == [Idle EXCEPT !.pc = "lookup", !.body = b]
    <2>1. \A c \in Attempt : At(c, "idle")
      BY <1>3, OneProcess DEF Begin, OneProcess
    <2>2. m.pc = "lookup"
      BY DEF Idle
    <2> QED
      BY <1>3, <2>1, <2>2, OnlyOneMoves DEF Begin, SeenTo
  <1>4. ASSUME NEW a \in Attempt, ~At(a, "idle"), NEW m, m.pc \notin {"ingest", "complete"},
               attempt' = [attempt EXCEPT ![a] = m]
        PROVE  FInv'
    BY <1>2, <1>4, OnlyOneMoves DEF SeenTo
  <1>5. ASSUME NEW a \in Attempt, ~At(a, "idle"), Give(a) PROVE FInv'
    BY <1>4, <1>5 DEF Give, Idle
  <1>6. ASSUME NEW a \in Attempt, ~At(a, "idle"), NEW point \in Point \ {"ingest", "complete"},
               Goto(a, point)
        PROVE  FInv'
    BY <1>4, <1>6 DEF Goto, IInv, Memory
  <1>7. ASSUME NEW a \in Attempt, ~At(a, "idle"), attempt' = [attempt EXCEPT ![a] = Resumed(@)]
        PROVE  FInv'
    <2> DEFINE m == Resumed(attempt[a])
    <2>1. outcome.prefix \in Nat
      BY DEF IInv, OutcomeOK, Outcome
    <2>2. m.start + 1..m.next - 1 = {} /\ m.pc = "ingest"
      BY <2>1 DEF Resumed
    <2> QED
      BY <1>2, <1>7, <2>2, OnlyOneMoves DEF SeenTo
  <1>8. ASSUME NEW a \in Attempt, Step(a) PROVE FInv'
    <2>1. ~At(a, "idle")
      BY <1>8 DEF Step, At, Lookup, Compile, Reserve, Reserved, Refresh, Reread, Ingest, Repair,
                  Complete, Answer
    <2>2. CASE Lookup(a)
      BY <2>1, <2>2, <1>5, <1>6 DEF Lookup, Point
    <2>3. CASE Compile(a)
      <3>1. attempt' = [attempt EXCEPT ![a] = [attempt[a] EXCEPT !.facts = facts, !.pc = "reserve"]]
        BY <2>3 DEF Compile, IInv
      <3>2. [attempt[a] EXCEPT !.facts = facts, !.pc = "reserve"].pc = "reserve"
        BY DEF IInv, Memory
      <3> QED
        BY <2>1, <3>1, <3>2, <1>4
    <2>4. CASE Reserve(a)
      BY <2>1, <2>4, <1>6 DEF Reserve, Point
    <2>5. CASE Reserved(a)
      BY <2>1, <2>5, <1>5, <1>6, <1>7 DEF Reserved, Point
    <2>6. CASE Refresh(a)
      BY <2>1, <2>6, <1>5, <1>6 DEF Refresh, Point
    <2>7. CASE Reread(a)
      BY <2>1, <2>7, <1>7 DEF Reread
    <2>8. CASE Ingest(a)
      <3>1. PICK m : attempt' = [attempt EXCEPT ![a] = m]
        BY <2>8 DEF Ingest, Give
      <3>2. attempt'[a] = m
        BY <3>1 DEF IInv
      <3> QED
        BY <2>1, <2>8, <3>1, <3>2, <1>2, IngestSeesTo, OnlyOneMoves
    <2>9. CASE Repair(a)
      <3>1. PICK m : attempt' = [attempt EXCEPT ![a] = m]
        BY <2>9 DEF Repair, Goto
      <3>2. attempt'[a] = m
        BY <3>1 DEF IInv
      <3> QED
        BY <2>1, <2>9, <3>1, <3>2, <1>2, RepairSeesTo, OnlyOneMoves
    <2>10. CASE Complete(a)
      BY <2>1, <2>10, <1>5, <1>6 DEF Complete, Point
    <2>11. CASE Answer(a)
      BY <2>1, <2>11, <1>5 DEF Answer
    <2> QED
      BY <1>8, <2>2, <2>3, <2>4, <2>5, <2>6, <2>7, <2>8, <2>9, <2>10, <2>11 DEF Step
  <1>9. ASSUME NEW a \in Attempt, Deadline(a) \/ Fail(a) PROVE FInv'
    BY <1>5, <1>9 DEF Deadline, Fail, At
  <1>10. ASSUME NEW p \in Process, Crash(p) PROVE FInv'
    BY <1>10 DEF Crash, Database, FInv, Turns, At, SeenTo, Idle, IInv
  <1>11. ASSUME NEW f \in Facts, FactsChange(f) PROVE FInv'
    BY <1>11 DEF FactsChange, Database, FInv, Turns, At
  <1>12. ASSUME NEW k \in Key, NEW v \in Value \cup {Deleted}, OtherWrite(k, v) PROVE FInv'
    <2>1. \A l \in Key, f \in Facts : Carries(records[l], f) => Carries(records'[l], f)
      BY <1>12 DEF OtherWrite, Carries, IInv, RestOK
    <2>2. \A a \in Attempt : SeenTo(attempt[a], records')
      <3> SUFFICES ASSUME NEW a \in Attempt PROVE SeenTo(attempt[a], records')
        OBVIOUS
      <3>1. attempt[a] \in Memory /\ attempt[a].facts \in Facts /\ SeenTo(attempt[a], records)
        BY DEF IInv, FInv, Memory
      <3>2. ASSUME NEW i \in 1..SizeOf(attempt[a].body), attempt[a].body \in Body,
                   Done(attempt[a], i, records)
            PROVE  Done(attempt[a], i, records')
        BY <2>1, <3>1, <3>2, BodyType DEF Done
      <3>3. attempt[a].pc \in {"ingest", "complete"} =>
              /\ attempt[a].body \in Body
              /\ SizeOf(attempt[a].body) \in Nat
              /\ attempt[a].start \in Nat /\ attempt[a].next \in Nat
        BY <3>1, BodyType DEF IInv, MemoryOK, Memory
      <3>4. attempt[a].pc = "ingest" =>
              attempt[a].start + 1..attempt[a].next - 1 \subseteq 1..SizeOf(attempt[a].body)
        BY <3>3 DEF IInv, MemoryOK
      <3> QED
        BY <3>1, <3>2, <3>3, <3>4 DEF SeenTo
    <2> QED
      BY <1>12, <2>2 DEF OtherWrite, FInv, Turns, At
  <1> QED
    BY <1>1, <1>3, <1>8, <1>9, <1>10, <1>11, <1>12 DEF Next

\* With one server process, whatever happened to earlier attempts, a batch is
\* accepted only with every live row it wrote last derived under the facts in
\* force. (IngestStaleRepair shows that two processes can break this.)
THEOREM AcceptedFacts == ASSUME OneProcess PROVE Spec => AcceptedUnderCurrentFacts
  <1>1. Init => FInv
    BY DEF Init, FInv, Turns, At, Idle, SeenTo
  <1>2. IInv /\ FInv /\ [Next]_vars =>
          [outcome.status = "processing" /\ outcome'.status = "accepted" =>
             \A i \in 1..SizeOf(outcome.body) :
                 LET row == records[RecordsOf[outcome.body][i].key]
                 IN  Live(row) /\ row.writer = "batch" => row.facts = facts]_vars
    <2> SUFFICES ASSUME IInv, FInv, Next,
                        outcome.status = "processing", outcome'.status = "accepted",
                        NEW i \in 1..SizeOf(outcome.body)
                 PROVE  Carries(records[RecordsOf[outcome.body][i].key], facts)
      BY DEF Carries
    <2>1. PICK a \in Attempt : Complete(a)
      <3>1. outcome # outcome'
        OBVIOUS
      <3>2. ASSUME NEW a \in Attempt, Reserve(a) \/ Refresh(a) \/ Ingest(a) PROVE FALSE
        BY <3>2 DEF Reserve, Refresh, Ingest, IInv, OutcomeOK, Outcome, Database
      <3> QED
        BY <3>1, <3>2 DEF Next, Step, Begin, Lookup, Compile, Reserved, Reread, Repair, Answer,
              Deadline, Fail, Crash, FactsChange, OtherWrite, Database
    <2>2. /\ attempt[a].pc = "complete"
          /\ attempt[a].facts = facts
          /\ attempt[a].body = outcome.body
      BY <2>1 DEF Complete, At
    <2> QED
      BY <2>2 DEF FInv, SeenTo, Done
  <1>3. Spec => []FInv
    BY <1>1, Invariant, NextFInv, PTL DEF Spec
  <1> QED
    BY <1>2, <1>3, Invariant, PTL DEF Spec, AcceptedUnderCurrentFacts
=============================================================================
