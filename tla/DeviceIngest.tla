---------------------------- MODULE DeviceIngest ----------------------------
(***************************************************************************)
(* The server's side of one device ingest batch: processDeviceIngestBatch  *)
(* (reference-implementation/server/routes/ref-device-exporters.ts) over   *)
(* the reservation row of stores/device-exporter-store.ts and the records  *)
(* of records.ts.                                                          *)
(*                                                                         *)
(* An attempt is one HTTP request for the batch identity. Attempts of one  *)
(* server process take turns (withDeviceIngestBatchAttempt); attempts of   *)
(* different processes meet only in the database, where each transaction   *)
(* is one step. Between two steps of an attempt, other attempts, other     *)
(* writers, a change of manifest and a crash may come.                     *)
(***************************************************************************)
EXTENDS Naturals, FiniteSets, Sequences

CONSTANTS
    Process,        \* server processes that share the database
    Attempt,        \* requests in progress at a time
    ProcessOf,      \* the process that serves each of them
    Body,           \* batch bodies sent under the one batch identity
    NoBody,
    RecordsOf,      \* the records of each body, in order
    Key, Value,
    Absent, Deleted, \* no row; a tombstone
    Facts,          \* manifest fingerprint and semantic capability, together
    FirstFacts,
    MaxChanges,     \* bound: changes of the facts
    MaxFaults       \* bound: crashes and failed requests

ASSUME AttemptsAreServed == ProcessOf \in [Attempt -> Process]
ASSUME BodiesAreRecords ==
    /\ RecordsOf \in [Body -> Seq([key : Key, value : Value \cup {Deleted}])]
    /\ \A b \in Body : RecordsOf[b] # << >>
    /\ NoBody \notin Body
ASSUME NoValues == Absent \notin Value /\ Deleted \notin Value /\ Absent # Deleted
ASSUME FactsType == FirstFacts \in Facts
ASSUME IngestBoundsAreNat == MaxChanges \in Nat /\ MaxFaults \in Nat

VARIABLES
    outcome,        \* the row of device_ingest_batch_outcomes
    records,        \* the rows of records, by key
    facts,          \* the facts in force now
    attempt,        \* what each attempt holds in memory
    written,        \* how often each record of each body was written, for WrittenOnceInOrder
    answered,       \* bodies whose sender was told they are accepted
    changes, faults

vars == <<outcome, records, facts, attempt, written, answered, changes, faults>>
-----------------------------------------------------------------------------
SizeOf(b) == Len(RecordsOf[b])
Status == {"none", "processing", "accepted"}
Point == {"idle", "lookup", "compile", "reserve", "reserved", "refresh", "reread",
          "ingest", "complete", "answer"}

Outcome == [status : Status, body : Body \cup {NoBody}, prefix : Nat, facts : Facts]
Row == [value : Value \cup {Absent, Deleted}, facts : Facts, writer : {"batch", "other"}]
Memory == [pc : Point, body : Body \cup {NoBody}, facts : Facts, start : Nat, next : Nat]

Idle == [pc |-> "idle", body |-> NoBody, facts |-> FirstFacts, start |-> 0, next |-> 0]

Init ==
    /\ outcome = [status |-> "none", body |-> NoBody, prefix |-> 0, facts |-> FirstFacts]
    /\ records = [k \in Key |-> [value |-> Absent, facts |-> FirstFacts, writer |-> "other"]]
    /\ facts = FirstFacts
    /\ attempt = [a \in Attempt |-> Idle]
    /\ written = [b \in Body |-> [i \in 1..SizeOf(b) |-> 0]]
    /\ answered = {}
    /\ changes = 0
    /\ faults = 0

At(a, point) == attempt[a].pc = point
Goto(a, point) == attempt' = [attempt EXCEPT ![a].pc = point]

Give(a) == attempt' = [attempt EXCEPT ![a] = Idle]

Fault == faults < MaxFaults /\ faults' = faults + 1

Database == <<outcome, records, written>>
World == <<facts, changes, faults>>
-----------------------------------------------------------------------------
\* Mutant: attempts of one process do not take turns.
BeginAtOnce(a, b) ==
    /\ At(a, "idle")
    /\ attempt' = [attempt EXCEPT ![a] = [Idle EXCEPT !.pc = "lookup", !.body = b]]
    /\ UNCHANGED <<Database, World, answered>>

\* withDeviceIngestBatchAttempt: the previous attempt of this process is over.
Begin(a, b) ==
    /\ \A c \in Attempt : ProcessOf[c] = ProcessOf[a] => At(c, "idle")
    /\ attempt' = [attempt EXCEPT ![a] = [Idle EXCEPT !.pc = "lookup", !.body = b]]
    /\ UNCHANGED <<Database, World, answered>>

\* Mutant: an accepted batch is replayed to whoever asks.
LookupByBatchIdAlone(a) ==
    /\ At(a, "lookup")
    /\ Goto(a, IF outcome.status = "accepted" THEN "answer" ELSE "compile")
    /\ UNCHANGED <<Database, World, answered>>

\* getBatchOutcome: another body is a conflict, an accepted batch is replayed.
Lookup(a) ==
    /\ At(a, "lookup")
    /\ IF outcome.status # "none" /\ outcome.body # attempt[a].body
       THEN Give(a)
       ELSE Goto(a, IF outcome.status = "accepted" THEN "answer" ELSE "compile")
    /\ UNCHANGED <<Database, World, answered>>

\* compileDeviceAttemptContext
Compile(a) ==
    /\ At(a, "compile")
    /\ attempt' = [attempt EXCEPT ![a].facts = facts, ![a].pc = "reserve"]
    /\ UNCHANGED <<Database, World, answered>>

\* ensureProcessingBatch, its INSERT: the first attempt to get there reserves.
Reserve(a) ==
    /\ At(a, "reserve")
    /\ outcome' = IF outcome.status = "none"
                  THEN [status |-> "processing", body |-> attempt[a].body, prefix |-> 0,
                        facts |-> attempt[a].facts]
                  ELSE outcome
    /\ Goto(a, "reserved")
    /\ UNCHANGED <<records, written, World, answered>>

Resumed(m) == [pc |-> "ingest", body |-> m.body, facts |-> m.facts,
               start |-> outcome.prefix, next |-> outcome.prefix + 1]

\* ensureProcessingBatch, the row it returns (replayOrConflict), and what the
\* attempt makes of it.
Reserved(a) ==
    /\ At(a, "reserved")
    /\ \/ outcome.body # attempt[a].body /\ Give(a)
       \/ outcome.body = attempt[a].body /\ outcome.status = "accepted" /\ Goto(a, "answer")
       \/ /\ outcome.body = attempt[a].body
          /\ outcome.status = "processing"
          /\ IF outcome.facts = attempt[a].facts
             THEN attempt' = [attempt EXCEPT ![a] = Resumed(@)]
             ELSE Goto(a, "refresh")
    /\ UNCHANGED <<Database, World, answered>>

\* refreshProcessingAttemptContext, its UPDATE: the cursor stays, the facts are
\* replaced; a batch accepted meanwhile makes the attempt fail.
Refresh(a) ==
    /\ At(a, "refresh")
    /\ IF outcome.status = "processing"
       THEN outcome' = [outcome EXCEPT !.facts = attempt[a].facts] /\ Goto(a, "reread")
       ELSE UNCHANGED outcome /\ Give(a)
    /\ UNCHANGED <<records, written, World, answered>>

\* refreshProcessingAttemptContext, the row it returns.
Reread(a) ==
    /\ At(a, "reread")
    /\ attempt' = [attempt EXCEPT ![a] = Resumed(@)]
    /\ UNCHANGED <<Database, World, answered>>
-----------------------------------------------------------------------------
Live(row) == row.value \in Value

\* ingestRecord inside its transaction: a delete of what is not there changes
\* nothing, and a delete leaves the derived facts alone; an upsert derives them
\* anew, also when the value is what it was.
Ingested(row, value, f) ==
    IF value = Deleted
    THEN IF Live(row) THEN [row EXCEPT !.value = Deleted, !.writer = "batch"] ELSE row
    ELSE [value |-> value, facts |-> f, writer |-> "batch"]

Write(b, i, f) ==
    LET rec == RecordsOf[b][i]
    IN  /\ records' = [records EXCEPT ![rec.key] = Ingested(@, rec.value, f)]
        /\ written' = [written EXCEPT ![b][i] = @ + 1]

\* advanceSqliteDeviceIngestPrefix, advancePostgresDeviceIngestPrefix
PrefixIsCurrent(m) ==
    /\ outcome.status = "processing"
    /\ outcome.body = m.body
    /\ outcome.prefix = m.next - 1

InLoop(m) == m.next <= SizeOf(m.body)

\* Mutant: the prefix is counted up from wherever it is.
IngestWithoutCompare(a) ==
    LET m == attempt[a]
    IN  /\ At(a, "ingest")
        /\ InLoop(m)
        /\ outcome.status = "processing"
        /\ Write(m.body, m.next, m.facts)
        /\ outcome' = [outcome EXCEPT !.prefix = @ + 1]
        /\ attempt' = [attempt EXCEPT ![a].next = @ + 1]
        /\ UNCHANGED <<World, answered>>

\* One turn of the record loop: the record and the prefix in one transaction,
\* or, when another attempt has moved the prefix, neither.
Ingest(a) ==
    LET m == attempt[a]
    IN  /\ At(a, "ingest")
        /\ InLoop(m)
        /\ IF PrefixIsCurrent(m)
           THEN /\ Write(m.body, m.next, m.facts)
                /\ outcome' = [outcome EXCEPT !.prefix = @ + 1]
                /\ attempt' = [attempt EXCEPT ![a].next = @ + 1]
           ELSE /\ Give(a)
                /\ UNCHANGED Database
        /\ UNCHANGED <<World, answered>>

\* finalDeviceRecordPlan, the part before the start of an attempt: the keys
\* whose last record in the batch is there.
SkippedKeys(m) ==
    {RecordsOf[m.body][i].key :
        i \in {j \in 1..m.start : \A l \in m.start + 1..SizeOf(m.body) :
                    RecordsOf[m.body][l].key # RecordsOf[m.body][j].key}}

\* Mutant: a resumed attempt leaves the records before its start as they are.
RepairNothing(a) ==
    /\ At(a, "ingest")
    /\ ~InLoop(attempt[a])
    /\ Goto(a, "complete")
    /\ UNCHANGED <<Database, World, answered>>

\* prepareDeviceFinalRecords: the skipped keys get the facts of this attempt, if
\* they are live, whoever wrote them last.
Repair(a) ==
    LET m == attempt[a]
    IN  /\ At(a, "ingest")
        /\ ~InLoop(m)
        /\ records' = [k \in Key |-> IF k \in SkippedKeys(m) /\ Live(records[k])
                                     THEN [records[k] EXCEPT !.facts = m.facts]
                                     ELSE records[k]]
        /\ Goto(a, "complete")
        /\ UNCHANGED <<outcome, written, World, answered>>

\* Mutant: the deadline also bounds an attempt that found every record durable.
DeadlineForAll(a) ==
    /\ \/ At(a, "complete")
       \/ At(a, "ingest") /\ attempt[a].next > attempt[a].start + 1
    /\ Give(a)
    /\ UNCHANGED <<Database, World, answered>>

\* assertBatchAttemptBefore: an attempt that had records left to ingest may run
\* out of time once it has ingested one, up to the completion of the batch.
Deadline(a) ==
    /\ \/ At(a, "complete")
       \/ At(a, "ingest") /\ attempt[a].next > attempt[a].start + 1
    /\ attempt[a].start < SizeOf(attempt[a].body)
    /\ Give(a)
    /\ UNCHANGED <<Database, World, answered>>

\* completeProcessingBatch: a compare-and-set on the whole reservation, under
\* the facts in force.
Complete(a) ==
    LET m == attempt[a]
    IN  /\ At(a, "complete")
        /\ IF /\ facts = m.facts
              /\ outcome.facts = m.facts
              /\ outcome.status = "processing"
              /\ outcome.body = m.body
              /\ outcome.prefix = SizeOf(outcome.body)
           THEN outcome' = [outcome EXCEPT !.status = "accepted"] /\ Goto(a, "answer")
           ELSE UNCHANGED outcome /\ Give(a)
        /\ UNCHANGED <<records, written, World, answered>>

\* The response, of this attempt or replayed.
Answer(a) ==
    /\ At(a, "answer")
    /\ answered' = answered \cup {attempt[a].body}
    /\ Give(a)
    /\ UNCHANGED <<Database, World>>
-----------------------------------------------------------------------------
\* An error anywhere in an attempt: it ends, with 503 or no answer at all.
Fail(a) ==
    /\ ~At(a, "idle")
    /\ Fault
    /\ Give(a)
    /\ UNCHANGED <<Database, facts, changes, answered>>

\* A server process dies; what its attempts held in memory is gone.
Crash(p) ==
    /\ \E a \in Attempt : ProcessOf[a] = p /\ ~At(a, "idle")
    /\ Fault
    /\ attempt' = [a \in Attempt |-> IF ProcessOf[a] = p THEN Idle ELSE attempt[a]]
    /\ UNCHANGED <<Database, facts, changes, answered>>

\* A connector is registered anew, or the semantic backend changes.
FactsChange(f) ==
    /\ f # facts
    /\ changes < MaxChanges
    /\ changes' = changes + 1
    /\ facts' = f
    /\ UNCHANGED <<Database, attempt, answered, faults>>

\* Another batch or a direct ingest writes one of the keys.
OtherWrite(k, value) ==
    /\ records' = [records EXCEPT ![k] = [value |-> value, facts |-> facts, writer |-> "other"]]
    /\ UNCHANGED <<outcome, written, attempt, World, answered>>

Step(a) ==
    \/ Lookup(a) \/ Compile(a) \/ Reserve(a) \/ Reserved(a) \/ Refresh(a) \/ Reread(a)
    \/ Ingest(a) \/ Repair(a) \/ Complete(a) \/ Answer(a)

Next ==
    \/ \E a \in Attempt : \/ \E b \in Body : Begin(a, b)
                          \/ Step(a) \/ Deadline(a) \/ Fail(a)
    \/ \E p \in Process : Crash(p)
    \/ \E f \in Facts : FactsChange(f)
    \/ \E k \in Key, v \in Value \cup {Deleted} : OtherWrite(k, v)

Spec == Init /\ [][Next]_vars

\* The collector keeps sending a batch it has no answer for; a request that has
\* begun goes on. Nothing says that a deadline is ever met.
Fairness ==
    \A a \in Attempt : /\ WF_vars(answered = {} /\ \E b \in Body : Begin(a, b))
                       /\ WF_vars(Step(a))

FairSpec == Spec /\ Fairness
-----------------------------------------------------------------------------
\* Every variable has its type, an attempt never runs past its batch, and one
\* that is over has left nothing behind.
TypeOK ==
    /\ outcome \in Outcome
    /\ records \in [Key -> Row]
    /\ facts \in Facts
    /\ attempt \in [Attempt -> Memory]
    /\ answered \subseteq Body
    /\ changes \in 0..MaxChanges
    /\ faults \in 0..MaxFaults
    /\ outcome.status = "none" <=> outcome.body = NoBody
    /\ outcome.body \in Body => outcome.prefix <= SizeOf(outcome.body)
    /\ \A a \in Attempt :
           /\ At(a, "idle") => attempt[a] = Idle
           /\ At(a, "ingest") => attempt[a].next <= SizeOf(attempt[a].body) + 1

\* However many attempts race, die or run out of time, every record of the batch
\* is written once and in order, and no record of a refused body ever.
WrittenOnceInOrder ==
    \A b \in Body : \A i \in 1..SizeOf(b) :
        written[b][i] = IF outcome.body = b /\ i <= outcome.prefix THEN 1 ELSE 0

\* When a batch becomes accepted, every live row it wrote last carries facts
\* derived under the manifest in force at that moment, also the rows an earlier
\* attempt wrote under an older one.
AcceptedUnderCurrentFacts ==
    [][outcome.status = "processing" /\ outcome'.status = "accepted" =>
         \A i \in 1..SizeOf(outcome.body) :
             LET row == records[RecordsOf[outcome.body][i].key]
             IN  Live(row) /\ row.writer = "batch" => row.facts = facts]_vars

\* The batch identity stands for the first body that reserved it; only that body
\* is ever answered "accepted", and only when all of its records are in.
Promise == INSTANCE BatchPromise WITH
               RecordCount <- [b \in Body |-> SizeOf(b)],
               taken <- outcome.body,
               effective <- outcome.prefix

KeepsPromise == Promise!Spec

\* A batch the collector keeps retrying is accepted in the end: an attempt that
\* runs out of time leaves the next one closer, and one that finds every record
\* durable is not bounded at all.
EventuallyAnswered == <>(answered # {})
=============================================================================
