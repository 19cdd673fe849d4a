---------------------------- MODULE SearchIndex ----------------------------
(***************************************************************************)
(* One stream of one connector instance, its two derived search indexes,   *)
(* and the dirty mark that says that they may not match the records        *)
(* (reference-implementation/server: records.ts, search.ts,                *)
(* search-semantic.ts, search-index-reconcile.ts and                       *)
(* stores/search-index-dirty-store.ts).                                    *)
(*                                                                         *)
(* A write commits the record and the mark together, and leaves a job that *)
(* publishes the record's index entries later. Two workers compare and     *)
(* rebuild whole indexes: the reconcile, which clears the mark, and the    *)
(* backfill that follows a start or a registration, which does not. Both   *)
(* read outside of transactions; what a transaction writes is fenced by    *)
(* what it reads again.                                                    *)
(*                                                                         *)
(* A text stands for what a record says in all of its fields. A stream     *)
(* that the manifest does not name declares no fields.                     *)
(***************************************************************************)
EXTENDS Naturals, Sequences, FiniteSets

CONSTANTS
    N,                  \* records are 1..N
    Field,
    Manifests,          \* what a manifest declares: [Family -> SUBSET Field]
    FirstManifests,     \* bound: those that the stream starts with
    Models,             \* what an embedding backend is known by: its identity
    FirstModels,        \* bound: those that the server starts with
    None,
    MaxWrites,          \* bound: writes of records
    MaxGen,             \* bound: storage generations
    MaxEvents           \* bound: everything that disturbs, writes included

ASSUME NIsPositive == N \in Nat \ {0}
ASSUME BoundsAreNaturals == {MaxWrites, MaxGen, MaxEvents} \subseteq Nat
ASSUME NoneIsNothing ==
    /\ None \notin Nat /\ None \notin Models
    /\ None \notin [no : Nat, is : Models \cup {None}]
    /\ None \notin [fields : SUBSET Field, by : Models \cup {None}]

Family == {"lexical", "semantic"}
Rec == 1..N
Text == 1..MaxWrites

ASSUME ManifestsDeclareFields ==
    Manifests \subseteq [Family -> SUBSET Field] /\ FirstManifests \subseteq Manifests

ASSUME FirstAreModels == FirstModels \subseteq Models

VARIABLES
    rec,            \* the records: [ver, text], without a text when deleted
    manifest,       \* the manifest in the registry
    index,          \* the entries of each index: [rec, field, text, by]
    meta,           \* what an index was built for: [fields, by], or None
    mark,           \* the row of search_index_dirty
    backend,        \* the embedding backend: which one, and its identity
    jobs,           \* the queue of publications; the first is being computed
    work,           \* the state of each worker
    due,            \* a start that is under way, or a backfill that is to start
    gen,            \* the storage generation of the process
    unmarked,       \* the indexes that changed their terms, and nothing marked since
    writes, events

tables == <<rec, manifest, index, meta, mark>>
memory == <<jobs, work, due>>
bounds == <<writes, events>>
vars == <<tables, memory, backend, gen, unmarked, bounds>>
-----------------------------------------------------------------------------
Live(r) == rec[r].text # None

HasBackend == backend.is # None
Backend == IF HasBackend THEN backend ELSE None

\* A semantic entry is hashed together with the identity of the backend that
\* embedded it.
Identity(f, back) == IF f = "semantic" /\ back # None THEN back.is ELSE None

EntriesOf(r, text, fields, by) ==
    {[rec |-> r, field |-> x, text |-> text, by |-> by] : x \in fields}

Canonical(fields, by) ==
    UNION {EntriesOf(r, rec[r].text, fields, by) : r \in {q \in Rec : Live(q)}}

\* What an index should hold now, and what its meta should say.
By(f) == Identity(f, Backend)
Expected(f) == Canonical(manifest[f], By(f))
Built(fields, by) == [fields |-> fields, by |-> by]

Worker == {"reconcile", "backfill"}

Idle == [at |-> "idle", rev |-> 0, gen |-> 0, man |-> None, family |-> "lexical",
         next |-> 1, seen |-> None, back |-> None]

Clean == [dirty |-> FALSE, rev |-> 0, waiting |-> FALSE, parked |-> FALSE]

NoRecords == [r \in Rec |-> [ver |-> 0, text |-> None]]
NoIndex == [f \in Family |-> {}]
NoMeta == [f \in Family |-> None]

Init ==
    /\ rec = NoRecords /\ index = NoIndex /\ meta = NoMeta /\ mark = Clean
    /\ manifest \in FirstManifests
    /\ backend \in [no : {1}, is : FirstModels]
    /\ jobs = <<>> /\ work = [w \in Worker |-> Idle] /\ due = "none"
    /\ gen = 1 /\ unmarked = {}
    /\ writes = 0 /\ events = 0

Events(k) == events + k <= MaxEvents /\ events' = events + k /\ UNCHANGED writes
Event == Events(1)
NoEvent == UNCHANGED bounds

\* A start serves requests after it has configured the backend.
Serving == due # "backend"
-----------------------------------------------------------------------------
(* the mark                                                                 *)

\* A new mark ends the backoff, unless an operator has parked the scope.
Marked ==
    [mark EXCEPT !.dirty = TRUE, !.rev = @ + 1, !.waiting = IF mark.parked THEN @ ELSE FALSE]

Eligible == mark.dirty /\ ~mark.parked /\ ~mark.waiting

\* The row is still as a round with this revision has listed it.
MarkIs(rev) == mark.dirty /\ mark.rev = rev /\ ~mark.parked

\* Mutant: the revision is not compared.
ClearedAlways(rev) == [mark EXCEPT !.dirty = FALSE, !.waiting = FALSE]

Cleared(rev) == IF MarkIs(rev) THEN [mark EXCEPT !.dirty = FALSE, !.waiting = FALSE] ELSE mark

Delayed(rev) == IF MarkIs(rev) THEN [mark EXCEPT !.waiting = TRUE] ELSE mark

Park ==
    /\ Serving
    /\ mark.dirty
    /\ mark' = [mark EXCEPT !.parked = TRUE, !.rev = @ + 1]
    /\ UNCHANGED <<rec, manifest, index, meta, memory, backend, gen, unmarked>> /\ Event

Rearm ==
    /\ Serving
    /\ mark.dirty
    /\ mark' = [mark EXCEPT !.parked = FALSE, !.waiting = FALSE, !.rev = @ + 1]
    /\ UNCHANGED <<rec, manifest, index, meta, memory, backend, gen, unmarked>> /\ Event

BackoffElapses ==
    /\ mark.waiting
    /\ mark' = [mark EXCEPT !.waiting = FALSE]
    /\ UNCHANGED <<rec, manifest, index, meta, memory, backend, gen, unmarked>> /\ NoEvent
-----------------------------------------------------------------------------
(* writes of records, and the publication each of them schedules            *)

Job(r, text) ==
    [rec |-> r, ver |-> rec[r].ver + 1, text |-> text, gen |-> gen, at |-> "lexical",
     lexical |-> None, semantic |-> None, kept |-> {}, back |-> None]

\* An upsert brings a new text; a delete of what is not there does nothing.
Write(r) ==
    /\ Serving /\ writes < MaxWrites /\ events < MaxEvents
    /\ \E text \in {writes + 1} \cup (IF Live(r) THEN {None} ELSE {}) :
        /\ rec' = [rec EXCEPT ![r] = [ver |-> @.ver + 1, text |-> text]]
        /\ jobs' = Append(jobs, Job(r, text))
    /\ mark' = Marked
    /\ unmarked' = {}
    /\ writes' = writes + 1 /\ events' = events + 1
    /\ UNCHANGED <<manifest, index, meta, work, due, backend, gen>>

\* The job that runs; an instance runs its jobs one after the other.
Has(p) == jobs # <<>> /\ Head(jobs).at = p
Current == Head(jobs)
Advance(j) == jobs' = [jobs EXCEPT ![1] = j]
Drop == jobs' = Tail(jobs)
JobReads == UNCHANGED <<tables, work, due, backend, gen, unmarked>> /\ NoEvent

\* The fields to publish are read from the manifest before the transaction.
ComputeLexical ==
    /\ Has("lexical")
    /\ LET j == Current
       IN IF j.gen # gen THEN Drop
          ELSE IF j.text = None THEN Advance([j EXCEPT !.at = "publish"])
          ELSE Advance([j EXCEPT !.at = "semantic",
                                 !.lexical = IF manifest["lexical"] = {} THEN None ELSE manifest])
    /\ JobReads

\* Entries that are there with the same text are not embedded again.
ComputeSemantic ==
    /\ Has("semantic")
    /\ LET j == Current
           fields == IF HasBackend THEN manifest["semantic"] ELSE {}
       IN Advance([j EXCEPT
              !.at = "publish",
              !.semantic = IF fields = {} THEN None ELSE manifest,
              !.kept = EntriesOf(j.rec, j.text, fields, By("semantic")) \cap index["semantic"],
              !.back = IF fields = {} THEN None ELSE Backend])
    /\ JobReads

\* Mutants: the version of the record is not compared; the generation is not.
IsCurrentByLife(j) == j.gen = gen /\ Live(j.rec) = (j.text # None)
IsCurrentByVersion(j) == rec[j.rec].ver = j.ver /\ Live(j.rec) = (j.text # None)

IsCurrent(j) == j.gen = gen /\ rec[j.rec].ver = j.ver /\ Live(j.rec) = (j.text # None)

\* The declarations that were computed with are still the current ones.
Computed(j) ==
    /\ j.lexical \in {None, manifest}
    /\ j.semantic # None =>
        j.semantic = manifest /\ j.back = Backend /\ j.kept \subseteq index["semantic"]

Publish ==
    /\ Has("publish")
    /\ Drop
    /\ LET j == Current
           rest(f) == {e \in index[f] : e.rec # j.rec}
           entries(f) == EntriesOf(j.rec, j.text, manifest[f], By(f))
       IN IF ~IsCurrent(j) \/ ~Computed(j) THEN UNCHANGED <<index, meta>>
          ELSE IF j.text = None
          THEN /\ index' = [index EXCEPT !["lexical"] = rest("lexical"),
                                         !["semantic"] = IF HasBackend THEN rest("semantic") ELSE @]
               /\ UNCHANGED meta
          ELSE /\ index' = [f \in Family |->
                               IF j[f] = None THEN index[f] ELSE rest(f) \cup entries(f)]
               /\ meta' = [f \in Family |->
                              IF j[f] = None \/ (f = "semantic" /\ j.kept = entries(f))
                              THEN meta[f] ELSE Built(manifest[f], By(f))]
    /\ UNCHANGED <<rec, manifest, mark, work, due, backend, gen, unmarked>> /\ NoEvent

\* What fails is not tried again; the mark stays.
JobFails ==
    /\ jobs # <<>>
    /\ Drop
    /\ UNCHANGED <<tables, work, due, backend, gen, unmarked>> /\ Event
-----------------------------------------------------------------------------
(* manifests and the backend                                                *)

\* An install publishes the manifest and marks the stream in one transaction,
\* when the old or the new manifest searches it, and marks it again when the
\* manifest is the old one: the repair of an earlier attempt may have failed.
Install(m) ==
    /\ Serving
    /\ manifest' = m
    /\ IF \E f \in Family : manifest[f] \cup m[f] # {}
       THEN mark' = Marked /\ unmarked' = {}
       ELSE UNCHANGED <<mark, unmarked>>
    /\ UNCHANGED <<rec, index, meta, memory, backend, gen>> /\ Event

\* A registration marks nothing; it goes on with a backfill.
Register(m) ==
    /\ Serving
    /\ manifest' = m
    /\ unmarked' = unmarked \cup {f \in Family : m[f] # manifest[f]}
    /\ due' = "backfill"
    /\ UNCHANGED <<rec, index, meta, mark, jobs, work, backend, gen>> /\ Event

\* A start takes a backend, of the same identity or another, or none. That marks
\* nothing; what is dirty stays so.
Configured(m) ==
    unmarked' = IF m = backend.is \/ mark.dirty THEN unmarked ELSE unmarked \cup {"semantic"}

\* Bound: an exchange of the identity counts as an event of its own.
Exchanges(m) == IF m = backend.is THEN 0 ELSE 1

\* The start goes on with the backfill.
ConfigureBackend ==
    /\ due = "backend"
    /\ \E m \in Models \cup {None} :
        /\ backend' = [no |-> backend.no + 1, is |-> m]
        /\ Configured(m) /\ Events(Exchanges(m))
    /\ due' = "backfill"
    /\ UNCHANGED <<tables, jobs, work, gen>>
-----------------------------------------------------------------------------
(* the workers                                                              *)

At(w, p) == work[w].at = p
Become(w, s) == work' = [work EXCEPT ![w] = s]
Stop(w) == Become(w, Idle)

\* A backfill leaves nothing behind, whether it ends or fails.
Moved(w, p) ==
    IF w = "backfill" /\ p \in {"complete", "fail"} THEN Idle
    ELSE [work[w] EXCEPT !.at = p, !.next = 1, !.seen = None]

Goto(w, p) == Become(w, Moved(w, p))

\* The next page of records from a cursor on is r, one record long; there is
\* none after N.
NextLive(n, r) == (r \in Rec => Live(r)) /\ \A q \in n..r - 1 : ~Live(q)

Reads == UNCHANGED <<tables, jobs, due, backend, gen, unmarked>> /\ NoEvent
Writes == UNCHANGED <<rec, manifest, jobs, due, backend, gen, unmarked>> /\ NoEvent

ListScope ==
    /\ At("reconcile", "idle") /\ Eligible
    /\ Become("reconcile", [Idle EXCEPT !.at = "manifest", !.rev = mark.rev, !.gen = gen])
    /\ Reads

StartBackfill ==
    /\ At("backfill", "idle") /\ due = "backfill"
    /\ Become("backfill", [Idle EXCEPT !.at = "manifest", !.gen = gen])
    /\ due' = "none"
    /\ UNCHANGED <<tables, jobs, backend, gen, unmarked>> /\ NoEvent

ReadManifest(w) ==
    /\ At(w, "manifest")
    /\ IF work[w].gen # gen THEN Stop(w)
       ELSE Become(w, [work[w] EXCEPT !.at = "look", !.man = manifest])
    /\ Reads

\* The index of this family is done.
AfterFamily(w) ==
    IF work[w].family = "lexical"
    THEN [Moved(w, "look") EXCEPT !.family = "semantic"]
    ELSE Moved(w, "complete")

LookLexical(w) ==
    /\ At(w, "look") /\ work[w].family = "lexical"
    /\ LET fields == work[w].man["lexical"]
       IN IF fields = {}
          THEN IF meta["lexical"] = None /\ index["lexical"] = {}
               THEN Become(w, AfterFamily(w)) ELSE Goto(w, "delete")
          ELSE Goto(w, IF meta["lexical"] # Built(fields, None) THEN "fetch"
                       ELSE IF w = "reconcile" THEN "check" ELSE "count")
    /\ Reads

HasSemanticState == meta["semantic"] # None \/ index["semantic"] # {}

\* Without a backend the reconcile cannot prove, or remove, semantic state.
LookSemantic(w) ==
    /\ At(w, "look") /\ work[w].family = "semantic"
    /\ LET fields == work[w].man["semantic"]
           next == IF ~HasBackend
                   THEN IF w = "reconcile" /\ (fields # {} \/ HasSemanticState)
                        THEN "fail" ELSE "complete"
                   ELSE IF fields = {} THEN "prune"
                   ELSE IF ~HasSemanticState /\ \A r \in Rec : ~Live(r) THEN "complete"
                   ELSE IF meta["semantic"] # Built(fields, By("semantic")) THEN "fetch" ELSE "check"
       IN Become(w, IF Moved(w, next) = Idle THEN Idle
                    ELSE [Moved(w, next) EXCEPT !.back = Backend])
    /\ Reads

\* What the records say that record r contributes, and what is in the index.
\* The semantic index is asked for the declared fields only.
Wanted(r, fields, by) == EntriesOf(r, rec[r].text, fields, by)

Stored(f, r, fields) ==
    {e \in index[f] : e.rec = r /\ (f = "lexical" \/ e.field \in fields)}

NoStrays(f, fields, by) ==
    IF f = "lexical" THEN \A e \in index[f] : Live(e.rec) /\ e.field \in fields
    ELSE index[f] \subseteq Canonical(fields, by)

\* Mutant: the backend is not compared.
FencedByManifest(w) == work[w].gen = gen /\ work[w].man = manifest

\* What a worker computed with still holds.
Fenced(w) ==
    /\ work[w].gen = gen
    /\ work[w].man = manifest
    /\ work[w].family = "semantic" => work[w].back = Backend

\* Records to index, page after page, and then index to records.
Check(w) ==
    /\ work[w].at \in {"check", "verify"}
    /\ LET s == work[w]
           f == s.family
           fields == s.man[f]
           by == Identity(f, s.back)
           differs == IF s.at = "check" THEN "fetch" ELSE "fail"
       IN \E r \in s.next..N + 1 :
          /\ NextLive(s.next, r)
          /\ IF r <= N
             THEN IF Stored(f, r, fields) = Wanted(r, fields, by)
                  THEN Become(w, [s EXCEPT !.next = r + 1]) ELSE Goto(w, differs)
             ELSE IF ~NoStrays(f, fields, by) THEN Goto(w, differs)
             ELSE IF f = "semantic" /\ ~Fenced(w) THEN Goto(w, "fail")
             ELSE IF s.at = "verify" THEN Goto(w, "meta")
             ELSE Become(w, AfterFamily(w))
    /\ Reads

\* The backfill only counts.
Count(w) ==
    /\ At(w, "count")
    /\ IF Cardinality(index["lexical"]) = Cardinality(Canonical(work[w].man["lexical"], None))
       THEN Become(w, AfterFamily(w)) ELSE Goto(w, "fetch")
    /\ Reads

Fetch(w) ==
    /\ At(w, "fetch")
    /\ \E r \in work[w].next..N + 1 :
        /\ NextLive(work[w].next, r)
        /\ IF r > N THEN Goto(w, "prune")
           ELSE Become(w, [work[w] EXCEPT !.at = "write", !.next = r, !.seen = rec[r]])
    /\ Reads

Rewritten(f, r, fields, by) == (index[f] \ Stored(f, r, fields)) \cup Wanted(r, fields, by)

\* A page that was read outside of the transaction is written where each
\* record is still at the version that was read.
WritePage(w) ==
    /\ At(w, "write")
    /\ LET s == work[w]
           f == s.family
           r == s.next
       IN IF ~Fenced(w) THEN Goto(w, "fail") /\ UNCHANGED index
          ELSE /\ Become(w, [s EXCEPT !.at = "fetch", !.next = @ + 1, !.seen = None])
               /\ index' = IF rec[r] = s.seen
                           THEN [index EXCEPT ![f] = Rewritten(f, r, s.man[f], Identity(f, s.back))]
                           ELSE index
    /\ UNCHANGED <<meta, mark>> /\ Writes

\* Mutant: nothing is pruned.
KeptAll(f, fields) == index[f]

Kept(f, fields) == {e \in index[f] : Live(e.rec) /\ e.field \in fields}

Prune(w) ==
    /\ At(w, "prune")
    /\ LET f == work[w].family
       IN IF ~Fenced(w) THEN Goto(w, "fail") /\ UNCHANGED index
          ELSE /\ Goto(w, IF f = "lexical" THEN "meta" ELSE "verify")
               /\ index' = [index EXCEPT ![f] = Kept(f, work[w].man[f])]
    /\ UNCHANGED <<meta, mark>> /\ Writes

Meta(w) ==
    /\ At(w, "meta")
    /\ LET f == work[w].family
           fields == work[w].man[f]
       IN IF ~Fenced(w) THEN Goto(w, "fail") /\ UNCHANGED meta
          ELSE /\ Become(w, AfterFamily(w))
               /\ meta' = [meta EXCEPT ![f] = IF fields = {} THEN None
                                                ELSE Built(fields, Identity(f, work[w].back))]
    /\ UNCHANGED <<index, mark>> /\ Writes

\* A stream that is not searched any more loses its lexical index.
DeleteStream(w) ==
    /\ At(w, "delete")
    /\ IF ~Fenced(w) THEN Goto(w, "fail") /\ UNCHANGED <<index, meta>>
       ELSE /\ Become(w, AfterFamily(w))
            /\ index' = [index EXCEPT !["lexical"] = {}]
            /\ meta' = [meta EXCEPT !["lexical"] = None]
    /\ UNCHANGED mark /\ Writes

\* The reconcile clears the mark under the same fence as its writes, and
\* reports a failure unless the storage was exchanged meanwhile.
Complete(w) ==
    /\ w = "reconcile" /\ At(w, "complete")
    /\ IF ~Fenced(w) THEN Goto(w, "fail") /\ UNCHANGED mark
       ELSE Stop(w) /\ mark' = Cleared(work[w].rev)
    /\ UNCHANGED <<index, meta>> /\ Writes

Fail(w) ==
    /\ w = "reconcile" /\ At(w, "fail")
    /\ Stop(w)
    /\ mark' = IF work[w].gen = gen THEN Delayed(work[w].rev) ELSE mark
    /\ UNCHANGED <<index, meta>> /\ Writes

WorkerFails(w) ==
    /\ work[w].at \notin {"idle", "fail"}
    /\ Goto(w, "fail")
    /\ due' = IF w = "backfill" /\ due = "none" THEN "failed" ELSE due
    /\ UNCHANGED <<tables, jobs, backend, gen, unmarked>> /\ Event
-----------------------------------------------------------------------------
(* the process and its storage                                              *)

\* Of a process that ends, and of its backend, nothing is left in the next one.
Crash ==
    /\ jobs' = <<>>
    /\ work' = [w \in Worker |-> Idle]
    /\ \E m \in Models \cup {None} :
        /\ backend' = [backend EXCEPT !.is = m]
        /\ Configured(m) /\ Events(1 + Exchanges(m))
    /\ due' = "backfill"
    /\ UNCHANGED <<tables, gen>>

\* A start opens the storage again in the same process, which the jobs and the
\* workers survive. It may be another database.
Reopen ==
    /\ gen < MaxGen /\ gen' = gen + 1
    /\ due' = "backend"
    /\ \/ UNCHANGED <<rec, index, meta, mark, unmarked>>
       \/ /\ rec' = NoRecords /\ index' = NoIndex /\ meta' = NoMeta /\ mark' = Clean
          /\ unmarked' = {}
    /\ UNCHANGED <<manifest, jobs, work, backend>> /\ Event
-----------------------------------------------------------------------------
WorkerStep(w) ==
    \/ ReadManifest(w) \/ LookLexical(w) \/ LookSemantic(w)
    \/ Check(w) \/ Count(w) \/ Fetch(w) \/ WritePage(w) \/ Prune(w)
    \/ Meta(w) \/ DeleteStream(w) \/ Complete(w) \/ Fail(w)

JobStep == ComputeLexical \/ ComputeSemantic \/ Publish

\* What the process does by itself, the sweep and the end of a backoff included.
Run ==
    \/ JobStep \/ BackoffElapses \/ ListScope \/ StartBackfill \/ ConfigureBackend
    \/ \E w \in Worker : WorkerStep(w)

Next ==
    \/ Run
    \/ \E r \in Rec : Write(r)
    \/ \E m \in Manifests : Install(m) \/ Register(m)
    \/ Park \/ Rearm
    \/ JobFails \/ \E w \in Worker : WorkerFails(w)
    \/ Crash \/ Reopen

Spec == Init /\ [][Next]_vars

\* The process does not stop while something can run; nothing says what.
FairSpec == Spec /\ WF_vars(Run)
-----------------------------------------------------------------------------
Identities == Models \cup {None}

Entry == [rec : Rec, field : Field, text : Text, by : Identities]

BackendState == [no : Nat, is : Identities]

RecState == [ver : Nat, text : Text \cup {None}]

MarkState == [dirty : BOOLEAN, rev : Nat, waiting : BOOLEAN, parked : BOOLEAN]

JobState ==
    [rec : Rec, ver : Nat, text : Text \cup {None}, gen : Nat,
     at : {"lexical", "semantic", "publish"},
     lexical : Manifests \cup {None}, semantic : Manifests \cup {None},
     kept : SUBSET Entry, back : BackendState \cup {None}]

WorkState ==
    [at : {"idle", "manifest", "look", "delete", "check", "count", "fetch", "write", "prune",
           "verify", "meta", "complete", "fail"},
     rev : Nat, gen : Nat, man : Manifests \cup {None}, family : Family, next : 1..N + 1,
     seen : RecState \cup {None}, back : BackendState \cup {None}]

\* Every variable has a value of its kind; an index holds one text at most for
\* a field of a record.
TypeOK ==
    /\ rec \in [Rec -> RecState]
    /\ manifest \in Manifests
    /\ index \in [Family -> SUBSET Entry]
    /\ meta \in [Family -> [fields : SUBSET Field, by : Identities] \cup {None}]
    /\ mark \in MarkState
    /\ backend \in BackendState /\ gen \in Nat
    /\ due \in {"backend", "backfill", "none", "failed"} /\ unmarked \subseteq Family
    /\ jobs \in Seq(JobState) /\ work \in [Worker -> WorkState]
    /\ \A f \in Family : \A e, d \in index[f] :
        e.rec = d.rec /\ e.field = d.field => e = d

\* A stream whose mark was cleared is answered from indexes that hold what its
\* records say now in the fields that are searched now, embedded by the backend
\* of now: the round that cleared it was not overtaken by a write, an install,
\* an exchange of the backend or of the storage (runScopeBackfills,
\* assertCompletionCurrent). A registration marks nothing, nor does an exchange of
\* the backend over a clean mark: the indexes whose terms it changes are left
\* out until something marks the stream again.
CleanMeansInSync ==
    ~mark.dirty => \A f \in Family \ unmarked : index[f] = Expected(f)

\* What enters an index is what the records say at that moment in a field that
\* is searched, however old the read was that it was computed from
\* (isRecordStillCurrent, writeSqliteLexicalPage, liveEntriesOnly).
PublishesCurrent ==
    [][\A f \in Family : \A e \in index'[f] \ index[f] : e \in Expected(f)']_vars

\* Work that a storage generation left behind changes nothing in the next one,
\* neither an index nor the mark (assertCurrentStorageGeneration).
OldGenerationWritesNothing ==
    [][\/ \E w \in Worker : work'[w] # work[w] /\ work[w].gen # gen /\ work[w].at # "idle"
       \/ Len(jobs') < Len(jobs) /\ Head(jobs).gen # gen
       => UNCHANGED <<index, meta, mark>>]_vars

\* In the end the indexes of a stream are those of its records, unless an
\* operator parked it, or no backend is there that could prove it. What nothing
\* marked is left to the backfill, which looks at a semantic index entry by
\* entry, but only counts a lexical one, and is not repeated when it fails.
IndexesConverge ==
    <>[](HasBackend /\ ~mark.parked =>
            \A f \in Family :
                f \notin unmarked \/ (f = "semantic" /\ due # "failed") => index[f] = Expected(f))
=============================================================================
