------------------------- MODULE SearchIndex_proofs -------------------------
(***************************************************************************)
(* Safety of the search indexes for any number of records, fields,         *)
(* manifests, writes and disturbances.                                     *)
(*                                                                         *)
(* Two facts carry the argument. Every step that leaves the records alone  *)
(* adds to an index only what it should hold, and takes from it only what  *)
(* it should not (IndexStep): so what a round of the reconcile has found   *)
(* in sync stays so, until an index should hold something else. And every  *)
(* step that changes what it should hold raises the revision of the mark,  *)
(* leaves the generation behind, is a registration, or exchanges the       *)
(* backend (WorldStep): so a round whose revision, manifest and backend    *)
(* still stand has not been overtaken in the indexes that are not          *)
(* unmarked.                                                               *)
(***************************************************************************)
EXTENDS SearchIndex, TLAPS

USE NIsPositive, BoundsAreNaturals, NoneIsNothing, ManifestsDeclareFields, FirstAreModels

Typed == TypeOK /\ writes \in Nat

\* A job of this generation knows the version that it would publish.
JobsInv ==
    \A i \in 1..Len(jobs) :
        /\ jobs[i].gen <= gen
        /\ jobs[i].gen = gen =>
            /\ jobs[i].ver <= rec[jobs[i].rec].ver
            /\ jobs[i].ver = rec[jobs[i].rec].ver => jobs[i].text = rec[jobs[i].rec].text

\* A worker only writes records that were there, and only deletes an index
\* that should be empty.
WorkersInv ==
    \A w \in Worker :
        /\ work[w].gen <= gen
        /\ work[w].at = "write" => work[w].next \in Rec /\ work[w].seen.text # None
        /\ work[w].at = "delete" => work[w].family = "lexical" /\ work[w].man["lexical"] = {}
        /\ work[w].back # None => work[w].back.no <= backend.no

Base == Typed /\ JobsInv /\ WorkersInv

InSync(f) == index[f] = Expected(f)

\* What the index holds of record q is what it should hold.
Synced(f, q) == Live(q) => Stored(f, q, manifest[f]) = Wanted(q, manifest[f], By(f))

Round == work["reconcile"]

\* Nothing has overtaken the round in family f since it listed the scope, nor
\* since it took the backend that it embeds with.
Undisturbed(f) ==
    /\ Round.gen = gen /\ MarkIs(Round.rev)
    /\ f \notin unmarked /\ Round.man[f] = manifest[f]
    /\ f = "semantic" /\ Round.at # "look" /\ Round.man[f] # {} => Round.back = Backend

\* What an undisturbed round has established of the family that it works on,
\* and of the one before.
Claim(f) ==
    LET s == Round
    IN
    /\ s.at \in {"check", "fetch", "write", "verify"} =>
        \A q \in 1..s.next - 1 : Synced(f, q)
    /\ s.at = "write" => rec[s.next] = s.seen
    /\ s.at = "prune" => \A q \in Rec : Synced(f, q)
    /\ s.at \in {"meta", "complete"} => InSync(f)

Found(f) ==
    /\ f = Round.family => Claim(f)
    /\ f = "lexical" /\ Round.family = "semantic" => InSync(f)

RoundInv ==
    /\ Round.at = "manifest" => Round.family = "lexical"
    /\ Round.at \in {"verify", "complete"} => Round.family = "semantic"
    /\ Round.at # "count"
    /\ Round.at # "idle" /\ Round.gen = gen => Round.rev <= mark.rev
    /\ Round.at \notin {"idle", "manifest", "look", "fail"} /\ Round.family = "semantic" =>
        Round.man["semantic"] = {} \/ Round.back # None
    /\ Round.at \notin {"idle", "manifest", "fail"} =>
        \A f \in Family : Undisturbed(f) => Found(f)

Inv == Base /\ RoundInv /\ CleanMeansInSync
-----------------------------------------------------------------------------
LEMMA InvInitially == Init => Inv
<1> SUFFICES ASSUME Init PROVE Inv
    OBVIOUS
<1> USE DEF Init, NoRecords, NoIndex, NoMeta, Clean, Idle
<1>1. Typed
    <2>1. rec \in [Rec -> RecState] /\ mark \in MarkState
        BY DEF RecState, MarkState
    <2>2. jobs \in Seq(JobState)
        OBVIOUS
    <2>3. work \in [Worker -> WorkState]
        BY DEF WorkState, Family, Worker, Rec
    <2>4. manifest \in Manifests /\ index \in [Family -> SUBSET Entry]
        OBVIOUS
    <2>5. meta \in [Family -> [fields : SUBSET Field, by : Identities] \cup {None}]
        OBVIOUS
    <2>6. backend \in BackendState
        BY DEF BackendState, Identities
    <2> QED
        BY <2>1, <2>2, <2>3, <2>4, <2>5, <2>6 DEF Typed, TypeOK
<1>2. JobsInv
    BY DEF JobsInv
<1>3. WorkersInv
    BY DEF WorkersInv
<1>4. RoundInv
    BY DEF RoundInv, Round, Worker
<1>5. CleanMeansInSync
    BY DEF CleanMeansInSync, Expected, Canonical, Live, Family
<1> QED
    BY <1>1, <1>2, <1>3, <1>4, <1>5 DEF Inv, Base
-----------------------------------------------------------------------------
\* What the steps of a worker, and those of a publication, leave alone.
LEMMA WorkerFrame ==
    ASSUME NEW w \in Worker, WorkerStep(w) \/ WorkerFails(w)
    PROVE  UNCHANGED <<rec, manifest, jobs, backend, gen, unmarked, writes>>
<1> USE DEF Reads, Writes, NoEvent, Event, Events, bounds, tables
<1>1. CASE ReadManifest(w) \/ LookLexical(w) \/ LookSemantic(w) \/ Check(w) \/ Count(w) \/ Fetch(w)
    BY <1>1 DEF ReadManifest, LookLexical, LookSemantic, Check, Count, Fetch
<1>2. CASE WritePage(w) \/ Prune(w) \/ Meta(w) \/ DeleteStream(w) \/ Complete(w) \/ Fail(w)
    BY <1>2 DEF WritePage, Prune, Meta, DeleteStream, Complete, Fail
<1>3. CASE WorkerFails(w)
    BY <1>3 DEF WorkerFails
<1> QED
    BY <1>1, <1>2, <1>3 DEF WorkerStep

LEMMA JobFrame ==
    ASSUME JobStep \/ JobFails
    PROVE  UNCHANGED <<rec, manifest, mark, work, due, backend, gen, unmarked, writes>>
BY DEF JobStep, ComputeLexical, ComputeSemantic, Publish, JobFails, JobReads, NoEvent, Event,
       Events, bounds, tables

\* The other steps, and what they leave alone.
Disturbance ==
    \/ \E m \in Manifests : Install(m) \/ Register(m)
    \/ Park \/ Rearm \/ BackoffElapses \/ ConfigureBackend \/ Crash

LEMMA DisturbanceFrame ==
    ASSUME Disturbance
    PROVE  UNCHANGED <<rec, index, meta, gen, writes>>
BY DEF Disturbance, Install, Register, Park, Rearm, BackoffElapses, ConfigureBackend, Crash,
       Event, Events, NoEvent, bounds, tables, memory

LEMMA Cases ==
    Next <=> \/ JobStep \/ JobFails
             \/ \E w \in Worker : WorkerStep(w) \/ WorkerFails(w)
             \/ \E r \in Rec : Write(r)
             \/ Disturbance \/ ListScope \/ StartBackfill \/ Reopen
BY DEF Next, Run, Disturbance
-----------------------------------------------------------------------------
(* types                                                                    *)

LEMMA HeadIsJob ==
    ASSUME Typed, jobs # <<>>
    PROVE  /\ Current \in JobState /\ Tail(jobs) \in Seq(JobState)
           /\ Len(jobs) \in Nat /\ Len(jobs) >= 1 /\ Current = jobs[1]
           /\ Len(Tail(jobs)) = Len(jobs) - 1
           /\ \A i \in 1..Len(Tail(jobs)) : Tail(jobs)[i] = jobs[i + 1]
BY DEF Typed, TypeOK, Current

LEMMA Revised ==
    ASSUME NEW m \in MarkState
    PROVE  [m EXCEPT !.rev = @ + 1] \in MarkState
BY DEF MarkState

LEMMA MarkIsTyped ==
    ASSUME mark \in MarkState
    PROVE  /\ Marked \in MarkState
           /\ [mark EXCEPT !.parked = TRUE, !.rev = @ + 1] \in MarkState
           /\ [mark EXCEPT !.parked = FALSE, !.waiting = FALSE, !.rev = @ + 1] \in MarkState
           /\ [mark EXCEPT !.waiting = FALSE] \in MarkState
           /\ Clean \in MarkState
<1> DEFINE kept == [mark EXCEPT !.dirty = TRUE]
           fresh == [mark EXCEPT !.dirty = TRUE, !.waiting = FALSE]
           parked == [mark EXCEPT !.parked = TRUE]
           armed == [mark EXCEPT !.parked = FALSE, !.waiting = FALSE]
<1>1. kept \in MarkState /\ fresh \in MarkState /\ parked \in MarkState /\ armed \in MarkState
    BY DEF MarkState
<1>2. /\ mark.parked => Marked = [kept EXCEPT !.rev = @ + 1]
      /\ ~mark.parked => Marked = [fresh EXCEPT !.rev = @ + 1]
    BY DEF Marked, MarkState
<1>3. /\ [mark EXCEPT !.parked = TRUE, !.rev = @ + 1] = [parked EXCEPT !.rev = @ + 1]
      /\ [mark EXCEPT !.parked = FALSE, !.waiting = FALSE, !.rev = @ + 1]
              = [armed EXCEPT !.rev = @ + 1]
    BY DEF MarkState
<1>4. [mark EXCEPT !.waiting = FALSE] \in MarkState /\ Clean \in MarkState
    BY DEF MarkState, Clean
<1> HIDE DEF kept, fresh, parked, armed
<1> QED
    BY <1>1, <1>2, <1>3, <1>4, Revised

TablesTyped ==
    /\ rec \in [Rec -> RecState] /\ manifest \in Manifests /\ mark \in MarkState
    /\ backend \in BackendState /\ gen \in Nat /\ writes \in Nat

FlagsTyped == due \in {"backend", "backfill", "none", "failed"} /\ unmarked \subseteq Family

LEMMA TypedFlags ==
    ASSUME Typed, Next
    PROVE  FlagsTyped'
<1>1. CASE JobStep \/ JobFails
    BY <1>1, JobFrame DEF Typed, TypeOK, FlagsTyped
<1>2. CASE \E w \in Worker : WorkerStep(w) \/ WorkerFails(w)
    <2>1. due' = due \/ due' = "failed"
        BY <1>2 DEF WorkerStep, WorkerFails, ReadManifest, LookLexical, LookSemantic, Check, Count,
                    Fetch, WritePage, Prune, Meta, DeleteStream, Complete, Fail, Reads, Writes
    <2> QED
        BY <1>2, <2>1, WorkerFrame DEF Typed, TypeOK, FlagsTyped
<1>3. CASE (\E r \in Rec : Write(r)) \/ Disturbance
    <2>1. /\ due' = due \/ due' = "backfill"
          /\ \/ unmarked' \in {unmarked, {}, unmarked \cup {"semantic"}}
             \/ \E m : unmarked' = unmarked \cup {f \in Family : m[f] # manifest[f]}
        BY <1>3 DEF Write, Disturbance, Install, Register, Park, Rearm, BackoffElapses,
                    ConfigureBackend, Configured, Crash, memory
    <2> QED
        BY <2>1 DEF Typed, TypeOK, FlagsTyped, Family
<1>4. CASE ListScope \/ StartBackfill \/ Reopen
    <2>1. /\ due' = due \/ due' \in {"none", "backend"}
          /\ unmarked' = unmarked \/ unmarked' = {}
        BY <1>4 DEF ListScope, StartBackfill, Reopen, Reads
    <2> QED
        BY <2>1 DEF Typed, TypeOK, FlagsTyped
<1> QED
    BY <1>1, <1>2, <1>3, <1>4, Cases

LEMMA TypedTables ==
    ASSUME Typed, Next
    PROVE  TablesTyped'
<1> USE DEF Typed, TypeOK, TablesTyped
<1>1. CASE JobStep \/ JobFails
    BY <1>1, JobFrame
<1>2. CASE \E w \in Worker : WorkerStep(w) \/ WorkerFails(w)
    <2> PICK w \in Worker : WorkerStep(w) \/ WorkerFails(w)
        BY <1>2
    <2>1. mark' \in {mark, Cleared(work[w].rev), Delayed(work[w].rev)}
        BY DEF WorkerStep, WorkerFails, ReadManifest, LookLexical, LookSemantic, Check, Count, Fetch,
               WritePage, Prune, Meta, DeleteStream, Complete, Fail, Reads, tables
    <2>2. mark' \in MarkState
        BY <2>1 DEF Cleared, Delayed, MarkState
    <2> QED
        BY <2>2, WorkerFrame
<1>3. ASSUME NEW r \in Rec, Write(r) PROVE TablesTyped'
    <2>1. PICK text \in {writes + 1} \cup (IF Live(r) THEN {None} ELSE {}) :
              rec' = [rec EXCEPT ![r] = [ver |-> @.ver + 1, text |-> text]]
        BY <1>3 DEF Write
    <2>2. text \in Text \cup {None}
        BY <1>3 DEF Write, Text
    <2>3. rec' \in [Rec -> RecState]
        BY <2>1, <2>2 DEF RecState
    <2>4. /\ mark' = Marked /\ writes' = writes + 1
          /\ UNCHANGED <<manifest, backend, gen>>
        BY <1>3 DEF Write
    <2>5. mark' \in MarkState
        BY <2>4, MarkIsTyped
    <2> QED
        BY <2>3, <2>4, <2>5
<1>4. CASE Disturbance
    <2>1. mark' \in MarkState
        BY <1>4, MarkIsTyped DEF Disturbance, Install, Register, Park, Rearm, BackoffElapses,
                                 ConfigureBackend, Crash, tables
    <2>2. /\ manifest' \in Manifests
          /\ \/ backend' = backend
             \/ \E m \in Identities : \/ backend' = [no |-> backend.no + 1, is |-> m]
                                      \/ backend' = [backend EXCEPT !.is = m]
        BY <1>4 DEF Disturbance, Install, Register, Park, Rearm, BackoffElapses, ConfigureBackend,
                    Crash, Identities, tables, memory
    <2>3. backend' \in BackendState
        BY <2>2 DEF BackendState
    <2> QED
        BY <1>4, <2>1, <2>2, <2>3, DisturbanceFrame
<1>5. CASE ListScope \/ StartBackfill
    BY <1>5 DEF ListScope, StartBackfill, Reads, NoEvent, bounds, tables
<1>6. CASE Reopen
    <2>1. NoRecords \in [Rec -> RecState]
        BY DEF NoRecords, RecState
    <2>2. /\ rec' \in {rec, NoRecords} /\ mark' \in {mark, Clean}
          /\ gen' = gen + 1
          /\ UNCHANGED <<manifest, backend, writes>>
        BY <1>6 DEF Reopen, Event, Events
    <2>3. mark' \in MarkState
        BY <2>2, MarkIsTyped
    <2> QED
        BY <2>1, <2>2, <2>3
<1> QED
    BY <1>1, <1>2, <1>3, <1>4, <1>5, <1>6, Cases

\* Every job that is left was there, with the same record, version and text.
JobsLeft ==
    \A i \in 1..Len(jobs') : \E k \in 1..Len(jobs) :
        /\ jobs'[i].rec = jobs[k].rec /\ jobs'[i].ver = jobs[k].ver
        /\ jobs'[i].gen = jobs[k].gen /\ jobs'[i].text = jobs[k].text

LEMMA Advanced ==
    ASSUME Typed, jobs # <<>>, NEW j \in JobState, Advance(j),
           j.rec = Current.rec, j.ver = Current.ver, j.gen = Current.gen, j.text = Current.text
    PROVE  jobs' \in Seq(JobState) /\ JobsLeft
<1>1. jobs' = [jobs EXCEPT ![1] = j] /\ Current = jobs[1] /\ Len(jobs) >= 1
    BY HeadIsJob DEF Advance
<1>2. jobs \in Seq(JobState)
    BY DEF Typed, TypeOK
<1>3. /\ jobs' \in Seq(JobState) /\ Len(jobs') = Len(jobs)
      /\ \A i \in 1..Len(jobs) : jobs'[i] = IF i = 1 THEN j ELSE jobs[i]
    BY <1>1, <1>2
<1> QED
    BY <1>1, <1>3 DEF JobsLeft

LEMMA Dropped ==
    ASSUME Typed, jobs # <<>>, Drop
    PROVE  jobs' \in Seq(JobState) /\ JobsLeft
<1>1. jobs' = Tail(jobs)
    BY DEF Drop
<1> QED
    BY <1>1, HeadIsJob DEF JobsLeft

LEMMA BackendIsTyped ==
    ASSUME Typed
    PROVE  /\ Backend \in BackendState \cup {None} /\ backend \in BackendState /\ backend # None
           /\ Backend # None => Backend = backend
           /\ By("semantic") = backend.is /\ By("lexical") = None
           /\ \A f \in Family : By(f) \in Identities
<1>1. backend \in BackendState /\ backend # None
    BY DEF Typed, TypeOK, BackendState, Identities
<1>2. backend.is \in Identities /\ None \in Identities
    BY <1>1 DEF BackendState, Identities
<1>3. By("semantic") = backend.is /\ By("lexical") = None
    BY <1>1 DEF By, Identity, Backend, HasBackend
<1> QED
    BY <1>1, <1>2, <1>3 DEF Backend, Family

LEMMA JobSteps ==
    ASSUME Typed, JobStep \/ JobFails
    PROVE  jobs' \in Seq(JobState) /\ JobsLeft
<1>1. CASE ComputeLexical
    <2> DEFINE j == Current
               p == [j EXCEPT !.at = "publish"]
               l == [j EXCEPT !.at = "semantic",
                              !.lexical = IF manifest["lexical"] = {} THEN None ELSE manifest]
    <2>1. jobs # <<>>
        BY <1>1 DEF ComputeLexical, Has
    <2>2. Drop \/ Advance(p) \/ Advance(l)
        BY <1>1 DEF ComputeLexical
    <2>3. j \in JobState /\ manifest \in Manifests
        BY <2>1, HeadIsJob DEF Typed, TypeOK
    <2>4. /\ p \in JobState
          /\ p.rec = j.rec /\ p.ver = j.ver /\ p.gen = j.gen /\ p.text = j.text
        BY <2>3 DEF JobState
    <2>5. /\ l \in JobState
          /\ l.rec = j.rec /\ l.ver = j.ver /\ l.gen = j.gen /\ l.text = j.text
        BY <2>3 DEF JobState
    <2> HIDE DEF j, p, l
    <2> QED
        BY <2>1, <2>2, <2>4, <2>5, Advanced, Dropped DEF j
<1>2. CASE ComputeSemantic
    <2> DEFINE j == Current
    <2>1. jobs # <<>>
        BY <1>2 DEF ComputeSemantic, Has
    <2>2. PICK man \in {None, manifest}, kept \in SUBSET index["semantic"], back \in {None, Backend} :
              Advance([j EXCEPT !.at = "publish", !.semantic = man, !.kept = kept, !.back = back])
        BY <1>2 DEF ComputeSemantic
    <2>3. j \in JobState /\ man \in Manifests \cup {None} /\ kept \subseteq Entry
          /\ back \in BackendState \cup {None}
        BY <2>1, HeadIsJob, BackendIsTyped DEF Typed, TypeOK, Family
    <2> DEFINE s == [j EXCEPT !.at = "publish", !.semantic = man, !.kept = kept, !.back = back]
    <2>4. /\ s \in JobState
          /\ s.rec = j.rec /\ s.ver = j.ver /\ s.gen = j.gen /\ s.text = j.text
        BY <2>3 DEF JobState
    <2>5. Advance(s)
        BY <2>2
    <2> HIDE DEF j, s
    <2> QED
        BY <2>1, <2>4, <2>5, Advanced DEF j
<1>3. CASE Publish \/ JobFails
    BY <1>3, Dropped DEF Publish, JobFails, Has
<1> QED
    BY <1>1, <1>2, <1>3 DEF JobStep

LEMMA NewJob ==
    ASSUME Typed, NEW r \in Rec, NEW text \in Text \cup {None}
    PROVE  Job(r, text) \in JobState
<1>1. rec[r].ver + 1 \in Nat /\ gen \in Nat
    BY DEF Typed, TypeOK, RecState
<1> QED
    BY <1>1 DEF Job, JobState

LEMMA TypedJobs ==
    ASSUME Typed, Next
    PROVE  jobs' \in Seq(JobState)
<1>1. ASSUME NEW r \in Rec, Write(r) PROVE jobs' \in Seq(JobState)
    <2>1. PICK text \in {writes + 1} \cup (IF Live(r) THEN {None} ELSE {}) :
              jobs' = Append(jobs, Job(r, text))
        BY <1>1 DEF Write
    <2>2. text \in Text \cup {None}
        BY <1>1 DEF Write, Text, Typed
    <2> QED
        BY <2>1, <2>2, NewJob DEF Typed, TypeOK
<1>2. CASE \E w \in Worker : WorkerStep(w) \/ WorkerFails(w)
    BY <1>2, WorkerFrame DEF Typed, TypeOK
<1>3. CASE Disturbance \/ ListScope \/ StartBackfill \/ Reopen
    <2>1. jobs' = jobs \/ jobs' = <<>>
        BY <1>3 DEF Disturbance, Install, Register, Park, Rearm, BackoffElapses, ConfigureBackend,
                    Crash, ListScope, StartBackfill, Reopen, Reads, memory
    <2>2. jobs \in Seq(JobState) /\ <<>> \in Seq(JobState)
        BY DEF Typed, TypeOK
    <2> QED
        BY <2>1, <2>2, Zenon
<1> QED
    BY <1>1, <1>2, <1>3, JobSteps, Cases

OneText(S) == \A e, d \in S : e.rec = d.rec /\ e.field = d.field => e = d

MetaState == [fields : SUBSET Field, by : Identities] \cup {None}

IndexTyped ==
    /\ index \in [Family -> SUBSET Entry] /\ meta \in [Family -> MetaState]
    /\ \A f \in Family : OneText(index[f])

LEMMA Replaced ==
    ASSUME Typed, NEW r \in Rec, NEW text \in Text, NEW f \in Family, NEW fields \in SUBSET Field,
           NEW by \in Identities,
           NEW S \in SUBSET index[f], \A e \in S : e.rec = r => e.field \notin fields
    PROVE  /\ S \cup EntriesOf(r, text, fields, by) \subseteq Entry
           /\ OneText(S \cup EntriesOf(r, text, fields, by))
<1>1. S \subseteq Entry /\ OneText(S)
    BY DEF Typed, TypeOK, OneText
<1>2. EntriesOf(r, text, fields, by) \subseteq Entry
    BY DEF EntriesOf, Entry
<1>3. \A e \in EntriesOf(r, text, fields, by) :
          /\ e.rec = r /\ e.field \in fields
          /\ e = [rec |-> r, field |-> e.field, text |-> text, by |-> by]
    BY DEF EntriesOf
<1> QED
    BY <1>1, <1>2, <1>3 DEF OneText

LEMMA ManifestFields ==
    ASSUME Typed, NEW f \in Family
    PROVE  /\ manifest[f] \in SUBSET Field /\ By(f) \in Identities
           /\ Built(manifest[f], By(f)) \in MetaState
BY BackendIsTyped DEF Typed, TypeOK, Built, MetaState

\* What a worker computed with is what is to be computed with now.
LEMMA FencedIsNow ==
    ASSUME NEW w \in Worker, Fenced(w)
    PROVE  /\ work[w].man = manifest
           /\ Identity(work[w].family, work[w].back) = By(work[w].family)
BY DEF Fenced, By, Identity

\* A publication that takes effect publishes the record as it is.
LEMMA PublishesRecord ==
    ASSUME Base, jobs # <<>>, IsCurrent(Current)
    PROVE  /\ Current.rec \in Rec /\ Current.text = rec[Current.rec].text
           /\ Current.text # None => Current.text \in Text
<1>1. Current \in JobState /\ Current = jobs[1] /\ Len(jobs) \in Nat /\ Len(jobs) >= 1
    BY HeadIsJob DEF Base
<1>2. Current.text = rec[Current.rec].text
    BY <1>1 DEF Base, JobsInv, IsCurrent
<1> QED
    BY <1>1, <1>2 DEF JobState

\* A page that is written is written under the manifest in force, and where
\* anything is written the record is there.
LEMMA WritesRecord ==
    ASSUME Base, NEW w \in Worker, work[w].at = "write", rec[work[w].next] = work[w].seen
    PROVE  work[w].next \in Rec /\ Live(work[w].next) /\ rec[work[w].next].text \in Text
<1>1. work[w].next \in Rec /\ work[w].seen.text # None
    BY DEF Base, WorkersInv
<1> QED
    BY <1>1 DEF Base, Typed, TypeOK, RecState, Live

LEMMA WorkIsTyped ==
    ASSUME Typed, NEW w \in Worker
    PROVE  work[w] \in WorkState /\ work[w].family \in Family
BY DEF Typed, TypeOK, WorkState

LEMMA TypedIndex ==
    ASSUME Base, Next
    PROVE  IndexTyped'
<1>0. Typed /\ IndexTyped
    BY DEF Base, Typed, TypeOK, IndexTyped, OneText, MetaState
<1>1. CASE Publish
    <2> DEFINE j == Current
               rest(f) == {e \in index[f] : e.rec # j.rec}
               entries(f) == EntriesOf(j.rec, j.text, manifest[f], By(f))
    <2>1. jobs # <<>>
        BY <1>1 DEF Publish, Has
    <2>2. CASE UNCHANGED <<index, meta>>
        BY <2>2, <1>0 DEF IndexTyped, OneText
    <2>3. CASE /\ index' = [index EXCEPT !["lexical"] = rest("lexical"),
                                         !["semantic"] = IF HasBackend THEN rest("semantic") ELSE @]
               /\ UNCHANGED meta
        <3>1. index' \in [Family -> SUBSET Entry] /\ \A f \in Family : index'[f] \subseteq index[f]
            BY <2>3, <1>0 DEF IndexTyped, Family
        <3> QED
            BY <3>1, <2>3, <1>0 DEF IndexTyped, OneText
    <2>4. CASE /\ IsCurrent(j) /\ j.text # None
               /\ index' = [f \in Family |-> IF j[f] = None THEN index[f] ELSE rest(f) \cup entries(f)]
               /\ meta' = [f \in Family |->
                              IF j[f] = None \/ (f = "semantic" /\ j.kept = entries(f))
                              THEN meta[f] ELSE Built(manifest[f], By(f))]
        <3>1. j.rec \in Rec /\ j.text \in Text
            BY <2>1, <2>4, PublishesRecord
        <3>2. ASSUME NEW f \in Family
              PROVE  rest(f) \cup entries(f) \subseteq Entry /\ OneText(rest(f) \cup entries(f))
            BY <3>1, <1>0, Replaced, ManifestFields
        <3>3. ASSUME NEW f \in Family
              PROVE  index'[f] \subseteq Entry /\ OneText(index'[f])
            BY <3>2, <2>4, <1>0 DEF IndexTyped
        <3>4. meta' \in [Family -> MetaState]
            BY <2>4, <1>0, ManifestFields DEF IndexTyped
        <3>5. index' \in [Family -> SUBSET Entry]
            BY <3>3, <2>4
        <3> QED
            BY <3>3, <3>4, <3>5 DEF IndexTyped
    <2> QED
        BY <1>1, <2>2, <2>3, <2>4 DEF Publish
<1>2. CASE ComputeLexical \/ ComputeSemantic \/ JobFails
    BY <1>2, <1>0 DEF ComputeLexical, ComputeSemantic, JobFails, JobReads, tables, IndexTyped, OneText
<1>3. ASSUME NEW w \in Worker, WritePage(w) PROVE IndexTyped'
    <2> DEFINE s == work[w]
               f == s.family
               r == s.next
    <2>1. CASE UNCHANGED index
        BY <2>1, <1>3, <1>0 DEF WritePage, IndexTyped, OneText
    <2>2. CASE /\ Fenced(w) /\ rec[r] = s.seen /\ s.at = "write"
               /\ index' = [index EXCEPT ![f] = Rewritten(f, r, s.man[f], Identity(f, s.back))]
        <3>1. /\ r \in Rec /\ rec[r].text \in Text /\ f \in Family /\ s.man = manifest
              /\ Identity(f, s.back) = By(f)
            BY <2>2, <1>0, WritesRecord, WorkIsTyped, FencedIsNow
        <3>2. manifest[f] \in SUBSET Field /\ By(f) \in Identities
            BY <3>1, <1>0, ManifestFields
        <3> DEFINE S == index[f] \ Stored(f, r, manifest[f])
        <3>3. S \in SUBSET index[f] /\ \A e \in S : e.rec = r => e.field \notin manifest[f]
            BY DEF Stored
        <3> DEFINE R == Rewritten(f, r, s.man[f], Identity(f, s.back))
        <3>4. R = S \cup EntriesOf(r, rec[r].text, manifest[f], By(f))
            BY <3>1 DEF Rewritten, Wanted
        <3>8. index' = [index EXCEPT ![f] = R]
            BY <2>2
        <3> HIDE DEF S, s, f, r, R
        <3> DEFINE X == EntriesOf(r, rec[r].text, manifest[f], By(f))
        <3>5. S \cup X \subseteq Entry /\ OneText(S \cup X)
            BY <3>1, <3>2, <3>3, <1>0, Replaced
        <3>6. R \subseteq Entry /\ OneText(R)
            BY <3>4, <3>5, Zenon
        <3>7. meta' = meta
            BY <1>3 DEF WritePage
        <3> QED
            BY <3>1, <3>6, <3>7, <3>8, <1>0 DEF IndexTyped
    <2> QED
        BY <1>3, <2>1, <2>2 DEF WritePage, At
<1>4. ASSUME NEW w \in Worker,
             Prune(w) \/ DeleteStream(w) \/ Meta(w)
      PROVE  IndexTyped'
    <2>1. work[w].family \in Family
        BY <1>0, WorkIsTyped
    <2>2. index' \in [Family -> SUBSET Entry] /\ \A f \in Family : index'[f] \subseteq index[f]
        BY <1>4, <1>0, <2>1 DEF Prune, DeleteStream, Meta, Kept, IndexTyped, Family
    <2>3. meta' \in [Family -> MetaState]
        <3>1. None \in MetaState
            BY DEF MetaState
        <3>2. \/ meta' = meta
              \/ meta' = [meta EXCEPT !["lexical"] = None]
              \/ /\ Fenced(w) /\ LET f == work[w].family
                                    fields == work[w].man[f]
                                IN meta' = [meta EXCEPT ![f] = IF fields = {} THEN None
                                              ELSE Built(fields, Identity(f, work[w].back))]
            BY <1>4 DEF Prune, DeleteStream, Meta
        <3> QED
            BY <1>0, <2>1, <3>1, <3>2, ManifestFields, FencedIsNow DEF IndexTyped
    <2> QED
        BY <2>2, <2>3, <1>0 DEF IndexTyped, OneText
<1>5. ASSUME NEW w \in Worker,
             \/ ReadManifest(w) \/ LookLexical(w) \/ LookSemantic(w) \/ Check(w) \/ Count(w)
             \/ Fetch(w) \/ Complete(w) \/ Fail(w) \/ WorkerFails(w)
      PROVE  UNCHANGED <<index, meta>>
    BY <1>5 DEF ReadManifest, LookLexical, LookSemantic, Check, Count, Fetch, Complete, Fail,
                WorkerFails, Reads, tables
<1>6. CASE (\E r \in Rec : Write(r)) \/ Disturbance \/ ListScope \/ StartBackfill
    <2>1. UNCHANGED <<index, meta>>
        BY <1>6, DisturbanceFrame DEF Write, ListScope, StartBackfill, Reads, tables
    <2> QED
        BY <2>1, <1>0 DEF IndexTyped, OneText
<1>7. CASE Reopen
    <2>1. UNCHANGED <<index, meta>> \/ (index' = NoIndex /\ meta' = NoMeta)
        BY <1>7 DEF Reopen
    <2> QED
        BY <2>1, <1>0 DEF IndexTyped, OneText, NoIndex, NoMeta, MetaState
<1>8. UNCHANGED <<index, meta>> => IndexTyped'
    BY <1>0 DEF IndexTyped, OneText
<1> QED
    BY <1>1, <1>2, <1>3, <1>4, <1>5, <1>6, <1>7, <1>8, Cases DEF JobStep, WorkerStep

Calm == {"idle", "manifest", "look", "check", "count", "fetch", "prune", "verify", "meta",
         "complete", "fail"}

\* What Base says of one worker.
Sound(s) ==
    /\ s \in WorkState /\ s.gen <= gen
    /\ s.at = "write" => s.next \in Rec /\ s.seen.text # None
    /\ s.at = "delete" => s.family = "lexical" /\ s.man["lexical"] = {}
    /\ s.back # None => s.back.no <= backend.no

Becomes(w, s) == Sound(s) /\ Become(w, s)

LEMMA WorkersAreSound ==
    ASSUME Base, NEW w \in Worker
    PROVE  Sound(work[w])
BY WorkIsTyped DEF Base, WorkersInv, Sound

LEMMA IdleIsSound ==
    ASSUME Base
    PROVE  Idle \in WorkState /\ Sound(Idle)
<1>1. gen \in Nat /\ N \in Nat /\ N >= 1
    BY DEF Base, Typed, TypeOK
<1> QED
    BY <1>1 DEF Idle, Sound, WorkState, Family

\* A worker that turns to the records from the first one on.
LEMMA Turned ==
    ASSUME NEW s \in WorkState, NEW q \in Calm \cup {"delete"}
    PROVE  LET t == [s EXCEPT !.at = q, !.next = 1, !.seen = None]
           IN /\ t \in WorkState /\ t.at = q /\ t.gen = s.gen
              /\ t.family = s.family /\ t.man = s.man /\ t.back = s.back
<1>1. 1 \in 1..N + 1
    OBVIOUS
<1> QED
    BY <1>1 DEF WorkState, Calm

LEMMA MovesAreSound ==
    ASSUME Base, NEW w \in Worker, NEW p \in Calm
    PROVE  Sound(Moved(w, p)) /\ Sound(AfterFamily(w))
<1>1. /\ work[w] \in WorkState /\ work[w].gen <= gen
      /\ work[w].back # None => work[w].back.no <= backend.no
    BY WorkersAreSound DEF Sound
<1>2. ASSUME NEW q \in Calm PROVE Sound([work[w] EXCEPT !.at = q, !.next = 1, !.seen = None])
    BY <1>1, Turned DEF Sound, Calm
<1>3. \A q \in Calm : Sound(Moved(w, q))
    BY <1>2, IdleIsSound DEF Moved
<1>4. /\ Moved(w, "look") \in WorkState /\ Moved(w, "look").at = "look"
      /\ Moved(w, "look").gen = work[w].gen /\ Moved(w, "look").back = work[w].back
    BY <1>1, Turned DEF Moved, Calm
<1>5. Sound([Moved(w, "look") EXCEPT !.family = "semantic"])
    BY <1>1, <1>4 DEF Sound, WorkState, Family
<1> QED
    BY <1>3, <1>5 DEF AfterFamily, Calm

LEMMA WorkerMoves ==
    ASSUME Base, NEW w \in Worker, WorkerStep(w) \/ WorkerFails(w)
    PROVE  \E s : Becomes(w, s)
<1>0. /\ Sound(work[w]) /\ Typed /\ work[w] \in WorkState
      /\ gen \in Nat /\ manifest \in Manifests /\ Backend \in BackendState \cup {None}
      /\ backend.no \in Nat /\ (Backend # None => Backend.no = backend.no)
    BY WorkersAreSound, BackendIsTyped DEF Base, Typed, TypeOK, Sound, BackendState
<1>1. \A p \in Calm : Goto(w, p) => Becomes(w, Moved(w, p))
    BY MovesAreSound DEF Goto, Becomes
<1>2. Become(w, AfterFamily(w)) => Becomes(w, AfterFamily(w))
    BY MovesAreSound DEF Becomes, Calm
<1>3. Stop(w) => Becomes(w, Idle)
    BY IdleIsSound DEF Stop, Becomes
<1>4. CASE ReadManifest(w)
    <2>1. Sound([work[w] EXCEPT !.at = "look", !.man = manifest])
        BY <1>0 DEF Sound, WorkState
    <2> QED
        BY <1>3, <1>4, <2>1 DEF ReadManifest, Becomes
<1>5. CASE LookLexical(w)
    <2>1. CASE Goto(w, "delete") /\ work[w].family = "lexical" /\ work[w].man["lexical"] = {}
        <3> DEFINE t == [work[w] EXCEPT !.at = "delete", !.next = 1, !.seen = None]
        <3>1. /\ t \in WorkState /\ t.at = "delete" /\ t.gen = work[w].gen
              /\ t.family = work[w].family /\ t.man = work[w].man /\ t.back = work[w].back
            BY <1>0, Turned
        <3>2. Become(w, t)
            BY <2>1 DEF Goto, Moved
        <3> HIDE DEF t
        <3>3. Sound(t)
            BY <1>0, <2>1, <3>1 DEF Sound
        <3> QED
            BY <3>2, <3>3 DEF Becomes
    <2>2. \/ Become(w, AfterFamily(w)) \/ \E p \in Calm : Goto(w, p)
          \/ Goto(w, "delete") /\ work[w].family = "lexical" /\ work[w].man["lexical"] = {}
        BY <1>5 DEF LookLexical, Calm
    <2> QED
        BY <1>1, <1>2, <2>1, <2>2
<1>6. CASE LookSemantic(w)
    <2>1. PICK p \in {"fail", "complete", "prune", "fetch", "check"} :
              Become(w, IF Moved(w, p) = Idle THEN Idle ELSE [Moved(w, p) EXCEPT !.back = Backend])
        BY <1>6 DEF LookSemantic
    <2>2. Sound(Moved(w, p)) /\ Moved(w, p).at \notin {"write", "delete"}
        <3>1. Sound(Moved(w, p))
            BY MovesAreSound DEF Calm
        <3>2. Idle.at = "idle" /\ [work[w] EXCEPT !.at = p, !.next = 1, !.seen = None].at = p
            <4>1. Idle.at = "idle"
                BY DEF Idle
            <4>2. [work[w] EXCEPT !.at = p, !.next = 1, !.seen = None].at = p
                BY <1>0 DEF WorkState
            <4> QED
                BY <4>1, <4>2
        <3>3. Moved(w, p) \in {Idle, [work[w] EXCEPT !.at = p, !.next = 1, !.seen = None]}
            BY DEF Moved
        <3> QED
            BY <3>1, <3>2, <3>3
    <2>3. Sound([Moved(w, p) EXCEPT !.back = Backend])
        BY <1>0, <2>2 DEF Sound, WorkState
    <2> QED
        BY <2>1, <2>3, IdleIsSound DEF Becomes
<1>7. CASE Check(w)
    <2>1. PICK r \in work[w].next..N + 1 :
              \/ r <= N /\ Become(w, [work[w] EXCEPT !.next = r + 1])
              \/ Become(w, AfterFamily(w)) \/ \E p \in Calm : Goto(w, p)
        BY <1>7 DEF Check, Calm
    <2>2. work[w].at \notin {"write", "delete"}
        BY <1>7 DEF Check
    <2>3. r <= N => Sound([work[w] EXCEPT !.next = r + 1])
        BY <1>0, <2>1, <2>2 DEF Sound, WorkState
    <2> QED
        BY <1>1, <1>2, <2>1, <2>3 DEF Becomes
<1>8. CASE Fetch(w)
    <2>1. PICK r \in work[w].next..N + 1 :
              /\ r > N \/ Live(r)
              /\ \/ Goto(w, "prune")
                 \/ r <= N /\ Become(w, [work[w] EXCEPT !.at = "write", !.next = r, !.seen = rec[r]])
        <3>1. PICK r \in work[w].next..N + 1 :
                  /\ NextLive(work[w].next, r)
                  /\ IF r > N THEN Goto(w, "prune")
                     ELSE Become(w, [work[w] EXCEPT !.at = "write", !.next = r, !.seen = rec[r]])
            BY <1>8 DEF Fetch
        <3>2. work[w].next \in 1..N + 1
            BY <1>0 DEF WorkState
        <3>3. r > N \/ (r <= N /\ r \in Rec)
            BY <3>2 DEF Rec
        <3> QED
            BY <3>1, <3>3 DEF NextLive
    <2>2. CASE Goto(w, "prune")
        BY <1>1, <2>2 DEF Calm
    <2>3. CASE r <= N /\ Become(w, [work[w] EXCEPT !.at = "write", !.next = r, !.seen = rec[r]])
        <3>1. r \in Rec /\ rec[r].text # None /\ rec[r] \in RecState /\ r \in 1..N + 1
            BY <1>0, <2>1, <2>3 DEF WorkState, Rec, Live, Typed, TypeOK
        <3>2. Sound([work[w] EXCEPT !.at = "write", !.next = r, !.seen = rec[r]])
            BY <1>0, <3>1 DEF Sound, WorkState
        <3> QED
            BY <2>3, <3>2 DEF Becomes
    <2> QED
        BY <2>1, <2>2, <2>3
<1>9. CASE WritePage(w)
    <2>1. work[w].next \in Rec
        BY <1>0, <1>9 DEF WritePage, At, Sound
    <2>2. work[w].next + 1 \in 1..N + 1
        BY <2>1 DEF Rec
    <2>3. Sound([work[w] EXCEPT !.at = "fetch", !.next = @ + 1, !.seen = None])
        BY <1>0, <2>2 DEF Sound, WorkState
    <2> QED
        BY <1>1, <1>9, <2>3 DEF WritePage, Becomes, Calm
<1>10. CASE Count(w) \/ Prune(w) \/ Meta(w) \/ DeleteStream(w) \/ WorkerFails(w)
    BY <1>1, <1>2, <1>10 DEF Count, Prune, Meta, DeleteStream, WorkerFails, Calm
<1>11. CASE Complete(w) \/ Fail(w)
    BY <1>1, <1>3, <1>11 DEF Complete, Fail, Calm
<1> QED
    BY <1>4, <1>5, <1>6, <1>7, <1>8, <1>9, <1>10, <1>11 DEF WorkerStep

\* A step leaves the backend, configures another one, or loses the process.
Exchanged ==
    \/ backend' = backend
    \/ backend'.no = backend.no + 1 /\ ConfigureBackend
    \/ backend'.no = backend.no /\ Crash

LEMMA BackendMoves ==
    ASSUME Typed, Next
    PROVE  Exchanged
<1>1. CASE Disturbance
    <2>1. backend \in BackendState
        BY DEF Typed, TypeOK
    <2>2. ConfigureBackend => backend'.no = backend.no + 1
        BY DEF ConfigureBackend
    <2>3. Crash => backend'.no = backend.no
        BY <2>1 DEF Crash, BackendState
    <2> QED
        BY <1>1, <2>2, <2>3 DEF Disturbance, Install, Register, Park, Rearm, BackoffElapses, Exchanged
<1> QED
    BY <1>1, JobFrame, WorkerFrame, Cases
       DEF Exchanged, Write, ListScope, StartBackfill, Reads, Reopen

LEMMA WorkersPreserved ==
    ASSUME Base, Next
    PROVE  (work \in [Worker -> WorkState])' /\ WorkersInv'
<1>0. work \in [Worker -> WorkState] /\ \A w \in Worker : Sound(work[w])
    BY WorkersAreSound DEF Base, Typed, TypeOK
<1>1. /\ gen \in Nat /\ mark.rev \in Nat /\ (gen' = gen \/ gen' = gen + 1)
      /\ backend.no \in Nat /\ backend'.no \in Nat /\ backend.no <= backend'.no
      /\ \A w \in Worker : work[w].back # None => work[w].back.no \in Nat
    <2>1. gen \in Nat /\ mark.rev \in Nat /\ (gen' = gen \/ gen' = gen + 1)
        BY JobFrame, WorkerFrame, DisturbanceFrame, Cases
           DEF Base, Typed, TypeOK, MarkState, Write, ListScope, StartBackfill, Reads, Reopen
    <2>2. backend \in BackendState /\ work \in [Worker -> WorkState]
        BY DEF Base, Typed, TypeOK
    <2>3. Exchanged
        BY BackendMoves DEF Base
    <2> QED
        BY <2>1, <2>2, <2>3 DEF Exchanged, BackendState, WorkState
<1>2. ASSUME NEW v \in Worker, NEW s, Becomes(v, s)
      PROVE  (work \in [Worker -> WorkState])' /\ WorkersInv'
    BY <1>0, <1>1, <1>2 DEF Becomes, Become, Sound, WorkersInv, WorkState, BackendState
<1>3. CASE \E w \in Worker : WorkerStep(w) \/ WorkerFails(w)
    BY <1>2, <1>3, WorkerMoves
<1>4. CASE ListScope \/ StartBackfill
    <2>1. ASSUME NEW s \in WorkState, s.at = "manifest", s.gen = gen, s.back = None PROVE Sound(s)
        BY <1>1, <2>1 DEF Sound
    <2>2. \A rev \in Nat : Sound([Idle EXCEPT !.at = "manifest", !.rev = rev, !.gen = gen])
        BY <1>1, <2>1, IdleIsSound DEF WorkState, Idle
    <2>3. Sound([Idle EXCEPT !.at = "manifest", !.gen = gen])
        BY <1>1, <2>1, IdleIsSound DEF WorkState, Idle
    <2> QED
        BY <1>1, <1>2, <1>4, <2>2, <2>3 DEF Becomes, ListScope, StartBackfill, Worker
<1>5. CASE JobStep \/ JobFails \/ (\E r \in Rec : Write(r)) \/ Reopen
    <2>1. work' = work
        BY <1>5, JobFrame DEF Write, Reopen
    <2> QED
        BY <1>0, <1>1, <2>1 DEF Sound, WorkersInv, WorkState
<1>6. CASE Disturbance
    <2>1. work' = work \/ work' = [w \in Worker |-> Idle]
        BY <1>6 DEF Disturbance, Install, Register, Park, Rearm, BackoffElapses, ConfigureBackend,
                    Crash, memory
    <2>2. \A w \in Worker : Sound(work'[w])
        BY <1>0, <2>1, IdleIsSound
    <2>3. work' \in [Worker -> WorkState]
        BY <1>0, <2>1, IdleIsSound
    <2> QED
        BY <1>1, <2>2, <2>3 DEF Sound, WorkersInv, WorkState, BackendState
<1> QED
    BY <1>3, <1>4, <1>5, <1>6, Cases

LEMMA JobsPreserved ==
    ASSUME Base, Next
    PROVE  JobsInv'
<1>0. /\ Typed /\ JobsInv /\ gen \in Nat /\ jobs \in Seq(JobState) /\ Len(jobs) \in Nat
      /\ \A i \in 1..Len(jobs) : jobs[i] \in JobState
    BY DEF Base, Typed, TypeOK
<1>1. CASE JobStep \/ JobFails
    <2>1. UNCHANGED <<rec, gen>> /\ JobsLeft
        BY <1>0, <1>1, JobFrame, JobSteps
    <2> QED
        BY <1>0, <2>1 DEF JobsInv, JobsLeft
<1>2. ASSUME NEW r \in Rec, Write(r) PROVE JobsInv'
    <2>1. PICK text \in {writes + 1} \cup (IF Live(r) THEN {None} ELSE {}) :
              /\ rec' = [rec EXCEPT ![r] = [ver |-> @.ver + 1, text |-> text]]
              /\ jobs' = Append(jobs, Job(r, text))
        BY <1>2 DEF Write
    <2>2. gen' = gen
        BY <1>2 DEF Write
    <2>3. text \in Text \cup {None}
        BY <1>0, <1>2 DEF Write, Text, Typed
    <2>4. /\ Len(jobs') = Len(jobs) + 1
          /\ \A i \in 1..Len(jobs) : jobs'[i] = jobs[i]
          /\ jobs'[Len(jobs) + 1] = Job(r, text)
        BY <1>0, <2>1, <2>3, NewJob
    <2>5. /\ \A q \in Rec : rec[q].ver \in Nat /\ (q # r => rec'[q] = rec[q])
          /\ rec'[r] = [ver |-> rec[r].ver + 1, text |-> text]
        BY <1>0, <2>1 DEF Typed, TypeOK, RecState
    <2>6. /\ Job(r, text).rec = r /\ Job(r, text).ver = rec[r].ver + 1
          /\ Job(r, text).text = text /\ Job(r, text).gen = gen
        BY DEF Job
    <2>7. \A i \in 1..Len(jobs) : jobs[i].rec \in Rec /\ jobs[i].ver \in Nat
        BY <1>0 DEF JobState
    <2>8. ASSUME NEW i \in 1..Len(jobs)
          PROVE  /\ jobs'[i].gen <= gen
                 /\ jobs'[i].gen = gen =>
                     /\ jobs'[i].ver <= rec'[jobs'[i].rec].ver
                     /\ jobs'[i].ver = rec'[jobs'[i].rec].ver =>
                         jobs'[i].text = rec'[jobs'[i].rec].text
        <3>1. jobs'[i] = jobs[i]
            BY <2>4
        <3>2. CASE jobs[i].rec = r
            BY <1>0, <3>1, <3>2, <2>5, <2>7 DEF JobsInv
        <3>3. CASE jobs[i].rec # r
            BY <1>0, <3>1, <3>3, <2>5, <2>7 DEF JobsInv
        <3> QED
            BY <3>2, <3>3
    <2>9. \A i \in 1..Len(jobs') : i \in 1..Len(jobs) \/ i = Len(jobs) + 1
        BY <1>0, <2>4
    <2> QED
        BY <1>0, <2>2, <2>4, <2>5, <2>6, <2>8, <2>9 DEF JobsInv
<1>3. CASE \E w \in Worker : WorkerStep(w) \/ WorkerFails(w)
    BY <1>0, <1>3, WorkerFrame DEF JobsInv
<1>4. CASE Disturbance \/ ListScope \/ StartBackfill
    <2>1. UNCHANGED <<rec, gen>> /\ (jobs' = jobs \/ jobs' = <<>>)
        BY <1>4, DisturbanceFrame
           DEF Disturbance, Install, Register, Park, Rearm, BackoffElapses, ConfigureBackend,
               Crash, ListScope, StartBackfill, Reads, memory, tables
    <2> QED
        BY <1>0, <2>1 DEF JobsInv
<1>5. CASE Reopen
    <2>1. gen' = gen + 1 /\ jobs' = jobs
        BY <1>5 DEF Reopen
    <2>2. \A i \in 1..Len(jobs) : jobs[i].gen \in Nat
        BY <1>0 DEF JobState
    <2> QED
        BY <1>0, <2>1, <2>2 DEF JobsInv
<1> QED
    BY <1>1, <1>2, <1>3, <1>4, <1>5, Cases

LEMMA BasePreserved ==
    ASSUME Base, Next
    PROVE  Base'
<1>1. Typed
    BY DEF Base
<1>2. Typed'
    BY <1>1, TypedFlags, TypedTables, TypedJobs, TypedIndex, WorkersPreserved
       DEF Typed, TypeOK, FlagsTyped, TablesTyped, IndexTyped, OneText, MetaState
<1> QED
    BY <1>2, JobsPreserved, WorkersPreserved DEF Base
-----------------------------------------------------------------------------
(* what enters an index, and what leaves it                                 *)

LEMMA ExpectedEntries ==
    ASSUME NEW f \in Family, NEW e
    PROVE  /\ e \in Expected(f) <=>
                  \E r \in Rec : Live(r) /\ e \in EntriesOf(r, rec[r].text, manifest[f], By(f))
           /\ e \in Expected(f) =>
                  /\ e.rec \in Rec /\ Live(e.rec) /\ e.field \in manifest[f]
                  /\ e \in EntriesOf(e.rec, rec[e.rec].text, manifest[f], By(f))
           /\ \A r, text, fields, by : e \in EntriesOf(r, text, fields, by) => e.rec = r
BY DEF Expected, Canonical, EntriesOf

\* Nothing enters but what should be there, and what should be there stays.
Improves ==
    \A f \in Family :
        /\ index'[f] \ index[f] \subseteq Expected(f)
        /\ index[f] \cap Expected(f) \subseteq index'[f]

LEMMA IndexStep ==
    ASSUME Base, Next, UNCHANGED rec
    PROVE  Improves
<1>0. Typed /\ index \in [Family -> SUBSET Entry]
    BY DEF Base, Typed, TypeOK
<1>1. CASE UNCHANGED index
    BY <1>1 DEF Improves
<1>2. CASE Publish
    <2> DEFINE j == Current
               rest(f) == {e \in index[f] : e.rec # j.rec}
               entries(f) == EntriesOf(j.rec, j.text, manifest[f], By(f))
    <2>1. jobs # <<>>
        BY <1>2 DEF Publish, Has
    <2>2. CASE /\ IsCurrent(j) /\ j.text = None
               /\ index' = [index EXCEPT !["lexical"] = rest("lexical"),
                                         !["semantic"] = IF HasBackend THEN rest("semantic") ELSE @]
        <3>1. ~Live(j.rec)
            BY <2>2 DEF IsCurrent
        <3>2. \A f \in Family : index'[f] = index[f] \/ index'[f] = rest(f)
            BY <2>2, <1>0 DEF Family
        <3> HIDE DEF j
        <3> QED
            BY <3>1, <3>2, ExpectedEntries DEF Improves
    <2>3. CASE /\ IsCurrent(j) /\ j.text # None
               /\ index' = [f \in Family |-> IF j[f] = None THEN index[f] ELSE rest(f) \cup entries(f)]
        <3>1. j.rec \in Rec /\ j.text = rec[j.rec].text /\ Live(j.rec)
            BY <2>1, <2>3, PublishesRecord DEF Live
        <3>2. \A f \in Family : index'[f] = index[f] \/ index'[f] = rest(f) \cup entries(f)
            BY <2>3
        <3>3. \A f \in Family : entries(f) \subseteq Expected(f)
            BY <3>1, ExpectedEntries
        <3>4. ASSUME NEW f \in Family, NEW e \in index[f], e \in Expected(f)
              PROVE  e \in rest(f) \cup entries(f)
            BY <3>1, <3>4, ExpectedEntries
        <3> HIDE DEF j, rest, entries
        <3>5. ASSUME NEW f \in Family, index'[f] = rest(f) \cup entries(f)
              PROVE  /\ index'[f] \ index[f] \subseteq Expected(f)
                     /\ index[f] \cap Expected(f) \subseteq index'[f]
            BY <3>3, <3>4, <3>5 DEF rest
        <3> QED
            BY <3>2, <3>5 DEF Improves
    <2> QED
        BY <1>1, <1>2, <2>2, <2>3 DEF Publish
<1>3. ASSUME NEW w \in Worker, WritePage(w) PROVE Improves
    <2> DEFINE f == work[w].family
               r == work[w].next
    <2>1. CASE /\ Fenced(w) /\ work[w].at = "write" /\ rec[r] = work[w].seen
               /\ index' = [index EXCEPT ![f] =
                                Rewritten(f, r, work[w].man[f], Identity(f, work[w].back))]
        <3>1. /\ r \in Rec /\ Live(r) /\ f \in Family /\ work[w].man = manifest
              /\ Identity(f, work[w].back) = By(f)
            BY <2>1, <1>0, WritesRecord, WorkIsTyped, FencedIsNow
        <3>2. index'[f] = (index[f] \ Stored(f, r, manifest[f])) \cup Wanted(r, manifest[f], By(f))
            BY <2>1, <3>1, <1>0 DEF Rewritten
        <3>3. Wanted(r, manifest[f], By(f)) \subseteq Expected(f)
            BY <3>1, ExpectedEntries DEF Wanted
        <3>4. Stored(f, r, manifest[f]) \cap Expected(f) \subseteq Wanted(r, manifest[f], By(f))
            BY <3>1, ExpectedEntries DEF Wanted, Stored
        <3>5. \A g \in Family : g # f => index'[g] = index[g]
            BY <2>1, <3>1, <1>0
        <3> HIDE DEF f, r
        <3> QED
            BY <3>2, <3>3, <3>4, <3>5 DEF Improves
    <2> QED
        BY <1>1, <1>3, <2>1 DEF WritePage, At
<1>4. ASSUME NEW w \in Worker, Prune(w) PROVE Improves
    <2> DEFINE f == work[w].family
    <2>1. CASE Fenced(w) /\ index' = [index EXCEPT ![f] = Kept(f, work[w].man[f])]
        <3>1. f \in Family /\ work[w].man = manifest
            BY <2>1, <1>0, WorkIsTyped DEF Fenced
        <3>2. index'[f] = Kept(f, manifest[f]) /\ \A g \in Family : g # f => index'[g] = index[g]
            BY <2>1, <3>1, <1>0
        <3>3. Kept(f, manifest[f]) \subseteq index[f]
            BY DEF Kept
        <3>4. index[f] \cap Expected(f) \subseteq Kept(f, manifest[f])
            BY <3>1, ExpectedEntries DEF Kept
        <3> HIDE DEF f
        <3> QED
            BY <3>2, <3>3, <3>4 DEF Improves
    <2> QED
        BY <1>1, <1>4, <2>1 DEF Prune
<1>5. ASSUME NEW w \in Worker, DeleteStream(w) PROVE Improves
    <2>1. CASE Fenced(w) /\ index' = [index EXCEPT !["lexical"] = {}]
        <3>1. work[w].man = manifest /\ work[w].man["lexical"] = {}
            BY <2>1, <1>5 DEF Fenced, DeleteStream, At, Base, WorkersInv
        <3>2. Expected("lexical") = {}
            BY <3>1, ExpectedEntries DEF Family
        <3>3. \A f \in Family : f = "lexical" \/ index'[f] = index[f]
            BY <2>1, <1>0
        <3>4. index'["lexical"] = {}
            BY <2>1, <1>0 DEF Family
        <3> QED
            BY <3>2, <3>3, <3>4 DEF Improves
    <2> QED
        BY <1>1, <1>5, <2>1 DEF DeleteStream
<1>6. CASE Reopen
    <2>1. CASE rec' = NoRecords /\ index' = NoIndex
        <3>1. \A r \in Rec : ~Live(r)
            BY <2>1 DEF Live, NoRecords
        <3>2. \A f \in Family : Expected(f) = {} /\ index'[f] = {}
            BY <2>1, <3>1, ExpectedEntries DEF NoIndex
        <3> QED
            BY <3>2 DEF Improves
    <2> QED
        BY <1>1, <1>6, <2>1 DEF Reopen
<1>7. ASSUME NEW w \in Worker,
             \/ ReadManifest(w) \/ LookLexical(w) \/ LookSemantic(w) \/ Check(w) \/ Count(w)
             \/ Fetch(w) \/ Meta(w) \/ Complete(w) \/ Fail(w) \/ WorkerFails(w)
      PROVE  UNCHANGED index
    BY <1>7 DEF ReadManifest, LookLexical, LookSemantic, Check, Count, Fetch, Meta, Complete, Fail,
                WorkerFails, Reads, tables
<1>8. CASE \/ ComputeLexical \/ ComputeSemantic \/ JobFails \/ Disturbance
           \/ (\E r \in Rec : Write(r)) \/ ListScope \/ StartBackfill
    <2>1. UNCHANGED index
        BY <1>8, DisturbanceFrame DEF ComputeLexical, ComputeSemantic, JobFails, JobReads, Write,
                                      ListScope, StartBackfill, Reads, tables
    <2> QED
        BY <1>1, <2>1
<1> QED
    BY <1>1, <1>2, <1>3, <1>4, <1>5, <1>6, <1>7, <1>8, Cases DEF JobStep, WorkerStep

\* What an index should hold is for the same fields, and the same backend.
Same(f) == manifest'[f] = manifest[f] /\ (manifest[f] = {} \/ By(f)' = By(f))

LEMMA SameIsExpected ==
    ASSUME UNCHANGED rec, NEW f \in Family, Same(f)
    PROVE  /\ Expected(f)' = Expected(f)
           /\ \A q \in Rec : Wanted(q, manifest[f], By(f))' = Wanted(q, manifest[f], By(f))
<1>1. CASE By(f)' = By(f)
    BY <1>1 DEF Same, Expected, Canonical, Live, Wanted
<1>2. CASE manifest[f] = {}
    <2>1. manifest'[f] = {}
        BY <1>2 DEF Same
    <2>2. \A r, text, by : EntriesOf(r, text, {}, by) = {}
        BY DEF EntriesOf
    <2>3. \A by : Canonical({}, by) = {} /\ Canonical({}, by)' = {}
        BY <2>2 DEF Canonical
    <2>4. Expected(f) = {} /\ Expected(f)' = {}
        BY <1>2, <2>1, <2>3 DEF Expected
    <2> QED
        BY <1>2, <2>1, <2>2, <2>4 DEF Wanted
<1> QED
    BY <1>1, <1>2 DEF Same

LEMMA StaysInSync ==
    ASSUME Base, Next, UNCHANGED rec, NEW f \in Family, Same(f)
    PROVE  /\ InSync(f) => InSync(f)'
           /\ \A q \in Rec : Synced(f, q) => Synced(f, q)'
<1>1. /\ index'[f] \ index[f] \subseteq Expected(f)
      /\ index[f] \cap Expected(f) \subseteq index'[f]
    BY IndexStep DEF Improves
<1>2. Expected(f)' = Expected(f) /\ manifest'[f] = manifest[f]
    BY SameIsExpected DEF Same
<1>3. InSync(f) => InSync(f)'
    BY <1>1, <1>2 DEF InSync
<1>4. ASSUME NEW q \in Rec, Live(q), Stored(f, q, manifest[f]) = Wanted(q, manifest[f], By(f))
      PROVE  Stored(f, q, manifest[f])' = Wanted(q, manifest[f], By(f))
    <2>1. Wanted(q, manifest[f], By(f)) \subseteq Expected(f)
        BY <1>4, ExpectedEntries DEF Wanted
    <2>2. \A e \in Wanted(q, manifest[f], By(f)) : e.rec = q /\ e.field \in manifest[f]
        BY DEF Wanted, EntriesOf
    <2>3. \A e \in Expected(f) : e.rec = q => e \in Wanted(q, manifest[f], By(f))
        BY ExpectedEntries DEF Wanted
    <2> QED
        BY <1>1, <1>2, <1>4, <2>1, <2>2, <2>3 DEF Stored
<1>5. ASSUME NEW q \in Rec, Synced(f, q) PROVE Synced(f, q)'
    <2>1. Wanted(q, manifest[f], By(f))' = Wanted(q, manifest[f], By(f))
        BY SameIsExpected
    <2> QED
        BY <1>4, <1>5, <2>1 DEF Synced, Live
<1> QED
    BY <1>3, <1>5

\* A step that is not of the storage either raises the revision of the mark,
\* or leaves the records alone, and what it changes of a manifest leaves an
\* index unmarked.
Overtakes == gen' = gen + 1 \/ (gen' = gen /\ mark'.rev = mark.rev + 1)

Respects ==
    /\ gen' = gen /\ rec' = rec /\ mark'.rev = mark.rev
    /\ mark'.dirty => mark.dirty
    /\ mark'.parked <=> mark.parked
    /\ unmarked \subseteq unmarked'
    /\ \A f \in Family : f \notin unmarked' => manifest'[f] = manifest[f]

LEMMA RevisionRises ==
    ASSUME mark \in MarkState
    PROVE  /\ Marked.rev = mark.rev + 1 /\ Marked.dirty
           /\ [mark EXCEPT !.parked = TRUE, !.rev = @ + 1].rev = mark.rev + 1
           /\ [mark EXCEPT !.parked = FALSE, !.waiting = FALSE, !.rev = @ + 1].rev = mark.rev + 1
           /\ [mark EXCEPT !.parked = TRUE, !.rev = @ + 1].dirty = mark.dirty
           /\ [mark EXCEPT !.parked = FALSE, !.waiting = FALSE, !.rev = @ + 1].dirty = mark.dirty
BY DEF Marked, MarkState

\* The reconcile changes nothing of the mark but whether it is dirty or waits.
LEMMA MarkKept ==
    ASSUME mark \in MarkState, NEW rev,
           mark' \in {mark, Cleared(rev), Delayed(rev), [mark EXCEPT !.waiting = FALSE]}
    PROVE  /\ mark'.rev = mark.rev /\ (mark'.dirty => mark.dirty)
           /\ mark'.parked <=> mark.parked
           /\ mark.dirty /\ ~mark'.dirty => mark' = Cleared(rev) /\ MarkIs(rev)
BY DEF Cleared, Delayed, MarkState

LEMMA WorkerMarks ==
    ASSUME NEW w \in Worker, WorkerStep(w) \/ WorkerFails(w)
    PROVE  \/ mark' = mark
           \/ w = "reconcile" /\ Complete(w) /\ Fenced(w) /\ mark' = Cleared(work[w].rev)
           \/ w = "reconcile" /\ Fail(w) /\ mark' = Delayed(work[w].rev)
BY DEF WorkerStep, WorkerFails, ReadManifest, LookLexical, LookSemantic, Check, Count, Fetch,
       WritePage, Prune, Meta, DeleteStream, Complete, Fail, Reads, tables

LEMMA WorldStep ==
    ASSUME Typed, Next
    PROVE  Overtakes \/ Respects
<1>0. mark \in MarkState /\ manifest \in [Family -> SUBSET Field]
    BY DEF Typed, TypeOK
<1>1. CASE JobStep \/ JobFails
    BY <1>1, JobFrame DEF Respects
<1>2. ASSUME NEW w \in Worker, WorkerStep(w) \/ WorkerFails(w) PROVE Respects
    BY <1>0, <1>2, WorkerFrame, WorkerMarks, MarkKept DEF Respects
<1>3. ASSUME NEW r \in Rec, Write(r) PROVE Overtakes
    BY <1>0, <1>3, RevisionRises DEF Write, Overtakes
<1>4. ASSUME NEW m \in Manifests, Install(m) PROVE Overtakes \/ Respects
    <2>1. CASE mark' = Marked
        BY <1>0, <1>4, <2>1, RevisionRises DEF Install, Overtakes
    <2>2. CASE /\ \A f \in Family : manifest[f] \cup m[f] = {}
               /\ UNCHANGED <<mark, unmarked>>
        <3>1. m \in [Family -> SUBSET Field]
            OBVIOUS
        <3>2. \A f \in Family : m[f] = manifest[f]
            BY <2>2
        <3>3. m = manifest
            BY <1>0, <3>1, <3>2
        <3> QED
            BY <1>4, <2>2, <3>3 DEF Install, Respects
    <2> QED
        BY <1>4, <2>1, <2>2 DEF Install
<1>5. ASSUME NEW m \in Manifests, Register(m) PROVE Respects
    BY <1>5 DEF Register, Respects
<1>6. CASE Park \/ Rearm
    BY <1>0, <1>6, RevisionRises DEF Park, Rearm, Overtakes
<1>7. CASE BackoffElapses
    BY <1>0, <1>7, MarkKept DEF BackoffElapses, Respects
<1>8. CASE ConfigureBackend \/ Crash \/ ListScope \/ StartBackfill
    BY <1>8 DEF ConfigureBackend, Configured, Crash, ListScope, StartBackfill, Reads, Respects, tables
<1>9. CASE Reopen
    BY <1>9 DEF Reopen, Overtakes
<1> QED
    BY <1>1, <1>2, <1>3, <1>4, <1>5, <1>6, <1>7, <1>8, <1>9, Cases DEF Disturbance

\* A round that nothing has overtaken was not overtaken one step before.
LEMMA NotOvertaken ==
    ASSUME Base, RoundInv, Next, Round' = Round, Round.at \notin {"idle", "manifest", "fail"},
           NEW f \in Family, Undisturbed(f)', f = Round.family \/ f = "lexical",
           ~(f = "semantic" /\ Round.at = "look")
    PROVE  Undisturbed(f) /\ UNCHANGED rec /\ Same(f)
<1>1. /\ gen \in Nat /\ mark.rev \in Nat /\ Round.gen \in Nat /\ Round.rev \in Nat
      /\ Round.gen <= gen
    BY WorkersAreSound DEF Base, Typed, TypeOK, MarkState, Sound, WorkState, Round, Worker
<1>2. /\ Round.gen = gen' /\ mark'.dirty /\ mark'.rev = Round.rev /\ ~mark'.parked
      /\ f \notin unmarked' /\ Round.man[f] = manifest'[f]
      /\ f = "semantic" /\ Round.at # "look" /\ Round.man[f] # {} => Round.back = Backend'
    BY DEF Undisturbed, MarkIs
<1>3. ~Overtakes
    BY <1>1, <1>2 DEF Overtakes, RoundInv
<1>4. Respects
    BY <1>3, WorldStep DEF Base
<1>5. /\ UNCHANGED rec /\ manifest'[f] = manifest[f] /\ Round.gen = gen /\ MarkIs(Round.rev)
      /\ f \notin unmarked /\ Round.man[f] = manifest[f]
    BY <1>2, <1>4 DEF Respects, MarkIs
<1>6. CASE f = "lexical"
    BY <1>5, <1>6 DEF Undisturbed, Same, By, Identity
<1>7. CASE f = "semantic" /\ manifest[f] = {}
    BY <1>5, <1>7 DEF Undisturbed, Same
<1>8. CASE f = "semantic" /\ manifest[f] # {}
    <2>1. Round.back = Backend' /\ Round.back # None
        BY <1>2, <1>5, <1>8 DEF RoundInv
    <2>2. Round.back = backend'
        BY <2>1 DEF Backend
    <2>3. Round.back.no <= backend.no /\ backend.no \in Nat
        BY <2>1, WorkersAreSound DEF Sound, Round, Worker, Base, Typed, TypeOK, BackendState
    <2>4. ~Crash
        BY <1>1 DEF Crash, Round, Worker, Idle
    <2>5. backend' = backend
        BY <2>2, <2>3, <2>4, BackendMoves DEF Exchanged, Base
    <2> QED
        BY <1>5, <2>1, <2>5 DEF Undisturbed, Same, By, Identity, Backend, HasBackend
<1> QED
    BY <1>6, <1>7, <1>8 DEF Family
-----------------------------------------------------------------------------
(* the reconcile                                                            *)

\* A round that has gone on by a step that left the world alone.
Goes(s) ==
    /\ Become("reconcile", s) /\ s.rev = Round.rev /\ s.gen = Round.gen /\ s.man = Round.man
    /\ Round.at = "look" \/ s.back = Round.back
    /\ UNCHANGED <<mark, rec, manifest, backend, gen, unmarked>>

LEMMA RoundBecomes ==
    ASSUME Base, NEW s, Become("reconcile", s)
    PROVE  Round' = s
BY DEF Base, Typed, TypeOK, Become, Round, Worker

LEMMA RoundFields ==
    ASSUME Base
    PROVE  Round \in WorkState /\ Round.family \in Family /\ N \in Nat
BY WorkersAreSound, WorkIsTyped DEF Base, Sound, Round, Worker

\* It stays undisturbed only if it was.
LEMMA GoesOn ==
    ASSUME Base, RoundInv, NEW s, Goes(s), Round.at # "idle"
    PROVE  /\ Round' = s
           /\ s.gen = gen => s.rev <= mark.rev
           /\ \A f \in Family : Same(f)
           /\ \A f \in Family :
                  Undisturbed(f)' /\ (f = "lexical" \/ s.at # "look") => Undisturbed(f)
<1>1. Round' = s
    BY RoundBecomes DEF Goes
<1>2. s.gen = gen => s.rev <= mark.rev
    BY DEF Goes, RoundInv
<1>3. ASSUME NEW f \in Family PROVE Same(f) /\ Backend' = Backend
    BY DEF Goes, Same, By, Backend, HasBackend
<1>4. ASSUME NEW f \in Family, Undisturbed(f)', f = "lexical" \/ s.at # "look"
      PROVE  Undisturbed(f)
    <2>1. /\ s.gen = gen /\ MarkIs(s.rev) /\ f \notin unmarked /\ s.man[f] = manifest[f]
          /\ f = "semantic" /\ s.at # "look" /\ s.man[f] # {} => s.back = Backend
        BY <1>1, <1>3, <1>4 DEF Goes, Undisturbed, MarkIs
    <2> QED
        BY <2>1, <1>4 DEF Goes, Undisturbed
<1> QED
    BY <1>1, <1>2, <1>3, <1>4

\* A turn to another part of the work, or to the next family.
LEMMA Turns ==
    ASSUME Base, NEW p \in Calm \cup {"delete"}
    PROVE  /\ Moved("reconcile", p).at = p /\ Moved("reconcile", p).next = 1
           /\ Moved("reconcile", p).family = Round.family
           /\ Moved("reconcile", p).rev = Round.rev /\ Moved("reconcile", p).gen = Round.gen
           /\ Moved("reconcile", p).man = Round.man /\ Moved("reconcile", p).back = Round.back
           /\ Round.family = "lexical" =>
                  /\ AfterFamily("reconcile").at = "look"
                  /\ AfterFamily("reconcile").family = "semantic"
           /\ Round.family = "semantic" =>
                  /\ AfterFamily("reconcile").at = "complete"
                  /\ AfterFamily("reconcile").family = "semantic"
           /\ AfterFamily("reconcile").rev = Round.rev
           /\ AfterFamily("reconcile").gen = Round.gen
           /\ AfterFamily("reconcile").man = Round.man
           /\ AfterFamily("reconcile").back = Round.back
<1> DEFINE M(q) == [Round EXCEPT !.at = q, !.next = 1, !.seen = None]
           L == [M("look") EXCEPT !.family = "semantic"]
           C == M("complete")
           a == AfterFamily("reconcile")
<1>1. Round \in WorkState /\ Round.family \in Family
    BY RoundFields
<1>2. /\ M(p).at = p /\ M(p).next = 1 /\ M(p).family = Round.family
      /\ M(p).rev = Round.rev /\ M(p).gen = Round.gen /\ M(p).man = Round.man
      /\ M(p).back = Round.back
    BY <1>1 DEF WorkState
<1>3. /\ L.at = "look" /\ L.family = "semantic"
      /\ L.rev = Round.rev /\ L.gen = Round.gen /\ L.man = Round.man /\ L.back = Round.back
    BY <1>1 DEF WorkState
<1>4. /\ C.at = "complete" /\ C.family = Round.family
      /\ C.rev = Round.rev /\ C.gen = Round.gen /\ C.man = Round.man /\ C.back = Round.back
    BY <1>1 DEF WorkState
<1>5. /\ Moved("reconcile", p) = M(p)
      /\ a = IF Round.family = "lexical" THEN L ELSE C
    BY DEF Moved, AfterFamily, Round
<1> HIDE DEF M, L, C, a
<1> QED
    BY <1>1, <1>2, <1>3, <1>4, <1>5 DEF a, Family

\* What RoundInv asks of a round that has become s.
Holds(s) ==
    /\ s.at = "manifest" => s.family = "lexical"
    /\ s.at \in {"verify", "complete"} => s.family = "semantic"
    /\ s.at # "count"
    /\ s.at # "idle" /\ s.gen = gen' => s.rev <= mark'.rev
    /\ s.at \notin {"idle", "manifest", "look", "fail"} /\ s.family = "semantic" =>
        s.man["semantic"] = {} \/ s.back # None
    /\ s.at \notin {"idle", "manifest", "fail"} =>
        \A f \in Family : Undisturbed(f)' => Found(f)'

LEMMA RoundInvHolds ==
    RoundInv' <=> Holds(Round')
BY DEF RoundInv, Holds

\* Rounds that end, fail or start anew claim nothing.
LEMMA Ends ==
    ASSUME Base, Round' = Idle \/ (Round'.at = "fail" /\ (Round'.gen = gen' => Round'.rev <= mark'.rev))
    PROVE  RoundInv'
BY DEF RoundInv, Idle

LEMMA GoesToFail ==
    ASSUME Base, RoundInv, Goes(Moved("reconcile", "fail")), Round.at # "idle"
    PROVE  RoundInv'
<1>1. Round' = Moved("reconcile", "fail") /\ Round'.at = "fail"
    BY GoesOn, Turns DEF Calm
<1> QED
    BY <1>1, GoesOn DEF RoundInv, Goes

LEMMA ClaimNow ==
    ASSUME NEW s, Round' = s, NEW f \in Family,
           s.at \in {"check", "fetch", "write", "verify"} =>
               \A q \in 1..s.next - 1 : Synced(f, q)',
           s.at = "write" => rec'[s.next] = s.seen,
           s.at = "prune" => \A q \in Rec : Synced(f, q)',
           s.at \in {"meta", "complete"} => InSync(f)'
    PROVE  Claim(f)'
BY DEF Claim, Synced, InSync, Stored, Wanted, Expected, Canonical, Live, EntriesOf

\* The lexical index is in sync while the round works on the semantic one.
LEMMA LexicalStays ==
    ASSUME Base, RoundInv, Next, UNCHANGED rec, Same("lexical"),
           Round.at \notin {"idle", "manifest", "fail"}, Round.family = "semantic",
           Undisturbed("lexical")
    PROVE  InSync("lexical")'
<1>1. Found("lexical")
    BY DEF RoundInv, Family
<1> QED
    BY <1>1, StaysInSync DEF Found, Family

\* A step of the round within a family.
LEMMA GoesTo ==
    ASSUME Base, RoundInv, Next, NEW f \in Family, f = Round.family,
           NEW s, Goes(s), s.family = f, Round.at \notin {"idle", "manifest", "fail"},
           s.at \notin {"manifest", "count", "look"},
           s.at \in {"verify", "complete"} => f = "semantic",
           s.at = "fail" \/ f = "lexical" \/ Round.at # "look" \/ s.man[f] = {} \/ s.back # None,
           Undisturbed(f) /\ s.at # "fail" => Claim(f)'
    PROVE  RoundInv'
<1>1. /\ Round' = s /\ (s.gen = gen => s.rev <= mark.rev)
      /\ \A g \in Family : Same(g) /\ (Undisturbed(g)' => Undisturbed(g))
    BY GoesOn
<1>2. gen' = gen /\ mark' = mark /\ rec' = rec
    BY DEF Goes
<1>3. ASSUME s.at \notin {"idle", "fail"}, NEW g \in Family, Undisturbed(g)' PROVE Found(g)'
    <2>1. Undisturbed(g)
        BY <1>1, <1>3
    <2>2. g = f => Claim(f)'
        BY <1>3, <2>1
    <2>3. g = "lexical" /\ f = "semantic" => InSync("lexical")'
        BY <1>1, <1>2, <2>1, LexicalStays DEF Family
    <2> QED
        BY <1>1, <2>2, <2>3 DEF Found
<1>4. s.at \notin {"idle", "look", "fail"} /\ f = "semantic" => s.man["semantic"] = {} \/ s.back # None
    BY DEF RoundInv, Goes
<1>5. Holds(s)
    BY <1>1, <1>2, <1>3, <1>4 DEF Holds
<1> QED
    BY <1>1, <1>5, RoundInvHolds

\* What an index and the records have in common, record by record, makes it
\* the index of the records, once nothing else is in it.
LEMMA AllSynced ==
    ASSUME Base, NEW f \in Family, \A q \in Rec : Synced(f, q), NoStrays(f, manifest[f], By(f))
    PROVE  InSync(f)
<1>1. Typed /\ index[f] \subseteq Entry
    BY DEF Base, Typed, TypeOK
<1>2. Expected(f) \subseteq index[f]
    <2>1. ASSUME NEW e \in Expected(f) PROVE e \in index[f]
        <3>1. e.rec \in Rec /\ Live(e.rec) /\ e \in Wanted(e.rec, manifest[f], By(f))
            BY ExpectedEntries DEF Wanted
        <3> QED
            BY <3>1 DEF Synced, Stored
    <2> QED
        BY <2>1
<1>3. index[f] \subseteq Expected(f)
    <2>1. CASE f = "semantic"
        BY <2>1 DEF NoStrays, Expected
    <2>2. CASE f = "lexical"
        <3>1. ASSUME NEW e \in index[f] PROVE e \in Expected(f)
            <4>1. e.rec \in Rec /\ Live(e.rec)
                BY <1>1, <2>2, <3>1 DEF NoStrays, Entry
            <4>2. e \in Wanted(e.rec, manifest[f], By(f))
                BY <2>2, <4>1 DEF Synced, Stored
            <4> QED
                BY <4>1, <4>2, ExpectedEntries DEF Wanted
        <3> QED
            BY <3>1
    <2> QED
        BY <2>1, <2>2 DEF Family
<1> QED
    BY <1>2, <1>3 DEF InSync

\* The step leaves what AfterFamily goes on with in sync.
LEMMA FamilyDone ==
    ASSUME Base, RoundInv, Next, Goes(AfterFamily("reconcile")),
           Round.at \notin {"idle", "manifest", "fail"}, NEW f \in Family, f = Round.family,
           f = "semantic" => Round.at # "look",
           Undisturbed(f) => InSync(f)'
    PROVE  RoundInv'
<1> PICK s : s = AfterFamily("reconcile")
    OBVIOUS
<1>1. Round' = s /\ Goes(s) /\ (s.gen = gen => s.rev <= mark.rev)
    BY GoesOn
<1>2. CASE f = "lexical"
    <2>1. s.at = "look" /\ s.family = "semantic"
        BY <1>2, Turns DEF Calm
    <2>2. Undisturbed("lexical")' => Found("lexical")'
        <3>1. Undisturbed("lexical")' => InSync("lexical")'
            BY <1>1, <1>2, GoesOn
        <3> QED
            BY <1>1, <2>1, <3>1 DEF Found
    <2>3. Found("semantic")'
        <3>1. Claim("semantic")'
            BY <1>1, <2>1, ClaimNow DEF Family
        <3> QED
            BY <3>1 DEF Found
    <2>4. gen' = gen /\ mark' = mark
        BY DEF Goes
    <2>5. Holds(s)
        BY <1>1, <2>1, <2>2, <2>3, <2>4 DEF Holds, Family
    <2> QED
        BY <1>1, <2>5, RoundInvHolds
<1>3. CASE f = "semantic"
    <2>1. s.at = "complete" /\ s.family = "semantic"
        BY <1>3, Turns DEF Calm
    <2>2. Undisturbed(f) => Claim(f)'
        BY <1>1, <2>1, ClaimNow
    <2> QED
        BY <1>1, <1>3, <2>1, <2>2, GoesTo
<1> QED
    BY <1>2, <1>3 DEF Family

\* A turn to the records, from the first one on, claims nothing of them yet.
LEMMA TurnsTo ==
    ASSUME Base, RoundInv, Next, NEW p \in {"delete", "check", "fetch", "verify", "fail"},
           Goes(Moved("reconcile", p)), Round.at \notin {"idle", "manifest", "fail"},
           Round.family = "lexical" \/ Round.at # "look",
           p = "verify" => Round.family = "semantic"
    PROVE  RoundInv'
<1> PICK s : s = Moved("reconcile", p)
    OBVIOUS
<1> PICK f \in Family : f = Round.family
    BY RoundFields
<1>1. s.at = p /\ s.next = 1 /\ s.family = f /\ Round' = s /\ Goes(s)
    BY Turns, GoesOn DEF Calm
<1>2. s.at # "fail" => Claim(f)'
    BY <1>1, ClaimNow
<1> QED
    BY <1>1, <1>2, GoesTo

\* What the round has found of its family.
LEMMA GoesWith ==
    ASSUME Base, RoundInv, Round.at \notin {"idle", "manifest", "fail"},
           NEW f \in Family, f = Round.family, Undisturbed(f)
    PROVE  Claim(f)
BY DEF RoundInv, Found

\* What the round computes with is what is to be computed with now.
LEMMA AsNow ==
    ASSUME Base, NEW f \in Family, Undisturbed(f), f = "lexical" \/ Round.at # "look"
    PROVE  LET by == Identity(f, Round.back)
           IN /\ Round.man[f] = manifest[f]
              /\ \A q \in Rec : Wanted(q, manifest[f], by) = Wanted(q, manifest[f], By(f))
              /\ NoStrays(f, manifest[f], by) => NoStrays(f, manifest[f], By(f))
<1>1. Round.man[f] = manifest[f]
    BY DEF Undisturbed
<1>2. CASE Identity(f, Round.back) = By(f)
    BY <1>1, <1>2
<1>3. CASE manifest[f] = {}
    <2>1. \A q, text, by : EntriesOf(q, text, {}, by) = {}
        BY DEF EntriesOf
    <2>2. \A by : Canonical({}, by) = {}
        BY <2>1 DEF Canonical
    <2> QED
        BY <1>1, <1>3, <2>1, <2>2 DEF Wanted, NoStrays
<1>4. Identity(f, Round.back) = By(f) \/ manifest[f] = {}
    BY <1>1 DEF Undisturbed, By, Identity, Family
<1> QED
    BY <1>2, <1>3, <1>4

\* The parts of a step of the round that are the same for all of them.
LEMMA RoundSteps ==
    ASSUME Base, RoundInv, NEW s, Become("reconcile", s),
           UNCHANGED <<mark, rec, manifest, backend, gen, unmarked>>,
           \/ s = AfterFamily("reconcile")
           \/ \E p \in Calm \cup {"delete"} : s = Moved("reconcile", p)
    PROVE  Goes(s)
BY Turns DEF Goes

LEMMA RoundReads ==
    ASSUME Base, RoundInv, Next, ReadManifest("reconcile")
    PROVE  RoundInv'
<1>1. /\ Round \in WorkState /\ Round.at = "manifest" /\ Round.family = "lexical"
      /\ UNCHANGED <<mark, gen>>
      /\ Round.gen = gen => Round.rev <= mark.rev
    BY RoundFields DEF ReadManifest, At, RoundInv, Round, Reads, tables
<1>2. CASE Stop("reconcile")
    BY <1>2, RoundBecomes, Ends DEF Stop
<1>3. CASE Become("reconcile", [Round EXCEPT !.at = "look", !.man = manifest])
    <2> DEFINE s == [Round EXCEPT !.at = "look", !.man = manifest]
    <2>1. s.at = "look" /\ s.family = "lexical" /\ s.rev = Round.rev /\ s.gen = Round.gen
        BY <1>1 DEF WorkState
    <2>2. Round' = s
        BY <1>3, RoundBecomes
    <2> HIDE DEF s
    <2>3. \A f \in Family : Found(f)'
        BY <2>1, <2>2, ClaimNow DEF Found
    <2>4. Holds(s)
        BY <1>1, <2>1, <2>3 DEF Holds
    <2> QED
        BY <2>2, <2>4, RoundInvHolds
<1> QED
    BY <1>2, <1>3 DEF ReadManifest, Round

\* Without a backend the reconcile goes on only where nothing is to be embedded.
LEMMA LooksWithBackend ==
    ASSUME Typed
    PROVE  HasBackend => Backend # None
BY BackendIsTyped DEF Backend

LEMMA RoundLooks ==
    ASSUME Base, RoundInv, Next, LookLexical("reconcile") \/ LookSemantic("reconcile")
    PROVE  RoundInv'
<1>0. /\ UNCHANGED <<mark, rec, manifest, backend, gen, unmarked, index>> /\ Round.at = "look"
      /\ Round.family \in Family
    BY RoundFields DEF LookLexical, LookSemantic, Reads, At, Round, tables
<1>1. CASE LookLexical("reconcile")
    <2>1. Round.family = "lexical"
        BY <1>1 DEF LookLexical, Round
    <2>2. CASE /\ Round.man["lexical"] = {} /\ index["lexical"] = {}
               /\ Become("reconcile", AfterFamily("reconcile"))
        <3>1. Goes(AfterFamily("reconcile"))
            BY <1>0, <2>2, RoundSteps
        <3>2. ASSUME Undisturbed("lexical") PROVE InSync("lexical")'
            <4>1. manifest["lexical"] = {}
                BY <2>2, <3>2 DEF Undisturbed
            <4>2. InSync("lexical")
                BY <4>1, <2>2, ExpectedEntries DEF InSync, Family
            <4> QED
                BY <4>2, <1>0, <3>1, GoesOn, StaysInSync DEF Family
        <3> QED
            BY <1>0, <2>1, <3>1, <3>2, FamilyDone
    <2>3. CASE \E p \in {"delete", "fetch", "check"} : Goto("reconcile", p)
        <3> PICK p \in {"delete", "fetch", "check"} : Goto("reconcile", p)
            BY <2>3
        <3>1. Goes(Moved("reconcile", p))
            BY <1>0, RoundSteps DEF Goto, Calm
        <3> QED
            BY <1>0, <2>1, <3>1, TurnsTo
    <2> QED
        BY <1>1, <2>2, <2>3 DEF LookLexical, Round
<1>2. CASE LookSemantic("reconcile")
    <2> DEFINE fields == Round.man["semantic"]
    <2>1. Round.family = "semantic"
        BY <1>2 DEF LookSemantic, Round
    <2>2. PICK p \in {"fail", "complete", "prune", "fetch", "check"} :
              /\ Become("reconcile", IF Moved("reconcile", p) = Idle THEN Idle
                                     ELSE [Moved("reconcile", p) EXCEPT !.back = Backend])
              /\ p = "complete" => \/ fields = {} /\ ~HasSemanticState
                                   \/ ~HasSemanticState /\ \A r \in Rec : ~Live(r)
              /\ p = "prune" => fields = {}
              /\ p = "fail" \/ fields = {} \/ Backend # None
        <3> DEFINE next == IF ~HasBackend
                           THEN IF fields # {} \/ HasSemanticState THEN "fail" ELSE "complete"
                           ELSE IF fields = {} THEN "prune"
                           ELSE IF ~HasSemanticState /\ \A r \in Rec : ~Live(r) THEN "complete"
                           ELSE IF meta["semantic"] # Built(fields, By("semantic")) THEN "fetch"
                           ELSE "check"
        <3>1. Become("reconcile", IF Moved("reconcile", next) = Idle THEN Idle
                                  ELSE [Moved("reconcile", next) EXCEPT !.back = Backend])
            BY <1>2 DEF LookSemantic, Round
        <3>2. HasBackend => Backend # None
            BY LooksWithBackend DEF Base
        <3>3. /\ next \in {"fail", "complete", "prune", "fetch", "check"}
              /\ next = "complete" => \/ fields = {} /\ ~HasSemanticState
                                      \/ ~HasSemanticState /\ \A r \in Rec : ~Live(r)
              /\ next = "prune" => fields = {}
              /\ next = "fail" \/ fields = {} \/ Backend # None
            BY <3>2
        <3> HIDE DEF next
        <3> QED
            BY <3>1, <3>3
    <2> DEFINE m == Moved("reconcile", p)
               s == [m EXCEPT !.back = Backend]
    <2>3. /\ m.at = p /\ m.next = 1 /\ m.family = Round.family /\ m.rev = Round.rev
          /\ m.gen = Round.gen /\ m.man = Round.man /\ m \in WorkState
        BY Turns, MovesAreSound DEF Calm, Sound, Worker
    <2>4. m # Idle
        BY <2>3 DEF Idle
    <2>5. /\ s.at = p /\ s.next = 1 /\ s.family = "semantic" /\ s.rev = Round.rev
          /\ s.gen = Round.gen /\ s.man = Round.man /\ s.back = Backend
        BY <2>1, <2>3 DEF WorkState
    <2>6. Become("reconcile", s)
        BY <2>2, <2>4
    <2> HIDE DEF m, s
    <2>7. Goes(s) /\ Round' = s /\ Same("semantic")
        BY <1>0, <2>5, <2>6, RoundBecomes, GoesOn DEF Goes, Family
    <2>8. ASSUME Undisturbed("semantic") PROVE Claim("semantic")'
        <3>1. fields = manifest["semantic"]
            BY <2>8 DEF Undisturbed
        <3>2. p = "complete" => InSync("semantic")'
            <4>1. p = "complete" => index["semantic"] = {} /\ Expected("semantic") = {}
                BY <2>2, <3>1, ExpectedEntries DEF HasSemanticState, Family
            <4> QED
                BY <4>1, <1>0, <2>7, StaysInSync DEF InSync, Family
        <3>3. p = "prune" => \A q \in Rec : Synced("semantic", q)'
            <4>1. p = "prune" => \A q \in Rec : Synced("semantic", q)
                BY <2>2, <3>1 DEF Synced, Stored, Wanted, EntriesOf
            <4> QED
                BY <4>1, <1>0, <2>7, StaysInSync DEF Family
        <3> QED
            BY <2>5, <2>7, <3>2, <3>3, ClaimNow DEF Family
    <2> QED
        BY <1>0, <2>1, <2>2, <2>5, <2>7, <2>8, GoesTo
<1> QED
    BY <1>1, <1>2

\* A page of the check, or of a rewrite, that ends at record r.
LEMMA PageSynced ==
    ASSUME Base, NEW f \in Family, NEW n \in 1..N + 1, NEW r \in n..N + 1, NextLive(n, r),
           \A q \in 1..n - 1 : Synced(f, q)
    PROVE  \A q \in 1..r - 1 : Synced(f, q)
<1>1. N \in Nat
    BY RoundFields
<1>2. ASSUME NEW q \in 1..r - 1, q >= n PROVE Synced(f, q)
    BY <1>1, <1>2 DEF NextLive, Synced
<1>3. \A q \in 1..r - 1 : q >= n \/ q \in 1..n - 1
    BY <1>1
<1> QED
    BY <1>2, <1>3

LEMMA RoundChecks ==
    ASSUME Base, RoundInv, Next, Check("reconcile")
    PROVE  RoundInv'
<1> PICK f \in Family : f = Round.family
    BY RoundFields
<1> DEFINE fields == Round.man[f]
           by == Identity(f, Round.back)
<1>0. /\ UNCHANGED <<mark, rec, manifest, backend, gen, unmarked, index>>
      /\ Round.at \in {"check", "verify"}
      /\ Round \in WorkState /\ N \in Nat /\ Round.next \in 1..N + 1
      /\ \A g \in Family : Same(g)
    BY RoundFields DEF Check, Reads, Round, WorkState, tables, Same, By, Backend, HasBackend
<1>1. PICK r \in Round.next..N + 1 :
          /\ NextLive(Round.next, r)
          /\ \/ /\ r <= N /\ Stored(f, r, fields) = Wanted(r, fields, by)
                /\ Become("reconcile", [Round EXCEPT !.next = r + 1])
             \/ \E p \in {"fetch", "fail"} : Goto("reconcile", p)
             \/ /\ r > N /\ NoStrays(f, fields, by)
                /\ \/ Goto("reconcile", "meta") /\ Round.at = "verify"
                   \/ Become("reconcile", AfterFamily("reconcile"))
    BY DEF Check, Round
<1>2. ASSUME Undisturbed(f)
      PROVE  /\ \A q \in 1..r - 1 : Synced(f, q)
             /\ fields = manifest[f]
             /\ \A q \in Rec : Wanted(q, fields, by) = Wanted(q, manifest[f], By(f))
             /\ NoStrays(f, fields, by) => NoStrays(f, manifest[f], By(f))
    <2>1. Claim(f)
        BY <1>0, <1>2, GoesWith
    <2>2. \A q \in 1..Round.next - 1 : Synced(f, q)
        BY <1>0, <2>1 DEF Claim
    <2>3. \A q \in 1..r - 1 : Synced(f, q)
        BY <1>0, <1>1, <2>2, PageSynced
    <2> HIDE DEF by
    <2> QED
        BY <1>0, <1>2, <2>3, AsNow DEF by
<1>3. CASE /\ r <= N /\ Stored(f, r, fields) = Wanted(r, fields, by)
           /\ Become("reconcile", [Round EXCEPT !.next = r + 1])
    <2> PICK s : s = [Round EXCEPT !.next = r + 1]
        OBVIOUS
    <2>1. /\ s.at = Round.at /\ s.next = r + 1 /\ s.family = f /\ s.rev = Round.rev
          /\ s.gen = Round.gen /\ s.man = Round.man /\ s.back = Round.back
        BY <1>0, <1>1, <1>3 DEF WorkState
    <2>2. Become("reconcile", s)
        BY <1>3
    <2>3. Goes(s) /\ Round' = s
        BY <1>0, <2>1, <2>2, RoundBecomes DEF Goes
    <2>4. ASSUME Undisturbed(f) PROVE Claim(f)'
        <3>1. \A q \in 1..r - 1 : Synced(f, q)
            BY <1>2, <2>4
        <3>2. r \in Rec
            BY <1>0, <1>1, <1>3 DEF Rec
        <3>3. Synced(f, r)
            BY <1>2, <1>3, <2>4, <3>2 DEF Synced
        <3>4. 1..(s.next - 1) \subseteq Rec /\ \A q \in 1..(s.next - 1) : q \in 1..r - 1 \/ q = r
            BY <1>0, <1>1, <1>3, <2>1 DEF Rec
        <3>5. \A q \in 1..s.next - 1 : Synced(f, q)
            BY <3>1, <3>3, <3>4
        <3>6. \A q \in Rec : Synced(f, q) => Synced(f, q)'
            BY <1>0, StaysInSync
        <3>7. \A q \in 1..s.next - 1 : Synced(f, q)'
            BY <3>4, <3>5, <3>6
        <3> QED
            BY <1>0, <2>1, <2>3, <3>7, ClaimNow
    <2> QED
        BY <1>0, <2>1, <2>3, <2>4, GoesTo DEF RoundInv
<1>4. CASE \E p \in {"fetch", "fail"} : Goto("reconcile", p)
    <2> PICK p \in {"fetch", "fail"} : Goto("reconcile", p)
        BY <1>4
    <2>1. Goes(Moved("reconcile", p))
        BY <1>0, RoundSteps DEF Goto, Calm
    <2> QED
        BY <1>0, <2>1, TurnsTo
<1>5. ASSUME r > N, NoStrays(f, fields, by), Undisturbed(f) PROVE InSync(f)'
    <2>1. \A q \in Rec : Synced(f, q)
        BY <1>0, <1>1, <1>2, <1>5 DEF Rec
    <2>2. NoStrays(f, manifest[f], By(f))
        BY <1>2, <1>5
    <2>3. InSync(f)
        BY <1>0, <2>1, <2>2, AllSynced
    <2> QED
        BY <1>0, <2>3, StaysInSync
<1>6. CASE r > N /\ NoStrays(f, fields, by) /\ Goto("reconcile", "meta") /\ Round.at = "verify"
    <2> PICK s : s = Moved("reconcile", "meta")
        OBVIOUS
    <2>1. Goes(s)
        BY <1>0, <1>6, RoundSteps DEF Goto, Calm
    <2>2. s.at = "meta" /\ s.family = f /\ Round' = s
        BY <2>1, <1>0, Turns, GoesOn DEF Calm
    <2>3. Undisturbed(f) => Claim(f)'
        BY <1>5, <1>6, <2>2, ClaimNow
    <2> QED
        BY <1>0, <2>1, <2>2, <2>3, GoesTo
<1>7. CASE r > N /\ NoStrays(f, fields, by) /\ Become("reconcile", AfterFamily("reconcile"))
    <2>1. Goes(AfterFamily("reconcile"))
        BY <1>0, <1>7, RoundSteps
    <2> QED
        BY <1>0, <1>5, <1>7, <2>1, FamilyDone
<1> QED
    BY <1>1, <1>3, <1>4, <1>6, <1>7

LEMMA RoundFetches ==
    ASSUME Base, RoundInv, Next, Fetch("reconcile")
    PROVE  RoundInv'
<1> PICK f \in Family : f = Round.family
    BY RoundFields
<1>0. /\ UNCHANGED <<mark, rec, manifest, backend, gen, unmarked, index>> /\ Round.at = "fetch"
      /\ Round \in WorkState /\ N \in Nat /\ Round.next \in 1..N + 1 /\ Same(f)
    BY RoundFields DEF Fetch, At, Reads, Round, WorkState, tables, Same, By, Backend, HasBackend
<1>1. PICK r \in Round.next..N + 1 :
          /\ NextLive(Round.next, r)
          /\ \/ r > N /\ Goto("reconcile", "prune")
             \/ r <= N /\ Become("reconcile", [Round EXCEPT !.at = "write", !.next = r, !.seen = rec[r]])
    <2>1. PICK r \in Round.next..N + 1 :
              /\ NextLive(Round.next, r)
              /\ IF r > N THEN Goto("reconcile", "prune")
                 ELSE Become("reconcile", [Round EXCEPT !.at = "write", !.next = r, !.seen = rec[r]])
        BY DEF Fetch, Round
    <2>2. r > N \/ r <= N
        BY <1>0
    <2> QED
        BY <2>1, <2>2
<1>2. ASSUME Undisturbed(f)
      PROVE  1..r - 1 \subseteq Rec /\ \A q \in 1..r - 1 : Synced(f, q)'
    <2>1. Claim(f)
        BY <1>0, <1>2, GoesWith
    <2>2. \A q \in 1..Round.next - 1 : Synced(f, q)
        BY <1>0, <2>1 DEF Claim
    <2>3. 1..r - 1 \subseteq Rec
        BY <1>0, <1>1 DEF Rec
    <2>4. \A q \in 1..r - 1 : Synced(f, q)
        BY <1>0, <1>1, <2>2, PageSynced
    <2>5. \A q \in Rec : Synced(f, q) => Synced(f, q)'
        BY <1>0, StaysInSync
    <2> QED
        BY <2>3, <2>4, <2>5
<1>3. CASE r > N /\ Goto("reconcile", "prune")
    <2> PICK s : s = Moved("reconcile", "prune")
        OBVIOUS
    <2>1. Goes(s)
        BY <1>0, <1>3, RoundSteps DEF Goto, Calm
    <2>2. s.at = "prune" /\ s.family = f /\ Round' = s
        BY <1>0, <2>1, Turns, GoesOn DEF Calm
    <2>3. ASSUME Undisturbed(f) PROVE Claim(f)'
        <3>1. Rec \subseteq 1..r - 1
            BY <1>0, <1>1, <1>3 DEF Rec
        <3>2. \A q \in Rec : Synced(f, q)'
            BY <1>2, <2>3, <3>1
        <3> QED
            BY <2>2, <3>2, ClaimNow
    <2> QED
        BY <1>0, <2>1, <2>2, <2>3, GoesTo
<1>4. CASE /\ r <= N
           /\ Become("reconcile", [Round EXCEPT !.at = "write", !.next = r, !.seen = rec[r]])
    <2> PICK s : s = [Round EXCEPT !.at = "write", !.next = r, !.seen = rec[r]]
        OBVIOUS
    <2>1. /\ s.at = "write" /\ s.next = r /\ s.seen = rec[r] /\ s.family = f
          /\ s.rev = Round.rev /\ s.gen = Round.gen /\ s.man = Round.man /\ s.back = Round.back
        BY <1>0 DEF WorkState
    <2>2. Goes(s) /\ Round' = s
        BY <1>0, <1>4, <2>1, RoundBecomes DEF Goes
    <2>3. ASSUME Undisturbed(f) PROVE Claim(f)'
        BY <1>0, <1>2, <2>1, <2>2, <2>3, ClaimNow
    <2> QED
        BY <1>0, <2>1, <2>2, <2>3, GoesTo
<1> QED
    BY <1>1, <1>3, <1>4

LEMMA RoundFails ==
    ASSUME Base, RoundInv, Next, Goto("reconcile", "fail"), Round.at # "idle",
           UNCHANGED <<mark, rec, manifest, backend, gen, unmarked>>
    PROVE  RoundInv'
<1>1. Goes(Moved("reconcile", "fail"))
    BY RoundSteps DEF Goto, Calm
<1> QED
    BY <1>1, GoesToFail

LEMMA RoundWrites ==
    ASSUME Base, RoundInv, Next, WritePage("reconcile")
    PROVE  RoundInv'
<1> PICK f \in Family : f = Round.family
    BY RoundFields
<1> PICK r : r = Round.next
    OBVIOUS
<1> DEFINE by == Identity(f, Round.back)
<1>0. /\ UNCHANGED <<mark, rec, manifest, backend, gen, unmarked>> /\ Round.at = "write"
      /\ Round \in WorkState /\ N \in Nat /\ r \in Rec
      /\ index \in [Family -> SUBSET Entry] /\ Same(f)
    BY RoundFields DEF WritePage, At, Writes, Round, Base, WorkersInv, Worker, Typed, TypeOK,
                       Same, By, Backend, HasBackend
<1>1. CASE Goto("reconcile", "fail")
    BY <1>0, <1>1, RoundFails
<1>2. CASE /\ Become("reconcile", [Round EXCEPT !.at = "fetch", !.next = @ + 1, !.seen = None])
           /\ rec[r] = Round.seen => index' = [index EXCEPT ![f] = Rewritten(f, r, Round.man[f], by)]
    <2> PICK s : s = [Round EXCEPT !.at = "fetch", !.next = @ + 1, !.seen = None]
        OBVIOUS
    <2>1. /\ s.at = "fetch" /\ s.next = r + 1 /\ s.family = f
          /\ s.rev = Round.rev /\ s.gen = Round.gen /\ s.man = Round.man /\ s.back = Round.back
        BY <1>0 DEF WorkState
    <2>2. Goes(s) /\ Round' = s
        BY <1>0, <1>2, <2>1, RoundBecomes DEF Goes
    <2>3. ASSUME Undisturbed(f) PROVE Claim(f)'
        <3>1. Claim(f)
            BY <1>0, <2>3, GoesWith
        <3>2. rec[r] = Round.seen /\ \A q \in 1..r - 1 : Synced(f, q)
            BY <1>0, <3>1 DEF Claim
        <3> HIDE DEF by
        <3>3. Round.man[f] = manifest[f] /\ Wanted(r, manifest[f], by) = Wanted(r, manifest[f], By(f))
            BY <1>0, <2>3, AsNow DEF by
        <3>4. Synced(f, r)'
            <4>1. index'[f] = (index[f] \ Stored(f, r, manifest[f])) \cup Wanted(r, manifest[f], By(f))
                BY <1>0, <1>2, <3>2, <3>3 DEF Rewritten
            <4>2. \A e \in Wanted(r, manifest[f], By(f)) : e.rec = r /\ e.field \in manifest[f]
                BY DEF Wanted, EntriesOf
            <4>3. Stored(f, r, manifest[f])' = Wanted(r, manifest[f], By(f))
                BY <1>0, <4>1, <4>2 DEF Stored
            <4>4. Wanted(r, manifest[f], By(f))' = Wanted(r, manifest[f], By(f))
                BY <1>0, SameIsExpected
            <4> QED
                BY <4>3, <4>4 DEF Synced
        <3>5. \A q \in 1..(s.next - 1) : q \in Rec /\ (q \in 1..r - 1 \/ q = r)
            BY <1>0, <2>1 DEF Rec
        <3>6. \A q \in Rec : Synced(f, q) => Synced(f, q)'
            BY <1>0, StaysInSync
        <3>7. \A q \in 1..s.next - 1 : Synced(f, q)'
            BY <3>2, <3>4, <3>5, <3>6
        <3> QED
            BY <2>1, <2>2, <3>7, ClaimNow
    <2> QED
        BY <1>0, <2>1, <2>2, <2>3, GoesTo
<1> QED
    BY <1>1, <1>2 DEF WritePage, Round

LEMMA RoundPrunes ==
    ASSUME Base, RoundInv, Next, Prune("reconcile")
    PROVE  RoundInv'
<1> PICK f \in Family : f = Round.family
    BY RoundFields
<1>0. /\ UNCHANGED <<mark, rec, manifest, backend, gen, unmarked>> /\ Round.at = "prune"
      /\ Typed /\ index \in [Family -> SUBSET Entry]
    BY DEF Prune, At, Writes, Round, Base, Typed, TypeOK
<1>1. CASE Goto("reconcile", "fail")
    BY <1>0, <1>1, RoundFails
<1>2. CASE f = "lexical" /\ Goto("reconcile", "meta")
           /\ index' = [index EXCEPT ![f] = Kept(f, Round.man[f])]
    <2> PICK s : s = Moved("reconcile", "meta")
        OBVIOUS
    <2>1. Goes(s)
        BY <1>0, <1>2, RoundSteps DEF Goto, Calm
    <2>2. s.at = "meta" /\ s.family = "lexical" /\ Round' = s /\ Same("lexical")
        BY <1>0, <1>2, <2>1, Turns, GoesOn DEF Calm, Family
    <2>3. ASSUME Undisturbed("lexical") PROVE Claim("lexical")'
        <3>1. Round.man["lexical"] = manifest["lexical"]
            BY <2>3 DEF Undisturbed
        <3>2. \A q \in Rec : Synced("lexical", q)
            BY <1>0, <1>2, <2>3, GoesWith DEF Claim
        <3>3. index'["lexical"] = Kept("lexical", manifest["lexical"])
            BY <1>0, <1>2, <3>1 DEF Family
        <3>4. Kept("lexical", manifest["lexical"]) = Expected("lexical")
            <4>1. ASSUME NEW e \in Kept("lexical", manifest["lexical"])
                  PROVE  e \in Expected("lexical")
                <5>1. e.rec \in Rec /\ Live(e.rec) /\ e \in Stored("lexical", e.rec, manifest["lexical"])
                    BY <1>0, <4>1 DEF Kept, Stored, Family, Entry
                <5>2. e \in Wanted(e.rec, manifest["lexical"], By("lexical"))
                    BY <3>2, <5>1 DEF Synced
                <5> QED
                    BY <5>1, <5>2, ExpectedEntries DEF Wanted, Family
            <4>2. ASSUME NEW e \in Expected("lexical")
                  PROVE  e \in Kept("lexical", manifest["lexical"])
                <5>1. /\ e.rec \in Rec /\ Live(e.rec) /\ e.field \in manifest["lexical"]
                      /\ e \in Wanted(e.rec, manifest["lexical"], By("lexical"))
                    BY ExpectedEntries DEF Wanted, Family
                <5>2. e \in Stored("lexical", e.rec, manifest["lexical"])
                    BY <3>2, <5>1 DEF Synced
                <5> QED
                    BY <5>1, <5>2 DEF Stored, Kept
            <4> QED
                BY <4>1, <4>2
        <3>5. Expected("lexical")' = Expected("lexical")
            BY <1>0, <2>2, SameIsExpected DEF Family
        <3>6. InSync("lexical")'
            BY <3>3, <3>4, <3>5 DEF InSync
        <3> QED
            BY <2>2, <3>6, ClaimNow DEF Family
    <2> QED
        BY <1>0, <1>2, <2>1, <2>2, <2>3, GoesTo
<1>3. CASE f # "lexical" /\ Goto("reconcile", "verify")
    <2>1. Round.family = "semantic" /\ Goes(Moved("reconcile", "verify"))
        BY <1>0, <1>3, RoundSteps DEF Goto, Calm, Family
    <2> QED
        BY <1>0, <2>1, TurnsTo
<1> QED
    BY <1>1, <1>2, <1>3 DEF Prune, Round

LEMMA RoundRecords ==
    ASSUME Base, RoundInv, Next, Meta("reconcile") \/ DeleteStream("reconcile")
    PROVE  RoundInv'
<1> PICK f \in Family : f = Round.family
    BY RoundFields
<1>0. /\ UNCHANGED <<mark, rec, manifest, backend, gen, unmarked>> /\ Round.at \in {"meta", "delete"}
      /\ Typed /\ index \in [Family -> SUBSET Entry]
    BY DEF Meta, DeleteStream, At, Writes, Round, Base, Typed, TypeOK
<1>1. CASE Goto("reconcile", "fail")
    BY <1>0, <1>1, RoundFails
<1>2. CASE Become("reconcile", AfterFamily("reconcile"))
    <2>1. Goes(AfterFamily("reconcile"))
        BY <1>0, <1>2, RoundSteps
    <2>2. Same(f)
        BY <1>0, <2>1, GoesOn
    <2>3. CASE Meta("reconcile")
        <3>1. Round.at = "meta"
            BY <2>3 DEF Meta, At, Round
        <3>2. Undisturbed(f) => InSync(f)'
            BY <1>0, <2>2, <3>1, GoesWith, StaysInSync DEF Claim
        <3> QED
            BY <1>0, <2>1, <3>1, <3>2, FamilyDone
    <2>4. CASE DeleteStream("reconcile") /\ index' = [index EXCEPT !["lexical"] = {}]
        <3>1. f = "lexical" /\ Round.man[f] = {}
            BY <2>4 DEF DeleteStream, At, Base, WorkersInv, Worker, Round
        <3>2. ASSUME Undisturbed(f) PROVE InSync(f)'
            <4>1. manifest[f] = {}
                BY <3>1, <3>2 DEF Undisturbed
            <4>2. Expected(f) = {}
                BY <4>1, ExpectedEntries
            <4>3. Expected(f)' = Expected(f)
                BY <1>0, <2>2, SameIsExpected
            <4>4. index'[f] = {}
                BY <1>0, <2>4, <3>1
            <4> QED
                BY <4>2, <4>3, <4>4 DEF InSync
        <3> QED
            BY <1>0, <2>1, <3>1, <3>2, FamilyDone
    <2>5. DeleteStream("reconcile") =>
              index' = [index EXCEPT !["lexical"] = {}] \/ Goto("reconcile", "fail")
        BY DEF DeleteStream
    <2> QED
        BY <1>1, <2>3, <2>4, <2>5
<1> QED
    BY <1>1, <1>2 DEF Meta, DeleteStream

LEMMA RoundEnds ==
    ASSUME Base, RoundInv, Next, Complete("reconcile") \/ Fail("reconcile")
    PROVE  RoundInv'
<1>1. CASE Stop("reconcile")
    BY <1>1, RoundBecomes, Ends DEF Stop
<1>2. CASE Complete("reconcile") /\ Goto("reconcile", "fail")
    <2>1. /\ UNCHANGED <<mark, rec, manifest, backend, gen, unmarked>> /\ Round.at = "complete"
        <3>1. ~Fenced("reconcile")
            <4>1. Fenced("reconcile") => Stop("reconcile")
                BY <1>2 DEF Complete
            <4>2. Round' = Moved("reconcile", "fail") /\ Moved("reconcile", "fail").at = "fail"
                BY <1>2, RoundBecomes, Turns DEF Goto, Calm
            <4>3. Stop("reconcile") => Round' = Idle
                BY RoundBecomes DEF Stop
            <4> QED
                BY <4>1, <4>2, <4>3 DEF Idle
        <3> QED
            BY <1>2, <3>1 DEF Complete, At, Writes, Round
    <2> QED
        BY <1>2, <2>1, RoundFails
<1> QED
    BY <1>1, <1>2 DEF Complete, Fail

\* A round that stands still stays true, whatever the others do.
LEMMA RoundStays ==
    ASSUME Base, RoundInv, Next, Round' = Round
    PROVE  RoundInv'
<1> PICK s : s = Round
    OBVIOUS
<1>1. /\ gen \in Nat /\ mark.rev \in Nat /\ s.rev \in Nat /\ s.gen \in Nat /\ s.gen <= gen
      /\ s \in WorkState /\ s.family \in Family /\ N \in Nat
    BY WorkersAreSound, RoundFields DEF Base, Typed, TypeOK, MarkState, Sound, WorkState, Round, Worker
<1>2. Overtakes \/ Respects
    BY WorldStep DEF Base
<1>3. ASSUME s.at # "idle", s.gen = gen' PROVE s.rev <= mark'.rev
    BY <1>1, <1>2, <1>3 DEF Overtakes, Respects, RoundInv
<1>4. ASSUME s.at \notin {"idle", "manifest", "fail"}, NEW f \in Family, Undisturbed(f)'
      PROVE  Found(f)'
    <2>1. CASE (f = "semantic" /\ s.at = "look") \/ ~(f = s.family \/ f = "lexical")
        <3>1. f = "semantic"
            BY <2>1 DEF Family
        <3>2. f = s.family => Claim(f)'
            BY <2>1, ClaimNow
        <3> QED
            BY <3>1, <3>2 DEF Found
    <2>2. CASE ~(f = "semantic" /\ s.at = "look") /\ (f = s.family \/ f = "lexical")
        <3>1. Undisturbed(f) /\ UNCHANGED rec /\ Same(f)
            BY <1>4, <2>2, NotOvertaken
        <3>2. Found(f)
            BY <1>4, <3>1 DEF RoundInv
        <3>3. /\ InSync(f) => InSync(f)'
              /\ \A q \in Rec : Synced(f, q) => Synced(f, q)'
            BY <3>1, StaysInSync
        <3>4. ASSUME f = s.family PROVE Claim(f)'
            <4>1. Claim(f)
                BY <3>2, <3>4 DEF Found
            <4>2. 1..s.next - 1 \subseteq Rec
                BY <1>1 DEF WorkState, Rec
            <4>3. s.at \in {"check", "fetch", "write", "verify"} => \A q \in 1..s.next - 1 : Synced(f, q)'
                BY <3>3, <4>1, <4>2 DEF Claim
            <4>4. s.at = "prune" => \A q \in Rec : Synced(f, q)'
                BY <3>3, <4>1 DEF Claim
            <4>5. s.at \in {"meta", "complete"} => InSync(f)'
                BY <3>3, <4>1 DEF Claim
            <4>6. s.at = "write" => rec'[s.next] = s.seen
                BY <3>1, <4>1 DEF Claim
            <4> QED
                BY <4>3, <4>4, <4>5, <4>6, ClaimNow
        <3> QED
            BY <3>2, <3>3, <3>4 DEF Found
    <2> QED
        BY <2>1, <2>2
<1>5. Holds(s)
    BY <1>3, <1>4 DEF Holds, RoundInv
<1> QED
    BY <1>5, RoundInvHolds

LEMMA RoundPreserved ==
    ASSUME Base, RoundInv, Next
    PROVE  RoundInv'
<1>0. work \in [Worker -> WorkState]
    BY DEF Base, Typed, TypeOK
<1>1. CASE WorkerStep("reconcile")
    <2>1. ~Count("reconcile")
        BY DEF Count, At, RoundInv, Round
    <2> QED
        BY <1>1, <2>1, RoundReads, RoundLooks, RoundChecks, RoundFetches, RoundWrites, RoundPrunes,
           RoundRecords, RoundEnds DEF WorkerStep
<1>2. CASE WorkerFails("reconcile")
    BY <1>2, RoundFails DEF WorkerFails, tables, Round
<1>3. CASE WorkerStep("backfill") \/ WorkerFails("backfill")
    <2>1. \E s : Become("backfill", s)
        BY <1>3, WorkerMoves DEF Worker, Becomes
    <2>2. Round' = Round
        BY <1>0, <2>1 DEF Become, Round, Worker
    <2> QED
        BY <2>2, RoundStays
<1>4. CASE ListScope
    <2> PICK s : s = [Idle EXCEPT !.at = "manifest", !.rev = mark.rev, !.gen = gen]
        OBVIOUS
    <2>1. s.at = "manifest" /\ s.family = "lexical" /\ s.rev = mark.rev
        BY DEF Idle
    <2>2. Round' = s /\ mark' = mark /\ mark.rev \in Nat
        BY <1>4, RoundBecomes DEF ListScope, Reads, tables, Base, Typed, TypeOK, MarkState
    <2>3. Holds(s)
        BY <2>1, <2>2 DEF Holds
    <2> QED
        BY <2>2, <2>3, RoundInvHolds
<1>5. CASE Disturbance
    <2>1. work' = work \/ work' = [w \in Worker |-> Idle]
        BY <1>5 DEF Disturbance, Install, Register, Park, Rearm, BackoffElapses, ConfigureBackend,
                    Crash, memory
    <2>2. Round' = Round \/ Round' = Idle
        BY <2>1 DEF Round, Worker
    <2> QED
        BY <2>2, RoundStays, Ends
<1>6. CASE \/ JobStep \/ JobFails \/ (\E r \in Rec : Write(r)) \/ StartBackfill \/ Reopen
    <2>1. work' = work \/ \E s : Become("backfill", s)
        BY <1>6, JobFrame DEF Write, StartBackfill, Reopen
    <2>2. Round' = Round
        BY <1>0, <2>1 DEF Become, Round, Worker
    <2> QED
        BY <2>2, RoundStays
<1> QED
    BY <1>1, <1>2, <1>3, <1>4, <1>5, <1>6, Cases DEF Worker

\* A mark is cleared by a round, or there is nothing left that it is about.
LEMMA Cleans ==
    ASSUME Typed, Next, mark.dirty, ~mark'.dirty
    PROVE  \/ Complete("reconcile") /\ Fenced("reconcile") /\ MarkIs(Round.rev)
           \/ Reopen /\ rec' = NoRecords /\ index' = NoIndex
<1>0. mark \in MarkState
    BY DEF Typed, TypeOK
<1>1. ASSUME NEW w \in Worker, WorkerStep(w) \/ WorkerFails(w)
      PROVE  Complete("reconcile") /\ Fenced("reconcile") /\ MarkIs(Round.rev)
    <2>1. \/ w = "reconcile" /\ Complete(w) /\ Fenced(w) /\ mark' = Cleared(work[w].rev)
          \/ mark' = Delayed(work[w].rev)
        BY <1>1, WorkerMarks
    <2>2. ~(mark' = Delayed(work[w].rev))
        BY <1>0 DEF Delayed, MarkState
    <2> QED
        BY <1>0, <2>1, <2>2 DEF Cleared, Round
<1>2. CASE Disturbance
    BY <1>0, <1>2, RevisionRises DEF Disturbance, Install, Register, Park, Rearm, BackoffElapses,
       ConfigureBackend, Crash, tables, MarkState
<1>3. CASE JobStep \/ JobFails \/ (\E r \in Rec : Write(r)) \/ ListScope \/ StartBackfill
    BY <1>0, <1>3, JobFrame, RevisionRises DEF Write, ListScope, StartBackfill, Reads, tables
<1>4. CASE Reopen
    BY <1>4 DEF Reopen
<1> QED
    BY <1>1, <1>2, <1>3, <1>4, Cases

LEMMA EmptyIsInSync ==
    ASSUME rec' = NoRecords, index' = NoIndex
    PROVE  CleanMeansInSync'
<1>1. \A f \in Family : index'[f] = {} /\ Expected(f)' = {}
    BY DEF NoRecords, NoIndex, Expected, Canonical, Live
<1> QED
    BY <1>1 DEF CleanMeansInSync

\* What leaves a clean mark clean changes only what an index should hold that
\* it leaves unmarked.
LEMMA CleanRespects ==
    ASSUME Typed, Next, ~mark.dirty, ~mark'.dirty
    PROVE  \/ rec' = NoRecords /\ index' = NoIndex
           \/ UNCHANGED rec /\ \A f \in Family \ unmarked' : f \notin unmarked /\ Same(f)
<1> DEFINE Respected == UNCHANGED rec /\ \A f \in Family \ unmarked' : f \notin unmarked /\ Same(f)
<1>0. mark \in MarkState /\ unmarked \subseteq Family /\ manifest \in [Family -> SUBSET Field]
    BY DEF Typed, TypeOK
<1>1. ASSUME UNCHANGED <<rec, manifest, backend, unmarked>> PROVE Respected
    BY <1>1 DEF Same, By, Backend, HasBackend
<1>2. ASSUME NEW m \in Manifests, Install(m) PROVE Respected
    <2>1. mark' # Marked
        BY <1>0, RevisionRises
    <2>2. \A f \in Family : manifest[f] \cup m[f] = {}
        BY <1>2, <2>1 DEF Install
    <2>3. m \in [Family -> SUBSET Field] /\ \A f \in Family : m[f] = manifest[f]
        BY <2>2
    <2>4. m = manifest
        BY <1>0, <2>3
    <2> QED
        BY <1>1, <1>2, <2>1, <2>4 DEF Install
<1>3. ASSUME NEW m \in Manifests, Register(m) PROVE Respected
    BY <1>3 DEF Register, Same, By, Backend, HasBackend
<1>4. CASE ConfigureBackend \/ Crash
    <2>1. UNCHANGED <<rec, manifest>>
        BY <1>4 DEF ConfigureBackend, Crash, tables
    <2>2. PICK m \in Models \cup {None} : backend'.is = m /\ Configured(m) /\ backend' # None
        <3> DEFINE next(m) == {[backend EXCEPT !.is = m], [no |-> backend.no + 1, is |-> m]}
        <3>1. \A m \in Models \cup {None} : \A b \in next(m) : b.is = m /\ b # None
            BY DEF Typed, TypeOK, BackendState, Identities
        <3>2. \E m \in Models \cup {None} : backend' \in next(m) /\ Configured(m)
            <4>1. CASE ConfigureBackend
                <5>1. PICK m \in Models \cup {None} :
                          backend' = [no |-> backend.no + 1, is |-> m] /\ Configured(m)
                    BY <4>1 DEF ConfigureBackend
                <5>2. backend' \in next(m)
                    BY <5>1
                <5> HIDE DEF next
                <5> QED
                    BY <5>1, <5>2
            <4>2. CASE Crash
                <5>1. PICK m \in Models \cup {None} :
                          backend' = [backend EXCEPT !.is = m] /\ Configured(m)
                    BY <4>2 DEF Crash
                <5>2. backend' \in next(m)
                    BY <5>1
                <5> HIDE DEF next
                <5> QED
                    BY <5>1, <5>2
            <4> QED
                BY <1>4, <4>1, <4>2
        <3> HIDE DEF next
        <3> QED
            BY <3>1, <3>2
    <2>3. unmarked' = IF m = backend.is THEN unmarked ELSE unmarked \cup {"semantic"}
        BY <2>2 DEF Configured
    <2>4. By("lexical")' = By("lexical")
        BY DEF By, Identity
    <2>5. m = backend.is => By("semantic")' = By("semantic")
        <3>1. By("semantic") = backend.is
            BY BackendIsTyped
        <3>2. By("semantic")' = backend'.is
            BY <2>2 DEF By, Identity, Backend, HasBackend
        <3> QED
            BY <2>2, <3>1, <3>2
    <2> QED
        BY <2>1, <2>3, <2>4, <2>5 DEF Same, Family
<1>5. CASE Park \/ Rearm \/ BackoffElapses \/ ListScope \/ StartBackfill
    BY <1>1, <1>5 DEF Park, Rearm, BackoffElapses, ListScope, StartBackfill, Reads, tables
<1>6. CASE Reopen
    BY <1>1, <1>6 DEF Reopen
<1>7. ASSUME NEW r \in Rec, Write(r) PROVE FALSE
    BY <1>0, <1>7, RevisionRises DEF Write
<1> QED
    BY <1>1, <1>2, <1>3, <1>4, <1>5, <1>6, <1>7, JobFrame, WorkerFrame, Cases DEF Disturbance

LEMMA CleanPreserved ==
    ASSUME Inv, Next
    PROVE  CleanMeansInSync'
<1>0. Base /\ RoundInv /\ CleanMeansInSync /\ Typed
    BY DEF Inv, Base
<1> SUFFICES ASSUME ~mark'.dirty PROVE CleanMeansInSync'
    BY DEF CleanMeansInSync
<1>1. ASSUME UNCHANGED rec,
             \A f \in Family \ unmarked' : Same(f) /\ InSync(f)
      PROVE  CleanMeansInSync'
    <2>1. \A f \in Family \ unmarked' : InSync(f)'
        BY <1>0, <1>1, StaysInSync
    <2> QED
        BY <2>1 DEF CleanMeansInSync, InSync
<1>2. CASE mark.dirty
    <2>1. CASE Complete("reconcile") /\ Fenced("reconcile") /\ MarkIs(Round.rev)
        <3>1. UNCHANGED <<rec, manifest, backend, unmarked>> /\ Round.at = "complete"
            BY <2>1 DEF Complete, At, Writes, Round
        <3>2. Round.family = "semantic"
            BY <1>0, <3>1 DEF RoundInv
        <3>3. ASSUME NEW f \in Family \ unmarked' PROVE Same(f) /\ InSync(f)
            <4>1. Undisturbed(f)
                BY <2>1, <3>1, <3>2, <3>3 DEF Fenced, Undisturbed, Round
            <4>2. Found(f)
                BY <1>0, <3>1, <4>1 DEF RoundInv
            <4> QED
                BY <3>1, <3>2, <4>2 DEF Found, Claim, Family, Same, By, Backend, HasBackend
        <3> QED
            BY <1>1, <3>1, <3>3
    <2>2. CASE rec' = NoRecords /\ index' = NoIndex
        BY <2>2, EmptyIsInSync
    <2> QED
        BY <1>0, <1>2, <2>1, <2>2, Cleans
<1>3. CASE ~mark.dirty
    <2>1. CASE UNCHANGED rec /\ \A f \in Family \ unmarked' : f \notin unmarked /\ Same(f)
        BY <1>0, <1>1, <1>3, <2>1 DEF CleanMeansInSync, InSync
    <2> QED
        BY <1>0, <1>3, <2>1, CleanRespects, EmptyIsInSync
<1> QED
    BY <1>2, <1>3

LEMMA InvPreserved ==
    ASSUME Inv, Next
    PROVE  Inv'
BY BasePreserved, RoundPreserved, CleanPreserved DEF Inv
-----------------------------------------------------------------------------
(* the theorems                                                             *)

LEMMA Stutters ==
    ASSUME Inv, UNCHANGED vars
    PROVE  Inv'
<1> USE DEF vars, tables, memory, bounds
<1>1. Base'
    BY DEF Inv, Base, Typed, TypeOK, JobsInv, WorkersInv
<1>2. CleanMeansInSync'
    BY DEF Inv, CleanMeansInSync, Expected, Canonical, Live, By, Backend, HasBackend
<1>3. RoundInv'
    <2>1. \A f \in Family : Expected(f)' = Expected(f)
        BY DEF Expected, Canonical, Live, By, Backend, HasBackend
    <2>2. \A f, q : Synced(f, q)' = Synced(f, q)
        BY DEF Synced, Stored, Wanted, Live, By, Backend, HasBackend
    <2>3. \A f \in Family : InSync(f)' = InSync(f)
        BY <2>1 DEF InSync
    <2>4. \A f \in Family : /\ Undisturbed(f)' = Undisturbed(f)
                            /\ Claim(f)' = Claim(f)
        BY <2>2, <2>3 DEF Undisturbed, Claim, Round, MarkIs, Backend, HasBackend
    <2>5. \A f \in Family : Found(f)' = Found(f)
        BY <2>3, <2>4 DEF Found, Round
    <2> QED
        BY <2>4, <2>5 DEF Inv, RoundInv, Round
<1> QED
    BY <1>1, <1>2, <1>3 DEF Inv

LEMMA SpecImpliesInv == Spec => []Inv
<1>1. Inv /\ [Next]_vars => Inv'
    BY InvPreserved, Stutters
<1> QED
    BY InvInitially, <1>1, PTL DEF Spec

\* The state of records, indexes, mark, queue and workers has its type, with one
\* text at most for a field of a record, whatever the number of records.
THEOREM IndexTypeCorrect == Spec => []TypeOK
<1>1. Inv => TypeOK
    BY DEF Inv, Base, Typed
<1> QED
    BY <1>1, SpecImpliesInv, PTL

\* While the mark of a stream is clear, an index holds what its records say,
\* embedded by the backend of now, unless a registration or an exchange of the
\* backend changed its terms since the last mark: in any interleaving of writes,
\* publications, both workers, installs, crashes and exchanges of the storage.
THEOREM CleanIsInSync == Spec => []CleanMeansInSync
<1>1. Inv => CleanMeansInSync
    BY DEF Inv
<1> QED
    BY <1>1, SpecImpliesInv, PTL

LEMMA StepPublishesCurrent ==
    ASSUME Inv, [Next]_vars
    PROVE  \A f \in Family : \A e \in index'[f] \ index[f] : e \in Expected(f)'
<1>0. Base
    BY DEF Inv
<1>1. CASE UNCHANGED index
    BY <1>1
<1>2. CASE Next /\ UNCHANGED <<rec, manifest, backend>>
    <2>1. \A f \in Family : index'[f] \ index[f] \subseteq Expected(f)
        BY <1>0, <1>2, IndexStep DEF Improves
    <2>2. ASSUME NEW f \in Family PROVE Expected(f)' = Expected(f)
        BY <1>2, SameIsExpected DEF Same, By, Backend, HasBackend
    <2> QED
        BY <2>1, <2>2
<1>3. CASE (\E r \in Rec : Write(r)) \/ Disturbance
    BY <1>1, <1>3, DisturbanceFrame DEF Write
<1>4. CASE Reopen
    <2>1. CASE index' = NoIndex
        BY <2>1 DEF NoIndex
    <2> QED
        BY <1>1, <1>4, <2>1 DEF Reopen
<1>5. CASE ListScope \/ StartBackfill
    BY <1>1, <1>5 DEF ListScope, StartBackfill, Reads, tables
<1>6. CASE UNCHANGED vars
    BY <1>1, <1>6 DEF vars, tables
<1> QED
    BY <1>2, <1>3, <1>4, <1>5, <1>6, JobFrame, WorkerFrame, Cases

\* What enters an index is what the records say at that moment, however old
\* the read it was computed from (isRecordStillCurrent, writeSqliteLexicalPage).
THEOREM NothingStalePublished == Spec => PublishesCurrent
<1>1. Inv /\ [Next]_vars =>
          [\A f \in Family : \A e \in index'[f] \ index[f] : e \in Expected(f)']_vars
    BY StepPublishesCurrent
<1> QED
    BY <1>1, SpecImpliesInv, PTL DEF Spec, PublishesCurrent

LEMMA StepFencesGenerations ==
    ASSUME Inv, [Next]_vars,
           \/ \E w \in Worker : work'[w] # work[w] /\ work[w].gen # gen /\ work[w].at # "idle"
           \/ Len(jobs') < Len(jobs) /\ Head(jobs).gen # gen
    PROVE  UNCHANGED <<index, meta, mark>>
<1>0. /\ jobs \in Seq(JobState) /\ work \in [Worker -> WorkState] /\ Typed /\ Base
      /\ Len(jobs) \in Nat
    BY DEF Inv, Base, Typed, TypeOK
<1>1. ASSUME NEW w \in Worker, WorkerStep(w) \/ WorkerFails(w)
      PROVE  UNCHANGED <<index, meta, mark>>
    <2>1. jobs' = jobs /\ \E s : Become(w, s)
        BY <1>0, <1>1, WorkerFrame, WorkerMoves DEF Becomes
    <2>2. work[w].gen # gen
        BY <1>0, <2>1 DEF Become
    <2> QED
        BY <1>1, <2>2 DEF WorkerStep, WorkerFails, ReadManifest, LookLexical, LookSemantic, Check,
           Count, Fetch, WritePage, Prune, Meta, DeleteStream, Complete, Fail, Fenced, Reads, tables
<1>2. CASE JobStep \/ JobFails
    <2>1. Head(jobs).gen # gen
        BY <1>2, JobFrame
    <2>2. Publish => ~IsCurrent(Current)
        BY <2>1 DEF IsCurrent, Current
    <2> QED
        BY <1>2, <2>2 DEF JobStep, Publish, ComputeLexical, ComputeSemantic, JobFails, JobReads, tables
<1>3. ASSUME NEW r \in Rec, Write(r) PROVE FALSE
    <2>1. UNCHANGED work /\ \E j : jobs' = Append(jobs, j)
        BY <1>3 DEF Write
    <2>2. Len(jobs') = Len(jobs) + 1
        BY <1>0, <2>1
    <2> QED
        BY <1>0, <2>1, <2>2
<1>4. CASE Disturbance
    <2>1. Crash \/ UNCHANGED <<jobs, work>>
        BY <1>4 DEF Disturbance, Install, Register, Park, Rearm, BackoffElapses, ConfigureBackend,
                    memory
    <2>2. ~(UNCHANGED <<jobs, work>>)
        BY <1>0
    <2> QED
        BY <2>1, <2>2 DEF Crash, tables
<1>5. CASE ListScope \/ StartBackfill
    BY <1>5 DEF ListScope, StartBackfill, Reads, tables
<1>6. ~Reopen /\ ~(UNCHANGED vars)
    BY <1>0 DEF Reopen, vars, memory
<1> QED
    BY <1>1, <1>2, <1>3, <1>4, <1>5, <1>6, Cases

\* Work that an earlier storage generation left behind changes neither the
\* indexes nor the mark of the database opened after it.
THEOREM GenerationsFenced == Spec => OldGenerationWritesNothing
<1>1. Inv /\ [Next]_vars =>
      [\/ \E w \in Worker : work'[w] # work[w] /\ work[w].gen # gen /\ work[w].at # "idle"
       \/ Len(jobs') < Len(jobs) /\ Head(jobs).gen # gen
       => UNCHANGED <<index, meta, mark>>]_vars
    BY StepFencesGenerations
<1> QED
    BY <1>1, SpecImpliesInv, PTL DEF Spec, OldGenerationWritesNothing
=============================================================================
