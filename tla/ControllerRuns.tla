--------------------------- MODULE ControllerRuns ---------------------------
(***************************************************************************)
(* The run slot of one connection: runNow, the watchdog and the cleanup of *)
(* a run (reference-implementation/runtime/controller.ts), the scheduler's *)
(* own attempts (runtime/scheduler/run-executor.ts), and the row of        *)
(* controller_active_runs both compete for.                                *)
(*                                                                         *)
(* A run is claimed twice, by an entry of the controller's memory and by   *)
(* the row, and both are given back when it ends. runNow holds the         *)
(* connector's lifecycle lock from its checks to the launch; but what a    *)
(* run starts in its turn, in an asynchronous context that counts as       *)
(* holding that lock, takes none.                                          *)
(*                                                                         *)
(* A step ends where the code awaits something another step could change.  *)
(* A child process may run for ever and may ignore being told to stop.     *)
(* Durations are not counted: a timer that is armed may fire at any        *)
(* moment.                                                                 *)
(***************************************************************************)
EXTENDS Naturals

CONSTANTS
    MaxRuns,        \* bound: runs, numbered as they are asked for
    MaxFaults,      \* bound: statements that fail
    MaxCrashes      \* bound: restarts of the process

ASSUME RunBoundsAreNat == MaxRuns \in Nat /\ MaxFaults \in Nat /\ MaxCrashes \in Nat

Run == 1..MaxRuns
NoRun == 0

VARIABLES
    pc,             \* where each run has got to: its admission, its child, its end
    lock,           \* the run under whose admission the lifecycle lock is held
    activeRun,      \* the entry of activeRuns
    tracked,        \* activeRunPromises
    settled,        \* settledRunIds
    newest,         \* the run admitted last: runGenerations, by its bearer
    timer,          \* the watchdog of each run
    row,            \* the row of controller_active_runs
    seen,           \* the row each admission has read
    ended,          \* runs with a terminal event in the spine
    clears,         \* deletions of the row nobody waits for, by run id
    taken,          \* history: whether an admission took the entry of the row's run
    faults, crashes

vars == <<pc, lock, activeRun, tracked, settled, newest, timer,
          row, seen, ended, clears, taken, faults, crashes>>
-----------------------------------------------------------------------------
Init ==
    /\ pc = [r \in Run |-> "idle"]
    /\ lock = NoRun
    /\ activeRun = NoRun
    /\ tracked = {}
    /\ settled = {}
    /\ newest = NoRun
    /\ timer = [r \in Run |-> "unset"]
    /\ row = NoRun
    /\ seen = [r \in Run |-> NoRun]
    /\ ended = {}
    /\ clears = {}
    /\ taken = FALSE
    /\ faults = 0
    /\ crashes = 0

At(r, point) == pc[r] = point
Goto(r, point) == pc' = [pc EXCEPT ![r] = point]
Unlock(r) == lock' = IF lock = r THEN NoRun ELSE lock

Fault == faults < MaxFaults /\ faults' = faults + 1

Memory == <<activeRun, tracked, settled, newest, timer, taken>>
Database == <<row, ended, clears>>
Bounds == <<faults, crashes>>
-----------------------------------------------------------------------------
\* The next run id, not used before.
New(r) == At(r, "idle") /\ \A s \in Run : At(s, "idle") => r <= s

Refuse(r) == Goto(r, "over") /\ Unlock(r)
Forget(r) == seen' = [seen EXCEPT ![r] = NoRun]

Stale(r) == r \in settled \/ r \notin tracked

\* assertNoConflictingActiveRun: a stale entry is taken away.
CheckMemory(r) ==
    /\ activeRun # NoRun => Stale(activeRun)
    /\ activeRun' = NoRun
    /\ tracked' = tracked \ {activeRun}
    /\ settled' = settled \ {activeRun}
    /\ taken' = (taken \/ activeRun # NoRun)
    /\ Goto(r, "row")
    /\ UNCHANGED <<newest, timer, Database, seen, Bounds>>

MemoryConflict(r) ==
    /\ activeRun # NoRun /\ ~Stale(activeRun)
    /\ Refuse(r)
    /\ UNCHANGED <<Memory, Database, seen, Bounds>>

\* A request, or the launch of a run that waited for a browser surface.
Start(r) ==
    /\ New(r) \/ At(r, "waiting")
    /\ lock = NoRun
    /\ \/ lock' = r /\ CheckMemory(r)
       \/ MemoryConflict(r)

\* A recovery continuation, or the launch of a waiting run by one that gives its
\* surface back: a run of this connection or of another of the connector.
StartInside(r) ==
    /\ At(r, "continuing") \/ At(r, "waiting")
    /\ \/ CheckMemory(r) /\ UNCHANGED lock
       \/ MemoryConflict(r)

\* assertNoConflictingDurableActiveRun: the row, and then whether its run has
\* ended, in which case the row is deleted.
ReadRow(r) ==
    /\ At(r, "row")
    /\ seen' = [seen EXCEPT ![r] = row]
    /\ Goto(r, IF row = NoRun THEN "insert" ELSE "judge")
    /\ UNCHANGED <<lock, Memory, Database, Bounds>>

\* Mutant: the row is deleted by its key alone.
DeleteAnyRow(r) == row' = NoRun

\* deleteActiveRun
DeleteRow(r) == row' = IF row = r THEN NoRun ELSE row

\* Mutant: a row whose run has no entry is taken for stale.
JudgeByMemory(r) ==
    /\ At(r, "judge")
    /\ Forget(r)
    /\ \/ seen[r] # activeRun /\ DeleteRow(seen[r]) /\ Goto(r, "insert") /\ UNCHANGED lock
       \/ seen[r] = activeRun /\ Refuse(r) /\ UNCHANGED row
    /\ UNCHANGED <<Memory, ended, clears, Bounds>>

Judge(r) ==
    /\ At(r, "judge")
    /\ Forget(r)
    /\ \/ seen[r] \in ended /\ DeleteRow(seen[r]) /\ Goto(r, "insert") /\ UNCHANGED lock
       \/ seen[r] \notin ended /\ Refuse(r) /\ UNCHANGED row
    /\ UNCHANGED <<Memory, ended, clears, Bounds>>

\* registerActiveRunBookkeeping: upsertActiveRun, ON CONFLICT DO NOTHING, and
\* what the memory holds of the run.
Register(r) ==
    /\ At(r, "insert")
    /\ row = NoRun
    /\ row' = r
    /\ newest' = r
    /\ activeRun' = r
    /\ taken' = FALSE
    /\ Goto(r, "registered")
    /\ UNCHANGED <<lock, tracked, settled, timer, ended, clears, seen, Bounds>>

RowConflict(r) ==
    /\ At(r, "insert")
    /\ row # NoRun
    /\ Refuse(r)
    /\ UNCHANGED <<Memory, Database, seen, Bounds>>

\* A statement of the admission fails, and with it the request.
AdmissionFails(r) ==
    /\ pc[r] \in {"row", "judge", "insert"}
    /\ Fault
    /\ Refuse(r) /\ Forget(r)
    /\ UNCHANGED <<Memory, Database, crashes>>
-----------------------------------------------------------------------------
\* Mutant: whoever's entry it is, it goes.
CleanUpByKey(r) ==
    /\ settled' = settled \cup {r}
    /\ activeRun' = NoRun
    /\ clears' = clears \cup {r}

\* finalizeRunCleanup up to its first await. Nobody waits for the deletion.
CleanUp(r) ==
    /\ settled' = settled \cup {r}
    /\ \/ activeRun = r /\ activeRun' = NoRun /\ clears' = clears \cup {r}
       \/ activeRun # r /\ UNCHANGED <<activeRun, clears>>

\* The rest of it: a timer that has not fired is stopped, the surface's lease is
\* released, and the promise forgotten.
EndTracking(r, firing) ==
    /\ tracked' = IF activeRun = r THEN tracked \ {r} ELSE tracked
    /\ timer' = [timer EXCEPT ![r] =
                    IF firing \/ (activeRun = r /\ @ = "armed") THEN "off" ELSE @]

\* The browser surface of a run is there, or none is needed.
Launch(r) ==
    /\ At(r, "registered")
    /\ tracked' = tracked \cup {r}
    /\ timer' = [timer EXCEPT ![r] = "armed"]
    /\ Goto(r, "running")
    /\ Unlock(r)
    /\ UNCHANGED <<activeRun, settled, newest, taken, Database, seen, Bounds>>

\* It has to wait for one, or gets none; the run is cleaned up either way.
NoSurface(r, point) ==
    /\ At(r, "registered")
    /\ CleanUp(r)
    /\ EndTracking(r, FALSE)
    /\ Goto(r, point)
    /\ Unlock(r)
    /\ UNCHANGED <<newest, taken, row, ended, seen, Bounds>>
-----------------------------------------------------------------------------
\* The runtime records how the child ended.
ChildEnds(r) ==
    /\ At(r, "running")
    /\ ended' = ended \cup {r}
    /\ Goto(r, "reported")
    /\ UNCHANGED <<lock, Memory, row, seen, clears, Bounds>>

\* maybeContinueRecoveryAfterProgress, of a run that succeeded
Continue(r) ==
    \E c \in Run :
        /\ New(c)
        /\ pc' = [pc EXCEPT ![r] = "over", ![c] = "continuing"]

\* It reports that, and the run is cleaned up.
Return(r) ==
    /\ At(r, "reported")
    /\ CleanUp(r)
    /\ EndTracking(r, FALSE)
    /\ Goto(r, "over") \/ Continue(r)
    /\ UNCHANGED <<lock, newest, taken, row, ended, seen, Bounds>>

\* The runtime throws, before it has recorded anything or after. A run that is
\* no longer the newest is only cleaned up.
Throw(r) ==
    /\ pc[r] \in {"running", "reported"}
    /\ newest = r
    /\ Goto(r, "caught")
    /\ UNCHANGED <<lock, Memory, Database, seen, Bounds>>

ThrowSuperseded(r) ==
    /\ pc[r] \in {"running", "reported"}
    /\ newest # r
    /\ CleanUp(r)
    /\ EndTracking(r, FALSE)
    /\ Goto(r, "over")
    /\ UNCHANGED <<lock, newest, taken, row, ended, seen, Bounds>>

\* A terminal event is written unless there is one; when that fails, the code
\* goes on without.
Record(r) ==
    \/ ended' = ended \cup {r} /\ UNCHANGED faults
    \/ r \notin ended /\ Fault /\ UNCHANGED ended

Caught(r) ==
    /\ At(r, "caught")
    /\ Record(r)
    /\ Goto(r, "finalize")
    /\ UNCHANGED <<lock, Memory, row, seen, clears, crashes>>

Finalize(r) ==
    /\ At(r, "finalize")
    /\ CleanUp(r)
    /\ EndTracking(r, FALSE)
    /\ Goto(r, "over")
    /\ UNCHANGED <<lock, newest, taken, row, ended, seen, Bounds>>
-----------------------------------------------------------------------------
\* armRunWatchdog's timer. Any entry of the connection makes it act: the child is
\* told to stop.
Fire(r) ==
    /\ timer[r] = "armed"
    /\ \/ activeRun = NoRun /\ timer' = [timer EXCEPT ![r] = "missed"]
       \/ activeRun # NoRun /\ timer' = [timer EXCEPT ![r] = "check"]
    /\ UNCHANGED <<pc, lock, activeRun, tracked, settled, newest, taken, Database, seen, Bounds>>

\* Mutant: a failure to record the end is not caught.
TimerRecordUncaught(r) ==
    /\ timer[r] = "check"
    /\ \/ ended' = ended \cup {r} /\ timer' = [timer EXCEPT ![r] = "finish"] /\ UNCHANGED faults
       \/ r \notin ended /\ Fault /\ timer' = [timer EXCEPT ![r] = "off"] /\ UNCHANGED ended
    /\ UNCHANGED <<pc, lock, activeRun, tracked, settled, newest, taken, row, seen, clears, crashes>>

TimerRecord(r) ==
    /\ timer[r] = "check"
    /\ Record(r)
    /\ timer' = [timer EXCEPT ![r] = "finish"]
    /\ UNCHANGED <<pc, lock, activeRun, tracked, settled, newest, taken, row, seen, clears, crashes>>

TimerFinish(r) ==
    /\ timer[r] = "finish"
    /\ CleanUp(r)
    /\ EndTracking(r, TRUE)
    /\ UNCHANGED <<pc, lock, newest, taken, row, ended, seen, Bounds>>
-----------------------------------------------------------------------------
\* An attempt of the scheduler: the row is all it asks for. Inserting it takes
\* the lifecycle lock, for the length of the statement.
Reserve(r) ==
    /\ New(r)
    /\ lock = NoRun
    /\ \/ row = NoRun /\ row' = r /\ taken' = FALSE /\ Goto(r, "attempt") /\ UNCHANGED faults
       \/ row # NoRun /\ Goto(r, "over") /\ UNCHANGED <<row, taken, faults>>
       \/ Fault /\ Goto(r, "over") /\ UNCHANGED <<row, taken>>
    /\ UNCHANGED <<lock, activeRun, tracked, settled, newest, timer, seen, ended, clears, crashes>>

\* Its child ends, and the runtime has recorded that or has thrown.
AttemptEnds(r) ==
    /\ At(r, "attempt")
    /\ ended' \in {ended, ended \cup {r}}
    /\ Goto(r, "release")
    /\ UNCHANGED <<lock, Memory, row, seen, clears, Bounds>>

AttemptReleases(r) ==
    /\ At(r, "release")
    /\ \/ DeleteRow(r) /\ UNCHANGED faults
       \/ Fault /\ UNCHANGED row
    /\ Goto(r, "over")
    /\ UNCHANGED <<lock, Memory, ended, seen, clears, crashes>>
-----------------------------------------------------------------------------
\* A deletion nobody waits for is done, or fails and is only logged.
Clear(r) ==
    /\ r \in clears
    /\ clears' = clears \ {r}
    /\ \/ DeleteRow(r) /\ UNCHANGED faults
       \/ Fault /\ UNCHANGED row
    /\ UNCHANGED <<pc, lock, Memory, seen, ended, crashes>>

\* The process ends and starts again. Runs that wait for a surface still do, by
\* their stored lease; releaseAbandonedControllerRunClaims is about to delete the
\* row it finds.
Restart ==
    /\ crashes < MaxCrashes
    /\ crashes' = crashes + 1
    /\ \E queued \in SUBSET {r \in Run : At(r, "registered")} :
          pc' = [r \in Run |-> IF r \in queued THEN "waiting"
                              ELSE IF pc[r] \in {"idle", "waiting"} THEN pc[r] ELSE "over"]
    /\ lock' = NoRun
    /\ activeRun' = NoRun
    /\ tracked' = {}
    /\ settled' = {}
    /\ newest' = NoRun
    /\ taken' = FALSE
    /\ timer' = [r \in Run |-> IF timer[r] = "unset" THEN "unset" ELSE "off"]
    /\ clears' = {row} \ {NoRun}
    /\ seen' = [r \in Run |-> NoRun]
    /\ UNCHANGED <<row, ended, faults>>

Admission(r) ==
    \/ At(r, "continuing") /\ StartInside(r)
    \/ ReadRow(r) \/ Judge(r) \/ Register(r) \/ RowConflict(r)
    \/ Launch(r) \/ NoSurface(r, "waiting") \/ NoSurface(r, "over")

Child(r) == ChildEnds(r) \/ Return(r) \/ Throw(r) \/ ThrowSuperseded(r)

Ending(r) == Caught(r) \/ Finalize(r)

Watchdog(r) == Fire(r) \/ TimerRecord(r) \/ TimerFinish(r)

Next ==
    \/ \E r \in Run :
          \/ Start(r) \/ StartInside(r) \/ Admission(r) \/ AdmissionFails(r)
          \/ Child(r) \/ Ending(r) \/ Watchdog(r) \/ Clear(r)
          \/ Reserve(r) \/ AttemptEnds(r) \/ AttemptReleases(r)
    \/ Restart

Spec == Init /\ [][Next]_vars

\* The process goes on with what it has begun, timers fire, and statements
\* answer. Nothing makes a child end.
FairSpec ==
    /\ Spec
    /\ \A r \in Run : /\ WF_vars(Admission(r))
                      /\ WF_vars(Ending(r))
                      /\ WF_vars(Watchdog(r))
                      /\ WF_vars(Clear(r))
-----------------------------------------------------------------------------
Point == {"idle", "waiting", "continuing", "row", "judge", "insert", "registered",
          "running", "reported", "caught", "finalize", "attempt", "release", "over"}

\* Every variable has its type; the lock is held by a run in its admission, and
\* a launched run has been timed.
TypeOK ==
    /\ pc \in [Run -> Point]
    /\ lock \in Run \cup {NoRun} /\ activeRun \in Run \cup {NoRun}
    /\ newest \in Run \cup {NoRun} /\ row \in Run \cup {NoRun}
    /\ seen \in [Run -> Run \cup {NoRun}]
    /\ tracked \subseteq Run /\ settled \subseteq Run
    /\ ended \subseteq Run /\ clears \subseteq Run /\ taken \in BOOLEAN
    /\ timer \in [Run -> {"unset", "armed", "check", "finish", "missed", "off"}]
    /\ faults \in 0..MaxFaults /\ crashes \in 0..MaxCrashes
    /\ lock # NoRun => pc[lock] \in {"row", "judge", "insert", "registered"}
    /\ \A r \in Run : At(r, "running") => timer[r] # "unset"

\* While a run is admitted or its child runs it owns the row, unless its
\* watchdog has given it up: at most one such run exists at a time, although
\* late deletions, judgements of an older row and abandoned children are under
\* way, an admission goes without the lock, and an entry may be taken wrongly.
ClaimHeld ==
    \A r \in Run :
        pc[r] \in {"registered", "running", "attempt"}
        /\ r \notin ended /\ timer[r] # "off"
        => row = r

\* The entry of a run is given up by its own cleanup or watchdog or once its
\* end is recorded; or it is taken in one of two gaps: before the launch, where
\* an admission runs without the lock, and in a run that had to wait for a
\* browser surface, whose cleanup had marked it as settled.
EntryTakenOnlyInAGap ==
    [][\A r \in Run :
          activeRun = r /\ activeRun' # r /\ crashes' = crashes
          => \/ At(r, "finalize") \/ timer[r] = "finish" \/ r \in ended
             \/ At(r, "registered") \/ r \in settled]_vars

Blocks(r) == row = r /\ r \notin ended /\ pc[r] \in {"running", "waiting", "over"}

\* No run blocks its connection for ever: not one whose child hangs, although
\* one statement fails, and without a failure not one that waits for a surface
\* or is over; unless an admission took its entry.
SlotComesFree ==
    []<>(\A r \in Run : Blocks(r) =>
             taken \/ faults > (IF At(r, "running") THEN 1 ELSE 0))

\* The watchdog bounds every run: none hangs for ever with its claim in place.
WatchdogBounds == []<>(\A r \in Run : ~(At(r, "running") /\ Blocks(r)))
=============================================================================
