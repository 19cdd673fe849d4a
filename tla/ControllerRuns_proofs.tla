------------------------ MODULE ControllerRuns_proofs ------------------------
(***************************************************************************)
(* Theorems of ControllerRuns, for any number of runs, failures and        *)
(* restarts. ClaimHeld is not inductive: a deletion that nobody waits for  *)
(* could be that of an earlier life of the run. The invariant IInv adds    *)
(* that such a deletion is pending only while the row is still that life's *)
(* own, and what the entry of the memory says of the run it names.         *)
(***************************************************************************)
EXTENDS ControllerRuns, TLAPS

\* Before its child is launched, a run has no timer and no end.
Unlaunched == {"idle", "waiting", "continuing", "row", "judge", "insert", "registered"}

\* A run that has been admitted and not been given up.
Claims(r) ==
    /\ pc[r] \in {"registered", "running", "caught", "attempt"}
    /\ r \notin ended
    /\ timer[r] # "off"

RunInv(r) ==
    /\ pc[r] \in Unlaunched \cup {"attempt"} => timer[r] = "unset" /\ r \notin ended
    /\ At(r, "reported") => r \in ended
    /\ pc[r] \in {"idle", "continuing"} => row # r /\ r \notin clears
    /\ pc[r] \in {"waiting", "row", "judge", "insert"} /\ r \in clears => row = r
    /\ Claims(r) => row = r /\ r \notin clears

EntryInv ==
    activeRun # NoRun =>
        /\ pc[activeRun] \in {"registered", "running", "reported", "caught", "finalize"}
        /\ timer[activeRun] # "off"
        /\ newest = activeRun
        /\ activeRun \in tracked \cup settled \/ At(activeRun, "registered")

IInv ==
    /\ TypeOK
    /\ \A r \in Run : RunInv(r)
    /\ EntryInv
-----------------------------------------------------------------------------
\* Who may lose his entry.
GivenUp(r) ==
    \/ At(r, "finalize") \/ timer[r] = "finish" \/ r \in ended
    \/ At(r, "registered") \/ r \in settled

EntryStep ==
    \A r \in Run :
        activeRun = r /\ activeRun' # r /\ crashes' = crashes => GivenUp(r)

LEMMA FaultCounts == TypeOK /\ Fault => faults' \in 0..MaxFaults
  BY RunBoundsAreNat DEF TypeOK, Fault

\* An admission that takes the lock.
LEMMA StartKeeps ==
  ASSUME IInv, NEW r \in Run, Start(r)
  PROVE  IInv' /\ EntryStep
  <1>1. TypeOK'
    BY DEF IInv, TypeOK, Point, Run, NoRun, At, Start, New, CheckMemory,
       MemoryConflict, Stale, Goto, Database, Bounds, Refuse, Memory, Unlock
  <1>2. ASSUME NEW x \in Run PROVE RunInv(x)'
    BY DEF IInv, TypeOK, RunInv, Claims, Unlaunched, Run, NoRun, At, Start, New,
       CheckMemory, MemoryConflict, Stale, Goto, Database, Bounds, Refuse, Memory,
       Unlock
  <1>3. EntryInv'
    BY DEF IInv, TypeOK, RunInv, EntryInv, Claims, Unlaunched, Run, NoRun, At,
       Start, New, CheckMemory, MemoryConflict, Stale, Goto, Database, Bounds,
       Refuse, Memory, Unlock
  <1>4. EntryStep
    BY DEF IInv, TypeOK, RunInv, EntryInv, Claims, Unlaunched, EntryStep, GivenUp,
       Run, NoRun, At, Start, New, CheckMemory, MemoryConflict, Stale, Goto,
       Database, Bounds, Refuse, Memory, Unlock
  <1> QED BY <1>1, <1>2, <1>3, <1>4 DEF IInv

\* An admission that takes none.
LEMMA StartInsideKeeps ==
  ASSUME IInv, NEW r \in Run, StartInside(r)
  PROVE  IInv' /\ EntryStep
  <1>1. TypeOK'
    BY DEF IInv, TypeOK, Point, Run, NoRun, At, StartInside, CheckMemory,
       MemoryConflict, Stale, Goto, Database, Bounds, Refuse, Memory, Unlock
  <1>2. ASSUME NEW x \in Run PROVE RunInv(x)'
    BY DEF IInv, TypeOK, RunInv, Claims, Unlaunched, Run, NoRun, At, StartInside,
       CheckMemory, MemoryConflict, Stale, Goto, Database, Bounds, Refuse, Memory,
       Unlock
  <1>3. EntryInv'
    BY DEF IInv, TypeOK, RunInv, EntryInv, Claims, Unlaunched, Run, NoRun, At,
       StartInside, CheckMemory, MemoryConflict, Stale, Goto, Database, Bounds,
       Refuse, Memory, Unlock
  <1>4. EntryStep
    BY DEF IInv, TypeOK, RunInv, EntryInv, Claims, Unlaunched, EntryStep, GivenUp,
       Run, NoRun, At, StartInside, CheckMemory, MemoryConflict, Stale, Goto,
       Database, Bounds, Refuse, Memory, Unlock
  <1> QED BY <1>1, <1>2, <1>3, <1>4 DEF IInv

\* The row is read, and nothing else happens.
LEMMA ReadRowKeeps ==
  ASSUME IInv, NEW r \in Run, ReadRow(r)
  PROVE  IInv' /\ EntryStep
  <1>1. TypeOK'
    BY DEF IInv, TypeOK, Point, Run, NoRun, At, ReadRow, Goto, Memory, Database,
       Bounds
  <1>2. ASSUME NEW x \in Run PROVE RunInv(x)'
    BY DEF IInv, TypeOK, RunInv, Claims, Unlaunched, Run, NoRun, At, ReadRow, Goto,
       Memory, Database, Bounds
  <1>3. EntryInv'
    BY DEF IInv, TypeOK, RunInv, EntryInv, Claims, Unlaunched, Run, NoRun, At,
       ReadRow, Goto, Memory, Database, Bounds
  <1>4. EntryStep
    BY DEF EntryStep, ReadRow, Memory
  <1> QED BY <1>1, <1>2, <1>3, <1>4 DEF IInv

\* Only the row of a run that has ended is deleted.
LEMMA JudgeKeeps ==
  ASSUME IInv, NEW r \in Run, Judge(r)
  PROVE  IInv' /\ EntryStep
  <1>1. TypeOK'
    BY DEF IInv, TypeOK, Point, Run, NoRun, At, Judge, Forget, DeleteRow, Goto,
       Refuse, Memory, Bounds, Unlock
  <1>2. ASSUME NEW x \in Run PROVE RunInv(x)'
    <2>1. pc[r] = "judge" /\ UNCHANGED <<timer, ended, clears>>
      BY DEF Judge, At, Memory, Bounds
    <2>2. CASE seen[r] \in ended /\ DeleteRow(seen[r]) /\ Goto(r, "insert")
      <3>1. row' = row \/ (row \in ended /\ row' = NoRun)
        BY <2>2 DEF DeleteRow
      <3> QED
        BY <2>1, <2>2, <3>1 DEF IInv, TypeOK, Goto, RunInv, Claims, Unlaunched, Run, NoRun, At
    <2>3. CASE Refuse(r) /\ UNCHANGED row
      BY <2>1, <2>3 DEF IInv, TypeOK, Refuse, Goto, RunInv, Claims, Unlaunched, At
    <2> QED
      BY <2>2, <2>3 DEF Judge
  <1>3. EntryInv'
    BY DEF IInv, TypeOK, RunInv, EntryInv, Claims, Unlaunched, Run, NoRun, At,
       Judge, Forget, DeleteRow, Goto, Refuse, Memory, Bounds, Unlock
  <1>4. EntryStep
    BY DEF EntryStep, Judge, Refuse, Memory
  <1> QED BY <1>1, <1>2, <1>3, <1>4 DEF IInv

\* The row was free, so that no other run claims it, and no deletion of this
\* run's own is pending.
LEMMA RegisterKeeps ==
  ASSUME IInv, NEW r \in Run, Register(r)
  PROVE  IInv' /\ EntryStep
  <1>1. TypeOK'
    BY DEF IInv, TypeOK, Point, Run, NoRun, At, Register, Goto, Bounds
  <1>2. ASSUME NEW x \in Run PROVE RunInv(x)'
    BY DEF IInv, TypeOK, RunInv, Claims, Unlaunched, Run, NoRun, At, Register, Goto,
       Bounds
  <1>3. EntryInv'
    BY DEF IInv, TypeOK, RunInv, EntryInv, Claims, Unlaunched, Run, NoRun, At,
       Register, Goto, Bounds
  <1>4. EntryStep
    BY DEF IInv, TypeOK, RunInv, EntryInv, Claims, Unlaunched, EntryStep, GivenUp,
       Run, NoRun, At, Register, Goto, Bounds
  <1> QED BY <1>1, <1>2, <1>3, <1>4 DEF IInv

\* A refused insertion.
LEMMA RowConflictKeeps ==
  ASSUME IInv, NEW r \in Run, RowConflict(r)
  PROVE  IInv' /\ EntryStep
  <1>1. TypeOK'
    BY DEF IInv, TypeOK, Point, Run, NoRun, At, RowConflict, Refuse, Memory,
       Database, Bounds, Goto, Unlock
  <1>2. ASSUME NEW x \in Run PROVE RunInv(x)'
    BY DEF IInv, TypeOK, RunInv, Claims, Unlaunched, Run, NoRun, At, RowConflict,
       Refuse, Memory, Database, Bounds, Goto, Unlock
  <1>3. EntryInv'
    BY DEF IInv, TypeOK, RunInv, EntryInv, Claims, Unlaunched, Run, NoRun, At,
       RowConflict, Refuse, Memory, Database, Bounds, Goto, Unlock
  <1>4. EntryStep
    BY DEF EntryStep, RowConflict, Refuse, Memory
  <1> QED BY <1>1, <1>2, <1>3, <1>4 DEF IInv

\* A failed statement refuses the run, too.
LEMMA AdmissionFailsKeeps ==
  ASSUME IInv, NEW r \in Run, AdmissionFails(r)
  PROVE  IInv' /\ EntryStep
  <1>1. TypeOK'
    BY FaultCounts DEF IInv, TypeOK, Point, Run, NoRun, At, AdmissionFails,
       Refuse, Forget, Memory, Database, Goto, Unlock
  <1>2. ASSUME NEW x \in Run PROVE RunInv(x)'
    BY DEF IInv, TypeOK, RunInv, Claims, Unlaunched, Run, NoRun, At, AdmissionFails,
       Fault, Refuse, Forget, Memory, Database, Goto, Unlock
  <1>3. EntryInv'
    BY DEF IInv, TypeOK, RunInv, EntryInv, Claims, Unlaunched, Run, NoRun, At,
       AdmissionFails, Fault, Refuse, Forget, Memory, Database, Goto, Unlock
  <1>4. EntryStep
    BY DEF EntryStep, AdmissionFails, Refuse, Memory
  <1> QED BY <1>1, <1>2, <1>3, <1>4 DEF IInv

\* The child is launched and tracked.
LEMMA LaunchKeeps ==
  ASSUME IInv, NEW r \in Run, Launch(r)
  PROVE  IInv' /\ EntryStep
  <1>1. TypeOK'
    BY DEF IInv, TypeOK, Point, Run, NoRun, At, Launch, Goto, Unlock, Database,
       Bounds
  <1>2. ASSUME NEW x \in Run PROVE RunInv(x)'
    BY DEF IInv, TypeOK, RunInv, Claims, Unlaunched, Run, NoRun, At, Launch, Goto,
       Unlock, Database, Bounds
  <1>3. EntryInv'
    BY DEF IInv, TypeOK, RunInv, EntryInv, Claims, Unlaunched, Run, NoRun, At,
       Launch, Goto, Unlock, Database, Bounds
  <1>4. EntryStep
    BY DEF EntryStep, Launch
  <1> QED BY <1>1, <1>2, <1>3, <1>4 DEF IInv

\* A run that gets no surface leaves the deletion of its row behind.
LEMMA NoSurfaceKeeps ==
  ASSUME IInv, NEW r \in Run, NEW point \in {"waiting", "over"}, NoSurface(r, point)
  PROVE  IInv' /\ EntryStep
  <1>1. TypeOK'
    BY DEF IInv, TypeOK, Point, Run, NoRun, At, NoSurface, CleanUp, EndTracking,
       Goto, Unlock, Bounds
  <1>2. ASSUME NEW x \in Run PROVE RunInv(x)'
    BY DEF IInv, TypeOK, RunInv, Claims, Unlaunched, Run, NoRun, At, NoSurface,
       CleanUp, EndTracking, Goto, Unlock, Bounds
  <1>3. EntryInv'
    BY DEF IInv, TypeOK, RunInv, EntryInv, Claims, Unlaunched, Run, NoRun, At,
       NoSurface, CleanUp, EndTracking, Goto, Unlock, Bounds
  <1>4. EntryStep
    BY DEF IInv, TypeOK, RunInv, EntryInv, Claims, Unlaunched, EntryStep, GivenUp,
       Run, NoRun, At, NoSurface, CleanUp, EndTracking, Goto, Unlock, Bounds
  <1> QED BY <1>1, <1>2, <1>3, <1>4 DEF IInv

\* The end of a child is recorded.
LEMMA ChildEndsKeeps ==
  ASSUME IInv, NEW r \in Run, ChildEnds(r)
  PROVE  IInv' /\ EntryStep
  <1>1. TypeOK'
    BY DEF IInv, TypeOK, Point, Run, NoRun, At, ChildEnds, Goto, Memory, Bounds
  <1>2. ASSUME NEW x \in Run PROVE RunInv(x)'
    BY DEF IInv, TypeOK, RunInv, Claims, Unlaunched, Run, NoRun, At, ChildEnds,
       Goto, Memory, Bounds
  <1>3. EntryInv'
    BY DEF IInv, TypeOK, RunInv, EntryInv, Claims, Unlaunched, Run, NoRun, At,
       ChildEnds, Goto, Memory, Bounds
  <1>4. EntryStep
    BY DEF EntryStep, ChildEnds, Memory
  <1> QED BY <1>1, <1>2, <1>3, <1>4 DEF IInv

\* A run whose end is recorded is cleaned up, and may be continued.
LEMMA ReturnKeeps ==
  ASSUME IInv, NEW r \in Run, Return(r)
  PROVE  IInv' /\ EntryStep
  <1>1. TypeOK'
    BY DEF IInv, TypeOK, Point, Run, NoRun, At, Return, CleanUp, EndTracking, Goto,
       Continue, Bounds, New
  <1>2. ASSUME NEW x \in Run PROVE RunInv(x)'
    BY DEF IInv, TypeOK, RunInv, Claims, Unlaunched, Run, NoRun, At, Return,
       CleanUp, EndTracking, Goto, Continue, Bounds, New
  <1>3. EntryInv'
    <2>1. pc[r] = "reported" /\ newest' = newest
      BY DEF Return, At
    <2>2. \A x \in Run : pc[x] # "idle" /\ x # r => pc'[x] = pc[x]
      BY DEF IInv, TypeOK, Return, Goto, Continue, New, At
    <2>3. activeRun' # NoRun => activeRun' = activeRun /\ activeRun # r
      BY DEF Return, CleanUp
    <2> QED
      BY <2>1, <2>2, <2>3 DEF IInv, TypeOK, EntryInv, Return, CleanUp, EndTracking, Run, NoRun, At
  <1>4. EntryStep
    BY DEF IInv, TypeOK, RunInv, EntryInv, Claims, Unlaunched, EntryStep, GivenUp,
       Run, NoRun, At, Return, CleanUp, EndTracking, Goto, Continue, Bounds, New
  <1> QED BY <1>1, <1>2, <1>3, <1>4 DEF IInv

\* A run that throws keeps its claim until its end is recorded.
LEMMA ThrowKeeps ==
  ASSUME IInv, NEW r \in Run, Throw(r)
  PROVE  IInv' /\ EntryStep
  <1>1. TypeOK'
    BY DEF IInv, TypeOK, Point, Run, NoRun, At, Throw, Goto, Memory, Database,
       Bounds
  <1>2. ASSUME NEW x \in Run PROVE RunInv(x)'
    BY DEF IInv, TypeOK, RunInv, Claims, Unlaunched, Run, NoRun, At, Throw, Goto,
       Memory, Database, Bounds
  <1>3. EntryInv'
    BY DEF IInv, TypeOK, RunInv, EntryInv, Claims, Unlaunched, Run, NoRun, At,
       Throw, Goto, Memory, Database, Bounds
  <1>4. EntryStep
    BY DEF EntryStep, Throw, Memory
  <1> QED BY <1>1, <1>2, <1>3, <1>4 DEF IInv

\* A run that is not the newest has no entry any more.
LEMMA ThrowSupersededKeeps ==
  ASSUME IInv, NEW r \in Run, ThrowSuperseded(r)
  PROVE  IInv' /\ EntryStep
  <1>1. TypeOK'
    BY DEF IInv, TypeOK, Point, Run, NoRun, At, ThrowSuperseded, CleanUp,
       EndTracking, Goto, Bounds
  <1>2. ASSUME NEW x \in Run PROVE RunInv(x)'
    BY DEF IInv, TypeOK, RunInv, Claims, Unlaunched, Run, NoRun, At,
       ThrowSuperseded, CleanUp, EndTracking, Goto, Bounds
  <1>3. EntryInv'
    BY DEF IInv, TypeOK, RunInv, EntryInv, Claims, Unlaunched, Run, NoRun, At,
       ThrowSuperseded, CleanUp, EndTracking, Goto, Bounds
  <1>4. EntryStep
    BY DEF IInv, TypeOK, RunInv, EntryInv, Claims, Unlaunched, EntryStep, GivenUp,
       Run, NoRun, At, ThrowSuperseded, CleanUp, EndTracking, Goto, Bounds
  <1> QED BY <1>1, <1>2, <1>3, <1>4 DEF IInv

\* An end that could not be recorded is passed over.
LEMMA CaughtKeeps ==
  ASSUME IInv, NEW r \in Run, Caught(r)
  PROVE  IInv' /\ EntryStep
  <1>1. TypeOK'
    BY FaultCounts DEF IInv, TypeOK, Point, Run, NoRun, At, Caught, Record, Goto,
       Memory
  <1>2. ASSUME NEW x \in Run PROVE RunInv(x)'
    BY DEF IInv, TypeOK, RunInv, Claims, Unlaunched, Run, NoRun, At, Caught, Record,
       Goto, Memory, Fault
  <1>3. EntryInv'
    BY DEF IInv, TypeOK, RunInv, EntryInv, Claims, Unlaunched, Run, NoRun, At,
       Caught, Record, Goto, Memory, Fault
  <1>4. EntryStep
    BY DEF EntryStep, Caught, Memory
  <1> QED BY <1>1, <1>2, <1>3, <1>4 DEF IInv

\* The cleanup of a run that threw.
LEMMA FinalizeKeeps ==
  ASSUME IInv, NEW r \in Run, Finalize(r)
  PROVE  IInv' /\ EntryStep
  <1>1. TypeOK'
    BY DEF IInv, TypeOK, Point, Run, NoRun, At, Finalize, CleanUp, EndTracking,
       Goto, Bounds
  <1>2. ASSUME NEW x \in Run PROVE RunInv(x)'
    BY DEF IInv, TypeOK, RunInv, Claims, Unlaunched, Run, NoRun, At, Finalize,
       CleanUp, EndTracking, Goto, Bounds
  <1>3. EntryInv'
    BY DEF IInv, TypeOK, RunInv, EntryInv, Claims, Unlaunched, Run, NoRun, At,
       Finalize, CleanUp, EndTracking, Goto, Bounds
  <1>4. EntryStep
    BY DEF IInv, TypeOK, RunInv, EntryInv, Claims, Unlaunched, EntryStep, GivenUp,
       Run, NoRun, At, Finalize, CleanUp, EndTracking, Goto, Bounds
  <1> QED BY <1>1, <1>2, <1>3, <1>4 DEF IInv

\* A timer fires.
LEMMA FireKeeps ==
  ASSUME IInv, NEW r \in Run, Fire(r)
  PROVE  IInv' /\ EntryStep
  <1>1. TypeOK'
    BY DEF IInv, TypeOK, Point, Run, NoRun, At, Fire, Database, Bounds
  <1>2. ASSUME NEW x \in Run PROVE RunInv(x)'
    BY DEF IInv, TypeOK, RunInv, Claims, Unlaunched, Run, NoRun, At, Fire, Database,
       Bounds
  <1>3. EntryInv'
    BY DEF IInv, TypeOK, RunInv, EntryInv, Claims, Unlaunched, Run, NoRun, At, Fire,
       Database, Bounds
  <1>4. EntryStep
    BY DEF EntryStep, Fire
  <1> QED BY <1>1, <1>2, <1>3, <1>4 DEF IInv

\* The watchdog records the end.
LEMMA TimerRecordKeeps ==
  ASSUME IInv, NEW r \in Run, TimerRecord(r)
  PROVE  IInv' /\ EntryStep
  <1>1. TypeOK'
    BY FaultCounts DEF IInv, TypeOK, Point, Run, NoRun, At, TimerRecord, Record,
       Fault
  <1>2. ASSUME NEW x \in Run PROVE RunInv(x)'
    BY DEF IInv, TypeOK, RunInv, Claims, Unlaunched, Run, NoRun, At, TimerRecord,
       Record, Fault
  <1>3. EntryInv'
    BY DEF IInv, TypeOK, RunInv, EntryInv, Claims, Unlaunched, Run, NoRun, At,
       TimerRecord, Record, Fault
  <1>4. EntryStep
    BY DEF EntryStep, TimerRecord
  <1> QED BY <1>1, <1>2, <1>3, <1>4 DEF IInv

\* The watchdog gives the run up.
LEMMA TimerFinishKeeps ==
  ASSUME IInv, NEW r \in Run, TimerFinish(r)
  PROVE  IInv' /\ EntryStep
  <1>1. TypeOK'
    BY DEF IInv, TypeOK, Point, Run, NoRun, At, TimerFinish, CleanUp, EndTracking,
       Bounds
  <1>2. ASSUME NEW x \in Run PROVE RunInv(x)'
    BY DEF IInv, TypeOK, RunInv, Claims, Unlaunched, Run, NoRun, At, TimerFinish,
       CleanUp, EndTracking, Bounds
  <1>3. EntryInv'
    BY DEF IInv, TypeOK, RunInv, EntryInv, Claims, Unlaunched, Run, NoRun, At,
       TimerFinish, CleanUp, EndTracking, Bounds
  <1>4. EntryStep
    BY DEF IInv, TypeOK, RunInv, EntryInv, Claims, Unlaunched, EntryStep, GivenUp,
       Run, NoRun, At, TimerFinish, CleanUp, EndTracking, Bounds
  <1> QED BY <1>1, <1>2, <1>3, <1>4 DEF IInv

\* The scheduler's attempt takes the row only when it is free.
LEMMA ReserveKeeps ==
  ASSUME IInv, NEW r \in Run, Reserve(r)
  PROVE  IInv' /\ EntryStep
  <1>1. TypeOK'
    BY FaultCounts DEF IInv, TypeOK, Point, Run, NoRun, At, Reserve, New, Goto,
       Fault
  <1>2. ASSUME NEW x \in Run PROVE RunInv(x)'
    <2>1. pc[r] = "idle" /\ UNCHANGED <<timer, ended, clears>>
      BY DEF Reserve, New, At
    <2>2. CASE row = NoRun /\ row' = r /\ Goto(r, "attempt")
      BY <2>1, <2>2 DEF IInv, TypeOK, Goto, RunInv, Claims, Unlaunched, Run, NoRun, At
    <2>3. CASE row' = row /\ Goto(r, "over")
      BY <2>1, <2>3 DEF IInv, TypeOK, Goto, RunInv, Claims, Unlaunched, At
    <2> QED
      BY <2>2, <2>3 DEF Reserve
  <1>3. EntryInv'
    BY DEF IInv, TypeOK, RunInv, EntryInv, Claims, Unlaunched, Run, NoRun, At,
       Reserve, New, Goto, Fault
  <1>4. EntryStep
    BY DEF EntryStep, Reserve
  <1> QED BY <1>1, <1>2, <1>3, <1>4 DEF IInv

\* An attempt ends.
LEMMA AttemptEndsKeeps ==
  ASSUME IInv, NEW r \in Run, AttemptEnds(r)
  PROVE  IInv' /\ EntryStep
  <1>1. TypeOK'
    BY DEF IInv, TypeOK, Point, Run, NoRun, At, AttemptEnds, Goto, Memory, Bounds
  <1>2. ASSUME NEW x \in Run PROVE RunInv(x)'
    BY DEF IInv, TypeOK, RunInv, Claims, Unlaunched, Run, NoRun, At, AttemptEnds,
       Goto, Memory, Bounds
  <1>3. EntryInv'
    BY DEF IInv, TypeOK, RunInv, EntryInv, Claims, Unlaunched, Run, NoRun, At,
       AttemptEnds, Goto, Memory, Bounds
  <1>4. EntryStep
    BY DEF EntryStep, AttemptEnds, Memory
  <1> QED BY <1>1, <1>2, <1>3, <1>4 DEF IInv

\* An attempt gives its row back.
LEMMA AttemptReleasesKeeps ==
  ASSUME IInv, NEW r \in Run, AttemptReleases(r)
  PROVE  IInv' /\ EntryStep
  <1>1. TypeOK'
    BY FaultCounts DEF IInv, TypeOK, Point, Run, NoRun, At, AttemptReleases,
       DeleteRow, Goto, Memory
  <1>2. ASSUME NEW x \in Run PROVE RunInv(x)'
    BY DEF IInv, TypeOK, RunInv, Claims, Unlaunched, Run, NoRun, At,
       AttemptReleases, DeleteRow, Fault, Goto, Memory
  <1>3. EntryInv'
    BY DEF IInv, TypeOK, RunInv, EntryInv, Claims, Unlaunched, Run, NoRun, At,
       AttemptReleases, DeleteRow, Fault, Goto, Memory
  <1>4. EntryStep
    BY DEF EntryStep, AttemptReleases, Memory
  <1> QED BY <1>1, <1>2, <1>3, <1>4 DEF IInv

\* A late deletion meets the row of a run that is over, has been given up or
\* has not registered again.
LEMMA ClearKeeps ==
  ASSUME IInv, NEW r \in Run, Clear(r)
  PROVE  IInv' /\ EntryStep
  <1>1. TypeOK'
    BY FaultCounts DEF IInv, TypeOK, Point, Run, NoRun, At, Clear, DeleteRow,
       Memory
  <1>2. ASSUME NEW x \in Run PROVE RunInv(x)'
    BY DEF IInv, TypeOK, RunInv, Claims, Unlaunched, Run, NoRun, At, Clear,
       DeleteRow, Fault, Memory
  <1>3. EntryInv'
    BY DEF IInv, TypeOK, RunInv, EntryInv, Claims, Unlaunched, Run, NoRun, At,
       Clear, DeleteRow, Fault, Memory
  <1>4. EntryStep
    BY DEF EntryStep, Clear, Memory
  <1> QED BY <1>1, <1>2, <1>3, <1>4 DEF IInv

\* After a restart no run claims the row, and the one deletion that is pending is
\* that of the row itself.
LEMMA RestartKeeps ==
  ASSUME IInv, Restart
  PROVE  IInv' /\ EntryStep
  <1>1. TypeOK'
    <2>1. pc' \in [Run -> Point] /\ \A r \in Run : pc'[r] # "running"
      BY DEF IInv, TypeOK, Restart, Point, At
    <2>2. crashes' \in 0..MaxCrashes
      BY RunBoundsAreNat DEF IInv, TypeOK, Restart
    <2> QED
      BY <2>1, <2>2 DEF IInv, TypeOK, Restart, NoRun, At
  <1>2. ASSUME NEW x \in Run PROVE RunInv(x)'
    BY DEF IInv, TypeOK, Restart, RunInv, Claims, Unlaunched, Run, NoRun, At
  <1>3. EntryInv'
    BY DEF EntryInv, Restart
  <1>4. EntryStep
    BY DEF IInv, TypeOK, EntryStep, Restart
  <1> QED BY <1>1, <1>2, <1>3, <1>4 DEF IInv

LEMMA InitIInv == Init => IInv
  <1> SUFFICES ASSUME Init PROVE IInv
    OBVIOUS
  <1>1. TypeOK
    <2>1. pc \in [Run -> Point] /\ \A r \in Run : ~At(r, "running")
      BY DEF Init, Point, At
    <2>2. faults \in 0..MaxFaults /\ crashes \in 0..MaxCrashes
      BY RunBoundsAreNat DEF Init
    <2> QED
      BY <2>1, <2>2 DEF Init, TypeOK
  <1>2. ASSUME NEW r \in Run PROVE RunInv(r)
    BY DEF Init, RunInv, Claims, Run, NoRun, At
  <1>3. EntryInv
    BY DEF Init, EntryInv
  <1> QED BY <1>1, <1>2, <1>3 DEF IInv

LEMMA NextKeeps == IInv /\ [Next]_vars => IInv' /\ EntryStep
  <1> SUFFICES ASSUME IInv, [Next]_vars PROVE IInv' /\ EntryStep
    OBVIOUS
  <1>1. CASE UNCHANGED vars
    BY <1>1 DEF vars, IInv, TypeOK, RunInv, EntryInv, Claims, EntryStep, At
  <1>2. ASSUME NEW r \in Run, Start(r) \/ StartInside(r) PROVE IInv' /\ EntryStep
    BY <1>2, StartKeeps, StartInsideKeeps
  <1>3. ASSUME NEW r \in Run, Admission(r) \/ AdmissionFails(r) PROVE IInv' /\ EntryStep
    BY <1>3, StartInsideKeeps, ReadRowKeeps, JudgeKeeps, RegisterKeeps, RowConflictKeeps,
       LaunchKeeps, NoSurfaceKeeps, AdmissionFailsKeeps DEF Admission
  <1>4. ASSUME NEW r \in Run, Child(r) \/ Ending(r) PROVE IInv' /\ EntryStep
    BY <1>4, ChildEndsKeeps, ReturnKeeps, ThrowKeeps, ThrowSupersededKeeps, CaughtKeeps,
       FinalizeKeeps DEF Child, Ending
  <1>5. ASSUME NEW r \in Run, Watchdog(r) \/ Clear(r) PROVE IInv' /\ EntryStep
    BY <1>5, FireKeeps, TimerRecordKeeps, TimerFinishKeeps, ClearKeeps DEF Watchdog
  <1>6. ASSUME NEW r \in Run, Reserve(r) \/ AttemptEnds(r) \/ AttemptReleases(r)
        PROVE  IInv' /\ EntryStep
    BY <1>6, ReserveKeeps, AttemptEndsKeeps, AttemptReleasesKeeps
  <1> QED BY <1>1, <1>2, <1>3, <1>4, <1>5, <1>6, RestartKeeps DEF Next

LEMMA Invariant == Spec => []IInv
  BY InitIInv, NextKeeps, PTL DEF Spec
-----------------------------------------------------------------------------
\* Every reachable state is well typed, and the lifecycle lock is never held by a
\* run that is past its admission.
THEOREM RunTypeCorrect == Spec => []TypeOK
  <1>1. IInv => TypeOK
    BY DEF IInv
  <1> QED BY <1>1, Invariant, PTL

\* A run that has been admitted and not given up owns the row, whatever late
\* deletions, judgements, abandoned children and restarts interleave.
THEOREM ClaimsAreHeld == Spec => []ClaimHeld
  <1>1. IInv => ClaimHeld
    BY DEF IInv, RunInv, Claims, ClaimHeld
  <1> QED BY <1>1, Invariant, PTL

\* There is one row, and so at most one such run, children that have thrown and
\* are not yet cleaned up included.
THEOREM OneRunClaims == Spec => [](\A r, s \in Run : Claims(r) /\ Claims(s) => r = s)
  <1>1. IInv => \A r, s \in Run : Claims(r) /\ Claims(s) => r = s
    BY DEF IInv, RunInv
  <1> QED BY <1>1, Invariant, PTL

\* The memory gives a live run up only in the two gaps.
THEOREM EntriesAreKept == Spec => EntryTakenOnlyInAGap
  <1>1. IInv /\ [Next]_vars => EntryStep
    BY NextKeeps
  <1>2. EntryStep =>
          [\A r \in Run :
              activeRun = r /\ activeRun' # r /\ crashes' = crashes
              => \/ At(r, "finalize") \/ timer[r] = "finish" \/ r \in ended
                 \/ At(r, "registered") \/ r \in settled]_vars
    BY DEF EntryStep, GivenUp
  <1> QED BY <1>1, <1>2, Invariant, PTL DEF Spec, EntryTakenOnlyInAGap
=============================================================================
