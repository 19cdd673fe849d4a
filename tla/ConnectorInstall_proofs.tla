----------------------- MODULE ConnectorInstall_proofs -----------------------
(***************************************************************************)
(* Theorems of ConnectorInstall, for any number of versions, failures and  *)
(* crashes. The invariant IInv says of each point of an install, an        *)
(* uninstall and a recovery what is on the disk and in the rows there, and *)
(* what the lock keeps from changing meanwhile.                            *)
(***************************************************************************)
EXTENDS ConnectorInstall, TLAPS

\* Who is where, and who has the lock; a server that is not up does nothing.
LockInv ==
    /\ boot # "up" => op = Idle /\ lock = "free" /\ entry = "none"
    /\ op.at \notin {"idle", "wait"} <=> lock = "op"
    /\ path = None \/ run = None
    /\ entry = "none" <=> path = None /\ run = None
    /\ entry = "locked" /\ path # None <=> lock = "run"
    /\ op.kind = "none" <=> op.at = "idle"
    /\ op.kind = "install" => op.at \in InstallPoint /\ op.digest # None
    /\ op.kind = "reuse" => op.at \in {"activate", "register", "clear", "compensate"} /\ op.digest # None
    /\ op.kind = "uninstall" => op.at \in UninstallPoint \cup {"wait"} /\ op.prior # None

\* What is in use is installed, and a locked admission keeps what it has seen.
UseInv ==
    /\ InUseIsInstalled
    /\ entry = "locked" => active # None
    /\ lock = "run" => Verified(path)

\* A tree that is moved away is one that uninstall, or a start, is moving.
AsideInv ==
    /\ AsideIsJournaled
    /\ \A t \in aside : disk[t] # "none"
    /\ boot = "up" /\ aside # {} => op.at \in {"move", "forget", "undo", "purge"}

\* An install with the lock leaves what could run until another can.
InstallInv ==
    op.kind \in {"install", "reuse"} /\ lock = "op" =>
        /\ ~gone
        /\ LockedRun => op.prior # None
        /\ op.sound => active # None /\ Verified(active)
        /\ op.sound /\ op.at \notin {"clear", "clean"} => op.prior # None /\ Verified(op.prior)
        /\ op.at \in {"core", "publish", "activate", "discard"} => active = op.prior
        /\ op.at \in {"register", "clear"} => active = op.digest
        /\ op.at \in {"activate", "register", "clear", "compensate"} => Verified(op.digest)
        /\ op.kind = "install" /\ op.at \in {"publish", "activate", "register", "compensate", "discard"} =>
               /\ LockedRun => run # op.digest
               /\ op.sound => op.prior # op.digest

\* An uninstall with the lock is alone, and journals all there is.
UninstallInv ==
    op.kind = "uninstall" =>
        /\ ~gone
        /\ op.at \in {"wait", "runs", "connections", "journal", "mark", "move", "close"} => active = op.prior
        /\ op.at \in {"forget", "purge"} => active = None /\ InPlace = {}
        /\ op.at = "undo" => active \in {None, op.prior}
        /\ op.at \notin {"wait", "runs"} => ~LockedRun
        /\ op.at \notin {"wait", "runs", "connections"} => ~connection
        /\ op.at \in {"mark", "move", "forget", "undo", "purge"} => journal # None
        /\ op.at \in {"mark", "move"} => journal.trees = {t \in Tree : disk[t] # "none"}
        /\ op.at \in {"move", "forget", "purge"} => marker

\* A start that recovers has a journal, and has decided by the active row.
BootInv ==
    /\ boot \in {"replace", "restore", "close", "purge"} => journal # None
    /\ boot = "replace" => active # None
    /\ boot \in {"restore", "close"} => active = journal.prior
    /\ boot = "close" => ~marker /\ aside = {}
    /\ boot = "purge" => active = None

GoneInv ==
    /\ GoneStaysGone
    /\ gone => boot \in {"down", "up"} /\ op.kind \in {"none", "install"} /\ op.at \in {"idle", "wait"}

\* The registry follows the active row, or returns to it by a compensation.
RegistryInv ==
    /\ active # None => registry = active \/ drift \/ op.at \in {"register", "compensate"}
    /\ op.at \in {"register", "compensate"} \/ op.kind = "uninstall" =>
           op.prior = None \/ registry = op.prior \/ drift

Consistent ==
    /\ LockInv /\ UseInv /\ AsideInv /\ InstallInv /\ UninstallInv
    /\ BootInv /\ GoneInv /\ RegistryInv

IInv == TypeOK /\ Consistent
-----------------------------------------------------------------------------
Point == InstallPoint \cup UninstallPoint \cup {"idle"}

LEMMA IdleIsTyped == Idle \in Operation
  BY DEF Operation, Idle, Version

LEMMA JournalIsTyped ==
  ASSUME NEW d \in Digest, NEW S \in SUBSET Tree
  PROVE  [prior |-> d, trees |-> S] \in Journal
  BY DEF Journal

-----------------------------------------------------------------------------
\* Every step leaves a typed operation, or none.
LEMMA OperationKeeps ==
  ASSUME TypeOK, Next
  PROVE  op' \in Operation
  <1>1. ASSUME NEW d \in Digest, RequestInstall(d) PROVE op' \in Operation
    BY <1>1, IdleIsTyped DEF RequestInstall, Operation, InstallPoint, Version
  <1>2. CASE Deadline
    <2>1. CASE op.at = "wait"
      BY <1>2, <2>1, IdleIsTyped DEF Deadline
    <2>2. CASE ~(op.at = "wait")
      BY <1>2, <2>2 DEF Deadline, TypeOK, Operation
    <2> QED BY <2>1, <2>2
  <1>3. CASE EnterInstall
    <2> DEFINE sound == active # None /\ Verified(active)
               litter == Staging \in InPlace
    <2>1. sound \in BOOLEAN /\ litter \in BOOLEAN
      OBVIOUS
    <2>2. op' = [op EXCEPT !.at = "core", !.prior = active, !.sound = sound, !.litter = litter]
      BY <1>3 DEF EnterInstall
    <2> HIDE DEF sound, litter
    <2> QED BY <2>1, <2>2 DEF TypeOK, Operation, InstallPoint
  <1>4. CASE Refuse
    BY <1>4, IdleIsTyped DEF Refuse, End
  <1>5. CASE Reuse
    BY <1>5 DEF TypeOK, Reuse, Operation, InstallPoint
  <1>6. CASE Stage
    BY <1>6 DEF TypeOK, Stage, Goto, Operation, InstallPoint
  <1>7. CASE Publish
    BY <1>7 DEF TypeOK, Publish, Goto, Operation, InstallPoint
  <1>8. CASE StageFails
    BY <1>8 DEF TypeOK, StageFails, Goto, Operation, InstallPoint
  <1>9. CASE Activate
    BY <1>9 DEF TypeOK, Activate, Goto, Operation, InstallPoint
  <1>10. CASE ActivateFails
    <2>1. CASE op.kind = "reuse"
      BY <1>10, <2>1, IdleIsTyped DEF ActivateFails, End
    <2>2. CASE ~(op.kind = "reuse")
      BY <1>10, <2>2 DEF ActivateFails, End, Goto, TypeOK, Operation, InstallPoint
    <2> QED BY <2>1, <2>2
  <1>11. CASE Register
    BY <1>11 DEF TypeOK, Register, Goto, Operation, InstallPoint
  <1>12. CASE RegisterFails
    BY <1>12 DEF TypeOK, RegisterFails, Goto, Operation, InstallPoint
  <1>13. CASE Compensate
    <2>1. CASE op.kind = "reuse"
      BY <1>13, <2>1, IdleIsTyped DEF Compensate, End
    <2>2. CASE ~(op.kind = "reuse")
      BY <1>13, <2>2 DEF Compensate, End, Goto, TypeOK, Operation, InstallPoint
    <2> QED BY <2>1, <2>2
  <1>14. CASE CompensateFails
    <2>1. CASE op.kind = "reuse"
      BY <1>14, <2>1, IdleIsTyped DEF CompensateFails, End
    <2>2. CASE ~(op.kind = "reuse")
      BY <1>14, <2>2 DEF CompensateFails, End, Goto, TypeOK, Operation, InstallPoint
    <2> QED BY <2>1, <2>2
  <1>15. CASE Discard
    BY <1>15 DEF TypeOK, Discard, Goto, Operation, InstallPoint
  <1>16. CASE Clean
    BY <1>16, IdleIsTyped DEF Clean, End
  <1>17. CASE Clear
    <2>1. CASE Unstaged # disk
      BY <1>17, <2>1 DEF Clear, End, Goto, TypeOK, Operation, InstallPoint
    <2>2. CASE ~(Unstaged # disk)
      BY <1>17, <2>2, IdleIsTyped DEF Clear, End
    <2> QED BY <2>1, <2>2
  <1>18. CASE RequestUninstall
    BY <1>18, IdleIsTyped DEF RequestUninstall, TypeOK, Operation, InstallPoint
  <1>19. CASE EnterUninstall
    BY <1>19 DEF TypeOK, EnterUninstall, Operation, UninstallPoint
  <1>20. CASE AssertNoRun \/ AssertNoConnection
    <2>1. CASE op' = Idle
      BY <2>1, IdleIsTyped
    <2>2. CASE op' # Idle
      BY <1>20, <2>2 DEF AssertNoRun, AssertNoConnection, End, Goto, TypeOK, Operation,
         UninstallPoint
    <2> QED BY <2>1, <2>2
  <1>21. CASE WriteJournal
    BY <1>21 DEF TypeOK, WriteJournal, Goto, Operation, UninstallPoint
  <1>22. CASE Mark
    <2>1. CASE marker
      BY <1>22, <2>1, IdleIsTyped DEF Mark, End
    <2>2. CASE ~(marker)
      BY <1>22, <2>2 DEF Mark, End, Goto, TypeOK, Operation, UninstallPoint
    <2> QED BY <2>1, <2>2
  <1>23. ASSUME NEW t \in Tree, MoveRoot(t) PROVE op' \in Operation
    BY <1>23 DEF TypeOK, MoveRoot, Goto, Operation, UninstallPoint
  <1>24. CASE Deactivate
    BY <1>24 DEF TypeOK, Deactivate, Goto, Operation, UninstallPoint
  <1>25. CASE RemoveActivation
    BY <1>25 DEF TypeOK, RemoveActivation, Goto, Operation, UninstallPoint
  <1>26. CASE UninstallFails
    BY <1>26 DEF TypeOK, UninstallFails, Goto, Operation, UninstallPoint
  <1>27. ASSUME NEW t \in Tree, UndoMove(t) PROVE op' \in Operation
    BY <1>27 DEF TypeOK, UndoMove, Goto, Operation, UninstallPoint
  <1>28. CASE Reactivate
    BY <1>28 DEF TypeOK, Reactivate, Goto, Operation, UninstallPoint
  <1>29. CASE ReactivateFails
    BY <1>29, IdleIsTyped DEF ReactivateFails, End
  <1>30. CASE Unmark
    BY <1>30 DEF TypeOK, Unmark, Goto, Operation, UninstallPoint
  <1>31. CASE CloseUndone
    BY <1>31, IdleIsTyped DEF CloseUndone, End
  <1>32. ASSUME NEW t \in Tree, PurgeRoot(t) PROVE op' \in Operation
    BY <1>32 DEF TypeOK, PurgeRoot, Goto, Operation, UninstallPoint
  <1>33. CASE Uninstalled
    BY <1>33, IdleIsTyped DEF Uninstalled, End
  <1>34. CASE Crash
    BY <1>34, IdleIsTyped DEF Crash
  <1> QED BY <1>1, <1>2, <1>3, <1>4, <1>5, <1>6, <1>7, <1>8, <1>9, <1>10, <1>11,
     <1>12, <1>13, <1>14, <1>15, <1>16, <1>17, <1>18, <1>19, <1>20, <1>21, <1>22,
     <1>23, <1>24, <1>25, <1>26, <1>27, <1>28, <1>29, <1>30, <1>31, <1>32, <1>33,
     <1>34 DEF Next, InstallStep, UninstallStep, Recover, TypeOK, Booted, LoseFile,
     Admit, AdmitInside, Launch, RunEnds, Connect, Disconnect, ListInstalls, ReconcileManifest,
     ReadJournal, ReplaceActive, RestoreRoot, ClearMarker, CloseRestored,
     RemoveRoot, CloseCleaned

\* An install or update, from the lock to its end.
LEMMA InstallStepKeeps ==
  ASSUME IInv, InstallStep
  PROVE  IInv'
  <1>0. op' \in Operation
    BY OperationKeeps DEF IInv, Next, InstallStep
  <1> USE DEF IInv, Consistent, TypeOK, LockInv, UseInv, InUseIsInstalled,
     AsideInv, AsideIsJournaled, InstallInv, UninstallInv, BootInv, GoneInv,
     GoneStaysGone, RegistryInv, InPlace, Verified, At, rows, trees, notes,
     others, uses, ghosts, NoFault, LockedRun, Readable
  <1>1. CASE EnterInstall
    <2>1. TypeOK'
      BY <1>1, <1>0 DEF EnterInstall
    <2>2. Consistent'
      BY <1>1, <1>0 DEF EnterInstall, InstallPoint
    <2> QED BY <2>1, <2>2
  <1>2. CASE Refuse
    BY <1>2, <1>0 DEF Refuse, End, Idle
  <1>3. CASE Reuse
    BY <1>3, <1>0 DEF Reuse, Operation, UninstallPoint
  <1>4. CASE Stage
    BY <1>4, <1>0, NamesDiffer DEF Stage, Goto, Tree, Version, Operation,
       UninstallPoint
  <1>5. CASE Publish
    BY <1>5, <1>0 DEF Publish, Goto, Tree, Version, Operation, UninstallPoint
  <1>6. CASE StageFails
    BY <1>6, <1>0, BoundsAreNaturals DEF StageFails, Fault, Goto, Operation,
       UninstallPoint
  <1>7. CASE Activate
    BY <1>7, <1>0 DEF Activate, Goto, Operation, UninstallPoint
  <1>8. CASE ActivateFails
    BY <1>8, <1>0, BoundsAreNaturals DEF ActivateFails, Fault, End, Goto, Operation,
       UninstallPoint, Idle
  <1>9. CASE Register
    <2>1. op.digest \in Version
      BY DEF Operation
    <2>2. TypeOK'
      BY <1>9, <2>1, <1>0 DEF Register, Goto
    <2>3. Consistent'
      BY <1>9, <1>0 DEF Register, Goto, Operation, UninstallPoint
    <2> QED BY <2>2, <2>3
  <1>10. CASE RegisterFails
    BY <1>10, <1>0, BoundsAreNaturals DEF RegisterFails, Fault, Goto, Operation,
       UninstallPoint
  <1>11. CASE Compensate
    BY <1>11, <1>0 DEF Compensate, End, Goto, Operation, UninstallPoint, Idle
  <1>12. CASE CompensateFails
    BY <1>12, <1>0, BoundsAreNaturals DEF CompensateFails, Fault, End, Goto,
       Operation, UninstallPoint, Idle
  <1>13. CASE Discard
    BY <1>13, <1>0 DEF Discard, Goto, Operation, UninstallPoint
  <1>14. CASE Clean
    BY <1>14, <1>0, NamesDiffer DEF Clean, Unstaged, End, Tree, Version, Idle
  <1>15. CASE Clear
    <2>1. CASE Unstaged # disk
      <3>1. /\ op' = op /\ lock' = lock /\ marker' = marker
            /\ disk' = [disk EXCEPT ![Staging] = "none"]
        BY <1>15, <2>1 DEF Clear, Goto, Unstaged, Operation
      <3>2. \A d \in Digest : Verified(d) <=> Verified(d)'
        BY <1>15, <3>1, NamesDiffer DEF Clear
      <3> QED
        BY <1>15, <3>1, <3>2 DEF Clear, Tree, Version
    <2>2. CASE Unstaged = disk
      <3>1. /\ op' = Idle /\ lock' = "free" /\ ~marker' /\ disk' = disk
            /\ marker' \in BOOLEAN
        BY <1>15, <2>2 DEF Clear, End
      <3>2. TypeOK'
        BY <1>15, <1>0, <3>1 DEF Clear
      <3>3. Consistent'
        BY <1>15, <3>1 DEF Clear, Idle
      <3> QED BY <3>2, <3>3
    <2> QED BY <2>1, <2>2
  <1> QED BY <1>1, <1>2, <1>3, <1>4, <1>5, <1>6, <1>7, <1>8, <1>9, <1>10, <1>11,
     <1>12, <1>13, <1>14, <1>15 DEF InstallStep

\* An uninstall with the lock.
LEMMA UninstallStepKeeps ==
  ASSUME IInv, UninstallStep
  PROVE  IInv'
  <1>0. op' \in Operation
    BY OperationKeeps DEF IInv, Next, UninstallStep
  <1> USE DEF IInv, Consistent, TypeOK, LockInv, UseInv, InUseIsInstalled,
     AsideInv, AsideIsJournaled, InstallInv, UninstallInv, BootInv, GoneInv,
     GoneStaysGone, RegistryInv, InPlace, Verified, At, rows, trees, notes,
     others, uses, ghosts, NoFault, LockedRun, Readable
  <1>1. CASE AssertNoRun \/ AssertNoConnection
    BY <1>1, <1>0 DEF AssertNoRun, AssertNoConnection, Goto, End, Operation, InstallPoint,
       Idle
  <1>2. CASE WriteJournal
    <2>1. aside = {} /\ op.kind = "uninstall"
      BY <1>2 DEF WriteJournal, Operation, InstallPoint
    <2>2. InPlace \cup aside = {t \in Tree : disk[t] # "none"}
      BY <2>1
    <2>3. op.prior \in Digest
      BY <2>1 DEF Operation, Version
    <2>4. /\ journal' \in Journal /\ journal' # None
          /\ journal'.trees = {t \in Tree : disk[t] # "none"}
      <3> DEFINE present == {t \in Tree : disk[t] # "none"}
      <3>1. journal' = [prior |-> op.prior, trees |-> present]
        BY <1>2, <2>2 DEF WriteJournal
      <3>2. present \in SUBSET Tree
        OBVIOUS
      <3> HIDE DEF present, IInv
      <3>3. [prior |-> op.prior, trees |-> present] \in Journal
        BY <2>3, <3>2, JournalIsTyped
      <3> QED BY <3>1, <3>3, NoneIsNoJournal DEF present
    <2>5. /\ At("journal") /\ Goto("mark")
          /\ UNCHANGED <<rows, trees, marker, others, boot, ghosts, faults, crashes>>
      BY <1>2 DEF WriteJournal
    <2>6. TypeOK'
      BY <1>0, <2>4, <2>5 DEF Goto
    <2>7. Consistent'
      <3>1. UninstallInv'
        BY <2>1, <2>4, <2>5 DEF Goto
      <3>2. /\ LockInv' /\ UseInv' /\ AsideInv' /\ InstallInv'
            /\ BootInv' /\ GoneInv' /\ RegistryInv'
        BY <2>1, <2>4, <2>5 DEF Goto, UninstallPoint
      <3> QED BY <3>1, <3>2
    <2> QED BY <2>6, <2>7
  <1>3. CASE Mark
    BY <1>3, <1>0 DEF Mark, End, Goto, Operation, InstallPoint, Idle
  <1>4. ASSUME NEW t \in Tree, MoveRoot(t) PROVE IInv'
    BY <1>4, <1>0 DEF MoveRoot, Goto, Operation, InstallPoint
  <1>5. CASE Deactivate
    BY <1>5, <1>0 DEF Deactivate, Goto, Operation, InstallPoint
  <1>6. CASE RemoveActivation
    BY <1>6, <1>0 DEF RemoveActivation, Goto, Operation, InstallPoint
  <1>7. CASE UninstallFails
    BY <1>7, <1>0, BoundsAreNaturals DEF UninstallFails, Fault, Goto, Operation,
       InstallPoint
  <1>8. ASSUME NEW t \in Tree, UndoMove(t) PROVE IInv'
    BY <1>8, <1>0 DEF UndoMove, Goto
  <1>9. CASE Reactivate
    BY <1>9, <1>0 DEF Reactivate, Goto, Operation, InstallPoint
  <1>10. CASE ReactivateFails
    BY <1>10, <1>0, BoundsAreNaturals DEF ReactivateFails, Fault, End, Idle
  <1>11. CASE Unmark
    BY <1>11, <1>0 DEF Unmark, Goto, Operation, InstallPoint
  <1>12. CASE CloseUndone
    BY <1>12, <1>0 DEF CloseUndone, End, Idle
  <1>13. ASSUME NEW t \in Tree, PurgeRoot(t) PROVE IInv'
    BY <1>13, <1>0 DEF PurgeRoot, Goto
  <1>14. CASE Uninstalled
    BY <1>14, <1>0 DEF Uninstalled, End, Operation, InstallPoint, Idle
  <1> QED BY <1>1, <1>2, <1>3, <1>4, <1>5, <1>6, <1>7, <1>8, <1>9, <1>10, <1>11,
     <1>12, <1>13, <1>14 DEF UninstallStep

\* Runs, connections and the scan of manifests.
LEMMA UseKeeps ==
  ASSUME IInv, Admit \/ AdmitInside \/ Launch \/ RunEnds \/ Connect \/ Disconnect \/ ListInstalls \/ ReconcileManifest
  PROVE  IInv'
  <1>0. op' \in Operation
    BY OperationKeeps DEF IInv, Next
  <1> USE DEF IInv, Consistent, TypeOK, LockInv, UseInv, InUseIsInstalled,
     AsideInv, AsideIsJournaled, InstallInv, UninstallInv, BootInv, GoneInv,
     GoneStaysGone, RegistryInv, InPlace, Verified, At, rows, trees, notes,
     others, uses, ghosts, NoFault, LockedRun, Readable
  <1>1. CASE Admit \/ AdmitInside
    BY <1>1, <1>0 DEF Admit, AdmitInside, Admissible, Entry
  <1>2. CASE Launch
    BY <1>2, <1>0 DEF Launch, Version, Entry
  <1>3. CASE RunEnds
    BY <1>3, <1>0 DEF RunEnds, Version, Entry
  <1>4. CASE Connect
    BY <1>4, <1>0 DEF Connect
  <1>5. CASE Disconnect
    <2>1. TypeOK'
      BY <1>5, <1>0 DEF Disconnect
    <2>2. Consistent'
      BY <1>5, <1>0 DEF Disconnect
    <2> QED BY <2>1, <2>2
  <1>6. CASE ListInstalls
    BY <1>6, <1>0 DEF ListInstalls, Version
  <1>7. CASE ReconcileManifest
    <2>1. CASE active # scan \/ lock = "op"
      <3>1. drift' = TRUE
        BY <1>7, <2>1 DEF ReconcileManifest
      <3> QED
        BY <1>7, <1>0, <3>1 DEF ReconcileManifest, Version
    <2>2. CASE active = scan /\ lock # "op"
      BY <1>7, <1>0, <2>2 DEF ReconcileManifest
    <2> QED BY <2>1, <2>2
  <1> QED BY <1>1, <1>2, <1>3, <1>4, <1>5, <1>6, <1>7
\* Requests, their deadline, and files that are lost.
LEMMA RequestKeeps ==
  ASSUME IInv, (\E d \in Digest : RequestInstall(d) \/ LoseFile(d))
          \/ RequestUninstall \/ EnterUninstall \/ Deadline
  PROVE  IInv'
  <1>0. op' \in Operation
    BY OperationKeeps DEF IInv, Next
  <1> USE DEF IInv, Consistent, TypeOK, LockInv, UseInv, InUseIsInstalled,
     AsideInv, AsideIsJournaled, InstallInv, UninstallInv, BootInv, GoneInv,
     GoneStaysGone, RegistryInv, InPlace, Verified, At, rows, trees, notes,
     others, uses, ghosts, NoFault, LockedRun, Readable
  <1>1. ASSUME NEW d \in Digest, RequestInstall(d) PROVE IInv'
    <2>1. op'.at = "wait" /\ op'.kind = "install" /\ op'.digest = d
      BY <1>1, IdleIsTyped DEF RequestInstall, Operation
    <2> QED
      BY <1>1, <1>0, <2>1, NamesDiffer DEF RequestInstall, InstallPoint
  <1>2. CASE RequestUninstall
    BY <1>2, <1>0 DEF RequestUninstall
  <1>3. CASE EnterUninstall
    BY <1>3, <1>0 DEF EnterUninstall, Operation, InstallPoint
  <1>4. CASE Deadline
    BY <1>4, <1>0 DEF Deadline, Idle
  <1>5. ASSUME NEW d \in Digest, LoseFile(d) PROVE IInv'
    BY <1>5, <1>0, BoundsAreNaturals DEF LoseFile, Fault
  <1> QED BY <1>1, <1>2, <1>3, <1>4, <1>5
\* A crash, and the start that follows it.
LEMMA RecoverKeeps ==
  ASSUME IInv, Crash \/ Recover
  PROVE  IInv'
  <1>0. op' \in Operation
    BY OperationKeeps DEF IInv, Next, Recover
  <1> USE DEF IInv, Consistent, TypeOK, LockInv, UseInv, InUseIsInstalled,
     AsideInv, AsideIsJournaled, InstallInv, UninstallInv, BootInv, GoneInv,
     GoneStaysGone, RegistryInv, InPlace, Verified, At, rows, trees, notes,
     others, uses, ghosts, NoFault, LockedRun, Readable
  <1>1. CASE Crash
    <2>1. TypeOK'
      BY <1>1, <1>0, BoundsAreNaturals DEF Crash, Version, Boot, Entry
    <2>2. Consistent'
      BY <1>1, <1>0 DEF Crash, Idle
    <2> QED BY <2>1, <2>2
  <1>2. CASE ReadJournal
    BY <1>2, <1>0 DEF ReadJournal, Booted, Boot
  <1>3. CASE ReplaceActive
    <2>1. active' = journal.prior /\ journal.prior \in Digest
      BY <1>3 DEF ReplaceActive, Journal
    <2>2. TypeOK'
      BY <1>3, <1>0, <2>1 DEF ReplaceActive, Booted, Version, Boot
    <2>3. Consistent'
      <3>1. CASE active = journal.prior
        BY <1>3, <2>1, <3>1 DEF ReplaceActive, Booted
      <3>2. CASE active # journal.prior
        <4>1. /\ boot = "replace" /\ boot' = "restore"
              /\ active' = journal.prior /\ drift'
              /\ UNCHANGED <<registry, connection, trees, notes, lock, op, uses, gone>>
          BY <1>3, <3>2 DEF ReplaceActive, Booted
        <4> QED BY <2>1, <4>1 DEF Idle
      <3> QED BY <3>1, <3>2
    <2> QED BY <2>2, <2>3
  <1>4. ASSUME NEW t \in Tree, RestoreRoot(t) PROVE IInv'
    BY <1>4, <1>0 DEF RestoreRoot, Booted
  <1>5. CASE ClearMarker
    BY <1>5, <1>0 DEF ClearMarker, Booted, Boot
  <1>6. CASE CloseRestored
    BY <1>6, <1>0 DEF CloseRestored, Booted, Boot
  <1>7. ASSUME NEW t \in Tree, RemoveRoot(t) PROVE IInv'
    BY <1>7, <1>0 DEF RemoveRoot, Booted
  <1>8. CASE CloseCleaned
    BY <1>8, <1>0 DEF CloseCleaned, Booted, Boot
  <1> QED BY <1>1, <1>2, <1>3, <1>4, <1>5, <1>6, <1>7, <1>8 DEF Recover
-----------------------------------------------------------------------------
LEMMA InitIInv == Init => IInv
  <1> SUFFICES ASSUME Init PROVE IInv
    OBVIOUS
  <1>1. TypeOK
    <2>1. disk \in [Tree -> {"none", "whole", "torn"}] /\ aside \subseteq Tree
      BY DEF Init
    <2>2. faults \in 0..MaxFaults /\ crashes \in 0..MaxCrashes
      BY BoundsAreNaturals DEF Init
    <2> QED BY <2>1, <2>2, IdleIsTyped DEF Init, TypeOK, Version, Boot, Entry
  <1>2. Consistent
    BY DEF Init, Consistent, LockInv, UseInv, InUseIsInstalled, AsideInv,
       AsideIsJournaled, InstallInv, UninstallInv, BootInv, GoneInv, GoneStaysGone,
       RegistryInv, LockedRun, Idle
  <1> QED BY <1>1, <1>2 DEF IInv

LEMMA NextKeeps == IInv /\ [Next]_vars => IInv'
  <1> SUFFICES ASSUME IInv, [Next]_vars PROVE IInv'
    OBVIOUS
  <1>1. CASE UNCHANGED vars
    BY <1>1 DEF vars, rows, trees, notes, others, uses, ghosts, LockedRun, IInv, TypeOK, Consistent,
       LockInv, UseInv, InUseIsInstalled, AsideInv, AsideIsJournaled, InstallInv,
       UninstallInv, BootInv, GoneInv, GoneStaysGone, RegistryInv, Verified, InPlace
  <1>2. CASE Next
    BY <1>2, InstallStepKeeps, UninstallStepKeeps, UseKeeps, RequestKeeps,
       RecoverKeeps DEF Next
  <1> QED BY <1>1, <1>2
LEMMA Invariant == Spec => []IInv
  BY InitIInv, NextKeeps, PTL DEF Spec
-----------------------------------------------------------------------------
\* Every reachable state of installs, uninstalls and recoveries is well typed.
THEOREM InstallTypeCorrect == Spec => []TypeOK
  <1>1. IInv => TypeOK
    BY DEF IInv
  <1> QED BY <1>1, Invariant, PTL
\* Whatever crashes or fails, a tree that is moved away is in the journal.
THEOREM MovedTreesAreJournaled == Spec => []AsideIsJournaled
  <1>1. IInv => AsideIsJournaled
    BY DEF IInv, Consistent, AsideInv
  <1> QED BY <1>1, Invariant, PTL
\* No run that was admitted under the lock loses its tree, and no connection
\* belongs to a connector that is marked uninstalled.
THEOREM UsedStaysInstalled == Spec => []InUseIsInstalled
  <1>1. IInv => InUseIsInstalled
    BY DEF IInv, Consistent, UseInv
  <1> QED BY <1>1, Invariant, PTL
\* What was reported as uninstalled stays so until the next install.
THEOREM UninstallIsFinal == Spec => []GoneStaysGone
  <1>1. IInv => GoneStaysGone
    BY DEF IInv, Consistent, GoneInv
  <1> QED BY <1>1, Invariant, PTL
\* At rest the registry agrees with the active install, but for the known causes.
THEOREM RegistryFollows == Spec => []RegistryAgrees
  <1>1. IInv => RegistryAgrees
    BY DEF IInv, Consistent, LockInv, RegistryInv, RegistryAgrees
  <1> QED BY <1>1, Invariant, PTL
LEMMA RecoveryStep == IInv /\ [Next]_vars => (boot # "up" => Outcome' = Outcome)
  <1> SUFFICES ASSUME IInv, [Next]_vars, boot # "up" PROVE Outcome' = Outcome
    OBVIOUS
  <1> USE DEF IInv, TypeOK, Consistent, LockInv, AsideInv, AsideIsJournaled, BootInv,
          rows, trees, notes, Outcome, InPlace
  <1>1. CASE UNCHANGED vars
    BY <1>1 DEF vars
  <1>2. CASE Crash \/ ReadJournal
    BY <1>2 DEF Crash, ReadJournal
  <1>3. CASE ReplaceActive
    BY <1>3, NamesDiffer DEF ReplaceActive, Journal
  <1>4. ASSUME NEW t \in Tree, RestoreRoot(t) PROVE Outcome' = Outcome
    BY <1>4 DEF RestoreRoot
  <1>5. CASE ClearMarker
    <2>1. active = journal.prior /\ journal # None /\ active # None
      BY <1>5, NamesDiffer DEF ClearMarker, Journal
    <2> QED BY <1>5, <2>1 DEF ClearMarker
  <1>6. CASE CloseRestored
    <2>1. active = journal.prior /\ journal # None /\ active # None /\ ~marker /\ aside = {}
      BY <1>6, NamesDiffer DEF CloseRestored, Journal
    <2>2. journal' = None /\ UNCHANGED <<rows, trees, marker>>
      BY <1>6 DEF CloseRestored
    <2>3. marker = FALSE
      BY <2>1
    <2> QED BY <2>1, <2>2, <2>3
  <1>7. ASSUME NEW t \in Tree, RemoveRoot(t) PROVE Outcome' = Outcome
    BY <1>7 DEF RemoveRoot
  <1>8. CASE CloseCleaned
    BY <1>8 DEF CloseCleaned
  <1>9. ~InstallStep /\ ~UninstallStep
    BY DEF InstallStep, UninstallStep, At, EnterInstall, Refuse, Reuse, Stage,
       Publish, StageFails, Activate, ActivateFails, Register, RegisterFails,
       Compensate, CompensateFails, Discard, Clean, Clear, AssertNoRun, AssertNoConnection,
       WriteJournal, Mark, MoveRoot, Deactivate, RemoveActivation, UninstallFails,
       UndoMove, Reactivate, ReactivateFails, Unmark, CloseUndone, PurgeRoot,
       Uninstalled
  <1> QED
    BY <1>1, <1>2, <1>3, <1>4, <1>5, <1>6, <1>7, <1>8, <1>9 DEF Next, Recover, At,
       RequestInstall, LoseFile, Deadline, RequestUninstall, EnterUninstall, Admit,
       AdmitInside, Launch, RunEnds, Connect, Disconnect, ListInstalls, ReconcileManifest

\* Once a crash has decided whether an interrupted uninstall is undone or
\* completed, the recovery keeps to it, however often it is interrupted itself.
THEOREM RecoveryIsDecided == Spec => RecoveryKeepsOutcome
  <1>1. IInv /\ [Next]_vars => [boot # "up" => Outcome' = Outcome]_vars
    BY RecoveryStep
  <1> QED BY <1>1, Invariant, PTL DEF Spec, RecoveryKeepsOutcome

RunnableStep ==
    (op.kind \in {"install", "reuse"} /\ lock = "op" /\ op' = Idle /\ boot' = "up")
    => (op.sound => active' # None /\ disk'[active'] = "whole" /\ active' \notin aside')

LEMMA InstallEndsRunnable == IInv /\ Next => RunnableStep
  <1> SUFFICES ASSUME IInv, Next, op.kind \in {"install", "reuse"}, lock = "op", op.sound,
                      op' = Idle, boot' = "up"
               PROVE  active' # None /\ disk'[active'] = "whole" /\ active' \notin aside'
    BY DEF RunnableStep
  <1> USE DEF IInv, TypeOK, Consistent, LockInv, InstallInv, Verified, InPlace, At
  <1>1. CASE Refuse \/ ActivateFails
    BY <1>1 DEF Refuse, ActivateFails, rows, trees
  <1>2. CASE Compensate
    BY <1>2 DEF Compensate, trees
  <1>3. CASE CompensateFails
    BY <1>3 DEF CompensateFails, rows, trees
  <1>4. CASE Clean \/ Clear
    <2>1. active \in Digest /\ Verified(active)
      BY <1>4 DEF Clean, Clear, Version
    <2> QED BY <1>4, <2>1, NamesDiffer DEF Clean, Clear, Unstaged, rows
  <1>5. ASSUME Next, ~Refuse, ~ActivateFails, ~Compensate, ~CompensateFails, ~Clean, ~Clear
        PROVE  FALSE
    <2>1. /\ op'.kind = "none" /\ op.kind # "none" /\ boot = "up"
          /\ op.at \in InstallPoint \ {"wait"}
      BY DEF Idle, InstallPoint
    <2>2. op' # op
      BY <2>1
    <2>3. CASE InstallStep
      <3>1. ~EnterInstall
        <4>1. EnterInstall => op.at = "wait"
          BY DEF EnterInstall
        <4> QED BY <2>1, <4>1
      <3>2. ~Reuse
        <4>1. Reuse => op'.kind = "reuse"
          BY DEF Reuse
        <4> QED BY <2>1, <4>1
      <3>3. \A p \in Point : Goto(p) => op'.kind = op.kind
        BY DEF Goto
      <3> QED
        BY <1>5, <2>1, <2>3, <3>1, <3>2, <3>3 DEF InstallStep, Stage, Publish,
           StageFails, Activate, Register, RegisterFails, Discard, Point,
           InstallPoint
    <2>4. ~UninstallStep
      BY <2>1 DEF UninstallStep, AssertNoRun, AssertNoConnection, WriteJournal, Mark,
         MoveRoot, Deactivate, RemoveActivation, UninstallFails, UndoMove,
         Reactivate, ReactivateFails, Unmark, CloseUndone, PurgeRoot, Uninstalled,
         InstallPoint
    <2>5. ~Recover /\ ~Crash
      BY <2>1 DEF Recover, Crash, ReadJournal, ReplaceActive, RestoreRoot,
         ClearMarker, CloseRestored, RemoveRoot, CloseCleaned
    <2>6. ~Deadline
      BY <2>1 DEF Deadline, Operation
    <2> QED
      BY <1>5, <2>1, <2>2, <2>3, <2>4, <2>5, <2>6 DEF Next, RequestInstall,
         LoseFile, RequestUninstall, EnterUninstall, Admit, AdmitInside, Launch, RunEnds,
         Connect, Disconnect, ListInstalls, ReconcileManifest
  <1> QED BY <1>1, <1>2, <1>3, <1>4, <1>5
\* However an install ends, a connector that could run before can run after.
THEOREM InstallsKeepRunnable == Spec => InstallKeepsRunnable
  <1>1. IInv /\ [Next]_vars => [RunnableStep]_vars
    BY InstallEndsRunnable
  <1>2. [RunnableStep]_vars =>
          [(op.kind \in {"install", "reuse"} /\ lock = "op" /\ op' = Idle /\ boot' = "up")
            => (op.sound => active' # None /\ disk'[active'] = "whole" /\ active' \notin aside')]_vars
    BY DEF RunnableStep
  <1> QED BY <1>1, <1>2, Invariant, PTL DEF Spec, InstallKeepsRunnable
=============================================================================
