-------------------------- MODULE ConnectorInstall --------------------------
(***************************************************************************)
(* Installing, updating and uninstalling one connector (reference-         *)
(* implementation/server/connector-install/index.ts with connector-        *)
(* uninstall-journal.ts, connector-lifecycle-lock.ts and polyfill-         *)
(* manifest-reconcile.ts), and the runs and connections that take the same *)
(* lifecycle lock.                                                         *)
(*                                                                         *)
(* What is durable lies in two places that no transaction spans: rows      *)
(* (active, registry, connection) and the data directory (a tree for each  *)
(* digest, the uninstalled marker, the uninstall journal). A crash may     *)
(* come between any two steps, of the recovery at start too. A tree is     *)
(* published whole, by a rename, but removed file by file.                 *)
(*                                                                         *)
(* The install lock admits one install or uninstall at a time and refuses  *)
(* a second, which changes nothing: there is one op. Files are removed and *)
(* renamed back without error; other calls may fail. There is one          *)
(* connection, and one run or admission of a run at a time.                *)
(***************************************************************************)
EXTENDS Naturals

CONSTANTS
    Digest,         \* the versions in the catalog
    Configured,     \* those whose catalog entry names the digest of the config
    Staging,        \* stands for the temporary directories of installs
    None,
    MaxFaults,      \* bound: calls that fail, and files that are lost
    MaxCrashes,     \* bound: crashes
    MaxTroubles     \* bound: both together

ASSUME NamesDiffer == None \notin Digest \cup {Staging} /\ Staging \notin Digest
ASSUME ConfiguredAreVersions == Configured \subseteq Digest
ASSUME BoundsAreNaturals == MaxFaults \in Nat /\ MaxCrashes \in Nat /\ MaxTroubles \in Nat

Tree == Digest \cup {Staging}
Version == Digest \cup {None}

\* The record that an uninstall replaces, and the trees that it moves.
Journal == [prior : Digest, trees : SUBSET Tree]

ASSUME NoneIsNoJournal == None \notin Journal

VARIABLES
    active,         \* the record in connector_installs
    registry,       \* whose manifest is in connectors
    connection,     \* a row of connector_instances exists
    disk,           \* what there is of each tree
    aside,          \* the trees that are renamed to .uninstall-*
    marker,         \* the file that says the connector is uninstalled
    journal,        \* the uninstall journal
    lock,           \* who holds the lifecycle lock
    op,             \* the install or uninstall in progress
    path,           \* the entrypoint of the run being admitted
    run,            \* the digest that the active run executes
    entry,          \* how that run, or its admission, has come in
    boot,           \* how far the server has started
    scan,           \* manifest reconciliation: due, done, or what it has listed
    gone,           \* the last thing a caller was told is that it is uninstalled
    drift,          \* active and registry may differ, and it is known why
    faults, crashes

rows == <<active, registry, connection>>
trees == <<disk, aside>>
notes == <<marker, journal>>
uses == <<path, run, entry>>
others == <<uses, scan>>
ghosts == <<gone, drift>>
vars == <<rows, trees, notes, lock, op, others, boot, ghosts, faults, crashes>>
-----------------------------------------------------------------------------
Idle == [kind |-> "none", at |-> "idle", digest |-> None, prior |-> None,
         sound |-> FALSE, litter |-> FALSE, late |-> FALSE]

InstallPoint == {"wait", "core", "publish", "activate", "register", "clear",
                 "compensate", "discard", "clean"}
UninstallPoint == {"runs", "connections", "journal", "mark", "move", "forget", "undo", "close", "purge"}
\* locked: admitted under the lock. inside: admitted in the context of a run that
\* has ended, where the lock counts as held although it was given back.
Entry == {"none", "locked", "inside"}
Boot == {"down", "replace", "restore", "close", "purge", "up"}

\* What an install or uninstall keeps in memory: the versions it is about and
\* replaces, and what it found when it began.
Operation == [kind : {"none", "install", "reuse", "uninstall"},
              at : InstallPoint \cup UninstallPoint \cup {"idle"},
              digest : Version, prior : Version,
              sound : BOOLEAN, litter : BOOLEAN, late : BOOLEAN]

Init ==
    /\ active = None /\ registry = None /\ connection = FALSE
    /\ disk = [t \in Tree |-> "none"] /\ aside = {}
    /\ marker = FALSE /\ journal = None
    /\ lock = "free" /\ op = Idle
    /\ path = None /\ run = None /\ entry = "none" /\ scan = "done"
    /\ boot = "up"
    /\ gone = FALSE /\ drift = FALSE
    /\ faults = 0 /\ crashes = 0
-----------------------------------------------------------------------------
InPlace == {t \in Tree : disk[t] # "none"} \ aside

\* All the files of the tree are there.
Verified(d) == d \in InPlace /\ disk[d] = "whole"

\* The tree can be read back as the install that the catalog's entry names. An
\* entry that names no digest of the config cannot be compared with.
Readable(d) == Verified(d) /\ d \in Configured

At(p) == boot = "up" /\ op.at = p
Goto(p) == op' = [op EXCEPT !.at = p] /\ UNCHANGED lock

\* The operation answers, and gives up the locks it holds.
End == op' = Idle /\ lock' = "free"

NoFault == UNCHANGED <<faults, crashes>>
Fault ==
    /\ faults < MaxFaults /\ faults + crashes < MaxTroubles
    /\ faults' = faults + 1 /\ UNCHANGED crashes
-----------------------------------------------------------------------------
(* install and update: installEntry, installEntryCore, installStagedEntry,  *)
(* reuseExistingInstall                                                     *)

RequestInstall(d) ==
    /\ At("idle")
    /\ op' = [Idle EXCEPT !.kind = "install", !.at = "wait", !.digest = d]
    /\ UNCHANGED <<rows, trees, notes, lock, others, boot, ghosts>> /\ NoFault

\* The deadline ends the wait for the lock; later it only asks to stop, which
\* nobody looks at once the manifest is being registered.
Deadline ==
    /\ boot = "up" /\ op.kind \in {"install", "reuse"} /\ ~op.late
    /\ op.at \in {"wait", "core", "publish", "activate", "register"}
    /\ op' = IF op.at = "wait" THEN Idle ELSE [op EXCEPT !.late = TRUE]
    /\ UNCHANGED <<rows, trees, notes, lock, others, boot, ghosts>> /\ NoFault

EnterInstall ==
    /\ At("wait") /\ op.kind = "install"
    /\ lock = "free"
    /\ lock' = "op"
    /\ op' = [op EXCEPT !.at = "core", !.prior = active,
                        !.sound = active # None /\ Verified(active),
                        !.litter = Staging \in InPlace]
    /\ gone' = FALSE
    /\ UNCHANGED <<rows, trees, notes, others, boot, drift>> /\ NoFault

\* A readable tree without a record is kept, and so is one that an update
\* cannot read: the install is refused.
Refuse ==
    /\ At("core")
    /\ \/ op.late
       \/ op.digest \in InPlace /\ op.prior = None /\ Readable(op.digest)
       \/ op.digest \in InPlace /\ op.prior \notin {None, op.digest} /\ ~Readable(op.digest)
    /\ End
    /\ UNCHANGED <<rows, trees, notes, others, boot, ghosts>> /\ NoFault

\* The active install is inspected, any other tree is read back.
Reuse ==
    /\ At("core") /\ ~op.late
    /\ op.prior # None
    /\ IF op.prior = op.digest THEN Verified(op.digest) ELSE Readable(op.digest)
    /\ op' = [op EXCEPT !.kind = "reuse", !.at = "activate"]
    /\ UNCHANGED <<rows, trees, notes, lock, others, boot, ghosts>> /\ NoFault

\* The tree is missing, or one that cannot be used is removed first.
Stage ==
    /\ At("core") /\ ~op.late
    /\ op.digest \in InPlace =>
           \/ op.prior = None /\ ~Readable(op.digest)
           \/ op.prior = op.digest /\ ~Verified(op.digest)
    /\ disk' = [disk EXCEPT ![op.digest] = "none", ![Staging] = "torn"]
    /\ Goto("publish")
    /\ UNCHANGED <<rows, aside, notes, others, boot, ghosts>> /\ NoFault

Publish ==
    /\ At("publish") /\ ~op.late
    /\ disk' = [disk EXCEPT ![op.digest] = "whole"]
    /\ Goto("activate")
    /\ UNCHANGED <<rows, aside, notes, others, boot, ghosts>> /\ NoFault

\* The artifact does not arrive, does not verify, or comes too late.
StageFails ==
    /\ At("publish")
    /\ IF op.late THEN NoFault ELSE Fault
    /\ Goto("clean")
    /\ UNCHANGED <<rows, trees, notes, others, boot, ghosts>>

Activate ==
    /\ At("activate")
    /\ op.kind = "reuse" => ~op.late
    /\ active' = op.digest
    /\ Goto("register")
    /\ UNCHANGED <<registry, connection, trees, notes, others, boot, ghosts>> /\ NoFault

\* Only a staged install compensates here; a reuse has nothing to undo.
ActivateFails ==
    /\ At("activate")
    /\ IF op.kind = "reuse" /\ op.late THEN NoFault ELSE Fault
    /\ IF op.kind = "reuse" THEN End ELSE Goto("compensate")
    /\ UNCHANGED <<rows, trees, notes, others, boot, ghosts>>

\* Mutant: the deadline is looked at after the manifest is registered.
RegisterThenAbort ==
    /\ At("register")
    /\ registry' = op.digest
    /\ drift' = FALSE
    /\ Goto(IF op.late THEN "compensate" ELSE "clear")
    /\ UNCHANGED <<active, connection, trees, notes, others, boot, gone>> /\ NoFault

\* The last point at which the deadline stops an install.
Register ==
    /\ At("register") /\ ~op.late
    /\ registry' = op.digest
    /\ drift' = FALSE
    /\ Goto("clear")
    /\ UNCHANGED <<active, connection, trees, notes, others, boot, gone>> /\ NoFault

RegisterFails ==
    /\ At("register")
    /\ IF op.late THEN NoFault ELSE Fault
    /\ Goto("compensate")
    /\ UNCHANGED <<rows, trees, notes, others, boot, ghosts>>

\* Mutant: the published tree is removed before the old record is back.
CompensateLast ==
    /\ At("compensate")
    /\ disk' = [disk EXCEPT ![op.digest] = IF op.kind = "reuse" THEN @ ELSE "none"]
    /\ \/ active' = op.prior /\ UNCHANGED drift /\ NoFault
       \/ drift' = TRUE /\ UNCHANGED active /\ Fault
    /\ IF op.kind = "reuse" THEN End ELSE Goto("clean")
    /\ UNCHANGED <<registry, connection, aside, notes, others, boot, gone>>

Compensate ==
    /\ At("compensate")
    /\ active' = op.prior
    /\ IF op.kind = "reuse" THEN End ELSE Goto("discard")
    /\ UNCHANGED <<registry, connection, trees, notes, others, boot, ghosts>> /\ NoFault

\* The error leaves the handler before the tree is removed.
CompensateFails ==
    /\ At("compensate") /\ Fault
    /\ drift' = TRUE
    /\ IF op.kind = "reuse" THEN End ELSE Goto("clean")
    /\ UNCHANGED <<rows, trees, notes, others, boot, gone>>

Discard ==
    /\ At("discard")
    /\ IF disk[op.digest] = "whole"
       THEN disk' = [disk EXCEPT ![op.digest] = "torn"] /\ Goto("discard")
       ELSE disk' = [disk EXCEPT ![op.digest] = "none"] /\ Goto("clean")
    /\ UNCHANGED <<rows, aside, notes, others, boot, ghosts>> /\ NoFault

Unstaged == [disk EXCEPT ![Staging] = IF op.litter THEN @ ELSE "none"]

Clean ==
    /\ At("clean")
    /\ disk' = Unstaged
    /\ End
    /\ UNCHANGED <<rows, aside, notes, others, boot, ghosts>> /\ NoFault

\* Installed: the temporary directory goes, then the marker.
Clear ==
    /\ At("clear")
    /\ IF Unstaged # disk
       THEN disk' = Unstaged /\ Goto("clear") /\ UNCHANGED marker
       ELSE marker' = FALSE /\ End /\ UNCHANGED disk
    /\ UNCHANGED <<rows, aside, journal, others, boot, ghosts>> /\ NoFault

InstallStep ==
    \/ EnterInstall \/ Refuse \/ Reuse \/ Stage \/ Publish \/ StageFails
    \/ Activate \/ ActivateFails \/ Register \/ RegisterFails
    \/ Compensate \/ CompensateFails \/ Discard \/ Clean \/ Clear
-----------------------------------------------------------------------------
(* uninstall                                                                *)

RequestUninstall ==
    /\ At("idle")
    /\ active # None
    /\ op' = [Idle EXCEPT !.kind = "uninstall", !.at = "wait", !.prior = active]
    /\ UNCHANGED <<rows, trees, notes, lock, others, boot, ghosts>> /\ NoFault

EnterUninstall ==
    /\ At("wait") /\ op.kind = "uninstall"
    /\ lock = "free"
    /\ lock' = "op"
    /\ op' = [op EXCEPT !.at = "runs"]
    /\ UNCHANGED <<rows, trees, notes, others, boot, ghosts>> /\ NoFault

\* assertUninstallAllowed looks at the active runs, then at the connections.
AssertNoRun ==
    /\ At("runs")
    /\ IF run = None THEN Goto("connections") ELSE End
    /\ UNCHANGED <<rows, trees, notes, others, boot, ghosts>> /\ NoFault

AssertNoConnection ==
    /\ At("connections")
    /\ IF connection THEN End ELSE Goto("journal")
    /\ UNCHANGED <<rows, trees, notes, others, boot, ghosts>> /\ NoFault

\* Mutant: only the tree of the active record is moved and removed.
WriteJournalOfActive ==
    /\ At("journal")
    /\ journal' = [prior |-> op.prior, trees |-> {op.prior}]
    /\ Goto("mark")
    /\ UNCHANGED <<rows, trees, marker, others, boot, ghosts>> /\ NoFault

WriteJournal ==
    /\ At("journal")
    /\ journal' = [prior |-> op.prior, trees |-> InPlace \cup aside]
    /\ Goto("mark")
    /\ UNCHANGED <<rows, trees, marker, others, boot, ghosts>> /\ NoFault

\* The marker is created exclusively. One that is there is an error, and the
\* journal just written stays.
Mark ==
    /\ At("mark")
    /\ marker' = TRUE
    /\ IF marker THEN End ELSE Goto("move")
    /\ UNCHANGED <<rows, trees, journal, others, boot, ghosts>> /\ NoFault

MoveRoot(t) ==
    /\ At("move") /\ t \in journal.trees \ aside
    /\ aside' = aside \cup {t}
    /\ Goto("move")
    /\ UNCHANGED <<rows, disk, notes, others, boot, ghosts>> /\ NoFault

\* The database store removes record and activation in one transaction, the
\* file store one after the other.
Deactivate ==
    /\ At("move") /\ journal.trees \subseteq aside
    /\ active' = None
    /\ \E next \in {"purge", "forget"} : Goto(next)
    /\ UNCHANGED <<registry, connection, trees, notes, others, boot, ghosts>> /\ NoFault

RemoveActivation ==
    /\ At("forget")
    /\ Goto("purge")
    /\ UNCHANGED <<rows, trees, notes, others, boot, ghosts>> /\ NoFault

UninstallFails ==
    /\ op.at \in {"move", "forget"} /\ boot = "up" /\ Fault
    /\ Goto("undo")
    /\ UNCHANGED <<rows, trees, notes, others, boot, ghosts>>

UndoMove(t) ==
    /\ At("undo") /\ t \in aside
    /\ aside' = aside \ {t}
    /\ Goto("undo")
    /\ UNCHANGED <<rows, disk, notes, others, boot, ghosts>> /\ NoFault

Reactivate ==
    /\ At("undo") /\ aside = {} /\ active = None
    /\ active' = op.prior
    /\ Goto("undo")
    /\ UNCHANGED <<registry, connection, trees, notes, others, boot, ghosts>> /\ NoFault

\* Journal and marker stay, for the next start.
ReactivateFails ==
    /\ At("undo") /\ aside = {} /\ active = None /\ Fault
    /\ End
    /\ UNCHANGED <<rows, trees, notes, others, boot, ghosts>>

Unmark ==
    /\ At("undo") /\ aside = {} /\ active # None
    /\ marker' = FALSE
    /\ Goto("close")
    /\ UNCHANGED <<rows, trees, journal, others, boot, ghosts>> /\ NoFault

CloseUndone ==
    /\ At("close")
    /\ journal' = None
    /\ End
    /\ UNCHANGED <<rows, trees, marker, others, boot, ghosts>> /\ NoFault

PurgeRoot(t) ==
    /\ At("purge") /\ t \in aside
    /\ disk' = [disk EXCEPT ![t] = "none"]
    /\ aside' = aside \ {t}
    /\ Goto("purge")
    /\ UNCHANGED <<rows, notes, others, boot, ghosts>> /\ NoFault

\* Mutant: the journal goes before the trees.
UninstalledEarly ==
    /\ At("purge") /\ journal # None
    /\ journal' = None
    /\ gone' = (aside = {})
    /\ IF aside = {} THEN End ELSE Goto("purge")
    /\ UNCHANGED <<rows, trees, marker, others, boot, drift>> /\ NoFault

Uninstalled ==
    /\ At("purge") /\ aside = {}
    /\ journal' = None
    /\ gone' = TRUE
    /\ End
    /\ UNCHANGED <<rows, trees, marker, others, boot, drift>> /\ NoFault

UninstallStep ==
    \/ AssertNoRun \/ AssertNoConnection \/ WriteJournal \/ Mark \/ Deactivate
    \/ RemoveActivation \/ UninstallFails \/ Reactivate \/ ReactivateFails
    \/ Unmark \/ CloseUndone \/ Uninstalled
    \/ \E t \in Tree : MoveRoot(t) \/ UndoMove(t) \/ PurgeRoot(t)
-----------------------------------------------------------------------------
(* runs, connections, and the manifests of installs                         *)

\* What an admission looks at: no marker, a connection, a verified install.
Admissible ==
    /\ boot = "up" /\ path = None /\ run = None
    /\ ~marker /\ connection
    /\ active # None /\ Verified(active)

\* Mutant: a run is admitted without the lock.
AdmitUnlocked ==
    /\ Admissible
    /\ path' = active /\ entry' = "locked"
    /\ UNCHANGED <<rows, trees, notes, lock, op, run, scan, boot, ghosts>> /\ NoFault

\* runNow, which holds the lock up to the launch.
Admit ==
    /\ Admissible
    /\ lock = "free" /\ lock' = "run"
    /\ path' = active /\ entry' = "locked"
    /\ UNCHANGED <<rows, trees, notes, op, run, scan, boot, ghosts>> /\ NoFault

\* runNow in the context of a run that has ended, for its continuation or for
\* a run that waited for its surface: the lock counts as held. That may be long
\* after, and is not bound to the last run.
AdmitInside ==
    /\ Admissible
    /\ entry' = "inside"
    /\ path' = active
    /\ UNCHANGED <<rows, trees, notes, lock, op, run, scan, boot, ghosts>> /\ NoFault

\* The row of the run is inserted, unless there is a marker, or its admission
\* fails, and the lock is free.
Launch ==
    /\ boot = "up" /\ path # None
    /\ \/ ~marker /\ run' = path /\ UNCHANGED entry
       \/ entry' = "none" /\ UNCHANGED run
    /\ path' = None
    /\ lock' = IF lock = "run" THEN "free" ELSE lock
    /\ UNCHANGED <<rows, trees, notes, op, scan, boot, ghosts>> /\ NoFault

RunEnds ==
    /\ boot = "up" /\ run # None
    /\ run' = None /\ entry' = "none"
    /\ UNCHANGED <<rows, trees, notes, lock, op, path, scan, boot, ghosts>> /\ NoFault

\* Mutant: a connection is written without the lock.
ConnectUnlocked ==
    /\ boot = "up" /\ ~connection
    /\ ~marker
    /\ connection' = TRUE
    /\ UNCHANGED <<active, registry, trees, notes, lock, op, others, boot, ghosts>> /\ NoFault

Connect ==
    /\ boot = "up" /\ ~connection
    /\ lock = "free" /\ ~marker
    /\ connection' = TRUE
    /\ UNCHANGED <<active, registry, trees, notes, lock, op, others, boot, ghosts>> /\ NoFault

\* deleteConnection looks for an active run, and deletes after an await that a
\* run may come in during: the look keeps no run from losing its connection.
Disconnect ==
    /\ boot = "up" /\ connection
    /\ connection' = FALSE
    /\ UNCHANGED <<active, registry, trees, notes, lock, op, others, boot, ghosts>> /\ NoFault

\* After the listeners are up: the verified installs are listed once, and
\* their manifests registered one by one, without a lock.
ListInstalls ==
    /\ boot = "up" /\ scan = "due"
    /\ scan' = IF active # None /\ Verified(active) THEN active ELSE "done"
    /\ UNCHANGED <<rows, trees, notes, lock, op, uses, boot, ghosts>> /\ NoFault

ReconcileManifest ==
    /\ boot = "up" /\ scan \in Digest
    /\ registry' = scan
    /\ drift' = (active # scan \/ lock = "op")
    /\ scan' = "done"
    /\ UNCHANGED <<active, connection, trees, notes, lock, op, uses, boot, gone>> /\ NoFault
-----------------------------------------------------------------------------
(* crash and start: reconcileConnectorUninstalls                            *)

\* A file of a tree is lost while nobody uses the tree.
LoseFile(d) ==
    /\ lock = "free" /\ boot = "up" /\ d \notin {path, run} /\ Fault
    /\ Verified(d)
    /\ disk' = [disk EXCEPT ![d] = "torn"]
    /\ UNCHANGED <<rows, aside, notes, lock, op, others, boot, ghosts>>

Crash ==
    /\ boot # "down" /\ crashes < MaxCrashes /\ faults + crashes < MaxTroubles
    /\ crashes' = crashes + 1
    /\ boot' = "down"
    /\ lock' = "free" /\ op' = Idle
    /\ path' = None /\ run' = None /\ entry' = "none"
    /\ scan' = "done"
    /\ drift' = (drift \/ op.at \in {"register", "compensate"})
    /\ UNCHANGED <<rows, trees, notes, gone, faults>>

Booted(b) ==
    /\ boot' = b
    /\ scan' = IF b = "up" THEN "due" ELSE scan
    /\ UNCHANGED <<lock, op, uses, gone>> /\ NoFault

\* Mutant: a start fails when a journaled tree has been removed already.
ReadJournalStrictly ==
    /\ boot = "down"
    /\ journal # None => \A t \in journal.trees : disk[t] # "none"
    /\ Booted(IF journal = None THEN "up" ELSE IF active = None THEN "purge" ELSE "replace")
    /\ UNCHANGED <<rows, trees, notes, drift>>

ReadJournal ==
    /\ boot = "down"
    /\ Booted(IF journal = None THEN "up" ELSE IF active = None THEN "purge" ELSE "replace")
    /\ UNCHANGED <<rows, trees, notes, drift>>

ReplaceActive ==
    /\ boot = "replace"
    /\ active' = journal.prior
    /\ drift' = IF active = journal.prior THEN drift ELSE TRUE
    /\ Booted("restore")
    /\ UNCHANGED <<registry, connection, trees, notes>>

RestoreRoot(t) ==
    /\ boot = "restore" /\ t \in journal.trees \cap aside
    /\ aside' = aside \ {t}
    /\ Booted("restore")
    /\ UNCHANGED <<rows, disk, notes, drift>>

\* Mutant: the journal goes before the marker.
ClearMarkerLast ==
    /\ boot = "restore" /\ journal # None /\ journal.trees \cap aside = {}
    /\ journal' = None
    /\ Booted("close")
    /\ UNCHANGED <<rows, trees, marker, drift>>

ClearMarker ==
    /\ boot = "restore" /\ journal.trees \cap aside = {}
    /\ marker' = FALSE
    /\ Booted("close")
    /\ UNCHANGED <<rows, trees, journal, drift>>

CloseRestored ==
    /\ boot = "close"
    /\ journal' = None
    /\ Booted("up")
    /\ UNCHANGED <<rows, trees, marker, drift>>

RemoveRoot(t) ==
    /\ boot = "purge" /\ t \in journal.trees /\ disk[t] # "none"
    /\ disk' = [disk EXCEPT ![t] = "none"]
    /\ aside' = aside \ {t}
    /\ Booted("purge")
    /\ UNCHANGED <<rows, notes, drift>>

CloseCleaned ==
    /\ boot = "purge" /\ \A t \in journal.trees : disk[t] = "none"
    /\ journal' = None
    /\ Booted("up")
    /\ UNCHANGED <<rows, trees, marker, drift>>

Recover ==
    \/ ReadJournal \/ ReplaceActive \/ ClearMarker \/ CloseRestored \/ CloseCleaned
    \/ \E t \in Tree : RestoreRoot(t) \/ RemoveRoot(t)
-----------------------------------------------------------------------------
Next ==
    \/ \E d \in Digest : RequestInstall(d) \/ LoseFile(d)
    \/ Deadline \/ InstallStep
    \/ RequestUninstall \/ EnterUninstall \/ UninstallStep
    \/ Admit \/ AdmitInside \/ Launch \/ RunEnds
    \/ Connect \/ Disconnect
    \/ ListInstalls \/ ReconcileManifest
    \/ Crash \/ Recover

Spec == Init /\ [][Next]_vars

\* The event loop runs what can run, the deadline is a timer, and the server
\* is started again after a crash. Who gets the lifecycle lock is left open.
Fairness ==
    /\ WF_vars(InstallStep) /\ WF_vars(Deadline)
    /\ WF_vars(UninstallStep) /\ WF_vars(Launch)
    /\ WF_vars(Recover)

FairSpec == Spec /\ Fairness
-----------------------------------------------------------------------------
\* Every variable has its type.
TypeOK ==
    /\ active \in Version /\ registry \in Version /\ connection \in BOOLEAN
    /\ disk \in [Tree -> {"none", "whole", "torn"}] /\ aside \subseteq Tree
    /\ marker \in BOOLEAN
    /\ journal \in Journal \cup {None}
    /\ lock \in {"free", "op", "run"}
    /\ op \in Operation
    /\ path \in Version /\ run \in Version /\ entry \in Entry
    /\ boot \in Boot /\ scan \in Digest \cup {"due", "done"}
    /\ gone \in BOOLEAN /\ drift \in BOOLEAN
    /\ faults \in 0..MaxFaults /\ crashes \in 0..MaxCrashes

\* A tree that uninstall has moved away is in the journal, whatever has
\* crashed or failed since: a start can always put it back or remove it.
AsideIsJournaled == aside # {} => journal # None /\ aside \subseteq journal.trees

LockedRun == run # None /\ entry = "locked"

\* Neither an uninstall nor a failed update takes away what is in use: the tree
\* that a run executes which was admitted under the lock is in place and complete,
\* and no connection is left to a connector that is marked uninstalled.
InUseIsInstalled == (LockedRun => Verified(run)) /\ (connection => ~marker)

\* Once a caller was told that the connector is uninstalled, no crash, start,
\* connection or run that takes the lock brings any part of it back before the
\* next install.
GoneStaysGone ==
    gone => /\ active = None /\ InPlace = {} /\ aside = {} /\ journal = None
            /\ marker /\ ~connection /\ ~LockedRun

\* At rest the registry has the manifest of the active install, unless a crash,
\* a failed compensation, a restored record or a stale scan has parted them.
RegistryAgrees ==
    (boot = "up" /\ lock = "free" /\ active # None) => registry = active \/ drift

\* What the interrupted uninstall will have come to when the server is up.
Outcome ==
    IF journal = None THEN [active |-> active, trees |-> InPlace, marker |-> marker]
    ELSE IF active = None
    THEN [active |-> None, trees |-> InPlace \ journal.trees, marker |-> marker]
    ELSE [active |-> journal.prior, trees |-> InPlace \cup aside, marker |-> FALSE]

\* An uninstall that a crash has interrupted is undone or completed as a whole.
\* The crash decides which, and further crashes of the recovery do not change it.
RecoveryKeepsOutcome == [][boot # "up" => Outcome' = Outcome]_vars

\* However an install or update ends, a connector that could run before it can
\* run after it.
InstallKeepsRunnable ==
    [][(op.kind \in {"install", "reuse"} /\ lock = "op" /\ op' = Idle /\ boot' = "up")
        => (op.sound => active' # None /\ disk'[active'] = "whole" /\ active' \notin aside')]_vars

\* Whatever crashes or fails, the server comes up, and an install, or an
\* uninstall that has the lock, is over in the end.
ComesToRest == []<>(boot = "up" /\ op.kind \notin {"install", "reuse"} /\ lock # "op")
=============================================================================
