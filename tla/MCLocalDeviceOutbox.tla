------------------------ MODULE MCLocalDeviceOutbox ------------------------
(***************************************************************************)
(* Small instances of LocalDeviceOutbox for TLC: two terminal commits of   *)
(* one collection boundary, which are rows like any others but for their   *)
(* supersession. CollectorDrain checks the other kinds.                    *)
(***************************************************************************)
EXTENDS LocalDeviceOutbox, TLC

CONSTANTS t1, t2, g1, g2

CommitIds == {t1, t2}
CommitKinds == [x \in CommitIds |-> "terminal_run_commit"]
OneBoundary == [x \in Id |-> "b"]

TwoHolders == {g1, g2}
CommitSymmetry == Permutations(TwoHolders) \cup Permutations(CommitIds)
=============================================================================
