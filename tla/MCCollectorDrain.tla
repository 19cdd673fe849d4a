-------------------------- MODULE MCCollectorDrain --------------------------
(***************************************************************************)
(* Small instances of CollectorDrain for TLC.                              *)
(***************************************************************************)
EXTENDS CollectorDrain, TLC

CONSTANTS r1, r2, c1, c2, t1, g1, g2

KindByName == (r1 :> "record_batch" @@ r2 :> "gap" @@ c1 :> "checkpoint"
               @@ c2 :> "checkpoint" @@ t1 :> "terminal_run_commit")
KindOfId == [x \in Id |-> KindByName[x]]
OneBoundary == [x \in Id |-> "b"]

OneDrain == {g1}
TwoDrains == {g1, g2}
=============================================================================
