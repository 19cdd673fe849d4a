--------------------------- MODULE MCGrantTokens ---------------------------
(***************************************************************************)
(* A small instance of GrantTokens for TLC.                                *)
(***************************************************************************)
EXTENDS GrantTokens, TLC

CONSTANTS a1, a2, e1, e2, t1, t2, t3, v1

OpByName == (a1 :> "decide" @@ a2 :> "decide" @@ e1 :> "redeem" @@ e2 :> "redeem"
             @@ t1 :> "rotate" @@ t2 :> "rotate" @@ t3 :> "rotate" @@ v1 :> "revoke")
\* Calls of one kind are alike: only the orders in which they begin by rank are
\* looked at.
Rank == (a1 :> 1 @@ a2 :> 2 @@ e1 :> 1 @@ e2 :> 2 @@ t1 :> 1 @@ t2 :> 2 @@ t3 :> 3 @@ v1 :> 1)
BeginInOrder ==
    \A c, d \in Call :
        OpOf[c] = OpOf[d] /\ Rank[c] < Rank[d] /\ pc[c] = "idle" => pc'[d] = "idle"

OpOfCall == [c \in Call |-> OpByName[c]]
=============================================================================
