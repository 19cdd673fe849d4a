------------------------- MODULE MCWriteCoordinator -------------------------
(***************************************************************************)
(* Small instances of WriteCoordinator for TLC.                            *)
(***************************************************************************)
EXTENDS WriteCoordinator

CONSTANTS w1, w2, w3, w4, w5, w6, e1, hot, cold, other, last

\* Four calls for one instance, one of them of the control plane, and one call
\* for each of three others.
KeyByName == (w1 :> hot @@ w2 :> hot @@ w3 :> hot @@ e1 :> hot
              @@ w4 :> cold @@ w5 :> other @@ w6 :> last)
KeyOfCall == [c \in Caller |-> KeyByName[c]]
PlaneOfCall == [c \in Caller |-> IF c = e1 THEN "control" ELSE "data"]
=============================================================================
