--------------------------- MODULE MCDeviceIngest ---------------------------
(***************************************************************************)
(* Small instances of DeviceIngest for TLC.                                *)
(***************************************************************************)
EXTENDS DeviceIngest, TLC

CONSTANTS p1, p2, a1, a2, a3, b1, b2, k1, k2, v, w, f, g

Rec(k, x) == [key |-> k, value |-> x]

\* The first body writes one key twice; the second deletes what it finds.
Batches == (b1 :> <<Rec(k1, v), Rec(k2, v), Rec(k1, w)>>
            @@ b2 :> <<Rec(k1, Deleted), Rec(k1, v)>>)
BatchOfBody == [b \in Body |-> Batches[b]]

ProcessByName == (a1 :> p1 @@ a2 :> p2 @@ a3 :> p1)
ProcessOfAttempt == [a \in Attempt |-> ProcessByName[a]]
=============================================================================
