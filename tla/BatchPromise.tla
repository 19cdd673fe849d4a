---------------------------- MODULE BatchPromise ----------------------------
(***************************************************************************)
(* What the server promises a collector about one device ingest batch,     *)
(* whatever retries, racing attempts, restarts and deadlines lie behind    *)
(* it: the first body sent under the batch identity is the batch, its      *)
(* records take effect one by one and in order, and "accepted" is said of  *)
(* that body alone and only when all of them have.                         *)
(***************************************************************************)
EXTENDS Naturals

CONSTANTS Body, NoBody,
          RecordCount            \* number of records of each body

VARIABLES taken,            \* the body the batch identity stands for
          effective,        \* how many of its records have taken effect
          answered          \* bodies some collector has been told are accepted

promise == <<taken, effective, answered>>

Init == taken = NoBody /\ effective = 0 /\ answered = {}

Take(b) ==
    /\ taken = NoBody
    /\ taken' = b
    /\ UNCHANGED <<effective, answered>>

TakeEffect ==
    /\ taken # NoBody
    /\ effective < RecordCount[taken]
    /\ effective' = effective + 1
    /\ UNCHANGED <<taken, answered>>

Answer ==
    /\ taken # NoBody
    /\ effective = RecordCount[taken]
    /\ answered' = {taken}
    /\ UNCHANGED <<taken, effective>>

Next == TakeEffect \/ Answer \/ \E b \in Body : Take(b)

Spec == Init /\ [][Next]_promise
=============================================================================
