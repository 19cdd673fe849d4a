------------------------ MODULE DeliveryObligations ------------------------
(***************************************************************************)
(* What the local collector's outbox promises to the collector, with no    *)
(* leases, retries or dead letters in sight: a row is an obligation, an    *)
(* obligation ends only by delivery, and what has been delivered is never  *)
(* owed again. A delivered row may be forgotten; the same identifier may   *)
(* then be taken on as a new obligation.                                   *)
(***************************************************************************)

CONSTANT Id                  \* identifiers of outbox rows

VARIABLE obligation          \* obligation[x] is the stage x has reached

Stages == {"none", "owed", "delivered"}

Init == obligation = [x \in Id |-> "none"]

\* What may become of one obligation: taken on, delivered, forgotten.
Moves == {<<"none", "owed">>, <<"owed", "delivered">>, <<"delivered", "none">>}

\* One statement may move any number of rows.
Next ==
    /\ obligation' \in [Id -> Stages]
    /\ \A x \in Id : \/ obligation'[x] = obligation[x]
                     \/ <<obligation[x], obligation'[x]>> \in Moves

Spec == Init /\ [][Next]_obligation
=============================================================================
