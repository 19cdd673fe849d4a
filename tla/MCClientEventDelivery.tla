----------------------- MODULE MCClientEventDelivery -----------------------
(***************************************************************************)
(* Small instances of ClientEventDelivery for TLC: requests by name.       *)
(***************************************************************************)
EXTENDS ClientEventDelivery

CONSTANTS create, enable, disable, stop, delete, test, change, revoke, again, p1, p2

OpByName == (create :> "create" @@ enable :> "enable" @@ disable :> "disable"
             @@ stop :> "operatorDisable" @@ delete :> "delete" @@ test :> "test"
             @@ change :> "change" @@ revoke :> "revoke" @@ again :> "revoke")
OpOfReq == [r \in Req |-> OpByName[r]]

\* A life without revocations, and one with two of them and crashes; and the
\* first of the two where the race on Postgres is.
OnPostgres == [backend |-> "postgres", faults |-> 2, crashes |-> 0,
               requests |-> {create, test, disable, enable, delete}]
OnSqlite == [backend |-> "sqlite", faults |-> 2, crashes |-> 1,
             requests |-> {create, stop, enable, revoke, again}]
RevokedOnPostgres == [backend |-> "postgres", faults |-> 1, crashes |-> 0,
                      requests |-> {create, revoke, test}]
OneOfEach == {OnPostgres, OnSqlite}
OnlyRevoked == {RevokedOnPostgres}

\* The owner's requests come to the second process, if there is one.
HomeOfReq == [r \in Req |-> IF r \in {stop, revoke} /\ p2 \in Process THEN p2 ELSE p1]
=============================================================================
