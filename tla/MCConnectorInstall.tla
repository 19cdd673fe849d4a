------------------------- MODULE MCConnectorInstall -------------------------
(***************************************************************************)
(* Two versions of one connector, for TLC.                                 *)
(***************************************************************************)
EXTENDS ConnectorInstall
=============================================================================
