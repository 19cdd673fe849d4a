---------------------------- MODULE MCSearchIndex ---------------------------
(***************************************************************************)
(* A stream of two fields and the manifests it goes through, for TLC. The  *)
(* second one gives up lexical search and embeds another field.            *)
(***************************************************************************)
EXTENDS SearchIndex

CONSTANTS title, body, small, large

TwoFields == {title, body}

Both == [lexical |-> {title}, semantic |-> {title}]
SemanticOnly == [lexical |-> {}, semantic |-> {body}]

TwoModels == {small, large}
OneModel == {small}

OneManifest == {Both}
TwoManifests == {Both, SemanticOnly}
=============================================================================
