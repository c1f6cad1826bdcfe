-------------------------- MODULE MCSemanticInput --------------------------
(* The broker on every batch of up to three items, with a credit of up to  *)
(* four: a client of several calls, each of which may fail everywhere.     *)
EXTENDS SemanticInput
=============================================================================
