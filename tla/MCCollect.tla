------------------------------ MODULE MCCollect ------------------------------
(***************************************************************************)
(* Instances of collect: on every program of up to two return statements.  *)
(***************************************************************************)
EXTENDS Collect, MCParser
=============================================================================
