---------------------------- MODULE MCCollector ----------------------------
(***************************************************************************)
(* Collector on every graph over an environment, an array and a function,  *)
(* every set of roots, and any number of collections.                      *)
(***************************************************************************)
EXTENDS Collector, TLC
=============================================================================
