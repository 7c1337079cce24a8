------------------------------ MODULE MCChunks ------------------------------
(***************************************************************************)
(* One interpreter, or a program and a file it imports, for Chunks.        *)
(***************************************************************************)
EXTENDS Chunks, TLC

MCCode == 0 .. 1

Symmetry == Permutations(Global \ {Context}) \cup Permutations(Function)
=============================================================================
