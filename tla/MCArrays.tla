------------------------------ MODULE MCArrays ------------------------------
(***************************************************************************)
(* One array with three numbers, a name and a key that only starts with a   *)
(* number as its keys; the numbers collide in a table of four buckets, and  *)
(* two of them still do after it has grown to eight.                       *)
(***************************************************************************)
EXTENDS ManagedArray

CONSTANTS v, w

\* Any free address is as good as another.
Symmetry == Permutations({v, w}) \cup Permutations(Address)

MCKeys == {"0", "1", "2", "x", "1a"}
MCNumber == [k \in MCKeys |-> CASE k = "0" -> {0} [] k = "1" -> {1} [] k = "2" -> {2}
                              [] k = "x" -> {} [] k = "1a" -> {1}]
MCDecimal == [n \in 0..2 |-> ToString(n)]
MCHash == [k \in MCKeys |-> CASE k = "0" -> 0 [] k = "1" -> 4 [] k = "2" -> 8
                            [] k = "x" -> 5 [] k = "1a" -> 4]
=============================================================================
