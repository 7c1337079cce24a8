----------------------------- MODULE MCSorting -----------------------------
(***************************************************************************)
(* Arrays of up to three entries, with two keys that collide; a key        *)
(* function makes up to two changes.                                       *)
(***************************************************************************)
EXTENDS Sorting

MCKeys == {"0", "1", "x"}
MCNumber == [k \in MCKeys |-> CASE k = "0" -> {0} [] k = "1" -> {1} [] k = "x" -> {}]
MCDecimal == [n \in 0..1 |-> ToString(n)]
MCHash == [k \in MCKeys |-> CASE k = "0" -> 0 [] k = "1" -> 4 [] k = "x" -> 5]
=============================================================================
