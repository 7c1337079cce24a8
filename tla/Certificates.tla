---------------------------- MODULE Certificates ---------------------------
(***************************************************************************)
(* Certificates for code of the stack machine, of the three kinds that     *)
(* Translate and Verifier ask for.  Computed for the sample programs when  *)
(* they are run; nothing else depends on how.                              *)
(***************************************************************************)
EXTENDS Verifier

\* As the translator counts them: RETURN looks at an operand and leaves it.
Takes(i) == IF i.op = "RETURN" THEN 1 ELSE Operands(i)
Leaves(i) == IF i.op = "RETURN" THEN 1 ELSE Results(i)
Jumping(i) == i.op \in {"JUMP", "JUMP_IF_FALSE"}

\* How many slots and operands there are before each instruction, in the order
\* the translator meets them: h says it of the first ones.
RECURSIVE Deepen(_, _)
Deepen(c, h) ==
  LET i == Len(h)
      d == {h[j] - Takes(c[j]) : j \in {k \in 1 .. i : Jumping(c[k]) /\ c[k].target = i}}
  IN  IF i > Len(c) THEN h
      ELSE Deepen(c, Append(h, IF d = {} THEN h[i] - Takes(c[i]) + Leaves(c[i])
                               ELSE CHOOSE x \in d : \A y \in d : x <= y))

Depths(c, n) == Deepen(c, <<n>>)

\* How many operands there are before each instruction, from the beginning
\* along all paths; S are the addresses whose paths are still to be followed.
RECURSIVE Follow(_, _, _)
Follow(c, h, S) ==
  IF S = {} THEN h
  ELSE LET i == CHOOSE x \in S : TRUE
           new == IF i = Len(c) THEN {} ELSE {j \in Successors(c, i) : h[j] = Unreached}
           n == IF i = Len(c) THEN 0 ELSE After(c[i + 1], h[i])
       IN  Follow(c, [j \in DOMAIN h |-> IF j \in new THEN n ELSE h[j]], (S \ {i}) \cup new)

Counts(c) ==
  Follow(c, [i \in 0 .. Len(c) |-> IF i = 0 THEN 0 ELSE Unreached], {0})

\* The functions around name, which is made by an instruction of the next one.
RECURSIVE Around(_, _)
Around(fns, name) ==
  LET makers == {m \in DOMAIN fns : \E i \in DOMAIN fns[m].code :
                   fns[m].code[i].op = "MAKE_CLOSURE" /\ fns[m].code[i].name = name}
  IN  <<name>> \o IF makers = {} THEN <<>> ELSE Around(fns, CHOOSE m \in makers : TRUE)

Certified(fns) ==
  [n \in DOMAIN fns |->
     [code |-> fns[n].code, size |-> fns[n].size, params |-> fns[n].params,
      variadic |-> fns[n].variadic, depth |-> Depths(fns[n].code, fns[n].size),
      operands |-> Counts(fns[n].code), around |-> Around(fns, n)]]
=============================================================================
