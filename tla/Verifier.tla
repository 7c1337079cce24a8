------------------------------ MODULE Verifier ------------------------------
(***************************************************************************)
(* What the parser promises of its code, in the way of a bytecode verifier *)
(* and with certificates that the code itself knows nothing of: operands   *)
(* says how many operands there are at each address, around which          *)
(* functions a function lies in, itself first.  The machines check none    *)
(* of this in advance.                                                     *)
(***************************************************************************)
EXTENDS Bytecode

Unreached == -1

\* Where control can go from the instruction at address i, RETURN apart.
Successors(c, i) ==
  CASE c[i + 1].op = "JUMP" -> {c[i + 1].target}
    [] c[i + 1].op = "JUMP_IF_FALSE" -> {i + 1, c[i + 1].target}
    [] c[i + 1].op = "RETURN" -> {}
    [] OTHER -> {i + 1}

Results(i) ==
  IF i.op \in BinaryOps \cup UnaryOps \cup
                {"PUSH_LITERAL", "LOAD_LOCAL", "LOAD_GLOBAL", "MAKE_CLOSURE", "GET_PROP", "CALL"}
    THEN 1 ELSE 0

\* How many operands instruction i leaves of n.
After(i, n) == n - Operands(i) + Results(i)

\* Along every path each instruction finds the operands it takes, and a
\* function ends with no more than its value.
Balanced(f) ==
  /\ f.operands \in [0 .. Len(f.code) -> Nat \cup {Unreached}]
  /\ f.operands[0] = 0
  /\ f.operands[Len(f.code)] <= 1
  /\ \A i \in 0 .. Len(f.code) - 1 :
       f.operands[i] # Unreached =>
         /\ f.operands[i] >= Operands(f.code[i + 1])
         /\ f.code[i + 1].op = "RETURN" => f.operands[i] <= 1
         /\ \A j \in Successors(f.code, i) :
              j \in 0 .. Len(f.code) /\ f.operands[j] = After(f.code[i + 1], f.operands[i])

\* Functions that lie in no other.
Outermost(fns) == {n \in DOMAIN fns : Len(fns[n].around) = 1}

\* Slots are of the function they are looked for in, closures are made where
\* they lie, and a function called by name lies in no other.
Scoped(fns, n) ==
  LET f == fns[n] IN
  /\ f.around \in Seq(DOMAIN fns) /\ Len(f.around) > 0 /\ f.around[1] = n
  /\ \A k \in 1 .. Len(f.around) : fns[f.around[k]].around = SubSeq(f.around, k, Len(f.around))
  /\ \A i \in 1 .. Len(f.code) :
       /\ f.code[i].op \in {"LOAD_LOCAL", "STORE_LOCAL"} =>
            /\ f.code[i].depth < Len(f.around)
            /\ f.code[i].slot < fns[f.around[f.code[i].depth + 1]].size
       /\ f.code[i].op = "MAKE_CLOSURE" =>
            f.code[i].name \in DOMAIN fns /\ fns[f.code[i].name].around = <<f.code[i].name>> \o f.around
       /\ f.code[i].op = "CALL" /\ f.code[i].name \in DOMAIN fns => f.code[i].name \in Outermost(fns)

Checked(fns) ==
  \A n \in DOMAIN fns :
    /\ n \in Name \ {Dynamic}
    /\ fns[n].code \in Seq(Instruction) /\ fns[n].size \in Nat
    /\ fns[n].params \in Nat /\ fns[n].variadic \in BOOLEAN
    /\ fns[n].variadic => fns[n].params > 0
    /\ Balanced(fns[n]) /\ Scoped(fns, n)
=============================================================================
