------------------------------ MODULE Bytecode ------------------------------
(***************************************************************************)
(* Values, the operations on them that both virtual machines share         *)
(* (helpers.cpp), and the instructions of the two machines.                *)
(*                                                                         *)
(* A value is [t, v]: its type and a number.  For a string the number is   *)
(* the numeral it spells, for an array or a function it is its identity.   *)
(* Floats have integral values only.  The contents of an array are a       *)
(* function from keys, which are texts, to values.                         *)
(***************************************************************************)
EXTENDS Integers, Sequences, FiniteSets

None == [t |-> "none", v |-> 0]
MakeInt(n) == [t |-> "int", v |-> n]
MakeBool(b) == [t |-> "bool", v |-> IF b THEN 1 ELSE 0]
MakeString(n) == [t |-> "string", v |-> n]
MakeFloat(n) == [t |-> "float", v |-> n]
ArrayRef(n) == [t |-> "array", v |-> n]
FunctionRef(n) == [t |-> "function", v |-> n]

IsNumber(a) == a.t \in {"int", "float", "bool"}
IsInteger(a) == a.t \in {"int", "bool"}
IsNumeric(a) == a.t # "function"

\* as_number; size is the number of entries of an array.
AsNumber(a, size) == IF a.t = "array" THEN size ELSE a.v

IsTruthy(a, size) ==
  CASE IsNumber(a) -> a.v # 0
    [] a.t = "array" -> size > 0
    [] a.t \in {"string", "function"} -> TRUE
    [] a.t = "none" -> FALSE

\* none equals only none, numbers compare across their types, arrays are
\* compared by identity, and a function equals nothing.
Equal(a, b) ==
  \/ a.t = b.t /\ a.t \in {"none", "array", "string"} /\ a.v = b.v
  \/ IsNumber(a) /\ IsNumber(b) /\ a.v = b.v

\* key_from_value: an integer and the string that spells it are one key.
Key(a) == [t |-> IF IsNumber(a) /\ a.t # "bool" THEN "string" ELSE a.t, v |-> a.v]

\* CONCAT differs from these only in the value it computes and is left out.
ArithmeticOps == {"ADD", "SUB", "MUL", "DIV", "MOD"}
ComparisonOps == {"LT", "LTE", "GT", "GTE"}
BinaryOps == ArithmeticOps \cup ComparisonOps \cup {"EQ", "NEQ"}
UnaryOps == {"TO_BOOL", "LOGICAL_NOT", "NEGATE"}

\* Whether op yields a value: div_values and compare_values, for example, can
\* fail.  n is the size of b.
Defined(op, a, b, n) ==
  CASE op \in ArithmeticOps -> /\ IsNumeric(a) /\ IsNumeric(b)
                               /\ op \in {"DIV", "MOD"} => AsNumber(b, n) # 0
    [] op \in ComparisonOps -> /\ a.t # "array" /\ b.t # "array"
                               /\ \/ a.t = "string" \/ b.t = "string"
                                  \/ IsNumber(a) /\ IsNumber(b)
    [] op \in {"EQ", "NEQ"} -> TRUE

\* Division of C++: towards zero.
Abs(x) == IF x < 0 THEN -x ELSE x
Quotient(x, y) == LET q == Abs(x) \div Abs(y) IN IF (x < 0) = (y < 0) THEN q ELSE -q

\* The value of op for operands whose arrays have sizes m and n.
Binary(op, a, m, b, n) ==
  LET x == AsNumber(a, m)
      y == AsNumber(b, n)
      z == CASE op = "ADD" -> x + y [] op = "SUB" -> x - y [] op = "MUL" -> x * y
             [] op = "DIV" -> Quotient(x, y) [] op = "MOD" -> x - y * Quotient(x, y)
  IN  CASE op = "EQ" -> MakeBool(Equal(a, b))
        [] op = "NEQ" -> MakeBool(~Equal(a, b))
        [] op = "LT" -> MakeBool(x < y)
        [] op = "LTE" -> MakeBool(x <= y)
        [] op = "GT" -> MakeBool(x > y)
        [] op = "GTE" -> MakeBool(x >= y)
        [] op \in ArithmeticOps ->
             IF IsInteger(a) /\ IsInteger(b) THEN MakeInt(z) ELSE MakeFloat(z)

\* NEGATE changes no other value than an int or a float: -"5" is "5".
UnaryDefined(op, a) == op = "NEGATE" => IsNumeric(a)
Unary(op, a, size) ==
  CASE op = "TO_BOOL" -> MakeBool(IsTruthy(a, size))
    [] op = "LOGICAL_NOT" -> MakeBool(~IsTruthy(a, size))
    [] op = "NEGATE" -> IF a.t \in {"int", "float"} THEN [a EXCEPT !.v = -@] ELSE a

\* What can be seen of a value from outside: not which array or function.
Seen(a) == IF a.t \in {"array", "function"} THEN [a EXCEPT !.v = 0] ELSE a
SeenAll(printed) == [i \in DOMAIN printed |-> [j \in DOMAIN printed[i] |-> Seen(printed[i][j])]]

\* What can be seen of a run: whether it succeeded, what it printed and gave.
Outcome(ok, printed, a) ==
  [ok |-> ok, out |-> SeenAll(printed), result |-> IF ok THEN Seen(a) ELSE None]

-----------------------------------------------------------------------------
(* Instructions of the stack machine (UdonInstruction).  A field that an   *)
(* opcode has no use for keeps its default.  Addresses count from 0.       *)

Blank == [op |-> "NOP", lit |-> None, depth |-> 0, slot |-> 0, name |-> "",
          argc |-> 0, target |-> 0]

Value == [t : {"none", "int", "float", "bool", "string", "array", "function"}, v : Int]

\* The code itself holds no arrays and no functions.
Literal == [t : {"none", "int", "float", "bool", "string"}, v : Int]

\* The name in a CALL whose callee is a value on the stack.
Dynamic == ""
Name == STRING \cup {Dynamic}

\* What the code generator emits of enum Opcode.
Opcode == BinaryOps \cup UnaryOps \cup
  {"PUSH_LITERAL", "LOAD_LOCAL", "STORE_LOCAL", "LOAD_GLOBAL", "STORE_GLOBAL",
   "ENTER_SCOPE", "EXIT_SCOPE", "JUMP", "JUMP_IF_FALSE", "GET_PROP", "STORE_PROP",
   "MAKE_CLOSURE", "CALL", "RETURN", "POP"}

\* GET_PROP and STORE_PROP have a key as their literal.  None stands for
\* "[index]": the key is an operand.  (No program here has it as a key.)
ByIndex(i) == i.lit = None

Instruction == [op : Opcode, lit : Literal, depth : Nat, slot : Nat, name : Name,
                argc : Nat, target : Nat]

\* How many operands an instruction takes.  RETURN takes none it must have.
Operands(i) ==
  CASE i.op \in BinaryOps -> 2
    [] i.op \in UnaryOps \cup {"STORE_LOCAL", "STORE_GLOBAL", "JUMP_IF_FALSE", "POP"} -> 1
    [] i.op = "GET_PROP" -> IF ByIndex(i) THEN 2 ELSE 1
    [] i.op = "STORE_PROP" -> IF ByIndex(i) THEN 3 ELSE 2
    [] i.op = "CALL" -> i.argc + (IF i.name = Dynamic THEN 1 ELSE 0)
    [] OTHER -> 0

Plain(op) == [Blank EXCEPT !.op = op]
Push(a) == [Blank EXCEPT !.op = "PUSH_LITERAL", !.lit = a]
StoreLocal(d, s) == [Blank EXCEPT !.op = "STORE_LOCAL", !.depth = d, !.slot = s]
LoadGlobal(x) == [Blank EXCEPT !.op = "LOAD_GLOBAL", !.name = x]
StoreGlobal(x) == [Blank EXCEPT !.op = "STORE_GLOBAL", !.name = x]
GetKey(k) == [Blank EXCEPT !.op = "GET_PROP", !.lit = k]
StoreKey(k) == [Blank EXCEPT !.op = "STORE_PROP", !.lit = k]
Jump(i) == [Blank EXCEPT !.op = "JUMP", !.target = i]
JumpIfFalse(i) == [Blank EXCEPT !.op = "JUMP_IF_FALSE", !.target = i]
MakeClosure(f) == [Blank EXCEPT !.op = "MAKE_CLOSURE", !.name = f]
Call(f, n) == [Blank EXCEPT !.op = "CALL", !.name = f, !.argc = n]

\* Instructions of the register machine (US2Instruction).  A register is
\* named by the distance of its frame and its index.
Ref(d, i) == [depth |-> d, index |-> i]

ValueRef == [depth : Nat, index : Nat]

Opcode2 == BinaryOps \cup UnaryOps \cup
  {"NOP", "MOVE", "LOADK", "LOAD_GLOBAL", "STORE_GLOBAL", "GET_PROP", "STORE_PROP",
   "MAKE_CLOSURE", "JUMP", "JUMP_IF_FALSE", "CALL", "RETURN"}

Instruction2 == [op : Opcode2, dst : ValueRef, a : ValueRef, b : ValueRef,
                 lit : Literal, name : Name, argc : Nat, target : Nat \cup {-1}]

Blank2 == [op |-> "NOP", dst |-> Ref(0, 0), a |-> Ref(0, 0), b |-> Ref(0, 0),
           lit |-> None, name |-> "", argc |-> 0, target |-> -1]

\* The registers that o reads in its own frame.
Reads(o) ==
  CASE o.op \in BinaryOps -> {o.a.index, o.b.index}
    [] o.op \in UnaryOps \cup {"JUMP_IF_FALSE", "STORE_GLOBAL", "RETURN"} -> {o.a.index}
    [] o.op = "MOVE" -> IF o.a.depth = 0 THEN {o.a.index} ELSE {}
    [] o.op = "GET_PROP" -> {o.a.index} \cup IF ByIndex(o) THEN {o.b.index} ELSE {}
    [] o.op = "STORE_PROP" ->
         {o.dst.index, o.a.index} \cup IF ByIndex(o) THEN {o.b.index} ELSE {}
    [] o.op = "CALL" /\ o.name = Dynamic ->
         {o.a.index} \cup (o.b.index .. o.b.index + o.argc - 1)
    [] o.op = "CALL" /\ o.name # Dynamic -> o.a.index .. o.a.index + o.argc - 1
    [] OTHER -> {}

\* And the one it writes.
Writes(o) ==
  IF o.op \in BinaryOps \cup UnaryOps \cup
       {"LOADK", "MOVE", "LOAD_GLOBAL", "MAKE_CLOSURE", "GET_PROP", "CALL"} /\ o.dst.depth = 0
    THEN {o.dst.index} ELSE {}
=============================================================================
