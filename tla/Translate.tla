----------------------------- MODULE Translate -----------------------------
(***************************************************************************)
(* compile_to_us2: one pass over the code of the stack machine.  How deep  *)
(* the operand stack is at each instruction is known, so that an operand   *)
(* becomes a register above the slots of the function.  A STORE_LOCAL      *)
(* emits no code if the instruction that defined its operand is known:     *)
(* that instruction is made to write the slot itself.                      *)
(***************************************************************************)
EXTENDS Bytecode

\* The functions to translate: [code, size, depth].  size is the number of
\* slots; depth[i] is how many slots and operands are in use before the i-th
\* instruction, at least, and is not known to the code.
CONSTANT Sources

Jumps == {"JUMP", "JUMP_IF_FALSE"}

\* What execute_function takes from its operand stack and puts there.
Pops(c) ==
  CASE c.op \in BinaryOps -> 2
    [] c.op \in UnaryOps \cup {"POP", "STORE_LOCAL", "STORE_GLOBAL", "JUMP_IF_FALSE",
                               "RETURN"} -> 1
    [] c.op = "GET_PROP" -> IF ByIndex(c) THEN 2 ELSE 1
    [] c.op = "STORE_PROP" -> IF ByIndex(c) THEN 3 ELSE 2
    [] c.op = "CALL" -> c.argc + (IF c.name = Dynamic THEN 1 ELSE 0)
    [] OTHER -> 0

Pushes(c) ==
  IF c.op \in BinaryOps \cup UnaryOps \cup
                {"PUSH_LITERAL", "LOAD_LOCAL", "LOAD_GLOBAL", "MAKE_CLOSURE", "GET_PROP",
                 "CALL", "RETURN"}
    THEN 1 ELSE 0

\* Jumps stay inside the code, slots inside the frame, and no instruction
\* pops what an earlier one did not push.
Verified(s) ==
  LET c == s.code
      targeted(i) == \E j \in 1 .. i - 1 : c[j].op \in Jumps /\ c[j].target = i - 1
  IN
  /\ s.depth \in [1 .. Len(c) + 1 -> Nat]
  /\ s.depth[1] <= s.size
  /\ \A i \in 1 .. Len(c) :
       /\ s.depth[i] >= s.size + Pops(c[i])
       /\ ~targeted(i + 1) => s.depth[i + 1] <= s.depth[i] - Pops(c[i]) + Pushes(c[i])
       /\ c[i].op \in {"LOAD_LOCAL", "STORE_LOCAL"} /\ c[i].depth = 0
            => c[i].slot < s.size
       /\ c[i].op \in Jumps => /\ c[i].target < Len(c)
                               /\ s.depth[c[i].target + 1] <= s.depth[i] - Pops(c[i])

ASSUME SourcesAssumption ==
  \A s \in Sources : s.code \in Seq(Instruction) /\ s.size \in Nat /\ Verified(s)

VARIABLES
  source,          \* the function being translated
  ip,              \* address of the next instruction
  next_slot,       \* slots.next_slot
  max_slot,        \* slots.max_slot
  code,            \* what is emitted
  last_def,        \* last_def[r + 1]: address of what defined register r, or -1
  slot_overrides,  \* next_slot at the targets of the jumps seen so far
  legacy_to_code,  \* legacy_to_code[i + 1]: where instruction i begins
  jumps,           \* pairs of the address of a jump and its target in legacy
  finished         \* the targets of the jumps are set

translation == <<source, ip, next_slot, max_slot, code, last_def, slot_overrides,
          legacy_to_code, jumps, finished>>

legacy == source.code
frame_size == source.size

Begin(s) ==
  /\ source = s
  /\ ip = 0
  /\ next_slot = s.size
  /\ max_slot = s.size
  /\ code = <<>>
  /\ last_def = [r \in 1 .. s.size |-> -1]
  /\ slot_overrides = <<>>
  /\ legacy_to_code = <<>>
  /\ jumps = {}
  /\ finished = FALSE

TranslateInit == \E s \in Sources : Begin(s)

-----------------------------------------------------------------------------
(* The allocator of registers and the table of definitions *)

Larger(m, n) == IF m > n THEN m ELSE n
Smaller(m, n) == IF m < n THEN m ELSE n

In == legacy[ip + 1]
At(ops) == ~finished /\ ip < Len(legacy) /\ In.op \in ops

\* next_slot and last_def when the instruction at ip is reached: where a
\* jump leads, they are what they were at the jump, with fewer operands if
\* several jumps disagree.
Start == IF ip \in DOMAIN slot_overrides THEN slot_overrides[ip] ELSE next_slot

Defs ==
  IF ip \in DOMAIN slot_overrides
    THEN [r \in 1 .. Start |-> IF r <= Len(last_def) THEN last_def[r] ELSE -1]
    ELSE last_def

\* StackSlotAllocator::pop: the register popped from a stack of n, and the
\* number left.
PopReg(n) == IF n <= 0 THEN -1 ELSE n - 1
Pop(n) == IF n <= 0 THEN n ELSE n - 1

Clear(defs, R) == [r \in DOMAIN defs |-> IF r - 1 \in R THEN -1 ELSE defs[r]]

Define(defs, r, i) ==
  [q \in 1 .. Larger(Len(defs), r + 1) |->
     IF q = r + 1 THEN i ELSE IF q <= Len(defs) THEN defs[q] ELSE -1]

\* Deviation: max_slot is raised by what an instruction finds only, not by
\* what it pushes.
AdvanceBeforePush(new, n, defs) ==
  /\ code' = new
  /\ next_slot' = n
  /\ max_slot' = Larger(max_slot, Start)
  /\ last_def' = defs
  /\ ip' = ip + 1
  /\ legacy_to_code' = Append(legacy_to_code, Len(code))
  /\ UNCHANGED <<source, finished>>

\* Deviation: only instructions that emit code are entered in legacy_to_code.
AdvanceEmitting(new, n, defs) ==
  /\ code' = new
  /\ next_slot' = n
  /\ max_slot' = Larger(Larger(max_slot, Start), n)
  /\ last_def' = defs
  /\ ip' = ip + 1
  /\ legacy_to_code' = IF new = code THEN legacy_to_code ELSE Append(legacy_to_code, Len(code))
  /\ UNCHANGED <<source, finished>>

\* The part common to all instructions: new is the code emitted so far, n
\* slots and operands are in use from now on.
Advance(new, n, defs) ==
  /\ code' = new
  /\ next_slot' = n
  /\ max_slot' = Larger(Larger(max_slot, Start), n)
  /\ last_def' = defs
  /\ ip' = ip + 1
  /\ legacy_to_code' = Append(legacy_to_code, Len(code))
  /\ UNCHANGED <<source, finished>>

Step(new, n, defs) == Advance(new, n, defs) /\ UNCHANGED <<slot_overrides, jumps>>

\* o yields a value when n slots and operands are left: it goes to register
\* n.  R are the registers popped.
Result(o, n, R) ==
  Step(Append(code, [o EXCEPT !.dst = Ref(0, n)]), n + 1,
       Define(Clear(Defs, R), n, Len(code)))

-----------------------------------------------------------------------------
(* The instructions *)

\* ENTER_SCOPE and EXIT_SCOPE leave no trace in the new code.
Scope ==
  /\ At({"ENTER_SCOPE", "EXIT_SCOPE"})
  /\ Step(code, Start, Defs)

Producer(c) ==
  CASE c.op = "PUSH_LITERAL" -> [Blank2 EXCEPT !.op = "LOADK", !.lit = c.lit]
    [] c.op = "LOAD_LOCAL" -> [Blank2 EXCEPT !.op = "MOVE", !.a = Ref(c.depth, c.slot)]
    [] OTHER -> [Blank2 EXCEPT !.op = c.op, !.name = c.name]

Produce ==
  /\ At({"PUSH_LITERAL", "LOAD_LOCAL", "LOAD_GLOBAL", "MAKE_CLOSURE"})
  /\ Result(Producer(In), Start, {})

TranslateUnary ==
  LET src == PopReg(Start) IN
  /\ At(UnaryOps)
  /\ Result([Blank2 EXCEPT !.op = In.op, !.a = Ref(0, src)], Pop(Start), {src})

\* The binary operators and GET_PROP "[index]".
TranslateBinary ==
  LET rhs == PopReg(Start)
      lhs == PopReg(Pop(Start))
  IN
  /\ At(BinaryOps \cup {"GET_PROP"}) /\ (In.op = "GET_PROP" => ByIndex(In))
  /\ Result([Blank2 EXCEPT !.op = In.op, !.a = Ref(0, lhs), !.b = Ref(0, rhs)],
            Pop(Pop(Start)), {lhs, rhs})

TranslateGetKey ==
  /\ At({"GET_PROP"}) /\ ~ByIndex(In)
  /\ Result([Blank2 EXCEPT !.op = "GET_PROP", !.a = Ref(0, PopReg(Start)), !.lit = In.lit],
            Pop(Start), {})

TranslatePop ==
  /\ At({"POP"})
  /\ Step(code, Pop(Start), Clear(Defs, {PopReg(Start)}))

\* The operand of STORE_LOCAL and what is known to have defined it.
StoreSrc == Larger(PopReg(Start), 0)
StoreDef == IF StoreSrc < Len(Defs) THEN Defs[StoreSrc + 1] ELSE -1

\* Deviation: the operand that is gone keeps its definition.
StoreLocalRewrittenKeepsSrc ==
  /\ At({"STORE_LOCAL"})
  /\ StoreDef \in 0 .. Len(code) - 1
  /\ Step([code EXCEPT ![StoreDef + 1].dst = Ref(In.depth, In.slot)], Pop(Start),
          [r \in DOMAIN Defs |-> IF r = In.slot + 1 THEN StoreDef ELSE Defs[r]])

\* The definition of the operand writes the slot instead.  In a function
\* inside another one the slot may belong to the outer one and last_def have
\* no entry for it: the write past its end is left out here.
StoreLocalRewritten ==
  /\ At({"STORE_LOCAL"})
  /\ StoreDef \in 0 .. Len(code) - 1
  /\ Step([code EXCEPT ![StoreDef + 1].dst = Ref(In.depth, In.slot)], Pop(Start),
          Clear([r \in DOMAIN Defs |-> IF r = In.slot + 1 THEN StoreDef ELSE Defs[r]],
                {StoreSrc}))

StoreLocalMoved ==
  /\ At({"STORE_LOCAL"})
  /\ StoreDef \notin 0 .. Len(code) - 1
  /\ Step(Append(code, [Blank2 EXCEPT !.op = "MOVE", !.dst = Ref(In.depth, In.slot),
                                      !.a = Ref(0, StoreSrc)]),
          Pop(Start), Define(Clear(Defs, {StoreSrc}), In.slot, Len(code)))

TranslateStoreGlobal ==
  LET src == Larger(PopReg(Start), 0) IN
  /\ At({"STORE_GLOBAL"})
  /\ Step(Append(code, [Blank2 EXCEPT !.op = "STORE_GLOBAL", !.name = In.name,
                                      !.a = Ref(0, src)]),
          Pop(Start), Clear(Defs, {src}))

\* STORE_PROP "[index]".
TranslateStoreProp ==
  LET value == PopReg(Start)
      idx == PopReg(Pop(Start))
      obj == PopReg(Pop(Pop(Start)))
  IN
  /\ At({"STORE_PROP"}) /\ ByIndex(In)
  /\ Step(Append(code, [Blank2 EXCEPT !.op = "STORE_PROP", !.dst = Ref(0, obj),
                                      !.a = Ref(0, value), !.b = Ref(0, idx)]),
          Pop(Pop(Pop(Start))), Clear(Defs, {value, idx, obj}))

\* The table keeps what it has for the register of the object.
TranslateStoreKey ==
  LET value == PopReg(Start)
      obj == PopReg(Pop(Start))
  IN
  /\ At({"STORE_PROP"}) /\ ~ByIndex(In)
  /\ Step(Append(code, [Blank2 EXCEPT !.op = "STORE_PROP", !.dst = Ref(0, obj),
                                      !.a = Ref(0, value), !.lit = In.lit]),
          Pop(Pop(Start)), Clear(Defs, {value}))

\* The arguments are in consecutive registers; below them lies the callable
\* of a dynamic call.
TranslateCall ==
  LET n == In.argc
      base == Larger(Start - n, 0)
      left == Start - n
      args == base .. base + n - 1
      callable == PopReg(left)
  IN
  /\ At({"CALL"})
  /\ IF In.name = Dynamic
       THEN Result([Blank2 EXCEPT !.op = "CALL", !.argc = n, !.name = Dynamic,
                      !.a = Ref(0, Larger(callable, 0)), !.b = Ref(0, base)],
                   Pop(left), args \cup {callable})
       ELSE Result([Blank2 EXCEPT !.op = "CALL", !.argc = n, !.name = In.name,
                      !.a = Ref(0, base)],
                   left, args)

\* RETURN looks at its operand and leaves it there.
TranslateReturn ==
  /\ At({"RETURN"})
  /\ Step(Append(code, [Blank2 EXCEPT !.op = "RETURN", !.a = Ref(0, Larger(Start - 1, 0))]),
          Start, Defs)

\* A jump is emitted with n slots and operands left.  Its target expects no
\* more than that.
EmitJump(o, n, defs) ==
  LET t == In.target IN
  /\ Advance(Append(code, [o EXCEPT !.target = t]), n, defs)
  /\ slot_overrides' =
       [i \in DOMAIN slot_overrides \cup {t} |->
          CASE i # t -> slot_overrides[i]
            [] i = t /\ t \in DOMAIN slot_overrides -> Smaller(slot_overrides[t], n)
            [] OTHER -> n]
  /\ jumps' = jumps \cup {<<Len(code), t>>}

TranslateJump ==
  /\ At({"JUMP"})
  /\ EmitJump([Blank2 EXCEPT !.op = "JUMP"], Start, Defs)

TranslateJumpIfFalse ==
  LET cond == PopReg(Start) IN
  /\ At({"JUMP_IF_FALSE"})
  /\ EmitJump([Blank2 EXCEPT !.op = "JUMP_IF_FALSE", !.a = Ref(0, cond)],
              Pop(Start), Clear(Defs, {cond}))

\* The last loop of compile_to_us2 turns addresses of instructions into
\* addresses of what was emitted for them.
\* Deviation: the targets stay addresses of the old code.
LandingInLegacy(t) == t
Landing(t) == IF t < Len(legacy_to_code) THEN legacy_to_code[t + 1] ELSE -1

FixJumps ==
  /\ ~finished /\ ip = Len(legacy)
  /\ code' = [i \in DOMAIN code |->
                IF \E j \in jumps : j[1] = i - 1
                  THEN [code[i] EXCEPT !.target = Landing(@)]
                  ELSE code[i]]
  /\ finished' = TRUE
  /\ UNCHANGED <<source, ip, next_slot, max_slot, last_def, slot_overrides,
                 legacy_to_code, jumps>>

TranslateNext ==
  \/ Scope \/ Produce \/ TranslateUnary \/ TranslateBinary \/ TranslateGetKey
  \/ TranslatePop \/ StoreLocalRewritten \/ StoreLocalMoved \/ TranslateStoreGlobal
  \/ TranslateStoreProp \/ TranslateStoreKey \/ TranslateCall \/ TranslateReturn
  \/ TranslateJump \/ TranslateJumpIfFalse \/ FixJumps

TranslateSpec == TranslateInit /\ [][TranslateNext]_translation

-----------------------------------------------------------------------------
(* Properties *)

TranslateTypeOK ==
  /\ source \in Sources
  /\ ip \in 0 .. Len(legacy)
  /\ next_slot \in Nat /\ max_slot \in Nat
  /\ code \in Seq(Instruction2)
  /\ last_def \in Seq(Nat \cup {-1})
  /\ DOMAIN slot_overrides \subseteq Nat
  /\ \A t \in DOMAIN slot_overrides : slot_overrides[t] \in Nat
  /\ legacy_to_code \in Seq(Nat) /\ Len(legacy_to_code) = ip
  /\ jumps \subseteq Nat \X Nat
  /\ finished \in BOOLEAN

\* frame_size of the result is max_slot: no instruction touches a register
\* beyond it, where the registers of the next frame begin (run() sizes
\* value_stack by frame_size), nor one before the frame.
RegistersInFrame ==
  \A i \in DOMAIN code : Reads(code[i]) \cup Writes(code[i]) \subseteq 0 .. max_slot - 1

\* When the jumps are set each leads to what was emitted for its target, and
\* into the code or to its end: run() refuses any other.
JumpsLand ==
  finished =>
    \A i \in DOMAIN code :
      code[i].op \in Jumps =>
        /\ code[i].target \in 0 .. Len(code)
        /\ \E t \in DOMAIN legacy :
             /\ code[i].target = legacy_to_code[t]
             /\ \E j \in DOMAIN legacy :
                  /\ legacy[j].op = code[i].op
                  /\ legacy[j].target = t - 1
                  /\ legacy_to_code[j] = i - 1

\* No instruction of c behind the one at address d writes register r.
LastToWrite(c, d, r) == \A i \in d + 2 .. Len(c) : r \notin Writes(c[i])

\* What last_def says is true of the code as it stands, however often other
\* stores have redirected its instructions: what it names for a register
\* writes that register, and for an operand it is the last instruction that
\* does, so that STORE_LOCAL redirects the definition that control reaches
\* the store from unless a jump leads in between.  (It does behind the first
\* branch of a conditional expression, which goes on writing the operand.  In
\* a function that stores to a slot of another one last_def mixes the slots
\* of both.)
DefinitionsHold ==
  (\A i \in DOMAIN legacy : legacy[i].op = "STORE_LOCAL" => legacy[i].depth = 0) =>
    \A r \in DOMAIN last_def :
      last_def[r] # -1 =>
        /\ last_def[r] < Len(code)
        /\ Writes(code[last_def[r] + 1]) = {r - 1}
        /\ r > frame_size => LastToWrite(code, last_def[r], r - 1)
=============================================================================
