--------------------------- MODULE PipelineProofs ---------------------------
(***************************************************************************)
(* Proofs about the two virtual machines running what the parser and the   *)
(* translator give them.  The code of each function keeps the promises of  *)
(* Verifier; the invariant says that every activation has the operands its *)
(* address asks for, and that its environment and those around it are of   *)
(* the functions that lie around its function.  On top of it: environments *)
(* mirror the registers, and registers are as many as the code touches.    *)
(* Whatever the machines hold is a value, because every array that a value *)
(* names exists and the code holds nothing but literals.                   *)
(***************************************************************************)
EXTENDS Pipeline, TranslateProofs, SequenceTheorems, WellFoundedInduction,
        FiniteSetTheorems

-----------------------------------------------------------------------------
(* The translation: calls and closures are those of the function           *)

Callers == {"CALL", "MAKE_CLOSURE"}

FoundIn(o, c) == \E i \in 1 .. Len(c) : c[i].op = o.op /\ c[i].name = o.name

CallsKept(new, c) ==
  \A i \in 1 .. Len(new) : new[i].op \in Callers => FoundIn(new[i], c)

LEMMA KeptAppended ==
  ASSUME IInv, CallsKept(code, legacy), UNCHANGED source,
         NEW o, o.op \in Callers => FoundIn(o, legacy),
         code' = Append(code, o)
  PROVE  CallsKept(code', legacy')
  <1>1. code \in Seq(Instruction2 \cup {o})
    BY DEF IInv, CodeHolds
  <1>2. /\ Len(code') = Len(code) + 1 /\ Len(code) \in Nat
        /\ code'[Len(code) + 1] = o
        /\ \A i \in 1 .. Len(code) : code'[i] = code[i]
    BY <1>1
  <1>3. legacy' = legacy
    BY DEF legacy
  <1> QED BY <1>2, <1>3 DEF CallsKept

LEMMA KeptUnchanged ==
  ASSUME CallsKept(code, legacy), UNCHANGED <<source, code>>
  PROVE  CallsKept(code', legacy')
  BY DEF CallsKept, legacy

LEMMA ResultKept ==
  ASSUME IInv, CallsKept(code, legacy), NEW o, NEW n, NEW popped, DOMAIN o = DOMAIN Blank2,
         o.op \in Callers => FoundIn(o, legacy),
         Result(o, n, popped)
  PROVE  CallsKept(code', legacy')
  <1> DEFINE new == [o EXCEPT !.dst = Ref(0, n)]
  <1>1. new.op = o.op /\ new.name = o.name
    BY DEF Blank2
  <1>2. code' = Append(code, new) /\ UNCHANGED source
    BY DEF Result, Step, Advance
  <1> HIDE DEF new
  <1> QED BY <1>1, <1>2, KeptAppended DEF FoundIn

LEMMA CurrentFound ==
  ASSUME IInv, NEW ops, At(ops)
  PROVE  In \in Instruction /\ FoundIn(In, legacy)
  <1>1. source.code \in Seq(Instruction)
    BY SourceType DEF IInv
  <1>2. ip + 1 \in 1 .. Len(legacy)
    BY <1>1 DEF IInv, At, legacy
  <1> QED BY <1>1, <1>2 DEF FoundIn, In, legacy

LEMMA NoCaller ==
  Callers \cap (BinaryOps \cup UnaryOps) = {}
  BY DEF Callers, BinaryOps, ArithmeticOps, ComparisonOps, UnaryOps

LEMMA TranslationKept ==
  ASSUME IInv, CallsKept(code, legacy), TranslateNext
  PROVE  CallsKept(code', legacy')
  <1>1. CASE Scope \/ TranslatePop
    BY <1>1, KeptUnchanged DEF Scope, TranslatePop, Step, Advance
  <1>2. CASE Produce
    <2>1. In \in Instruction /\ FoundIn(In, legacy)
      BY <1>2, CurrentFound DEF Produce
    <2>2. Producer(In).op \in Callers => Producer(In).op = In.op /\ Producer(In).name = In.name
      BY DEF Producer, Blank2, Callers
    <2>3. DOMAIN Producer(In) = DOMAIN Blank2
      BY DEF Producer, Blank2
    <2> QED BY <1>2, <2>1, <2>2, <2>3, ResultKept DEF Produce, FoundIn
  <1>3. CASE TranslateUnary
    <2> DEFINE o == [Blank2 EXCEPT !.op = In.op, !.a = Ref(0, PopReg(Start))]
    <2>1. DOMAIN o = DOMAIN Blank2 /\ o.op = In.op /\ In.op \in UnaryOps
      BY <1>3 DEF TranslateUnary, At, Blank2
    <2>2. o.op \notin Callers
      BY <2>1, NoCaller
    <2>3. Result(o, Pop(Start), {PopReg(Start)})
      BY <1>3 DEF TranslateUnary
    <2> QED BY <2>1, <2>2, <2>3, ResultKept
  <1>4. CASE TranslateBinary
    <2> DEFINE lhs == PopReg(Pop(Start))
               rhs == PopReg(Start)
               o == [Blank2 EXCEPT !.op = In.op, !.a = Ref(0, lhs), !.b = Ref(0, rhs)]
    <2>1. DOMAIN o = DOMAIN Blank2 /\ o.op = In.op /\ In.op \in BinaryOps \cup {"GET_PROP"}
      BY <1>4 DEF TranslateBinary, At, Blank2
    <2>2. o.op \notin Callers
      BY <2>1, NoCaller DEF Callers
    <2>3. Result(o, Pop(Pop(Start)), {lhs, rhs})
      BY <1>4 DEF TranslateBinary
    <2> QED BY <2>1, <2>2, <2>3, ResultKept
  <1>5. CASE TranslateGetKey
    <2> DEFINE o == [Blank2 EXCEPT !.op = "GET_PROP", !.a = Ref(0, PopReg(Start)), !.lit = In.lit]
    <2>1. DOMAIN o = DOMAIN Blank2 /\ o.op \notin Callers
      BY DEF Blank2, Callers
    <2>2. Result(o, Pop(Start), {})
      BY <1>5 DEF TranslateGetKey
    <2> QED BY <2>1, <2>2, ResultKept
  <1>6. CASE StoreLocalRewritten
    <2> DEFINE d == StoreDef + 1
    <2>1. /\ d \in 1 .. Len(code) /\ UNCHANGED source
          /\ code' = [code EXCEPT ![d].dst = Ref(In.depth, In.slot)]
      BY <1>6 DEF StoreLocalRewritten, Step, Advance, IInv, CodeHolds
    <2> HIDE DEF d
    <2>2. /\ Len(code') = Len(code)
          /\ \A i \in 1 .. Len(code) : code'[i].op = code[i].op /\ code'[i].name = code[i].name
      BY <2>1 DEF IInv, CodeHolds, Instruction2
    <2> QED BY <2>1, <2>2 DEF CallsKept, FoundIn, legacy
  <1>7. CASE StoreLocalMoved
    <2> DEFINE o == [Blank2 EXCEPT !.op = "MOVE", !.dst = Ref(In.depth, In.slot),
                                   !.a = Ref(0, StoreSrc)]
    <2>1. o.op \notin Callers
      BY DEF Blank2, Callers
    <2>2. code' = Append(code, o) /\ UNCHANGED source
      BY <1>7 DEF StoreLocalMoved, Step, Advance
    <2> QED BY <2>1, <2>2, KeptAppended
  <1>8. CASE TranslateStoreGlobal
    <2> DEFINE o == [Blank2 EXCEPT !.op = "STORE_GLOBAL", !.name = In.name,
                                   !.a = Ref(0, Larger(PopReg(Start), 0))]
    <2>1. o.op \notin Callers
      BY DEF Blank2, Callers
    <2>2. code' = Append(code, o) /\ UNCHANGED source
      BY <1>8 DEF TranslateStoreGlobal, Step, Advance
    <2> QED BY <2>1, <2>2, KeptAppended
  <1>9. CASE TranslateStoreProp
    <2> DEFINE o == [Blank2 EXCEPT !.op = "STORE_PROP", !.dst = Ref(0, PopReg(Pop(Pop(Start)))),
                                   !.a = Ref(0, PopReg(Start)), !.b = Ref(0, PopReg(Pop(Start)))]
    <2>1. o.op \notin Callers
      BY DEF Blank2, Callers
    <2>2. code' = Append(code, o) /\ UNCHANGED source
      BY <1>9 DEF TranslateStoreProp, Step, Advance
    <2> QED BY <2>1, <2>2, KeptAppended
  <1>10. CASE TranslateStoreKey
    <2> DEFINE o == [Blank2 EXCEPT !.op = "STORE_PROP", !.dst = Ref(0, PopReg(Pop(Start))),
                                   !.a = Ref(0, PopReg(Start)), !.lit = In.lit]
    <2>1. o.op \notin Callers
      BY DEF Blank2, Callers
    <2>2. code' = Append(code, o) /\ UNCHANGED source
      BY <1>10 DEF TranslateStoreKey, Step, Advance
    <2> QED BY <2>1, <2>2, KeptAppended
  <1>11. CASE TranslateCall
    <2> DEFINE n == In.argc
               base == Larger(Start - n, 0)
               left == Start - n
               args == base .. base + n - 1
               callable == PopReg(left)
               dynamic == [Blank2 EXCEPT !.op = "CALL", !.argc = n, !.name = Dynamic,
                             !.a = Ref(0, Larger(callable, 0)), !.b = Ref(0, base)]
               named == [Blank2 EXCEPT !.op = "CALL", !.argc = n, !.name = In.name,
                           !.a = Ref(0, base)]
    <2>1. /\ In.op = "CALL"
          /\ IF In.name = Dynamic THEN Result(dynamic, Pop(left), args \cup {callable})
             ELSE Result(named, left, args)
      BY <1>11 DEF TranslateCall, At
    <2>2. FoundIn(In, legacy)
      BY <1>11, CurrentFound DEF TranslateCall
    <2>3. dynamic.op = "CALL" /\ dynamic.name = Dynamic /\ named.op = "CALL" /\ named.name = In.name
          /\ DOMAIN dynamic = DOMAIN Blank2 /\ DOMAIN named = DOMAIN Blank2
      BY DEF Blank2
    <2> HIDE DEF dynamic, named, args, base, left, callable
    <2>4. CASE In.name = Dynamic
      BY <2>1, <2>2, <2>3, <2>4, ResultKept DEF FoundIn
    <2>5. CASE In.name # Dynamic
      BY <2>1, <2>2, <2>3, <2>5, ResultKept DEF FoundIn
    <2> QED BY <2>4, <2>5
  <1>12. CASE TranslateReturn
    <2> DEFINE o == [Blank2 EXCEPT !.op = "RETURN", !.a = Ref(0, Larger(Start - 1, 0))]
    <2>1. o.op \notin Callers
      BY DEF Blank2, Callers
    <2>2. code' = Append(code, o) /\ UNCHANGED source
      BY <1>12 DEF TranslateReturn, Step, Advance
    <2> QED BY <2>1, <2>2, KeptAppended
  <1>13. CASE TranslateJump
    <2> DEFINE o == [[Blank2 EXCEPT !.op = "JUMP"] EXCEPT !.target = In.target]
    <2>1. o.op \notin Callers
      BY DEF Blank2, Callers
    <2>2. code' = Append(code, o) /\ UNCHANGED source
      BY <1>13 DEF TranslateJump, EmitJump, Advance
    <2> QED BY <2>1, <2>2, KeptAppended
  <1>14. CASE TranslateJumpIfFalse
    <2> DEFINE o == [[Blank2 EXCEPT !.op = "JUMP_IF_FALSE", !.a = Ref(0, PopReg(Start))]
                       EXCEPT !.target = In.target]
    <2>1. o.op \notin Callers
      BY DEF Blank2, Callers
    <2>2. code' = Append(code, o) /\ UNCHANGED source
      BY <1>14 DEF TranslateJumpIfFalse, EmitJump, Advance
    <2> QED BY <2>1, <2>2, KeptAppended
  <1>15. CASE FixJumps
    <2>1. /\ UNCHANGED source /\ code \in Seq(Instruction2)
          /\ code' = [i \in DOMAIN code |->
                IF \E j \in jumps : j[1] = i - 1
                  THEN [code[i] EXCEPT !.target = Landing(@)]
                  ELSE code[i]]
      BY <1>15 DEF FixJumps, IInv, CodeHolds
    <2>2. DOMAIN code = 1 .. Len(code) /\ Len(code) \in Nat
      BY <2>1
    <2>3. Len(code') = Len(code)
      BY <2>1, <2>2
    <2>4. \A i \in 1 .. Len(code) : code'[i].op = code[i].op /\ code'[i].name = code[i].name
      BY <2>1, <2>2 DEF Instruction2
    <2> QED BY <2>1, <2>3, <2>4 DEF CallsKept, FoundIn, legacy
  <1> QED BY <1>1, <1>2, <1>3, <1>4, <1>5, <1>6, <1>7, <1>8, <1>9, <1>10, <1>11, <1>12, <1>13,
             <1>14, <1>15 DEF TranslateNext

-----------------------------------------------------------------------------
(* Sequences whose elements are anything *)

IsSeq(s) == s \in Seq({s[i] : i \in DOMAIN s})

LEMMA SeqIsSeq ==
  ASSUME NEW S, NEW s \in Seq(S)
  PROVE  IsSeq(s)
  <1>1. s \in [1 .. Len(s) -> {s[i] : i \in DOMAIN s}] /\ Len(s) \in Nat
    BY LenProperties
  <1> HIDE DEF IsSeq
  <1>2. s \in UNION {[1 .. n -> {s[i] : i \in DOMAIN s}] : n \in Nat}
    BY <1>1
  <1> QED BY <1>2, SeqDef DEF IsSeq

LEMMA IsSeqLen ==
  ASSUME NEW s, IsSeq(s)
  PROVE  Len(s) \in Nat /\ DOMAIN s = 1 .. Len(s)
  BY DEF IsSeq

LEMMA IsSeqMade ==
  ASSUME NEW s, NEW n \in Nat, DOMAIN s = 1 .. n, s = [i \in 1 .. n |-> s[i]]
  PROVE  IsSeq(s) /\ Len(s) = n
  <1>1. s \in [1 .. n -> {s[i] : i \in DOMAIN s}]
    OBVIOUS
  <1>2. s \in Seq({s[i] : i \in DOMAIN s})
    BY <1>1, SeqDef
  <1> QED BY <1>1, <1>2 DEF IsSeq

LEMMA IsSeqAppend ==
  ASSUME NEW s, IsSeq(s), NEW x
  PROVE  /\ IsSeq(Append(s, x)) /\ Len(Append(s, x)) = Len(s) + 1
         /\ Append(s, x)[Len(s) + 1] = x
         /\ \A i \in 1 .. Len(s) : Append(s, x)[i] = s[i]
  <1> DEFINE S == {s[i] : i \in DOMAIN s} \cup {x}
  <1>1. s \in Seq(S) /\ x \in S
    BY SeqMonotonic DEF IsSeq
  <1> HIDE DEF S
  <1>2. Append(s, x) \in Seq(S)
    BY <1>1, AppendProperties
  <1>3. IsSeq(Append(s, x))
    BY <1>2, SeqIsSeq
  <1> QED BY <1>1, <1>3, AppendProperties

LEMMA IsSeqFront ==
  ASSUME NEW s, IsSeq(s), NEW n \in 0 .. Len(s)
  PROVE  /\ IsSeq(SubSeq(s, 1, n)) /\ Len(SubSeq(s, 1, n)) = n
         /\ \A i \in 1 .. n : SubSeq(s, 1, n)[i] = s[i]
  <1> DEFINE S == {s[i] : i \in DOMAIN s}
  <1>1. Len(s) \in Nat /\ \A i \in 1 .. n : s[i] \in S
    BY IsSeqLen
  <1> HIDE DEF S
  <1>2. /\ SubSeq(s, 1, n) \in Seq(S)
        /\ Len(SubSeq(s, 1, n)) = n
        /\ \A i \in 1 .. n : SubSeq(s, 1, n)[i] = s[i]
    BY <1>1, SubSeqProperties
  <1> QED BY <1>2, SeqIsSeq

\* By this name the provers recognize it.
Replaced(s, k, x) == [s EXCEPT ![k] = x]

LEMMA IsSeqReplaced ==
  ASSUME NEW s, IsSeq(s), NEW k, NEW x
  PROVE  /\ IsSeq(Replaced(s, k, x)) /\ Len(Replaced(s, k, x)) = Len(s)
         /\ \A i \in 1 .. Len(s) : Replaced(s, k, x)[i] = IF i = k THEN x ELSE s[i]
  <1> DEFINE t == [s EXCEPT ![k] = x]
  <1>1. Len(s) \in Nat /\ DOMAIN s = 1 .. Len(s)
    BY IsSeqLen
  <1>2. t = [i \in DOMAIN s |-> IF i = k THEN x ELSE s[i]]
    OBVIOUS
  <1>3. DOMAIN t = 1 .. Len(s) /\ t = [i \in 1 .. Len(s) |-> t[i]]
    BY <1>1, <1>2
  <1>4. \A i \in 1 .. Len(s) : t[i] = IF i = k THEN x ELSE s[i]
    BY <1>1, <1>2
  <1> HIDE DEF t
  <1>5. IsSeq(t) /\ Len(t) = Len(s)
    BY <1>1, <1>3, IsSeqMade
  <1>6. t = Replaced(s, k, x)
    BY DEF t, Replaced
  <1> QED BY <1>4, <1>5, <1>6

-----------------------------------------------------------------------------
(* The invariant of the machines *)

\* The code of both machines is what the parser and the translator promise.
TranslatedFits ==
  \A n \in DOMAIN functions_v2 :
    /\ n \in DOMAIN instructions
    /\ functions_v2[n].frame_size \in Nat
    /\ functions_v2[n].frame_size >= instructions[n].size
    /\ IsSeq(functions_v2[n].code)
    /\ CallsKept(functions_v2[n].code, instructions[n].code)

CodeFits == Checked(instructions) /\ TranslatedFits

\* own[e] is the function whose activation environment e was made for.  It
\* has the slots of that function, and its parent is of the function around.
EnvFits(v, n, own) ==
  /\ DOMAIN v = {"parent", "slots"}
  /\ IsSeq(v.slots) /\ Len(v.slots) >= instructions[n].size
  /\ Len(instructions[n].around) > 1 =>
       v.parent \in DOMAIN own /\ own[v.parent] = instructions[n].around[2]

EnvsFit(es, own) ==
  /\ IsSeq(es)
  /\ own \in [1 .. Len(es) -> DOMAIN instructions]
  /\ \A e \in 1 .. Len(es) : EnvFits(es[e], own[e], own)

\* A function value has an environment of the function around it.
ClosureFits(c, own) ==
  /\ c.name \in DOMAIN instructions
  /\ c.env \in DOMAIN own
  /\ instructions[c.name].around = <<c.name>> \o instructions[own[c.env]].around

ClosuresFit(cs, own) == IsSeq(cs) /\ \A i \in 1 .. Len(cs) : ClosureFits(cs[i], own)

\* An activation has as many operands as its address asks for, when k more
\* are still to come from the activation above it.
FrameFits(f, k, own) ==
  /\ DOMAIN f = {"vm", "fn", "ip", "env", "vals", "dst", "args", "site"}
  /\ f.fn \in DOMAIN instructions
  /\ f.env \in DOMAIN own /\ own[f.env] = f.fn
  /\ f.site # "other" => f.fn \in Outermost(instructions)
  /\ \/ /\ f.vm = "stack"
        /\ IsSeq(f.vals)
        /\ f.ip \in 0 .. Len(instructions[f.fn].code)
        /\ instructions[f.fn].operands[f.ip] = Len(f.vals) + k
     \/ /\ f.vm = "register"
        /\ f.ip \in Nat
        /\ f.fn \in DOMAIN functions_v2 \cap Outermost(instructions)

\* Only the topmost one waits for none; the register machine lies below.
FramesFit(fs, own) ==
  /\ IsSeq(fs)
  /\ \A i \in 1 .. Len(fs) :
       /\ FrameFits(fs[i], IF i = Len(fs) THEN 0 ELSE 1, own)
       /\ fs[i].vm = "register" => \A j \in 1 .. i : fs[j].vm = "register"

Fits(own) == EnvsFit(envs, own) /\ ClosuresFit(closures, own) /\ FramesFit(frames, own)

-----------------------------------------------------------------------------
(* Environments come and change *)

LEMMA SlotChanged ==
  ASSUME NEW es, NEW own, EnvsFit(es, own), NEW e, NEW k, NEW a
  PROVE  EnvsFit([es EXCEPT ![e].slots[k] = a], own)
  <1> DEFINE new == [es EXCEPT ![e].slots[k] = a]
             v == [es[e] EXCEPT !.slots = [es[e].slots EXCEPT ![k] = a]]
  <1>1. IsSeq(es) /\ Len(es) \in Nat /\ DOMAIN es = 1 .. Len(es)
    BY IsSeqLen DEF EnvsFit
  <1>2. CASE e \notin 1 .. Len(es)
    <2>1. es = [i \in 1 .. Len(es) |-> es[i]]
      BY <1>1, LenProperties DEF IsSeq
    <2>2. new = [i \in 1 .. Len(es) |-> es[i]]
      BY <1>1, <1>2
    <2> QED BY <2>1, <2>2
  <1>3. CASE e \in 1 .. Len(es)
    <2>1. EnvFits(es[e], own[e], own)
      BY <1>3 DEF EnvsFit
    <2>2. DOMAIN v = {"parent", "slots"} /\ v.parent = es[e].parent
          /\ v.slots = [es[e].slots EXCEPT ![k] = a]
      BY <2>1 DEF EnvFits
    <2>3. v.slots = Replaced(es[e].slots, k, a)
      BY <2>2 DEF Replaced
    <2>4. new = [es EXCEPT ![e] = v]
      OBVIOUS
    <2>5. new = Replaced(es, e, v)
      BY <2>4 DEF Replaced
    <2> HIDE DEF v, new
    <2>6. IsSeq(v.slots) /\ Len(v.slots) = Len(es[e].slots)
      BY <2>1, <2>3, IsSeqReplaced DEF EnvFits
    <2>7. EnvFits(v, own[e], own)
      BY <2>1, <2>2, <2>6 DEF EnvFits
    <2>8. IsSeq(new) /\ Len(new) = Len(es)
          /\ \A i \in 1 .. Len(es) : new[i] = IF i = e THEN v ELSE es[i]
      BY <1>1, <2>5, IsSeqReplaced
    <2> QED BY <2>7, <2>8 DEF EnvsFit, new
  <1> QED BY <1>2, <1>3

\* A new environment is of function n; what there was stays as it was.
Owned(own, n, m) == [e \in 1 .. m |-> IF e = m THEN n ELSE own[e]]

LEMMA EnvAppended ==
  ASSUME NEW es, NEW own, EnvsFit(es, own), NEW n \in DOMAIN instructions, NEW v,
         EnvFits(v, n, own)
  PROVE  /\ EnvsFit(Append(es, v), Owned(own, n, Len(es) + 1))
         /\ Len(es) \in Nat
         /\ Len(es) + 1 \in DOMAIN Owned(own, n, Len(es) + 1)
         /\ Owned(own, n, Len(es) + 1)[Len(es) + 1] = n
         /\ \A e \in DOMAIN own : /\ e \in DOMAIN Owned(own, n, Len(es) + 1)
                                  /\ Owned(own, n, Len(es) + 1)[e] = own[e]
  <1> DEFINE own2 == Owned(own, n, Len(es) + 1)
             new == Append(es, v)
  <1>1. Len(es) \in Nat /\ IsSeq(es) /\ DOMAIN own = 1 .. Len(es)
    BY IsSeqLen DEF EnvsFit
  <1>2. /\ own2 \in [1 .. Len(es) + 1 -> DOMAIN instructions]
        /\ own2[Len(es) + 1] = n /\ \A e \in 1 .. Len(es) : own2[e] = own[e]
    BY <1>1 DEF EnvsFit, Owned
  <1>3. IsSeq(new) /\ Len(new) = Len(es) + 1 /\ new[Len(es) + 1] = v
        /\ \A i \in 1 .. Len(es) : new[i] = es[i]
    BY <1>1, IsSeqAppend
  <1> HIDE DEF own2, new
  <1>4. \A w, m : EnvFits(w, m, own) => EnvFits(w, m, own2)
    BY <1>1, <1>2 DEF EnvFits
  <1>5. EnvsFit(new, own2)
    BY <1>1, <1>2, <1>3, <1>4 DEF EnvsFit
  <1> QED BY <1>1, <1>2, <1>5 DEF own2, new

LEMMA OwnersExtended ==
  ASSUME NEW own, NEW own2,
         \A e \in DOMAIN own : e \in DOMAIN own2 /\ own2[e] = own[e]
  PROVE  /\ \A cs : ClosuresFit(cs, own) => ClosuresFit(cs, own2)
         /\ \A f, k : FrameFits(f, k, own) => FrameFits(f, k, own2)
         /\ \A fs : FramesFit(fs, own) => FramesFit(fs, own2)
  <1>1. \A c : ClosureFits(c, own) => ClosureFits(c, own2)
    BY DEF ClosureFits
  <1>2. \A cs : ClosuresFit(cs, own) => ClosuresFit(cs, own2)
    BY <1>1 DEF ClosuresFit
  <1>3. \A f, k : FrameFits(f, k, own) => FrameFits(f, k, own2)
    BY DEF FrameFits
  <1>4. \A fs : FramesFit(fs, own) => FramesFit(fs, own2)
    BY <1>3 DEF FramesFit
  <1> QED BY <1>2, <1>3, <1>4

-----------------------------------------------------------------------------
(* Activations come and go *)

LEMMA TopReplaced ==
  ASSUME NEW fs, NEW own, FramesFit(fs, own), fs # <<>>,
         NEW g, g.vm = fs[Len(fs)].vm, FrameFits(g, 0, own)
  PROVE  FramesFit(Replaced(fs, Len(fs), g), own)
  <1> DEFINE new == Replaced(fs, Len(fs), g)
  <1>1. IsSeq(fs)
    BY DEF FramesFit
  <1>2. /\ IsSeq(new) /\ Len(new) = Len(fs)
        /\ \A i \in 1 .. Len(fs) : new[i] = IF i = Len(fs) THEN g ELSE fs[i]
    BY <1>1, IsSeqReplaced
  <1>3. Len(fs) \in Nat
    BY <1>1, IsSeqLen
  <1> HIDE DEF new
  <1>4. \A i \in 1 .. Len(fs) : new[i].vm = fs[i].vm
    BY <1>2
  <1> QED BY <1>2, <1>3, <1>4 DEF FramesFit, new

LEMMA FramePushed ==
  ASSUME NEW fs, NEW own, FramesFit(fs, own), fs # <<>>,
         NEW g, g.vm = fs[Len(fs)].vm, FrameFits(g, 1, own),
         NEW h, FrameFits(h, 0, own), h.vm = "register" => g.vm = "register"
  PROVE  FramesFit(Append(Replaced(fs, Len(fs), g), h), own)
  <1> DEFINE low == Replaced(fs, Len(fs), g)
             new == Append(low, h)
  <1>1. IsSeq(fs)
    BY DEF FramesFit
  <1>2. /\ IsSeq(low) /\ Len(low) = Len(fs)
        /\ \A i \in 1 .. Len(fs) : low[i] = IF i = Len(fs) THEN g ELSE fs[i]
    BY <1>1, IsSeqReplaced
  <1>3. Len(fs) \in Nat /\ Len(fs) # 0
    BY <1>1, IsSeqLen DEF IsSeq
  <1> HIDE DEF low
  <1>4. /\ IsSeq(new) /\ Len(new) = Len(fs) + 1 /\ new[Len(fs) + 1] = h
        /\ \A i \in 1 .. Len(fs) : new[i] = low[i]
    BY <1>2, IsSeqAppend
  <1> HIDE DEF new
  <1>5. \A i \in 1 .. Len(fs) : new[i].vm = fs[i].vm
    BY <1>2, <1>4
  <1>6. \A i \in 1 .. Len(fs) : FrameFits(new[i], 1, own)
    BY <1>2, <1>3, <1>4 DEF FramesFit
  <1>7. h.vm = "register" => \A i \in 1 .. Len(fs) : new[i].vm = "register"
    BY <1>3, <1>5 DEF FramesFit
  <1>8. \A i \in 1 .. Len(fs) : new[i].vm = "register" => \A j \in 1 .. i : new[j].vm = "register"
    BY <1>3, <1>5 DEF FramesFit
  <1> QED BY <1>3, <1>4, <1>6, <1>7, <1>8 DEF FramesFit, new, low

\* The topmost activations are gone; the one that is on top now goes on.
LEMMA FramePopped ==
  ASSUME NEW fs, NEW own, FramesFit(fs, own), NEW n \in 1 .. Len(fs) - 1,
         NEW g, g.vm = fs[n].vm, FrameFits(g, 0, own)
  PROVE  FramesFit(Replaced(SubSeq(fs, 1, n), n, g), own)
  <1> DEFINE low == SubSeq(fs, 1, n)
             new == Replaced(low, n, g)
  <1>1. IsSeq(fs) /\ Len(fs) \in Nat
    BY IsSeqLen DEF FramesFit
  <1>2. IsSeq(low) /\ Len(low) = n /\ \A i \in 1 .. n : low[i] = fs[i]
    BY <1>1, IsSeqFront
  <1> HIDE DEF low
  <1>3. IsSeq(new) /\ Len(new) = n /\ \A i \in 1 .. n : new[i] = IF i = n THEN g ELSE low[i]
    <2>1. IsSeq(new) /\ Len(new) = Len(low)
          /\ \A i \in 1 .. Len(low) : new[i] = IF i = n THEN g ELSE low[i]
      BY <1>2, IsSeqReplaced
    <2> HIDE DEF new
    <2> QED BY <1>2, <2>1
  <1> HIDE DEF new
  <1>4. \A i \in 1 .. n : new[i].vm = fs[i].vm
    BY <1>2, <1>3
  <1>5. \A i \in 1 .. n : FrameFits(new[i], IF i = n THEN 0 ELSE 1, own)
    BY <1>1, <1>2, <1>3 DEF FramesFit
  <1>6. \A i \in 1 .. n : new[i].vm = "register" => \A j \in 1 .. i : new[j].vm = "register"
    BY <1>1, <1>4 DEF FramesFit
  <1> QED BY <1>3, <1>5, <1>6 DEF FramesFit, new, low

\* The topmost activations are gone and another one begins instead.
LEMMA FrameRestarted ==
  ASSUME NEW fs, NEW own, FramesFit(fs, own), NEW n \in 0 .. Len(fs) - 1,
         NEW h, h.vm = "stack", FrameFits(h, 0, own)
  PROVE  FramesFit(Append(SubSeq(fs, 1, n), h), own)
  <1> DEFINE low == SubSeq(fs, 1, n)
             new == Append(low, h)
  <1>1. IsSeq(fs) /\ Len(fs) \in Nat
    BY IsSeqLen DEF FramesFit
  <1>2. IsSeq(low) /\ Len(low) = n /\ \A i \in 1 .. n : low[i] = fs[i]
    BY <1>1, IsSeqFront
  <1> HIDE DEF low
  <1>3. /\ IsSeq(new) /\ Len(new) = n + 1 /\ new[n + 1] = h
        /\ \A i \in 1 .. n : new[i] = fs[i]
    BY <1>2, IsSeqAppend
  <1> HIDE DEF new
  <1>4. \A i \in 1 .. n : FrameFits(new[i], 1, own)
    BY <1>1, <1>3 DEF FramesFit
  <1>5. \A i \in 1 .. n : new[i].vm = "register" => \A j \in 1 .. i : new[j].vm = "register"
    BY <1>1, <1>3 DEF FramesFit
  <1>6. "stack" # "register"
    OBVIOUS
  <1> QED BY <1>1, <1>3, <1>4, <1>5, <1>6 DEF FramesFit, new, low

LEMMA NoFrames == ASSUME NEW own PROVE FramesFit(<<>>, own)
  <1>1. <<>> \in Seq({}) /\ Len(<<>>) = 0
    OBVIOUS
  <1>2. IsSeq(<<>>)
    BY <1>1, SeqIsSeq
  <1> QED BY <1>1, <1>2 DEF FramesFit

LEMMA OneFrame ==
  ASSUME NEW own, NEW h, FrameFits(h, 0, own)
  PROVE  FramesFit(<<h>>, own)
  <1>1. <<h>> \in Seq({h}) /\ Len(<<h>>) = 1 /\ <<h>>[1] = h
    OBVIOUS
  <1>2. IsSeq(<<h>>)
    BY <1>1, SeqIsSeq
  <1> QED BY <1>1, <1>2 DEF FramesFit

\* The activation on top, and what Continue makes of it.
LEMMA TopFits ==
  ASSUME NEW own, FramesFit(frames, own), frames # <<>>
  PROVE  /\ FrameFits(Top, 0, own) /\ Len(frames) \in Nat \ {0}
         /\ DOMAIN frames = 1 .. Len(frames)
         /\ Top.vm = "register" => \A i \in 1 .. Len(frames) : frames[i].vm = "register"
  <1>1. IsSeq(frames) /\ Len(frames) \in Nat /\ DOMAIN frames = 1 .. Len(frames)
    BY IsSeqLen DEF FramesFit
  <1>2. Len(frames) # 0
    BY <1>1 DEF IsSeq
  <1>3. Len(frames) \in 1 .. Len(frames)
    BY <1>1, <1>2
  <1> QED BY <1>1, <1>2, <1>3 DEF FramesFit, Top

\* Replaced, for the top activation.
OnTop(vals, k) == [Top EXCEPT !.vals = vals, !.ip = k]

LEMMA Continued ==
  ASSUME NEW own, FramesFit(frames, own), frames # <<>>, NEW vals, NEW k
  PROVE  /\ Continue(vals, k) = Replaced(frames, Len(frames), OnTop(vals, k))
         /\ OnTop(vals, k).vm = Top.vm /\ OnTop(vals, k).fn = Top.fn
         /\ OnTop(vals, k).env = Top.env /\ OnTop(vals, k).site = Top.site
         /\ OnTop(vals, k).vals = vals /\ OnTop(vals, k).ip = k
         /\ DOMAIN OnTop(vals, k) = DOMAIN Top
  <1>1. FrameFits(Top, 0, own) /\ Len(frames) \in DOMAIN frames
    BY TopFits
  <1>2. Continue(vals, k) = Replaced(frames, Len(frames), OnTop(vals, k))
    BY <1>1 DEF Continue, Top, Replaced, OnTop
  <1>3. DOMAIN Top = {"vm", "fn", "ip", "env", "vals", "dst", "args", "site"}
    BY <1>1 DEF FrameFits
  <1> QED BY <1>2, <1>3 DEF OnTop

-----------------------------------------------------------------------------
(* The chain of environments *)

\* A non-empty set of numbers has a least element.
LEMMA LeastOf ==
  ASSUME NEW T \in SUBSET Nat, T # {}
  PROVE  \E d \in T : \A e \in T : d <= e
  <1> DEFINE less == {p \in Nat \X Nat : p[1] < p[2]}
  <1>1. IsWellFoundedOn(OpToRel(<, Nat), Nat)
    BY NatLessThanWellFounded
  <1>2. OpToRel(<, Nat) = less
    BY DEF OpToRel
  <1>3. IsWellFoundedOn(less, Nat)
    BY <1>1, <1>2
  <1>4. \E d \in T : \A e \in T : <<e, d>> \notin less
    <2> HIDE DEF less
    <2> QED BY <1>3, WFMin
  <1>5. PICK d \in T : \A e \in T : <<e, d>> \notin less
    BY <1>4
  <1>6. ASSUME NEW e \in T PROVE d <= e
    <2>1. d \in Nat /\ e \in Nat /\ <<e, d>> \in Nat \X Nat
      OBVIOUS
    <2>2. ~(<<e, d>>[1] < <<e, d>>[2])
      BY <1>5, <2>1
    <2> QED BY <2>1, <2>2
  <1> QED BY <1>6

\* The environments that EnvAt steps through.
IsUp(up, d) ==
  up = [i \in 0 .. d |-> IF i = 0 THEN Top.env
                         ELSE IF up[i - 1] = 0 THEN 0 ELSE envs[up[i - 1]].parent]

LEMMA UpExists ==
  ASSUME NEW d \in Nat
  PROVE  \E up : IsUp(up, d)
  <1> SUFFICES ASSUME ~ \E up : IsUp(up, d) PROVE FALSE
    OBVIOUS
  <1>1. PICK m \in Nat :
          (~ \E up : IsUp(up, m)) /\ \A k \in Nat : (~ \E up : IsUp(up, k)) => m <= k
    BY LeastOf, {n \in Nat : ~ \E up : IsUp(up, n)} # {}
  <1>2. m # 0
    <2>1. IsUp([i \in 0 .. 0 |-> Top.env], 0)
      BY DEF IsUp
    <2> QED BY <1>1, <2>1
  <1>3. PICK up : IsUp(up, m - 1)
    BY <1>1, <1>2
  <1> DEFINE w == [i \in 0 .. m |->
                     IF i = m THEN IF up[m - 1] = 0 THEN 0 ELSE envs[up[m - 1]].parent
                     ELSE up[i]]
  <1>4. IsUp(w, m)
    <2>1. \A i \in 0 .. m - 1 :
            up[i] = IF i = 0 THEN Top.env
                    ELSE IF up[i - 1] = 0 THEN 0 ELSE envs[up[i - 1]].parent
      BY <1>3 DEF IsUp
    <2>2. \A i \in 0 .. m :
            w[i] = IF i = 0 THEN Top.env
                   ELSE IF w[i - 1] = 0 THEN 0 ELSE envs[w[i - 1]].parent
      BY <1>1, <1>2, <2>1
    <2>3. w = [i \in 0 .. m |-> IF i = 0 THEN Top.env
                                ELSE IF w[i - 1] = 0 THEN 0 ELSE envs[w[i - 1]].parent]
      BY <2>2
    <2> QED BY <2>3 DEF IsUp
  <1> QED BY <1>1, <1>4

LEMMA EnvAtIsUp ==
  ASSUME NEW d \in Nat
  PROVE  \E up : IsUp(up, d) /\ EnvAt(d) = up[d]
  <1> DEFINE up == CHOOSE up : IsUp(up, d)
  <1>1. IsUp(up, d)
    BY UpExists
  <1>2. EnvAt(d) = up[d]
    BY DEF EnvAt, IsUp
  <1> QED BY <1>1, <1>2

LEMMA CheckedFunction ==
  ASSUME CodeFits, NEW n \in DOMAIN instructions
  PROVE  /\ n # Dynamic
         /\ instructions[n].code \in Seq(Instruction) /\ instructions[n].size \in Nat
         /\ instructions[n].params \in Nat /\ instructions[n].variadic \in BOOLEAN
         /\ Balanced(instructions[n]) /\ Scoped(instructions, n)
         /\ instructions[n].around \in Seq(DOMAIN instructions)
         /\ Len(instructions[n].around) \in Nat \ {0}
         /\ instructions[n].around[1] = n
         /\ \A k \in 1 .. Len(instructions[n].around) :
              instructions[instructions[n].around[k]].around =
                SubSeq(instructions[n].around, k, Len(instructions[n].around))
  <1>1. /\ n # Dynamic
        /\ instructions[n].code \in Seq(Instruction) /\ instructions[n].size \in Nat
        /\ instructions[n].params \in Nat /\ instructions[n].variadic \in BOOLEAN
        /\ Balanced(instructions[n]) /\ Scoped(instructions, n)
    BY DEF CodeFits, Checked
  <1>2. /\ instructions[n].around \in Seq(DOMAIN instructions)
        /\ Len(instructions[n].around) > 0
        /\ instructions[n].around[1] = n
        /\ \A k \in 1 .. Len(instructions[n].around) :
             instructions[instructions[n].around[k]].around =
               SubSeq(instructions[n].around, k, Len(instructions[n].around))
    BY <1>1, Zenon DEF Scoped
  <1>3. Len(instructions[n].around) \in Nat \ {0}
    <2> DEFINE a == instructions[n].around
    <2>1. a \in Seq(DOMAIN instructions) /\ Len(a) > 0
      BY <1>2
    <2> HIDE DEF a
    <2>2. Len(a) \in Nat \ {0}
      BY <2>1
    <2> QED BY <2>2 DEF a
  <1> QED BY <1>1, <1>2, <1>3

\* The environment d steps out is of the d-th function around.
LEMMA ChainHolds ==
  ASSUME CodeFits, NEW own, EnvsFit(envs, own),
         Top.fn \in DOMAIN instructions, Top.env \in DOMAIN own, own[Top.env] = Top.fn,
         NEW d \in Nat, d < Len(instructions[Top.fn].around)
  PROVE  EnvAt(d) \in 1 .. Len(envs) /\ own[EnvAt(d)] = instructions[Top.fn].around[d + 1]
  <1> DEFINE a == instructions[Top.fn].around
  <1>1. PICK up : IsUp(up, d) /\ EnvAt(d) = up[d]
    BY EnvAtIsUp
  <1>2. /\ a \in Seq(DOMAIN instructions) /\ a[1] = Top.fn /\ Len(a) \in Nat
        /\ \A k \in 1 .. Len(a) : instructions[a[k]].around = SubSeq(a, k, Len(a))
        /\ d < Len(a)
    BY CheckedFunction
  <1>3. DOMAIN own = 1 .. Len(envs)
    BY DEF EnvsFit
  <1>4. /\ up[0] = Top.env
        /\ \A i \in 1 .. d : up[i] = IF up[i - 1] = 0 THEN 0 ELSE envs[up[i - 1]].parent
    BY <1>1 DEF IsUp
  <1> DEFINE Good(i) == up[i] \in DOMAIN own /\ own[up[i]] = a[i + 1]
  <1>5. Good(0)
    BY <1>2, <1>4
  <1>6. ASSUME NEW i \in 1 .. d, Good(i - 1) PROVE Good(i)
    <2>1. up[i - 1] \in 1 .. Len(envs) /\ up[i - 1] # 0
      BY <1>3, <1>6, IsSeqLen DEF EnvsFit
    <2>2. up[i] = envs[up[i - 1]].parent
      BY <1>4, <2>1
    <2> DEFINE n == own[up[i - 1]]
    <2>3. n = a[i] /\ i \in 1 .. Len(a)
      BY <1>6, <1>2
    <2>4. instructions[n].around = SubSeq(a, i, Len(a))
      BY <1>2, <2>3
    <2>5. Len(SubSeq(a, i, Len(a))) = Len(a) - i + 1 /\ SubSeq(a, i, Len(a))[2] = a[i + 1]
      BY <1>2, <2>3
    <2>6. EnvFits(envs[up[i - 1]], n, own)
      BY <2>1 DEF EnvsFit
    <2> HIDE DEF n, a
    <2>7. up[i] \in DOMAIN own /\ own[up[i]] = a[i + 1]
      BY <1>2, <2>2, <2>3, <2>4, <2>5, <2>6 DEF EnvFits
    <2> QED BY <2>7 DEF a
  <1> HIDE DEF a
  <1>7. Good(d)
    <2> SUFFICES ASSUME ~Good(d) PROVE FALSE
      OBVIOUS
    <2> HIDE DEF Good
    <2> DEFINE bad == {i \in 0 .. d : ~Good(i)}
    <2>1. bad \in SUBSET Nat /\ bad # {}
      OBVIOUS
    <2>2. PICK m \in bad : \A k \in bad : m <= k
      <3> HIDE DEF bad
      <3> QED BY <2>1, LeastOf
    <2>3. m # 0
      BY <1>5
    <2>4. Good(m - 1)
      BY <2>2, <2>3
    <2> QED BY <1>6, <2>2, <2>3, <2>4
  <1> QED BY <1>1, <1>3, <1>7 DEF a

-----------------------------------------------------------------------------
(* The stack machine: operands *)

LEMMA OperandsType ==
  ASSUME NEW i \in Instruction
  PROVE  Operands(i) \in Nat /\ Results(i) \in {0, 1}
  <1>1. i.argc \in Nat
    BY DEF Instruction
  <1> QED BY <1>1 DEF Operands, Results

LEMMA StackTop ==
  ASSUME CodeFits, NEW own, Fits(own), Running("stack")
  PROVE  /\ frames # <<>> /\ Top.vm = "stack" /\ Len(frames) \in Nat \ {0}
         /\ DOMAIN Top = {"vm", "fn", "ip", "env", "vals", "dst", "args", "site"}
         /\ Top.fn \in DOMAIN instructions /\ Top.env \in DOMAIN own /\ own[Top.env] = Top.fn
         /\ Top.site # "other" => Top.fn \in Outermost(instructions)
         /\ IsSeq(Top.vals) /\ Len(Top.vals) \in Nat
         /\ Top.ip \in 0 .. Len(SFunction.code)
         /\ SFunction.code \in Seq(Instruction) /\ Len(SFunction.code) \in Nat
         /\ SFunction.operands[Top.ip] = Len(Top.vals)
  <1>1. frames # <<>> /\ Top.vm = "stack"
    BY DEF Running
  <1>2. FrameFits(Top, 0, own) /\ Len(frames) \in Nat \ {0}
    BY <1>1, TopFits DEF Fits
  <1>3. IsSeq(Top.vals) /\ Len(Top.vals) \in Nat /\ Top.ip \in 0 .. Len(SFunction.code)
        /\ SFunction.operands[Top.ip] = Len(Top.vals)
    BY <1>1, <1>2, IsSeqLen DEF FrameFits, SFunction
  <1>4. Top.fn \in DOMAIN instructions
    BY <1>2 DEF FrameFits
  <1>5. SFunction.code \in Seq(Instruction)
    BY <1>4, CheckedFunction DEF SFunction
  <1>6. Len(SFunction.code) \in Nat
    BY <1>5
  <1> QED BY <1>1, <1>2, <1>3, <1>4, <1>5, <1>6 DEF FrameFits

\* What Verifier promises of the instruction that is next.
LEMMA StackNextIn ==
  ASSUME CodeFits, NEW own, Fits(own), Running("stack"), Top.ip < Len(SFunction.code)
  PROVE  /\ SIn \in Instruction /\ Operands(SIn) \in Nat /\ Results(SIn) \in {0, 1}
         /\ Len(Top.vals) >= Operands(SIn)
         /\ SIn.op = "RETURN" => Len(Top.vals) <= 1
         /\ \A k \in Successors(SFunction.code, Top.ip) :
              /\ k \in 0 .. Len(SFunction.code)
              /\ SFunction.operands[k] = After(SIn, Len(Top.vals))
  <1> DEFINE f == SFunction
  <1>1. /\ Top.fn \in DOMAIN instructions /\ Top.ip \in 0 .. Len(f.code) - 1
        /\ f.code \in Seq(Instruction) /\ Len(f.code) \in Nat
        /\ f.operands[Top.ip] = Len(Top.vals) /\ Len(Top.vals) \in Nat
    BY StackTop
  <1>2. Balanced(f)
    BY <1>1, CheckedFunction DEF SFunction
  <1>3. SIn = f.code[Top.ip + 1] /\ SIn \in Instruction
    BY <1>1 DEF SIn
  <1> HIDE DEF f
  <1>4. f.operands[Top.ip] # Unreached
    BY <1>1 DEF Unreached
  <1>5. /\ f.operands[Top.ip] >= Operands(f.code[Top.ip + 1])
        /\ f.code[Top.ip + 1].op = "RETURN" => f.operands[Top.ip] <= 1
        /\ \A j \in Successors(f.code, Top.ip) :
             /\ j \in 0 .. Len(f.code)
             /\ f.operands[j] = After(f.code[Top.ip + 1], f.operands[Top.ip])
    BY <1>1, <1>2, <1>4 DEF Balanced
  <1> QED BY <1>1, <1>3, <1>5, OperandsType DEF f

\* The activation goes on with the operands the instruction leaves.
LEMMA StepsOn ==
  ASSUME CodeFits, NEW own, Fits(own), Running("stack"), Top.ip < Len(SFunction.code),
         NEW k \in Successors(SFunction.code, Top.ip),
         NEW vals, IsSeq(vals), Len(vals) = After(SIn, Len(Top.vals))
  PROVE  FramesFit(Continue(vals, k), own)
  <1> DEFINE g == OnTop(vals, k)
  <1>1. /\ Continue(vals, k) = Replaced(frames, Len(frames), g)
        /\ g.vm = Top.vm /\ g.fn = Top.fn /\ g.env = Top.env /\ g.site = Top.site
        /\ g.vals = vals /\ g.ip = k /\ DOMAIN g = DOMAIN Top
    BY StackTop, Continued DEF Fits
  <1> HIDE DEF g
  <1>2. k \in 0 .. Len(SFunction.code) /\ SFunction.operands[k] = Len(vals) /\ Len(vals) \in Nat
    BY StackNextIn, IsSeqLen
  <1>3. FrameFits(g, 0, own)
    BY <1>1, <1>2, StackTop DEF FrameFits, SFunction
  <1> QED BY <1>1, <1>3, StackTop, TopReplaced DEF Fits, Top

LEMMA UnderFits ==
  ASSUME CodeFits, NEW own, Fits(own), Running("stack"), NEW n \in Nat, n <= Len(Top.vals)
  PROVE  IsSeq(Under(n)) /\ Len(Under(n)) = Len(Top.vals) - n
  <1>1. Len(Top.vals) - n \in 0 .. Len(Top.vals) /\ IsSeq(Top.vals)
    BY StackTop
  <1> QED BY <1>1, IsSeqFront DEF Under

\* Instructions that do not jump.
LEMMA GoesOn ==
  ASSUME SIn.op \notin {"JUMP", "RETURN"}
  PROVE  Top.ip + 1 \in Successors(SFunction.code, Top.ip)
  BY DEF Successors, SIn

\* The three ways to resume: nothing is taken and one value put on top, n are
\* taken, or n are taken and one is put on top.
LEMMA Resumes ==
  ASSUME CodeFits, NEW own, Fits(own), Running("stack"), Top.ip < Len(SFunction.code),
         SIn.op \notin {"JUMP", "RETURN"},
         NEW vals, IsSeq(vals), Len(vals) = After(SIn, Len(Top.vals)),
         Resume(vals)
  PROVE  FramesFit(frames', own) /\ UNCHANGED <<instructions, functions_v2>>
  BY StepsOn, GoesOn DEF Resume, program

-----------------------------------------------------------------------------
(* Activations that begin *)

\* The invariant of the next state, for code that has stayed the same.
FitsNext ==
  /\ UNCHANGED <<instructions, functions_v2>>
  /\ \E own : EnvsFit(envs', own) /\ ClosuresFit(closures', own) /\ FramesFit(frames', own)

LEMMA BindFits ==
  ASSUME NEW f, NEW n \in Nat, NEW args
  PROVE  IsSeq(Bind(f, n, args)) /\ Len(Bind(f, n, args)) = n
  <1> DEFINE s == Bind(f, n, args)
  <1>1. DOMAIN s = 1 .. n /\ s = [i \in 1 .. n |-> s[i]]
    BY DEF Bind
  <1> HIDE DEF s
  <1>2. IsSeq(s) /\ Len(s) = n
    BY <1>1, IsSeqMade
  <1> QED BY <1>2 DEF s

LEMMA NewFits ==
  ASSUME CodeFits, NEW own, NEW h,
         DOMAIN h = {"vm", "fn", "ip", "env", "vals", "dst", "args", "site"},
         h.vm = "stack", h.fn \in DOMAIN instructions, h.ip = 0, h.vals = <<>>,
         h.env \in DOMAIN own, own[h.env] = h.fn,
         h.site # "other" => h.fn \in Outermost(instructions)
  PROVE  FrameFits(h, 0, own)
  <1>1. instructions[h.fn].code \in Seq(Instruction) /\ Balanced(instructions[h.fn])
    BY CheckedFunction
  <1>2. Len(instructions[h.fn].code) \in Nat /\ instructions[h.fn].operands[0] = 0
    BY <1>1 DEF Balanced
  <1>3. IsSeq(<<>>) /\ Len(<<>>) = 0
    BY SeqIsSeq, <<>> \in Seq({})
  <1> QED BY <1>2, <1>3 DEF FrameFits

\* A new environment for function n and what it takes.
LEMMA NewEnvFits ==
  ASSUME CodeFits, NEW own, EnvsFit(envs, own), NEW n \in DOMAIN instructions,
         NEW m \in Nat, m >= instructions[n].size, NEW f, NEW args, NEW parent,
         Len(instructions[n].around) > 1 =>
           parent \in DOMAIN own /\ own[parent] = instructions[n].around[2]
  PROVE  LET v == [parent |-> parent, slots |-> Bind(f, m, args)]
             own2 == Owned(own, n, Len(envs) + 1)
         IN  /\ EnvsFit(Append(envs, v), own2)
             /\ Len(envs) + 1 \in DOMAIN own2 /\ own2[Len(envs) + 1] = n
             /\ \A cs : ClosuresFit(cs, own) => ClosuresFit(cs, own2)
             /\ \A g, k : FrameFits(g, k, own) => FrameFits(g, k, own2)
             /\ \A fs : FramesFit(fs, own) => FramesFit(fs, own2)
  <1> DEFINE v == [parent |-> parent, slots |-> Bind(f, m, args)]
             own2 == Owned(own, n, Len(envs) + 1)
  <1>1. EnvFits(v, n, own)
    BY BindFits DEF EnvFits
  <1> HIDE DEF v
  <1>2. /\ EnvsFit(Append(envs, v), own2)
        /\ Len(envs) + 1 \in DOMAIN own2 /\ own2[Len(envs) + 1] = n
        /\ \A e \in DOMAIN own : e \in DOMAIN own2 /\ own2[e] = own[e]
    BY <1>1, EnvAppended
  <1> HIDE DEF own2
  <1>3. /\ \A cs : ClosuresFit(cs, own) => ClosuresFit(cs, own2)
        /\ \A g, k : FrameFits(g, k, own) => FrameFits(g, k, own2)
        /\ \A fs : FramesFit(fs, own) => FramesFit(fs, own2)
    BY <1>2, OwnersExtended
  <1> QED BY <1>2, <1>3 DEF v, own2

\* An outermost function needs no parent.
LEMMA OutermostAlone ==
  ASSUME NEW n \in Outermost(instructions)
  PROVE  n \in DOMAIN instructions /\ ~(Len(instructions[n].around) > 1)
  <1>1. n \in DOMAIN instructions /\ Len(instructions[n].around) = 1
    BY DEF Outermost
  <1> QED BY <1>1

\* Some of the first n numbers have a last one.
LEMMA LastOf ==
  ASSUME NEW n \in Nat, NEW I \in SUBSET (1 .. n), I # {}
  PROVE  \E i \in I : \A j \in I : j <= i
  <1> DEFINE D == {n - j : j \in I}
  <1>1. D \in SUBSET Nat /\ D # {}
    <2>1. \A j \in I : n - j \in Nat
      OBVIOUS
    <2> QED BY <2>1
  <1>2. PICK d \in D : \A e \in D : d <= e
    <2> HIDE DEF D
    <2> QED BY <1>1, LeastOf
  <1>3. PICK i \in I : d = n - i
    BY <1>2
  <1>4. \A j \in I : n - i <= n - j
    BY <1>2, <1>3
  <1>5. \A j \in I : j \in Int
    OBVIOUS
  <1> QED BY <1>3, <1>4, <1>5

\* An error, with or without a call to make again.
LEMMA AbortFits ==
  ASSUME CodeFits, NEW own, Fits(own), Abort
  PROVE  FitsNext
  <1> DEFINE I == {i \in DOMAIN frames : frames[i].site = "cached"}
  <1>1. CASE I = {}
    <2>1. frames' = <<>> /\ UNCHANGED <<instructions, functions_v2, envs, closures>>
      BY <1>1 DEF Abort, program, objects
    <2> QED BY <2>1, NoFrames DEF Fits, FitsNext
  <1>2. CASE I # {}
    <2>1. IsSeq(frames) /\ Len(frames) \in Nat /\ DOMAIN frames = 1 .. Len(frames)
      BY IsSeqLen DEF Fits, FramesFit
    <2>2. I \in SUBSET Int /\ \A j \in I : j \in 1 .. Len(frames)
      BY <2>1
    <2> DEFINE i == CHOOSE i \in I : \A j \in I : j <= i
               n == frames[i].fn
               f == instructions[n]
               args == frames[i].args
               h == [NewFrame("stack", n, Len(envs) + 1, <<>>, args) EXCEPT !.site = "again"]
               own2 == Owned(own, n, Len(envs) + 1)
    <2>3. CallAgain(i)
      BY <1>2 DEF Abort
    <2>4. \E x \in I : \A j \in I : j <= x
      <3>1. I \in SUBSET (1 .. Len(frames))
        BY <2>1
      <3> HIDE DEF I
      <3> QED BY <1>2, <2>1, <3>1, LastOf
    <2>5. i \in I
      BY <2>4
    <2> HIDE DEF i
    <2>6. i \in 1 .. Len(frames) /\ frames[i].site = "cached"
      BY <2>1, <2>5
    <2>7. n \in Outermost(instructions) /\ n \in DOMAIN instructions
      <3>1. FrameFits(frames[i], IF i = Len(frames) THEN 0 ELSE 1, own)
        BY <2>6 DEF Fits, FramesFit
      <3> QED BY <2>6, <3>1 DEF FrameFits
    <2>8. f.size \in Nat /\ ~(Len(f.around) > 1)
      BY <2>7, CheckedFunction, OutermostAlone
    <2>9. /\ envs' = Append(envs, [parent |-> 0, slots |-> Bind(f, f.size, args)])
          /\ frames' = Append(SubSeq(frames, 1, i - 1), h)
          /\ UNCHANGED <<instructions, functions_v2, closures>>
      BY <2>3 DEF CallAgain, program
    <2>10. /\ DOMAIN h = {"vm", "fn", "ip", "env", "vals", "dst", "args", "site"}
           /\ h.vm = "stack" /\ h.fn = n /\ h.ip = 0 /\ h.vals = <<>> /\ h.env = Len(envs) + 1
      BY DEF NewFrame
    <2> HIDE DEF n, h, args, own2
    <2>11. /\ EnvsFit(envs', own2) /\ ClosuresFit(closures', own2) /\ FramesFit(frames, own2)
           /\ Len(envs) + 1 \in DOMAIN own2 /\ own2[Len(envs) + 1] = n
      <3>1. EnvsFit(envs, own) /\ ClosuresFit(closures, own) /\ FramesFit(frames, own)
        BY DEF Fits
      <3>2. f.size >= instructions[n].size /\ ~(Len(instructions[n].around) > 1)
        BY <2>8
      <3>3. /\ EnvsFit(Append(envs, [parent |-> 0, slots |-> Bind(f, f.size, args)]), own2)
            /\ Len(envs) + 1 \in DOMAIN own2 /\ own2[Len(envs) + 1] = n
            /\ ClosuresFit(closures, own2) /\ FramesFit(frames, own2)
        BY <2>7, <2>8, <3>1, <3>2, NewEnvFits DEF own2
      <3> QED BY <2>9, <3>3
    <2>12. FrameFits(h, 0, own2)
      BY <2>7, <2>10, <2>11, NewFits
    <2>13. FramesFit(frames', own2)
      BY <2>1, <2>6, <2>9, <2>10, <2>11, <2>12, FrameRestarted
    <2> QED BY <2>9, <2>11, <2>13 DEF FitsNext
  <1> QED BY <1>1, <1>2

-----------------------------------------------------------------------------
(* The stack machine: its steps *)

\* An instruction that changes neither functions nor environments.
LEMMA ResumedFits ==
  ASSUME CodeFits, NEW own, Fits(own), Running("stack"), Top.ip < Len(SFunction.code),
         SIn.op \notin {"JUMP", "RETURN"},
         NEW vals, IsSeq(vals), Len(vals) = After(SIn, Len(Top.vals)), Resume(vals),
         UNCHANGED <<envs, closures>>
  PROVE  FitsNext
  BY Resumes DEF FitsNext, Fits

\* How many operands are left, by the kind of instruction.
LEMMA AfterProducing ==
  ASSUME NEW n \in Nat, SIn.op \in {"PUSH_LITERAL", "LOAD_LOCAL", "LOAD_GLOBAL", "MAKE_CLOSURE"}
  PROVE  After(SIn, n) = n + 1
  BY DEF After, Operands, Results, BinaryOps, UnaryOps, ArithmeticOps, ComparisonOps

LEMMA AfterTaking ==
  ASSUME NEW n \in Nat, SIn.op \in {"STORE_LOCAL", "STORE_GLOBAL", "JUMP_IF_FALSE", "POP"}
  PROVE  After(SIn, n) = n - 1 /\ Operands(SIn) = 1
  BY DEF After, Operands, Results, BinaryOps, UnaryOps, ArithmeticOps, ComparisonOps

LEMMA AfterNothing ==
  ASSUME NEW n \in Nat, SIn.op \in {"JUMP", "ENTER_SCOPE", "EXIT_SCOPE"}
  PROVE  After(SIn, n) = n
  BY DEF After, Operands, Results, BinaryOps, UnaryOps, ArithmeticOps, ComparisonOps

LEMMA AfterStoring ==
  ASSUME NEW n \in Nat, SIn \in Instruction, SIn.op = "STORE_PROP"
  PROVE  After(SIn, n) = n - Operands(SIn)
  BY OperandsType DEF After, Results, BinaryOps, UnaryOps, ArithmeticOps, ComparisonOps

LEMMA AfterComputing ==
  ASSUME NEW n \in Nat, SIn \in Instruction,
         SIn.op \in BinaryOps \cup UnaryOps \cup {"GET_PROP", "CALL"}
  PROVE  /\ After(SIn, n) = n - Operands(SIn) + 1
         /\ SIn.op \in BinaryOps => Operands(SIn) = 2
         /\ SIn.op \in UnaryOps => Operands(SIn) = 1
         /\ SIn.op = "CALL" => /\ SIn.name = Dynamic => Operands(SIn) = SIn.argc + 1
                               /\ SIn.name # Dynamic => Operands(SIn) = SIn.argc
         /\ SIn.op \notin {"JUMP", "RETURN"}
  <1>1. SIn.argc \in Nat
    BY DEF Instruction
  <1> QED BY <1>1 DEF After, Operands, Results, BinaryOps, UnaryOps, ArithmeticOps, ComparisonOps

\* n operands are taken and perhaps a value put on top.
LEMMA TakesFits ==
  ASSUME CodeFits, NEW own, Fits(own), Running("stack"), Top.ip < Len(SFunction.code),
         NEW n \in Nat, n <= Len(Top.vals)
  PROVE  /\ IsSeq(Under(n)) /\ Len(Under(n)) = Len(Top.vals) - n
         /\ \A a : IsSeq(Append(Under(n), a)) /\ Len(Append(Under(n), a)) = Len(Top.vals) - n + 1
         /\ \A a : IsSeq(Append(Top.vals, a)) /\ Len(Append(Top.vals, a)) = Len(Top.vals) + 1
  <1>1. IsSeq(Under(n)) /\ Len(Under(n)) = Len(Top.vals) - n
    BY UnderFits
  <1>2. IsSeq(Top.vals)
    BY StackTop
  <1> QED BY <1>1, <1>2, IsSeqAppend

LEMMA VariablesFit ==
  ASSUME CodeFits, NEW own, Fits(own),
         SLoadLocal \/ SStoreLocal \/ SLoadGlobal \/ SStoreGlobal
  PROVE  FitsNext
  <1>1. /\ Running("stack") /\ Top.ip < Len(SFunction.code)
        /\ SIn.op \in {"LOAD_LOCAL", "STORE_LOCAL", "LOAD_GLOBAL", "STORE_GLOBAL"}
    BY DEF SLoadLocal, SStoreLocal, SLoadGlobal, SStoreGlobal, SAt
  <1>2. Len(Top.vals) \in Nat /\ SIn \in Instruction
    BY <1>1, StackTop, StackNextIn
  <1>3. CASE SLoadLocal
    <2>1. CASE Accessible(SIn.depth, SIn.slot)
      <3> DEFINE new == Append(Top.vals, envs[EnvAt(SIn.depth)].slots[SIn.slot + 1])
      <3>1. SIn.op = "LOAD_LOCAL" /\ Resume(new) /\ UNCHANGED <<envs, closures>>
        BY <1>3, <2>1 DEF SLoadLocal, SAt, objects
      <3>2. IsSeq(new) /\ Len(new) = After(SIn, Len(Top.vals))
        BY <1>1, <1>2, <3>1, TakesFits, AfterProducing
      <3> HIDE DEF new
      <3> QED BY <1>1, <3>1, <3>2, ResumedFits
    <2>2. CASE ~Accessible(SIn.depth, SIn.slot)
      BY <1>3, <2>2, AbortFits DEF SLoadLocal
    <2> QED BY <2>1, <2>2
  <1>4. CASE SStoreLocal
    <2>1. CASE Accessible(SIn.depth, SIn.slot)
      <3> DEFINE e == EnvAt(SIn.depth)
      <3>1. /\ SIn.op = "STORE_LOCAL" /\ Resume(Under(1)) /\ UNCHANGED closures
            /\ envs' = [envs EXCEPT ![e].slots[SIn.slot + 1] = Tops(1)[1]]
        BY <1>4, <2>1 DEF SStoreLocal, SAt
      <3>2. After(SIn, Len(Top.vals)) = Len(Top.vals) - 1 /\ Len(Top.vals) >= 1
        BY <1>1, <1>2, <3>1, AfterTaking, StackNextIn
      <3>3. IsSeq(Under(1)) /\ Len(Under(1)) = After(SIn, Len(Top.vals))
        BY <1>1, <3>2, TakesFits
      <3>4. FramesFit(frames', own) /\ UNCHANGED <<instructions, functions_v2>>
        BY <1>1, <3>1, <3>3, Resumes
      <3> HIDE DEF e
      <3>5. EnvsFit(envs', own)
        BY <3>1, SlotChanged DEF Fits
      <3> QED BY <3>1, <3>4, <3>5 DEF FitsNext, Fits
    <2>2. CASE ~Accessible(SIn.depth, SIn.slot)
      BY <1>4, <2>2, AbortFits DEF SStoreLocal
    <2> QED BY <2>1, <2>2
  <1>5. CASE SLoadGlobal
    <2> DEFINE new == Append(Top.vals, IF SIn.name \in DOMAIN globals THEN globals[SIn.name] ELSE None)
    <2>1. SIn.op = "LOAD_GLOBAL" /\ Resume(new) /\ UNCHANGED <<envs, closures>>
      BY <1>5 DEF SLoadGlobal, SAt, objects
    <2>2. IsSeq(new) /\ Len(new) = After(SIn, Len(Top.vals))
      BY <1>1, <1>2, <2>1, TakesFits, AfterProducing
    <2> HIDE DEF new
    <2> QED BY <1>1, <2>1, <2>2, ResumedFits
  <1>6. CASE SStoreGlobal
    <2>1. SIn.op = "STORE_GLOBAL" /\ Resume(Under(1)) /\ UNCHANGED <<envs, closures>>
      BY <1>6 DEF SStoreGlobal, SAt, objects
    <2>2. After(SIn, Len(Top.vals)) = Len(Top.vals) - 1 /\ Len(Top.vals) >= 1
      BY <1>1, <1>2, <2>1, AfterTaking, StackNextIn
    <2>3. IsSeq(Under(1)) /\ Len(Under(1)) = After(SIn, Len(Top.vals))
      BY <1>1, <2>2, TakesFits
    <2> QED BY <1>1, <2>1, <2>3, ResumedFits
  <1> QED BY <1>3, <1>4, <1>5, <1>6

LEMMA OperandsFit ==
  ASSUME CodeFits, NEW own, Fits(own),
         SPush \/ SPop \/ SScope \/ SBinary \/ SUnary \/ SGetProp \/ SStoreProp
  PROVE  FitsNext
  <1>1. /\ Running("stack") /\ Top.ip < Len(SFunction.code)
        /\ SIn.op \in {"PUSH_LITERAL", "POP", "ENTER_SCOPE", "EXIT_SCOPE", "GET_PROP",
                       "STORE_PROP"} \cup BinaryOps \cup UnaryOps
    BY DEF SPush, SPop, SScope, SBinary, SUnary, SGetProp, SStoreProp, SAt
  <1>2. /\ Len(Top.vals) \in Nat /\ SIn \in Instruction /\ IsSeq(Top.vals)
        /\ Operands(SIn) \in Nat /\ Operands(SIn) <= Len(Top.vals)
    BY <1>1, StackTop, StackNextIn
  <1>3. CASE SPush
    <2>1. SIn.op = "PUSH_LITERAL" /\ Resume(Append(Top.vals, SIn.lit)) /\ UNCHANGED <<envs, closures>>
      BY <1>3 DEF SPush, SAt, objects
    <2>2. /\ IsSeq(Append(Top.vals, SIn.lit))
          /\ Len(Append(Top.vals, SIn.lit)) = After(SIn, Len(Top.vals))
      BY <1>1, <1>2, <2>1, TakesFits, AfterProducing
    <2> QED BY <1>1, <2>1, <2>2, ResumedFits
  <1>4. CASE SPop
    <2>1. SIn.op = "POP" /\ Resume(Under(1)) /\ UNCHANGED <<envs, closures>>
      BY <1>4 DEF SPop, SAt, objects
    <2>2. IsSeq(Under(1)) /\ Len(Under(1)) = After(SIn, Len(Top.vals))
      BY <1>1, <1>2, <2>1, TakesFits, AfterTaking
    <2> QED BY <1>1, <2>1, <2>2, ResumedFits
  <1>5. CASE SScope
    <2>1. SIn.op \in {"ENTER_SCOPE", "EXIT_SCOPE"} /\ Resume(Top.vals) /\ UNCHANGED <<envs, closures>>
      BY <1>5 DEF SScope, SAt, objects
    <2>2. Len(Top.vals) = After(SIn, Len(Top.vals))
      BY <1>2, <2>1, AfterNothing
    <2> QED BY <1>1, <1>2, <2>1, <2>2, ResumedFits
  <1>6. CASE SBinary
    <2> DEFINE a == Tops(2)[1]
               b == Tops(2)[2]
               new == Append(Under(2), Compute(SIn.op, a, b))
    <2>1. SIn.op \in BinaryOps
      BY <1>6 DEF SBinary, SAt
    <2>2. CASE Defined(SIn.op, a, b, Size(b))
      <3>1. Resume(new) /\ UNCHANGED <<envs, closures>>
        BY <1>6, <2>2 DEF SBinary, objects
      <3>2. /\ SIn.op \notin {"JUMP", "RETURN"} /\ Operands(SIn) = 2
            /\ After(SIn, Len(Top.vals)) = Len(Top.vals) - 2 + 1
        BY <1>2, <2>1, AfterComputing
      <3>3. IsSeq(new) /\ Len(new) = After(SIn, Len(Top.vals))
        BY <1>1, <1>2, <3>2, TakesFits
      <3> HIDE DEF new
      <3> QED BY <1>1, <3>1, <3>2, <3>3, ResumedFits
    <2>3. CASE ~Defined(SIn.op, a, b, Size(b))
      BY <1>6, <2>3, AbortFits DEF SBinary
    <2> QED BY <2>2, <2>3
  <1>7. CASE SUnary
    <2> DEFINE a == Tops(1)[1]
               new == Append(Under(1), Unary(SIn.op, a, Size(a)))
    <2>1. SIn.op \in UnaryOps
      BY <1>7 DEF SUnary, SAt
    <2>2. CASE UnaryDefined(SIn.op, a)
      <3>1. Resume(new) /\ UNCHANGED <<envs, closures>>
        BY <1>7, <2>2 DEF SUnary, objects
      <3>2. /\ SIn.op \notin {"JUMP", "RETURN"} /\ Operands(SIn) = 1
            /\ After(SIn, Len(Top.vals)) = Len(Top.vals) - 1 + 1
        BY <1>2, <2>1, AfterComputing
      <3>3. IsSeq(new) /\ Len(new) = After(SIn, Len(Top.vals))
        BY <1>1, <1>2, <3>2, TakesFits
      <3> HIDE DEF new
      <3> QED BY <1>1, <3>1, <3>2, <3>3, ResumedFits
    <2>3. CASE ~UnaryDefined(SIn.op, a)
      BY <1>7, <2>3, AbortFits DEF SUnary
    <2> QED BY <2>2, <2>3
  <1>8. CASE SGetProp
    <2> DEFINE n == Operands(SIn)
               obj == Tops(n)[1]
               new == Append(Under(n), IF ByIndex(SIn) THEN Element(obj, Tops(n)[2])
                                       ELSE Property(obj, SIn.lit))
    <2>1. SIn.op = "GET_PROP" /\ Resume(new) /\ UNCHANGED <<envs, closures>>
      BY <1>8 DEF SGetProp, SAt, objects
    <2>2. After(SIn, Len(Top.vals)) = Len(Top.vals) - n + 1
      BY <1>2, <2>1, AfterComputing
    <2>3. IsSeq(new) /\ Len(new) = After(SIn, Len(Top.vals))
      BY <1>1, <1>2, <2>2, TakesFits
    <2> HIDE DEF new
    <2> QED BY <1>1, <2>1, <2>3, ResumedFits
  <1>9. CASE SStoreProp
    <2> DEFINE n == Operands(SIn)
               obj == Tops(n)[1]
    <2>1. SIn.op = "STORE_PROP"
      BY <1>9 DEF SStoreProp, SAt
    <2>2. CASE obj.t = "array"
      <3>1. Resume(Under(n)) /\ UNCHANGED <<envs, closures>>
        BY <1>9, <2>2 DEF SStoreProp
      <3>2. IsSeq(Under(n)) /\ Len(Under(n)) = After(SIn, Len(Top.vals))
        BY <1>1, <1>2, <2>1, TakesFits, AfterStoring
      <3> QED BY <1>1, <2>1, <3>1, <3>2, ResumedFits
    <2>3. CASE obj.t # "array"
      BY <1>9, <2>3, AbortFits DEF SStoreProp
    <2> QED BY <2>2, <2>3
  <1> QED BY <1>3, <1>4, <1>5, <1>6, <1>7, <1>8, <1>9

\* A closure is made for a function that lies in the one that makes it.
LEMMA ClosureAppended ==
  ASSUME NEW own, ClosuresFit(closures, own), NEW c, ClosureFits(c, own)
  PROVE  ClosuresFit(Append(closures, c), own)
  <1>1. IsSeq(closures) /\ Len(closures) \in Nat
    BY IsSeqLen DEF ClosuresFit
  <1>2. /\ IsSeq(Append(closures, c)) /\ Len(Append(closures, c)) = Len(closures) + 1
        /\ Append(closures, c)[Len(closures) + 1] = c
        /\ \A i \in 1 .. Len(closures) : Append(closures, c)[i] = closures[i]
    BY <1>1, IsSeqAppend
  <1> DEFINE new == Append(closures, c)
  <1> HIDE DEF new
  <1> QED BY <1>1, <1>2 DEF ClosuresFit, new

LEMMA MakeClosureFits ==
  ASSUME CodeFits, NEW own, Fits(own), SMakeClosure
  PROVE  FitsNext
  <1> DEFINE new == Append(Top.vals, FunctionRef(Len(closures) + 1))
             c == [name |-> SIn.name, env |-> Top.env]
             i == Top.ip + 1
  <1>1. /\ Running("stack") /\ Top.ip < Len(SFunction.code) /\ SIn.op = "MAKE_CLOSURE"
        /\ Resume(new) /\ closures' = Append(closures, c) /\ UNCHANGED envs
    BY DEF SMakeClosure, SAt
  <1>2. /\ Len(Top.vals) \in Nat /\ Top.fn \in DOMAIN instructions
        /\ Top.env \in DOMAIN own /\ own[Top.env] = Top.fn
        /\ i \in 1 .. Len(SFunction.code) /\ SFunction.code[i] = SIn
    BY <1>1, StackTop DEF SIn
  <1>3. IsSeq(new) /\ Len(new) = After(SIn, Len(Top.vals))
    <2>1. IsSeq(Top.vals)
      BY <1>1, StackTop
    <2> QED BY <1>1, <1>2, <2>1, IsSeqAppend, AfterProducing
  <1> HIDE DEF new, i
  <1>4. FramesFit(frames', own) /\ UNCHANGED <<instructions, functions_v2>>
    BY <1>1, <1>3, Resumes
  <1>5. Scoped(instructions, Top.fn)
    BY <1>2, CheckedFunction
  <1>6. SIn.name \in DOMAIN instructions
        /\ instructions[SIn.name].around = <<SIn.name>> \o instructions[Top.fn].around
    BY <1>1, <1>2, <1>5 DEF Scoped, SFunction
  <1>7. ClosureFits(c, own)
    BY <1>2, <1>6 DEF ClosureFits
  <1> HIDE DEF c
  <1>8. ClosuresFit(closures', own)
    BY <1>1, <1>7, ClosureAppended DEF Fits
  <1> QED BY <1>1, <1>4, <1>8 DEF FitsNext, Fits

LEMMA JumpsFit ==
  ASSUME CodeFits, NEW own, Fits(own), SJump \/ SJumpIfFalse
  PROVE  FitsNext
  <1>1. Running("stack") /\ Top.ip < Len(SFunction.code)
    BY DEF SJump, SJumpIfFalse, SAt
  <1>2. /\ Len(Top.vals) \in Nat /\ IsSeq(Top.vals)
        /\ Operands(SIn) <= Len(Top.vals)
    BY <1>1, StackTop, StackNextIn
  <1>3. CASE SJump
    <2>1. /\ SIn.op = "JUMP" /\ frames' = Continue(Top.vals, SIn.target)
          /\ UNCHANGED <<instructions, functions_v2, envs, closures>>
      BY <1>3 DEF SJump, SAt, program, objects
    <2>2. SIn.target \in Successors(SFunction.code, Top.ip)
      BY <2>1 DEF Successors, SIn
    <2>3. Len(Top.vals) = After(SIn, Len(Top.vals))
      BY <1>2, <2>1, AfterNothing
    <2>4. FramesFit(frames', own)
      BY <1>1, <1>2, <2>1, <2>2, <2>3, StepsOn
    <2> QED BY <2>1, <2>4 DEF FitsNext, Fits
  <1>4. CASE SJumpIfFalse
    <2> DEFINE k == IF Truth(Tops(1)[1]) THEN Top.ip + 1 ELSE SIn.target
    <2>1. /\ SIn.op = "JUMP_IF_FALSE" /\ frames' = Continue(Under(1), k)
          /\ UNCHANGED <<instructions, functions_v2, envs, closures>>
      BY <1>4 DEF SJumpIfFalse, SAt, program, objects
    <2>2. k \in Successors(SFunction.code, Top.ip)
      BY <2>1 DEF Successors, SIn
    <2>3. IsSeq(Under(1)) /\ Len(Under(1)) = After(SIn, Len(Top.vals))
      BY <1>1, <1>2, <2>1, TakesFits, AfterTaking
    <2> HIDE DEF k
    <2>4. FramesFit(frames', own)
      BY <1>1, <2>1, <2>2, <2>3, StepsOn
    <2> QED BY <2>1, <2>4 DEF FitsNext, Fits
  <1> QED BY <1>3, <1>4

-----------------------------------------------------------------------------
(* The stack machine: calls and returns *)

\* An activation that waits for one operand more than it has.
LEMMA Suspended ==
  ASSUME CodeFits, NEW own, Fits(own), Running("stack"), Top.ip < Len(SFunction.code),
         SIn.op = "CALL"
  PROVE  LET vals == Under(Operands(SIn)) IN
         /\ FrameFits(OnTop(vals, Top.ip + 1), 1, own)
         /\ OnTop(vals, Top.ip + 1).vm = "stack"
         /\ Continue(vals, Top.ip + 1) = Replaced(frames, Len(frames), OnTop(vals, Top.ip + 1))
  <1> DEFINE vals == Under(Operands(SIn))
             k == Top.ip + 1
             g == OnTop(vals, k)
  <1>1. /\ Len(Top.vals) \in Nat /\ SIn \in Instruction /\ Operands(SIn) \in Nat
        /\ Operands(SIn) <= Len(Top.vals)
    BY StackTop, StackNextIn
  <1>2. IsSeq(vals) /\ Len(vals) = Len(Top.vals) - Operands(SIn)
    BY <1>1, TakesFits
  <1>3. /\ Continue(vals, k) = Replaced(frames, Len(frames), g)
        /\ g.vm = Top.vm /\ g.fn = Top.fn /\ g.env = Top.env /\ g.site = Top.site
        /\ g.vals = vals /\ g.ip = k /\ DOMAIN g = DOMAIN Top
    BY StackTop, Continued DEF Fits
  <1>4. /\ After(SIn, Len(Top.vals)) = Len(Top.vals) - Operands(SIn) + 1
        /\ SIn.op \notin {"JUMP", "RETURN"}
    BY <1>1, AfterComputing
  <1> HIDE DEF g, vals
  <1>5. k \in 0 .. Len(SFunction.code) /\ SFunction.operands[k] = Len(vals) + 1
    BY <1>1, <1>2, <1>4, GoesOn, StackNextIn
  <1> HIDE DEF k
  <1>6. FrameFits(g, 1, own)
    BY <1>2, <1>3, <1>5, StackTop DEF FrameFits, SFunction
  <1> QED BY <1>3, <1>6, StackTop DEF g, k, vals

\* The environment a closure keeps is of the function around it.
LEMMA ClosureParent ==
  ASSUME CodeFits, NEW own, Fits(own), NEW v \in DOMAIN closures
  PROVE  LET c == closures[v] IN
         /\ c.name \in DOMAIN instructions
         /\ c.env \in DOMAIN own /\ own[c.env] = instructions[c.name].around[2]
  <1> DEFINE c == closures[v]
  <1>1. ClosureFits(c, own)
    <2>1. DOMAIN closures = 1 .. Len(closures)
      BY IsSeqLen DEF Fits, ClosuresFit
    <2> QED BY <2>1 DEF Fits, ClosuresFit
  <1> HIDE DEF c
  <1> DEFINE a == instructions[own[c.env]].around
  <1>2. /\ c.name \in DOMAIN instructions /\ c.env \in DOMAIN own
        /\ instructions[c.name].around = <<c.name>> \o a
        /\ own[c.env] \in DOMAIN instructions
    BY <1>1 DEF ClosureFits, Fits, EnvsFit
  <1>3. a \in Seq(DOMAIN instructions) /\ Len(a) # 0 /\ Len(a) \in Nat /\ a[1] = own[c.env]
    BY <1>2, CheckedFunction
  <1> HIDE DEF a
  <1>4. (<<c.name>> \o a)[2] = a[1]
    <2>1. <<c.name>> \in Seq(DOMAIN instructions) /\ Len(<<c.name>>) = 1
      BY <1>2
    <2>2. 2 \in 1 .. Len(<<c.name>>) + Len(a) /\ ~(2 <= Len(<<c.name>>))
      BY <1>3, <2>1
    <2>3. (<<c.name>> \o a)[2] = a[2 - Len(<<c.name>>)]
      BY <1>3, <2>1, <2>2, ConcatProperties
    <2>4. 2 - Len(<<c.name>>) = 1
      BY <2>1
    <2> QED BY <2>3, <2>4
  <1> QED BY <1>2, <1>3, <1>4 DEF c

LEMMA ActivateFits ==
  ASSUME CodeFits, NEW own, Fits(own), Running("stack"), Top.ip < Len(SFunction.code),
         SIn.op = "CALL", NEW name \in DOMAIN instructions, NEW parent, NEW how,
         Len(instructions[name].around) > 1 =>
           parent \in DOMAIN own /\ own[parent] = instructions[name].around[2],
         how # "other" => name \in Outermost(instructions),
         SActivate(name, parent, Operands(SIn), how)
  PROVE  FitsNext
  <1> DEFINE f == instructions[name]
             args == Tops(SIn.argc)
  <1>1. CASE ~(f.variadic \/ SIn.argc <= f.params)
    BY <1>1, AbortFits DEF SActivate
  <1>2. CASE f.variadic \/ SIn.argc <= f.params
    <2> DEFINE g == OnTop(Under(Operands(SIn)), Top.ip + 1)
               h == [NewFrame("stack", name, Len(envs) + 1, <<>>, args) EXCEPT !.site = how]
               own2 == Owned(own, name, Len(envs) + 1)
    <2>1. /\ envs' = Append(envs, [parent |-> parent, slots |-> Bind(f, f.size, args)])
          /\ frames' = Append(Continue(Under(Operands(SIn)), Top.ip + 1), h)
          /\ UNCHANGED <<instructions, functions_v2, closures>>
      BY <1>2 DEF SActivate, program
    <2>2. /\ FrameFits(g, 1, own) /\ g.vm = "stack"
          /\ frames' = Append(Replaced(frames, Len(frames), g), h)
      BY <2>1, Suspended
    <2>3. /\ DOMAIN h = {"vm", "fn", "ip", "env", "vals", "dst", "args", "site"}
          /\ h.vm = "stack" /\ h.fn = name /\ h.ip = 0 /\ h.vals = <<>> /\ h.env = Len(envs) + 1
          /\ h.site = how
      BY DEF NewFrame
    <2>4. f.size \in Nat
      BY CheckedFunction
    <2> HIDE DEF g, h, args, own2
    <2>5. /\ EnvsFit(envs', own2) /\ ClosuresFit(closures', own2) /\ FramesFit(frames, own2)
          /\ FrameFits(g, 1, own2)
          /\ Len(envs) + 1 \in DOMAIN own2 /\ own2[Len(envs) + 1] = name
      BY <2>1, <2>2, <2>4, NewEnvFits DEF Fits, own2
    <2>6. FrameFits(h, 0, own2)
      BY <2>3, <2>5, NewFits
    <2>7. frames # <<>> /\ g.vm = frames[Len(frames)].vm
      BY <2>2, StackTop DEF Top
    <2>8. h.vm # "register"
      BY <2>3
    <2>9. FramesFit(frames', own2)
      BY <2>2, <2>5, <2>6, <2>7, <2>8, FramePushed
    <2> QED BY <2>1, <2>5, <2>9 DEF FitsNext
  <1> QED BY <1>1, <1>2

LEMMA CallsFit ==
  ASSUME CodeFits, NEW own, Fits(own),
         SCallBuiltin \/ SCallFunction \/ SCallMissing \/ SCallDynamic
  PROVE  FitsNext
  <1> DEFINE i == Top.ip + 1
  <1>1. Running("stack") /\ Top.ip < Len(SFunction.code) /\ SIn.op = "CALL"
    BY DEF SCallBuiltin, SCallFunction, SCallMissing, SCallDynamic, SAt
  <1>2. /\ Len(Top.vals) \in Nat /\ SIn \in Instruction /\ Operands(SIn) \in Nat
        /\ Operands(SIn) <= Len(Top.vals)
        /\ i \in 1 .. Len(SFunction.code) /\ SFunction.code[i] = SIn
        /\ Top.fn \in DOMAIN instructions
    BY <1>1, StackTop, StackNextIn DEF SIn
  <1>3. /\ After(SIn, Len(Top.vals)) = Len(Top.vals) - Operands(SIn) + 1
        /\ SIn.name = Dynamic => Operands(SIn) = SIn.argc + 1
        /\ SIn.name # Dynamic => Operands(SIn) = SIn.argc
        /\ SIn.op \notin {"JUMP", "RETURN"}
    BY <1>1, <1>2, AfterComputing
  <1> HIDE DEF i
  <1>4. CASE SCallBuiltin
    <2> DEFINE args == Tops(SIn.argc)
               new == Append(Under(SIn.argc), BuiltinValue(SIn.name, args))
    <2>1. CASE BuiltinFails(SIn.name, args)
      BY <1>4, <2>1, AbortFits DEF SCallBuiltin
    <2>2. CASE ~BuiltinFails(SIn.name, args)
      <3>1. Resume(new) /\ UNCHANGED <<envs, closures>> /\ SIn.name \in Builtins
        BY <1>4, <2>2 DEF SCallBuiltin
      <3>2. SIn.name # Dynamic
        BY <3>1 DEF Builtins, Dynamic
      <3>3. IsSeq(new) /\ Len(new) = After(SIn, Len(Top.vals))
        BY <1>1, <1>2, <1>3, <3>2, TakesFits
      <3> HIDE DEF new
      <3> QED BY <1>1, <1>3, <3>1, <3>3, ResumedFits
    <2> QED BY <2>1, <2>2
  <1>5. CASE SCallFunction
    <2> DEFINE how == IF <<Top.fn, Top.ip>> \in cached THEN "cached" ELSE "named"
    <2>1. /\ SIn.name \in DOMAIN instructions \ Builtins
          /\ SActivate(SIn.name, 0, SIn.argc, how)
      BY <1>5 DEF SCallFunction
    <2>2. Scoped(instructions, Top.fn)
      BY <1>2, CheckedFunction
    <2>3. SIn.name \in Outermost(instructions)
      BY <1>1, <1>2, <2>1, <2>2 DEF Scoped, SFunction
    <2>4. ~(Len(instructions[SIn.name].around) > 1)
      BY <2>3, OutermostAlone
    <2>5. CASE SIn.name # Dynamic
      <3> HIDE DEF how
      <3> QED BY <1>1, <1>3, <2>1, <2>3, <2>4, <2>5, ActivateFits
    <2> QED BY <2>5, <2>1, CheckedFunction
  <1>6. CASE SCallMissing
    BY <1>6, AbortFits DEF SCallMissing
  <1>7. CASE SCallDynamic
    <2> DEFINE callee == Tops(SIn.argc + 1)[1]
    <2>1. CASE Callable(callee)
      <3>1. /\ SIn.name = Dynamic
            /\ SActivate(closures[callee.v].name, closures[callee.v].env, SIn.argc + 1, "other")
        BY <1>7, <2>1 DEF SCallDynamic
      <3>2. callee.v \in DOMAIN closures
        BY <2>1 DEF Callable
      <3> HIDE DEF callee
      <3> DEFINE name == closures[callee.v].name
                 parent == closures[callee.v].env
      <3>3. /\ name \in DOMAIN instructions
            /\ parent \in DOMAIN own /\ own[parent] = instructions[name].around[2]
        BY <3>2, ClosureParent
      <3>4. SActivate(name, parent, Operands(SIn), "other")
        BY <1>3, <3>1
      <3> HIDE DEF name, parent
      <3> QED BY <1>1, <3>3, <3>4, ActivateFits
    <2>2. CASE ~Callable(callee)
      BY <1>7, <2>2, AbortFits DEF SCallDynamic
    <2> QED BY <2>1, <2>2
  <1> QED BY <1>4, <1>5, <1>6, <1>7

\* The caller has what it waits for.
LEMMA ReturnFits ==
  ASSUME CodeFits, NEW own, Fits(own), SReturn
  PROVE  FitsNext
  <1> DEFINE n == Len(frames) - 1
             g == [frames[n] EXCEPT !.vals = Append(@, ReturnValue)]
             low == SubSeq(frames, 1, n)
  <1>1. /\ Running("stack") /\ n > 0 /\ frames[n].vm = "stack"
        /\ frames' = [Front(frames) EXCEPT ![n].vals = Append(@, ReturnValue)]
        /\ UNCHANGED <<instructions, functions_v2, envs, closures>>
    BY DEF SReturn, SFinishes, SAt, objects
  <1>2. n \in 1 .. Len(frames) - 1 /\ IsSeq(frames) /\ Len(frames) \in Nat
    BY <1>1, StackTop DEF Fits, FramesFit
  <1>3. FrameFits(frames[n], 1, own)
    BY <1>2 DEF Fits, FramesFit
  <1>4. IsSeq(low) /\ Len(low) = n /\ low[n] = frames[n]
    BY <1>2, IsSeqFront
  <1>5. DOMAIN low = 1 .. n
    BY <1>4, IsSeqLen
  <1>6. frames' = Replaced(low, n, g)
    <2>1. frames' = [low EXCEPT ![n].vals = Append(@, ReturnValue)]
      BY <1>1 DEF Front
    <2> HIDE DEF low
    <2>2. n \in DOMAIN low
      BY <1>2, <1>5
    <2> QED BY <1>4, <2>1, <2>2 DEF Replaced
  <1>7. /\ g.vm = frames[n].vm /\ g.fn = frames[n].fn /\ g.ip = frames[n].ip
        /\ g.env = frames[n].env /\ g.site = frames[n].site
        /\ g.vals = Append(frames[n].vals, ReturnValue) /\ DOMAIN g = DOMAIN frames[n]
    BY <1>3 DEF FrameFits
  <1>8. IsSeq(frames[n].vals) /\ instructions[frames[n].fn].operands[frames[n].ip] = Len(frames[n].vals) + 1
    BY <1>1, <1>3 DEF FrameFits
  <1> HIDE DEF g, n, low
  <1>9. IsSeq(g.vals) /\ Len(g.vals) = Len(frames[n].vals) + 1 /\ Len(g.vals) \in Nat
    BY <1>7, <1>8, IsSeqAppend, IsSeqLen
  <1>10. FrameFits(g, 0, own)
    BY <1>1, <1>3, <1>7, <1>8, <1>9 DEF FrameFits
  <1>11. FramesFit(frames', own)
    BY <1>2, <1>6, <1>7, <1>10, FramePopped DEF Fits, low
  <1> QED BY <1>1, <1>11 DEF FitsNext, Fits

LEMMA StackHolds ==
  ASSUME CodeFits, NEW own, Fits(own), StackNext
  PROVE  FitsNext
  <1>1. CASE Underflow
    BY <1>1, AbortFits DEF StackNext
  <1>2. CASE ~Underflow
    <2>1. CASE SReturnAgain
      BY <2>1, AbortFits DEF SReturnAgain
    <2> QED BY <1>2, <2>1, VariablesFit, OperandsFit, MakeClosureFits, JumpsFit, CallsFit,
               ReturnFits DEF StackNext
  <1> QED BY <1>1, <1>2

-----------------------------------------------------------------------------
(* The register machine *)

\* Values are written to registers and environments; both keep their shape.
LEMMA RegisterTop ==
  ASSUME CodeFits, NEW own, Fits(own), Running("register")
  PROVE  /\ frames # <<>> /\ Top.vm = "register" /\ Len(frames) \in Nat \ {0}
         /\ FrameFits(Top, 0, own)
         /\ Top.fn \in DOMAIN functions_v2 \cap Outermost(instructions)
         /\ Top.fn \in DOMAIN instructions /\ Top.env \in DOMAIN own /\ own[Top.env] = Top.fn
         /\ Top.ip \in Nat
         /\ \A i \in 1 .. Len(frames) : frames[i].vm = "register"
  <1>1. frames # <<>> /\ Top.vm = "register"
    BY DEF Running
  <1>2. FrameFits(Top, 0, own) /\ Len(frames) \in Nat \ {0}
        /\ \A i \in 1 .. Len(frames) : frames[i].vm = "register"
    BY <1>1, TopFits DEF Fits
  <1>3. "register" # "stack"
    OBVIOUS
  <1> QED BY <1>1, <1>2, <1>3 DEF FrameFits

LEMMA RegistersChanged ==
  ASSUME CodeFits, NEW own, Fits(own), Running("register"), NEW vals, NEW k \in Nat, NEW p \in {0, 1}
  PROVE  /\ FrameFits(OnTop(vals, k), p, own) /\ OnTop(vals, k).vm = "register"
         /\ Continue(vals, k) = Replaced(frames, Len(frames), OnTop(vals, k))
         /\ p = 0 => FramesFit(Continue(vals, k), own)
  <1> DEFINE g == OnTop(vals, k)
  <1>1. /\ Continue(vals, k) = Replaced(frames, Len(frames), g)
        /\ g.vm = Top.vm /\ g.fn = Top.fn /\ g.env = Top.env /\ g.site = Top.site
        /\ g.vals = vals /\ g.ip = k /\ DOMAIN g = DOMAIN Top
    BY RegisterTop, Continued DEF Fits
  <1> HIDE DEF g
  <1>2. FrameFits(g, p, own)
    BY <1>1, RegisterTop DEF FrameFits
  <1>3. ASSUME p = 0 PROVE FramesFit(Continue(vals, k), own)
    BY <1>1, <1>2, <1>3, RegisterTop, TopReplaced DEF Fits, Top
  <1> QED BY <1>1, <1>2, <1>3, RegisterTop DEF g

LEMMA WriteFits ==
  ASSUME CodeFits, NEW own, Fits(own), Running("register"), NEW a, RWrite(a),
         ClosuresFit(closures', own)
  PROVE  FitsNext
  <1>1. /\ frames' = Continue(Stored(Top.vals, RIn.dst, a), Top.ip + 1)
        /\ envs' = [envs EXCEPT ![Top.env].slots[RIn.dst.index + 1] = a]
        /\ UNCHANGED <<instructions, functions_v2>>
    BY DEF RWrite, Mirrored, program
  <1>2. Top.ip + 1 \in Nat
    BY RegisterTop
  <1>3. FramesFit(frames', own)
    BY <1>1, <1>2, RegistersChanged
  <1>4. EnvsFit(envs', own)
    BY <1>1, SlotChanged DEF Fits
  <1> QED BY <1>1, <1>3, <1>4 DEF FitsNext

LEMMA GotoFits ==
  ASSUME CodeFits, NEW own, Fits(own), Running("register"), NEW k \in Nat, RGoto(k)
  PROVE  FitsNext
  <1>1. /\ frames' = Continue(Top.vals, k)
        /\ UNCHANGED <<instructions, functions_v2, envs, closures>>
    BY DEF RGoto, program, objects
  <1> QED BY <1>1, RegistersChanged DEF FitsNext, Fits

LEMMA RegisterSimpleFits ==
  ASSUME CodeFits, NEW own, Fits(own),
         RMove \/ RStoreGlobal \/ RBinary \/ RUnary \/ RGetProp \/ RStoreProp \/ RJump
           \/ RJumpIfFalse \/ RCallBuiltin \/ RCallMissing
  PROVE  FitsNext
  <1>1. Running("register") /\ Top.ip < Len(RFunction.code)
    BY DEF RMove, RStoreGlobal, RBinary, RUnary, RGetProp, RStoreProp, RJump, RJumpIfFalse,
           RCallBuiltin, RCallMissing, RAt
  <1>2. Top.ip + 1 \in Nat
    BY <1>1, RegisterTop
  <1>3. ASSUME NEW a, RWrite(a), UNCHANGED closures PROVE FitsNext
    BY <1>1, <1>3, WriteFits DEF Fits
  <1>4. CASE RMove \/ RGetProp \/ RCallBuiltin
    BY <1>3, <1>4 DEF RMove, RGetProp, RCallBuiltin
  <1>5. CASE RBinary
    <2>1. CASE Defined(RIn.op, R(RIn.a), R(RIn.b), Size(R(RIn.b)))
      BY <1>3, <1>5, <2>1 DEF RBinary
    <2>2. CASE ~Defined(RIn.op, R(RIn.a), R(RIn.b), Size(R(RIn.b)))
      BY <1>5, <2>2, AbortFits DEF RBinary
    <2> QED BY <2>1, <2>2
  <1>6. CASE RUnary
    <2>1. CASE UnaryDefined(RIn.op, R(RIn.a))
      BY <1>3, <1>6, <2>1 DEF RUnary
    <2>2. CASE ~UnaryDefined(RIn.op, R(RIn.a))
      BY <1>6, <2>2, AbortFits DEF RUnary
    <2> QED BY <2>1, <2>2
  <1>7. CASE RStoreGlobal
    BY <1>1, <1>2, <1>7, GotoFits DEF RStoreGlobal
  <1>8. CASE RStoreProp
    <2>1. /\ \E vals : frames' = Continue(vals, Top.ip + 1)
          /\ UNCHANGED <<instructions, functions_v2, envs, closures>>
      BY <1>8 DEF RStoreProp, program
    <2> QED BY <1>1, <1>2, <2>1, RegistersChanged DEF FitsNext, Fits
  <1>9. ASSUME NEW t, RJumping(t) PROVE FitsNext
    <2>1. CASE t \in 0 .. Len(RFunction.code)
      <3>1. t \in Nat /\ RGoto(t)
        BY <1>9, <2>1 DEF RJumping
      <3> QED BY <1>1, <3>1, GotoFits
    <2>2. CASE t \notin 0 .. Len(RFunction.code)
      BY <1>9, <2>2, AbortFits DEF RJumping
    <2> QED BY <2>1, <2>2
  <1>10. CASE RJump
    BY <1>9, <1>10 DEF RJump
  <1>11. CASE RJumpIfFalse
    BY <1>1, <1>2, <1>9, <1>11, GotoFits DEF RJumpIfFalse
  <1>12. CASE RCallMissing
    BY <1>12, AbortFits DEF RCallMissing
  <1> QED BY <1>4, <1>5, <1>6, <1>7, <1>8, <1>10, <1>11, <1>12

\* The translator has kept what a call or a closure is of.
LEMMA RegisterCallFound ==
  ASSUME CodeFits, NEW own, Fits(own), Running("register"), Top.ip < Len(RFunction.code),
         RIn.op \in Callers
  PROVE  /\ RIn.op = "CALL" /\ RIn.name \in DOMAIN instructions =>
              RIn.name \in Outermost(instructions)
         /\ RIn.op = "MAKE_CLOSURE" =>
              /\ RIn.name \in DOMAIN instructions
              /\ instructions[RIn.name].around = <<RIn.name>> \o instructions[Top.fn].around
  <1> DEFINE k == Top.ip + 1
             f == instructions[Top.fn]
  <1>1. Top.fn \in DOMAIN functions_v2 /\ Top.fn \in DOMAIN instructions /\ Top.ip \in Nat
    BY RegisterTop
  <1>2. IsSeq(RFunction.code) /\ CallsKept(RFunction.code, f.code)
    BY <1>1 DEF CodeFits, TranslatedFits, RFunction
  <1>3. k \in 1 .. Len(RFunction.code) /\ RIn = RFunction.code[k]
    BY <1>1, <1>2, IsSeqLen DEF RIn
  <1> HIDE DEF k, f
  <1>4. PICK i \in 1 .. Len(f.code) : f.code[i].op = RIn.op /\ f.code[i].name = RIn.name
    BY <1>2, <1>3 DEF CallsKept, FoundIn
  <1>5. Scoped(instructions, Top.fn)
    BY <1>1, CheckedFunction
  <1>6. /\ f.code[i].op = "MAKE_CLOSURE" =>
             /\ f.code[i].name \in DOMAIN instructions
             /\ instructions[f.code[i].name].around = <<f.code[i].name>> \o f.around
        /\ f.code[i].op = "CALL" /\ f.code[i].name \in DOMAIN instructions =>
             f.code[i].name \in Outermost(instructions)
    BY <1>5 DEF Scoped, f
  <1> QED BY <1>4, <1>6 DEF f

LEMMA RegisterClosureFits ==
  ASSUME CodeFits, NEW own, Fits(own), RMakeClosure
  PROVE  FitsNext
  <1> DEFINE c == [name |-> RIn.name, env |-> Top.env]
  <1>1. /\ Running("register") /\ Top.ip < Len(RFunction.code) /\ RIn.op = "MAKE_CLOSURE"
        /\ closures' = Append(closures, c)
        /\ RWrite(FunctionRef(Len(closures) + 1))
    BY DEF RMakeClosure, RAt
  <1>2. RIn.name \in DOMAIN instructions
        /\ instructions[RIn.name].around = <<RIn.name>> \o instructions[Top.fn].around
    BY <1>1, RegisterCallFound DEF Callers
  <1>3. Top.env \in DOMAIN own /\ own[Top.env] = Top.fn
    BY <1>1, RegisterTop
  <1>4. ClosureFits(c, own)
    BY <1>2, <1>3 DEF ClosureFits
  <1> HIDE DEF c
  <1>5. ClosuresFit(closures', own)
    BY <1>1, <1>4, ClosureAppended DEF Fits
  <1> QED BY <1>1, <1>5, WriteFits

LEMMA RegisterCallFits ==
  ASSUME CodeFits, NEW own, Fits(own), RCallFunction
  PROVE  FitsNext
  <1> DEFINE name == RIn.name
             f == functions_v2[name]
             m == f.frame_size
             slots == Bind(f, m, RArgs)
             g == OnTop(Top.vals, Top.ip + 1)
             h == [NewFrame("register", name, Len(envs) + 1, slots, RArgs) EXCEPT !.dst = RIn.dst]
             own2 == Owned(own, name, Len(envs) + 1)
  <1>1. /\ Running("register") /\ Top.ip < Len(RFunction.code) /\ RIn.op = "CALL"
        /\ name \in DOMAIN functions_v2
        /\ envs' = Append(envs, [parent |-> Top.env, slots |-> slots])
        /\ frames' = Append(Continue(Top.vals, Top.ip + 1), h)
        /\ UNCHANGED <<instructions, functions_v2, closures>>
    BY DEF RCallFunction, RAt, RSuspend, program
  <1>2. /\ name \in DOMAIN instructions /\ m \in Nat /\ m >= instructions[name].size
    BY <1>1 DEF CodeFits, TranslatedFits
  <1>3. name \in Outermost(instructions) /\ ~(Len(instructions[name].around) > 1)
    BY <1>1, <1>2, RegisterCallFound, OutermostAlone DEF Callers
  <1>4. /\ FrameFits(g, 1, own) /\ g.vm = "register"
        /\ frames' = Append(Replaced(frames, Len(frames), g), h)
    <2>1. Top.ip + 1 \in Nat
      BY <1>1, RegisterTop
    <2> QED BY <1>1, <2>1, RegistersChanged
  <1>5. /\ DOMAIN h = {"vm", "fn", "ip", "env", "vals", "dst", "args", "site"}
        /\ h.vm = "register" /\ h.fn = name /\ h.ip = 0 /\ h.env = Len(envs) + 1
        /\ h.site = "other"
    BY DEF NewFrame
  <1>6. /\ EnvsFit(envs', own2) /\ ClosuresFit(closures', own2) /\ FramesFit(frames, own2)
        /\ FrameFits(g, 1, own2)
        /\ Len(envs) + 1 \in DOMAIN own2 /\ own2[Len(envs) + 1] = name
    <2> HIDE DEF m, f, g, h, name
    <2> QED BY <1>1, <1>2, <1>3, <1>4, NewEnvFits DEF Fits
  <1> HIDE DEF g, h, own2, slots, m, name
  <1>7. FrameFits(h, 0, own2)
    BY <1>1, <1>2, <1>3, <1>5, <1>6 DEF FrameFits
  <1>8. frames # <<>> /\ g.vm = frames[Len(frames)].vm
    BY <1>1, <1>4, RegisterTop DEF Top
  <1>9. FramesFit(frames', own2)
    BY <1>4, <1>6, <1>7, <1>8, FramePushed
  <1> QED BY <1>1, <1>6, <1>9 DEF FitsNext

LEMMA RegisterDynamicFits ==
  ASSUME CodeFits, NEW own, Fits(own), RCallDynamic
  PROVE  FitsNext
  <1> DEFINE callee == R(RIn.a)
             c == closures[callee.v]
             name == c.name
             f == instructions[name]
             g == OnTop(Top.vals, Top.ip + 1)
             h == [NewFrame("stack", name, Len(envs) + 1, <<>>, RArgs) EXCEPT !.dst = RIn.dst]
             own2 == Owned(own, name, Len(envs) + 1)
  <1>1. Running("register") /\ Top.ip < Len(RFunction.code)
    BY DEF RCallDynamic, RAt
  <1>2. CASE ~(Callable(callee) /\ (f.variadic \/ RIn.argc <= f.params))
    BY <1>2, AbortFits DEF RCallDynamic
  <1>3. CASE Callable(callee) /\ (f.variadic \/ RIn.argc <= f.params)
    <2>1. /\ envs' = Append(envs, [parent |-> c.env, slots |-> Bind(f, f.size, RArgs)])
          /\ frames' = Append(Continue(Top.vals, Top.ip + 1), h)
          /\ UNCHANGED <<instructions, functions_v2, closures>>
      BY <1>3 DEF RCallDynamic, RSuspend, program
    <2>2. callee.v \in DOMAIN closures
      BY <1>3 DEF Callable
    <2> HIDE DEF callee
    <2>3. /\ name \in DOMAIN instructions
          /\ c.env \in DOMAIN own /\ own[c.env] = instructions[name].around[2]
      BY <2>2, ClosureParent
    <2>4. /\ FrameFits(g, 1, own) /\ g.vm = "register"
          /\ frames' = Append(Replaced(frames, Len(frames), g), h)
      <3>1. Top.ip + 1 \in Nat
        BY <1>1, RegisterTop
      <3> QED BY <1>1, <2>1, <3>1, RegistersChanged
    <2>5. /\ DOMAIN h = {"vm", "fn", "ip", "env", "vals", "dst", "args", "site"}
          /\ h.vm = "stack" /\ h.fn = name /\ h.ip = 0 /\ h.vals = <<>> /\ h.env = Len(envs) + 1
          /\ h.site = "other"
      BY DEF NewFrame
    <2>6. f.size \in Nat
      BY <2>3, CheckedFunction
    <2> HIDE DEF name, c, g, h
    <2>7. /\ EnvsFit(envs', own2) /\ ClosuresFit(closures', own2) /\ FramesFit(frames, own2)
          /\ FrameFits(g, 1, own2)
          /\ Len(envs) + 1 \in DOMAIN own2 /\ own2[Len(envs) + 1] = name
      <3>1. EnvsFit(envs, own) /\ ClosuresFit(closures, own) /\ FramesFit(frames, own)
        BY DEF Fits
      <3>2. f.size >= instructions[name].size
        BY <2>6
      <3>3. /\ EnvsFit(Append(envs, [parent |-> c.env, slots |-> Bind(f, f.size, RArgs)]), own2)
            /\ Len(envs) + 1 \in DOMAIN own2 /\ own2[Len(envs) + 1] = name
            /\ ClosuresFit(closures, own2) /\ FramesFit(frames, own2) /\ FrameFits(g, 1, own2)
        BY <2>3, <2>4, <2>6, <3>1, <3>2, NewEnvFits
      <3> QED BY <2>1, <3>3
    <2> HIDE DEF own2
    <2>8. FrameFits(h, 0, own2)
      BY <2>3, <2>5, <2>7, NewFits
    <2>9. frames # <<>> /\ g.vm = frames[Len(frames)].vm /\ h.vm # "register"
      BY <1>1, <2>4, <2>5, RegisterTop DEF Top
    <2>10. FramesFit(frames', own2)
      BY <2>4, <2>7, <2>8, <2>9, FramePushed
    <2> QED BY <2>1, <2>7, <2>10 DEF FitsNext
  <1> QED BY <1>2, <1>3

\* A value is delivered to an activation of this machine, or to the host.
LEMMA DeliverFits ==
  ASSUME CodeFits, NEW own, Fits(own), frames # <<>>, NEW a, NEW dst, Deliver(a, dst),
         Len(frames) > 1 => frames[Len(frames) - 1].vm = "register"
  PROVE  FitsNext
  <1> DEFINE n == Len(frames) - 1
             v == Stored(frames[n].vals, dst, a)
             g == [frames[n] EXCEPT !.vals = v]
             low == SubSeq(frames, 1, n)
  <1>1. IsSeq(frames) /\ Len(frames) \in Nat \ {0}
    BY TopFits DEF Fits, FramesFit
  <1>2. UNCHANGED <<instructions, functions_v2, closures>>
    BY DEF Deliver, program
  <1>3. CASE n = 0
    <2>1. frames' = <<>> /\ UNCHANGED envs
      BY <1>3 DEF Deliver
    <2> QED BY <1>2, <2>1, NoFrames DEF FitsNext, Fits
  <1>4. CASE n # 0
    <2>1. /\ frames' = [low EXCEPT ![n].vals = Stored(@, dst, a)]
          /\ envs' = [envs EXCEPT ![frames[n].env].slots[dst.index + 1] = a]
      BY <1>4 DEF Deliver, Mirrored
    <2>2. n \in 1 .. Len(frames) - 1 /\ frames[n].vm = "register"
      <3>1. Len(frames) > 1
        BY <1>1, <1>4
      <3> QED BY <1>1, <3>1
    <2>3. FrameFits(frames[n], 1, own)
      BY <1>1, <2>2 DEF Fits, FramesFit
    <2>4. IsSeq(low) /\ Len(low) = n /\ low[n] = frames[n]
      BY <1>1, <2>2, IsSeqFront
    <2>5. n \in DOMAIN low
      BY <2>2, <2>4, IsSeqLen
    <2>6. frames' = Replaced(low, n, g)
      <3> HIDE DEF low
      <3>1. frames' = [low EXCEPT ![n] = [low[n] EXCEPT !.vals = Stored(low[n].vals, dst, a)]]
        BY <2>1, <2>5
      <3> QED BY <2>4, <3>1 DEF Replaced
    <2> HIDE DEF v
    <2>7. /\ g.vm = frames[n].vm /\ g.fn = frames[n].fn /\ g.ip = frames[n].ip
          /\ g.env = frames[n].env /\ g.site = frames[n].site
          /\ DOMAIN g = DOMAIN frames[n]
      BY <2>3 DEF FrameFits
    <2> HIDE DEF g, n, low
    <2>8. FrameFits(g, 0, own)
      BY <2>2, <2>3, <2>7 DEF FrameFits
    <2>9. FramesFit(frames', own)
      BY <2>2, <2>6, <2>7, <2>8, FramePopped DEF Fits, low
    <2>10. EnvsFit(envs', own)
      BY <2>1, SlotChanged DEF Fits
    <2> QED BY <1>2, <2>9, <2>10 DEF FitsNext, Fits
  <1> QED BY <1>3, <1>4

LEMMA MachineHolds ==
  ASSUME CodeFits, NEW own, Fits(own), MachineNext
  PROVE  FitsNext
  <1>1. CASE StackNext
    BY <1>1, StackHolds
  <1>2. CASE SReturnAcross
    <2>1. frames # <<>>
      BY <1>2 DEF SReturnAcross, SFinishes, SAt, Running
    <2> QED BY <1>2, <2>1, DeliverFits DEF SReturnAcross
  <1>3. CASE RReturn \/ RFallOff
    <2>1. Running("register") /\ \E a, dst : Deliver(a, dst)
      BY <1>3 DEF RReturn, RFallOff, RAt
    <2>2. /\ frames # <<>> /\ Len(frames) \in Nat
          /\ \A i \in 1 .. Len(frames) : frames[i].vm = "register"
      BY <2>1, RegisterTop
    <2>3. Len(frames) > 1 => frames[Len(frames) - 1].vm = "register"
      BY <2>2
    <2> QED BY <2>1, <2>2, <2>3, DeliverFits
  <1>4. CASE RMakeClosure
    BY <1>4, RegisterClosureFits
  <1>5. CASE RCallFunction
    BY <1>5, RegisterCallFits
  <1>6. CASE RCallDynamic
    BY <1>6, RegisterDynamicFits
  <1>7. CASE RRefused /\ Abort
    BY <1>7, AbortFits
  <1> QED BY <1>1, <1>2, <1>3, <1>4, <1>5, <1>6, <1>7, RegisterSimpleFits
          DEF MachineNext, RegisterNext

\* The host begins with one activation.
LEMMA RunFits ==
  ASSUME CodeFits, NEW own, Fits(own), NEW vm \in {"register", "stack"},
         NEW name \in Outermost(instructions), name \in DOMAIN functions_v2, Run(vm, name)
  PROVE  FitsNext
  <1> DEFINE f == IF vm = "register" THEN functions_v2[name] ELSE instructions[name]
             m == IF vm = "register" THEN f.frame_size ELSE f.size
             slots == Bind(f, m, <<>>)
             vals == IF vm = "register" THEN slots ELSE <<>>
             h == NewFrame(vm, name, Len(envs) + 1, vals, <<>>)
             own2 == Owned(own, name, Len(envs) + 1)
  <1>1. /\ envs' = Append(envs, [parent |-> 0, slots |-> slots])
        /\ frames' = <<h>>
        /\ UNCHANGED <<instructions, functions_v2, closures>>
    BY DEF Run, program
  <1>2. name \in DOMAIN instructions /\ ~(Len(instructions[name].around) > 1)
    BY OutermostAlone
  <1>3. m \in Nat /\ m >= instructions[name].size
    <2>1. instructions[name].size \in Nat
      BY <1>2, CheckedFunction
    <2>2. functions_v2[name].frame_size \in Nat
          /\ functions_v2[name].frame_size >= instructions[name].size
      BY DEF CodeFits, TranslatedFits
    <2> QED BY <2>1, <2>2
  <1>4. /\ DOMAIN h = {"vm", "fn", "ip", "env", "vals", "dst", "args", "site"}
        /\ h.vm = vm /\ h.fn = name /\ h.ip = 0 /\ h.vals = vals /\ h.env = Len(envs) + 1
        /\ h.site = "other"
    BY DEF NewFrame
  <1>5. vm = "stack" => vals = <<>>
    OBVIOUS
  <1> HIDE DEF f, m, h, vals
  <1>6. /\ EnvsFit(envs', own2) /\ ClosuresFit(closures', own2)
        /\ Len(envs) + 1 \in DOMAIN own2 /\ own2[Len(envs) + 1] = name
    BY <1>1, <1>2, <1>3, NewEnvFits DEF Fits
  <1> HIDE DEF own2, slots
  <1>7. FrameFits(h, 0, own2)
    <2>1. CASE vm = "stack"
      BY <1>2, <1>4, <1>5, <1>6, <2>1, NewFits
    <2>2. CASE vm = "register"
      BY <1>2, <1>4, <1>6, <2>2 DEF FrameFits
    <2> QED BY <2>1, <2>2
  <1> QED BY <1>1, <1>6, <1>7, OneFrame DEF FitsNext

-----------------------------------------------------------------------------
(* The invariant of the pipeline *)

Fresh ==
  /\ ip = 0 /\ code = <<>> /\ slot_overrides = <<>> /\ legacy_to_code = <<>> /\ jumps = {}
  /\ finished = FALSE

Translating ==
  /\ Untranslated # {}
  /\ source = SourceOf(instructions[Chosen])
  /\ IInv
  /\ CallsKept(code, legacy)

PInv ==
  /\ promised /\ Promising(instructions) /\ "main" \in DOMAIN instructions
  /\ entry \in Entries
  /\ phase = "end" => status # "running"
  /\ phase = "load" => Fresh
  /\ phase = "translate" => Translating
  /\ phase \in {"init", "main"} => DOMAIN instructions \subseteq DOMAIN functions_v2
  /\ TranslatedFits
  /\ \E own : Fits(own)

LEMMA PipelineInit == Init => (promised => PInv)
  <1> SUFFICES ASSUME Init, promised PROVE PInv
    OBVIOUS
  <1> DEFINE own == [e \in 1 .. 0 |-> 0]
  <1>1. /\ functions_v2 = <<>> /\ closures = <<>> /\ envs = <<>> /\ frames = <<>>
        /\ Begin(Nothing)
    BY DEF Init
  <1>2. <<>> \in Seq({}) /\ Len(<<>>) = 0 /\ DOMAIN <<>> = {}
    OBVIOUS
  <1>3. IsSeq(<<>>)
    BY <1>2, SeqIsSeq
  <1>4. Fits(own)
    <2>1. own \in [1 .. 0 -> DOMAIN instructions]
      OBVIOUS
    <2> HIDE DEF own
    <2> QED BY <1>1, <1>2, <1>3, <2>1, NoFrames DEF Fits, EnvsFit, ClosuresFit
  <1>5. TranslatedFits
    BY <1>1, <1>2 DEF TranslatedFits
  <1>6. Fresh
    BY <1>1 DEF Fresh, Begin
  <1>7. PICK p \in Programs :
          /\ instructions = p.fns
          /\ promised = (p.ok /\ Promising(p.fns))
          /\ status = IF p.ok THEN "idle" ELSE "error"
          /\ phase = IF p.ok THEN "load" ELSE "end"
    BY DEF Init
  <1>8. entry \in Entries
    BY DEF Init
  <1>9. p.ok /\ Promising(instructions)
    BY <1>7
  <1>10. "main" \in DOMAIN instructions
    BY <1>7, <1>9, PipelineAssumption DEF Accepted
  <1> QED BY <1>4, <1>5, <1>6, <1>7, <1>8, <1>9, <1>10 DEF PInv

LEMMA PromisedCode ==
  ASSUME PInv
  PROVE  /\ CodeFits
         /\ "main" \in DOMAIN instructions
         /\ {InitName, "main"} \cap DOMAIN instructions \subseteq Outermost(instructions)
         /\ \A n \in DOMAIN instructions : SourceOf(instructions[n]) \in Sources
  BY DEF PInv, Promising, CodeFits

\* The invariant of the machines is one of the next state.
LEMMA FitsPrimed ==
  ASSUME FitsNext
  PROVE  /\ \E own : Fits(own)'
         /\ UNCHANGED <<instructions, functions_v2>>
  <1>1. PICK own : EnvsFit(envs', own) /\ ClosuresFit(closures', own) /\ FramesFit(frames', own)
    BY DEF FitsNext
  <1>2. UNCHANGED <<instructions, functions_v2>>
    BY DEF FitsNext
  <1>3. EnvsFit(envs, own)'
    BY <1>1, <1>2 DEF EnvsFit, EnvFits
  <1>4. ClosuresFit(closures, own)'
    BY <1>1, <1>2 DEF ClosuresFit, ClosureFits
  <1>5. FramesFit(frames, own)'
    BY <1>1, <1>2 DEF FramesFit, FrameFits, Outermost
  <1> QED BY <1>2, <1>3, <1>4, <1>5 DEF Fits

-----------------------------------------------------------------------------
(* One step of the pipeline *)

LEMMA BeginPrimed ==
  ASSUME NEW s \in Sources,
         source' = s, ip' = 0, next_slot' = s.size, max_slot' = s.size, code' = <<>>,
         last_def' = [r \in 1 .. s.size |-> -1],
         slot_overrides' = <<>>, legacy_to_code' = <<>>, jumps' = {}, finished' = FALSE
  PROVE  IInv'
  <1>1. TranslateInit'
    BY DEF TranslateInit, Begin
  <1>2. TranslateInit' => IInv'
    BY InitHolds, PTL
  <1> QED BY <1>1, <1>2

LEMMA UnchangedFits ==
  ASSUME NEW own, Fits(own),
         UNCHANGED <<instructions, functions_v2, envs, closures, frames>>
  PROVE  Fits(own)'
  BY DEF Fits, EnvsFit, EnvFits, ClosuresFit, ClosureFits, FramesFit, FrameFits, Outermost

LEMMA LoadHolds == ASSUME PInv, Load PROVE PInv'
  <1>1. /\ phase = "load" /\ phase' = "translate" /\ Untranslated # {}
        /\ UNCHANGED <<instructions, functions_v2, envs, closures, frames, status, entry, promised>>
    BY DEF Load, runtime, program, objects, about
  <1>2. Chosen \in DOMAIN instructions
    BY <1>1 DEF Chosen, Untranslated
  <1>3. SourceOf(instructions[Chosen]) \in Sources
    BY <1>1, <1>2, PromisedCode
  <1>4. Fresh
    BY <1>1 DEF PInv
  <1>5. IInv'
    BY <1>3, <1>4, BeginPrimed DEF Load, Fresh
  <1>6. CallsKept(code', legacy')
    <2>1. code' = <<>>
      BY <1>4 DEF Load, Fresh
    <2> QED BY <2>1 DEF CallsKept
  <1>7. Translating'
    BY <1>1, <1>5, <1>6 DEF Load, Translating, Untranslated, Chosen, CallsKept, FoundIn, SourceOf
  <1>8. TranslatedFits' /\ \E own : Fits(own)'
    BY <1>1, UnchangedFits DEF PInv, TranslatedFits, CallsKept, FoundIn
  <1> QED BY <1>1, <1>7, <1>8 DEF PInv

LEMMA TranslateStepHolds == ASSUME PInv, Translate PROVE PInv'
  <1>1. /\ phase = "translate" /\ TranslateNext
        /\ UNCHANGED <<phase, instructions, functions_v2, envs, closures, frames, status, entry, promised>>
    BY DEF Translate, runtime, program, objects, about
  <1>2. Translating
    BY <1>1 DEF PInv
  <1>3. IInv' /\ CallsKept(code', legacy')
    BY <1>1, <1>2, NextHolds, TranslationKept DEF Translating
  <1>4. source' = source
    <2>1. CASE Scope \/ Produce \/ TranslateUnary \/ TranslateBinary \/ TranslateGetKey
      BY <2>1 DEF Scope, Produce, TranslateUnary, TranslateBinary, TranslateGetKey,
        Result, Step, Advance
    <2>2. CASE TranslatePop \/ StoreLocalRewritten \/ StoreLocalMoved \/ TranslateStoreGlobal
      BY <2>2 DEF TranslatePop, StoreLocalRewritten, StoreLocalMoved, TranslateStoreGlobal,
        Step, Advance
    <2>3. CASE TranslateStoreProp \/ TranslateStoreKey \/ TranslateReturn
      BY <2>3 DEF TranslateStoreProp, TranslateStoreKey, TranslateReturn, Step, Advance
    <2>4. CASE TranslateCall
      BY <2>4 DEF TranslateCall, Result, Step, Advance
    <2>5. CASE TranslateJump \/ TranslateJumpIfFalse
      BY <2>5 DEF TranslateJump, TranslateJumpIfFalse, EmitJump, Advance
    <2>6. CASE FixJumps
      BY <2>6 DEF FixJumps
    <2> QED BY <1>1, <2>1, <2>2, <2>3, <2>4, <2>5, <2>6 DEF TranslateNext
  <1>5. Translating'
    BY <1>1, <1>2, <1>3, <1>4 DEF Translating, Untranslated, Chosen, CallsKept, FoundIn, SourceOf
  <1>6. TranslatedFits' /\ \E own : Fits(own)'
    BY <1>1, UnchangedFits DEF PInv, TranslatedFits, CallsKept, FoundIn
  <1> QED BY <1>1, <1>5, <1>6 DEF PInv

LEMMA RegisterHolds == ASSUME PInv, Register PROVE PInv'
  <1> DEFINE f == instructions[Chosen]
             new == [code |-> code, frame_size |-> max_slot, params |-> f.params,
                     variadic |-> f.variadic]
  <1>1. /\ phase = "translate" /\ phase' = "load"
        /\ functions_v2' = With(functions_v2, Chosen, new)
        /\ UNCHANGED <<instructions, envs, closures, frames, status, entry, promised>>
    BY DEF Register, objects, about
  <1>2. Translating
    BY <1>1 DEF PInv
  <1>3. Chosen \in DOMAIN instructions
    BY <1>2 DEF Translating, Chosen, Untranslated
  <1>4. /\ DOMAIN functions_v2' = DOMAIN functions_v2 \cup {Chosen}
        /\ functions_v2'[Chosen] = new
        /\ \A n \in DOMAIN functions_v2 : n # Chosen => functions_v2'[n] = functions_v2[n]
    BY <1>1 DEF With
  <1>5. /\ IsSeq(code) /\ max_slot \in Nat /\ max_slot >= f.size
        /\ CallsKept(code, f.code)
    <2>1. code \in Seq(Instruction2) /\ max_slot \in Nat
      BY <1>2 DEF Translating, IInv, CodeHolds
    <2>2. source.size = f.size /\ source.code = f.code
      BY <1>2 DEF Translating, SourceOf
    <2>3. source.size \in Nat
      BY <1>2, SourceType DEF Translating, IInv
    <2>4. max_slot >= source.size
      BY <1>2, <2>1, <2>3 DEF Translating, IInv, frame_size
    <2>5. CallsKept(code, source.code)
      BY <1>2 DEF Translating, legacy
    <2> QED BY <2>1, <2>2, <2>4, <2>5, SeqIsSeq
  <1>6. new.code = code /\ new.frame_size = max_slot
    OBVIOUS
  <1> HIDE DEF f, new
  <1>7. TranslatedFits'
    <2> SUFFICES ASSUME NEW n \in DOMAIN functions_v2'
                 PROVE  /\ n \in DOMAIN instructions'
                        /\ functions_v2'[n].frame_size \in Nat
                        /\ functions_v2'[n].frame_size >= instructions'[n].size
                        /\ IsSeq(functions_v2'[n].code)
                        /\ CallsKept(functions_v2'[n].code, instructions'[n].code)
      BY DEF TranslatedFits, CallsKept, FoundIn
    <2>1. CASE n = Chosen
      BY <1>1, <1>3, <1>4, <1>5, <1>6, <2>1 DEF f
    <2>2. CASE n # Chosen
      BY <1>1, <1>4, <2>2 DEF PInv, TranslatedFits
    <2> QED BY <2>1, <2>2
  <1>8. \E own : Fits(own)'
    <2>1. PICK own : Fits(own)
      BY DEF PInv
    <2>2. EnvsFit(envs, own)' /\ ClosuresFit(closures, own)'
      BY <1>1, <2>1 DEF Fits, EnvsFit, EnvFits, ClosuresFit, ClosureFits
    <2>3. FramesFit(frames, own)'
      BY <1>1, <1>4, <2>1 DEF Fits, FramesFit, FrameFits, Outermost
    <2> QED BY <2>2, <2>3 DEF Fits
  <1>9. Fresh'
    BY DEF Register, Fresh
  <1> QED BY <1>1, <1>7, <1>8, <1>9 DEF PInv

LEMMA RunInitHolds == ASSUME PInv, RunInit PROVE PInv'
  <1>1. /\ phase = "load" /\ phase' = "init" /\ Untranslated = {} /\ entry' = entry /\ promised' = promised
        /\ \/ InitName \in DOMAIN instructions /\ Run("register", InitName)
           \/ UNCHANGED runtime
    BY DEF RunInit, about
  <1>2. DOMAIN instructions \subseteq DOMAIN functions_v2
    BY <1>1 DEF Untranslated
  <1>3. PICK own : Fits(own)
    BY DEF PInv
  <1>4. (\E o : Fits(o)') /\ UNCHANGED <<instructions, functions_v2>>
    <2>1. CASE InitName \in DOMAIN instructions /\ Run("register", InitName)
      <3>1. InitName \in Outermost(instructions) /\ CodeFits
        BY <1>1, <2>1, PromisedCode
      <3>2. FitsNext
        BY <1>2, <1>3, <2>1, <3>1, RunFits
      <3> QED BY <3>2, FitsPrimed
    <2>2. CASE UNCHANGED runtime
      BY <1>3, <2>2, UnchangedFits DEF runtime, program, objects
    <2> QED BY <1>1, <2>1, <2>2
  <1>5. TranslatedFits'
    BY <1>4 DEF PInv, TranslatedFits, CallsKept, FoundIn
  <1> QED BY <1>1, <1>2, <1>4, <1>5 DEF PInv

LEMMA RunMainHolds == ASSUME PInv, RunMain PROVE PInv'
  <1>1. /\ phase = "init" /\ phase' = "main" /\ entry' = entry /\ promised' = promised /\ Run(entry, "main")
    BY DEF RunMain, about
  <1>2. DOMAIN instructions \subseteq DOMAIN functions_v2
    BY <1>1 DEF PInv
  <1>3. "main" \in DOMAIN instructions /\ "main" \in Outermost(instructions) /\ CodeFits
    BY <1>1, PromisedCode
  <1>4. entry \in {"register", "stack"}
    BY PipelineAssumption DEF PInv
  <1>5. PICK own : Fits(own)
    BY DEF PInv
  <1>6. FitsNext
    BY <1>1, <1>2, <1>3, <1>4, <1>5, RunFits
  <1>7. (\E o : Fits(o)') /\ UNCHANGED <<instructions, functions_v2>>
    BY <1>6, FitsPrimed
  <1>8. TranslatedFits'
    BY <1>7 DEF PInv, TranslatedFits, CallsKept, FoundIn
  <1> QED BY <1>1, <1>2, <1>7, <1>8 DEF PInv

\* A machine takes a step only while it runs.
LEMMA MachineRuns ==
  ASSUME MachineNext
  PROVE  status = "running" /\ frames # <<>>
  <1>1. (\E ops : RAt(ops) \/ SAt(ops)) \/ Running("register") \/ Running("stack")
        => status = "running" /\ frames # <<>>
    BY DEF RAt, SAt, Running
  <1>2. CASE RMove \/ RStoreGlobal \/ RBinary \/ RUnary \/ RGetProp
    BY <1>1, <1>2 DEF RMove, RStoreGlobal, RBinary, RUnary, RGetProp
  <1>3. CASE RStoreProp \/ RMakeClosure \/ RJump \/ RJumpIfFalse
    BY <1>1, <1>3 DEF RStoreProp, RMakeClosure, RJump, RJumpIfFalse
  <1>4. CASE RCallFunction \/ RCallBuiltin \/ RCallMissing \/ RCallDynamic
    BY <1>1, <1>4 DEF RCallFunction, RCallBuiltin, RCallMissing, RCallDynamic
  <1>5. CASE RReturn \/ RFallOff
    BY <1>1, <1>5 DEF RReturn, RFallOff
  <1>6. CASE Underflow \/ SReturn \/ SReturnAgain \/ SReturnAcross \/ RRefused
    BY <1>1, <1>6 DEF Underflow, SReturn, SReturnAgain, SReturnAcross, SFinishes, RRefused
  <1>7. CASE SLoadLocal \/ SStoreLocal \/ SLoadGlobal \/ SStoreGlobal \/ SPush \/ SPop \/ SScope
    BY <1>1, <1>7 DEF SLoadLocal, SStoreLocal, SLoadGlobal, SStoreGlobal, SPush, SPop, SScope
  <1>8. CASE SBinary \/ SUnary \/ SGetProp \/ SStoreProp \/ SMakeClosure \/ SJump \/ SJumpIfFalse
    BY <1>1, <1>8 DEF SBinary, SUnary, SGetProp, SStoreProp, SMakeClosure, SJump, SJumpIfFalse
  <1>9. CASE SCallBuiltin \/ SCallFunction \/ SCallMissing \/ SCallDynamic
    BY <1>1, <1>9 DEF SCallBuiltin, SCallFunction, SCallMissing, SCallDynamic
  <1> QED BY <1>2, <1>3, <1>4, <1>5, <1>6, <1>7, <1>8, <1>9
          DEF MachineNext, RegisterNext, StackNext

LEMMA ExecuteHolds == ASSUME PInv, Execute PROVE PInv'
  <1>1. MachineNext /\ UNCHANGED <<phase, translation, entry, promised>>
    BY DEF Execute, about
  <1>2. status = "running"
    BY <1>1, MachineRuns
  <1>3. phase # "end"
    BY <1>2 DEF PInv
  <1>4. CodeFits
    BY <1>3, PromisedCode
  <1>5. FitsNext
    BY <1>1, <1>4, MachineHolds DEF PInv
  <1>6. (\E o : Fits(o)') /\ UNCHANGED <<instructions, functions_v2>>
    BY <1>5, FitsPrimed
  <1>7. TranslatedFits'
    BY <1>6 DEF PInv, TranslatedFits, CallsKept, FoundIn
  <1>8. phase = "load" => Fresh'
    BY <1>1 DEF PInv, Fresh, translation
  <1>9. phase = "translate" => Translating'
    <2> SUFFICES ASSUME Translating PROVE Translating'
      BY DEF PInv
    <2>1. IInv' /\ CallsKept(code', legacy')
      BY <1>1, NextHolds, KeptUnchanged DEF Translating, translation
    <2>2. source' = source
      BY <1>1 DEF translation
    <2> QED BY <1>6, <2>1, <2>2 DEF Translating, Untranslated, Chosen, CallsKept, FoundIn, SourceOf
  <1> QED BY <1>1, <1>3, <1>6, <1>7, <1>8, <1>9 DEF PInv

LEMMA FinishHolds == ASSUME PInv, Finish PROVE PInv'
  <1>1. /\ status \in {"done", "error"} /\ phase # "end" /\ phase' = "end"
        /\ UNCHANGED <<instructions, functions_v2, envs, closures, frames, status, entry, promised>>
    BY DEF Finish, runtime, program, objects, about
  <1>2. TranslatedFits' /\ \E own : Fits(own)'
    BY <1>1, UnchangedFits DEF PInv, TranslatedFits, CallsKept, FoundIn
  <1> QED BY <1>1, <1>2 DEF PInv

LEMMA StutterHolds == ASSUME PInv, UNCHANGED vars PROVE PInv'
  <1>1. UNCHANGED <<instructions, functions_v2, envs, closures, frames, status, entry, promised, phase>>
        /\ UNCHANGED translation
    BY DEF vars, runtime, program, objects, about
  <1>2. TranslatedFits' /\ \E own : Fits(own)'
    BY <1>1, UnchangedFits DEF PInv, TranslatedFits, CallsKept, FoundIn
  <1>3. phase = "load" => Fresh'
    BY <1>1 DEF PInv, Fresh, translation
  <1>4. phase = "translate" => Translating'
    <2> SUFFICES ASSUME Translating PROVE Translating'
      BY DEF PInv
    <2>1. IInv' /\ CallsKept(code', legacy') /\ source' = source
      BY <1>1, NextHolds, KeptUnchanged DEF Translating, translation
    <2> QED BY <1>1, <2>1 DEF Translating, Untranslated, Chosen, CallsKept, FoundIn, SourceOf
  <1> QED BY <1>1, <1>2, <1>3, <1>4 DEF PInv

LEMMA PipelineNext == PInv /\ [Next]_vars => PInv'
  <1> SUFFICES ASSUME PInv, [Next]_vars PROVE PInv'
    OBVIOUS
  <1>1. CASE Next
    BY <1>1, LoadHolds, TranslateStepHolds, RegisterHolds, RunInitHolds, ExecuteHolds,
       RunMainHolds, FinishHolds, StutterHolds DEF Next, Done
  <1>2. CASE UNCHANGED vars
    BY <1>2, StutterHolds
  <1> QED BY <1>1, <1>2

\* No step makes a program keep promises or break them.
LEMMA PromiseStays == [Next]_vars => promised' = promised
  BY DEF Next, vars, about, Load, Translate, Register, RunInit, Execute, RunMain, Finish, Done

-----------------------------------------------------------------------------
(* What follows *)

\* Of every program whose code keeps the parser's promises, compiled and
\* translated, each activation has the operands that its address asks for, and
\* the environments around it are of the functions that lie around its
\* function.
THEOREM PipelineInvariant == Spec => [](promised => PInv)
  <1>1. (promised => PInv) /\ [Next]_vars => (promised => PInv)'
    BY PipelineNext, PromiseStays
  <1> QED BY <1>1, PipelineInit, PTL DEF Spec

\* The variable at depth d, slot s of the next instruction is there.
LEMMA SlotThere ==
  ASSUME CodeFits, NEW own, Fits(own), SAt({"LOAD_LOCAL", "STORE_LOCAL"})
  PROVE  Accessible(SIn.depth, SIn.slot)
  <1> DEFINE d == SIn.depth
             s == SIn.slot
             around == SFunction.around
  <1>1. /\ Running("stack") /\ Top.ip < Len(SFunction.code)
        /\ SIn.op \in {"LOAD_LOCAL", "STORE_LOCAL"}
    BY DEF SAt
  <1>2. /\ Top.fn \in DOMAIN instructions /\ Top.env \in DOMAIN own /\ own[Top.env] = Top.fn
        /\ Top.ip \in 0 .. Len(SFunction.code) /\ Len(SFunction.code) \in Nat
    BY <1>1, StackTop
  <1>3. Scoped(instructions, Top.fn) /\ SFunction = instructions[Top.fn]
    BY <1>2, CheckedFunction DEF SFunction
  <1>4. SIn = SFunction.code[Top.ip + 1] /\ Top.ip + 1 \in 1 .. Len(SFunction.code)
    BY <1>1, <1>2 DEF SIn
  <1>5. d < Len(around) /\ s < instructions[around[d + 1]].size
    BY <1>1, <1>3, <1>4 DEF Scoped
  <1>6. SIn \in Instruction
    BY <1>1, StackNextIn
  <1>7. d \in Nat /\ s \in Nat
    BY <1>6 DEF Instruction
  <1>8. EnvAt(d) \in 1 .. Len(envs) /\ own[EnvAt(d)] = around[d + 1]
    BY <1>2, <1>3, <1>5, <1>7, ChainHolds DEF Fits
  <1>9. EnvFits(envs[EnvAt(d)], own[EnvAt(d)], own)
    BY <1>8 DEF Fits, EnvsFit
  <1>10. Len(envs[EnvAt(d)].slots) >= instructions[around[d + 1]].size
         /\ Len(envs[EnvAt(d)].slots) \in Nat
    BY <1>8, <1>9, IsSeqLen DEF EnvFits
  <1>11. instructions[around[d + 1]].size \in Nat
    <2>1. around[d + 1] \in DOMAIN instructions
      BY <1>8 DEF Fits, EnvsFit
    <2> QED BY <2>1, CheckedFunction
  <1>12. EnvAt(d) # 0 /\ s < Len(envs[EnvAt(d)].slots)
    BY <1>5, <1>7, <1>8, <1>10, <1>11
  <1> QED BY <1>12 DEF Accessible

\* Pipeline!OperandsSuffice of all code that keeps the parser's promises:
\* execute_function meets neither an empty operand stack nor a variable that is
\* not there, whichever calls, returns, errors and second attempts come between.
THEOREM OperandsSufficeHolds == Spec => []OperandsSuffice
  <1>1. (promised => PInv) => OperandsSuffice
    <2> SUFFICES ASSUME PInv PROVE OperandsSuffice
      BY DEF OperandsSuffice
    <2>1. CASE ~Running("stack")
      BY <2>1 DEF OperandsSuffice, Underflow, SAt
    <2>2. CASE Running("stack")
      <3>1. PICK own : Fits(own)
        BY DEF PInv
      <3>2. CodeFits
        BY <2>2, PromisedCode DEF PInv, Running
      <3>3. ~Underflow
        <4> SUFFICES ASSUME Top.ip < Len(SFunction.code), Len(Top.vals) < Operands(SIn)
                     PROVE  FALSE
          BY DEF Underflow
        <4>1. Len(Top.vals) >= Operands(SIn) /\ Operands(SIn) \in Nat /\ Len(Top.vals) \in Nat
          BY <2>2, <3>1, <3>2, StackNextIn, StackTop
        <4> QED BY <4>1
      <3> QED BY <3>1, <3>2, <3>3, SlotThere DEF OperandsSuffice
    <2> QED BY <2>1, <2>2
  <1> QED BY <1>1, PipelineInvariant, PTL

\* Pipeline!NothingLeftBehind of all code that keeps the parser's promises: when
\* a function returns or its code ends, there is at most its value on its operand
\* stack.
THEOREM NothingLeftBehindHolds == Spec => []NothingLeftBehind
  <1>1. (promised => PInv) => NothingLeftBehind
    <2> SUFFICES ASSUME PInv, SFinishes PROVE Len(Top.vals) <= 1
      BY DEF NothingLeftBehind
    <2>1. Running("stack")
      BY DEF SFinishes, SAt
    <2>2. PICK own : Fits(own)
      BY DEF PInv
    <2>3. CodeFits
      BY <2>1, PromisedCode DEF PInv, Running
    <2>4. CASE SAt({"RETURN"})
      BY <2>1, <2>2, <2>3, <2>4, StackNextIn DEF SAt
    <2>5. CASE Top.ip >= Len(SFunction.code)
      <3>1. /\ Top.ip \in 0 .. Len(SFunction.code) /\ Len(SFunction.code) \in Nat
            /\ SFunction.operands[Top.ip] = Len(Top.vals) /\ Top.fn \in DOMAIN instructions
        BY <2>1, <2>2, <2>3, StackTop
      <3>2. Top.ip = Len(SFunction.code)
        BY <2>5, <3>1
      <3>3. Balanced(SFunction)
        BY <2>3, <3>1, CheckedFunction DEF SFunction
      <3> QED BY <3>1, <3>2, <3>3 DEF Balanced
    <2> QED BY <2>4, <2>5 DEF SFinishes
  <1> QED BY <1>1, PipelineInvariant, PTL

-----------------------------------------------------------------------------
(* The environments mirror the registers                                   *)

\* No two activations have the same environment.
Apart(fs) == \A i, j \in 1 .. Len(fs) : fs[i].env = fs[j].env => i = j

\* What is in the registers of function n is in the environment, but for the
\* registers that a closure stores to and those where an array has been put.
Alike(n, slots, vals) ==
  /\ IsSeq(slots) /\ IsSeq(vals) /\ Len(slots) = Len(vals)
  /\ \A r \in 1 .. Len(vals) :
       \/ slots[r] = vals[r]
       \/ vals[r].t = "array" /\ slots[r].t # "array"
       \/ StoredInside(n, r - 1)

LEMMA AlikeSelf == ASSUME NEW n, NEW s, IsSeq(s) PROVE Alike(n, s, s)
  BY DEF Alike

LEMMA AlikeWritten ==
  ASSUME NEW n, NEW slots, NEW vals, Alike(n, slots, vals), NEW k, NEW a
  PROVE  Alike(n, Replaced(slots, k, a), Replaced(vals, k, a))
  <1> DEFINE s == Replaced(slots, k, a)
             v == Replaced(vals, k, a)
  <1>1. /\ IsSeq(s) /\ IsSeq(v) /\ Len(s) = Len(slots) /\ Len(v) = Len(vals)
        /\ Len(slots) = Len(vals)
        /\ \A r \in 1 .. Len(slots) : s[r] = IF r = k THEN a ELSE slots[r]
        /\ \A r \in 1 .. Len(vals) : v[r] = IF r = k THEN a ELSE vals[r]
    BY IsSeqReplaced DEF Alike
  <1> HIDE DEF s, v
  <1>2. ASSUME NEW r \in 1 .. Len(v)
        PROVE  s[r] = v[r] \/ (v[r].t = "array" /\ s[r].t # "array") \/ StoredInside(n, r - 1)
    <2>1. CASE r = k
      BY <1>1, <2>1
    <2>2. CASE r # k
      <3>1. s[r] = slots[r] /\ v[r] = vals[r] /\ r \in 1 .. Len(vals)
        BY <1>1, <2>2
      <3> QED BY <3>1 DEF Alike
    <2> QED BY <2>1, <2>2
  <1> QED BY <1>1, <1>2 DEF Alike, s, v

\* A closure has stored to slot k - 1.
LEMMA AlikeStored ==
  ASSUME NEW n, NEW slots, NEW vals, Alike(n, slots, vals), NEW k, NEW a,
         StoredInside(n, k - 1)
  PROVE  Alike(n, Replaced(slots, k, a), vals)
  <1> DEFINE s == Replaced(slots, k, a)
  <1>1. /\ IsSeq(s) /\ Len(s) = Len(slots) /\ Len(slots) = Len(vals) /\ IsSeq(vals)
        /\ \A r \in 1 .. Len(slots) : s[r] = IF r = k THEN a ELSE slots[r]
    BY IsSeqReplaced DEF Alike
  <1> HIDE DEF s
  <1>2. ASSUME NEW r \in 1 .. Len(vals)
        PROVE  \/ s[r] = vals[r]
               \/ vals[r].t = "array" /\ s[r].t # "array"
               \/ StoredInside(n, r - 1)
    <2>1. CASE r = k
      BY <2>1
    <2>2. CASE r # k
      <3>1. s[r] = slots[r]
        BY <1>1, <2>2
      <3> QED BY <3>1 DEF Alike
    <2> QED BY <2>1, <2>2
  <1> QED BY <1>1, <1>2 DEF Alike, s

\* array_set has put array a in place of what was no array.
LEMMA AlikeArray ==
  ASSUME NEW n, NEW slots, NEW vals, Alike(n, slots, vals), NEW k, NEW a,
         a.t = "array", k \in 1 .. Len(vals) => vals[k].t # "array"
  PROVE  Alike(n, slots, Replaced(vals, k, a))
  <1> DEFINE v == Replaced(vals, k, a)
  <1>1. /\ IsSeq(slots) /\ IsSeq(v) /\ Len(v) = Len(vals) /\ Len(slots) = Len(vals)
        /\ \A r \in 1 .. Len(vals) : v[r] = IF r = k THEN a ELSE vals[r]
    BY IsSeqReplaced DEF Alike
  <1> HIDE DEF v
  <1>2. ASSUME NEW r \in 1 .. Len(v)
        PROVE  \/ slots[r] = v[r]
               \/ v[r].t = "array" /\ slots[r].t # "array"
               \/ StoredInside(n, r - 1)
    <2>1. r \in 1 .. Len(vals)
      BY <1>1
    <2>2. \/ slots[r] = vals[r]
          \/ vals[r].t = "array" /\ slots[r].t # "array"
          \/ StoredInside(n, r - 1)
      BY <2>1 DEF Alike
    <2>3. CASE r = k
      <3>1. v[r].t = "array" /\ vals[r].t # "array"
        BY <1>1, <2>1, <2>3
      <3> QED BY <2>2, <3>1
    <2>4. CASE r # k
      <3>1. v[r] = vals[r]
        BY <1>1, <2>1, <2>4
      <3> QED BY <2>2, <3>1
    <2> QED BY <2>3, <2>4
  <1> QED BY <1>1, <1>2 DEF Alike, v

Same(es, fs) ==
  \A i \in 1 .. Len(fs) :
    fs[i].vm = "register" => Alike(fs[i].fn, es[fs[i].env].slots, fs[i].vals)

MInv == Apart(frames) /\ Same(envs, frames)
MInvNext == Apart(frames') /\ Same(envs', frames')

\* Of the activations the n lower ones stay, the topmost of them may change,
\* and one with a new environment may come on top of it.
LEMMA MirrorChanged ==
  ASSUME NEW own, Fits(own), MInv, NEW n \in 0 .. Len(frames),
         Len(frames') \in {n, n + 1},
         \A i \in 1 .. n - 1 : frames'[i] = frames[i],
         \A i \in 1 .. n - 1 :
           frames[i].vm = "register" =>
             Alike(frames[i].fn, envs'[frames[i].env].slots, frames[i].vals),
         n > 0 => /\ frames'[n].env = frames[n].env /\ frames'[n].vm = frames[n].vm
                  /\ frames'[n].fn = frames[n].fn
                  /\ frames[n].vm = "register" =>
                       Alike(frames[n].fn, envs'[frames[n].env].slots, frames'[n].vals),
         Len(frames') = n + 1 =>
           /\ frames'[n + 1].env = Len(envs) + 1
           /\ frames'[n + 1].vm = "register" =>
                Alike(frames'[n + 1].fn, envs'[Len(envs) + 1].slots, frames'[n + 1].vals)
  PROVE  MInvNext
  <1>1. /\ Len(frames) \in Nat /\ Len(envs) \in Nat /\ n \in Nat
        /\ \A i \in 1 .. Len(frames) : frames[i].env \in 1 .. Len(envs)
    <2>1. IsSeq(frames) /\ IsSeq(envs) /\ DOMAIN own = 1 .. Len(envs)
      BY DEF Fits, FramesFit, EnvsFit
    <2>2. Len(frames) \in Nat /\ Len(envs) \in Nat
      BY <2>1, IsSeqLen
    <2>3. \A i \in 1 .. Len(frames) : frames[i].env \in DOMAIN own
      BY DEF Fits, FramesFit, FrameFits
    <2> QED BY <2>1, <2>2, <2>3
  <1>2. ASSUME NEW i \in 1 .. n
        PROVE  /\ i \in 1 .. Len(frames)
               /\ frames'[i].env = frames[i].env /\ frames'[i].vm = frames[i].vm
               /\ frames'[i].env \in 1 .. Len(envs)
    <2>1. i \in 1 .. Len(frames) /\ (i # n => i \in 1 .. n - 1) /\ n > 0
      BY <1>1
    <2>2. frames'[i].env = frames[i].env /\ frames'[i].vm = frames[i].vm
      BY <2>1
    <2> QED BY <1>1, <2>1, <2>2
  <1>3. ASSUME NEW i \in 1 .. n, frames'[i].vm = "register"
        PROVE  Alike(frames'[i].fn, envs'[frames'[i].env].slots, frames'[i].vals)
    <2>1. CASE i = n
      BY <1>2, <1>3, <2>1
    <2>2. CASE i # n
      <3>1. frames'[i] = frames[i] /\ i \in 1 .. n - 1
        BY <1>1, <2>2
      <3> QED BY <1>3, <3>1
    <2> QED BY <2>1, <2>2
  <1>4. ASSUME NEW i \in 1 .. Len(frames'), i \notin 1 .. n
        PROVE  Len(frames') = n + 1 /\ i = n + 1
    BY <1>1, <1>4
  <1>5. ASSUME NEW i \in 1 .. Len(frames'), NEW j \in 1 .. Len(frames'),
               frames'[i].env = frames'[j].env
        PROVE  i = j
    <2>1. CASE i \in 1 .. n /\ j \in 1 .. n
      BY <1>2, <1>5, <2>1 DEF MInv, Apart
    <2>2. CASE i \in 1 .. n /\ j \notin 1 .. n
      BY <1>1, <1>2, <1>4, <1>5, <2>2
    <2>3. CASE i \notin 1 .. n /\ j \in 1 .. n
      BY <1>1, <1>2, <1>4, <1>5, <2>3
    <2>4. CASE i \notin 1 .. n /\ j \notin 1 .. n
      BY <1>4, <2>4
    <2> QED BY <2>1, <2>2, <2>3, <2>4
  <1>6. ASSUME NEW i \in 1 .. Len(frames'), frames'[i].vm = "register"
        PROVE  Alike(frames'[i].fn, envs'[frames'[i].env].slots, frames'[i].vals)
    BY <1>3, <1>4, <1>6
  <1> QED BY <1>5, <1>6 DEF MInvNext, Apart, Same

\* No environment that was there is written to but that of activation n.
LEMMA MirrorKept ==
  ASSUME NEW own, Fits(own), MInv, NEW n \in 0 .. Len(frames),
         Len(frames') \in {n, n + 1},
         \A i \in 1 .. n - 1 : frames'[i] = frames[i],
         n > 0 => /\ frames'[n].env = frames[n].env /\ frames'[n].vm = frames[n].vm
                  /\ frames'[n].fn = frames[n].fn
                  /\ frames[n].vm = "register" =>
                       Alike(frames[n].fn, envs'[frames[n].env].slots, frames'[n].vals),
         \A e \in 1 .. Len(envs) :
           (n > 0 => e # frames[n].env) => envs'[e].slots = envs[e].slots,
         Len(frames') = n + 1 =>
           /\ frames'[n + 1].env = Len(envs) + 1
           /\ frames'[n + 1].vm = "register" =>
                Alike(frames'[n + 1].fn, envs'[Len(envs) + 1].slots, frames'[n + 1].vals)
  PROVE  MInvNext
  <1>1. /\ Len(frames) \in Nat /\ n \in Nat
        /\ \A i \in 1 .. Len(frames) : frames[i].env \in 1 .. Len(envs)
    <2>1. IsSeq(frames) /\ DOMAIN own = 1 .. Len(envs)
      BY DEF Fits, FramesFit, EnvsFit
    <2>2. \A i \in 1 .. Len(frames) : frames[i].env \in DOMAIN own
      BY DEF Fits, FramesFit, FrameFits
    <2> QED BY <2>1, <2>2, IsSeqLen
  <1>2. ASSUME NEW i \in 1 .. n - 1, frames[i].vm = "register"
        PROVE  Alike(frames[i].fn, envs'[frames[i].env].slots, frames[i].vals)
    <2>1. /\ i \in 1 .. Len(frames) /\ n \in 1 .. Len(frames) /\ n > 0 /\ i # n
      BY <1>1
    <2>2. frames[i].env # frames[n].env
      BY <2>1 DEF MInv, Apart
    <2>3. envs'[frames[i].env].slots = envs[frames[i].env].slots
      BY <1>1, <2>1, <2>2
    <2> QED BY <1>2, <2>1, <2>3 DEF MInv, Same
  <1> QED BY <1>2, MirrorChanged

\* A slot of environment e is written.
LEMMA SlotWritten ==
  ASSUME NEW own, EnvsFit(envs, own), NEW e \in 1 .. Len(envs), NEW k, NEW a,
         envs' = [envs EXCEPT ![e].slots[k] = a]
  PROVE  /\ envs'[e].slots = Replaced(envs[e].slots, k, a)
         /\ \A d \in 1 .. Len(envs) : d # e => envs'[d].slots = envs[d].slots
  <1>1. DOMAIN envs = 1 .. Len(envs)
    BY IsSeqLen DEF EnvsFit
  <1>2. "slots" \in DOMAIN envs[e]
    BY DEF EnvsFit, EnvFits
  <1> QED BY <1>1, <1>2 DEF Replaced

\* A new environment leaves the others alone.
LEMMA EnvAdded ==
  ASSUME NEW own, EnvsFit(envs, own), NEW v, envs' = Append(envs, v)
  PROVE  /\ envs'[Len(envs) + 1] = v
         /\ \A d \in 1 .. Len(envs) : envs'[d].slots = envs[d].slots
  <1>1. IsSeq(envs)
    BY DEF EnvsFit
  <1> QED BY <1>1, IsSeqAppend

\* The topmost activation goes on.
LEMMA TopMirrored ==
  ASSUME NEW own, Fits(own), MInv, frames # <<>>, NEW vals, NEW k, frames' = Continue(vals, k),
         \A e \in 1 .. Len(envs) : e # Top.env => envs'[e].slots = envs[e].slots,
         Top.vm = "register" => Alike(Top.fn, envs'[Top.env].slots, vals)
  PROVE  MInvNext
  <1> DEFINE n == Len(frames)
             g == OnTop(vals, k)
  <1>1. /\ frames' = Replaced(frames, n, g) /\ g.vm = Top.vm /\ g.env = Top.env /\ g.vals = vals
        /\ g.fn = Top.fn
    BY Continued DEF Fits
  <1>2. IsSeq(frames) /\ n \in Nat \ {0}
    BY TopFits DEF Fits, FramesFit
  <1> HIDE DEF g
  <1>3. Len(frames') = n /\ \A i \in 1 .. n : frames'[i] = IF i = n THEN g ELSE frames[i]
    BY <1>1, <1>2, IsSeqReplaced
  <1>4. n \in 0 .. Len(frames) /\ n > 0 /\ n \in 1 .. n /\ Top = frames[n]
    BY <1>2 DEF Top
  <1>5. /\ \A i \in 1 .. n - 1 : frames'[i] = frames[i]
        /\ frames'[n].env = frames[n].env /\ frames'[n].vm = frames[n].vm
        /\ frames'[n].fn = frames[n].fn
        /\ frames[n].vm = "register" =>
             Alike(frames[n].fn, envs'[frames[n].env].slots, frames'[n].vals)
    BY <1>1, <1>2, <1>3, <1>4
  <1>6. \A e \in 1 .. Len(envs) : e # frames[n].env => envs'[e].slots = envs[e].slots
    BY <1>4
  <1>7. Len(frames') # n + 1
    BY <1>2, <1>3
  <1> HIDE DEF n
  <1> QED BY <1>3, <1>4, <1>5, <1>6, <1>7, MirrorKept

\* One with an environment of its own comes on top of it.
LEMMA PushMirrored ==
  ASSUME NEW own, Fits(own), MInv, frames # <<>>, NEW vals, NEW k, NEW h, NEW v,
         frames' = Append(Continue(vals, k), h), envs' = Append(envs, v),
         Top.vm = "register" => vals = Top.vals,
         h.env = Len(envs) + 1, h.vm = "register" => Alike(h.fn, v.slots, h.vals)
  PROVE  MInvNext
  <1> DEFINE n == Len(frames)
             g == OnTop(vals, k)
             low == Continue(vals, k)
  <1>1. /\ low = Replaced(frames, n, g) /\ g.vm = Top.vm /\ g.env = Top.env /\ g.vals = vals
        /\ g.fn = Top.fn
    BY Continued DEF Fits
  <1>2. IsSeq(frames) /\ n \in Nat \ {0}
    BY TopFits DEF Fits, FramesFit
  <1> HIDE DEF g, low
  <1>3. IsSeq(low) /\ Len(low) = n /\ \A i \in 1 .. n : low[i] = IF i = n THEN g ELSE frames[i]
    BY <1>1, <1>2, IsSeqReplaced
  <1>4. Len(frames') = n + 1 /\ frames'[n + 1] = h /\ \A i \in 1 .. n : frames'[i] = low[i]
    BY <1>3, IsSeqAppend DEF low
  <1>5. n \in 0 .. Len(frames) /\ n > 0 /\ n \in 1 .. n /\ Top = frames[n]
    BY <1>2 DEF Top
  <1>6. /\ envs'[Len(envs) + 1] = v
        /\ \A d \in 1 .. Len(envs) : envs'[d].slots = envs[d].slots
    BY EnvAdded DEF Fits
  <1>7. /\ \A i \in 1 .. n - 1 : frames'[i] = frames[i]
        /\ frames'[n].env = frames[n].env /\ frames'[n].vm = frames[n].vm
        /\ frames'[n].fn = frames[n].fn /\ frames'[n].vals = vals
    BY <1>1, <1>2, <1>3, <1>4, <1>5
  <1>8. frames[n].vm = "register" =>
          Alike(frames[n].fn, envs'[frames[n].env].slots, frames'[n].vals)
    <2>1. frames[n].env \in 1 .. Len(envs)
      BY <1>5, TopFits DEF Fits, FrameFits, EnvsFit
    <2> QED BY <1>5, <1>6, <1>7, <2>1 DEF MInv, Same
  <1>9. /\ frames'[n + 1].env = Len(envs) + 1
        /\ frames'[n + 1].vm = "register" =>
             Alike(frames'[n + 1].fn, envs'[Len(envs) + 1].slots, frames'[n + 1].vals)
    BY <1>4, <1>6
  <1> HIDE DEF n
  <1> QED BY <1>4, <1>5, <1>6, <1>7, <1>8, <1>9, MirrorKept

\* An error, with or without a call to make again.
LEMMA AbortMirrored ==
  ASSUME NEW own, Fits(own), MInv, Abort
  PROVE  MInvNext
  <1> DEFINE I == {i \in DOMAIN frames : frames[i].site = "cached"}
  <1>1. IsSeq(frames) /\ Len(frames) \in Nat /\ DOMAIN frames = 1 .. Len(frames)
    BY IsSeqLen DEF Fits, FramesFit
  <1>2. CASE I = {}
    <2>1. frames' = <<>>
      BY <1>2 DEF Abort
    <2> QED BY <2>1 DEF MInvNext, Apart, Same
  <1>3. CASE I # {}
    <2> DEFINE i == CHOOSE i \in I : \A j \in I : j <= i
    <2>1. CallAgain(i)
      BY <1>3 DEF Abort
    <2>2. i \in I
      <3>1. I \in SUBSET (1 .. Len(frames))
        BY <1>1
      <3> HIDE DEF I
      <3> QED BY <1>1, <1>3, <3>1, LastOf
    <2> HIDE DEF i
    <2>3. i \in 1 .. Len(frames)
      BY <1>1, <2>2
    <2> DEFINE f == instructions[frames[i].fn]
               v == [parent |-> 0, slots |-> Bind(f, f.size, frames[i].args)]
               h == [NewFrame("stack", frames[i].fn, Len(envs) + 1, <<>>, frames[i].args)
                       EXCEPT !.site = "again"]
               low == SubSeq(frames, 1, i - 1)
    <2>4. envs' = Append(envs, v) /\ frames' = Append(low, h)
      BY <2>1 DEF CallAgain
    <2>5. h.vm = "stack" /\ h.env = Len(envs) + 1
      BY DEF NewFrame
    <2> HIDE DEF v, h
    <2>6. \A d \in 1 .. Len(envs) : envs'[d].slots = envs[d].slots
      BY <2>4, EnvAdded DEF Fits
    <2>7. IsSeq(low) /\ Len(low) = i - 1 /\ \A j \in 1 .. i - 1 : low[j] = frames[j]
      <3>1. i - 1 \in 0 .. Len(frames)
        BY <1>1, <2>3
      <3> QED BY <1>1, <3>1, IsSeqFront
    <2> HIDE DEF low
    <2>8. /\ Len(frames') = i /\ frames'[i] = h /\ \A j \in 1 .. i - 1 : frames'[j] = frames[j]
      <3>1. /\ Len(frames') = (i - 1) + 1 /\ frames'[(i - 1) + 1] = h
            /\ \A j \in 1 .. i - 1 : frames'[j] = low[j]
        BY <2>4, <2>7, IsSeqAppend
      <3> QED BY <1>1, <2>3, <2>7, <3>1
    <2> DEFINE n == i - 1
    <2>9. n \in 0 .. Len(frames) /\ n + 1 = i /\ (n > 0 => n \in 1 .. n /\ n \in 1 .. Len(frames))
      BY <1>1, <2>3
    <2>10. n > 0 => frames[n].env \in 1 .. Len(envs)
      BY <2>9 DEF Fits, FramesFit, FrameFits, EnvsFit
    <2>11. n > 0 => /\ frames'[n] = frames[n]
                    /\ frames[n].vm = "register" =>
                         Alike(frames[n].fn, envs'[frames[n].env].slots, frames'[n].vals)
      BY <2>6, <2>8, <2>9, <2>10 DEF MInv, Same
    <2>12. \A j \in 1 .. n - 1 : j \in 1 .. n
      BY <2>9
    <2> HIDE DEF n
    <2> QED BY <2>5, <2>6, <2>8, <2>9, <2>11, <2>12, MirrorKept DEF n
  <1> QED BY <1>2, <1>3

\* No step out leads to the environment of the activation itself.
LEMMA EnvAtNone == EnvAt(0) = Top.env
  <1>1. PICK up : IsUp(up, 0) /\ EnvAt(0) = up[0]
    BY EnvAtIsUp
  <1> QED BY <1>1 DEF IsUp

LEMMA StackStepMirrored ==
  ASSUME NEW own, Fits(own), MInv, Running("stack"), NEW vals, NEW k,
         frames' = Continue(vals, k), UNCHANGED envs
  PROVE  MInvNext
  <1>1. frames # <<>> /\ Top.vm # "register"
    BY DEF Running
  <1> QED BY <1>1, TopMirrored

LEMMA ResumeMirrored ==
  ASSUME NEW own, Fits(own), MInv, Running("stack"), NEW vals, Resume(vals), UNCHANGED envs
  PROVE  MInvNext
  BY StackStepMirrored DEF Resume

\* STORE_LOCAL writes to the environment of the activation, or else to one of a
\* function around it, whose registers do not count any more.
LEMMA StoreLocalMirrored ==
  ASSUME CodeFits, NEW own, Fits(own), MInv, SStoreLocal
  PROVE  MInvNext
  <1>1. SAt({"STORE_LOCAL"}) /\ Running("stack")
    BY DEF SStoreLocal, SAt
  <1>2. CASE Accessible(SIn.depth, SIn.slot)
    <2> DEFINE e == EnvAt(SIn.depth)
               k == SIn.slot + 1
               a == Tops(1)[1]
               n == Len(frames)
               around == SFunction.around
    <2>1. /\ envs' = [envs EXCEPT ![e].slots[k] = a]
          /\ frames' = Continue(Under(1), Top.ip + 1)
      BY <1>2 DEF SStoreLocal, Resume
    <2>2. /\ Top.ip < Len(SFunction.code) /\ SIn.op = "STORE_LOCAL" /\ Top.vm = "stack"
          /\ Top.fn \in DOMAIN instructions /\ Top.env \in DOMAIN own /\ own[Top.env] = Top.fn
          /\ Top.ip \in 0 .. Len(SFunction.code) /\ Len(SFunction.code) \in Nat
          /\ SIn \in Instruction /\ n \in Nat \ {0} /\ frames # <<>>
      BY <1>1, StackTop, StackNextIn DEF SAt
    <2>3. Scoped(instructions, Top.fn) /\ SFunction = instructions[Top.fn]
      BY <2>2, CheckedFunction DEF SFunction
    <2>4. SIn = SFunction.code[Top.ip + 1] /\ Top.ip + 1 \in 1 .. Len(SFunction.code)
      BY <2>2 DEF SIn
    <2>5. SIn.depth < Len(around)
      BY <2>2, <2>3, <2>4 DEF Scoped
    <2>6. SIn.depth \in Nat /\ SIn.slot \in Nat
      BY <2>2 DEF Instruction
    <2>7. e \in 1 .. Len(envs) /\ own[e] = around[SIn.depth + 1]
      BY <2>2, <2>3, <2>5, <2>6, ChainHolds DEF Fits
    <2>8. SIn.depth > 0 => StoredInside(own[e], k - 1)
      <3>1. Top.ip + 1 \in DOMAIN instructions[Top.fn].code
        BY <2>2, <2>3, <2>4, CheckedFunction
      <3>2. k - 1 = SIn.slot
        BY <2>6
      <3> HIDE DEF k, e
      <3> QED BY <2>2, <2>3, <2>4, <2>7, <3>1, <3>2 DEF StoredInside
    <2>9. SIn.depth = 0 => e = Top.env
      BY EnvAtNone
    <2> HIDE DEF e, k, a
    <2>10. /\ envs'[e].slots = Replaced(envs[e].slots, k, a)
           /\ \A d \in 1 .. Len(envs) : d # e => envs'[d].slots = envs[d].slots
      BY <2>1, <2>7, SlotWritten DEF Fits
    <2>11. /\ Len(frames') = n /\ \A i \in 1 .. n - 1 : frames'[i] = frames[i]
           /\ frames'[n].env = frames[n].env /\ frames'[n].vm = frames[n].vm
           /\ frames'[n].fn = frames[n].fn /\ frames[n] = Top
      <3> DEFINE g == OnTop(Under(1), Top.ip + 1)
      <3>1. /\ frames' = Replaced(frames, n, g) /\ g.vm = Top.vm /\ g.env = Top.env
            /\ g.fn = Top.fn /\ IsSeq(frames)
        <4>1. FramesFit(frames, own) /\ IsSeq(frames)
          BY DEF Fits, FramesFit
        <4> QED BY <2>1, <2>2, <4>1, Continued
      <3> HIDE DEF g
      <3>2. Len(frames') = n /\ \A i \in 1 .. n : frames'[i] = IF i = n THEN g ELSE frames[i]
        BY <3>1, IsSeqReplaced
      <3> QED BY <2>2, <3>1, <3>2 DEF Top
    <2>12. ASSUME NEW i \in 1 .. n - 1, frames[i].vm = "register"
           PROVE  Alike(frames[i].fn, envs'[frames[i].env].slots, frames[i].vals)
      <3>1. i \in 1 .. n /\ i # n /\ n \in 1 .. n
        BY <2>2
      <3>2. /\ frames[i].env \in 1 .. Len(envs) /\ own[frames[i].env] = frames[i].fn
            /\ Alike(frames[i].fn, envs[frames[i].env].slots, frames[i].vals)
        BY <2>12, <3>1 DEF Fits, FramesFit, FrameFits, EnvsFit, MInv, Same
      <3>3. CASE frames[i].env # e
        BY <2>10, <3>2, <3>3
      <3>4. CASE frames[i].env = e
        <4>1. frames[i].env # Top.env
          BY <2>11, <3>1 DEF MInv, Apart
        <4>2. SIn.depth > 0
          BY <2>6, <2>9, <3>4, <4>1
        <4>3. StoredInside(frames[i].fn, k - 1)
          BY <2>8, <3>2, <3>4, <4>2
        <4> QED BY <2>10, <3>2, <3>4, <4>3, AlikeStored
      <3> QED BY <3>3, <3>4
    <2>13. n \in 0 .. Len(frames) /\ Len(frames') # n + 1 /\ n > 0 /\ frames[n].vm # "register"
      BY <2>2, <2>11
    <2> HIDE DEF n
    <2> QED BY <2>11, <2>12, <2>13, MirrorChanged
  <1>3. CASE ~Accessible(SIn.depth, SIn.slot)
    BY <1>3, AbortMirrored DEF SStoreLocal
  <1> QED BY <1>2, <1>3

LEMMA StackMirrored ==
  ASSUME CodeFits, NEW own, Fits(own), MInv, StackNext
  PROVE  MInvNext
  <1>1. CASE Underflow
    BY <1>1, AbortMirrored DEF StackNext
  <1>2. CASE SStoreLocal
    BY <1>2, StoreLocalMirrored
  <1>3. CASE SLoadLocal \/ SLoadGlobal \/ SStoreGlobal
    BY <1>3, ResumeMirrored, AbortMirrored
       DEF SLoadLocal, SLoadGlobal, SStoreGlobal, SAt, objects
  <1>4. CASE SPush \/ SPop \/ SScope \/ SGetProp
    BY <1>4, ResumeMirrored DEF SPush, SPop, SScope, SGetProp, SAt, objects
  <1>5. CASE SBinary \/ SUnary \/ SStoreProp
    BY <1>5, ResumeMirrored, AbortMirrored DEF SBinary, SUnary, SStoreProp, SAt, objects
  <1>6. CASE SMakeClosure
    BY <1>6, ResumeMirrored DEF SMakeClosure, SAt
  <1>7. CASE SJump \/ SJumpIfFalse
    BY <1>7, StackStepMirrored DEF SJump, SJumpIfFalse, SAt, objects
  <1>8. CASE SCallBuiltin
    BY <1>8, ResumeMirrored, AbortMirrored DEF SCallBuiltin, SAt
  <1>9. ASSUME NEW name, NEW parent, NEW n, NEW how, SActivate(name, parent, n, how),
               Running("stack")
        PROVE  MInvNext
    <2> DEFINE f == instructions[name]
               args == Tops(SIn.argc)
               v == [parent |-> parent, slots |-> Bind(f, f.size, args)]
               h == [NewFrame("stack", name, Len(envs) + 1, <<>>, args) EXCEPT !.site = how]
    <2>1. CASE f.variadic \/ SIn.argc <= f.params
      <3>1. /\ envs' = Append(envs, v)
            /\ frames' = Append(Continue(Under(n), Top.ip + 1), h)
        BY <1>9, <2>1 DEF SActivate
      <3>2. h.vm # "register" /\ h.env = Len(envs) + 1
        BY DEF NewFrame
      <3>3. frames # <<>> /\ Top.vm # "register"
        BY <1>9 DEF Running
      <3> HIDE DEF v, h
      <3> QED BY <3>1, <3>2, <3>3, PushMirrored
    <2>2. CASE ~(f.variadic \/ SIn.argc <= f.params)
      BY <1>9, <2>2, AbortMirrored DEF SActivate
    <2> QED BY <2>1, <2>2
  <1>10. CASE SCallFunction \/ SCallMissing \/ SCallDynamic
    BY <1>9, <1>10, AbortMirrored DEF SCallFunction, SCallMissing, SCallDynamic, SAt
  <1>11. CASE SReturn
    <2> DEFINE n == Len(frames) - 1
               g == [frames[n] EXCEPT !.vals = Append(@, ReturnValue)]
               low == SubSeq(frames, 1, n)
    <2>1. /\ Running("stack") /\ n > 0 /\ frames[n].vm = "stack" /\ UNCHANGED envs
          /\ frames' = [low EXCEPT ![n].vals = Append(@, ReturnValue)]
      BY <1>11 DEF SReturn, SFinishes, SAt, objects, Front
    <2>2. IsSeq(frames) /\ Len(frames) \in Nat \ {0} /\ n \in 1 .. Len(frames)
      BY <2>1, StackTop DEF Fits, FramesFit
    <2>3. DOMAIN frames[n] = {"vm", "fn", "ip", "env", "vals", "dst", "args", "site"}
      BY <2>2 DEF Fits, FramesFit, FrameFits
    <2>4. IsSeq(low) /\ Len(low) = n /\ DOMAIN low = 1 .. n /\ \A i \in 1 .. n : low[i] = frames[i]
      BY <2>2, IsSeqFront, IsSeqLen
    <2>0. n \in 1 .. n /\ n \in Nat /\ n \in DOMAIN low
      BY <2>2, <2>4
    <2> HIDE DEF low, n
    <2>5. frames' = Replaced(low, n, g)
      <3>1. frames' = [low EXCEPT ![n] = [low[n] EXCEPT !.vals = Append(@, ReturnValue)]]
        BY <2>0, <2>1
      <3> QED BY <2>0, <2>4, <3>1 DEF Replaced
    <2>6. g.env = frames[n].env /\ g.vm = frames[n].vm /\ g.fn = frames[n].fn
      BY <2>3
    <2> HIDE DEF g
    <2>7. Len(frames') = n /\ \A i \in 1 .. n : frames'[i] = IF i = n THEN g ELSE frames[i]
      <3>1. Len(frames') = Len(low) /\ \A i \in 1 .. Len(low) : frames'[i] = IF i = n THEN g ELSE low[i]
        BY <2>4, <2>5, IsSeqReplaced
      <3> QED BY <2>4, <3>1
    <2>8. /\ frames'[n].env = frames[n].env /\ frames'[n].vm = frames[n].vm
          /\ frames'[n].fn = frames[n].fn
          /\ \A i \in 1 .. n - 1 : frames'[i] = frames[i]
      BY <2>0, <2>6, <2>7
    <2>9. Len(frames') # n + 1 /\ n \in 0 .. Len(frames) /\ n > 0
      BY <2>0, <2>2, <2>7
    <2>10. frames[n].vm # "register" /\ UNCHANGED envs
      BY <2>1
    <2> QED BY <2>7, <2>8, <2>9, <2>10, MirrorKept
  <1>12. CASE SReturnAgain
    BY <1>12, AbortMirrored DEF SReturnAgain
  <1> QED BY <1>1, <1>2, <1>3, <1>4, <1>5, <1>6, <1>7, <1>8, <1>10, <1>11, <1>12 DEF StackNext

-----------------------------------------------------------------------------
(* The register machine *)

LEMMA WriteMirrored ==
  ASSUME CodeFits, NEW own, Fits(own), MInv, Running("register"), NEW a, RWrite(a)
  PROVE  MInvNext
  <1> DEFINE e == Top.env
             k == RIn.dst.index + 1
  <1>1. /\ frames' = Continue(Replaced(Top.vals, k, a), Top.ip + 1)
        /\ envs' = [envs EXCEPT ![e].slots[k] = a]
    BY DEF RWrite, Mirrored, Stored, Replaced
  <1>2. /\ e \in 1 .. Len(envs) /\ frames # <<>> /\ Top.vm = "register"
        /\ Len(frames) \in 1 .. Len(frames)
    BY RegisterTop DEF Fits, EnvsFit
  <1>3. Alike(Top.fn, envs[e].slots, Top.vals)
    BY <1>2 DEF MInv, Same, Top
  <1> HIDE DEF e, k
  <1>4. /\ envs'[e].slots = Replaced(envs[e].slots, k, a)
        /\ \A d \in 1 .. Len(envs) : d # e => envs'[d].slots = envs[d].slots
    BY <1>1, <1>2, SlotWritten DEF Fits
  <1>5. Alike(Top.fn, envs'[e].slots, Replaced(Top.vals, k, a))
    BY <1>3, <1>4, AlikeWritten
  <1> QED BY <1>1, <1>2, <1>4, <1>5, TopMirrored DEF e

LEMMA GotoMirrored ==
  ASSUME CodeFits, NEW own, Fits(own), MInv, Running("register"), NEW k,
         frames' = Continue(Top.vals, k), UNCHANGED envs
  PROVE  MInvNext
  <1>1. Len(frames) \in 1 .. Len(frames) /\ frames # <<>> /\ Top.vm = "register"
    BY RegisterTop
  <1>2. Alike(Top.fn, envs[Top.env].slots, Top.vals)
    BY <1>1 DEF MInv, Same, Top
  <1> QED BY <1>1, <1>2, TopMirrored

LEMMA RegisterSimpleMirrored ==
  ASSUME CodeFits, NEW own, Fits(own), MInv,
         RMove \/ RStoreGlobal \/ RBinary \/ RUnary \/ RGetProp \/ RStoreProp \/ RMakeClosure
           \/ RJump \/ RJumpIfFalse \/ RCallBuiltin \/ RCallMissing
  PROVE  MInvNext
  <1>1. Running("register")
    BY DEF RMove, RStoreGlobal, RBinary, RUnary, RGetProp, RStoreProp, RMakeClosure, RJump,
           RJumpIfFalse, RCallBuiltin, RCallMissing, RAt
  <1>2. ASSUME NEW a, RWrite(a) PROVE MInvNext
    BY <1>1, <1>2, WriteMirrored
  <1>3. ASSUME NEW k, RGoto(k) PROVE MInvNext
    BY <1>1, <1>3, GotoMirrored DEF RGoto, objects
  <1>4. CASE RMove \/ RGetProp \/ RMakeClosure \/ RCallBuiltin
    BY <1>2, <1>4 DEF RMove, RGetProp, RMakeClosure, RCallBuiltin
  <1>5. CASE RBinary \/ RUnary
    BY <1>2, <1>5, AbortMirrored DEF RBinary, RUnary
  <1>6. CASE RStoreGlobal
    BY <1>3, <1>6 DEF RStoreGlobal
  <1>7. CASE RStoreProp
    <2>1. UNCHANGED envs
      BY <1>7 DEF RStoreProp
    <2>2. CASE R(RIn.dst).t = "array"
      <3>1. frames' = Continue(Top.vals, Top.ip + 1)
        BY <1>7, <2>2 DEF RStoreProp
      <3> QED BY <1>1, <2>1, <3>1, GotoMirrored
    <2>3. CASE R(RIn.dst).t # "array"
      <3> DEFINE k == RIn.dst.index + 1
                 a == ArrayRef(Len(arrays) + 1)
      <3>1. frames' = Continue(Replaced(Top.vals, k, a), Top.ip + 1)
        BY <1>7, <2>3 DEF RStoreProp, Stored, Replaced
      <3>2. Top.vals[k].t # "array" /\ a.t = "array"
        BY <2>3 DEF R, ArrayRef
      <3>3. Len(frames) \in 1 .. Len(frames) /\ frames # <<>> /\ Top.vm = "register"
        BY <1>1, RegisterTop
      <3>4. Alike(Top.fn, envs[Top.env].slots, Top.vals)
        BY <3>3 DEF MInv, Same, Top
      <3> HIDE DEF k, a
      <3>5. Alike(Top.fn, envs'[Top.env].slots, Replaced(Top.vals, k, a))
        BY <2>1, <3>2, <3>4, AlikeArray
      <3> QED BY <2>1, <3>1, <3>3, <3>5, TopMirrored
    <2> QED BY <2>2, <2>3
  <1>8. ASSUME NEW t, RJumping(t) PROVE MInvNext
    BY <1>3, <1>8, AbortMirrored DEF RJumping
  <1>9. CASE RJump \/ RJumpIfFalse
    BY <1>3, <1>8, <1>9 DEF RJump, RJumpIfFalse
  <1>10. CASE RCallMissing
    BY <1>10, AbortMirrored DEF RCallMissing
  <1> QED BY <1>4, <1>5, <1>6, <1>7, <1>9, <1>10

LEMMA RegisterCallMirrored ==
  ASSUME CodeFits, NEW own, Fits(own), MInv, RCallFunction \/ RCallDynamic
  PROVE  MInvNext
  <1>1. Running("register") /\ frames # <<>>
    BY DEF RCallFunction, RCallDynamic, RAt, Running
  <1>2. CASE RCallFunction
    <2> DEFINE f == functions_v2[RIn.name]
               slots == Bind(f, f.frame_size, RArgs)
               v == [parent |-> Top.env, slots |-> slots]
               h == [NewFrame("register", RIn.name, Len(envs) + 1, slots, RArgs)
                       EXCEPT !.dst = RIn.dst]
    <2>1. envs' = Append(envs, v) /\ frames' = Append(Continue(Top.vals, Top.ip + 1), h)
      BY <1>2 DEF RCallFunction, RSuspend
    <2>2. h.env = Len(envs) + 1 /\ Alike(h.fn, v.slots, h.vals)
      <3>1. IsSeq(slots)
        <4>1. f.frame_size \in Nat
          BY <1>2 DEF RCallFunction, CodeFits, TranslatedFits
        <4> QED BY <4>1, BindFits
      <3> HIDE DEF slots
      <3>2. h.env = Len(envs) + 1 /\ h.vals = slots /\ v.slots = slots
        BY DEF NewFrame
      <3> QED BY <3>1, <3>2, AlikeSelf
    <2> HIDE DEF v, h
    <2> QED BY <1>1, <2>1, <2>2, PushMirrored
  <1>3. CASE RCallDynamic
    <2> DEFINE callee == R(RIn.a)
               c == closures[callee.v]
               f == instructions[c.name]
               v == [parent |-> c.env, slots |-> Bind(f, f.size, RArgs)]
               h == [NewFrame("stack", c.name, Len(envs) + 1, <<>>, RArgs) EXCEPT !.dst = RIn.dst]
    <2>1. CASE ~(Callable(callee) /\ (f.variadic \/ RIn.argc <= f.params))
      BY <1>3, <2>1, AbortMirrored DEF RCallDynamic
    <2>2. CASE Callable(callee) /\ (f.variadic \/ RIn.argc <= f.params)
      <3>1. envs' = Append(envs, v) /\ frames' = Append(Continue(Top.vals, Top.ip + 1), h)
        BY <1>3, <2>2 DEF RCallDynamic, RSuspend
      <3>2. h.env = Len(envs) + 1 /\ h.vm # "register"
        BY DEF NewFrame
      <3> HIDE DEF v, h
      <3> QED BY <1>1, <3>1, <3>2, PushMirrored
    <2> QED BY <2>1, <2>2
  <1> QED BY <1>2, <1>3

\* A value delivered is written to the registers and to the environment.
LEMMA DeliverMirrored ==
  ASSUME CodeFits, NEW own, Fits(own), MInv, frames # <<>>, NEW a, NEW dst, Deliver(a, dst),
         Len(frames) > 1 => frames[Len(frames) - 1].vm = "register"
  PROVE  MInvNext
  <1> DEFINE n == Len(frames) - 1
             e == frames[n].env
             k == dst.index + 1
             low == SubSeq(frames, 1, n)
             g == [frames[n] EXCEPT !.vals = Replaced(@, k, a)]
  <1>1. IsSeq(frames) /\ Len(frames) \in Nat \ {0}
    BY TopFits DEF Fits, FramesFit
  <1>2. CASE n = 0
    <2>1. frames' = <<>>
      BY <1>2 DEF Deliver
    <2> QED BY <2>1 DEF MInvNext, Apart, Same
  <1>3. CASE n # 0
    <2>1. /\ frames' = [low EXCEPT ![n].vals = Replaced(@, k, a)]
          /\ envs' = [envs EXCEPT ![e].slots[k] = a]
      BY <1>3 DEF Deliver, Mirrored, Stored, Replaced
    <2>2. /\ n \in 1 .. Len(frames) /\ n \in 1 .. n /\ n > 0 /\ n \in Nat
          /\ frames[n].vm = "register"
      <3>1. Len(frames) \in Nat /\ Len(frames) # 0 /\ Len(frames) - 1 # 0
        BY <1>1, <1>3
      <3>2. Len(frames) > 1
        BY <3>1
      <3> QED BY <3>1, <3>2
    <2>3. DOMAIN frames[n] = {"vm", "fn", "ip", "env", "vals", "dst", "args", "site"}
          /\ e \in 1 .. Len(envs)
      BY <2>2 DEF Fits, FramesFit, FrameFits, EnvsFit
    <2>4. IsSeq(low) /\ Len(low) = n /\ DOMAIN low = 1 .. n /\ \A i \in 1 .. n : low[i] = frames[i]
      BY <1>1, <2>2, IsSeqFront, IsSeqLen
    <2>5. g.env = e /\ g.vm = frames[n].vm /\ g.vals = Replaced(frames[n].vals, k, a)
          /\ g.fn = frames[n].fn
      BY <2>3
    <2> HIDE DEF low, k, n
    <2>6. frames' = Replaced(low, n, g)
      <3>1. frames' = [low EXCEPT ![n] = [low[n] EXCEPT !.vals = Replaced(@, k, a)]]
        BY <2>1, <2>2, <2>4
      <3> QED BY <2>2, <2>4, <3>1 DEF Replaced
    <2> HIDE DEF g, e
    <2>7. Len(frames') = n /\ \A i \in 1 .. n : frames'[i] = IF i = n THEN g ELSE frames[i]
      <3>1. Len(frames') = Len(low) /\ \A i \in 1 .. Len(low) : frames'[i] = IF i = n THEN g ELSE low[i]
        BY <2>4, <2>6, IsSeqReplaced
      <3> QED BY <2>4, <3>1
    <2>8. /\ envs'[e].slots = Replaced(envs[e].slots, k, a)
          /\ \A d \in 1 .. Len(envs) : d # e => envs'[d].slots = envs[d].slots
      BY <2>1, <2>3, SlotWritten DEF Fits
    <2>9. Alike(frames[n].fn, envs[e].slots, frames[n].vals) /\ e = frames[n].env
      BY <2>2 DEF MInv, Same, e
    <2>13. Alike(frames[n].fn, envs'[e].slots, Replaced(frames[n].vals, k, a))
      BY <2>8, <2>9, AlikeWritten
    <2>10. /\ frames'[n].env = frames[n].env /\ frames'[n].vm = frames[n].vm
           /\ frames'[n].fn = frames[n].fn
           /\ Alike(frames[n].fn, envs'[frames[n].env].slots, frames'[n].vals)
      BY <2>2, <2>5, <2>7, <2>9, <2>13
    <2>11. /\ \A i \in 1 .. n - 1 : frames'[i] = frames[i]
           /\ Len(frames') # n + 1 /\ n \in 0 .. Len(frames)
      BY <1>1, <2>2, <2>7
    <2>12. \A d \in 1 .. Len(envs) : d # frames[n].env => envs'[d].slots = envs[d].slots
      BY <2>8, <2>9
    <2> QED BY <2>2, <2>7, <2>10, <2>11, <2>12, MirrorKept
  <1> QED BY <1>2, <1>3

LEMMA MachineMirrored ==
  ASSUME CodeFits, NEW own, Fits(own), MInv, MachineNext
  PROVE  MInvNext
  <1>1. CASE StackNext
    BY <1>1, StackMirrored
  <1>2. CASE SReturnAcross
    <2>1. frames # <<>>
      BY <1>2 DEF SReturnAcross, SFinishes, SAt, Running
    <2> QED BY <1>2, <2>1, DeliverMirrored DEF SReturnAcross
  <1>3. CASE RReturn \/ RFallOff
    <2>1. Running("register") /\ \E a, dst : Deliver(a, dst)
      BY <1>3 DEF RReturn, RFallOff, RAt
    <2>2. /\ frames # <<>> /\ Len(frames) \in Nat
          /\ \A i \in 1 .. Len(frames) : frames[i].vm = "register"
      BY <2>1, RegisterTop
    <2>3. Len(frames) > 1 => frames[Len(frames) - 1].vm = "register"
      BY <2>2
    <2> QED BY <2>1, <2>2, <2>3, DeliverMirrored
  <1>4. CASE RRefused /\ Abort
    BY <1>4, AbortMirrored
  <1> QED BY <1>1, <1>2, <1>3, <1>4, RegisterCallMirrored, RegisterSimpleMirrored
          DEF MachineNext, RegisterNext

\* The host begins with one activation and an environment of its own.
LEMMA RunMirrored ==
  ASSUME CodeFits, NEW own, Fits(own), NEW vm, NEW name, Run(vm, name),
         vm = "register" => name \in DOMAIN functions_v2
  PROVE  MInvNext
  <1> DEFINE f == IF vm = "register" THEN functions_v2[name] ELSE instructions[name]
             slots == Bind(f, IF vm = "register" THEN f.frame_size ELSE f.size, <<>>)
             vals == IF vm = "register" THEN slots ELSE <<>>
             v == [parent |-> 0, slots |-> slots]
             h == NewFrame(vm, name, Len(envs) + 1, vals, <<>>)
  <1>1. envs' = Append(envs, v) /\ frames' = <<h>>
    BY DEF Run
  <1>2. vm = "register" => Alike(name, v.slots, vals)
    <2> SUFFICES ASSUME vm = "register" PROVE Alike(name, slots, slots)
      OBVIOUS
    <2>1. f.frame_size \in Nat
      BY DEF CodeFits, TranslatedFits
    <2>2. IsSeq(slots)
      BY <2>1, BindFits
    <2> QED BY <2>2, AlikeSelf
  <1> HIDE DEF v, vals
  <1>3. h.vm = vm /\ h.env = Len(envs) + 1 /\ h.vals = vals /\ h.fn = name
    BY DEF NewFrame
  <1> HIDE DEF h
  <1>4. envs'[Len(envs) + 1] = v
    BY <1>1, EnvAdded DEF Fits
  <1>5. Len(frames') = 1 /\ frames'[1] = h
    BY <1>1
  <1> QED BY <1>2, <1>3, <1>4, <1>5 DEF MInvNext, Apart, Same

-----------------------------------------------------------------------------
(* Registers and environments through the pipeline *)

LEMMA MirrorNextPrimed ==
  ASSUME MInvNext, UNCHANGED instructions
  PROVE  MInv'
  BY DEF MInvNext, MInv, Apart, Same, Alike, IsSeq, StoredInside

LEMMA MirrorUnchanged ==
  ASSUME MInv, UNCHANGED <<instructions, envs, frames>>
  PROVE  MInv'
  <1>1. frames' = frames /\ envs' = envs /\ instructions' = instructions
    OBVIOUS
  <1>2. MInvNext
    BY <1>1 DEF MInv, MInvNext
  <1> QED BY <1>1, <1>2, MirrorNextPrimed

LEMMA MirrorExecute ==
  ASSUME PInv, MInv, Execute
  PROVE  MInv'
  <1>1. MachineNext /\ status = "running"
    BY MachineRuns DEF Execute
  <1>2. CodeFits
    BY <1>1, PromisedCode DEF PInv
  <1>3. PICK own : Fits(own)
    BY DEF PInv
  <1>4. UNCHANGED instructions
    BY <1>1, <1>2, <1>3, MachineHolds DEF FitsNext
  <1> QED BY <1>1, <1>2, <1>3, <1>4, MachineMirrored, MirrorNextPrimed

LEMMA MirrorRun ==
  ASSUME PInv, NEW vm, NEW name, Run(vm, name),
         vm = "register" => name \in DOMAIN functions_v2
  PROVE  MInv'
  <1>1. PICK own : Fits(own)
    BY DEF PInv
  <1>2. UNCHANGED instructions
    BY DEF Run, program
  <1> QED BY <1>1, <1>2, PromisedCode, RunMirrored, MirrorNextPrimed

LEMMA MirrorNext == PInv /\ MInv /\ [Next]_vars => MInv'
  <1> SUFFICES ASSUME PInv, MInv, [Next]_vars PROVE MInv'
    OBVIOUS
  <1>1. CASE Load \/ Translate \/ Finish \/ UNCHANGED vars
    BY <1>1, MirrorUnchanged DEF Load, Translate, Finish, vars, runtime, program, objects
  <1>2. CASE Register
    BY <1>2, MirrorUnchanged DEF Register, objects
  <1>3. CASE RunInit
    <2>1. DOMAIN instructions \subseteq DOMAIN functions_v2
      BY <1>3 DEF RunInit, Untranslated
    <2> QED BY <1>3, <2>1, MirrorRun, MirrorUnchanged DEF RunInit, runtime, program, objects
  <1>4. CASE RunMain
    <2>1. "main" \in DOMAIN functions_v2
      BY <1>4 DEF RunMain, PInv
    <2> QED BY <1>4, <2>1, MirrorRun DEF RunMain
  <1>5. CASE Execute
    BY <1>5, MirrorExecute
  <1> QED BY <1>1, <1>2, <1>3, <1>4, <1>5 DEF Next, Done

\* Pipeline!RegistersAreMirrored of all code that keeps the parser's promises:
\* whatever a function writes while it runs on registers reaches the environment
\* its closures see, through all calls, returns, errors and second attempts, but
\* for the two kinds of registers that the property names.
THEOREM RegistersAreMirroredHolds == Spec => []RegistersAreMirrored
  <1>1. Init => MInv
    <2> SUFFICES ASSUME Init PROVE MInv
      OBVIOUS
    <2>1. Len(frames) = 0
      BY DEF Init
    <2> QED BY <2>1 DEF MInv, Apart, Same
  <1>2. (promised => PInv) /\ (promised => MInv) => RegistersAreMirrored
    <2> SUFFICES ASSUME PInv, MInv, NEW i \in DOMAIN frames, frames[i].vm = "register"
                 PROVE  LET slots == envs[frames[i].env].slots
                            vals == frames[i].vals
                        IN
                        /\ \A j \in 1 .. i : frames[j].vm = "register"
                        /\ Len(slots) = Len(vals)
                        /\ \A r \in DOMAIN vals :
                             \/ slots[r] = vals[r]
                             \/ vals[r].t = "array" /\ slots[r].t # "array"
                             \/ StoredInside(frames[i].fn, r - 1)
      BY DEF RegistersAreMirrored
    <2>1. PICK own : Fits(own)
      BY DEF PInv
    <2>2. i \in 1 .. Len(frames)
      BY <2>1, IsSeqLen DEF Fits, FramesFit
    <2>3. \A j \in 1 .. i : frames[j].vm = "register"
      BY <2>1, <2>2 DEF Fits, FramesFit
    <2>4. Alike(frames[i].fn, envs[frames[i].env].slots, frames[i].vals)
      BY <2>2 DEF MInv, Same
    <2>5. DOMAIN frames[i].vals = 1 .. Len(frames[i].vals)
      BY <2>4, IsSeqLen DEF Alike
    <2> QED BY <2>3, <2>4, <2>5 DEF Alike
  <1>3. (promised => PInv) /\ (promised => MInv) /\ [Next]_vars => (promised => MInv)'
    BY MirrorNext, PromiseStays
  <1> QED BY <1>1, <1>2, <1>3, PipelineInvariant, PTL DEF Spec

-----------------------------------------------------------------------------
(* The translation: code that keeps to its own frame                       *)

\* All three references of an instruction are to the frame it runs in.
Home(o) == o.dst.depth = 0 /\ o.a.depth = 0 /\ o.b.depth = 0
AtHome(c) == \A i \in 1 .. Len(c) : Home(c[i])

\* Code of the stack machine that uses no variable but those of its function.
OwnSlots(c) ==
  \A i \in 1 .. Len(c) : c[i].op \in {"LOAD_LOCAL", "STORE_LOCAL"} => c[i].depth = 0

LEMMA HomeAppended ==
  ASSUME IInv, AtHome(code), NEW o, Home(o), code' = Append(code, o)
  PROVE  AtHome(code')
  <1>1. code \in Seq(Instruction2 \cup {o})
    BY DEF IInv, CodeHolds
  <1>2. /\ Len(code') = Len(code) + 1 /\ Len(code) \in Nat
        /\ code'[Len(code) + 1] = o
        /\ \A i \in 1 .. Len(code) : code'[i] = code[i]
    BY <1>1
  <1> QED BY <1>2 DEF AtHome

LEMMA HomeResult ==
  ASSUME IInv, AtHome(code), NEW o, NEW n, NEW popped, DOMAIN o = DOMAIN Blank2,
         o.a.depth = 0, o.b.depth = 0, Result(o, n, popped)
  PROVE  AtHome(code')
  <1> DEFINE new == [o EXCEPT !.dst = Ref(0, n)]
  <1>1. Home(new)
    BY DEF Home, Blank2, Ref
  <1>2. code' = Append(code, new)
    BY DEF Result, Step, Advance
  <1> HIDE DEF new
  <1> QED BY <1>1, <1>2, HomeAppended

LEMMA OwnSlot ==
  ASSUME IInv, OwnSlots(legacy), At({"LOAD_LOCAL"}) \/ At({"STORE_LOCAL"})
  PROVE  In.depth = 0
  <1>1. source.code \in Seq(Instruction)
    BY SourceType DEF IInv
  <1>2. ip + 1 \in 1 .. Len(legacy) /\ In.op \in {"LOAD_LOCAL", "STORE_LOCAL"}
    BY <1>1 DEF IInv, At, legacy
  <1> QED BY <1>2 DEF OwnSlots, In

LEMMA StaysHome ==
  ASSUME IInv, AtHome(code), OwnSlots(legacy), TranslateNext
  PROVE  AtHome(code')
  <1>0. /\ DOMAIN Blank2 = {"op", "dst", "a", "b", "lit", "name", "argc", "target"}
        /\ Blank2.dst.depth = 0 /\ Blank2.a.depth = 0 /\ Blank2.b.depth = 0
        /\ \A i : Ref(0, i).depth = 0
    BY DEF Blank2, Ref
  <1>1. CASE Scope \/ TranslatePop
    BY <1>1 DEF Scope, TranslatePop, Step, Advance
  <1>2. CASE Produce
    <2> DEFINE o == Producer(In)
    <2>1. In.op = "LOAD_LOCAL" => In.depth = 0
      <3>1. In.op = "LOAD_LOCAL" => At({"LOAD_LOCAL"})
        BY <1>2 DEF Produce, At
      <3> QED BY <3>1, OwnSlot
    <2>2. DOMAIN o = DOMAIN Blank2 /\ o.a.depth = 0 /\ o.b.depth = 0
      BY <2>1 DEF Producer, Blank2, Ref
    <2>3. Result(o, Start, {})
      BY <1>2 DEF Produce
    <2> HIDE DEF o
    <2> QED BY <2>2, <2>3, HomeResult
  <1>3. CASE TranslateUnary
    <2> DEFINE o == [Blank2 EXCEPT !.op = In.op, !.a = Ref(0, PopReg(Start))]
    <2>1. DOMAIN o = DOMAIN Blank2 /\ o.a.depth = 0 /\ o.b.depth = 0
      BY <1>0
    <2>2. Result(o, Pop(Start), {PopReg(Start)})
      BY <1>3 DEF TranslateUnary
    <2> HIDE DEF o
    <2> QED BY <2>1, <2>2, HomeResult
  <1>4. CASE TranslateBinary
    <2> DEFINE lhs == PopReg(Pop(Start))
               rhs == PopReg(Start)
               o == [Blank2 EXCEPT !.op = In.op, !.a = Ref(0, lhs), !.b = Ref(0, rhs)]
    <2>1. DOMAIN o = DOMAIN Blank2 /\ o.a.depth = 0 /\ o.b.depth = 0
      BY <1>0
    <2>2. Result(o, Pop(Pop(Start)), {lhs, rhs})
      BY <1>4 DEF TranslateBinary
    <2> HIDE DEF o
    <2> QED BY <2>1, <2>2, HomeResult
  <1>5. CASE TranslateGetKey
    <2> DEFINE o == [Blank2 EXCEPT !.op = "GET_PROP", !.a = Ref(0, PopReg(Start)), !.lit = In.lit]
    <2>1. DOMAIN o = DOMAIN Blank2 /\ o.a.depth = 0 /\ o.b.depth = 0
      BY <1>0
    <2>2. Result(o, Pop(Start), {})
      BY <1>5 DEF TranslateGetKey
    <2> HIDE DEF o
    <2> QED BY <2>1, <2>2, HomeResult
  <1>6. CASE StoreLocalRewritten
    <2> DEFINE d == StoreDef + 1
    <2>1. /\ d \in 1 .. Len(code)
          /\ code' = [code EXCEPT ![d].dst = Ref(In.depth, In.slot)]
      BY <1>6 DEF StoreLocalRewritten, Step, Advance, IInv, CodeHolds
    <2>2. In.depth = 0
      BY <1>6, OwnSlot DEF StoreLocalRewritten
    <2> HIDE DEF d
    <2> DEFINE r == Ref(0, In.slot)
    <2>3. code' = [code EXCEPT ![d].dst = r]
      BY <2>1, <2>2
    <2>4. r.depth = 0
      BY <1>0
    <2> HIDE DEF r
    <2>5. /\ Len(code') = Len(code)
          /\ \A i \in 1 .. Len(code) : code'[i] = IF i = d THEN [code[i] EXCEPT !.dst = r] ELSE code[i]
      BY <2>1, <2>3 DEF IInv, CodeHolds
    <2>6. ASSUME NEW i \in 1 .. Len(code) PROVE Home(code'[i])
      <3>1. Home(code[i]) /\ code[i] \in Instruction2
        BY DEF AtHome, IInv, CodeHolds
      <3> QED BY <2>4, <2>5, <3>1 DEF Home, Instruction2
    <2>7. \A i \in 1 .. Len(code') : Home(code'[i])
      BY <2>5, <2>6
    <2> QED BY <2>7 DEF AtHome
  <1>7. CASE StoreLocalMoved
    <2> DEFINE o == [Blank2 EXCEPT !.op = "MOVE", !.dst = Ref(In.depth, In.slot),
                                   !.a = Ref(0, StoreSrc)]
    <2>1. In.depth = 0
      BY <1>7, OwnSlot DEF StoreLocalMoved
    <2>2. Home(o)
      BY <1>0, <2>1 DEF Home
    <2>3. code' = Append(code, o)
      BY <1>7 DEF StoreLocalMoved, Step, Advance
    <2> HIDE DEF o
    <2> QED BY <2>2, <2>3, HomeAppended
  <1>8. CASE TranslateStoreGlobal
    <2> DEFINE o == [Blank2 EXCEPT !.op = "STORE_GLOBAL", !.name = In.name,
                                   !.a = Ref(0, Larger(PopReg(Start), 0))]
    <2>1. Home(o)
      BY <1>0 DEF Home
    <2>2. code' = Append(code, o)
      BY <1>8 DEF TranslateStoreGlobal, Step, Advance
    <2> HIDE DEF o
    <2> QED BY <2>1, <2>2, HomeAppended
  <1>9. CASE TranslateStoreProp
    <2> DEFINE o == [Blank2 EXCEPT !.op = "STORE_PROP", !.dst = Ref(0, PopReg(Pop(Pop(Start)))),
                                   !.a = Ref(0, PopReg(Start)), !.b = Ref(0, PopReg(Pop(Start)))]
    <2>1. Home(o)
      BY <1>0 DEF Home
    <2>2. code' = Append(code, o)
      BY <1>9 DEF TranslateStoreProp, Step, Advance
    <2> HIDE DEF o
    <2> QED BY <2>1, <2>2, HomeAppended
  <1>10. CASE TranslateStoreKey
    <2> DEFINE o == [Blank2 EXCEPT !.op = "STORE_PROP", !.dst = Ref(0, PopReg(Pop(Start))),
                                   !.a = Ref(0, PopReg(Start)), !.lit = In.lit]
    <2>1. Home(o)
      BY <1>0 DEF Home
    <2>2. code' = Append(code, o)
      BY <1>10 DEF TranslateStoreKey, Step, Advance
    <2> HIDE DEF o
    <2> QED BY <2>1, <2>2, HomeAppended
  <1>11. CASE TranslateCall
    <2> DEFINE n == In.argc
               base == Larger(Start - n, 0)
               left == Start - n
               args == base .. base + n - 1
               callable == PopReg(left)
               dynamic == [Blank2 EXCEPT !.op = "CALL", !.argc = n, !.name = Dynamic,
                             !.a = Ref(0, Larger(callable, 0)), !.b = Ref(0, base)]
               named == [Blank2 EXCEPT !.op = "CALL", !.argc = n, !.name = In.name,
                           !.a = Ref(0, base)]
    <2>1. \/ Result(dynamic, Pop(left), args \cup {callable})
          \/ Result(named, left, args)
      BY <1>11 DEF TranslateCall
    <2>2. /\ DOMAIN dynamic = DOMAIN Blank2 /\ dynamic.a.depth = 0 /\ dynamic.b.depth = 0
          /\ DOMAIN named = DOMAIN Blank2 /\ named.a.depth = 0 /\ named.b.depth = 0
      BY <1>0
    <2> HIDE DEF dynamic, named, args, base, left, callable
    <2> QED BY <2>1, <2>2, HomeResult
  <1>12. CASE TranslateReturn
    <2> DEFINE o == [Blank2 EXCEPT !.op = "RETURN", !.a = Ref(0, Larger(Start - 1, 0))]
    <2>1. Home(o)
      BY <1>0 DEF Home
    <2>2. code' = Append(code, o)
      BY <1>12 DEF TranslateReturn, Step, Advance
    <2> HIDE DEF o
    <2> QED BY <2>1, <2>2, HomeAppended
  <1>13. CASE TranslateJump
    <2> DEFINE o == [[Blank2 EXCEPT !.op = "JUMP"] EXCEPT !.target = In.target]
    <2>1. Home(o)
      BY <1>0 DEF Home
    <2>2. code' = Append(code, o)
      BY <1>13 DEF TranslateJump, EmitJump, Advance
    <2> HIDE DEF o
    <2> QED BY <2>1, <2>2, HomeAppended
  <1>14. CASE TranslateJumpIfFalse
    <2> DEFINE o == [[Blank2 EXCEPT !.op = "JUMP_IF_FALSE", !.a = Ref(0, PopReg(Start))]
                       EXCEPT !.target = In.target]
    <2>1. Home(o)
      BY <1>0 DEF Home
    <2>2. code' = Append(code, o)
      BY <1>14 DEF TranslateJumpIfFalse, EmitJump, Advance
    <2> HIDE DEF o
    <2> QED BY <2>1, <2>2, HomeAppended
  <1>15. CASE FixJumps
    <2>1. /\ code \in Seq(Instruction2)
          /\ code' = [i \in DOMAIN code |->
                IF \E j \in jumps : j[1] = i - 1
                  THEN [code[i] EXCEPT !.target = Landing(@)]
                  ELSE code[i]]
      BY <1>15 DEF FixJumps, IInv, CodeHolds
    <2>2. DOMAIN code = 1 .. Len(code) /\ Len(code) \in Nat
      BY <2>1
    <2>3. Len(code') = Len(code)
      BY <2>1, <2>2
    <2>4. \A i \in 1 .. Len(code) :
            code'[i].dst = code[i].dst /\ code'[i].a = code[i].a /\ code'[i].b = code[i].b
      BY <2>1, <2>2 DEF Instruction2
    <2> QED BY <2>3, <2>4 DEF AtHome, Home
  <1> QED BY <1>1, <1>2, <1>3, <1>4, <1>5, <1>6, <1>7, <1>8, <1>9, <1>10, <1>11, <1>12, <1>13,
             <1>14, <1>15 DEF TranslateNext

\* A function that lies in no other uses its own slots only.
LEMMA OutermostOwnSlots ==
  ASSUME CodeFits, NEW n \in Outermost(instructions)
  PROVE  OwnSlots(instructions[n].code)
  <1>1. n \in DOMAIN instructions /\ Len(instructions[n].around) = 1
    BY DEF Outermost
  <1>2. instructions[n].code \in Seq(Instruction) /\ Scoped(instructions, n)
    BY <1>1, CheckedFunction
  <1>3. ASSUME NEW i \in 1 .. Len(instructions[n].code),
               instructions[n].code[i].op \in {"LOAD_LOCAL", "STORE_LOCAL"}
        PROVE  instructions[n].code[i].depth = 0
    <2>1. instructions[n].code[i] \in Instruction
      BY <1>2
    <2>2. instructions[n].code[i].depth \in Nat
      BY <2>1 DEF Instruction
    <2>3. instructions[n].code[i].depth < 1
      BY <1>1, <1>2, <1>3 DEF Scoped
    <2> QED BY <2>2, <2>3
  <1> QED BY <1>3 DEF OwnSlots

-----------------------------------------------------------------------------
(* The registers of the activations                                        *)

\* The code of the register machine stays inside the frame it is given, jumps
\* into itself or to its end and, where it runs, refers to no other frame.
Registered(n) ==
  /\ CodeHolds(functions_v2[n].code, functions_v2[n].frame_size)
  /\ \A i \in 1 .. Len(functions_v2[n].code) :
       functions_v2[n].code[i].op \in Jumps =>
         functions_v2[n].code[i].target \in 0 .. Len(functions_v2[n].code)
  /\ n \in Outermost(instructions) => AtHome(functions_v2[n].code)

AllRegistered == \A n \in DOMAIN functions_v2 : Registered(n)

\* An activation has the registers of its function and is somewhere in its code.
Sized(f) ==
  f.vm = "register" =>
    /\ IsSeq(f.vals) /\ Len(f.vals) = functions_v2[f.fn].frame_size
    /\ f.ip \in 0 .. Len(functions_v2[f.fn].code)

AllSized == \A i \in 1 .. Len(frames) : Sized(frames[i])
AllSizedNext == \A i \in 1 .. Len(frames') : Sized(frames'[i])

LEMMA TopSized ==
  ASSUME NEW own, Fits(own), AllSized, frames # <<>>, NEW vals, NEW k,
         frames' = Continue(vals, k), Sized(OnTop(vals, k))
  PROVE  AllSizedNext
  <1>1. frames' = Replaced(frames, Len(frames), OnTop(vals, k))
    BY Continued DEF Fits
  <1>2. IsSeq(frames)
    BY DEF Fits, FramesFit
  <1>3. /\ Len(frames') = Len(frames)
        /\ \A i \in 1 .. Len(frames) :
             frames'[i] = IF i = Len(frames) THEN OnTop(vals, k) ELSE frames[i]
    BY <1>1, <1>2, IsSeqReplaced
  <1> QED BY <1>3 DEF AllSized, AllSizedNext

LEMMA PushSized ==
  ASSUME NEW own, Fits(own), AllSized, frames # <<>>, NEW vals, NEW k, NEW h,
         frames' = Append(Continue(vals, k), h), Sized(OnTop(vals, k)), Sized(h)
  PROVE  AllSizedNext
  <1> DEFINE low == Continue(vals, k)
  <1>1. low = Replaced(frames, Len(frames), OnTop(vals, k))
    BY Continued DEF Fits
  <1>2. IsSeq(frames)
    BY DEF Fits, FramesFit
  <1> HIDE DEF low
  <1>3. /\ IsSeq(low) /\ Len(low) = Len(frames)
        /\ \A i \in 1 .. Len(frames) :
             low[i] = IF i = Len(frames) THEN OnTop(vals, k) ELSE frames[i]
    BY <1>1, <1>2, IsSeqReplaced
  <1>4. /\ Len(frames') = Len(low) + 1 /\ frames'[Len(low) + 1] = h
        /\ \A i \in 1 .. Len(low) : frames'[i] = low[i]
    BY <1>3, IsSeqAppend DEF low
  <1>5. Len(frames) \in Nat
    BY <1>2, IsSeqLen
  <1>6. ASSUME NEW i \in 1 .. Len(frames') PROVE i \in 1 .. Len(frames) \/ i = Len(frames) + 1
    BY <1>3, <1>4, <1>5
  <1>7. ASSUME NEW i \in 1 .. Len(frames) PROVE Sized(frames'[i])
    BY <1>3, <1>4 DEF AllSized
  <1>8. Sized(frames'[Len(frames) + 1])
    BY <1>3, <1>4
  <1> QED BY <1>6, <1>7, <1>8 DEF AllSizedNext

LEMMA AbortSized ==
  ASSUME NEW own, Fits(own), AllSized, Abort
  PROVE  AllSizedNext
  <1> DEFINE I == {i \in DOMAIN frames : frames[i].site = "cached"}
  <1>1. IsSeq(frames) /\ Len(frames) \in Nat /\ DOMAIN frames = 1 .. Len(frames)
    BY IsSeqLen DEF Fits, FramesFit
  <1>2. CASE I = {}
    <2>1. frames' = <<>>
      BY <1>2 DEF Abort
    <2> QED BY <2>1 DEF AllSizedNext
  <1>3. CASE I # {}
    <2> DEFINE i == CHOOSE i \in I : \A j \in I : j <= i
    <2>1. CallAgain(i)
      BY <1>3 DEF Abort
    <2>2. i \in I
      <3>1. I \in SUBSET (1 .. Len(frames))
        BY <1>1
      <3> HIDE DEF I
      <3> QED BY <1>1, <1>3, <3>1, LastOf
    <2> HIDE DEF i
    <2>3. i \in 1 .. Len(frames)
      BY <1>1, <2>2
    <2> DEFINE h == [NewFrame("stack", frames[i].fn, Len(envs) + 1, <<>>, frames[i].args)
                       EXCEPT !.site = "again"]
               low == SubSeq(frames, 1, i - 1)
    <2>4. frames' = Append(low, h)
      BY <2>1 DEF CallAgain
    <2>5. Sized(h)
      BY DEF NewFrame, Sized
    <2> HIDE DEF h
    <2>6. IsSeq(low) /\ Len(low) = i - 1 /\ \A j \in 1 .. i - 1 : low[j] = frames[j]
      <3>1. i - 1 \in 0 .. Len(frames)
        BY <1>1, <2>3
      <3> QED BY <1>1, <3>1, IsSeqFront
    <2> HIDE DEF low
    <2>7. /\ Len(frames') = (i - 1) + 1 /\ frames'[(i - 1) + 1] = h
          /\ \A j \in 1 .. i - 1 : frames'[j] = low[j]
      BY <2>4, <2>6, IsSeqAppend
    <2>8. /\ Len(frames') = i /\ frames'[i] = h /\ \A j \in 1 .. i - 1 : frames'[j] = frames[j]
      BY <1>1, <2>3, <2>6, <2>7
    <2>9. ASSUME NEW j \in 1 .. i, j # i PROVE j \in 1 .. i - 1 /\ j \in 1 .. Len(frames)
      BY <1>1, <2>3, <2>9
    <2> QED BY <2>5, <2>8, <2>9 DEF AllSized, AllSizedNext
  <1> QED BY <1>2, <1>3

-----------------------------------------------------------------------------
(* The steps of the stack machine leave registers alone                    *)

LEMMA StackStepSized ==
  ASSUME NEW own, Fits(own), AllSized, Running("stack"), NEW vals, NEW k,
         frames' = Continue(vals, k)
  PROVE  AllSizedNext
  <1>1. frames # <<>> /\ Top.vm = "stack"
    BY DEF Running
  <1>2. OnTop(vals, k).vm = "stack"
    BY <1>1, Continued DEF Fits
  <1>3. Sized(OnTop(vals, k))
    BY <1>2 DEF Sized
  <1> QED BY <1>1, <1>3, TopSized

LEMMA ResumeSized ==
  ASSUME NEW own, Fits(own), AllSized, Running("stack"), NEW vals, Resume(vals)
  PROVE  AllSizedNext
  BY StackStepSized DEF Resume

LEMMA StackSized ==
  ASSUME CodeFits, NEW own, Fits(own), AllSized, StackNext
  PROVE  AllSizedNext
  <1>1. CASE Underflow
    BY <1>1, AbortSized DEF StackNext
  <1>2. CASE SStoreLocal \/ SLoadLocal \/ SLoadGlobal \/ SStoreGlobal
    BY <1>2, ResumeSized, AbortSized
       DEF SStoreLocal, SLoadLocal, SLoadGlobal, SStoreGlobal, SAt
  <1>3. CASE SPush \/ SPop \/ SScope \/ SGetProp
    BY <1>3, ResumeSized DEF SPush, SPop, SScope, SGetProp, SAt
  <1>4. CASE SBinary \/ SUnary \/ SStoreProp
    BY <1>4, ResumeSized, AbortSized DEF SBinary, SUnary, SStoreProp, SAt
  <1>5. CASE SMakeClosure
    BY <1>5, ResumeSized DEF SMakeClosure, SAt
  <1>6. CASE SJump \/ SJumpIfFalse
    BY <1>6, StackStepSized DEF SJump, SJumpIfFalse, SAt
  <1>7. CASE SCallBuiltin
    BY <1>7, ResumeSized, AbortSized DEF SCallBuiltin, SAt
  <1>8. ASSUME NEW name, NEW parent, NEW n, NEW how, SActivate(name, parent, n, how),
               Running("stack")
        PROVE  AllSizedNext
    <2> DEFINE f == instructions[name]
               h == [NewFrame("stack", name, Len(envs) + 1, <<>>, Tops(SIn.argc))
                       EXCEPT !.site = how]
               top == OnTop(Under(n), Top.ip + 1)
    <2>1. CASE f.variadic \/ SIn.argc <= f.params
      <3>1. frames' = Append(Continue(Under(n), Top.ip + 1), h)
        BY <1>8, <2>1 DEF SActivate
      <3>2. frames # <<>> /\ Top.vm = "stack"
        BY <1>8 DEF Running
      <3>3. Sized(h)
        BY DEF NewFrame, Sized
      <3>4. top.vm = "stack"
        BY <3>2, Continued DEF Fits
      <3>5. Sized(top)
        BY <3>4 DEF Sized
      <3> HIDE DEF h
      <3> QED BY <3>1, <3>2, <3>3, <3>5, PushSized
    <2>2. CASE ~(f.variadic \/ SIn.argc <= f.params)
      BY <1>8, <2>2, AbortSized DEF SActivate
    <2> QED BY <2>1, <2>2
  <1>9. CASE SCallFunction \/ SCallMissing \/ SCallDynamic
    BY <1>8, <1>9, AbortSized DEF SCallFunction, SCallMissing, SCallDynamic, SAt
  <1>10. CASE SReturn
    <2> DEFINE n == Len(frames) - 1
               low == SubSeq(frames, 1, n)
               g == [frames[n] EXCEPT !.vals = Append(@, ReturnValue)]
    <2>1. /\ Running("stack") /\ n > 0 /\ frames[n].vm = "stack"
          /\ frames' = [low EXCEPT ![n].vals = Append(@, ReturnValue)]
      BY <1>10 DEF SReturn, SFinishes, SAt, Front
    <2>2. IsSeq(frames) /\ Len(frames) \in Nat \ {0} /\ n \in 1 .. Len(frames)
      BY <2>1, StackTop DEF Fits, FramesFit
    <2>3. DOMAIN frames[n] = {"vm", "fn", "ip", "env", "vals", "dst", "args", "site"}
      BY <2>2 DEF Fits, FramesFit, FrameFits
    <2>4. IsSeq(low) /\ Len(low) = n /\ DOMAIN low = 1 .. n /\ \A i \in 1 .. n : low[i] = frames[i]
      BY <2>2, IsSeqFront, IsSeqLen
    <2>5. n \in 1 .. n /\ n \in DOMAIN low /\ \A i \in 1 .. n : i \in 1 .. Len(frames)
      BY <2>2, <2>4
    <2> HIDE DEF low, n
    <2>6. frames' = Replaced(low, n, g)
      <3>1. frames' = [low EXCEPT ![n] = [low[n] EXCEPT !.vals = Append(@, ReturnValue)]]
        BY <2>1, <2>5
      <3> QED BY <2>4, <2>5, <3>1 DEF Replaced
    <2>7. g.vm = "stack"
      BY <2>1, <2>3
    <2> HIDE DEF g
    <2>8. /\ Len(frames') = n
          /\ \A i \in 1 .. n : frames'[i] = IF i = n THEN g ELSE low[i]
      BY <2>4, <2>6, IsSeqReplaced
    <2>9. Sized(g)
      BY <2>7 DEF Sized
    <2> QED BY <2>4, <2>5, <2>8, <2>9 DEF AllSized, AllSizedNext
  <1>11. CASE SReturnAgain
    BY <1>11, AbortSized DEF SReturnAgain
  <1> QED BY <1>1, <1>2, <1>3, <1>4, <1>5, <1>6, <1>7, <1>9, <1>10, <1>11 DEF StackNext

-----------------------------------------------------------------------------
(* The steps of the register machine keep to the frame                     *)

LEMMA RegisterSized ==
  ASSUME CodeFits, AllRegistered, NEW own, Fits(own), AllSized, Running("register")
  PROVE  /\ Top.fn \in DOMAIN functions_v2 /\ Registered(Top.fn) /\ AtHome(RFunction.code)
         /\ IsSeq(Top.vals) /\ Len(Top.vals) = RFunction.frame_size
         /\ Top.ip \in 0 .. Len(RFunction.code) /\ Len(RFunction.code) \in Nat
  <1>1. /\ Top.vm = "register" /\ Top.fn \in DOMAIN functions_v2 \cap Outermost(instructions)
        /\ Len(frames) \in 1 .. Len(frames)
    BY RegisterTop
  <1>2. Sized(Top)
    BY <1>1 DEF AllSized, Top
  <1>3. Registered(Top.fn)
    BY <1>1 DEF AllRegistered
  <1>4. Len(RFunction.code) \in Nat
    BY <1>3 DEF Registered, CodeHolds, RFunction
  <1> QED BY <1>1, <1>2, <1>3, <1>4 DEF Sized, Registered, RFunction

\* The topmost activation goes on with as many registers, inside its code.
LEMMA GoesOnSized ==
  ASSUME CodeFits, AllRegistered, NEW own, Fits(own), AllSized, Running("register"),
         NEW vals, IsSeq(vals), Len(vals) = Len(Top.vals), NEW k \in 0 .. Len(RFunction.code)
  PROVE  /\ Sized(OnTop(vals, k))
         /\ frames' = Continue(vals, k) => AllSizedNext
  <1> DEFINE g == OnTop(vals, k)
  <1>1. /\ g.fn = Top.fn /\ g.vals = vals /\ g.ip = k /\ frames # <<>>
    BY RegisterTop, Continued DEF Fits
  <1>2. Len(Top.vals) = functions_v2[Top.fn].frame_size
    BY RegisterSized DEF RFunction
  <1> HIDE DEF g
  <1>3. Sized(g)
    BY <1>1, <1>2 DEF Sized, RFunction
  <1> QED BY <1>1, <1>3, TopSized DEF g

LEMMA StoredSized ==
  ASSUME CodeFits, AllRegistered, NEW own, Fits(own), AllSized, Running("register"),
         NEW ref, NEW a
  PROVE  IsSeq(Stored(Top.vals, ref, a)) /\ Len(Stored(Top.vals, ref, a)) = Len(Top.vals)
  <1>1. IsSeq(Top.vals)
    BY RegisterSized
  <1>2. Stored(Top.vals, ref, a) = Replaced(Top.vals, ref.index + 1, a)
    BY DEF Stored, Replaced
  <1> QED BY <1>1, <1>2, IsSeqReplaced

LEMMA RegisterSimpleSized ==
  ASSUME CodeFits, AllRegistered, NEW own, Fits(own), AllSized,
         RMove \/ RStoreGlobal \/ RBinary \/ RUnary \/ RGetProp \/ RStoreProp \/ RMakeClosure
           \/ RJump \/ RJumpIfFalse \/ RCallBuiltin \/ RCallMissing
  PROVE  AllSizedNext
  <1>1. Running("register") /\ Top.ip < Len(RFunction.code)
    BY DEF RMove, RStoreGlobal, RBinary, RUnary, RGetProp, RStoreProp, RMakeClosure, RJump,
           RJumpIfFalse, RCallBuiltin, RCallMissing, RAt
  <1>2. Top.ip + 1 \in 0 .. Len(RFunction.code) /\ IsSeq(Top.vals)
    BY <1>1, RegisterSized
  <1>3. ASSUME NEW a, NEW ref, frames' = Continue(Stored(Top.vals, ref, a), Top.ip + 1)
        PROVE  AllSizedNext
    BY <1>1, <1>2, <1>3, StoredSized, GoesOnSized
  <1>4. ASSUME NEW k \in 0 .. Len(RFunction.code), frames' = Continue(Top.vals, k)
        PROVE  AllSizedNext
    BY <1>1, <1>2, <1>4, GoesOnSized
  <1>5. ASSUME NEW a, RWrite(a) PROVE AllSizedNext
    BY <1>3, <1>5 DEF RWrite
  <1>6. CASE RMove \/ RGetProp \/ RMakeClosure \/ RCallBuiltin
    BY <1>5, <1>6 DEF RMove, RGetProp, RMakeClosure, RCallBuiltin
  <1>7. CASE RBinary \/ RUnary
    BY <1>5, <1>7, AbortSized DEF RBinary, RUnary
  <1>8. CASE RStoreGlobal
    BY <1>2, <1>4, <1>8 DEF RStoreGlobal, RGoto
  <1>9. CASE RStoreProp
    BY <1>2, <1>3, <1>4, <1>9 DEF RStoreProp
  <1>10. ASSUME NEW t, RJumping(t) PROVE AllSizedNext
    BY <1>4, <1>10, AbortSized DEF RJumping, RGoto
  <1>11. CASE RJump \/ RJumpIfFalse
    BY <1>2, <1>4, <1>10, <1>11 DEF RJump, RJumpIfFalse, RGoto
  <1>12. CASE RCallMissing
    BY <1>12, AbortSized DEF RCallMissing
  <1> QED BY <1>6, <1>7, <1>8, <1>9, <1>11, <1>12

LEMMA RegisterCallSized ==
  ASSUME CodeFits, AllRegistered, NEW own, Fits(own), AllSized, RCallFunction \/ RCallDynamic
  PROVE  AllSizedNext
  <1>1. Running("register") /\ Top.ip < Len(RFunction.code) /\ frames # <<>>
    BY DEF RCallFunction, RCallDynamic, RAt, Running
  <1>2. Top.ip + 1 \in 0 .. Len(RFunction.code) /\ IsSeq(Top.vals)
    BY <1>1, RegisterSized
  <1>3. Sized(OnTop(Top.vals, Top.ip + 1))
    BY <1>1, <1>2, GoesOnSized
  <1>4. CASE RCallFunction
    <2> DEFINE name == RIn.name
               f == functions_v2[name]
               slots == Bind(f, f.frame_size, RArgs)
               h == [NewFrame("register", name, Len(envs) + 1, slots, RArgs)
                       EXCEPT !.dst = RIn.dst]
    <2>1. /\ name \in DOMAIN functions_v2
          /\ frames' = Append(Continue(Top.vals, Top.ip + 1), h)
      BY <1>4 DEF RCallFunction, RSuspend
    <2>2. f.frame_size \in Nat /\ Len(f.code) \in Nat
      BY <2>1 DEF CodeFits, TranslatedFits, AllRegistered, Registered, CodeHolds
    <2>3. IsSeq(slots) /\ Len(slots) = f.frame_size
      BY <2>2, BindFits
    <2> HIDE DEF slots, name
    <2>4. h.fn = name /\ h.vals = slots /\ h.ip = 0
      BY DEF NewFrame
    <2> HIDE DEF h
    <2>5. /\ IsSeq(h.vals) /\ Len(h.vals) = functions_v2[h.fn].frame_size
          /\ h.ip \in 0 .. Len(functions_v2[h.fn].code)
      BY <2>2, <2>3, <2>4
    <2>6. Sized(h)
      BY <2>5 DEF Sized
    <2> QED BY <1>1, <1>3, <2>1, <2>6, PushSized
  <1>5. CASE RCallDynamic
    <2> DEFINE callee == R(RIn.a)
               c == closures[callee.v]
               f == instructions[c.name]
               h == [NewFrame("stack", c.name, Len(envs) + 1, <<>>, RArgs) EXCEPT !.dst = RIn.dst]
    <2>1. CASE ~(Callable(callee) /\ (f.variadic \/ RIn.argc <= f.params))
      BY <1>5, <2>1, AbortSized DEF RCallDynamic
    <2>2. CASE Callable(callee) /\ (f.variadic \/ RIn.argc <= f.params)
      <3>1. frames' = Append(Continue(Top.vals, Top.ip + 1), h)
        BY <1>5, <2>2 DEF RCallDynamic, RSuspend
      <3>2. h.vm = "stack"
        BY DEF NewFrame
      <3> HIDE DEF h
      <3>3. Sized(h)
        BY <3>2 DEF Sized
      <3> QED BY <1>1, <1>3, <3>1, <3>3, PushSized
    <2> QED BY <2>1, <2>2
  <1> QED BY <1>4, <1>5

LEMMA DeliverSized ==
  ASSUME CodeFits, NEW own, Fits(own), AllSized, frames # <<>>, NEW a, NEW dst, Deliver(a, dst)
  PROVE  AllSizedNext
  <1> DEFINE n == Len(frames) - 1
             k == dst.index + 1
             low == SubSeq(frames, 1, n)
             g == [frames[n] EXCEPT !.vals = Replaced(@, k, a)]
  <1>1. IsSeq(frames) /\ Len(frames) \in Nat \ {0}
    BY TopFits DEF Fits, FramesFit
  <1>2. CASE n = 0
    <2>1. frames' = <<>>
      BY <1>2 DEF Deliver
    <2> QED BY <2>1 DEF AllSizedNext
  <1>3. CASE n # 0
    <2>1. frames' = [low EXCEPT ![n].vals = Replaced(@, k, a)]
      BY <1>3 DEF Deliver, Stored, Replaced
    <2>2. /\ n \in 1 .. Len(frames) /\ n \in 1 .. n /\ n \in Nat
          /\ \A i \in 1 .. n : i \in 1 .. Len(frames)
      <3>1. Len(frames) \in Nat /\ Len(frames) # 0 /\ Len(frames) - 1 # 0
        BY <1>1, <1>3
      <3> DEFINE m == Len(frames)
      <3>2. m \in Nat /\ m # 0 /\ m - 1 # 0 /\ n = m - 1
        BY <3>1
      <3> HIDE DEF m, n
      <3>3. m > 1
        BY <3>2
      <3>4. n \in 1 .. m /\ n \in 1 .. n /\ n \in Nat /\ \A i \in 1 .. n : i \in 1 .. m
        BY <3>2, <3>3
      <3> QED BY <3>4 DEF m
    <2>3. DOMAIN frames[n] = {"vm", "fn", "ip", "env", "vals", "dst", "args", "site"}
      BY <2>2 DEF Fits, FramesFit, FrameFits
    <2>4. IsSeq(low) /\ Len(low) = n /\ DOMAIN low = 1 .. n /\ \A i \in 1 .. n : low[i] = frames[i]
      BY <1>1, <2>2, IsSeqFront, IsSeqLen
    <2>5. /\ g.vm = frames[n].vm /\ g.fn = frames[n].fn /\ g.ip = frames[n].ip
          /\ g.vals = Replaced(frames[n].vals, k, a)
      BY <2>3
    <2> HIDE DEF low, k, n
    <2>6. frames' = Replaced(low, n, g)
      <3>1. frames' = [low EXCEPT ![n] = [low[n] EXCEPT !.vals = Replaced(@, k, a)]]
        BY <2>1, <2>2, <2>4
      <3> QED BY <2>2, <2>4, <3>1 DEF Replaced
    <2> HIDE DEF g
    <2>7. /\ Len(frames') = n
          /\ \A i \in 1 .. n : frames'[i] = IF i = n THEN g ELSE low[i]
      BY <2>4, <2>6, IsSeqReplaced
    <2>8. Sized(frames[n])
      BY <2>2 DEF AllSized
    <2>9. Sized(g)
      <3> SUFFICES ASSUME g.vm = "register"
                   PROVE  IsSeq(g.vals) /\ Len(g.vals) = functions_v2[g.fn].frame_size
                          /\ g.ip \in 0 .. Len(functions_v2[g.fn].code)
        BY DEF Sized
      <3>1. /\ IsSeq(frames[n].vals) /\ Len(frames[n].vals) = functions_v2[g.fn].frame_size
            /\ g.ip \in 0 .. Len(functions_v2[g.fn].code)
        BY <2>5, <2>8 DEF Sized
      <3> QED BY <2>5, <3>1, IsSeqReplaced
    <2> QED BY <2>2, <2>4, <2>7, <2>9 DEF AllSized, AllSizedNext
  <1> QED BY <1>2, <1>3

LEMMA MachineSized ==
  ASSUME CodeFits, AllRegistered, NEW own, Fits(own), AllSized, MachineNext
  PROVE  AllSizedNext
  <1>1. CASE StackNext
    BY <1>1, StackSized
  <1>2. CASE SReturnAcross
    <2>1. frames # <<>>
      BY <1>2 DEF SReturnAcross, SFinishes, SAt, Running
    <2> QED BY <1>2, <2>1, DeliverSized DEF SReturnAcross
  <1>3. CASE RReturn \/ RFallOff
    <2>1. frames # <<>> /\ \E a, dst : Deliver(a, dst)
      BY <1>3 DEF RReturn, RFallOff, RAt, Running
    <2> QED BY <2>1, DeliverSized
  <1>4. CASE RRefused /\ Abort
    BY <1>4, AbortSized
  <1> QED BY <1>1, <1>2, <1>3, <1>4, RegisterCallSized, RegisterSimpleSized
          DEF MachineNext, RegisterNext

\* The host begins with one activation.
LEMMA RunSized ==
  ASSUME NEW vm, NEW name \in DOMAIN functions_v2, TranslatedFits, Run(vm, name)
  PROVE  AllSizedNext
  <1> DEFINE f == IF vm = "register" THEN functions_v2[name] ELSE instructions[name]
             m == IF vm = "register" THEN f.frame_size ELSE f.size
             slots == Bind(f, m, <<>>)
             vals == IF vm = "register" THEN slots ELSE <<>>
             h == NewFrame(vm, name, Len(envs) + 1, vals, <<>>)
  <1>1. frames' = <<h>>
    BY DEF Run
  <1>2. h.vm = vm /\ h.fn = name /\ h.vals = vals /\ h.ip = 0
    <2> HIDE DEF vals
    <2> QED BY DEF NewFrame
  <1>3. /\ functions_v2[name].frame_size \in Nat
        /\ Len(functions_v2[name].code) \in Nat
    BY IsSeqLen DEF TranslatedFits
  <1>4. vm = "register" => vals = slots /\ m = functions_v2[name].frame_size
    OBVIOUS
  <1>5. m \in Nat => IsSeq(slots) /\ Len(slots) = m
    <2> HIDE DEF m
    <2> QED BY BindFits
  <1> HIDE DEF h, slots, m, vals
  <1>6. Sized(h)
    BY <1>2, <1>3, <1>4, <1>5 DEF Sized
  <1>7. Len(frames') = 1 /\ frames'[1] = h
    BY <1>1
  <1> QED BY <1>6, <1>7 DEF AllSizedNext

-----------------------------------------------------------------------------
(* Registers through the pipeline                                          *)

RegInv ==
  /\ phase = "translate" => (OwnSlots(legacy) => AtHome(code))
  /\ AllRegistered
  /\ AllSized

\* Nothing of it is disturbed.
LEMMA RegUnchanged ==
  ASSUME RegInv, UNCHANGED <<instructions, functions_v2, frames>>
  PROVE  AllRegistered' /\ AllSized'
  BY DEF RegInv, AllRegistered, Registered, Outermost, AllSized, Sized

LEMMA RegRun ==
  ASSUME RegInv, AllSizedNext, UNCHANGED <<instructions, functions_v2>>
  PROVE  AllRegistered' /\ AllSized'
  BY DEF RegInv, AllRegistered, Registered, Outermost, AllSized, AllSizedNext, Sized

LEMMA RegLoad == ASSUME PInv, RegInv, Load PROVE RegInv'
  <1>1. phase = "load" /\ UNCHANGED <<instructions, functions_v2, frames, code>>
    BY DEF Load, runtime, program
  <1>2. code = <<>>
    BY <1>1 DEF PInv, Fresh
  <1>3. AtHome(code')
    BY <1>1, <1>2 DEF AtHome
  <1> QED BY <1>1, <1>3, RegUnchanged DEF RegInv

LEMMA RegTranslate == ASSUME PInv, RegInv, Translate PROVE RegInv'
  <1>1. /\ phase = "translate" /\ TranslateNext /\ Translating
        /\ UNCHANGED <<phase, instructions, functions_v2, frames>>
    BY DEF Translate, runtime, program, PInv
  <1>2. OwnSlots(legacy) => AtHome(code')
    BY <1>1, StaysHome DEF RegInv, Translating
  <1>3. legacy' = legacy
    <2>1. Translating'
      BY <1>1, TranslateStepHolds DEF PInv
    <2> QED BY <1>1, <2>1 DEF Translating, Untranslated, Chosen, legacy, SourceOf
  <1> QED BY <1>1, <1>2, <1>3, RegUnchanged DEF RegInv, OwnSlots, AtHome, Home

\* What is translated to the end.
LEMMA FinishedCode ==
  ASSUME IInv, finished
  PROVE  /\ CodeHolds(code, max_slot)
         /\ \A i \in 1 .. Len(code) : code[i].op \in Jumps => code[i].target \in 0 .. Len(code)
  <1>1. CodeHolds(code, max_slot) /\ code \in Seq(Instruction2)
    BY DEF IInv, CodeHolds
  <1>2. ASSUME NEW i \in 1 .. Len(code), code[i].op \in Jumps
        PROVE  code[i].target \in 0 .. Len(code)
    <2>1. DOMAIN legacy = 1 .. Len(legacy) /\ ip = Len(legacy)
      BY SourceType DEF IInv, legacy
    <2>2. PICK j \in 1 .. ip : EmittedFor(i, j)
      BY <1>2 DEF IInv, JumpsHold
    <2> QED BY <1>2, <2>1, <2>2, LandingType DEF EmittedFor
  <1> QED BY <1>1, <1>2

LEMMA RegRegister == ASSUME PInv, RegInv, Register PROVE RegInv'
  <1> DEFINE f == instructions[Chosen]
             new == [code |-> code, frame_size |-> max_slot, params |-> f.params,
                     variadic |-> f.variadic]
  <1>1. /\ phase = "translate" /\ phase' = "load" /\ finished
        /\ functions_v2' = With(functions_v2, Chosen, new)
        /\ UNCHANGED <<instructions, frames>>
    BY DEF Register
  <1>2. Translating /\ CodeFits
    BY <1>1, PromisedCode DEF PInv
  <1>3. Chosen \in DOMAIN instructions /\ Chosen \notin DOMAIN functions_v2
    BY <1>2 DEF Translating, Chosen, Untranslated
  <1>4. /\ DOMAIN functions_v2' = DOMAIN functions_v2 \cup {Chosen}
        /\ functions_v2'[Chosen] = new
        /\ \A n \in DOMAIN functions_v2 : functions_v2'[n] = functions_v2[n]
    BY <1>1, <1>3 DEF With
  <1>5. /\ CodeHolds(code, max_slot)
        /\ \A i \in 1 .. Len(code) : code[i].op \in Jumps => code[i].target \in 0 .. Len(code)
    BY <1>1, <1>2, FinishedCode DEF Translating
  <1>6. Chosen \in Outermost(instructions) => AtHome(code)
    <2>1. legacy = f.code
      BY <1>2 DEF Translating, SourceOf, legacy
    <2> QED BY <1>1, <1>2, <2>1, OutermostOwnSlots DEF RegInv
  <1>7. new.code = code /\ new.frame_size = max_slot
    OBVIOUS
  <1> HIDE DEF f, new
  <1>8. AllRegistered'
    <2> SUFFICES ASSUME NEW n \in DOMAIN functions_v2' PROVE Registered(n)'
      BY DEF AllRegistered
    <2>1. CASE n = Chosen
      <3>1. functions_v2'[n].code = code /\ functions_v2'[n].frame_size = max_slot
        BY <1>4, <1>7, <2>1
      <3>2. n \in Outermost(instructions') => AtHome(code)
        BY <1>1, <1>6, <2>1
      <3> QED BY <1>5, <3>1, <3>2 DEF Registered, Outermost, CodeHolds, Inside, AtHome, Home
    <2>2. CASE n # Chosen
      <3>1. n \in DOMAIN functions_v2 /\ functions_v2'[n] = functions_v2[n]
        BY <1>4, <2>2
      <3>2. Registered(n)
        BY <3>1 DEF RegInv, AllRegistered
      <3> QED BY <1>1, <3>1, <3>2 DEF Registered, Outermost
    <2> QED BY <2>1, <2>2
  <1>9. AllSized'
    <2> SUFFICES ASSUME NEW i \in 1 .. Len(frames), frames[i].vm = "register"
                 PROVE  /\ IsSeq(frames[i].vals)
                        /\ Len(frames[i].vals) = functions_v2'[frames[i].fn].frame_size
                        /\ frames[i].ip \in 0 .. Len(functions_v2'[frames[i].fn].code)
      BY <1>1 DEF AllSized, Sized
    <2>1. PICK own : Fits(own)
      BY DEF PInv
    <2>2. frames[i].fn \in DOMAIN functions_v2
      BY <2>1 DEF Fits, FramesFit, FrameFits
    <2>3. functions_v2'[frames[i].fn] = functions_v2[frames[i].fn]
      BY <1>4, <2>2
    <2> QED BY <2>3 DEF RegInv, AllSized, Sized
  <1> QED BY <1>1, <1>8, <1>9 DEF RegInv

LEMMA RegExecute == ASSUME PInv, RegInv, Execute PROVE RegInv'
  <1>1. MachineNext /\ status = "running" /\ UNCHANGED <<phase, translation>>
    BY MachineRuns DEF Execute
  <1>2. CodeFits
    BY <1>1, PromisedCode DEF PInv
  <1>3. PICK own : Fits(own)
    BY DEF PInv
  <1>4. UNCHANGED <<instructions, functions_v2>>
    BY <1>1, <1>2, <1>3, MachineHolds DEF FitsNext
  <1>5. AllSizedNext
    BY <1>1, <1>2, <1>3, MachineSized DEF RegInv
  <1>6. phase' = "translate" => (OwnSlots(legacy) => AtHome(code))'
    BY <1>1 DEF RegInv, translation, legacy, OwnSlots, AtHome, Home
  <1> QED BY <1>4, <1>5, <1>6, RegRun DEF RegInv

LEMMA RegRunInit == ASSUME PInv, RegInv, RunInit PROVE RegInv'
  <1>1. /\ phase' = "init" /\ Untranslated = {}
        /\ \/ InitName \in DOMAIN instructions /\ Run("register", InitName)
           \/ UNCHANGED runtime
    BY DEF RunInit
  <1>2. CASE InitName \in DOMAIN instructions /\ Run("register", InitName)
    <2>1. InitName \in DOMAIN functions_v2 /\ TranslatedFits
      BY <1>1, <1>2 DEF Untranslated, PInv
    <2>2. UNCHANGED <<instructions, functions_v2>>
      BY <1>2 DEF Run, program
    <2> QED BY <1>1, <1>2, <2>1, <2>2, RunSized, RegRun DEF RegInv
  <1>3. CASE UNCHANGED runtime
    BY <1>1, <1>3, RegUnchanged DEF RegInv, runtime, program
  <1> QED BY <1>1, <1>2, <1>3

LEMMA RegRunMain == ASSUME PInv, RegInv, RunMain PROVE RegInv'
  <1>1. phase = "init" /\ phase' = "main" /\ Run(entry, "main")
    BY DEF RunMain
  <1>2. "main" \in DOMAIN functions_v2 /\ TranslatedFits
    BY <1>1, PromisedCode DEF PInv
  <1>3. UNCHANGED <<instructions, functions_v2>>
    BY <1>1 DEF Run, program
  <1> QED BY <1>1, <1>2, <1>3, RunSized, RegRun DEF RegInv

LEMMA RegNext == PInv /\ RegInv /\ [Next]_vars => RegInv'
  <1> SUFFICES ASSUME PInv, RegInv, [Next]_vars PROVE RegInv'
    OBVIOUS
  <1>1. CASE Finish
    <2>1. phase' = "end" /\ UNCHANGED <<instructions, functions_v2, frames>>
      BY <1>1 DEF Finish, runtime, program
    <2> QED BY <2>1, RegUnchanged DEF RegInv
  <1>2. CASE UNCHANGED vars
    <2>1. UNCHANGED <<phase, instructions, functions_v2, frames>> /\ UNCHANGED translation
      BY <1>2 DEF vars, runtime, program
    <2>2. phase' = "translate" => (OwnSlots(legacy) => AtHome(code))'
      BY <2>1 DEF RegInv, translation, legacy, OwnSlots, AtHome, Home
    <2> QED BY <2>1, <2>2, RegUnchanged DEF RegInv
  <1> QED BY <1>1, <1>2, RegLoad, RegTranslate, RegRegister, RegExecute, RegRunInit, RegRunMain
          DEF Next, Done

\* Code that is translated keeps to its frame, through all of a run.
THEOREM RegistersInvariant == Spec => [](promised => RegInv)
  <1>1. Init => RegInv
    <2> SUFFICES ASSUME Init PROVE RegInv
      OBVIOUS
    <2>1. functions_v2 = <<>> /\ Len(frames) = 0 /\ phase # "translate"
      BY DEF Init
    <2> QED BY <2>1 DEF RegInv, AllRegistered, AllSized
  <1>2. (promised => PInv) /\ (promised => RegInv) /\ [Next]_vars => (promised => RegInv)'
    BY RegNext, PromiseStays
  <1> QED BY <1>1, <1>2, PipelineInvariant, PTL DEF Spec

\* Pipeline!RegistersSuffice of all code that keeps the parser's promises: the
\* registers and the jumps that compile_to_us2 promises for one function at a
\* time are those run() finds, through all calls, returns and errors, so that
\* resolve_ref never returns nullptr and no jump is refused.
THEOREM RegistersSufficeHolds == Spec => []RegistersSuffice
  <1>1. (promised => PInv) /\ (promised => RegInv) => RegistersSuffice
    <2> SUFFICES ASSUME PInv, RegInv, Running("register")
                 PROVE  /\ Top.ip \in 0 .. Len(RFunction.code)
                        /\ Top.ip < Len(RFunction.code) =>
                             /\ RIn.dst.depth = 0 /\ RIn.a.depth = 0 /\ RIn.b.depth = 0
                             /\ RFound /\ Writes(RIn) \subseteq 0 .. Len(Top.vals) - 1
                             /\ RIn.op \in Jumps => RIn.target \in 0 .. Len(RFunction.code)
      BY DEF RegistersSuffice
    <2>1. CodeFits
      BY PromisedCode DEF PInv, Running
    <2>2. PICK own : Fits(own)
      BY DEF PInv
    <2>3. /\ Registered(Top.fn) /\ AtHome(RFunction.code)
          /\ Len(Top.vals) = RFunction.frame_size
          /\ Top.ip \in 0 .. Len(RFunction.code) /\ Len(RFunction.code) \in Nat
      BY <2>1, <2>2, RegisterSized DEF RegInv
    <2>4. ASSUME Top.ip < Len(RFunction.code)
          PROVE  Top.ip + 1 \in 1 .. Len(RFunction.code)
      BY <2>3, <2>4
    <2> QED BY <2>3, <2>4 DEF AtHome, Home, Registered, CodeHolds, Inside, RFunction, RIn, RFound
  <1> QED BY <1>1, RegistersInvariant, PipelineInvariant, PTL

-----------------------------------------------------------------------------
(* Values refer to arrays that there are                                   *)

Held(n) == {a \in Value : a.t = "array" => a.v \in 1 .. n}
Keys == [t : {"string", "function", "array", "bool", "none"}, v : Int]

\* An array of a program that has n of them.
ArrayHolds(m, n) ==
  /\ IsFiniteSet(DOMAIN m) /\ DOMAIN m \subseteq Keys \cap Held(n)
  /\ \A k \in DOMAIN m : m[k] \in Held(n)

ArraysHold(s) == IsSeq(s) /\ \A i \in 1 .. Len(s) : ArrayHolds(s[i], Len(s))

LEMMA HeldMore ==
  ASSUME NEW m \in Nat, NEW n \in Nat, m <= n
  PROVE  /\ Held(m) \subseteq Held(n)
         /\ \A x : ArrayHolds(x, m) => ArrayHolds(x, n)
  <1>1. Held(m) \subseteq Held(n)
    BY DEF Held
  <1> QED BY <1>1 DEF ArrayHolds

\* What is no array is held by any program.
LEMMA HeldPlain ==
  ASSUME NEW n \in Nat
  PROVE  /\ None \in Held(n)
         /\ \A i \in Int : MakeInt(i) \in Held(n) /\ MakeFloat(i) \in Held(n)
                           /\ MakeString(i) \in Held(n) /\ MakeString(i) \in Keys
                           /\ FunctionRef(i) \in Held(n)
         /\ \A b : MakeBool(b) \in Held(n)
         /\ \A i \in 1 .. n : ArrayRef(i) \in Held(n)
         /\ \A a \in Literal : a \in Held(n)
  <1>1. None \in Held(n)
    BY DEF None, Held, Value
  <1>2. ASSUME NEW i \in Int
        PROVE  /\ MakeInt(i) \in Held(n) /\ MakeFloat(i) \in Held(n) /\ MakeString(i) \in Held(n)
               /\ FunctionRef(i) \in Held(n) /\ MakeString(i) \in Keys
    BY DEF MakeInt, MakeFloat, MakeString, FunctionRef, Held, Value, Keys
  <1>3. ASSUME NEW b PROVE MakeBool(b) \in Held(n)
    BY DEF MakeBool, Held, Value
  <1>4. ASSUME NEW i \in 1 .. n PROVE ArrayRef(i) \in Held(n)
    BY DEF ArrayRef, Held, Value
  <1>5. ASSUME NEW a \in Literal PROVE a \in Held(n)
    BY DEF Literal, Held, Value
  <1> QED BY <1>1, <1>2, <1>3, <1>4, <1>5

LEMMA HeldParts ==
  ASSUME NEW n \in Nat, NEW a \in Held(n)
  PROVE  /\ a \in Value /\ a.v \in Int /\ Key(a) \in Keys \cap Held(n)
         /\ a.t = "array" => a.v \in 1 .. n
  <1>1. a \in Value /\ a.v \in Int /\ (a.t = "array" => a.v \in 1 .. n)
    BY DEF Held, Value
  <1>2. a.t \in {"none", "int", "float", "bool", "string", "array", "function"}
    BY <1>1 DEF Value
  <1>3. Key(a) \in Keys
    BY <1>1, <1>2 DEF Key, Keys, IsNumber
  <1>4. Key(a).v = a.v /\ (Key(a).t = "array" => a.t = "array")
    BY <1>2 DEF Key, IsNumber
  <1>5. \A k \in Keys : k \in Value
    BY DEF Keys, Value
  <1> QED BY <1>1, <1>3, <1>4, <1>5 DEF Held

-----------------------------------------------------------------------------
(* The operations on values *)

LEMMA SizeType ==
  ASSUME ArraysHold(arrays), NEW a \in Held(Len(arrays))
  PROVE  Size(a) \in Nat
  <1>1. Len(arrays) \in Nat
    BY IsSeqLen DEF ArraysHold
  <1>2. CASE a.t = "array"
    <2>1. a.v \in 1 .. Len(arrays)
      BY <1>1, <1>2, HeldParts
    <2>2. IsFiniteSet(DOMAIN arrays[a.v])
      BY <2>1 DEF ArraysHold, ArrayHolds
    <2> QED BY <1>2, <2>2, FS_CardinalityType DEF Size
  <1>3. CASE a.t # "array"
    BY <1>3 DEF Size
  <1> QED BY <1>2, <1>3

LEMMA QuotientType ==
  ASSUME NEW x \in Int, NEW y \in Int, y # 0
  PROVE  Quotient(x, y) \in Int
  <1>1. Abs(x) \in Nat /\ Abs(y) \in Nat \ {0}
    BY DEF Abs
  <1> DEFINE q == Abs(x) \div Abs(y)
  <1>2. q \in Int
    BY <1>1
  <1> HIDE DEF q
  <1>3. -q \in Int
    BY <1>2
  <1> QED BY <1>2, <1>3 DEF Quotient, q

\* What an arithmetic operator computes.
Arithmetic(op, x, y) ==
  CASE op = "ADD" -> x + y [] op = "SUB" -> x - y [] op = "MUL" -> x * y
    [] op = "DIV" -> Quotient(x, y) [] op = "MOD" -> x - y * Quotient(x, y)

LEMMA ArithmeticType ==
  ASSUME NEW op \in ArithmeticOps, NEW x \in Int, NEW y \in Int, op \in {"DIV", "MOD"} => y # 0
  PROVE  Arithmetic(op, x, y) \in Int
  <1>1. CASE op = "ADD"
    <2>1. Arithmetic(op, x, y) = x + y
      BY <1>1 DEF Arithmetic
    <2>2. x + y \in Int
      OBVIOUS
    <2> QED BY <2>1, <2>2
  <1>2. CASE op = "SUB"
    <2>1. Arithmetic(op, x, y) = x - y
      BY <1>2 DEF Arithmetic
    <2>2. x - y \in Int
      OBVIOUS
    <2> QED BY <2>1, <2>2
  <1>3. CASE op = "MUL"
    <2>1. Arithmetic(op, x, y) = x * y
      BY <1>3 DEF Arithmetic
    <2>2. x * y \in Int
      OBVIOUS
    <2> QED BY <2>1, <2>2
  <1>4. CASE op = "DIV"
    <2>1. Arithmetic(op, x, y) = Quotient(x, y) /\ y # 0
      BY <1>4 DEF Arithmetic
    <2> QED BY <2>1, QuotientType
  <1>5. CASE op = "MOD"
    <2>1. Arithmetic(op, x, y) = x - (y * Quotient(x, y)) /\ y # 0
      BY <1>5 DEF Arithmetic
    <2>2. Quotient(x, y) \in Int
      BY <2>1, QuotientType
    <2>3. ASSUME NEW q \in Int PROVE x - (y * q) \in Int
      OBVIOUS
    <2> QED BY <2>1, <2>2, <2>3
  <1> QED BY <1>1, <1>2, <1>3, <1>4, <1>5 DEF ArithmeticOps

LEMMA NumberType ==
  ASSUME NEW n \in Nat, NEW a \in Held(n), NEW m \in Nat
  PROVE  AsNumber(a, m) \in Int
  BY HeldParts DEF AsNumber

LEMMA ComputeHeld ==
  ASSUME ArraysHold(arrays), NEW op \in BinaryOps, NEW a \in Held(Len(arrays)),
         NEW b \in Held(Len(arrays)), Defined(op, a, b, Size(b))
  PROVE  Compute(op, a, b) \in Held(Len(arrays))
  <1> DEFINE n == Len(arrays)
             x == AsNumber(a, Size(a))
             y == AsNumber(b, Size(b))
             z == Arithmetic(op, x, y)
  <1>1. n \in Nat
    BY IsSeqLen DEF ArraysHold
  <1>2. x \in Int /\ y \in Int
    BY <1>1, SizeType, NumberType
  <1>3. CASE op \in ArithmeticOps
    <2>1. op \in {"DIV", "MOD"} => y # 0
      BY <1>3 DEF Defined, ArithmeticOps, ComparisonOps
    <2> HIDE DEF x, y
    <2>2. z \in Int
      BY <1>2, <1>3, <2>1, ArithmeticType
    <2>3. Compute(op, a, b) = IF IsInteger(a) /\ IsInteger(b) THEN MakeInt(z) ELSE MakeFloat(z)
      BY <1>3 DEF Compute, Binary, Arithmetic, ArithmeticOps, x, y
    <2> HIDE DEF z
    <2> QED BY <1>1, <2>2, <2>3, HeldPlain
  <1>4. CASE op \notin ArithmeticOps
    <2>1. \E t : Compute(op, a, b) = MakeBool(t)
      BY <1>4 DEF Compute, Binary, BinaryOps, ComparisonOps
    <2> QED BY <1>1, <2>1, HeldPlain
  <1> QED BY <1>3, <1>4

LEMMA UnaryHeld ==
  ASSUME ArraysHold(arrays), NEW op \in UnaryOps, NEW a \in Held(Len(arrays))
  PROVE  Unary(op, a, Size(a)) \in Held(Len(arrays))
  <1>1. Len(arrays) \in Nat
    BY IsSeqLen DEF ArraysHold
  <1>2. CASE op = "NEGATE"
    <2>1. Unary(op, a, Size(a)) = IF a.t \in {"int", "float"} THEN [a EXCEPT !.v = -@] ELSE a
      BY <1>2 DEF Unary
    <2>2. ASSUME a.t \in {"int", "float"} PROVE [a EXCEPT !.v = -@] \in Held(Len(arrays))
      <3>1. a \in Value /\ -a.v \in Int
        BY <1>1, HeldParts
      <3> QED BY <2>2, <3>1 DEF Held, Value
    <2> QED BY <2>1, <2>2
  <1>3. CASE op # "NEGATE"
    <2>1. \E t : Unary(op, a, Size(a)) = MakeBool(t)
      BY <1>3 DEF Unary, UnaryOps
    <2> QED BY <1>1, <2>1, HeldPlain
  <1> QED BY <1>2, <1>3

LEMMA ElementHeld ==
  ASSUME ArraysHold(arrays), NEW a \in Held(Len(arrays)), NEW k
  PROVE  Element(a, k) \in Held(Len(arrays)) /\ Property(a, k) \in Held(Len(arrays))
  <1>1. Len(arrays) \in Nat /\ None \in Held(Len(arrays))
    BY IsSeqLen, HeldPlain DEF ArraysHold
  <1>2. ASSUME a.t = "array", Key(k) \in DOMAIN arrays[a.v]
        PROVE  arrays[a.v][Key(k)] \in Held(Len(arrays))
    <2>1. a.v \in 1 .. Len(arrays)
      BY <1>1, <1>2, HeldParts
    <2> QED BY <1>2, <2>1 DEF ArraysHold, ArrayHolds
  <1>3. Element(a, k) \in Held(Len(arrays))
    BY <1>1, <1>2 DEF Element
  <1> QED BY <1>1, <1>3 DEF Property

-----------------------------------------------------------------------------
(* New arrays *)

\* There are at most as many keys as there are elements to store.
LEMMA ImageFinite ==
  ASSUME NEW m \in Nat, NEW f
  PROVE  IsFiniteSet({f[i] : i \in 1 .. m})
  <1> DEFINE T == {f[i] : i \in 1 .. m}
             g == [i \in 1 .. m |-> f[i]]
  <1>1. g \in Surjection(1 .. m, T)
    BY DEF Surjection
  <1>2. IsFiniteSet(1 .. m)
    BY FS_Interval
  <1> HIDE DEF g, T
  <1>3. IsFiniteSet(T)
    BY <1>1, <1>2, FS_Surjection
  <1> QED BY <1>3 DEF T

LEMMA ListedHeld ==
  ASSUME NEW n \in Nat, NEW s \in Seq(Held(n))
  PROVE  ArrayHolds(Listed(s), n)
  <1> DEFINE f == [i \in 1 .. Len(s) |-> MakeString(i - 1)]
             K == {f[i] : i \in 1 .. Len(s)}
  <1>1. Len(s) \in Nat /\ DOMAIN s = 1 .. Len(s)
    OBVIOUS
  <1>2. Listed(s) = [k \in K |-> s[k.v + 1]]
    <2>1. K = {MakeString(i - 1) : i \in DOMAIN s}
      BY <1>1
    <2> HIDE DEF K
    <2> QED BY <2>1 DEF Listed
  <1>3. IsFiniteSet(K)
    <2> HIDE DEF f
    <2> QED BY <1>1, ImageFinite
  <1>4. ASSUME NEW k \in K PROVE k \in Keys \cap Held(n) /\ s[k.v + 1] \in Held(n)
    <2>1. PICK i \in 1 .. Len(s) : k = MakeString(i - 1)
      OBVIOUS
    <2>2. i \in Int /\ i - 1 \in Int /\ (i - 1) + 1 = i /\ i \in DOMAIN s
      BY <1>1
    <2>3. MakeString(i - 1).v = i - 1
      BY DEF MakeString
    <2>4. k \in Keys /\ k \in Held(n)
      BY <2>1, <2>2, HeldPlain
    <2>5. k.v + 1 = i
      BY <2>1, <2>2, <2>3
    <2> QED BY <2>2, <2>4, <2>5
  <1> HIDE DEF K, f
  <1>5. DOMAIN Listed(s) = K /\ \A k \in K : Listed(s)[k] = s[k.v + 1]
    BY <1>2
  <1> QED BY <1>3, <1>4, <1>5 DEF ArrayHolds

LEMMA WithHeld ==
  ASSUME NEW n \in Nat, NEW m, ArrayHolds(m, n), NEW k \in Keys \cap Held(n), NEW a \in Held(n)
  PROVE  ArrayHolds(With(m, k, a), n)
  <1>1. /\ DOMAIN With(m, k, a) = DOMAIN m \cup {k}
        /\ \A j \in DOMAIN m \cup {k} : With(m, k, a)[j] = IF j = k THEN a ELSE m[j]
    BY DEF With
  <1>2. IsFiniteSet(DOMAIN m \cup {k})
    BY FS_AddElement DEF ArrayHolds
  <1> HIDE DEF With
  <1> QED BY <1>1, <1>2 DEF ArrayHolds

\* The keys of an array are in a strict order, hence each place is taken.
LEMMA PrecedesOrders ==
  /\ \A k \in Keys : ~Precedes(k, k)
  /\ \A i, j, k \in Keys : Precedes(i, j) /\ Precedes(j, k) => Precedes(i, k)
  /\ \A j, k \in Keys : j = k \/ Precedes(j, k) \/ Precedes(k, j)
  <1> DEFINE place == [string |-> 0, function |-> 1, array |-> 2, bool |-> 3, none |-> 4]
             T == {"string", "function", "array", "bool", "none"}
  <1>1. \A t \in T : place[t] \in 0 .. 4
    OBVIOUS
  <1>2. \A t, u \in T : place[t] = place[u] => t = u
    OBVIOUS
  <1>3. \A j, k \in Keys : Precedes(j, k) <=>
           (place[j.t] < place[k.t] \/ (j.t = k.t /\ j.v < k.v))
    BY DEF Precedes
  <1>4. \A k \in Keys : k.t \in T /\ k.v \in Int
    BY DEF Keys
  <1>5. \A j, k \in Keys : j.t = k.t /\ j.v = k.v => j = k
    BY DEF Keys
  <1> HIDE DEF place, T
  <1>6. \A j, k \in Keys : place[j.t] \in Int /\ j.v \in Int
                           /\ (place[j.t] = place[k.t] => j.t = k.t)
    BY <1>1, <1>2, <1>4
  <1>7. \A k \in Keys : ~Precedes(k, k)
    BY <1>3, <1>6
  <1>8. \A i, j, k \in Keys : Precedes(i, j) /\ Precedes(j, k) => Precedes(i, k)
    BY <1>3, <1>6
  <1>9. \A j, k \in Keys : j = k \/ Precedes(j, k) \/ Precedes(k, j)
    BY <1>3, <1>5, <1>6
  <1> QED BY <1>7, <1>8, <1>9

LEMMA PlaceTaken ==
  ASSUME NEW K, K \subseteq Keys, IsFiniteSet(K), NEW p \in 1 .. Cardinality(K)
  PROVE  \E k \in K : Cardinality({j \in K : Precedes(j, k)}) = p - 1
  <1> DEFINE n == Cardinality(K)
             below(k) == {j \in K : Precedes(j, k)}
             f == [k \in K |-> Cardinality(below(k))]
  <1>1. n \in Nat
    BY FS_CardinalityType
  <1>2. ASSUME NEW k \in K
        PROVE  /\ IsFiniteSet(below(k)) /\ Cardinality(below(k)) \in Nat
               /\ Cardinality(below(k)) <= n
               /\ Cardinality(below(k)) # n
    <2>1. below(k) \in SUBSET K /\ k \notin below(k)
      BY PrecedesOrders
    <2>2. below(k) # K
      BY <2>1
    <2> HIDE DEF below
    <2> QED BY <2>1, <2>2, FS_Subset, FS_CardinalityType
  <1>3. ASSUME NEW j \in K, NEW k \in K, Precedes(j, k) PROVE Cardinality(below(j)) # Cardinality(below(k))
    <2>1. below(j) \in SUBSET below(k)
      BY <1>3, PrecedesOrders
    <2>2. j \in below(k) /\ j \notin below(j)
      BY <1>3, PrecedesOrders
    <2>3. below(j) # below(k)
      BY <2>2
    <2>4. IsFiniteSet(below(k))
      BY <1>2
    <2> HIDE DEF below
    <2> QED BY <2>1, <2>3, <2>4, FS_Subset
  <1>4. f \in [K -> 0 .. n - 1]
    <2>1. \A k \in K : Cardinality(below(k)) \in 0 .. n - 1
      BY <1>1, <1>2
    <2> QED BY <2>1
  <1>5. \A j, k \in K : f[j] = f[k] => j = k
    BY <1>3, PrecedesOrders
  <1>6. f \in Injection(K, 0 .. n - 1)
    <2> HIDE DEF f, n
    <2> QED BY <1>4, <1>5 DEF Injection, IsInjective
  <1>7. IsFiniteSet(0 .. n - 1) /\ Cardinality(0 .. n - 1) = n
    <2> HIDE DEF n
    <2>1. 0 \in Int /\ n - 1 \in Int
      BY <1>1
    <2>2. /\ IsFiniteSet(0 .. n - 1)
          /\ Cardinality(0 .. n - 1) = IF 0 > n - 1 THEN 0 ELSE (n - 1) - 0 + 1
      BY <2>1, FS_Interval
    <2>3. (IF 0 > n - 1 THEN 0 ELSE (n - 1) - 0 + 1) = n
      BY <1>1
    <2> QED BY <2>2, <2>3
  <1> HIDE DEF f
  <1>8. f \in Surjection(K, 0 .. n - 1)
    BY <1>6, <1>7, FS_Injection
  <1>9. p - 1 \in 0 .. n - 1
    BY <1>1
  <1>10. PICK k \in K : f[k] = p - 1
    BY <1>8, <1>9 DEF Surjection
  <1> QED BY <1>10 DEF f

LEMMA KeyListHeld ==
  ASSUME ArraysHold(arrays), NEW a \in Held(Len(arrays)), a.t \in {"array", "string"}
  PROVE  KeyList(a) \in Seq(Held(Len(arrays)))
  <1> DEFINE n == Len(arrays)
             K == DOMAIN arrays[a.v]
             s == [p \in 1 .. Cardinality(K) |->
                     CHOOSE k \in K : Cardinality({j \in K : Precedes(j, k)}) = p - 1]
  <1>1. n \in Nat
    BY IsSeqLen DEF ArraysHold
  <1>2. CASE a.t = "string"
    <2>1. KeyList(a) = <<MakeString(0)>>
      BY <1>2 DEF KeyList
    <2>2. MakeString(0) \in Held(n)
      BY <1>1, HeldPlain
    <2> QED BY <2>1, <2>2
  <1>3. CASE a.t = "array"
    <2>1. a.v \in 1 .. n
      BY <1>1, <1>3, HeldParts
    <2>2. IsFiniteSet(K) /\ K \subseteq Keys /\ K \subseteq Held(n)
      BY <2>1 DEF ArraysHold, ArrayHolds
    <2>3. Cardinality(K) \in Nat
      BY <2>2, FS_CardinalityType
    <2>4. KeyList(a) = s
      BY <1>3 DEF KeyList
    <2> HIDE DEF K
    <2>5. ASSUME NEW p \in 1 .. Cardinality(K)
          PROVE  s[p] \in K
      <3>1. \E k \in K : Cardinality({j \in K : Precedes(j, k)}) = p - 1
        BY <2>2, PlaceTaken
      <3> QED BY <3>1
    <2>6. s \in [1 .. Cardinality(K) -> Held(n)]
      <3>1. \A p \in 1 .. Cardinality(K) : s[p] \in Held(n)
        BY <2>2, <2>5
      <3> QED BY <3>1
    <2> HIDE DEF s
    <2> QED BY <2>3, <2>4, <2>6, SeqDef
  <1> QED BY <1>2, <1>3

LEMMA ObjectHeld ==
  ASSUME NEW n \in Nat, NEW args \in Seq(Held(n)), ObjectArgs(args)
  PROVE  ArrayHolds(Object(args), n)
  <1> DEFINE c == args[Len(args)].v
             f == [i \in 1 .. c |-> Key(args[c + i])]
             K == {f[i] : i \in 1 .. c}
             last(k) == CHOOSE i \in 1 .. c : /\ Key(args[c + i]) = k
                                             /\ \A j \in i + 1 .. c : Key(args[c + j]) # k
  <1>1. Len(args) \in Nat /\ Len(args) # 0 /\ \A i \in 1 .. Len(args) : args[i] \in Held(n)
    BY EmptySeq DEF ObjectArgs
  <1>2. c \in Nat /\ Len(args) = 2 * c + 1
    <2>1. c \in Int
      BY <1>1, HeldParts
    <2> QED BY <2>1 DEF ObjectArgs
  <1>3. Object(args) = [k \in K |-> args[last(k)]]
    <2>1. K = {Key(args[c + i]) : i \in 1 .. c}
      OBVIOUS
    <2> QED BY <2>1 DEF Object
  <1> HIDE DEF c
  <1>4. \A i \in 1 .. c : i \in 1 .. Len(args) /\ c + i \in 1 .. Len(args)
    BY <1>2
  <1>5. \A i \in 1 .. c : f[i] \in Keys \cap Held(n)
    BY <1>1, <1>4, HeldParts
  <1>6. IsFiniteSet(K)
    <2> HIDE DEF f
    <2> QED BY <1>2, ImageFinite
  <1>7. ASSUME NEW k \in K PROVE last(k) \in 1 .. c
    <2> DEFINE I == {i \in 1 .. c : f[i] = k}
    <2>1. I \in SUBSET (1 .. c) /\ I # {}
      OBVIOUS
    <2>2. \E i \in I : \A j \in I : j <= i
      <3> HIDE DEF I
      <3> QED BY <1>2, <2>1, LastOf
    <2>3. PICK i \in I : \A j \in I : j <= i
      BY <2>2
    <2>4. i \in 1 .. c /\ Key(args[c + i]) = k
      OBVIOUS
    <2>5. ASSUME NEW j \in i + 1 .. c PROVE Key(args[c + j]) # k
      <3>1. j \in 1 .. c /\ ~(j <= i)
        BY <1>2, <2>4
      <3>2. f[j] # k
        BY <2>3, <3>1
      <3> QED BY <3>1, <3>2
    <2>6. \E m \in 1 .. c : /\ Key(args[c + m]) = k
                            /\ \A j \in m + 1 .. c : Key(args[c + j]) # k
      BY <2>4, <2>5
    <2> QED BY <2>6
  <1>8. ASSUME NEW k \in K PROVE k \in Keys \cap Held(n) /\ args[last(k)] \in Held(n)
    <2>1. k \in Keys \cap Held(n)
      BY <1>5
    <2> HIDE DEF last, K
    <2> QED BY <1>1, <1>4, <1>7, <2>1
  <1> HIDE DEF last, f, K
  <1>9. DOMAIN Object(args) = K /\ \A k \in K : Object(args)[k] = args[last(k)]
    BY <1>3
  <1> QED BY <1>6, <1>8, <1>9 DEF ArrayHolds

\* What an operation adds to arrays is nothing or one array.
OneMore(new, n) == new = <<>> \/ \E m : new = <<m>> /\ ArrayHolds(m, n)

LEMMA ArraysAdded ==
  ASSUME NEW s, ArraysHold(s), NEW new, OneMore(new, Len(s))
  PROVE  /\ ArraysHold(s \o new) /\ Len(s) \in Nat /\ Len(s \o new) \in Nat
         /\ Len(s) <= Len(s \o new)
         /\ new # <<>> => Len(s \o new) = Len(s) + 1
  <1> DEFINE n == Len(s)
  <1>1. IsSeq(s) /\ n \in Nat
    BY IsSeqLen DEF ArraysHold
  <1>2. ASSUME NEW k \in Nat PROVE k + 1 \in Nat /\ k <= k + 1 /\ k <= k
    OBVIOUS
  <1>3. CASE new = <<>>
    <2>1. s \o <<>> = s
      BY <1>1, ConcatEmptySeq DEF IsSeq
    <2>2. s \o new = s
      BY <1>3, <2>1
    <2> QED BY <1>1, <1>2, <1>3, <2>2
  <1>4. ASSUME NEW m, new = <<m>>, ArrayHolds(m, n)
        PROVE  ArraysHold(s \o new) /\ Len(s \o new) = n + 1
    <2> DEFINE S == {s[i] : i \in DOMAIN s} \cup {m}
               t == Append(s, m)
    <2>1. s \in Seq(S) /\ m \in S
      BY <1>1, SeqMonotonic DEF IsSeq
    <2> HIDE DEF S
    <2>2. s \o <<m>> = t
      BY <2>1, AppendIsConcat
    <2>3. /\ IsSeq(t) /\ Len(t) = n + 1 /\ t[n + 1] = m
          /\ \A i \in 1 .. n : t[i] = s[i]
      BY <1>1, IsSeqAppend
    <2>4. \A x : ArrayHolds(x, n) => ArrayHolds(x, n + 1)
      BY <1>1, <1>2, HeldMore
    <2>5. \A i \in 1 .. n : ArrayHolds(s[i], n)
      BY DEF ArraysHold
    <2> HIDE DEF t, n
    <2>6. ASSUME NEW i \in 1 .. n + 1 PROVE ArrayHolds(t[i], n + 1)
      <3>1. i \in 1 .. n \/ i = n + 1
        BY <1>1
      <3> QED BY <1>4, <2>3, <2>4, <2>5, <3>1
    <2>7. ArraysHold(t)
      BY <2>3, <2>6 DEF ArraysHold
    <2> QED BY <1>4, <2>2, <2>3, <2>7
  <1>5. CASE \E m : new = <<m>> /\ ArrayHolds(m, Len(s))
    <2>1. ArraysHold(s \o new) /\ Len(s \o new) = n + 1
      BY <1>4, <1>5
    <2> DEFINE k == Len(s \o new)
    <2>2. k = n + 1 /\ n \in Nat
      BY <1>1, <2>1
    <2> HIDE DEF k, n
    <2>3. k \in Nat /\ n <= k
      BY <2>2
    <2> QED BY <2>1, <2>2, <2>3 DEF k, n
  <1> QED BY <1>3, <1>5 DEF OneMore

LEMMA ArrayStored ==
  ASSUME ArraysHold(arrays), NEW i \in 1 .. Len(arrays), NEW m, ArrayHolds(m, Len(arrays))
  PROVE  ArraysHold(Replaced(arrays, i, m)) /\ Len(Replaced(arrays, i, m)) = Len(arrays)
  <1>1. IsSeq(arrays)
    BY DEF ArraysHold
  <1>2. /\ IsSeq(Replaced(arrays, i, m)) /\ Len(Replaced(arrays, i, m)) = Len(arrays)
        /\ \A j \in 1 .. Len(arrays) : Replaced(arrays, i, m)[j] = IF j = i THEN m ELSE arrays[j]
    BY <1>1, IsSeqReplaced
  <1> QED BY <1>2 DEF ArraysHold

LEMMA EmptyHeld == ASSUME NEW n PROVE ArrayHolds(<<>>, n)
  <1>1. DOMAIN <<>> = {}
    OBVIOUS
  <1> QED BY <1>1, FS_EmptySet DEF ArrayHolds

LEMMA NewArrayHeld ==
  ASSUME ArraysHold(arrays), NEW f, NEW args \in Seq(Held(Len(arrays)))
  PROVE  OneMore(NewArray(f, args), Len(arrays))
  <1> DEFINE n == Len(arrays)
  <1>1. n \in Nat
    BY IsSeqLen DEF ArraysHold
  <1>2. CASE f = "array"
    <2>1. NewArray(f, args) = <<Listed(args)>>
      BY <1>2 DEF NewArray
    <2> QED BY <1>1, <2>1, ListedHeld DEF OneMore
  <1>3. CASE f = "__object_literal" /\ ObjectArgs(args)
    <2>1. NewArray(f, args) = <<Object(args)>>
      BY <1>3 DEF NewArray
    <2> QED BY <1>1, <1>3, <2>1, ObjectHeld DEF OneMore
  <1>4. CASE f = "keys" /\ args # <<>>
    <2>1. NewArray(f, args) = <<IF BuiltinFails(f, args) THEN <<>> ELSE Listed(KeyList(args[1]))>>
      BY <1>4 DEF NewArray
    <2>2. ArrayHolds(<<>>, n)
      BY EmptyHeld
    <2>3. ASSUME ~BuiltinFails(f, args) PROVE ArrayHolds(Listed(KeyList(args[1])), n)
      <3>1. args[1] \in Held(n)
        <4>1. Len(args) \in Nat \ {0}
          BY <1>4, EmptySeq
        <4> QED BY <4>1
      <3>2. args[1].t \in {"array", "string"}
        BY <1>4, <2>3 DEF BuiltinFails
      <3>3. KeyList(args[1]) \in Seq(Held(n))
        BY <3>1, <3>2, KeyListHeld
      <3> QED BY <1>1, <3>3, ListedHeld
    <2> QED BY <2>1, <2>2, <2>3 DEF OneMore
  <1>5. CASE /\ f # "array" /\ ~(f = "__object_literal" /\ ObjectArgs(args))
             /\ ~(f = "keys" /\ args # <<>>)
    <2>1. NewArray(f, args) = <<>>
      BY <1>5 DEF NewArray
    <2> QED BY <2>1 DEF OneMore
  <1> QED BY <1>2, <1>3, <1>4, <1>5

-----------------------------------------------------------------------------
(* Where values are                                                        *)

GlobalsIn(g, S) == \A x \in DOMAIN g : g[x] \in S
EnvsIn(es, S) == \A e \in 1 .. Len(es) : es[e].parent < e /\ es[e].slots \in Seq(S)
FrameIn(f, S) == f.vals \in Seq(S) /\ f.args \in Seq(S)
FramesIn(fs, S) == \A i \in 1 .. Len(fs) : FrameIn(fs[i], S)

Kept(S) ==
  /\ GlobalsIn(globals, S) /\ EnvsIn(envs, S) /\ FramesIn(frames, S)
  /\ out \in Seq(Seq(S)) /\ result \in S
KeptNext(S) ==
  /\ GlobalsIn(globals', S) /\ EnvsIn(envs', S) /\ FramesIn(frames', S)
  /\ out' \in Seq(Seq(S)) /\ result' \in S

\* Whatever a program can get hold of is a value, and an array it refers to
\* is there.
ValuesHold == ArraysHold(arrays) /\ Kept(Held(Len(arrays)))
ValuesNext == ArraysHold(arrays') /\ KeptNext(Held(Len(arrays')))

LEMMA KeptMore ==
  ASSUME NEW S, NEW T, S \subseteq T
  PROVE  /\ \A s \in Seq(S) : s \in Seq(T)
         /\ \A s \in Seq(Seq(S)) : s \in Seq(Seq(T))
         /\ \A g : GlobalsIn(g, S) => GlobalsIn(g, T)
         /\ \A es : EnvsIn(es, S) => EnvsIn(es, T)
         /\ \A fs : FramesIn(fs, S) => FramesIn(fs, T)
  <1>1. Seq(S) \subseteq Seq(T)
    BY SeqMonotonic
  <1> DEFINE SS == Seq(S)
             TT == Seq(T)
  <1>2. SS \subseteq TT
    BY <1>1
  <1> HIDE DEF SS, TT
  <1>3. Seq(SS) \subseteq Seq(TT)
    BY <1>2, SeqMonotonic
  <1>4. \A g : GlobalsIn(g, S) => GlobalsIn(g, T)
    BY DEF GlobalsIn
  <1>5. \A es : EnvsIn(es, S) => EnvsIn(es, T)
    BY <1>1 DEF EnvsIn
  <1>6. \A fs : FramesIn(fs, S) => FramesIn(fs, T)
    BY <1>1 DEF FramesIn, FrameIn
  <1> QED BY <1>1, <1>3, <1>4, <1>5, <1>6 DEF SS, TT

\* When there are more arrays what was held is held.
LEMMA StillKept ==
  ASSUME ValuesHold, NEW n \in Nat, Len(arrays) <= n
  PROVE  /\ Len(arrays) \in Nat /\ Held(Len(arrays)) \subseteq Held(n) /\ Kept(Held(n))
         /\ \A s \in Seq(Held(Len(arrays))) : s \in Seq(Held(n))
  <1>1. Len(arrays) \in Nat
    BY IsSeqLen DEF ValuesHold, ArraysHold
  <1>2. Held(Len(arrays)) \subseteq Held(n)
    BY <1>1, HeldMore
  <1>3. Kept(Held(n))
    BY <1>2, KeptMore DEF ValuesHold, Kept
  <1> QED BY <1>1, <1>2, <1>3, KeptMore

-----------------------------------------------------------------------------
(* Activations and environments with new values in them                    *)

LEMMA TopIn ==
  ASSUME NEW own, FramesFit(frames, own), frames # <<>>, NEW S, FramesIn(frames, S),
         NEW vals \in Seq(S), NEW k
  PROVE  FramesIn(Continue(vals, k), S)
  <1> DEFINE g == OnTop(vals, k)
  <1>1. /\ Continue(vals, k) = Replaced(frames, Len(frames), g)
        /\ g.vals = vals /\ IsSeq(frames) /\ FrameFits(Top, 0, own)
        /\ Len(frames) \in 1 .. Len(frames)
    <2>1. /\ Continue(vals, k) = Replaced(frames, Len(frames), g) /\ g.vals = vals
          /\ IsSeq(frames) /\ FrameFits(Top, 0, own) /\ Len(frames) \in Nat \ {0}
      BY TopFits, Continued DEF FramesFit
    <2> HIDE DEF g
    <2> QED BY <2>1
  <1>2. g.args = Top.args
    BY <1>1 DEF FrameFits, OnTop
  <1>3. FrameIn(Top, S)
    BY <1>1 DEF FramesIn, Top
  <1> HIDE DEF g
  <1>4. FrameIn(g, S)
    BY <1>1, <1>2, <1>3 DEF FrameIn
  <1>5. /\ Len(Continue(vals, k)) = Len(frames)
        /\ \A i \in 1 .. Len(frames) :
             Continue(vals, k)[i] = IF i = Len(frames) THEN g ELSE frames[i]
    BY <1>1, IsSeqReplaced
  <1> QED BY <1>4, <1>5 DEF FramesIn

LEMMA FrameMore ==
  ASSUME NEW fs, IsSeq(fs), NEW S, FramesIn(fs, S), NEW h, FrameIn(h, S)
  PROVE  FramesIn(Append(fs, h), S)
  <1> DEFINE t == Append(fs, h)
             n == Len(fs)
  <1>1. n \in Nat
    BY IsSeqLen
  <1>2. /\ Len(t) = n + 1 /\ t[n + 1] = h /\ \A i \in 1 .. n : t[i] = fs[i]
    BY IsSeqAppend
  <1>3. \A i \in 1 .. n : FrameIn(fs[i], S)
    BY DEF FramesIn
  <1> HIDE DEF t, n
  <1>4. ASSUME NEW i \in 1 .. n + 1 PROVE FrameIn(t[i], S)
    <2>1. i \in 1 .. n \/ i = n + 1
      BY <1>1
    <2> QED BY <1>2, <1>3, <2>1
  <1>5. FramesIn(t, S)
    BY <1>2, <1>4 DEF FramesIn
  <1> QED BY <1>5 DEF t

LEMMA ContinueSeq ==
  ASSUME NEW own, FramesFit(frames, own), frames # <<>>, NEW vals, NEW k
  PROVE  IsSeq(Continue(vals, k))
  <1>1. Continue(vals, k) = Replaced(frames, Len(frames), OnTop(vals, k)) /\ IsSeq(frames)
    BY Continued DEF FramesFit
  <1> QED BY <1>1, IsSeqReplaced

LEMMA LowerIn ==
  ASSUME NEW own, FramesFit(frames, own), NEW S, FramesIn(frames, S), NEW n \in 0 .. Len(frames)
  PROVE  /\ IsSeq(SubSeq(frames, 1, n)) /\ Len(SubSeq(frames, 1, n)) = n
         /\ \A i \in 1 .. n : SubSeq(frames, 1, n)[i] = frames[i]
         /\ FramesIn(SubSeq(frames, 1, n), S)
  <1> DEFINE t == SubSeq(frames, 1, n)
             m == Len(frames)
  <1>1. m \in Nat
    BY IsSeqLen DEF FramesFit
  <1>2. IsSeq(t) /\ Len(t) = n /\ \A i \in 1 .. n : t[i] = frames[i]
    BY IsSeqFront DEF FramesFit
  <1>3. n \in 0 .. m
    OBVIOUS
  <1>4. \A i \in 1 .. m : FrameIn(frames[i], S)
    BY DEF FramesIn
  <1> HIDE DEF t, m
  <1>5. \A i \in 1 .. n : i \in 1 .. m
    BY <1>1, <1>3
  <1>6. FramesIn(t, S)
    BY <1>2, <1>4, <1>5 DEF FramesIn
  <1> QED BY <1>2, <1>6 DEF t

\* The activation below the top one is given a value.
LEMMA PoppedIn ==
  ASSUME NEW own, FramesFit(frames, own), NEW S, FramesIn(frames, S), NEW n \in 1 .. Len(frames),
         NEW vals \in Seq(S)
  PROVE  FramesIn([SubSeq(frames, 1, n) EXCEPT ![n].vals = vals], S)
  <1> DEFINE t == SubSeq(frames, 1, n)
             g == [frames[n] EXCEPT !.vals = vals]
  <1>1. n \in 0 .. Len(frames) /\ n \in 1 .. n /\ n \in Nat
    <2>1. Len(frames) \in Nat
      BY IsSeqLen DEF FramesFit
    <2> DEFINE m == Len(frames)
    <2>2. n \in 1 .. m /\ m \in Nat
      BY <2>1
    <2> HIDE DEF m
    <2> QED BY <2>2 DEF m
  <1>2. IsSeq(t) /\ Len(t) = n /\ (\A i \in 1 .. n : t[i] = frames[i]) /\ FramesIn(t, S)
    BY <1>1, LowerIn
  <1>3. DOMAIN frames[n] = {"vm", "fn", "ip", "env", "vals", "dst", "args", "site"}
    BY DEF FramesFit, FrameFits
  <1>4. g.vals = vals /\ g.args = frames[n].args
    BY <1>3
  <1> HIDE DEF t
  <1>5. DOMAIN t = 1 .. n /\ t[n] = frames[n]
    BY <1>1, <1>2, IsSeqLen
  <1>6. [t EXCEPT ![n].vals = vals] = Replaced(t, n, g)
    BY <1>1, <1>5 DEF Replaced
  <1>7. FrameIn(frames[n], S)
    BY DEF FramesIn
  <1> HIDE DEF g
  <1>8. FrameIn(g, S)
    BY <1>4, <1>7 DEF FrameIn
  <1>9. /\ Len(Replaced(t, n, g)) = n
        /\ \A i \in 1 .. n : Replaced(t, n, g)[i] = IF i = n THEN g ELSE t[i]
    BY <1>2, IsSeqReplaced
  <1>10. FramesIn(Replaced(t, n, g), S)
    BY <1>2, <1>8, <1>9 DEF FramesIn
  <1> QED BY <1>6, <1>10 DEF t

LEMMA ElementStored ==
  ASSUME NEW S, NEW s \in Seq(S), NEW k, NEW a \in S
  PROVE  [s EXCEPT ![k] = a] \in Seq(S)
  <1> DEFINE n == Len(s)
  <1>1. n \in Nat /\ s \in [1 .. n -> S]
    BY LenProperties
  <1> HIDE DEF n
  <1>2. [s EXCEPT ![k] = a] \in [1 .. n -> S]
    BY <1>1
  <1> QED BY <1>1, <1>2, SeqDef

LEMMA SlotIn ==
  ASSUME NEW es, NEW own, EnvsFit(es, own), NEW S, EnvsIn(es, S), NEW e, NEW k, NEW a \in S
  PROVE  EnvsIn([es EXCEPT ![e].slots[k] = a], S)
  <1> DEFINE new == [es EXCEPT ![e].slots[k] = a]
             v == [es[e] EXCEPT !.slots = [es[e].slots EXCEPT ![k] = a]]
  <1>1. IsSeq(es) /\ Len(es) \in Nat /\ DOMAIN es = 1 .. Len(es)
    BY IsSeqLen DEF EnvsFit
  <1>2. CASE e \notin 1 .. Len(es)
    <2>1. es = [i \in 1 .. Len(es) |-> es[i]]
      BY <1>1, LenProperties DEF IsSeq
    <2>2. new = [i \in 1 .. Len(es) |-> es[i]]
      BY <1>1, <1>2
    <2> QED BY <2>1, <2>2
  <1>3. CASE e \in 1 .. Len(es)
    <2>1. EnvFits(es[e], own[e], own) /\ es[e].parent < e /\ es[e].slots \in Seq(S)
      BY <1>3 DEF EnvsFit, EnvsIn
    <2>2. v.parent = es[e].parent /\ v.slots = [es[e].slots EXCEPT ![k] = a]
      BY <2>1 DEF EnvFits
    <2>3. [es[e].slots EXCEPT ![k] = a] \in Seq(S)
      BY <2>1, ElementStored
    <2>4. new = Replaced(es, e, v)
      BY DEF Replaced
    <2> HIDE DEF v, new
    <2>5. Len(new) = Len(es) /\ \A i \in 1 .. Len(es) : new[i] = IF i = e THEN v ELSE es[i]
      BY <1>1, <2>4, IsSeqReplaced
    <2>6. EnvsIn(new, S)
      BY <2>1, <2>2, <2>3, <2>5 DEF EnvsIn
    <2> QED BY <2>6 DEF new
  <1> QED BY <1>2, <1>3

LEMMA EnvMore ==
  ASSUME NEW es, NEW own, EnvsFit(es, own), NEW S, EnvsIn(es, S),
         NEW slots \in Seq(S), NEW p \in 0 .. Len(es)
  PROVE  EnvsIn(Append(es, [parent |-> p, slots |-> slots]), S)
  <1> DEFINE v == [parent |-> p, slots |-> slots]
             t == Append(es, v)
             n == Len(es)
  <1>1. n \in Nat /\ IsSeq(es)
    BY IsSeqLen DEF EnvsFit
  <1>2. v.parent = p /\ v.slots = slots /\ p \in 0 .. n
    OBVIOUS
  <1> HIDE DEF v
  <1>3. /\ Len(t) = n + 1 /\ t[n + 1] = v /\ \A i \in 1 .. n : t[i] = es[i]
    BY <1>1, IsSeqAppend
  <1>4. \A e \in 1 .. n : es[e].parent < e /\ es[e].slots \in Seq(S)
    BY DEF EnvsIn
  <1> HIDE DEF t, n
  <1>5. p < n + 1
    BY <1>1, <1>2
  <1>6. ASSUME NEW i \in 1 .. n + 1 PROVE t[i].parent < i /\ t[i].slots \in Seq(S)
    <2>1. i \in 1 .. n \/ i = n + 1
      BY <1>1
    <2> QED BY <1>2, <1>3, <1>4, <1>5, <2>1
  <1>7. EnvsIn(t, S)
    BY <1>3, <1>6 DEF EnvsIn
  <1> QED BY <1>7 DEF t, v

-----------------------------------------------------------------------------
(* Functions that are called                                               *)

Parameters(f) == f.params \in Nat /\ (f.variadic => f.params > 0)

LEMMA CheckedParameters ==
  ASSUME CodeFits, NEW n \in DOMAIN instructions
  PROVE  Parameters(instructions[n]) /\ instructions[n].size \in Nat
  BY DEF CodeFits, Checked, Parameters

\* A parameter takes its argument, the array of those left, or none.
LEMMA BindHeld ==
  ASSUME ArraysHold(arrays), NEW args \in Seq(Held(Len(arrays))), NEW f, Parameters(f),
         NEW m \in Nat
  PROVE  /\ ArraysHold(arrays \o Rest(f, args))
         /\ Len(arrays) \in Nat /\ Len(arrays \o Rest(f, args)) \in Nat
         /\ Len(arrays) <= Len(arrays \o Rest(f, args))
         /\ Bind(f, m, args) \in Seq(Held(Len(arrays \o Rest(f, args))))
  <1> DEFINE n == Len(arrays)
             more == arrays \o Rest(f, args)
             c == Len(args)
             p == Fixed(f)
  <1>1. n \in Nat /\ c \in Nat /\ \A i \in 1 .. c : args[i] \in Held(n)
    BY IsSeqLen DEF ArraysHold
  <1>2. p \in Int /\ (f.variadic => p >= 0 /\ p = f.params - 1)
    BY DEF Fixed, Parameters
  <1>3. OneMore(Rest(f, args), n)
    <2>1. CASE ~f.variadic
      BY <2>1 DEF Rest, OneMore
    <2>2. CASE f.variadic
      <3>1. Rest(f, args) = <<Listed(SubSeq(args, p + 1, c))>>
        BY <2>2 DEF Rest
      <3> HIDE DEF c, p, n
      <3>2. p + 1 \in Int /\ c \in Int /\ \A i \in p + 1 .. c : i \in 1 .. c
        BY <1>1, <1>2, <2>2
      <3>3. \A i \in p + 1 .. c : args[i] \in Held(n)
        BY <1>1, <3>2
      <3>4. SubSeq(args, p + 1, c) \in Seq(Held(n))
        BY <3>2, <3>3, SubSeqProperties
      <3> QED BY <1>1, <3>1, <3>4, ListedHeld DEF OneMore
    <2> QED BY <2>1, <2>2
  <1>4. f.variadic => Rest(f, args) # <<>>
    <2>1. \A x : <<x>> # <<>>
      OBVIOUS
    <2> QED BY <2>1 DEF Rest
  <1>5. /\ ArraysHold(more) /\ Len(more) \in Nat /\ n <= Len(more)
        /\ f.variadic => Len(more) = n + 1
    BY <1>3, <1>4, ArraysAdded
  <1> DEFINE k == Len(more)
             s == Bind(f, m, args)
  <1>6. None \in Held(k) /\ (f.variadic => ArrayRef(n + 1) \in Held(k))
    <2> HIDE DEF k, n
    <2>1. f.variadic => n + 1 \in 1 .. k
      <3>1. f.variadic => k = n + 1
        BY <1>5 DEF k
      <3> QED BY <1>1, <3>1
    <2>2. k \in Nat
      BY <1>5 DEF k
    <2> QED BY <2>1, <2>2, HeldPlain
  <1>7. Held(n) \subseteq Held(k)
    BY <1>1, <1>5, HeldMore
  <1>8. ASSUME NEW i \in 1 .. m PROVE s[i] \in Held(k)
    <2>1. s[i] = CASE i <= p /\ i <= c -> args[i]
                   [] f.variadic /\ i = f.params -> ArrayRef(n + 1)
                   [] OTHER -> None
      BY DEF Bind
    <2>2. f.variadic /\ i = f.params => ~(i <= p)
      BY <1>2 DEF Parameters
    <2> HIDE DEF s, k, n, p, c
    <2>3. CASE i <= p /\ i <= c
      <3>1. i \in 1 .. c
        BY <1>1, <2>3
      <3>2. s[i] = args[i]
        BY <2>1, <2>2, <2>3
      <3> QED BY <1>1, <1>7, <3>1, <3>2
    <2>4. CASE f.variadic /\ i = f.params
      <3>1. s[i] = ArrayRef(n + 1)
        BY <2>1, <2>2, <2>4
      <3> QED BY <1>6, <2>4, <3>1
    <2>5. CASE ~(i <= p /\ i <= c) /\ ~(f.variadic /\ i = f.params)
      <3>1. s[i] = None
        BY <2>1, <2>5
      <3> QED BY <1>6, <3>1
    <2> QED BY <2>3, <2>4, <2>5
  <1>9. DOMAIN s = 1 .. m /\ s = [i \in 1 .. m |-> s[i]]
    BY DEF Bind
  <1> HIDE DEF s, k
  <1>10. s \in [1 .. m -> Held(k)]
    BY <1>8, <1>9
  <1>11. s \in Seq(Held(k))
    BY <1>10, SeqDef
  <1> QED BY <1>1, <1>5, <1>11 DEF s, k

LEMMA Begun ==
  ASSUME NEW own, Fits(own), ValuesHold, NEW args \in Seq(Held(Len(arrays))),
         NEW f, Parameters(f), NEW m \in Nat, NEW p \in 0 .. Len(envs),
         arrays' = arrays \o Rest(f, args),
         envs' = Append(envs, [parent |-> p, slots |-> Bind(f, m, args)]),
         UNCHANGED <<globals, out, result>>
  PROVE  /\ Bind(f, m, args) \in Seq(Held(Len(arrays')))
         /\ args \in Seq(Held(Len(arrays'))) /\ <<>> \in Seq(Held(Len(arrays')))
         /\ FramesIn(frames, Held(Len(arrays')))
         /\ FramesIn(frames', Held(Len(arrays'))) => ValuesNext
  <1> DEFINE S == Held(Len(arrays'))
             slots == Bind(f, m, args)
  <1>1. ArraysHold(arrays') /\ Len(arrays') \in Nat /\ Len(arrays) <= Len(arrays')
        /\ slots \in Seq(S)
    BY BindHeld DEF ValuesHold
  <1>2. Kept(S) /\ args \in Seq(S)
    BY <1>1, StillKept
  <1> HIDE DEF S, slots
  <1>3. EnvsIn(envs', S)
    BY <1>1, <1>2, EnvMore DEF Fits, Kept, slots
  <1>4. FramesIn(frames', S) => KeptNext(S)
    BY <1>2, <1>3 DEF Kept, KeptNext
  <1>5. <<>> \in Seq(S)
    BY EmptySeq
  <1> QED BY <1>1, <1>2, <1>4, <1>5 DEF S, slots, ValuesNext, Kept

\* Steps that create no object but an array at most.
LEMMA Grows ==
  ASSUME ValuesHold, ArraysHold(arrays'), Len(arrays) <= Len(arrays')
  PROVE  /\ Len(arrays') \in Nat /\ Kept(Held(Len(arrays')))
         /\ Held(Len(arrays)) \subseteq Held(Len(arrays'))
         /\ \A s \in Seq(Held(Len(arrays))) : s \in Seq(Held(Len(arrays')))
         /\ KeptNext(Held(Len(arrays'))) => ValuesNext
  <1>1. Len(arrays') \in Nat
    BY IsSeqLen DEF ArraysHold
  <1> QED BY <1>1, StillKept DEF ValuesNext

LEMMA AbortHeld ==
  ASSUME CodeFits, NEW own, Fits(own), ValuesHold, Abort
  PROVE  ValuesNext /\ status' \in {status, "error"}
  <1> DEFINE I == {i \in DOMAIN frames : frames[i].site = "cached"}
  <1>1. IsSeq(frames) /\ Len(frames) \in Nat /\ DOMAIN frames = 1 .. Len(frames)
    BY IsSeqLen DEF Fits, FramesFit
  <1>2. CASE I = {}
    <2>1. frames' = <<>> /\ status' = "error" /\ UNCHANGED <<arrays, globals, envs, out, result>>
      BY <1>2 DEF Abort, objects
    <2>2. FramesIn(frames', Held(Len(arrays)))
      BY <2>1 DEF FramesIn
    <2> QED BY <2>1, <2>2 DEF ValuesHold, ValuesNext, Kept, KeptNext
  <1>3. CASE I # {}
    <2> DEFINE i == CHOOSE i \in I : \A j \in I : j <= i
    <2>1. CallAgain(i)
      BY <1>3 DEF Abort
    <2>2. i \in I
      <3>1. I \in SUBSET (1 .. Len(frames))
        BY <1>1
      <3> HIDE DEF I
      <3> QED BY <1>1, <1>3, <3>1, LastOf
    <2> HIDE DEF i
    <2>3. i \in 1 .. Len(frames)
      BY <1>1, <2>2
    <2> DEFINE f == instructions[frames[i].fn]
               args == frames[i].args
               h == [NewFrame("stack", frames[i].fn, Len(envs) + 1, <<>>, args)
                       EXCEPT !.site = "again"]
               low == SubSeq(frames, 1, i - 1)
    <2>4. /\ arrays' = arrays \o Rest(f, args)
          /\ envs' = Append(envs, [parent |-> 0, slots |-> Bind(f, f.size, args)])
          /\ frames' = Append(low, h) /\ UNCHANGED <<globals, out, status, result>>
      BY <2>1 DEF CallAgain
    <2>5. h.vals = <<>> /\ h.args = args
      <3> HIDE DEF args
      <3> QED BY DEF NewFrame
    <2>6. frames[i].fn \in DOMAIN instructions
      BY <2>3 DEF Fits, FramesFit, FrameFits
    <2>7. Parameters(f) /\ f.size \in Nat
      BY <2>6, CheckedParameters
    <2>8. args \in Seq(Held(Len(arrays)))
      BY <2>3 DEF ValuesHold, Kept, FramesIn, FrameIn
    <2>9. 0 \in 0 .. Len(envs)
      BY IsSeqLen DEF Fits, EnvsFit
    <2> HIDE DEF f, args, h
    <2> DEFINE S == Held(Len(arrays'))
    <2>10. /\ args \in Seq(S) /\ <<>> \in Seq(S) /\ FramesIn(frames, S)
           /\ FramesIn(frames', S) => ValuesNext
      BY <2>4, <2>7, <2>8, <2>9, Begun
    <2>11. i - 1 \in 0 .. Len(frames)
      BY <1>1, <2>3
    <2> HIDE DEF S
    <2>12. IsSeq(low) /\ FramesIn(low, S)
      BY <2>10, <2>11, LowerIn DEF Fits
    <2>13. FrameIn(h, S)
      BY <2>5, <2>10 DEF FrameIn
    <2> QED BY <2>4, <2>10, <2>12, <2>13, FrameMore
  <1> QED BY <1>2, <1>3

-----------------------------------------------------------------------------
(* Built-in functions *)

LEMMA BuiltinHeld ==
  ASSUME ValuesHold, NEW f, NEW args \in Seq(Held(Len(arrays))), BuiltinEffect(f, args)
  PROVE  /\ ArraysHold(arrays') /\ Len(arrays) <= Len(arrays')
         /\ BuiltinValue(f, args) \in Held(Len(arrays'))
         /\ out' \in Seq(Seq(Held(Len(arrays'))))
  <1> DEFINE new == NewArray(f, args)
             n == Len(arrays)
             k == Len(arrays')
  <1>1. OneMore(new, n) /\ arrays' = arrays \o new /\ n \in Nat
    BY NewArrayHeld, IsSeqLen DEF ValuesHold, ArraysHold, BuiltinEffect
  <1> HIDE DEF new
  <1>2. /\ ArraysHold(arrays') /\ n <= k /\ k \in Nat
        /\ new # <<>> => k = n + 1
    BY <1>1, ArraysAdded DEF ValuesHold
  <1>3. Kept(Held(k)) /\ args \in Seq(Held(k)) /\ Held(n) \subseteq Held(k)
    BY <1>2, StillKept
  <1>4. BuiltinValue(f, args) \in Held(k)
    <2>1. CASE new # <<>>
      <3>1. BuiltinValue(f, args) = ArrayRef(n + 1)
        <4>1. f # "len" /\ f # "array_get"
          BY <2>1 DEF NewArray, new
        <4> QED BY <2>1, <4>1 DEF BuiltinValue, new
      <3> HIDE DEF n, k
      <3>2. n + 1 \in 1 .. k
        <4>1. k = n + 1
          BY <1>2, <2>1
        <4> QED BY <1>1, <4>1
      <3> QED BY <1>2, <3>1, <3>2, HeldPlain
    <2>2. CASE new = <<>> /\ f = "len" /\ Len(args) = 1
      <3>1. BuiltinValue(f, args) = MakeInt(IF args[1].t = "string" THEN 1 ELSE Size(args[1]))
        BY <2>2 DEF BuiltinValue, new
      <3>2. args[1] \in Held(n)
        BY <2>2
      <3>3. Size(args[1]) \in Int
        BY <3>2, SizeType DEF ValuesHold
      <3>4. (IF args[1].t = "string" THEN 1 ELSE Size(args[1])) \in Int
        BY <3>3
      <3> HIDE DEF n, k
      <3> QED BY <1>2, <3>1, <3>4, HeldPlain
    <2>3. CASE new = <<>> /\ f = "array_get" /\ Len(args) >= 2
      <3>1. BuiltinValue(f, args) = Element(args[1], args[2])
        BY <2>3 DEF BuiltinValue, new
      <3>2. args[1] \in Held(n)
        BY <2>3
      <3>3. Element(args[1], args[2]) \in Held(n)
        BY <3>2, ElementHeld DEF ValuesHold
      <3> QED BY <1>3, <3>1, <3>3
    <2>4. CASE /\ new = <<>> /\ ~(f = "len" /\ Len(args) = 1)
               /\ ~(f = "array_get" /\ Len(args) >= 2)
      <3>1. BuiltinValue(f, args) = None
        BY <2>4 DEF BuiltinValue, new
      <3> QED BY <1>2, <3>1, HeldPlain
    <2> QED BY <2>1, <2>2, <2>3, <2>4
  <1>5. out' \in Seq(Seq(Held(k)))
    <2> DEFINE SS == Seq(Held(k))
    <2>1. out \in Seq(SS) /\ args \in SS
      BY <1>3 DEF Kept
    <2>2. out' = out \/ out' = Append(out, args)
      BY DEF BuiltinEffect
    <2> HIDE DEF SS
    <2>3. out' \in Seq(SS)
      BY <2>1, <2>2
    <2> QED BY <2>3 DEF SS
  <1> QED BY <1>2, <1>4, <1>5

-----------------------------------------------------------------------------
(* The steps of the stack machine *)

\* Operands and what is under them.
LEMMA TopsHeld ==
  ASSUME NEW S, FramesIn(frames, S), CodeFits, NEW own, Fits(own), Running("stack"),
         NEW n \in Nat, n <= Len(Top.vals)
  PROVE  /\ Top.vals \in Seq(S) /\ Tops(n) \in Seq(S) /\ Under(n) \in Seq(S)
         /\ \A i \in 1 .. n : Tops(n)[i] \in S
  <1> DEFINE v == Top.vals
             m == Len(v)
  <1>1. m \in Nat /\ Len(frames) \in 1 .. Len(frames)
    <2>1. m \in Nat /\ Len(frames) \in Nat \ {0}
      BY StackTop
    <2> DEFINE c == Len(frames)
    <2>2. c \in Nat \ {0}
      BY <2>1
    <2> HIDE DEF c
    <2>3. c \in 1 .. c
      BY <2>2
    <2> QED BY <2>1, <2>3 DEF c
  <1>2. v \in Seq(S)
    BY <1>1 DEF FramesIn, FrameIn, Top
  <1>3. \A i \in 1 .. m : v[i] \in S
    BY <1>2
  <1> HIDE DEF v, m
  <1>4. n \in Nat /\ n <= m
    BY DEF v, m
  <1>5. /\ m - n + 1 \in Int /\ \A i \in m - n + 1 .. m : i \in 1 .. m
        /\ m - n \in Int /\ \A i \in 1 .. m - n : i \in 1 .. m
    BY <1>1, <1>4
  <1>6. SubSeq(v, m - n + 1, m) \in Seq(S) /\ SubSeq(v, 1, m - n) \in Seq(S)
    <2>1. \A i \in m - n + 1 .. m : v[i] \in S
      BY <1>3, <1>5
    <2>2. \A i \in 1 .. m - n : v[i] \in S
      BY <1>3, <1>5
    <2> QED BY <1>1, <1>5, <2>1, <2>2, SubSeqProperties
  <1>7. Len(SubSeq(v, m - n + 1, m)) = n
    <2>1. m - n + 1 <= m + 1 /\ m - (m - n + 1) + 1 = n
      BY <1>1, <1>4
    <2> DEFINE p == m - n + 1
    <2>2. p \in Int /\ p <= m + 1 /\ m - p + 1 = n
      BY <1>5, <2>1
    <2> HIDE DEF p
    <2>3. Len(SubSeq(v, p, m)) = m - p + 1
      BY <1>1, <2>2, SubSeqProperties
    <2> QED BY <2>2, <2>3 DEF p
  <1>8. \A i \in 1 .. n : SubSeq(v, m - n + 1, m)[i] \in S
    <2> DEFINE t == SubSeq(v, m - n + 1, m)
    <2>1. t \in Seq(S) /\ Len(t) = n
      BY <1>6, <1>7
    <2> HIDE DEF t
    <2>2. \A i \in 1 .. n : t[i] \in S
      BY <2>1
    <2> QED BY <2>2 DEF t
  <1> QED BY <1>2, <1>6, <1>8 DEF v, m, Tops, Under

\* The topmost activation goes on.
LEMMA StepHeld ==
  ASSUME NEW own, Fits(own), ValuesHold, frames # <<>>, NEW vals, NEW k,
         frames' = Continue(vals, k), ArraysHold(arrays'), Len(arrays) <= Len(arrays'),
         vals \in Seq(Held(Len(arrays'))), GlobalsIn(globals', Held(Len(arrays'))),
         EnvsIn(envs', Held(Len(arrays'))), out' \in Seq(Seq(Held(Len(arrays')))),
         UNCHANGED result
  PROVE  ValuesNext
  <1> DEFINE S == Held(Len(arrays'))
  <1>1. Kept(S) /\ (KeptNext(S) => ValuesNext)
    BY Grows
  <1> HIDE DEF S
  <1>2. FramesIn(frames', S)
    BY <1>1, TopIn DEF Fits, Kept, S
  <1>3. KeptNext(S)
    BY <1>1, <1>2 DEF Kept, KeptNext, S
  <1> QED BY <1>1, <1>3

\* It creates no array and changes none.
LEMMA StoringHeld ==
  ASSUME NEW own, Fits(own), ValuesHold, frames # <<>>, NEW vals, NEW k,
         frames' = Continue(vals, k), vals \in Seq(Held(Len(arrays))),
         GlobalsIn(globals', Held(Len(arrays))), EnvsIn(envs', Held(Len(arrays))),
         UNCHANGED <<arrays, out, result>>
  PROVE  ValuesNext
  <1>1. Len(arrays) \in Nat
    BY IsSeqLen DEF ValuesHold, ArraysHold
  <1>2. Len(arrays) <= Len(arrays')
    BY <1>1
  <1> QED BY <1>2, StepHeld DEF ValuesHold, Kept

\* Nor does it store anything.
LEMMA PlainHeld ==
  ASSUME NEW own, Fits(own), ValuesHold, frames # <<>>, NEW vals, NEW k,
         frames' = Continue(vals, k), vals \in Seq(Held(Len(arrays))),
         UNCHANGED <<arrays, globals, envs, out, result>>
  PROVE  ValuesNext
  BY StoringHeld DEF ValuesHold, Kept

LEMMA GlobalStored ==
  ASSUME NEW S, NEW g, GlobalsIn(g, S), NEW x, NEW a \in S
  PROVE  GlobalsIn(With(g, x, a), S)
  <1>1. /\ DOMAIN With(g, x, a) = DOMAIN g \cup {x}
        /\ \A j \in DOMAIN g \cup {x} : With(g, x, a)[j] = IF j = x THEN a ELSE g[j]
    BY DEF With
  <1> HIDE DEF With
  <1> QED BY <1>1 DEF GlobalsIn

\* A variable is in an environment that there is.
LEMMA LocalEnv ==
  ASSUME CodeFits, NEW own, Fits(own), SAt({"LOAD_LOCAL", "STORE_LOCAL"})
  PROVE  EnvAt(SIn.depth) \in 1 .. Len(envs)
  <1> DEFINE d == SIn.depth
             around == SFunction.around
  <1>1. /\ Running("stack") /\ Top.ip < Len(SFunction.code)
        /\ SIn.op \in {"LOAD_LOCAL", "STORE_LOCAL"}
    BY DEF SAt
  <1>2. /\ Top.fn \in DOMAIN instructions /\ Top.env \in DOMAIN own /\ own[Top.env] = Top.fn
        /\ Top.ip \in 0 .. Len(SFunction.code) /\ Len(SFunction.code) \in Nat
    BY <1>1, StackTop
  <1>3. Scoped(instructions, Top.fn) /\ SFunction = instructions[Top.fn]
    BY <1>2, CheckedFunction DEF SFunction
  <1>4. SIn = SFunction.code[Top.ip + 1] /\ Top.ip + 1 \in 1 .. Len(SFunction.code)
    BY <1>1, <1>2 DEF SIn
  <1>5. d < Len(around)
    BY <1>1, <1>3, <1>4 DEF Scoped
  <1>6. SIn \in Instruction
    BY <1>1, StackNextIn
  <1>7. d \in Nat
    BY <1>6 DEF Instruction
  <1> QED BY <1>2, <1>3, <1>5, <1>7, ChainHolds DEF Fits

LEMMA StackVariablesHeld ==
  ASSUME CodeFits, NEW own, Fits(own), ValuesHold,
         SLoadLocal \/ SStoreLocal \/ SLoadGlobal \/ SStoreGlobal
  PROVE  ValuesNext
  <1> DEFINE S == Held(Len(arrays))
  <1>1. /\ Running("stack") /\ Top.ip < Len(SFunction.code) /\ frames # <<>>
        /\ SIn.op \in {"LOAD_LOCAL", "STORE_LOCAL", "LOAD_GLOBAL", "STORE_GLOBAL"}
    BY DEF SLoadLocal, SStoreLocal, SLoadGlobal, SStoreGlobal, SAt, Running
  <1>2. /\ Len(Top.vals) \in Nat /\ SIn \in Instruction /\ Len(Top.vals) >= Operands(SIn)
    BY <1>1, StackTop, StackNextIn
  <1>3. Kept(S) /\ Len(arrays) \in Nat
    BY IsSeqLen DEF ValuesHold, ArraysHold
  <1> HIDE DEF S
  <1>4. ASSUME NEW n \in Nat, n <= Len(Top.vals)
        PROVE  /\ Top.vals \in Seq(S) /\ Under(n) \in Seq(S)
               /\ \A i \in 1 .. n : Tops(n)[i] \in S
    BY <1>1, <1>3, <1>4, TopsHeld DEF Kept
  <1>5. Top.vals \in Seq(S)
    BY <1>2, <1>4
  <1>6. SIn.op \in {"STORE_LOCAL", "STORE_GLOBAL"} => Under(1) \in Seq(S) /\ Tops(1)[1] \in S
    <2>1. SIn.op \in {"STORE_LOCAL", "STORE_GLOBAL"} => Operands(SIn) = 1
      BY DEF Operands, BinaryOps, ArithmeticOps, ComparisonOps
    <2> QED BY <1>2, <1>4, <2>1
  <1>7. CASE SLoadLocal
    <2> DEFINE e == EnvAt(SIn.depth)
               a == envs[e].slots[SIn.slot + 1]
    <2>1. Accessible(SIn.depth, SIn.slot)
      BY <1>7, SlotThere DEF SLoadLocal, SAt
    <2>2. Resume(Append(Top.vals, a)) /\ UNCHANGED <<globals, objects, out>>
      BY <1>7, <2>1 DEF SLoadLocal
    <2>3. SIn.slot \in Nat /\ SIn.depth \in Nat
      BY <1>2 DEF Instruction
    <2>4. e \in 1 .. Len(envs)
      BY <1>7, LocalEnv DEF SLoadLocal, SAt
    <2>5. envs[e].slots \in Seq(S) /\ SIn.slot < Len(envs[e].slots)
      BY <1>3, <2>1, <2>4 DEF Kept, EnvsIn, Accessible
    <2>6. a \in S
      <3> DEFINE s == envs[e].slots
      <3>1. s \in Seq(S) /\ SIn.slot + 1 \in 1 .. Len(s)
        BY <2>3, <2>5
      <3> HIDE DEF s
      <3>2. s[SIn.slot + 1] \in S
        BY <3>1
      <3> QED BY <3>2 DEF s
    <2> HIDE DEF a
    <2>7. Append(Top.vals, a) \in Seq(S)
      BY <1>5, <2>6
    <2> QED BY <1>1, <2>2, <2>7, PlainHeld DEF Resume, objects, S
  <1>8. CASE SStoreLocal
    <2> DEFINE e == EnvAt(SIn.depth)
    <2>1. Accessible(SIn.depth, SIn.slot) /\ SIn.op = "STORE_LOCAL"
      BY <1>8, SlotThere DEF SStoreLocal, SAt
    <2>2. /\ Resume(Under(1)) /\ UNCHANGED <<globals, arrays, closures, out>>
          /\ envs' = [envs EXCEPT ![e].slots[SIn.slot + 1] = Tops(1)[1]]
      BY <1>8, <2>1 DEF SStoreLocal
    <2>3. Under(1) \in Seq(S) /\ Tops(1)[1] \in S
      BY <1>6, <2>1
    <2> HIDE DEF e
    <2>4. EnvsIn(envs', S)
      BY <1>3, <2>2, <2>3, SlotIn DEF Fits, Kept
    <2>5. GlobalsIn(globals', S)
      BY <1>3, <2>2 DEF Kept
    <2> QED BY <1>1, <2>2, <2>3, <2>4, <2>5, StoringHeld DEF Resume, S
  <1>9. CASE SLoadGlobal
    <2> DEFINE a == IF SIn.name \in DOMAIN globals THEN globals[SIn.name] ELSE None
    <2>1. Resume(Append(Top.vals, a)) /\ UNCHANGED <<globals, objects, out>>
      BY <1>9 DEF SLoadGlobal
    <2>2. None \in S
      BY <1>3, HeldPlain DEF S
    <2>3. a \in S
      BY <1>3, <2>2 DEF Kept, GlobalsIn
    <2> HIDE DEF a
    <2>4. Append(Top.vals, a) \in Seq(S)
      BY <1>5, <2>3
    <2> QED BY <1>1, <2>1, <2>4, PlainHeld DEF Resume, objects, S
  <1>10. CASE SStoreGlobal
    <2>1. /\ Resume(Under(1)) /\ UNCHANGED <<objects, out>> /\ SIn.op = "STORE_GLOBAL"
          /\ globals' = With(globals, SIn.name, Tops(1)[1])
      BY <1>10 DEF SStoreGlobal, SAt
    <2>2. Under(1) \in Seq(S) /\ Tops(1)[1] \in S
      BY <1>6, <2>1
    <2>3. GlobalsIn(globals', S)
      BY <1>3, <2>1, <2>2, GlobalStored DEF Kept
    <2>4. EnvsIn(envs', S)
      BY <1>3, <2>1 DEF Kept, objects
    <2> QED BY <1>1, <2>1, <2>2, <2>3, <2>4, StoringHeld DEF Resume, S, objects
  <1> QED BY <1>7, <1>8, <1>9, <1>10

\* An entry is stored in an array that there is.
LEMMA EntryStored ==
  ASSUME ArraysHold(arrays), NEW obj \in Held(Len(arrays)), obj.t = "array",
         NEW k \in Keys \cap Held(Len(arrays)), NEW a \in Held(Len(arrays)),
         arrays' = [arrays EXCEPT ![obj.v] = With(@, k, a)]
  PROVE  ArraysHold(arrays') /\ Len(arrays') = Len(arrays)
  <1> DEFINE m == With(arrays[obj.v], k, a)
  <1>1. Len(arrays) \in Nat /\ DOMAIN arrays = 1 .. Len(arrays)
    BY IsSeqLen DEF ArraysHold
  <1>2. obj.v \in 1 .. Len(arrays)
    BY <1>1, HeldParts
  <1>3. ArrayHolds(m, Len(arrays))
    BY <1>1, <1>2, WithHeld DEF ArraysHold
  <1>4. arrays' = Replaced(arrays, obj.v, m)
    BY <1>1, <1>2 DEF Replaced
  <1> HIDE DEF m
  <1>5. /\ ArraysHold(Replaced(arrays, obj.v, m))
        /\ Len(Replaced(arrays, obj.v, m)) = Len(arrays)
    BY <1>2, <1>3, ArrayStored
  <1> QED BY <1>4, <1>5

\* What the next instruction works on.
LEMMA StackOperands ==
  ASSUME CodeFits, NEW own, Fits(own), ValuesHold, Running("stack"), Top.ip < Len(SFunction.code)
  PROVE  LET n == Operands(SIn)
             S == Held(Len(arrays))
         IN  /\ frames # <<>> /\ SIn \in Instruction /\ SIn.lit \in S
             /\ Key(SIn.lit) \in Keys \cap S
             /\ Len(arrays) \in Nat /\ Kept(S) /\ n \in Nat /\ n <= Len(Top.vals)
             /\ Top.vals \in Seq(S) /\ Tops(n) \in Seq(S) /\ Under(n) \in Seq(S)
             /\ \A i \in 1 .. n : Tops(n)[i] \in S
  <1> DEFINE n == Operands(SIn)
             S == Held(Len(arrays))
  <1>1. frames # <<>> /\ Len(arrays) \in Nat /\ Kept(S)
    BY IsSeqLen DEF ValuesHold, ArraysHold, Running
  <1>2. SIn \in Instruction /\ n \in Nat /\ n <= Len(Top.vals)
    <2>1. SIn \in Instruction /\ n \in Nat /\ Len(Top.vals) >= n /\ Len(Top.vals) \in Nat
      BY StackTop, StackNextIn
    <2> HIDE DEF n
    <2> QED BY <2>1
  <1>3. SIn.lit \in Literal
    BY <1>2 DEF Instruction
  <1>4. SIn.lit \in S /\ Key(SIn.lit) \in Keys \cap S
    BY <1>1, <1>3, HeldPlain, HeldParts
  <1> HIDE DEF n, S
  <1>5. /\ Top.vals \in Seq(S) /\ Tops(n) \in Seq(S) /\ Under(n) \in Seq(S)
        /\ \A i \in 1 .. n : Tops(n)[i] \in S
    BY <1>1, <1>2, TopsHeld DEF Kept
  <1> QED BY <1>1, <1>2, <1>4, <1>5 DEF n, S

LEMMA StackOperandsHeld ==
  ASSUME CodeFits, NEW own, Fits(own), ValuesHold,
         SPush \/ SPop \/ SScope \/ SBinary \/ SUnary \/ SGetProp \/ SStoreProp
           \/ SMakeClosure \/ SJump \/ SJumpIfFalse
  PROVE  ValuesNext
  <1> DEFINE S == Held(Len(arrays))
             n == Operands(SIn)
  <1>1. Running("stack") /\ Top.ip < Len(SFunction.code)
    BY DEF SPush, SPop, SScope, SBinary, SUnary, SGetProp, SStoreProp, SMakeClosure,
           SJump, SJumpIfFalse, SAt
  <1>2. /\ frames # <<>> /\ SIn.lit \in S /\ Key(SIn.lit) \in Keys \cap S
        /\ Len(arrays) \in Nat /\ Kept(S) /\ n \in Nat
        /\ Top.vals \in Seq(S) /\ Under(n) \in Seq(S)
        /\ \A i \in 1 .. n : Tops(n)[i] \in S
    BY <1>1, StackOperands
  <1> HIDE DEF S, n
  <1>3. ASSUME NEW vals \in Seq(S), NEW k, frames' = Continue(vals, k),
               UNCHANGED <<arrays, globals, envs, out, result>>
        PROVE  ValuesNext
    BY <1>2, <1>3, PlainHeld DEF S
  <1>4. ASSUME NEW vals \in Seq(S), Resume(vals), UNCHANGED <<globals, objects, out>>
        PROVE  ValuesNext
    BY <1>3, <1>4 DEF Resume, objects
  <1>5. ASSUME NEW vals \in Seq(S), NEW a \in S PROVE Append(vals, a) \in Seq(S)
    OBVIOUS
  <1>6. CASE SPush
    BY <1>2, <1>4, <1>5, <1>6 DEF SPush
  <1>7. CASE SPop
    <2>1. SIn.op = "POP"
      BY <1>7 DEF SPop, SAt
    <2>2. n = 1
      BY <2>1 DEF n, Operands, BinaryOps, ArithmeticOps, ComparisonOps
    <2> QED BY <1>2, <1>4, <1>7, <2>2 DEF SPop
  <1>8. CASE SScope
    BY <1>2, <1>4, <1>8 DEF SScope
  <1>9. CASE SBinary
    <2> DEFINE a == Tops(2)[1]
               b == Tops(2)[2]
    <2>1. SIn.op \in BinaryOps
      BY <1>9 DEF SBinary, SAt
    <2>2. n = 2
      BY <2>1 DEF n, Operands, BinaryOps, ArithmeticOps, ComparisonOps, UnaryOps
    <2>3. a \in S /\ b \in S
      BY <1>2, <2>2
    <2>4. CASE Defined(SIn.op, a, b, Size(b))
      <3>1. /\ Resume(Append(Under(2), Compute(SIn.op, a, b)))
            /\ UNCHANGED <<globals, objects, out>>
        BY <1>9, <2>4 DEF SBinary
      <3> HIDE DEF a, b
      <3>2. Compute(SIn.op, a, b) \in S
        BY <2>1, <2>3, <2>4, ComputeHeld DEF S, ValuesHold
      <3>3. Append(Under(2), Compute(SIn.op, a, b)) \in Seq(S)
        BY <1>2, <1>5, <2>2, <3>2
      <3> QED BY <1>4, <3>1, <3>3
    <2>5. CASE ~Defined(SIn.op, a, b, Size(b))
      <3>1. Abort
        BY <1>9, <2>5 DEF SBinary
      <3> QED BY <3>1, AbortHeld
    <2> QED BY <2>4, <2>5
  <1>10. CASE SUnary
    <2> DEFINE a == Tops(1)[1]
    <2>1. SIn.op \in UnaryOps
      BY <1>10 DEF SUnary, SAt
    <2>2. n = 1
      BY <2>1 DEF n, Operands, BinaryOps, ArithmeticOps, ComparisonOps, UnaryOps
    <2>3. a \in S
      BY <1>2, <2>2
    <2>4. CASE UnaryDefined(SIn.op, a)
      <3>1. /\ Resume(Append(Under(1), Unary(SIn.op, a, Size(a))))
            /\ UNCHANGED <<globals, objects, out>>
        BY <1>10, <2>4 DEF SUnary
      <3> HIDE DEF a
      <3>2. Unary(SIn.op, a, Size(a)) \in S
        BY <2>1, <2>3, UnaryHeld DEF S, ValuesHold
      <3>3. Append(Under(1), Unary(SIn.op, a, Size(a))) \in Seq(S)
        BY <1>2, <1>5, <2>2, <3>2
      <3> QED BY <1>4, <3>1, <3>3
    <2>5. CASE ~UnaryDefined(SIn.op, a)
      <3>1. Abort
        BY <1>10, <2>5 DEF SUnary
      <3> QED BY <3>1, AbortHeld
    <2> QED BY <2>4, <2>5
  <1>11. CASE SGetProp
    <2> DEFINE obj == Tops(n)[1]
               a == IF ByIndex(SIn) THEN Element(obj, Tops(n)[2]) ELSE Property(obj, SIn.lit)
    <2>1. SIn.op = "GET_PROP" /\ Resume(Append(Under(n), a)) /\ UNCHANGED <<globals, objects, out>>
      BY <1>11 DEF SGetProp, SAt, n
    <2>2. n \in {1, 2}
      BY <2>1 DEF n, Operands, BinaryOps, ArithmeticOps, ComparisonOps, UnaryOps
    <2>3. obj \in S
      BY <1>2, <2>2
    <2> HIDE DEF obj
    <2>4. a \in S
      BY <2>3, ElementHeld DEF S, ValuesHold
    <2> HIDE DEF a
    <2>5. Append(Under(n), a) \in Seq(S)
      BY <1>2, <1>5, <2>4
    <2> QED BY <1>4, <2>1, <2>5
  <1>12. CASE SStoreProp
    <2> DEFINE obj == Tops(n)[1]
               a == Tops(n)[n]
               k == Key(IF ByIndex(SIn) THEN Tops(n)[2] ELSE SIn.lit)
    <2>1. SIn.op = "STORE_PROP"
      BY <1>12 DEF SStoreProp, SAt
    <2>2. n = IF ByIndex(SIn) THEN 3 ELSE 2
      BY <2>1 DEF n, Operands, BinaryOps, ArithmeticOps, ComparisonOps, UnaryOps
    <2>3. obj \in S /\ a \in S
      BY <1>2, <2>2
    <2>4. k \in Keys \cap S
      <3>1. CASE ByIndex(SIn)
        <4>1. Tops(n)[2] \in S
          BY <1>2, <2>2, <3>1
        <4>2. Key(Tops(n)[2]) \in Keys \cap S
          BY <1>2, <4>1, HeldParts DEF S
        <4> QED BY <3>1, <4>2
      <3>2. CASE ~ByIndex(SIn)
        BY <1>2, <3>2
      <3> QED BY <3>1, <3>2
    <2>5. CASE obj.t = "array"
      <3>1. /\ arrays' = [arrays EXCEPT ![obj.v] = With(@, k, a)]
            /\ Resume(Under(n)) /\ UNCHANGED <<globals, closures, envs, out>>
        BY <1>12, <2>5 DEF SStoreProp, n
      <3> HIDE DEF obj, k, a
      <3>2. ArraysHold(arrays') /\ Len(arrays') = Len(arrays)
        BY <2>3, <2>4, <2>5, <3>1, EntryStored DEF S, ValuesHold
      <3>3. Len(arrays) <= Len(arrays') /\ S = Held(Len(arrays'))
        BY <1>2, <3>2 DEF S
      <3> QED BY <1>2, <3>1, <3>2, <3>3, StepHeld DEF Resume, Kept
    <2>6. CASE obj.t # "array"
      <3>1. Abort
        BY <1>12, <2>6 DEF SStoreProp, n
      <3> QED BY <3>1, AbortHeld
    <2> QED BY <2>5, <2>6
  <1>13. CASE SMakeClosure
    <2> DEFINE a == FunctionRef(Len(closures) + 1)
    <2>1. Resume(Append(Top.vals, a)) /\ UNCHANGED <<globals, arrays, envs, out>>
      BY <1>13 DEF SMakeClosure
    <2>2. a \in S
      <3>1. Len(closures) \in Nat
        BY IsSeqLen DEF Fits, ClosuresFit
      <3>2. Len(closures) + 1 \in Int
        BY <3>1
      <3> QED BY <1>2, <3>2, HeldPlain DEF S
    <2> HIDE DEF a
    <2> QED BY <1>2, <1>3, <1>5, <2>1, <2>2 DEF Resume
  <1>14. CASE SJump
    BY <1>2, <1>3, <1>14 DEF SJump, objects
  <1>15. CASE SJumpIfFalse
    <2>1. SIn.op = "JUMP_IF_FALSE"
      BY <1>15 DEF SJumpIfFalse, SAt
    <2>2. n = 1
      BY <2>1 DEF n, Operands, BinaryOps, ArithmeticOps, ComparisonOps, UnaryOps
    <2> QED BY <1>2, <1>3, <1>15, <2>2 DEF SJumpIfFalse, objects
  <1> QED BY <1>6, <1>7, <1>8, <1>9, <1>10, <1>11, <1>12, <1>13, <1>14, <1>15

\* A new activation on top of the one that goes on when it is over.
LEMMA PushIn ==
  ASSUME NEW own, FramesFit(frames, own), frames # <<>>, NEW S, FramesIn(frames, S),
         NEW vals \in Seq(S), NEW k, NEW h, h.vals \in Seq(S), h.args \in Seq(S)
  PROVE  FramesIn(Append(Continue(vals, k), h), S)
  <1>1. FramesIn(Continue(vals, k), S)
    BY TopIn
  <1>2. IsSeq(Continue(vals, k))
    BY ContinueSeq
  <1>3. FrameIn(h, S)
    BY DEF FrameIn
  <1> QED BY <1>1, <1>2, <1>3, FrameMore

LEMMA ActivateHeld ==
  ASSUME CodeFits, NEW own, Fits(own), ValuesHold, Running("stack"),
         NEW name \in DOMAIN instructions, NEW parent \in 0 .. Len(envs), NEW n, NEW how,
         Tops(SIn.argc) \in Seq(Held(Len(arrays))), Under(n) \in Seq(Held(Len(arrays))),
         SActivate(name, parent, n, how)
  PROVE  ValuesNext
  <1> DEFINE f == instructions[name]
             args == Tops(SIn.argc)
             low == Under(n)
  <1>1. CASE ~(f.variadic \/ SIn.argc <= f.params)
    BY <1>1, AbortHeld DEF SActivate
  <1>2. CASE f.variadic \/ SIn.argc <= f.params
    <2> DEFINE h == [NewFrame("stack", name, Len(envs) + 1, <<>>, args) EXCEPT !.site = how]
    <2>1. /\ arrays' = arrays \o Rest(f, args)
          /\ envs' = Append(envs, [parent |-> parent, slots |-> Bind(f, f.size, args)])
          /\ frames' = Append(Continue(low, Top.ip + 1), h)
          /\ UNCHANGED <<globals, out, result>>
      BY <1>2 DEF SActivate
    <2>2. h.vals = <<>> /\ h.args = args
      <3> HIDE DEF args
      <3> QED BY DEF NewFrame
    <2>3. Parameters(f) /\ f.size \in Nat
      BY CheckedParameters
    <2> HIDE DEF f, args, h, low
    <2> DEFINE S == Held(Len(arrays'))
    <2>4. args \in Seq(Held(Len(arrays))) /\ low \in Seq(Held(Len(arrays)))
      BY DEF args, low
    <2>5. /\ args \in Seq(S) /\ <<>> \in Seq(S) /\ FramesIn(frames, S)
          /\ FramesIn(frames', S) => ValuesNext
      BY <2>1, <2>3, <2>4, Begun
    <2>6. low \in Seq(S)
      <3>1. ArraysHold(arrays') /\ Len(arrays) <= Len(arrays')
        BY <2>1, <2>3, <2>4, BindHeld DEF ValuesHold
      <3> QED BY <2>4, <3>1, Grows
    <2> HIDE DEF S
    <2>7. frames # <<>>
      BY DEF Running
    <2>8. FramesIn(frames', S)
      BY <2>1, <2>2, <2>5, <2>6, <2>7, PushIn DEF Fits
    <2> QED BY <2>5, <2>8
  <1> QED BY <1>1, <1>2

LEMMA StackCallsHeld ==
  ASSUME CodeFits, NEW own, Fits(own), ValuesHold,
         SCallBuiltin \/ SCallFunction \/ SCallMissing \/ SCallDynamic
  PROVE  ValuesNext
  <1> DEFINE S == Held(Len(arrays))
  <1>1. Running("stack") /\ Top.ip < Len(SFunction.code) /\ SIn.op = "CALL"
    BY DEF SCallBuiltin, SCallFunction, SCallMissing, SCallDynamic, SAt
  <1>2. /\ frames # <<>> /\ SIn \in Instruction /\ Kept(S) /\ Len(arrays) \in Nat
        /\ Operands(SIn) <= Len(Top.vals) /\ Operands(SIn) \in Nat /\ Len(Top.vals) \in Nat
    BY <1>1, StackOperands, StackTop
  <1>3. /\ SIn.argc \in Nat
        /\ Operands(SIn) = SIn.argc + (IF SIn.name = Dynamic THEN 1 ELSE 0)
    BY <1>1, <1>2 DEF Instruction, Operands, BinaryOps, ArithmeticOps, ComparisonOps, UnaryOps
  <1> DEFINE m == IF SIn.name = Dynamic THEN SIn.argc + 1 ELSE SIn.argc
  <1>4. m \in Nat /\ m <= Len(Top.vals) /\ SIn.argc <= Len(Top.vals)
    <2>1. m = Operands(SIn)
      BY <1>3
    <2> QED BY <1>2, <1>3, <2>1
  <1> HIDE DEF S, m
  <1>5. ASSUME NEW n \in Nat, n <= Len(Top.vals)
        PROVE  /\ Tops(n) \in Seq(S) /\ Under(n) \in Seq(S)
               /\ \A i \in 1 .. n : Tops(n)[i] \in S
    BY <1>1, <1>2, <1>5, TopsHeld DEF Kept
  <1>6. Tops(SIn.argc) \in Seq(S) /\ Under(SIn.argc) \in Seq(S) /\ Under(m) \in Seq(S)
    BY <1>3, <1>4, <1>5
  <1>7. CASE SCallBuiltin
    <2> DEFINE args == Tops(SIn.argc)
               low == Under(SIn.argc)
               a == BuiltinValue(SIn.name, args)
    <2>1. CASE BuiltinFails(SIn.name, args)
      BY <1>7, <2>1, AbortHeld DEF SCallBuiltin
    <2>2. CASE ~BuiltinFails(SIn.name, args)
      <3>1. /\ BuiltinEffect(SIn.name, args) /\ Resume(Append(low, a))
            /\ UNCHANGED <<globals, closures, envs>>
        BY <1>7, <2>2 DEF SCallBuiltin
      <3> HIDE DEF args, low
      <3> DEFINE T == Held(Len(arrays'))
      <3>2. /\ ArraysHold(arrays') /\ Len(arrays) <= Len(arrays') /\ a \in T
            /\ out' \in Seq(Seq(T))
        BY <1>6, <3>1, BuiltinHeld DEF S, args
      <3>3. low \in Seq(T) /\ Kept(T)
        BY <1>6, <3>2, Grows DEF S, low
      <3> HIDE DEF T, a
      <3>4. Append(low, a) \in Seq(T)
        BY <3>2, <3>3
      <3>5. GlobalsIn(globals', T) /\ EnvsIn(envs', T)
        BY <3>1, <3>3 DEF Kept
      <3> QED BY <1>2, <3>1, <3>2, <3>4, <3>5, StepHeld DEF Resume, T
    <2> QED BY <2>1, <2>2
  <1>8. CASE SCallFunction
    <2> DEFINE how == IF <<Top.fn, Top.ip>> \in cached THEN "cached" ELSE "named"
    <2>1. /\ SIn.name \in DOMAIN instructions
          /\ SActivate(SIn.name, 0, SIn.argc, how)
      BY <1>8 DEF SCallFunction
    <2>2. 0 \in 0 .. Len(envs)
      BY IsSeqLen DEF Fits, EnvsFit
    <2> HIDE DEF how
    <2> QED BY <1>1, <1>6, <2>1, <2>2, ActivateHeld DEF S
  <1>9. CASE SCallMissing
    BY <1>9, AbortHeld DEF SCallMissing
  <1>10. CASE SCallDynamic
    <2> DEFINE callee == Tops(SIn.argc + 1)[1]
    <2>1. CASE Callable(callee)
      <3>1. /\ SIn.name = Dynamic /\ m = SIn.argc + 1
            /\ SActivate(closures[callee.v].name, closures[callee.v].env, SIn.argc + 1, "other")
        BY <1>10, <2>1 DEF SCallDynamic, m
      <3>2. callee.v \in DOMAIN closures
        BY <2>1 DEF Callable
      <3> HIDE DEF callee
      <3> DEFINE name == closures[callee.v].name
                 parent == closures[callee.v].env
      <3>3. name \in DOMAIN instructions /\ parent \in DOMAIN own
        BY <3>2, ClosureParent
      <3>4. parent \in 0 .. Len(envs)
        BY <3>3, IsSeqLen DEF Fits, EnvsFit
      <3>5. SActivate(name, parent, m, "other")
        BY <3>1
      <3> HIDE DEF name, parent
      <3> QED BY <1>1, <1>6, <3>3, <3>4, <3>5, ActivateHeld DEF S
    <2>2. CASE ~Callable(callee)
      BY <1>10, <2>2, AbortHeld DEF SCallDynamic
    <2> QED BY <2>1, <2>2
  <1> QED BY <1>7, <1>8, <1>9, <1>10

LEMMA ReturnedIn ==
  ASSUME CodeFits, NEW own, Fits(own), Running("stack"), NEW S, FramesIn(frames, S), None \in S
  PROVE  ReturnValue \in S
  <1>1. CASE SAt({"RETURN"}) /\ Top.vals # <<>>
    <2>1. ReturnValue = Tops(1)[1]
      BY <1>1 DEF ReturnValue
    <2>2. IsSeq(Top.vals) /\ Len(Top.vals) \in Nat
      BY StackTop
    <2>3. Len(Top.vals) >= 1
      BY <1>1, <2>2 DEF IsSeq
    <2>4. Tops(1)[1] \in S
      BY <2>2, <2>3, TopsHeld
    <2> QED BY <2>1, <2>4
  <1> QED BY <1>1 DEF ReturnValue

LEMMA StackReturnHeld ==
  ASSUME CodeFits, NEW own, Fits(own), ValuesHold, SReturn
  PROVE  ValuesNext
  <1> DEFINE S == Held(Len(arrays))
             n == Len(frames) - 1
             a == ReturnValue
             low == SubSeq(frames, 1, n)
             vals == Append(frames[n].vals, a)
  <1>1. /\ Running("stack") /\ n > 0 /\ SFinishes
        /\ frames' = [low EXCEPT ![n].vals = Append(@, a)]
        /\ UNCHANGED <<arrays, globals, envs, out, result>>
    BY DEF SReturn, SFinishes, SAt, Front, objects
  <1>2. Len(frames) \in Nat \ {0} /\ Len(Top.vals) \in Nat /\ Kept(S) /\ Len(arrays) \in Nat
    BY <1>1, IsSeqLen, StackTop DEF ValuesHold, ArraysHold
  <1>3. n \in Nat /\ n \in 1 .. Len(frames) /\ n \in 1 .. n /\ n \in 0 .. Len(frames)
    <2> DEFINE m == Len(frames)
    <2>1. m \in Nat \ {0} /\ n = m - 1 /\ n > 0
      BY <1>1, <1>2
    <2> HIDE DEF m, n
    <2>2. n \in Nat /\ n \in 1 .. m /\ n \in 1 .. n /\ n \in 0 .. m
      BY <2>1
    <2> QED BY <2>2 DEF m
  <1> HIDE DEF S, n
  <1>4. a \in S
    <2>1. None \in S
      BY <1>2, HeldPlain DEF S
    <2> QED BY <1>1, <1>2, <2>1, ReturnedIn DEF Kept
  <1> HIDE DEF a
  <1>5. frames[n].vals \in Seq(S)
    BY <1>2, <1>3 DEF Kept, FramesIn, FrameIn
  <1>6. vals \in Seq(S)
    BY <1>4, <1>5
  <1>7. frames' = [low EXCEPT ![n].vals = vals]
    <2>1. low[n] = frames[n] /\ DOMAIN low = 1 .. n
      <3>1. IsSeq(low) /\ Len(low) = n /\ \A i \in 1 .. n : low[i] = frames[i]
        BY <1>2, <1>3, LowerIn DEF Fits, Kept
      <3> QED BY <1>3, <3>1, IsSeqLen
    <2> HIDE DEF low
    <2> QED BY <1>1, <1>3, <2>1
  <1> HIDE DEF vals
  <1>8. FramesIn(frames', S)
    BY <1>2, <1>3, <1>6, <1>7, PoppedIn DEF Fits, Kept
  <1>9. KeptNext(S)
    BY <1>1, <1>2, <1>8 DEF Kept, KeptNext
  <1> QED BY <1>1, <1>9 DEF S, ValuesHold, ValuesNext

LEMMA StackHeld ==
  ASSUME CodeFits, NEW own, Fits(own), ValuesHold, StackNext
  PROVE  ValuesNext
  <1>1. CASE Underflow
    BY <1>1, AbortHeld DEF StackNext
  <1>2. CASE ~Underflow
    BY <1>2, StackVariablesHeld, StackOperandsHeld, StackCallsHeld, StackReturnHeld, AbortHeld
       DEF StackNext, SReturnAgain
  <1> QED BY <1>1, <1>2

-----------------------------------------------------------------------------
(* The steps of the register machine *)

\* Every function of the register machine has the parameters it had.
ParametersKept == \A n \in DOMAIN functions_v2 : Parameters(functions_v2[n])

\* What the next instruction works on.
LEMMA RegisterOperands ==
  ASSUME CodeFits, AllRegistered, NEW own, Fits(own), AllSized, ValuesHold,
         Running("register"), Top.ip < Len(RFunction.code)
  PROVE  LET S == Held(Len(arrays)) IN
         /\ frames # <<>> /\ RIn \in Instruction2 /\ RIn.lit \in S
         /\ Key(RIn.lit) \in Keys \cap S /\ RIn.a.depth = 0
         /\ Len(arrays) \in Nat /\ Kept(S) /\ Top.vals \in Seq(S) /\ Len(Top.vals) \in Nat
         /\ Reads(RIn) \subseteq 0 .. Len(Top.vals) - 1
         /\ \A r \in Reads(RIn) : Top.vals[r + 1] \in S
         /\ Top.env \in 1 .. Len(envs)
  <1> DEFINE S == Held(Len(arrays))
             m == Len(Top.vals)
             c == RFunction.code
             k == Top.ip + 1
  <1>1. Len(arrays) \in Nat /\ Kept(S)
    BY IsSeqLen DEF ValuesHold, ArraysHold
  <1>2. /\ frames # <<>> /\ Len(frames) \in Nat \ {0} /\ Top.env \in DOMAIN own
    BY RegisterTop
  <1>3. Top.env \in 1 .. Len(envs)
    BY <1>2 DEF Fits, EnvsFit
  <1>4. /\ Registered(Top.fn) /\ AtHome(c) /\ IsSeq(Top.vals) /\ m = RFunction.frame_size
        /\ Top.ip \in 0 .. Len(c) /\ Len(c) \in Nat
    BY RegisterSized
  <1>5. c \in Seq(Instruction2) /\ k \in 1 .. Len(c) /\ RIn = c[k] /\ Inside(RIn, m)
        /\ RIn.a.depth = 0
    <2>1. k \in 1 .. Len(c) /\ RIn = c[k]
      BY <1>4 DEF RIn
    <2> QED BY <1>4, <2>1 DEF Registered, CodeHolds, AtHome, Home, RFunction
  <1>6. RIn \in Instruction2
    <2> HIDE DEF c, k
    <2> QED BY <1>5
  <1>7. RIn.lit \in Literal
    BY <1>6 DEF Instruction2
  <1>8. RIn.lit \in S /\ Key(RIn.lit) \in Keys \cap S
    BY <1>1, <1>7, HeldPlain, HeldParts
  <1> HIDE DEF S
  <1>9. Top.vals \in Seq(S) /\ m \in Nat
    <2>1. Len(frames) \in 1 .. Len(frames)
      <3> DEFINE z == Len(frames)
      <3>1. z \in Nat \ {0}
        BY <1>2
      <3> HIDE DEF z
      <3>2. z \in 1 .. z
        BY <3>1
      <3> QED BY <3>2 DEF z
    <2>2. Top.vals \in Seq(S)
      BY <1>1, <2>1 DEF Kept, FramesIn, FrameIn, Top
    <2> QED BY <2>2
  <1>10. Reads(RIn) \subseteq 0 .. m - 1
    BY <1>5 DEF Inside
  <1>11. ASSUME NEW r \in Reads(RIn) PROVE Top.vals[r + 1] \in S
    <2> HIDE DEF m
    <2>1. r \in 0 .. m - 1
      BY <1>10
    <2>2. r + 1 \in 1 .. m
      BY <1>9, <2>1
    <2> QED BY <1>9, <2>2 DEF m
  <1> QED BY <1>1, <1>2, <1>3, <1>5, <1>6, <1>8, <1>9, <1>10, <1>11 DEF S

\* A value is written to a register and to the environment.
LEMMA WriteHeld ==
  ASSUME CodeFits, NEW own, Fits(own), ValuesHold, Running("register"), NEW a, RWrite(a),
         Top.vals \in Seq(Held(Len(arrays))), ArraysHold(arrays'), Len(arrays) <= Len(arrays'),
         a \in Held(Len(arrays')), out' \in Seq(Seq(Held(Len(arrays')))), UNCHANGED globals
  PROVE  ValuesNext
  <1> DEFINE T == Held(Len(arrays'))
             vals == Stored(Top.vals, RIn.dst, a)
  <1>1. Kept(T) /\ Top.vals \in Seq(T)
    BY Grows
  <1>2. /\ frames' = Continue(vals, Top.ip + 1) /\ UNCHANGED result
        /\ envs' = [envs EXCEPT ![Top.env].slots[RIn.dst.index + 1] = a]
    BY DEF RWrite, Mirrored
  <1> HIDE DEF T
  <1>3. a \in T
    BY DEF T
  <1>4. vals \in Seq(T)
    BY <1>1, <1>3, ElementStored DEF Stored
  <1> HIDE DEF vals
  <1>5. EnvsIn(envs', T) /\ GlobalsIn(globals', T)
    BY <1>1, <1>2, <1>3, SlotIn DEF Fits, Kept
  <1>6. frames # <<>>
    BY DEF Running
  <1> QED BY <1>2, <1>4, <1>5, <1>6, StepHeld DEF T

LEMMA RegisterSimpleHeld ==
  ASSUME CodeFits, AllRegistered, NEW own, Fits(own), AllSized, ValuesHold,
         RMove \/ RStoreGlobal \/ RBinary \/ RUnary \/ RGetProp \/ RMakeClosure
           \/ RJump \/ RJumpIfFalse
  PROVE  ValuesNext
  <1> DEFINE S == Held(Len(arrays))
  <1>1. Running("register") /\ Top.ip < Len(RFunction.code)
    BY DEF RMove, RStoreGlobal, RBinary, RUnary, RGetProp, RMakeClosure, RJump, RJumpIfFalse, RAt
  <1>2. /\ frames # <<>> /\ RIn.lit \in S /\ Key(RIn.lit) \in Keys \cap S /\ RIn.a.depth = 0
        /\ Len(arrays) \in Nat /\ Kept(S) /\ Top.vals \in Seq(S)
        /\ \A r \in Reads(RIn) : Top.vals[r + 1] \in S
    BY <1>1, RegisterOperands
  <1> HIDE DEF S
  <1>3. ASSUME NEW ref, ref.index \in Reads(RIn) PROVE R(ref) \in S
    BY <1>2, <1>3 DEF R
  <1>4. ASSUME NEW a \in S, RWrite(a), UNCHANGED <<globals, arrays, closures, out>>
        PROVE  ValuesNext
    <2>1. ArraysHold(arrays') /\ Len(arrays) <= Len(arrays') /\ S = Held(Len(arrays'))
      BY <1>2, <1>4 DEF S, ValuesHold
    <2>2. out' \in Seq(Seq(S))
      BY <1>2, <1>4 DEF Kept
    <2> QED BY <1>1, <1>2, <1>4, <2>1, <2>2, WriteHeld DEF S
  <1>5. ASSUME NEW k, RGoto(k), GlobalsIn(globals', S) PROVE ValuesNext
    <2>1. frames' = Continue(Top.vals, k) /\ UNCHANGED <<arrays, envs, out, result>>
      BY <1>5 DEF RGoto, objects
    <2>2. EnvsIn(envs', S)
      BY <1>2, <2>1 DEF Kept
    <2> QED BY <1>2, <1>5, <2>1, <2>2, StoringHeld DEF S
  <1>6. ASSUME NEW t, RJumping(t) PROVE ValuesNext
    <2>1. CASE Abort
      BY <2>1, AbortHeld
    <2>2. CASE RGoto(t) /\ UNCHANGED globals
      BY <1>2, <1>5, <2>2 DEF Kept
    <2> QED BY <1>6, <2>1, <2>2 DEF RJumping
  <1>7. CASE RMove
    <2> DEFINE a == CASE RIn.op = "LOADK" -> RIn.lit
                      [] RIn.op = "MOVE" -> R(RIn.a)
                      [] RIn.op = "LOAD_GLOBAL" ->
                           IF RIn.name \in DOMAIN globals THEN globals[RIn.name] ELSE None
    <2>1. RIn.op \in {"LOADK", "MOVE", "LOAD_GLOBAL"} /\ RWrite(a)
          /\ UNCHANGED <<globals, arrays, closures, out>>
      BY <1>7 DEF RMove, RAt
    <2>2. RIn.op = "MOVE" => R(RIn.a) \in S
      <3>1. RIn.op = "MOVE" => RIn.a.index \in Reads(RIn)
        BY <1>2 DEF Reads, BinaryOps, ArithmeticOps, ComparisonOps, UnaryOps
      <3> QED BY <1>3, <3>1
    <2>3. None \in S /\ \A x \in DOMAIN globals : globals[x] \in S
      BY <1>2, HeldPlain DEF S, Kept, GlobalsIn
    <2>4. a \in S
      BY <1>2, <2>1, <2>2, <2>3
    <2> HIDE DEF a
    <2> QED BY <1>4, <2>1, <2>4
  <1>8. CASE RStoreGlobal
    <2>1. /\ RIn.op = "STORE_GLOBAL" /\ RGoto(Top.ip + 1)
          /\ globals' = With(globals, RIn.name, R(RIn.a))
      BY <1>8 DEF RStoreGlobal, RAt
    <2>2. RIn.a.index \in Reads(RIn)
      BY <2>1 DEF Reads, BinaryOps, ArithmeticOps, ComparisonOps, UnaryOps
    <2>3. R(RIn.a) \in S
      BY <1>3, <2>2
    <2>4. GlobalsIn(globals', S)
      BY <1>2, <2>1, <2>3, GlobalStored DEF Kept
    <2> QED BY <1>5, <2>1, <2>4
  <1>9. CASE RBinary
    <2> DEFINE a == R(RIn.a)
               b == R(RIn.b)
    <2>1. RIn.op \in BinaryOps
      BY <1>9 DEF RBinary, RAt
    <2>2. RIn.a.index \in Reads(RIn) /\ RIn.b.index \in Reads(RIn)
      BY <2>1 DEF Reads, BinaryOps, ArithmeticOps, ComparisonOps, UnaryOps
    <2>3. a \in S /\ b \in S
      BY <1>3, <2>2
    <2>4. CASE Defined(RIn.op, a, b, Size(b))
      <3>1. RWrite(Compute(RIn.op, a, b)) /\ UNCHANGED <<globals, arrays, closures, out>>
        BY <1>9, <2>4 DEF RBinary
      <3> HIDE DEF a, b
      <3>2. Compute(RIn.op, a, b) \in S
        BY <2>1, <2>3, <2>4, ComputeHeld DEF S, ValuesHold
      <3> QED BY <1>4, <3>1, <3>2
    <2>5. CASE ~Defined(RIn.op, a, b, Size(b))
      BY <1>9, <2>5, AbortHeld DEF RBinary
    <2> QED BY <2>4, <2>5
  <1>10. CASE RUnary
    <2> DEFINE a == R(RIn.a)
    <2>1. RIn.op \in UnaryOps
      BY <1>10 DEF RUnary, RAt
    <2>2. RIn.a.index \in Reads(RIn)
      BY <2>1 DEF Reads, BinaryOps, ArithmeticOps, ComparisonOps, UnaryOps
    <2>3. a \in S
      BY <1>3, <2>2
    <2>4. CASE UnaryDefined(RIn.op, a)
      <3>1. RWrite(Unary(RIn.op, a, Size(a))) /\ UNCHANGED <<globals, arrays, closures, out>>
        BY <1>10, <2>4 DEF RUnary
      <3> HIDE DEF a
      <3>2. Unary(RIn.op, a, Size(a)) \in S
        BY <2>1, <2>3, UnaryHeld DEF S, ValuesHold
      <3> QED BY <1>4, <3>1, <3>2
    <2>5. CASE ~UnaryDefined(RIn.op, a)
      BY <1>10, <2>5, AbortHeld DEF RUnary
    <2> QED BY <2>4, <2>5
  <1>11. CASE RGetProp
    <2> DEFINE obj == R(RIn.a)
               a == IF ByIndex(RIn) THEN Element(obj, R(RIn.b)) ELSE Property(obj, RIn.lit)
    <2>1. RIn.op = "GET_PROP" /\ RWrite(a) /\ UNCHANGED <<globals, arrays, closures, out>>
      BY <1>11 DEF RGetProp, RAt
    <2>2. RIn.a.index \in Reads(RIn)
      BY <2>1 DEF Reads, BinaryOps, ArithmeticOps, ComparisonOps, UnaryOps
    <2>3. obj \in S
      BY <1>3, <2>2
    <2> HIDE DEF obj
    <2>4. a \in S
      BY <2>3, ElementHeld DEF S, ValuesHold
    <2> HIDE DEF a
    <2> QED BY <1>4, <2>1, <2>4
  <1>12. CASE RMakeClosure
    <2> DEFINE a == FunctionRef(Len(closures) + 1)
    <2>1. RWrite(a) /\ UNCHANGED <<globals, arrays, out>>
      BY <1>12 DEF RMakeClosure
    <2>2. a \in S
      <3>1. Len(closures) \in Nat
        BY IsSeqLen DEF Fits, ClosuresFit
      <3>2. Len(closures) + 1 \in Int
        BY <3>1
      <3> QED BY <1>2, <3>2, HeldPlain DEF S
    <2> HIDE DEF a
    <2>3. ArraysHold(arrays') /\ Len(arrays) <= Len(arrays') /\ S = Held(Len(arrays'))
      BY <1>2, <2>1 DEF S, ValuesHold
    <2>4. out' \in Seq(Seq(S))
      BY <1>2, <2>1 DEF Kept
    <2> QED BY <1>1, <1>2, <2>1, <2>2, <2>3, <2>4, WriteHeld DEF S
  <1>13. CASE RJump
    BY <1>6, <1>13 DEF RJump
  <1>14. CASE RJumpIfFalse
    <2>1. CASE RGoto(Top.ip + 1) /\ UNCHANGED globals
      BY <1>2, <1>5, <2>1 DEF Kept
    <2>2. CASE RJumping(RIn.target)
      BY <1>6, <2>2
    <2> QED BY <1>14, <2>1, <2>2 DEF RJumpIfFalse
  <1> QED BY <1>7, <1>8, <1>9, <1>10, <1>11, <1>12, <1>13, <1>14

LEMMA ArrayAppended ==
  ASSUME NEW s, ArraysHold(s), NEW m, ArrayHolds(m, Len(s))
  PROVE  ArraysHold(Append(s, m)) /\ Len(Append(s, m)) = Len(s) + 1
  <1>1. IsSeq(s)
    BY DEF ArraysHold
  <1> DEFINE S == {s[i] : i \in DOMAIN s} \cup {m}
             new == <<m>>
  <1>2. s \in Seq(S) /\ m \in S
    BY <1>1, SeqMonotonic DEF IsSeq
  <1> HIDE DEF S
  <1>3. Append(s, m) = s \o new
    BY <1>2, AppendIsConcat
  <1>4. new # <<>>
    OBVIOUS
  <1>5. OneMore(new, Len(s))
    BY DEF OneMore
  <1> HIDE DEF new
  <1>6. ArraysHold(s \o new) /\ Len(s \o new) = Len(s) + 1
    BY <1>4, <1>5, ArraysAdded
  <1> QED BY <1>3, <1>6

LEMMA RegisterStoreHeld ==
  ASSUME CodeFits, AllRegistered, NEW own, Fits(own), AllSized, ValuesHold, RStoreProp
  PROVE  ValuesNext
  <1> DEFINE S == Held(Len(arrays))
             T == Held(Len(arrays'))
             obj == R(RIn.dst)
             a == R(RIn.a)
             k == Key(IF ByIndex(RIn) THEN R(RIn.b) ELSE RIn.lit)
  <1>1. Running("register") /\ Top.ip < Len(RFunction.code) /\ RIn.op = "STORE_PROP"
    BY DEF RStoreProp, RAt
  <1>2. /\ frames # <<>> /\ Key(RIn.lit) \in Keys \cap S
        /\ Len(arrays) \in Nat /\ Kept(S) /\ Top.vals \in Seq(S)
        /\ \A r \in Reads(RIn) : Top.vals[r + 1] \in S
    BY <1>1, RegisterOperands
  <1> HIDE DEF S
  <1>3. /\ RIn.dst.index \in Reads(RIn) /\ RIn.a.index \in Reads(RIn)
        /\ ByIndex(RIn) => RIn.b.index \in Reads(RIn)
    BY <1>1 DEF Reads, BinaryOps, ArithmeticOps, ComparisonOps, UnaryOps
  <1>4. obj \in S /\ a \in S /\ (ByIndex(RIn) => R(RIn.b) \in S)
    BY <1>2, <1>3 DEF R
  <1>5. k \in Keys \cap S
    <2>1. ByIndex(RIn) => Key(R(RIn.b)) \in Keys \cap S
      BY <1>2, <1>4, HeldParts DEF S
    <2> QED BY <1>2, <2>1
  <1>6. UNCHANGED <<globals, envs, out, result>>
    BY DEF RStoreProp
  <1>7. CASE obj.t = "array"
    <2>1. /\ arrays' = [arrays EXCEPT ![obj.v] = With(@, k, a)]
          /\ frames' = Continue(Top.vals, Top.ip + 1)
      BY <1>7 DEF RStoreProp
    <2> HIDE DEF obj, k, a
    <2>2. ArraysHold(arrays') /\ Len(arrays') = Len(arrays)
      BY <1>4, <1>5, <1>7, <2>1, EntryStored DEF S, ValuesHold
    <2>3. Len(arrays) <= Len(arrays') /\ S = T
      BY <1>2, <2>2 DEF S
    <2> QED BY <1>2, <1>6, <2>1, <2>2, <2>3, StepHeld DEF Kept
  <1>8. CASE obj.t # "array"
    <2> DEFINE new == With(<<>>, k, a)
               ref == ArrayRef(Len(arrays) + 1)
               vals == Stored(Top.vals, RIn.dst, ref)
    <2>1. arrays' = Append(arrays, new) /\ frames' = Continue(vals, Top.ip + 1)
      BY <1>8 DEF RStoreProp
    <2> HIDE DEF obj, k, a
    <2>2. ArrayHolds(new, Len(arrays))
      BY <1>2, <1>4, <1>5, EmptyHeld, WithHeld DEF S
    <2> HIDE DEF new
    <2>3. ArraysHold(arrays') /\ Len(arrays') = Len(arrays) + 1
      BY <2>1, <2>2, ArrayAppended DEF ValuesHold
    <2>4. Len(arrays) <= Len(arrays') /\ Len(arrays') \in Nat
      BY <1>2, <2>3
    <2>5. ref \in T
      <3>1. Len(arrays) + 1 \in 1 .. Len(arrays')
        BY <1>2, <2>3
      <3> QED BY <2>4, <3>1, HeldPlain
    <2>6. Kept(T) /\ Top.vals \in Seq(T)
      BY <1>2, <2>3, <2>4, Grows DEF S
    <2> HIDE DEF T, ref
    <2>7. vals \in Seq(T)
      BY <2>5, <2>6, ElementStored DEF Stored
    <2> HIDE DEF vals
    <2>8. GlobalsIn(globals', T) /\ EnvsIn(envs', T) /\ out' \in Seq(Seq(T))
      BY <1>6, <2>6 DEF Kept
    <2> QED BY <1>2, <1>6, <2>1, <2>3, <2>4, <2>7, <2>8, StepHeld DEF T
  <1> QED BY <1>7, <1>8

\* The arguments of a call are registers of the activation.
LEMMA ArgsHeld ==
  ASSUME CodeFits, AllRegistered, NEW own, Fits(own), AllSized, ValuesHold, RAt({"CALL"})
  PROVE  /\ RArgs \in Seq(Held(Len(arrays)))
         /\ Running("register") /\ Top.ip < Len(RFunction.code)
  <1> DEFINE S == Held(Len(arrays))
             v == Top.vals
             m == Len(v)
             c == RIn.argc
             base == IF RIn.name = Dynamic THEN RIn.b.index ELSE RIn.a.index
  <1>1. Running("register") /\ Top.ip < Len(RFunction.code) /\ RIn.op = "CALL"
    BY DEF RAt
  <1>2. /\ RIn \in Instruction2 /\ v \in Seq(S) /\ m \in Nat /\ Reads(RIn) \subseteq 0 .. m - 1
    BY <1>1, RegisterOperands
  <1>3. base \in Nat /\ c \in Nat
    BY <1>2 DEF Instruction2, ValueRef
  <1>4. base .. base + c - 1 \subseteq Reads(RIn)
    <2>1. CASE RIn.name = Dynamic
      <3>1. Reads(RIn) = {RIn.a.index} \cup (RIn.b.index .. RIn.b.index + RIn.argc - 1)
        BY <1>1, <2>1 DEF Reads, BinaryOps, ArithmeticOps, ComparisonOps, UnaryOps
      <3> QED BY <2>1, <3>1
    <2>2. CASE RIn.name # Dynamic
      <3>1. Reads(RIn) = RIn.a.index .. RIn.a.index + RIn.argc - 1
        BY <1>1, <2>2 DEF Reads, BinaryOps, ArithmeticOps, ComparisonOps, UnaryOps
      <3> QED BY <2>2, <3>1
    <2> QED BY <2>1, <2>2
  <1>5. base .. base + c - 1 \subseteq 0 .. m - 1
    BY <1>2, <1>4
  <1> DEFINE shifted == /\ RIn.name = "print" /\ c >= 2 /\ base > 0
                        /\ v[base + 1].t # "string" /\ v[base].t = "string"
             start == IF shifted THEN base - 1 ELSE base
  <1>6. RArgs = [i \in 1 .. c |-> v[start + i]]
    <2>1. CASE RIn.name = Dynamic
      <3>1. ~shifted /\ RArgs = RArgsFrom(RIn.b.index)
        BY <2>1 DEF RArgs, Dynamic
      <3> QED BY <2>1, <3>1 DEF RArgsFrom
    <2>2. CASE RIn.name # Dynamic /\ RShifted
      <3>1. shifted /\ RArgs = RArgsFrom(RIn.a.index - 1)
        BY <2>2 DEF RArgs, RShifted
      <3> QED BY <2>2, <3>1 DEF RArgsFrom
    <2>3. CASE RIn.name # Dynamic /\ ~RShifted
      <3>1. ~shifted /\ RArgs = RArgsFrom(RIn.a.index)
        BY <2>3 DEF RArgs, RShifted
      <3> QED BY <2>3, <3>1 DEF RArgsFrom
    <2> QED BY <2>1, <2>2, <2>3
  <1>7. start \in {base, base - 1} /\ (start = base - 1 => (c >= 2 /\ base > 0) \/ base - 1 = base)
    BY <1>3
  <1> HIDE DEF S, v, m, c, base, start, shifted
  <1>8. ASSUME NEW i \in 1 .. c PROVE start + i \in 1 .. m
    <2>1. base + (i - 1) \in base .. base + c - 1
      BY <1>3
    <2>2. base + (i - 1) \in 0 .. m - 1
      BY <1>5, <2>1
    <2>3. base + i \in 1 .. m
      BY <1>2, <1>3, <2>2
    <2>4. CASE start = base
      BY <2>3, <2>4
    <2>5. CASE start # base
      <3>1. start = base - 1 /\ base > 0
        BY <1>3, <1>7, <2>5
      <3> QED BY <1>2, <1>3, <2>3, <3>1
    <2> QED BY <2>4, <2>5
  <1>9. \A i \in 1 .. c : v[start + i] \in S
    BY <1>2, <1>8 DEF m
  <1>10. RArgs \in [1 .. c -> S]
    BY <1>6, <1>9
  <1>11. RArgs \in Seq(S)
    BY <1>3, <1>10, SeqDef
  <1> QED BY <1>1, <1>11 DEF S

LEMMA RegisterCallsHeld ==
  ASSUME CodeFits, AllRegistered, ParametersKept, NEW own, Fits(own), AllSized, ValuesHold,
         RCallFunction \/ RCallBuiltin \/ RCallMissing \/ RCallDynamic
  PROVE  ValuesNext
  <1> DEFINE S == Held(Len(arrays))
             T == Held(Len(arrays'))
             args == RArgs
  <1>1. RAt({"CALL"})
    BY DEF RCallFunction, RCallBuiltin, RCallMissing, RCallDynamic
  <1>2. args \in Seq(S) /\ Running("register") /\ Top.ip < Len(RFunction.code)
    BY <1>1, ArgsHeld
  <1>3. /\ frames # <<>> /\ Len(arrays) \in Nat /\ Kept(S) /\ Top.vals \in Seq(S)
        /\ Top.env \in 1 .. Len(envs)
    BY <1>2, RegisterOperands
  <1>4. Len(envs) \in Nat /\ Top.env \in 0 .. Len(envs)
    BY <1>3, IsSeqLen DEF Fits, EnvsFit
  \* A call that begins an activation.
  <1>5. ASSUME NEW f, Parameters(f), NEW n \in Nat, NEW p \in 0 .. Len(envs), NEW h,
               h.args = args, h.vals = <<>> \/ h.vals = Bind(f, n, args),
               arrays' = arrays \o Rest(f, args),
               envs' = Append(envs, [parent |-> p, slots |-> Bind(f, n, args)]),
               frames' = Append(RSuspend, h), UNCHANGED <<globals, out, result>>
        PROVE  ValuesNext
    <2>1. /\ Bind(f, n, args) \in Seq(T) /\ args \in Seq(T) /\ <<>> \in Seq(T)
          /\ FramesIn(frames, T) /\ (FramesIn(frames', T) => ValuesNext)
      BY <1>2, <1>5, Begun
    <2>2. Top.vals \in Seq(T)
      <3>1. ArraysHold(arrays') /\ Len(arrays) <= Len(arrays')
        BY <1>2, <1>5, BindHeld DEF ValuesHold
      <3> QED BY <1>3, <3>1, Grows
    <2> HIDE DEF T, args
    <2>3. h.vals \in Seq(T) /\ h.args \in Seq(T)
      BY <1>5, <2>1
    <2>4. FramesIn(frames', T)
      BY <1>3, <1>5, <2>1, <2>2, <2>3, PushIn DEF Fits, RSuspend
    <2> QED BY <2>1, <2>4
  <1>6. CASE RCallFunction
    <2> DEFINE f == functions_v2[RIn.name]
               slots == Bind(f, f.frame_size, args)
               h == [NewFrame("register", RIn.name, Len(envs) + 1, slots, args)
                       EXCEPT !.dst = RIn.dst]
    <2>1. /\ RIn.name \in DOMAIN functions_v2
          /\ arrays' = arrays \o Rest(f, args)
          /\ envs' = Append(envs, [parent |-> Top.env, slots |-> slots])
          /\ frames' = Append(RSuspend, h) /\ UNCHANGED <<globals, out, result>>
      BY <1>6 DEF RCallFunction
    <2>2. Parameters(f) /\ f.frame_size \in Nat
      BY <2>1 DEF ParametersKept, CodeFits, TranslatedFits
    <2> HIDE DEF args
    <2>3. h.args = args /\ h.vals = slots
      <3> HIDE DEF slots
      <3> QED BY DEF NewFrame
    <2> HIDE DEF f, h
    <2> QED BY <1>4, <1>5, <2>1, <2>2, <2>3
  <1>7. CASE RCallBuiltin
    <2> DEFINE a == BuiltinValue(RIn.name, args)
    <2>1. BuiltinEffect(RIn.name, args) /\ RWrite(a) /\ UNCHANGED <<globals, closures>>
      BY <1>7 DEF RCallBuiltin
    <2> HIDE DEF args
    <2>2. /\ ArraysHold(arrays') /\ Len(arrays) <= Len(arrays') /\ a \in T
          /\ out' \in Seq(Seq(T))
      BY <1>2, <2>1, BuiltinHeld
    <2> HIDE DEF a
    <2> QED BY <1>2, <1>3, <2>1, <2>2, WriteHeld
  <1>8. CASE RCallMissing
    BY <1>8, AbortHeld DEF RCallMissing
  <1>9. CASE RCallDynamic
    <2> DEFINE callee == R(RIn.a)
               c == closures[callee.v]
               f == instructions[c.name]
               h == [NewFrame("stack", c.name, Len(envs) + 1, <<>>, args) EXCEPT !.dst = RIn.dst]
    <2>1. CASE ~(Callable(callee) /\ (f.variadic \/ RIn.argc <= f.params))
      BY <1>9, <2>1, AbortHeld DEF RCallDynamic
    <2>2. CASE Callable(callee) /\ (f.variadic \/ RIn.argc <= f.params)
      <3>1. /\ arrays' = arrays \o Rest(f, args)
            /\ envs' = Append(envs, [parent |-> c.env, slots |-> Bind(f, f.size, args)])
            /\ frames' = Append(RSuspend, h) /\ UNCHANGED <<globals, out, result>>
        BY <1>9, <2>2 DEF RCallDynamic
      <3>2. callee.v \in DOMAIN closures
        BY <2>2 DEF Callable
      <3> HIDE DEF callee
      <3>3. c.name \in DOMAIN instructions /\ c.env \in DOMAIN own
        BY <3>2, ClosureParent
      <3>4. c.env \in 0 .. Len(envs)
        BY <1>4, <3>3 DEF Fits, EnvsFit
      <3>5. Parameters(f) /\ f.size \in Nat
        BY <3>3, CheckedParameters
      <3> HIDE DEF args, c
      <3>6. h.args = args /\ h.vals = <<>>
        BY DEF NewFrame
      <3> HIDE DEF f, h
      <3> QED BY <1>5, <3>1, <3>4, <3>5, <3>6
    <2> QED BY <2>1, <2>2
  <1> QED BY <1>6, <1>7, <1>8, <1>9

\* A value is returned to a register of the activation below, or to the host.
LEMMA DeliverHeld ==
  ASSUME CodeFits, NEW own, Fits(own), ValuesHold, frames # <<>>,
         NEW a \in Held(Len(arrays)), NEW dst, Deliver(a, dst)
  PROVE  ValuesNext
  <1> DEFINE S == Held(Len(arrays))
             n == Len(frames) - 1
             low == SubSeq(frames, 1, n)
             vals == Stored(frames[n].vals, dst, a)
  <1>1. Kept(S) /\ UNCHANGED <<globals, arrays, out>>
    BY DEF ValuesHold, Deliver
  <1>2. Len(frames) \in Nat \ {0}
    BY TopFits DEF Fits
  <1> HIDE DEF S
  <1>3. CASE n = 0
    <2>1. result' = a /\ frames' = <<>> /\ UNCHANGED envs
      BY <1>3 DEF Deliver
    <2>2. FramesIn(frames', S)
      BY <2>1 DEF FramesIn
    <2>3. KeptNext(S)
      BY <1>1, <2>1, <2>2 DEF Kept, KeptNext, S
    <2> QED BY <1>1, <2>3 DEF S, ValuesHold, ValuesNext
  <1>4. CASE n # 0
    <2>1. /\ frames' = [low EXCEPT ![n].vals = Stored(@, dst, a)]
          /\ envs' = [envs EXCEPT ![frames[n].env].slots[dst.index + 1] = a]
          /\ UNCHANGED result
      BY <1>4 DEF Deliver, Mirrored
    <2>2. n \in Nat /\ n \in 1 .. Len(frames) /\ n \in 1 .. n /\ n \in 0 .. Len(frames)
      <3> DEFINE m == Len(frames)
      <3>1. m \in Nat \ {0} /\ n = m - 1 /\ n # 0
        BY <1>2, <1>4
      <3> HIDE DEF m, n
      <3>2. n \in Nat /\ n \in 1 .. m /\ n \in 1 .. n /\ n \in 0 .. m
        BY <3>1
      <3> QED BY <3>2 DEF m
    <2> HIDE DEF n
    <2>3. frames[n].vals \in Seq(S) /\ a \in S
      BY <1>1, <2>2 DEF Kept, FramesIn, FrameIn, S
    <2>4. vals \in Seq(S)
      BY <2>3, ElementStored DEF Stored
    <2>5. frames' = [low EXCEPT ![n].vals = vals]
      <3>1. low[n] = frames[n] /\ DOMAIN low = 1 .. n
        <4>1. IsSeq(low) /\ Len(low) = n /\ \A i \in 1 .. n : low[i] = frames[i]
          BY <1>1, <2>2, LowerIn DEF Fits, Kept
        <4> QED BY <2>2, <4>1, IsSeqLen
      <3> HIDE DEF low
      <3> QED BY <2>1, <2>2, <3>1
    <2> HIDE DEF vals
    <2>6. FramesIn(frames', S)
      BY <1>1, <2>2, <2>4, <2>5, PoppedIn DEF Fits, Kept
    <2>7. EnvsIn(envs', S)
      BY <1>1, <2>1, <2>3, SlotIn DEF Fits, Kept
    <2>8. KeptNext(S)
      BY <1>1, <2>1, <2>6, <2>7 DEF Kept, KeptNext
    <2> QED BY <1>1, <2>8 DEF S, ValuesHold, ValuesNext
  <1> QED BY <1>3, <1>4

LEMMA ReturnsHeld ==
  ASSUME CodeFits, AllRegistered, NEW own, Fits(own), AllSized, ValuesHold,
         RReturn \/ RFallOff \/ SReturnAcross
  PROVE  ValuesNext
  <1> DEFINE S == Held(Len(arrays))
  <1>1. None \in S /\ Kept(S) /\ Len(arrays) \in Nat
    <2>1. Len(arrays) \in Nat
      BY IsSeqLen DEF ValuesHold, ArraysHold
    <2> QED BY <2>1, HeldPlain DEF ValuesHold
  <1>2. CASE RReturn
    <2>1. /\ Running("register") /\ Top.ip < Len(RFunction.code) /\ RIn.op = "RETURN"
          /\ frames # <<>> /\ Deliver(IF RFound THEN R(RIn.a) ELSE None, Top.dst)
      BY <1>2 DEF RReturn, RAt, Running
    <2>2. RIn.a.index \in Reads(RIn)
      BY <2>1 DEF Reads, BinaryOps, ArithmeticOps, ComparisonOps, UnaryOps
    <2>3. R(RIn.a) \in S
      BY <2>1, <2>2, RegisterOperands DEF R
    <2> HIDE DEF S
    <2>4. (IF RFound THEN R(RIn.a) ELSE None) \in S
      BY <1>1, <2>3
    <2> QED BY <2>1, <2>4, DeliverHeld DEF S
  <1>3. CASE RFallOff
    <2>1. frames # <<>> /\ Deliver(None, Top.dst)
      BY <1>3 DEF RFallOff, Running
    <2> QED BY <1>1, <2>1, DeliverHeld
  <1>4. CASE SReturnAcross
    <2>1. Running("stack") /\ frames # <<>> /\ Deliver(ReturnValue, Top.dst)
      BY <1>4 DEF SReturnAcross, SFinishes, SAt, Running
    <2> HIDE DEF S
    <2>2. ReturnValue \in S
      BY <1>1, <2>1, ReturnedIn DEF Kept
    <2> QED BY <2>1, <2>2, DeliverHeld DEF S
  <1> QED BY <1>2, <1>3, <1>4

LEMMA MachineHeld ==
  ASSUME CodeFits, AllRegistered, ParametersKept, NEW own, Fits(own), AllSized, ValuesHold,
         MachineNext
  PROVE  ValuesNext
  BY StackHeld, RegisterSimpleHeld, RegisterStoreHeld, RegisterCallsHeld, ReturnsHeld, AbortHeld
     DEF MachineNext, RegisterNext

\* The host begins with one activation.
LEMMA RunHeld ==
  ASSUME CodeFits, ParametersKept, NEW own, Fits(own), ValuesHold,
         NEW vm, NEW name \in DOMAIN functions_v2, Run(vm, name)
  PROVE  ValuesNext
  <1> DEFINE T == Held(Len(arrays'))
             f == IF vm = "register" THEN functions_v2[name] ELSE instructions[name]
             m == IF vm = "register" THEN f.frame_size ELSE f.size
             slots == Bind(f, m, <<>>)
             vals == IF vm = "register" THEN slots ELSE <<>>
             h == NewFrame(vm, name, Len(envs) + 1, vals, <<>>)
  <1>1. /\ arrays' = arrays \o Rest(f, <<>>)
        /\ envs' = Append(envs, [parent |-> 0, slots |-> slots])
        /\ frames' = <<h>> /\ UNCHANGED <<globals, out, result>>
    BY DEF Run
  <1>2. h.vals = vals /\ h.args = <<>>
    <2> HIDE DEF vals
    <2> QED BY DEF NewFrame
  <1>3. Parameters(f) /\ m \in Nat
    <2>1. name \in DOMAIN instructions /\ functions_v2[name].frame_size \in Nat
      BY DEF CodeFits, TranslatedFits
    <2>2. /\ Parameters(functions_v2[name]) /\ Parameters(instructions[name])
          /\ instructions[name].size \in Nat
      BY <2>1, CheckedParameters DEF ParametersKept
    <2> QED BY <2>1, <2>2
  <1>4. vals \in {slots, <<>>}
    OBVIOUS
  <1>5. <<>> \in Seq(Held(Len(arrays))) /\ 0 \in 0 .. Len(envs)
    BY EmptySeq, IsSeqLen DEF Fits, EnvsFit
  <1> HIDE DEF f, m, h, vals
  <1>6. /\ slots \in Seq(T) /\ <<>> \in Seq(T)
        /\ FramesIn(frames', T) => ValuesNext
    BY <1>1, <1>3, <1>5, Begun
  <1> HIDE DEF slots, T
  <1>7. FrameIn(h, T)
    BY <1>2, <1>4, <1>6 DEF FrameIn
  <1>8. Len(frames') = 1 /\ frames'[1] = h
    BY <1>1
  <1>9. FramesIn(frames', T)
    BY <1>7, <1>8 DEF FramesIn
  <1> QED BY <1>6, <1>9

\* A step of the machines ends the run or goes on with it.
LEMMA MachineStatus ==
  ASSUME MachineNext
  PROVE  status' \in {status, "error", "done"}
  <1>1. Abort => status' \in {status, "error"}
    BY DEF Abort, CallAgain
  <1>2. \A a, dst : Deliver(a, dst) => status' \in {status, "done"}
    BY DEF Deliver
  <1>3. \A a : RWrite(a) => UNCHANGED status
    BY DEF RWrite
  <1>4. \A t : RGoto(t) => UNCHANGED status
    BY DEF RGoto
  <1>5. \A t : RJumping(t) => UNCHANGED status \/ Abort
    BY <1>4 DEF RJumping
  <1>6. \A vals : Resume(vals) => UNCHANGED status
    BY DEF Resume
  <1>7. \A name, parent, n, how : SActivate(name, parent, n, how) => UNCHANGED status \/ Abort
    BY DEF SActivate
  <1>8. RegisterNext => status' \in {status, "error", "done"}
    <2>1. RMove \/ RStoreGlobal \/ RBinary \/ RUnary \/ RGetProp => UNCHANGED status \/ Abort
      BY <1>3, <1>4 DEF RMove, RStoreGlobal, RBinary, RUnary, RGetProp
    <2>2. RStoreProp \/ RMakeClosure \/ RJump \/ RJumpIfFalse => UNCHANGED status \/ Abort
      BY <1>3, <1>4, <1>5 DEF RStoreProp, RMakeClosure, RJump, RJumpIfFalse
    <2>3. RCallFunction \/ RCallBuiltin \/ RCallMissing \/ RCallDynamic => UNCHANGED status \/ Abort
      BY <1>3 DEF RCallFunction, RCallBuiltin, RCallMissing, RCallDynamic
    <2>4. RReturn \/ RFallOff => status' \in {status, "done"}
      BY <1>2 DEF RReturn, RFallOff
    <2> QED BY <1>1, <2>1, <2>2, <2>3, <2>4 DEF RegisterNext
  <1>9. StackNext => status' \in {status, "error"}
    <2>1. SLoadLocal \/ SStoreLocal \/ SLoadGlobal \/ SStoreGlobal => UNCHANGED status \/ Abort
      BY <1>6 DEF SLoadLocal, SStoreLocal, SLoadGlobal, SStoreGlobal
    <2>2. SPush \/ SPop \/ SScope \/ SBinary \/ SUnary => UNCHANGED status \/ Abort
      BY <1>6 DEF SPush, SPop, SScope, SBinary, SUnary
    <2>3. SGetProp \/ SStoreProp \/ SMakeClosure \/ SJump \/ SJumpIfFalse => UNCHANGED status \/ Abort
      BY <1>6 DEF SGetProp, SStoreProp, SMakeClosure, SJump, SJumpIfFalse
    <2>4. SCallBuiltin \/ SCallFunction \/ SCallMissing \/ SCallDynamic => UNCHANGED status \/ Abort
      BY <1>6, <1>7 DEF SCallBuiltin, SCallFunction, SCallMissing, SCallDynamic
    <2>5. SReturn \/ SReturnAgain => UNCHANGED status \/ Abort
      BY DEF SReturn, SReturnAgain
    <2> QED BY <1>1, <2>1, <2>2, <2>3, <2>4, <2>5 DEF StackNext
  <1>10. SReturnAcross => status' \in {status, "done"}
    BY <1>2 DEF SReturnAcross
  <1> QED BY <1>8, <1>9, <1>10 DEF MachineNext

-----------------------------------------------------------------------------
(* Values through the pipeline                                             *)

VInv ==
  /\ ValuesHold /\ ParametersKept
  /\ status \in {"idle", "running", "done", "error"}
  /\ phase \in {"load", "translate", "init", "main", "end"}

LEMMA ValuesPrimed == ValuesNext => ValuesHold'
  BY DEF ValuesNext, ValuesHold, KeptNext, Kept, ArraysHold, ArrayHolds, GlobalsIn, EnvsIn,
         FramesIn, FrameIn

LEMMA ParametersPrimed ==
  ASSUME ParametersKept, UNCHANGED functions_v2
  PROVE  ParametersKept'
  BY DEF ParametersKept, Parameters

\* Nothing of it is disturbed.
LEMMA ValuesUnchanged ==
  ASSUME VInv, UNCHANGED <<arrays, globals, envs, frames, out, result>>
  PROVE  ValuesHold'
  <1>1. ValuesNext
    BY DEF VInv, ValuesHold, ValuesNext, Kept, KeptNext
  <1> QED BY <1>1, ValuesPrimed

LEMMA ValuesInit == Init => VInv
  <1> SUFFICES ASSUME Init PROVE VInv
    OBVIOUS
  <1>1. /\ functions_v2 = <<>> /\ globals = <<>> /\ arrays = <<>> /\ envs = <<>> /\ frames = <<>>
        /\ out = <<>> /\ result = None /\ status \in {"idle", "error"} /\ phase \in {"load", "end"}
    BY DEF Init
  <1>2. <<>> \in Seq({}) /\ Len(<<>>) = 0 /\ DOMAIN <<>> = {}
    OBVIOUS
  <1>3. IsSeq(<<>>)
    BY <1>2, SeqIsSeq
  <1>4. ArraysHold(arrays)
    BY <1>1, <1>2, <1>3 DEF ArraysHold
  <1>5. None \in Held(0)
    BY HeldPlain
  <1>6. Kept(Held(0))
    BY <1>1, <1>2, <1>5, EmptySeq DEF Kept, GlobalsIn, EnvsIn, FramesIn
  <1>7. ParametersKept
    BY <1>1, <1>2 DEF ParametersKept
  <1> QED BY <1>1, <1>2, <1>4, <1>6, <1>7 DEF VInv, ValuesHold

LEMMA ValuesRegister == ASSUME PInv, VInv, Register PROVE VInv'
  <1> DEFINE f == instructions[Chosen]
             new == [code |-> code, frame_size |-> max_slot, params |-> f.params,
                     variadic |-> f.variadic]
  <1>1. /\ phase = "translate" /\ phase' = "load"
        /\ functions_v2' = With(functions_v2, Chosen, new)
        /\ UNCHANGED <<arrays, globals, envs, frames, out, result, status>>
    BY DEF Register, objects
  <1>2. Translating /\ CodeFits
    BY <1>1, PromisedCode DEF PInv
  <1>3. Chosen \in DOMAIN instructions
    BY <1>2 DEF Translating, Chosen, Untranslated
  <1>4. Parameters(f)
    BY <1>2, <1>3, CheckedParameters
  <1>5. new.params = f.params /\ new.variadic = f.variadic
    OBVIOUS
  <1> HIDE DEF f, new
  <1>6. Parameters(new)
    BY <1>4, <1>5 DEF Parameters
  <1>7. /\ DOMAIN functions_v2' = DOMAIN functions_v2 \cup {Chosen}
        /\ \A n \in DOMAIN functions_v2' :
             functions_v2'[n] = IF n = Chosen THEN new ELSE functions_v2[n]
    BY <1>1 DEF With
  <1>8. \A n \in DOMAIN functions_v2' : Parameters(functions_v2'[n])
    BY <1>6, <1>7 DEF VInv, ParametersKept
  <1>9. ParametersKept'
    BY <1>8 DEF ParametersKept, Parameters
  <1> QED BY <1>1, <1>9, ValuesUnchanged DEF VInv

LEMMA ValuesExecute == ASSUME PInv, RegInv, VInv, Execute PROVE VInv'
  <1>1. MachineNext /\ status = "running" /\ UNCHANGED phase
    BY MachineRuns DEF Execute
  <1>2. CodeFits
    BY <1>1, PromisedCode DEF PInv
  <1>3. PICK own : Fits(own)
    BY DEF PInv
  <1>4. UNCHANGED functions_v2
    BY <1>1, <1>2, <1>3, MachineHolds DEF FitsNext
  <1>5. ValuesNext
    BY <1>1, <1>2, <1>3, MachineHeld DEF RegInv, VInv
  <1>6. status' \in {"running", "error", "done"}
    BY <1>1, MachineStatus
  <1> QED BY <1>1, <1>4, <1>5, <1>6, ValuesPrimed, ParametersPrimed DEF VInv

LEMMA ValuesRunning ==
  ASSUME PInv, VInv, phase # "end", NEW vm, NEW name \in DOMAIN functions_v2, Run(vm, name)
  PROVE  ValuesHold' /\ ParametersKept' /\ status' = "running"
  <1>1. CodeFits
    BY PromisedCode
  <1>2. PICK own : Fits(own)
    BY DEF PInv
  <1>3. ValuesNext
    BY <1>1, <1>2, RunHeld DEF VInv
  <1>4. UNCHANGED functions_v2 /\ status' = "running"
    BY DEF Run, program
  <1> QED BY <1>3, <1>4, ValuesPrimed, ParametersPrimed DEF VInv

LEMMA ValuesStep == PInv /\ RegInv /\ VInv /\ [Next]_vars => VInv'
  <1> SUFFICES ASSUME PInv, RegInv, VInv, [Next]_vars PROVE VInv'
    OBVIOUS
  <1>1. ASSUME UNCHANGED runtime, phase' \in {"load", "translate", "init", "main", "end"}
        PROVE  VInv'
    <2>1. UNCHANGED <<functions_v2, status, arrays, globals, envs, frames, out, result>>
      BY <1>1 DEF runtime, program, objects
    <2> QED BY <1>1, <2>1, ValuesUnchanged, ParametersPrimed DEF VInv
  <1>2. CASE Load \/ Translate \/ Finish
    BY <1>1, <1>2 DEF Load, Translate, Finish, VInv
  <1>3. CASE UNCHANGED vars
    BY <1>1, <1>3 DEF vars, VInv
  <1>4. CASE RunInit
    <2>1. /\ phase = "load" /\ phase' = "init" /\ Untranslated = {}
          /\ \/ InitName \in DOMAIN instructions /\ Run("register", InitName)
             \/ UNCHANGED runtime
      BY <1>4 DEF RunInit
    <2>2. InitName \in DOMAIN instructions => InitName \in DOMAIN functions_v2
      BY <2>1 DEF Untranslated
    <2> QED BY <1>1, <2>1, <2>2, ValuesRunning DEF VInv
  <1>5. CASE RunMain
    <2>1. phase = "init" /\ phase' = "main" /\ Run(entry, "main")
      BY <1>5 DEF RunMain
    <2>2. "main" \in DOMAIN functions_v2
      BY <2>1, PromisedCode DEF PInv
    <2> QED BY <2>1, <2>2, ValuesRunning DEF VInv
  <1> QED BY <1>2, <1>3, <1>4, <1>5, ValuesRegister, ValuesExecute DEF Next, Done

LEMMA ValuesTyped == PInv /\ VInv => TypeOK
  <1> SUFFICES ASSUME PInv, VInv PROVE TypeOK
    OBVIOUS
  <1> DEFINE S == Held(Len(arrays))
  <1>1. PICK own : Fits(own)
    BY DEF PInv
  <1>2. S \subseteq Value
    BY DEF Held
  <1>3. Kept(S)
    BY DEF VInv, ValuesHold
  <1> HIDE DEF S
  <1>4. Kept(Value)
    BY <1>2, <1>3, KeptMore DEF Kept
  <1>5. DOMAIN functions_v2 \subseteq DOMAIN instructions
    BY DEF PInv, TranslatedFits
  <1>6. DOMAIN frames = 1 .. Len(frames) /\ DOMAIN envs = 1 .. Len(envs)
        /\ DOMAIN own = 1 .. Len(envs)
    BY <1>1, IsSeqLen DEF Fits, FramesFit, EnvsFit
  <1>7. ASSUME NEW i \in DOMAIN frames
        PROVE  /\ frames[i].vm \in {"register", "stack"} /\ frames[i].fn \in DOMAIN instructions
               /\ frames[i].env \in DOMAIN envs /\ frames[i].vals \in Seq(Value)
    <2>1. \E k : FrameFits(frames[i], k, own)
      BY <1>1, <1>6 DEF Fits, FramesFit
    <2>2. frames[i].vals \in Seq(Value)
      BY <1>4, <1>6 DEF Kept, FramesIn, FrameIn
    <2> QED BY <1>6, <2>1, <2>2 DEF FrameFits
  <1>8. \A e \in DOMAIN envs : envs[e].parent < e /\ envs[e].slots \in Seq(Value)
    BY <1>4, <1>6 DEF Kept, EnvsIn
  <1> QED BY <1>4, <1>5, <1>7, <1>8 DEF TypeOK, VInv, Kept

\* What a program whose code keeps the parser's promises can get hold of stays a
\* value all through a run: an array that a slot, an operand, a global, an array or the output names exists.
THEOREM ValuesInvariant == Spec => [](promised => VInv)
  <1>1. /\ promised => PInv /\ RegInv /\ VInv
        /\ [Next]_vars
        => (promised => VInv)'
    BY ValuesStep, PromiseStays
  <1> QED BY <1>1, ValuesInit, RegistersInvariant, PipelineInvariant, PTL DEF Spec

\* Pipeline!TypeOK of all code that keeps the parser's promises: what the
\* machines hold in slots, registers, operands and globals, print and return are
\* values, an environment lies in one made before it, and an activation is of a
\* function and an environment that there are.
THEOREM PipelineTyped == Spec => [](promised => TypeOK)
  BY ValuesTyped, ValuesInvariant, PipelineInvariant, PTL

-----------------------------------------------------------------------------
(* A call made again ends in an error                                      *)

\* Only the stack machine calls by name in a way that its cache has to do with.
CalledOnStack(fs) ==
  \A i \in 1 .. Len(fs) : fs[i].site # "other" => i > 1 /\ fs[i - 1].vm = "stack"

\* A second attempt is under way.
Retrying(fs) == \E i \in 2 .. Len(fs) : fs[i].site = "again"

Lasts ==
  /\ CalledOnStack(frames')
  /\ Retrying(frames) => Retrying(frames') \/ status' = "error"
  /\ Len(frames') = 0 \/ UNCHANGED status

\* The n lower activations stay where they are, and perhaps there is one more.
LEMMA LowerLast ==
  ASSUME NEW own, Fits(own), CalledOnStack(frames), NEW n \in 0 .. Len(frames),
         Len(frames') \in {n, n + 1},
         \A i \in 1 .. n : frames'[i].site = frames[i].site /\ frames'[i].vm = frames[i].vm,
         Len(frames') = n + 1 => (frames'[n + 1].site # "other" => n > 0 /\ frames[n].vm = "stack"),
         Len(frames') = 0 \/ UNCHANGED status,
         Retrying(frames) => \E i \in 2 .. n : frames[i].site = "again"
  PROVE  Lasts
  <1>1. Len(frames) \in Nat /\ n \in Nat
    BY IsSeqLen DEF Fits, FramesFit
  <1>2. ASSUME NEW i \in 1 .. Len(frames'), frames'[i].site # "other"
        PROVE  i > 1 /\ frames'[i - 1].vm = "stack"
    <2>1. CASE i \in 1 .. n
      <3>1. frames[i].site # "other" /\ i \in 1 .. Len(frames)
        BY <1>1, <1>2, <2>1
      <3>2. i > 1 /\ frames[i - 1].vm = "stack"
        BY <3>1 DEF CalledOnStack
      <3>3. i - 1 \in 1 .. n
        BY <1>1, <2>1, <3>2
      <3> QED BY <3>2, <3>3
    <2>2. CASE i \notin 1 .. n
      <3>1. Len(frames') = n + 1 /\ i = n + 1
        BY <1>1, <2>2
      <3>2. n > 0 /\ frames[n].vm = "stack"
        BY <1>2, <3>1
      <3>3. n \in 1 .. n /\ i - 1 = n /\ i > 1
        BY <1>1, <3>1, <3>2
      <3> QED BY <3>2, <3>3
    <2> QED BY <2>1, <2>2
  <1>3. ASSUME Retrying(frames) PROVE Retrying(frames')
    <2>1. PICK i \in 2 .. n : frames[i].site = "again"
      BY <1>3
    <2>2. i \in 1 .. n /\ i \in 2 .. Len(frames')
      BY <1>1
    <2> QED BY <2>1, <2>2 DEF Retrying
  <1> QED BY <1>2, <1>3 DEF Lasts, CalledOnStack

\* All activations stay.
LEMMA ContinueLasts ==
  ASSUME NEW own, Fits(own), CalledOnStack(frames), frames # <<>>, NEW vals, NEW k,
         frames' = Continue(vals, k), UNCHANGED status
  PROVE  Lasts
  <1> DEFINE n == Len(frames)
             g == OnTop(vals, k)
  <1>1. FramesFit(frames, own) /\ IsSeq(frames) /\ n \in Nat \ {0} /\ Top = frames[n]
    BY TopFits DEF Fits, FramesFit, Top
  <1>2. frames' = Replaced(frames, n, g) /\ g.vm = Top.vm /\ g.site = Top.site
    BY <1>1, Continued
  <1> HIDE DEF g
  <1>3. Len(frames') = n /\ \A i \in 1 .. n : frames'[i] = IF i = n THEN g ELSE frames[i]
    BY <1>1, <1>2, IsSeqReplaced
  <1>4. \A i \in 1 .. n : frames'[i].site = frames[i].site /\ frames'[i].vm = frames[i].vm
    BY <1>1, <1>2, <1>3
  <1>5. n \in 0 .. Len(frames) /\ Len(frames') # n + 1
    BY <1>1, <1>3
  <1>6. Retrying(frames) => \E i \in 2 .. n : frames[i].site = "again"
    BY DEF Retrying
  <1> HIDE DEF n
  <1> QED BY <1>3, <1>4, <1>5, <1>6, LowerLast

\* One more comes on top of them.
LEMMA CallLasts ==
  ASSUME NEW own, Fits(own), CalledOnStack(frames), frames # <<>>, NEW vals, NEW k, NEW h,
         frames' = Append(Continue(vals, k), h), UNCHANGED status,
         h.site # "other" => Top.vm = "stack"
  PROVE  Lasts
  <1> DEFINE n == Len(frames)
             g == OnTop(vals, k)
             low == Continue(vals, k)
  <1>1. FramesFit(frames, own) /\ IsSeq(frames) /\ n \in Nat \ {0} /\ Top = frames[n]
    BY TopFits DEF Fits, FramesFit, Top
  <1>2. low = Replaced(frames, n, g) /\ g.vm = Top.vm /\ g.site = Top.site
    BY <1>1, Continued
  <1> HIDE DEF g, low
  <1>3. IsSeq(low) /\ Len(low) = n /\ \A i \in 1 .. n : low[i] = IF i = n THEN g ELSE frames[i]
    BY <1>1, <1>2, IsSeqReplaced
  <1>4. Len(frames') = n + 1 /\ frames'[n + 1] = h /\ \A i \in 1 .. n : frames'[i] = low[i]
    BY <1>3, IsSeqAppend DEF low
  <1>5. \A i \in 1 .. n : frames'[i].site = frames[i].site /\ frames'[i].vm = frames[i].vm
    BY <1>1, <1>2, <1>3, <1>4
  <1>6. /\ n \in 0 .. Len(frames) /\ n > 0
        /\ frames'[n + 1].site # "other" => frames[n].vm = "stack"
    BY <1>1, <1>4
  <1>7. Retrying(frames) => \E i \in 2 .. n : frames[i].site = "again"
    BY DEF Retrying
  <1> HIDE DEF n
  <1> QED BY <1>4, <1>5, <1>6, <1>7, LowerLast

\* The topmost one has ended, the one below it goes on.
LEMMA PoppedLasts ==
  ASSUME NEW own, Fits(own), CalledOnStack(frames), NEW n \in 1 .. Len(frames), NEW vals,
         n = Len(frames) - 1, frames' = [SubSeq(frames, 1, n) EXCEPT ![n].vals = vals],
         UNCHANGED status, Retrying(frames) => Top.site # "again"
  PROVE  Lasts
  <1> DEFINE low == SubSeq(frames, 1, n)
             g == [low[n] EXCEPT !.vals = vals]
  <1>1. IsSeq(frames) /\ Len(frames) \in Nat /\ n \in Nat /\ n > 0 /\ n \in 0 .. Len(frames)
    BY IsSeqLen DEF Fits, FramesFit
  <1>2. DOMAIN frames[n] = {"vm", "fn", "ip", "env", "vals", "dst", "args", "site"}
    BY DEF Fits, FramesFit, FrameFits
  <1>3. IsSeq(low) /\ Len(low) = n /\ \A i \in 1 .. n : low[i] = frames[i]
    BY <1>1, IsSeqFront
  <1>4. DOMAIN low = 1 .. n /\ n \in 1 .. n
    BY <1>1, <1>3, IsSeqLen
  <1> HIDE DEF low
  <1>5. frames' = Replaced(low, n, g)
    BY <1>4 DEF Replaced, low
  <1>6. g.vm = frames[n].vm /\ g.site = frames[n].site
    BY <1>2, <1>3, <1>4
  <1> HIDE DEF g
  <1>7. Len(frames') = n /\ \A i \in 1 .. n : frames'[i] = IF i = n THEN g ELSE low[i]
    BY <1>3, <1>5, IsSeqReplaced
  <1>8. \A i \in 1 .. n : frames'[i].site = frames[i].site /\ frames'[i].vm = frames[i].vm
    BY <1>3, <1>6, <1>7
  <1>9. ASSUME Retrying(frames) PROVE \E i \in 2 .. n : frames[i].site = "again"
    <2>1. PICK i \in 2 .. Len(frames) : frames[i].site = "again"
      BY <1>9 DEF Retrying
    <2>2. i # Len(frames)
      BY <1>9, <2>1 DEF Top
    <2>3. i \in 2 .. n
      BY <1>1, <2>2
    <2> QED BY <2>1, <2>3
  <1>10. Len(frames') \in {n, n + 1} /\ Len(frames') # n + 1
    <2>1. Len(frames') = n
      BY <1>7
    <2> DEFINE k == Len(frames')
    <2>2. k = n /\ n \in Nat
      BY <1>1, <2>1
    <2> HIDE DEF k
    <2>3. k \in {n, n + 1} /\ k # n + 1
      BY <2>2
    <2> QED BY <2>3 DEF k
  <1>11. Retrying(frames) => \E i \in 2 .. n : frames[i].site = "again"
    BY <1>9
  <1>12. n \in 0 .. Len(frames)
    BY <1>1
  <1> QED BY <1>8, <1>10, <1>11, <1>12, LowerLast

\* An error ends all, or begins another second attempt.
LEMMA AbortLasts ==
  ASSUME NEW own, Fits(own), CalledOnStack(frames), Abort
  PROVE  Lasts
  <1> DEFINE I == {i \in DOMAIN frames : frames[i].site = "cached"}
  <1>1. IsSeq(frames) /\ Len(frames) \in Nat /\ DOMAIN frames = 1 .. Len(frames)
    BY IsSeqLen DEF Fits, FramesFit
  <1>2. CASE I = {}
    <2>1. frames' = <<>> /\ status' = "error"
      BY <1>2 DEF Abort
    <2> QED BY <2>1 DEF Lasts, CalledOnStack
  <1>3. CASE I # {}
    <2> DEFINE i == CHOOSE i \in I : \A j \in I : j <= i
    <2>1. CallAgain(i)
      BY <1>3 DEF Abort
    <2>2. i \in I
      <3>1. I \in SUBSET (1 .. Len(frames))
        BY <1>1
      <3> HIDE DEF I
      <3> QED BY <1>1, <1>3, <3>1, LastOf
    <2> HIDE DEF i
    <2>3. i \in 1 .. Len(frames) /\ frames[i].site = "cached"
      BY <1>1, <2>2
    <2>4. i > 1 /\ frames[i - 1].vm = "stack"
      BY <2>3 DEF CalledOnStack
    <2> DEFINE h == [NewFrame("stack", frames[i].fn, Len(envs) + 1, <<>>, frames[i].args)
                       EXCEPT !.site = "again"]
               low == SubSeq(frames, 1, i - 1)
    <2>5. frames' = Append(low, h) /\ UNCHANGED status
      BY <2>1 DEF CallAgain
    <2>6. h.site = "again"
      BY DEF NewFrame
    <2> HIDE DEF h
    <2>7. IsSeq(low) /\ Len(low) = i - 1 /\ \A j \in 1 .. i - 1 : low[j] = frames[j]
      <3>1. i - 1 \in 0 .. Len(frames)
        BY <1>1, <2>3
      <3> QED BY <1>1, <3>1, IsSeqFront
    <2> HIDE DEF low
    <2>8. /\ Len(frames') = (i - 1) + 1 /\ frames'[(i - 1) + 1] = h
          /\ \A j \in 1 .. i - 1 : frames'[j] = low[j]
      BY <2>5, <2>7, IsSeqAppend
    <2>9. /\ Len(frames') = i /\ frames'[i] = h /\ \A j \in 1 .. i - 1 : frames'[j] = frames[j]
      BY <1>1, <2>3, <2>7, <2>8
    <2>10. Retrying(frames')
      <3>1. i \in 2 .. Len(frames')
        BY <1>1, <2>3, <2>4, <2>9
      <3> QED BY <2>6, <2>9, <3>1 DEF Retrying
    <2>11. ASSUME NEW j \in 1 .. Len(frames'), frames'[j].site # "other"
           PROVE  j > 1 /\ frames'[j - 1].vm = "stack"
      <3>1. i - 1 \in 1 .. i - 1
        BY <1>1, <2>3, <2>4
      <3>2. CASE j = i
        BY <2>4, <2>9, <3>1, <3>2
      <3>3. CASE j # i
        <4>1. j \in 1 .. i - 1 /\ j \in 1 .. Len(frames)
          BY <1>1, <2>3, <2>9, <3>3
        <4>2. j > 1 /\ frames[j - 1].vm = "stack"
          BY <2>9, <2>11, <4>1 DEF CalledOnStack
        <4>3. j - 1 \in 1 .. i - 1
          BY <1>1, <2>3, <4>1, <4>2
        <4> QED BY <2>9, <4>2, <4>3
      <3> QED BY <3>2, <3>3
    <2> QED BY <2>5, <2>10, <2>11 DEF Lasts, CalledOnStack
  <1> QED BY <1>2, <1>3

\* What a step of the machines does to the activations, if no activation ends.
GoesOnHere == \E vals, k : frames' = Continue(vals, k) /\ UNCHANGED status
CallsHere ==
  \E vals, k, h : /\ frames' = Append(Continue(vals, k), h) /\ UNCHANGED status
                  /\ h.site # "other" => Top.vm = "stack"

LEMMA StackShape ==
  ASSUME StackNext
  PROVE  Abort \/ GoesOnHere \/ CallsHere \/ SReturn
  <1>1. \A vals : Resume(vals) => GoesOnHere
    BY DEF Resume, GoesOnHere
  <1>2. ASSUME NEW name, NEW parent, NEW n, NEW how, SActivate(name, parent, n, how),
               Running("stack")
        PROVE  Abort \/ CallsHere
    <2> DEFINE f == instructions[name]
               h == [NewFrame("stack", name, Len(envs) + 1, <<>>, Tops(SIn.argc))
                       EXCEPT !.site = how]
    <2>1. CASE f.variadic \/ SIn.argc <= f.params
      <3>1. frames' = Append(Continue(Under(n), Top.ip + 1), h) /\ UNCHANGED status
        BY <1>2, <2>1 DEF SActivate
      <3>2. Top.vm = "stack"
        BY <1>2 DEF Running
      <3> HIDE DEF h
      <3> QED BY <3>1, <3>2 DEF CallsHere
    <2>2. CASE ~(f.variadic \/ SIn.argc <= f.params)
      BY <1>2, <2>2 DEF SActivate
    <2> QED BY <2>1, <2>2
  <1>3. CASE Underflow
    BY <1>3 DEF StackNext
  <1>4. CASE SStoreLocal \/ SLoadLocal \/ SLoadGlobal \/ SStoreGlobal
    BY <1>1, <1>4 DEF SStoreLocal, SLoadLocal, SLoadGlobal, SStoreGlobal
  <1>5. CASE SPush \/ SPop \/ SScope \/ SGetProp
    BY <1>1, <1>5 DEF SPush, SPop, SScope, SGetProp
  <1>6. CASE SBinary \/ SUnary \/ SStoreProp
    BY <1>1, <1>6 DEF SBinary, SUnary, SStoreProp
  <1>7. CASE SMakeClosure
    BY <1>1, <1>7 DEF SMakeClosure
  <1>8. CASE SJump \/ SJumpIfFalse
    BY <1>8 DEF SJump, SJumpIfFalse, GoesOnHere
  <1>9. CASE SCallBuiltin
    BY <1>1, <1>9 DEF SCallBuiltin
  <1>10. CASE SCallFunction \/ SCallMissing \/ SCallDynamic
    BY <1>2, <1>10 DEF SCallFunction, SCallMissing, SCallDynamic, SAt
  <1>11. CASE SReturn \/ SReturnAgain
    BY <1>11 DEF SReturnAgain
  <1> QED BY <1>3, <1>4, <1>5, <1>6, <1>7, <1>8, <1>9, <1>10, <1>11 DEF StackNext

LEMMA RegisterShape ==
  ASSUME RegisterNext
  PROVE  Abort \/ GoesOnHere \/ CallsHere \/ RReturn \/ RFallOff
  <1>1. \A a : RWrite(a) => GoesOnHere
    BY DEF RWrite, GoesOnHere
  <1>2. \A k : RGoto(k) => GoesOnHere
    BY DEF RGoto, GoesOnHere
  <1>3. \A t : RJumping(t) => GoesOnHere \/ Abort
    BY <1>2 DEF RJumping
  <1>4. CASE RRefused /\ Abort
    BY <1>4
  <1>5. CASE RMove \/ RGetProp \/ RMakeClosure \/ RCallBuiltin
    BY <1>1, <1>5 DEF RMove, RGetProp, RMakeClosure, RCallBuiltin
  <1>6. CASE RBinary \/ RUnary
    BY <1>1, <1>6 DEF RBinary, RUnary
  <1>7. CASE RStoreGlobal
    BY <1>2, <1>7 DEF RStoreGlobal
  <1>8. CASE RStoreProp
    <2>1. UNCHANGED status /\ \E vals : frames' = Continue(vals, Top.ip + 1)
      BY <1>8 DEF RStoreProp
    <2> QED BY <2>1 DEF GoesOnHere
  <1>9. CASE RJump \/ RJumpIfFalse
    BY <1>2, <1>3, <1>9 DEF RJump, RJumpIfFalse
  <1>10. CASE RCallMissing
    BY <1>10 DEF RCallMissing
  <1>11. CASE RCallFunction
    <2> DEFINE f == functions_v2[RIn.name]
               slots == Bind(f, f.frame_size, RArgs)
               h == [NewFrame("register", RIn.name, Len(envs) + 1, slots, RArgs)
                       EXCEPT !.dst = RIn.dst]
    <2>1. frames' = Append(Continue(Top.vals, Top.ip + 1), h) /\ UNCHANGED status
      BY <1>11 DEF RCallFunction, RSuspend
    <2>2. h.site = "other"
      <3> HIDE DEF slots
      <3> QED BY DEF NewFrame
    <2> HIDE DEF h
    <2> QED BY <2>1, <2>2 DEF CallsHere
  <1>12. CASE RCallDynamic
    <2> DEFINE callee == R(RIn.a)
               c == closures[callee.v]
               f == instructions[c.name]
               h == [NewFrame("stack", c.name, Len(envs) + 1, <<>>, RArgs) EXCEPT !.dst = RIn.dst]
    <2>1. CASE ~(Callable(callee) /\ (f.variadic \/ RIn.argc <= f.params))
      BY <1>12, <2>1 DEF RCallDynamic
    <2>2. CASE Callable(callee) /\ (f.variadic \/ RIn.argc <= f.params)
      <3>1. frames' = Append(Continue(Top.vals, Top.ip + 1), h) /\ UNCHANGED status
        BY <1>12, <2>2 DEF RCallDynamic, RSuspend
      <3>2. h.site = "other"
        BY DEF NewFrame
      <3> HIDE DEF h
      <3> QED BY <3>1, <3>2 DEF CallsHere
    <2> QED BY <2>1, <2>2
  <1> QED BY <1>4, <1>5, <1>6, <1>7, <1>8, <1>9, <1>10, <1>11, <1>12 DEF RegisterNext

LEMMA ReturnLasts ==
  ASSUME CodeFits, NEW own, Fits(own), CalledOnStack(frames), SReturn
  PROVE  Lasts
  <1> DEFINE n == Len(frames) - 1
             low == SubSeq(frames, 1, n)
             vals == Append(low[n].vals, ReturnValue)
  <1>1. /\ Running("stack") /\ n > 0 /\ Top.site # "again" /\ UNCHANGED status
        /\ frames' = [low EXCEPT ![n].vals = vals]
    BY DEF SReturn, SFinishes, SAt, Front
  <1>2. Len(frames) \in Nat \ {0}
    BY <1>1, StackTop
  <1>3. n \in 1 .. Len(frames)
    BY <1>1, <1>2
  <1> HIDE DEF vals
  <1> QED BY <1>1, <1>3, PoppedLasts

\* No second attempt is under way on the stack of calls of a function that
\* returns to the register machine, or to the host.
LEMMA DeliverLasts ==
  ASSUME CodeFits, NEW own, Fits(own), CalledOnStack(frames), frames # <<>>,
         NEW a, NEW dst, Deliver(a, dst),
         Len(frames) > 1 => frames[Len(frames) - 1].vm = "register"
  PROVE  Lasts
  <1> DEFINE n == Len(frames) - 1
  <1>1. FramesFit(frames, own) /\ Len(frames) \in Nat \ {0}
    BY TopFits DEF Fits
  <1>2. ~Retrying(frames)
    <2> SUFFICES ASSUME NEW i \in 2 .. Len(frames), frames[i].site = "again" PROVE FALSE
      BY DEF Retrying
    <2>1. i \in 1 .. Len(frames) /\ Len(frames) > 1
      BY <1>1
    <2>2. frames[i - 1].vm = "stack"
      BY <2>1 DEF CalledOnStack
    <2>3. n \in 1 .. Len(frames) /\ i - 1 \in 1 .. n
      BY <1>1
    <2>4. frames[n].vm = "register"
      BY <2>1
    <2> HIDE DEF n
    <2>5. frames[i - 1].vm = "register"
      BY <1>1, <2>3, <2>4 DEF FramesFit
    <2> QED BY <2>2, <2>5
  <1>3. CASE n = 0
    <2>1. frames' = <<>>
      BY <1>3 DEF Deliver
    <2> QED BY <1>2, <2>1 DEF Lasts, CalledOnStack
  <1>4. CASE n # 0
    <2> DEFINE low == SubSeq(frames, 1, n)
               vals == Stored(low[n].vals, dst, a)
    <2>1. frames' = [low EXCEPT ![n].vals = vals] /\ UNCHANGED status
      BY <1>4 DEF Deliver, Stored
    <2>2. n \in 1 .. Len(frames)
      <3> DEFINE m == Len(frames)
      <3>1. m \in Nat /\ m # 0 /\ m - 1 # 0 /\ n = m - 1
        BY <1>1, <1>4
      <3> HIDE DEF m, n
      <3>2. n \in 1 .. m
        BY <3>1
      <3> QED BY <3>2 DEF m
    <2> HIDE DEF vals
    <2> QED BY <1>2, <2>1, <2>2, PoppedLasts
  <1> QED BY <1>3, <1>4

LEMMA MachineLasts ==
  ASSUME CodeFits, NEW own, Fits(own), CalledOnStack(frames), MachineNext, frames # <<>>
  PROVE  Lasts
  <1>1. CASE Abort
    BY <1>1, AbortLasts
  <1>2. CASE GoesOnHere
    BY <1>2, ContinueLasts DEF GoesOnHere
  <1>3. CASE CallsHere
    BY <1>3, CallLasts DEF CallsHere
  <1>4. CASE SReturn
    BY <1>4, ReturnLasts
  <1>5. CASE RReturn \/ RFallOff
    <2>1. Running("register") /\ \E a, dst : Deliver(a, dst)
      BY <1>5 DEF RReturn, RFallOff, RAt
    <2>2. Len(frames) \in Nat /\ \A i \in 1 .. Len(frames) : frames[i].vm = "register"
      BY <2>1, RegisterTop
    <2>3. Len(frames) > 1 => frames[Len(frames) - 1].vm = "register"
      BY <2>2
    <2> QED BY <2>1, <2>3, DeliverLasts
  <1>6. CASE SReturnAcross
    BY <1>6, DeliverLasts DEF SReturnAcross
  <1> QED BY <1>1, <1>2, <1>3, <1>4, <1>5, <1>6, StackShape, RegisterShape DEF MachineNext

\* Once a call has been made again, this attempt is under way, or another one
\* is, or the program has ended in an error.
RetryInv ==
  /\ CalledOnStack(frames)
  /\ "again" \in strayed => status = "error" \/ (status = "running" /\ Retrying(frames))
  /\ phase \in {"load", "translate"} => "again" \notin strayed /\ status # "running"

LEMMA RetryInit == Init => RetryInv
  BY DEF Init, RetryInv, CalledOnStack

LEMMA RetryUnchanged ==
  ASSUME RetryInv, UNCHANGED <<frames, status, strayed>>,
         phase' \in {"load", "translate"} => phase \in {"load", "translate"}
  PROVE  RetryInv'
  BY DEF RetryInv, CalledOnStack, Retrying

LEMMA RetryRun ==
  ASSUME NEW vm, NEW name, Run(vm, name), "again" \notin strayed, strayed' = strayed,
         phase' \notin {"load", "translate"}
  PROVE  RetryInv'
  <1> DEFINE f == IF vm = "register" THEN functions_v2[name] ELSE instructions[name]
             slots == Bind(f, IF vm = "register" THEN f.frame_size ELSE f.size, <<>>)
             vals == IF vm = "register" THEN slots ELSE <<>>
             h == NewFrame(vm, name, Len(envs) + 1, vals, <<>>)
  <1>1. frames' = <<h>>
    BY DEF Run
  <1> HIDE DEF vals
  <1>2. h.site = "other"
    BY DEF NewFrame
  <1> HIDE DEF h
  <1>3. Len(frames') = 1 /\ frames'[1] = h
    BY <1>1
  <1> QED BY <1>2, <1>3 DEF RetryInv, CalledOnStack

LEMMA RetryExecute ==
  ASSUME PInv, RetryInv, Execute
  PROVE  RetryInv'
  <1>1. /\ MachineNext /\ status = "running" /\ frames # <<>>
        /\ phase' = phase /\ phase \notin {"load", "translate"}
        /\ strayed' = strayed \cup Strays
    BY MachineRuns DEF Execute, about, RetryInv
  <1>2. CodeFits
    BY PromisedCode
  <1>3. PICK own : Fits(own)
    BY DEF PInv
  <1>4. Lasts
    BY <1>1, <1>2, <1>3, MachineLasts DEF RetryInv
  <1>5. DOMAIN frames' = 1 .. Len(frames') /\ Len(frames') \in Nat
    <2>1. PICK other : FramesFit(frames', other)
      BY <1>1, <1>2, <1>3, MachineHolds DEF FitsNext
    <2> QED BY <2>1, IsSeqLen DEF FramesFit
  <1>6. ASSUME "again" \in strayed'
        PROVE  status' = "error" \/ (status' = "running" /\ Retrying(frames'))
    <2>1. CASE "again" \in strayed
      <3>1. Retrying(frames') \/ status' = "error"
        BY <1>1, <1>4, <2>1 DEF RetryInv, Lasts
      <3>2. Retrying(frames') => Len(frames') # 0
        BY <1>5 DEF Retrying
      <3> QED BY <1>1, <1>4, <3>1, <3>2 DEF Lasts
    <2>2. CASE "again" \notin strayed
      <3>1. PICK i \in DOMAIN frames' : frames'[i].site = "again"
        BY <1>1, <1>6, <2>2 DEF Strays
      <3>2. i > 1
        BY <1>4, <1>5, <3>1 DEF Lasts, CalledOnStack
      <3>3. i \in 2 .. Len(frames') /\ Len(frames') # 0
        BY <1>5, <3>2
      <3> QED BY <1>1, <1>4, <3>1, <3>3 DEF Lasts, Retrying
    <2> QED BY <2>1, <2>2
  <1> QED BY <1>1, <1>4, <1>6 DEF RetryInv, Lasts, CalledOnStack, Retrying

LEMMA RetryNext == PInv /\ RetryInv /\ [Next]_vars => RetryInv'
  <1> SUFFICES ASSUME PInv, RetryInv, [Next]_vars PROVE RetryInv'
    OBVIOUS
  <1>1. CASE Load \/ Translate \/ Finish \/ UNCHANGED vars
    BY <1>1, RetryUnchanged DEF Load, Translate, Finish, vars, runtime
  <1>2. CASE Register
    BY <1>2, RetryUnchanged DEF Register
  <1>3. CASE RunInit
    <2>1. "again" \notin strayed /\ strayed' = strayed
      BY <1>3 DEF RunInit, RetryInv
    <2> QED BY <1>3, <2>1, RetryRun, RetryUnchanged DEF RunInit, runtime
  <1>4. CASE RunMain
    <2>1. "again" \notin strayed /\ strayed' = strayed
      BY <1>4 DEF RunMain, RetryInv
    <2> QED BY <1>4, <2>1, RetryRun DEF RunMain
  <1>5. CASE Execute
    BY <1>5, RetryExecute
  <1> QED BY <1>1, <1>2, <1>3, <1>4, <1>5 DEF Next, Done

\* Pipeline!RetriedCallsFail of all code that keeps the parser's promises: a call
\* that has failed by way of cached_fn and is made again fails its caller, even
\* when the second attempt succeeds, and however the attempts are nested.
THEOREM RetriedCallsFailHolds == Spec => [](promised => RetriedCallsFail)
  <1>1. (promised => PInv) /\ (promised => RetryInv) /\ [Next]_vars => (promised => RetryInv)'
    BY RetryNext, PromiseStays
  <1>2. PInv /\ RetryInv => RetriedCallsFail
    BY DEF PInv, RetryInv, RetriedCallsFail
  <1> QED BY <1>1, <1>2, RetryInit, PipelineInvariant, PTL DEF Spec
=============================================================================
