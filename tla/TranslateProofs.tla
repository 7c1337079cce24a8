-------------------------- MODULE TranslateProofs --------------------------
(***************************************************************************)
(* Proofs about compile_to_us2.  That a register is inside the frame rests *)
(* on the depths of Verified: next_slot, or what slot_overrides has for a  *)
(* target, is never less than the depth of the instruction it belongs to.  *)
(***************************************************************************)
EXTENDS Translate, TLAPS

\* The instructions that write their dst.
Writers == BinaryOps \cup UnaryOps \cup
             {"LOADK", "MOVE", "LOAD_GLOBAL", "MAKE_CLOSURE", "GET_PROP", "CALL"}

OwnStores == \A i \in DOMAIN legacy : legacy[i].op = "STORE_LOCAL" => legacy[i].depth = 0

Inside(o, m) == Reads(o) \cup Writes(o) \subseteq 0 .. m - 1
CodeHolds(c, m) == c \in Seq(Instruction2) /\ \A i \in 1 .. Len(c) : Inside(c[i], m)

DefsHold(c, d) ==
  /\ d \in Seq(Nat \cup {-1})
  /\ \A r \in 1 .. Len(d) :
       d[r] # -1 => /\ d[r] \in 0 .. Len(c) - 1
                    /\ c[d[r] + 1].op \in Writers
                    /\ OwnStores => /\ c[d[r] + 1].dst = Ref(0, r - 1)
                                    /\ r > frame_size => LastToWrite(c, d[r], r - 1)

\* Where a jump seen so far leads, slot_overrides has enough operands.
TargetsHold ==
  /\ DOMAIN slot_overrides \subseteq 0 .. Len(legacy) - 1
  /\ \A t \in DOMAIN slot_overrides :
       slot_overrides[t] \in Nat /\ slot_overrides[t] >= source.depth[t + 1]
  /\ \A j \in 1 .. ip : legacy[j].op \in Jumps => legacy[j].target \in DOMAIN slot_overrides

OperandsHold == ip \in DOMAIN slot_overrides \/ next_slot >= source.depth[ip + 1]

\* What the jump at i in the code was emitted for.
EmittedFor(i, j) ==
  /\ legacy[j].op = code[i].op
  /\ legacy_to_code[j] = i - 1
  /\ <<i - 1, legacy[j].target>> \in jumps
  /\ code[i].target = IF finished THEN Landing(legacy[j].target) ELSE legacy[j].target

JumpsHold ==
  /\ legacy_to_code \in Seq(Nat) /\ Len(legacy_to_code) = ip
  /\ \A i \in 1 .. ip : legacy_to_code[i] <= Len(code)
  /\ \A i \in 1 .. Len(code) :
       code[i].op \in Jumps => \E j \in 1 .. ip : EmittedFor(i, j)
  /\ jumps \subseteq Nat \X Nat
  /\ \A p \in jumps : p[1] < Len(code) /\ code[p[1] + 1].op \in Jumps

IInv ==
  /\ source \in Sources /\ ip \in 0 .. Len(legacy)
  /\ finished \in BOOLEAN
  /\ finished => ip = Len(legacy)
  /\ next_slot \in Nat /\ max_slot \in Nat /\ frame_size <= max_slot
  /\ CodeHolds(code, max_slot)
  /\ DefsHold(code, last_def)
  /\ TargetsHold
  /\ OperandsHold
  /\ JumpsHold

-----------------------------------------------------------------------------

\* Registers and functions are of their types.
LEMMA RefType ==
  ASSUME NEW d \in Nat, NEW i \in Nat
  PROVE  Ref(d, i) \in ValueRef /\ Ref(d, i).depth = d /\ Ref(d, i).index = i
  BY DEF Ref, ValueRef

LEMMA SourceType ==
  ASSUME NEW s \in Sources
  PROVE  /\ s.code \in Seq(Instruction) /\ s.size \in Nat /\ Verified(s)
         /\ s.depth \in [1 .. Len(s.code) + 1 -> Nat]
  BY SourcesAssumption DEF Verified

\* The initial states.
LEMMA InitHolds == TranslateInit => IInv
  <1> SUFFICES ASSUME NEW s \in Sources, Begin(s) PROVE IInv
    BY DEF TranslateInit
  <1>1. s.code \in Seq(Instruction) /\ s.size \in Nat /\ s.depth[1] <= s.size
        /\ s.depth \in [1 .. Len(s.code) + 1 -> Nat]
    BY SourcesAssumption DEF Verified
  <1>2. CodeHolds(code, max_slot)
    BY DEF Begin, CodeHolds
  <1>3. DefsHold(code, last_def)
    BY <1>1 DEF Begin, DefsHold
  <1>4. TargetsHold /\ OperandsHold
    BY <1>1 DEF Begin, TargetsHold, OperandsHold, legacy
  <1>5. JumpsHold
    BY DEF Begin, JumpsHold
  <1>6. /\ source \in Sources /\ ip \in 0 .. Len(legacy) /\ finished \in BOOLEAN /\ ~finished
        /\ next_slot \in Nat /\ max_slot \in Nat /\ frame_size <= max_slot
    <2>1. /\ source = s /\ ip = 0 /\ finished = FALSE /\ next_slot = s.size
          /\ max_slot = s.size /\ frame_size = s.size /\ legacy = s.code
      BY DEF Begin, legacy, frame_size
    <2>2. 0 \in 0 .. Len(s.code)
      BY <1>1
    <2>3. finished \in BOOLEAN /\ ~finished
      BY Zenon DEF Begin
    <2> QED BY <1>1, <2>1, <2>2, <2>3
  <1> QED BY <1>2, <1>3, <1>4, <1>5, <1>6 DEF IInv

\* Each instruction finds the operands it pops.
LEMMA StartEnough ==
  ASSUME IInv, ip < Len(legacy)
  PROVE  /\ In \in Instruction
         /\ Start \in Nat /\ Start >= source.depth[ip + 1]
         /\ Start >= frame_size + Pops(In)
         /\ Pops(In) \in Nat /\ frame_size \in Nat
  <1>1. /\ legacy \in Seq(Instruction) /\ frame_size \in Nat /\ Verified(source)
        /\ source.depth \in [1 .. Len(legacy) + 1 -> Nat]
    BY SourceType DEF IInv, legacy, frame_size
  <1>2. In \in Instruction
    BY <1>1 DEF In, IInv
  <1>3. Pops(In) \in Nat
    BY <1>2 DEF Pops, Instruction
  <1>4. ip + 1 \in 1 .. Len(legacy)
    BY <1>1 DEF IInv
  <1>5. source.depth[ip + 1] >= source.size + Pops(legacy[ip + 1])
    BY <1>1, <1>4 DEF Verified, legacy
  <1>6. Start \in Nat /\ Start >= source.depth[ip + 1]
    BY DEF Start, IInv, TargetsHold, OperandsHold
  <1> QED BY <1>1, <1>2, <1>3, <1>4, <1>5, <1>6 DEF frame_size, In

\* At the beginning of an instruction the table of definitions still holds.
LEMMA DefsAtStart ==
  ASSUME IInv, Start \in Nat PROVE DefsHold(code, Defs)
  <1>1. CASE ip \in DOMAIN slot_overrides
    <2> DEFINE d == [r \in 1 .. Start |-> IF r <= Len(last_def) THEN last_def[r] ELSE -1]
    <2>1. Defs = d
      BY <1>1 DEF Defs
    <2>2. d \in Seq(Nat \cup {-1}) /\ Len(d) = Start
      BY DEF IInv, DefsHold
    <2>3. \A r \in 1 .. Len(d) : d[r] # -1 => r \in 1 .. Len(last_def) /\ d[r] = last_def[r]
      BY <2>2 DEF IInv, DefsHold
    <2> HIDE DEF d
    <2> QED BY <2>1, <2>2, <2>3 DEF IInv, DefsHold
  <1>2. CASE ip \notin DOMAIN slot_overrides
    BY <1>2 DEF Defs, IInv
  <1> QED BY <1>1, <1>2

\* Clear and Define keep a table true that was true.
LEMMA ClearHolds ==
  ASSUME NEW c, NEW d, DefsHold(c, d), NEW R
  PROVE  DefsHold(c, Clear(d, R)) /\ Len(Clear(d, R)) = Len(d)
  <1> DEFINE e == Clear(d, R)
  <1>1. e \in Seq(Nat \cup {-1}) /\ Len(e) = Len(d)
    BY DEF Clear, DefsHold
  <1>2. \A r \in 1 .. Len(e) : e[r] # -1 => e[r] = d[r]
    BY <1>1 DEF Clear, DefsHold
  <1> HIDE DEF e
  <1>3. DefsHold(c, e)
    BY <1>1, <1>2 DEF DefsHold
  <1> QED BY <1>1, <1>3 DEF e

\* The instruction emitted last becomes the definition of what it writes.
LEMMA DefineHolds ==
  ASSUME NEW c \in Seq(Instruction2), NEW d, DefsHold(c, d), NEW o \in Instruction2,
         o.op \in Writers, OwnStores => o.dst.depth = 0
  PROVE  DefsHold(Append(c, o), Define(d, o.dst.index, Len(c)))
  <1> DEFINE r == o.dst.index
             n == Larger(Len(d), r + 1)
             e == Define(d, r, Len(c))
             new == Append(c, o)
  <1>1. r \in Nat /\ o.dst = Ref(o.dst.depth, r)
    BY DEF Instruction2, ValueRef, Ref
  <1>2. n \in Nat /\ n >= Len(d) /\ n >= r + 1
    BY <1>1 DEF DefsHold, Larger
  <1>3. e = [q \in 1 .. n |-> IF q = r + 1 THEN Len(c) ELSE IF q <= Len(d) THEN d[q] ELSE -1]
    BY DEF Define
  <1>4. e \in Seq(Nat \cup {-1}) /\ Len(e) = n
    BY <1>2, <1>3 DEF DefsHold
  <1>5. ASSUME NEW q \in 1 .. n, e[q] # -1
        PROVE  (q = r + 1 /\ e[q] = Len(c)) \/ (q # r + 1 /\ q \in 1 .. Len(d) /\ e[q] = d[q])
    BY <1>2, <1>3, <1>5 DEF DefsHold
  <1>6. Len(c) \in Nat /\ Len(new) = Len(c) + 1 /\ new[Len(c) + 1] = o
        /\ \A i \in 1 .. Len(c) : new[i] = c[i]
    OBVIOUS
  <1> HIDE DEF e, n, new, r
  <1>7. ASSUME NEW q \in 1 .. n, e[q] # -1
        PROVE  /\ e[q] \in 0 .. Len(new) - 1
               /\ new[e[q] + 1].op \in Writers
               /\ OwnStores => /\ new[e[q] + 1].dst = Ref(0, q - 1)
                               /\ q > frame_size => LastToWrite(new, e[q], q - 1)
    <2>1. CASE q = r + 1 /\ e[q] = Len(c)
      BY <1>1, <1>6, <2>1 DEF LastToWrite
    <2>2. CASE q # r + 1 /\ q \in 1 .. Len(d) /\ e[q] = d[q]
      <3>1. e[q] \in 0 .. Len(c) - 1 /\ e[q] + 1 \in 1 .. Len(c)
        BY <1>6, <1>7, <2>2 DEF DefsHold
      <3>2. /\ new[e[q] + 1].op \in Writers
            /\ OwnStores => new[e[q] + 1].dst = Ref(0, q - 1)
        BY <1>6, <1>7, <2>2, <3>1 DEF DefsHold
      <3>3. ASSUME OwnStores, q > frame_size PROVE LastToWrite(new, e[q], q - 1)
        <4>1. LastToWrite(c, e[q], q - 1)
          BY <1>7, <2>2, <3>3 DEF DefsHold
        <4>2. Writes(o) \subseteq {r}
          BY DEF Writes, r
        <4>3. q - 1 \notin Writes(o)
          BY <1>1, <2>2, <4>2
        <4> QED BY <1>6, <3>1, <4>1, <4>3 DEF LastToWrite
      <3> QED BY <1>6, <3>1, <3>2, <3>3
    <2> QED BY <1>5, <1>7, <2>1, <2>2
  <1>8. DefsHold(new, e)
    BY <1>4, <1>7 DEF DefsHold
  <1> QED BY <1>8 DEF new, e, r

-----------------------------------------------------------------------------
(* Steps *)

\* The address that comes next finds enough operands, whether it is reached
\* from here or by a jump.
LEMMA NextOperands ==
  ASSUME IInv, ip < Len(legacy), ip' = ip + 1, UNCHANGED source, next_slot' \in Nat,
         next_slot' >= Start - Pops(In) + Pushes(In), TargetsHold'
  PROVE  OperandsHold'
  <1>1. /\ legacy \in Seq(Instruction) /\ Verified(source)
        /\ source.depth \in [1 .. Len(legacy) + 1 -> Nat]
    BY SourceType DEF IInv, legacy
  <1>2. ip + 1 \in 1 .. Len(legacy) /\ ip \in Nat /\ ip + 2 \in 1 .. Len(legacy) + 1
    BY <1>1 DEF IInv
  <1>3. ASSUME ip + 1 \notin DOMAIN slot_overrides'
        PROVE  ~ \E j \in 1 .. ip + 1 : legacy[j].op \in Jumps /\ legacy[j].target = ip + 1
    BY <1>3 DEF TargetsHold, legacy
  <1>4. ASSUME ip + 1 \notin DOMAIN slot_overrides'
        PROVE  source.depth[ip + 2] <= source.depth[ip + 1] - Pops(In) + Pushes(In)
    <2> DEFINE i == ip + 1
    <2>1. i \in 1 .. Len(legacy) /\ i + 1 = ip + 2 /\ legacy[i] = In
          /\ (i + 1) - 1 = ip + 1
      BY <1>2 DEF In
    <2>2. ~ \E j \in 1 .. (i + 1) - 1 : legacy[j].op \in Jumps /\ legacy[j].target = (i + 1) - 1
      BY <1>3, <1>4, <2>1
    <2> HIDE DEF i
    <2>3. source.depth[i + 1] <= source.depth[i] - Pops(legacy[i]) + Pushes(legacy[i])
      BY <1>1, <2>1, <2>2 DEF Verified, legacy
    <2> QED BY <2>1, <2>3 DEF i
  <1>5. Pushes(In) \in Nat
    BY DEF Pushes
  <1>6. source.depth[ip + 1] \in Nat /\ source.depth[ip + 2] \in Nat
    BY <1>1, <1>2
  <1>7. Start \in Nat /\ Pops(In) \in Nat /\ Start >= source.depth[ip + 1]
    BY StartEnough
  <1>8. ASSUME ip + 1 \notin DOMAIN slot_overrides' PROVE next_slot' >= source.depth[ip + 2]
    BY <1>4, <1>5, <1>6, <1>7, <1>8
  <1>9. ip' + 1 = ip + 2
    BY <1>2
  <1> QED
    BY <1>8, <1>9 DEF OperandsHold

\* max_slot is as large as anything in use before and after.
LEMMA MaxSlot ==
  ASSUME IInv, Start \in Nat, NEW new, NEW n \in Nat, NEW defs, Advance(new, n, defs)
  PROVE  max_slot' \in Nat /\ max_slot' >= max_slot /\ max_slot' >= Start /\ max_slot' >= n
  BY DEF IInv, Advance, Larger

\* new has the jumps that the code has.
SameJumps(new) ==
  /\ Len(code) <= Len(new)
  /\ \A i \in 1 .. Len(new) :
       new[i].op \in Jumps => /\ i \in 1 .. Len(code)
                              /\ new[i].op = code[i].op /\ new[i].target = code[i].target
  /\ \A i \in 1 .. Len(code) : code[i].op \in Jumps => new[i].op \in Jumps

\* A step that emits no jump, with what is left to show of its code.
LEMMA StepHolds ==
  ASSUME IInv, ~finished, ip < Len(legacy), In.op \notin Jumps,
         NEW new \in Seq(Instruction2), NEW n \in Nat, NEW defs, Step(new, n, defs),
         n >= Start - Pops(In) + Pushes(In),
         CodeHolds(new, max_slot'), DefsHold(new, defs), SameJumps(new)
  PROVE  IInv'
  <1>1. In \in Instruction /\ Start \in Nat /\ legacy \in Seq(Instruction)
    BY StartEnough, SourceType DEF IInv, legacy
  <1>2. max_slot' \in Nat /\ max_slot' >= max_slot
    BY <1>1, MaxSlot DEF Step
  <1>3. /\ code' = new /\ next_slot' = n /\ last_def' = defs /\ ip' = ip + 1
        /\ legacy_to_code' = Append(legacy_to_code, Len(code))
        /\ UNCHANGED <<source, finished, slot_overrides, jumps>>
        /\ legacy' = legacy /\ frame_size' = frame_size
    BY DEF Step, Advance, legacy, frame_size
  <1>4. ip \in Nat /\ ip + 1 \in 1 .. Len(legacy) /\ legacy[ip + 1] = In
    BY <1>1 DEF IInv, In
  <1>5. TargetsHold'
    BY <1>3, <1>4 DEF IInv, TargetsHold
  <1>6. OperandsHold'
    BY <1>3, <1>5, NextOperands
  <1>7. JumpsHold'
    <2>1. /\ legacy_to_code' \in Seq(Nat) /\ Len(legacy_to_code') = ip'
          /\ legacy_to_code'[ip + 1] = Len(code)
          /\ \A i \in 1 .. ip : legacy_to_code'[i] = legacy_to_code[i]
      BY <1>3, <1>4 DEF IInv, JumpsHold, CodeHolds
    <2>2. Len(code) \in Nat /\ Len(new) \in Nat /\ Len(new) >= Len(code)
      BY DEF SameJumps, IInv, CodeHolds
    <2>3. \A i \in 1 .. ip' : legacy_to_code'[i] <= Len(code')
      BY <1>3, <1>4, <2>1, <2>2 DEF IInv, JumpsHold
    <2>4. ASSUME NEW i \in 1 .. Len(new), new[i].op \in Jumps
          PROVE  \E j \in 1 .. ip' : EmittedFor(i, j)'
      <3>1. i \in 1 .. Len(code) /\ new[i].op = code[i].op /\ new[i].target = code[i].target
        BY <2>4 DEF SameJumps
      <3>2. PICK j \in 1 .. ip : EmittedFor(i, j)
        BY <2>4, <3>1 DEF IInv, JumpsHold
      <3>3. EmittedFor(i, j)'
        BY <1>3, <2>1, <3>1, <3>2 DEF EmittedFor
      <3> QED BY <1>3, <1>4, <3>3
    <2>5. \A p \in jumps : p[1] \in Nat /\ p[1] < Len(new) /\ new[p[1] + 1].op \in Jumps
      BY <2>2 DEF IInv, JumpsHold, SameJumps
    <2> QED BY <1>3, <2>1, <2>3, <2>4, <2>5 DEF JumpsHold, IInv
  <1>8. DefsHold(code, last_def)'
    BY <1>3 DEF DefsHold, OwnStores, frame_size
  <1>9. CodeHolds(code, max_slot)'
    BY <1>3
  <1>10. source' \in Sources /\ ip' \in 0 .. Len(legacy') /\ finished' = FALSE
         /\ next_slot' \in Nat /\ frame_size' <= max_slot'
    BY <1>2, <1>3, <1>4, StartEnough DEF IInv
  <1> QED BY <1>2, <1>5, <1>6, <1>7, <1>8, <1>9, <1>10 DEF IInv

\* What is inside a frame is inside a larger one.
LEMMA InsideMore ==
  ASSUME NEW o, NEW k \in Nat, NEW m \in Nat, k <= m, Inside(o, k) PROVE Inside(o, m)
  <1>1. 0 .. k - 1 \subseteq 0 .. m - 1
    OBVIOUS
  <1> QED BY <1>1 DEF Inside

\* More code leaves what is known of the code there is.
LEMMA DefsAppended ==
  ASSUME NEW c \in Seq(Instruction2), NEW d, DefsHold(c, d), NEW o \in Instruction2,
         Writes(o) = {}
  PROVE  DefsHold(Append(c, o), d)
  <1> DEFINE new == Append(c, o)
  <1>1. /\ Len(new) = Len(c) + 1 /\ new[Len(c) + 1] = o
        /\ (\A i \in 1 .. Len(c) : new[i] = c[i]) /\ Len(c) \in Nat
    OBVIOUS
  <1> HIDE DEF new
  <1>2. ASSUME NEW r \in 1 .. Len(d), d[r] # -1, LastToWrite(c, d[r], r - 1)
        PROVE  LastToWrite(new, d[r], r - 1)
    <2>1. d[r] \in Nat
      BY <1>2 DEF DefsHold
    <2> QED BY <1>1, <1>2, <2>1 DEF LastToWrite
  <1>3. DefsHold(new, d)
    BY <1>1, <1>2 DEF DefsHold
  <1> QED BY <1>3 DEF new

\* What EmitJump does once new is what it emits.
Emitted(new, n, defs) ==
  /\ Advance(Append(code, new), n, defs)
  /\ slot_overrides' =
       [i \in DOMAIN slot_overrides \cup {In.target} |->
          CASE i # In.target -> slot_overrides[i]
            [] i = In.target /\ In.target \in DOMAIN slot_overrides
                 -> Smaller(slot_overrides[In.target], n)
            [] OTHER -> n]
  /\ jumps' = jumps \cup {<<Len(code), In.target>>}

\* A step that emits a jump: its target gets no more operands than are left.
LEMMA JumpHolds ==
  ASSUME IInv, ~finished, ip < Len(legacy), In.op \in Jumps,
         NEW new \in Instruction2, new.op = In.op, new.target = In.target,
         NEW n \in Nat, n = Start - Pops(In), NEW defs, Emitted(new, n, defs),
         Inside(new, max_slot'), DefsHold(code, defs)
  PROVE  IInv'
  <1> DEFINE t == In.target
  <1>1. In \in Instruction /\ Start \in Nat /\ legacy \in Seq(Instruction) /\ Verified(source)
        /\ source.depth \in [1 .. Len(legacy) + 1 -> Nat]
    BY StartEnough, SourceType DEF IInv, legacy
  <1>2. max_slot' \in Nat /\ max_slot' >= max_slot
    BY <1>1, MaxSlot DEF Emitted
  <1>3. /\ code' = Append(code, new) /\ next_slot' = n /\ last_def' = defs /\ ip' = ip + 1
        /\ legacy_to_code' = Append(legacy_to_code, Len(code))
        /\ UNCHANGED <<source, finished>>
        /\ legacy' = legacy /\ frame_size' = frame_size
        /\ jumps' = jumps \cup {<<Len(code), t>>}
        /\ slot_overrides' =
             [i \in DOMAIN slot_overrides \cup {t} |->
                CASE i # t -> slot_overrides[i]
                  [] i = t /\ t \in DOMAIN slot_overrides -> Smaller(slot_overrides[t], n)
                  [] OTHER -> n]
    BY DEF Emitted, Advance, legacy, frame_size
  <1>4. ip \in Nat /\ ip + 1 \in 1 .. Len(legacy) /\ legacy[ip + 1] = In
    BY <1>1 DEF IInv, In
  <1>5. t \in Nat /\ t < Len(legacy) /\ source.depth[t + 1] <= source.depth[ip + 1] - Pops(In)
    <2> DEFINE i == ip + 1
    <2>1. i \in 1 .. Len(legacy) /\ legacy[i] = In
      BY <1>4
    <2> HIDE DEF i
    <2>2. legacy[i].target < Len(legacy)
          /\ source.depth[legacy[i].target + 1] <= source.depth[i] - Pops(legacy[i])
      BY <1>1, <2>1 DEF Verified, legacy
    <2> QED BY <1>1, <2>1, <2>2 DEF Instruction, i
  <1>6. source.depth[t + 1] \in Nat /\ source.depth[ip + 1] \in Nat /\ Pops(In) \in Nat
        /\ Start >= source.depth[ip + 1]
    <2>1. t + 1 \in 1 .. Len(legacy) + 1 /\ ip + 1 \in 1 .. Len(legacy) + 1
      BY <1>1, <1>4, <1>5
    <2> HIDE DEF t
    <2> QED BY <1>1, <2>1, StartEnough
  <1>7. n >= source.depth[t + 1]
    BY <1>1, <1>5, <1>6
  <1> HIDE DEF t
  <1>8. TargetsHold'
    <2>1. DOMAIN slot_overrides' = DOMAIN slot_overrides \cup {t}
      BY <1>3
    <2>2. ASSUME NEW i \in DOMAIN slot_overrides'
          PROVE  slot_overrides'[i] \in Nat /\ slot_overrides'[i] >= source.depth[i + 1]
      <3>1. CASE i # t
        <4>1. i \in DOMAIN slot_overrides /\ slot_overrides'[i] = slot_overrides[i]
          BY <1>3, <2>1, <3>1
        <4> QED BY <4>1 DEF IInv, TargetsHold
      <3>2. CASE i = t /\ t \in DOMAIN slot_overrides
        <4>1. slot_overrides'[i] = Smaller(slot_overrides[t], n)
          BY <1>3, <2>1, <3>2
        <4>2. slot_overrides[t] \in Nat /\ slot_overrides[t] >= source.depth[t + 1]
          BY <3>2 DEF IInv, TargetsHold
        <4> QED BY <1>7, <3>2, <4>1, <4>2 DEF Smaller
      <3>3. CASE i = t /\ t \notin DOMAIN slot_overrides
        <4>1. slot_overrides'[i] = n
          BY <1>3, <2>1, <3>3
        <4> QED BY <1>7, <3>3, <4>1
      <3> QED BY <3>1, <3>2, <3>3
    <2>3. DOMAIN slot_overrides' \subseteq 0 .. Len(legacy) - 1
      BY <1>1, <1>5, <2>1 DEF IInv, TargetsHold
    <2>4. \A j \in 1 .. ip + 1 : legacy[j].op \in Jumps => legacy[j].target \in DOMAIN slot_overrides'
      BY <1>4, <2>1 DEF IInv, TargetsHold, t
    <2> QED BY <1>3, <2>2, <2>3, <2>4 DEF TargetsHold
  <1>9. OperandsHold'
    <2>1. Pushes(In) = 0
      BY DEF Pushes, Jumps, BinaryOps, ArithmeticOps, ComparisonOps, UnaryOps
    <2> QED BY <1>1, <1>3, <1>6, <1>8, <2>1, NextOperands
  <1>10. new \in Instruction2 /\ new.op = In.op /\ new.target = t
    BY DEF t
  <1>11. Len(code') = Len(code) + 1 /\ code'[Len(code) + 1] = new /\ code' \in Seq(Instruction2)
         /\ (\A i \in 1 .. Len(code) : code'[i] = code[i]) /\ Len(code) \in Nat
    BY <1>3, <1>10 DEF IInv, CodeHolds
  <1>12. JumpsHold'
    <2>1. /\ legacy_to_code' \in Seq(Nat) /\ Len(legacy_to_code') = ip'
          /\ legacy_to_code'[ip + 1] = Len(code)
          /\ \A i \in 1 .. ip : legacy_to_code'[i] = legacy_to_code[i]
      BY <1>3, <1>4, <1>11 DEF IInv, JumpsHold
    <2>2. \A i \in 1 .. ip' : legacy_to_code'[i] <= Len(code')
      BY <1>3, <1>4, <1>11, <2>1 DEF IInv, JumpsHold
    <2>3. ASSUME NEW i \in 1 .. Len(code'), code'[i].op \in Jumps
          PROVE  \E j \in 1 .. ip' : EmittedFor(i, j)'
      <3>1. CASE i \in 1 .. Len(code)
        <4>1. PICK j \in 1 .. ip : EmittedFor(i, j)
          BY <1>11, <2>3, <3>1 DEF IInv, JumpsHold
        <4>2. EmittedFor(i, j)'
          BY <1>3, <1>11, <2>1, <3>1, <4>1 DEF EmittedFor
        <4> QED BY <1>3, <1>4, <4>2
      <3>2. CASE i = Len(code) + 1
        <4>1. code'[i] = new /\ i - 1 = Len(code)
          BY <1>11, <3>2
        <4>2. PICK j \in 1 .. ip' : j = ip + 1
          BY <1>3, <1>4
        <4>3. EmittedFor(i, j)'
          BY <1>3, <1>4, <1>10, <2>1, <4>1, <4>2 DEF EmittedFor, t
        <4> QED BY <4>3
      <3> QED BY <1>11, <3>1, <3>2
    <2>4. jumps' \subseteq Nat \X Nat
      BY <1>3, <1>5, <1>11 DEF IInv, JumpsHold
    <2>5. ASSUME NEW p \in jumps' PROVE p[1] < Len(code') /\ code'[p[1] + 1].op \in Jumps
      <3>1. CASE p \in jumps
        <4>1. p[1] \in Nat /\ p[1] < Len(code) /\ code[p[1] + 1].op \in Jumps
          BY <3>1 DEF IInv, JumpsHold
        <4>2. p[1] + 1 \in 1 .. Len(code)
          BY <1>11, <4>1
        <4> QED BY <1>11, <4>1, <4>2
      <3>2. CASE p = <<Len(code), t>>
        BY <1>10, <1>11, <3>2
      <3> QED BY <1>3, <3>1, <3>2
    <2> QED BY <2>1, <2>2, <2>3, <2>4, <2>5 DEF JumpsHold
  <1>13. DefsHold(code, last_def)'
    <2>1. new \in Instruction2 /\ Writes(new) = {} /\ code \in Seq(Instruction2)
      BY <1>10 DEF IInv, CodeHolds, Writes, Jumps, BinaryOps, ArithmeticOps, ComparisonOps, UnaryOps
    <2>2. DefsHold(Append(code, new), defs)
      BY <2>1, DefsAppended
    <2> QED BY <1>3, <2>2 DEF DefsHold, OwnStores
  <1>14. CodeHolds(code, max_slot)'
    <2>1. \A i \in 1 .. Len(code) : Inside(code[i], max_slot')
      BY <1>2, InsideMore DEF IInv, CodeHolds
    <2> QED BY <1>11, <2>1 DEF CodeHolds
  <1>15. source' \in Sources /\ ip' \in 0 .. Len(legacy') /\ finished' = FALSE
         /\ next_slot' \in Nat /\ frame_size' <= max_slot'
    BY <1>2, <1>3, <1>4, StartEnough DEF IInv
  <1> QED BY <1>2, <1>8, <1>9, <1>12, <1>13, <1>14, <1>15 DEF IInv

\* An instruction that is no jump is emitted.
LEMMA Appended ==
  ASSUME NEW m \in Nat, NEW k \in Nat, k <= m, CodeHolds(code, k),
         NEW o \in Instruction2, o.op \notin Jumps, Inside(o, m)
  PROVE  CodeHolds(Append(code, o), m) /\ SameJumps(Append(code, o))
  <1> DEFINE new == Append(code, o)
  <1>1. new \in Seq(Instruction2) /\ Len(new) = Len(code) + 1 /\ new[Len(code) + 1] = o
        /\ (\A i \in 1 .. Len(code) : new[i] = code[i]) /\ Len(code) \in Nat
    BY DEF CodeHolds
  <1> HIDE DEF new
  <1>2. \A i \in 1 .. Len(code) : Inside(code[i], m)
    BY InsideMore DEF CodeHolds
  <1>3. CodeHolds(new, m)
    BY <1>1, <1>2 DEF CodeHolds
  <1>4. SameJumps(new)
    BY <1>1 DEF SameJumps
  <1> QED BY <1>3, <1>4 DEF new

\* An instruction that writes its dst is made to write another one.
LEMMA Redirected ==
  ASSUME NEW o \in Instruction2, o.op \in Writers, NEW r \in ValueRef
  PROVE  /\ [o EXCEPT !.dst = r] \in Instruction2
         /\ [o EXCEPT !.dst = r].op = o.op /\ [o EXCEPT !.dst = r].dst = r
         /\ Reads([o EXCEPT !.dst = r]) = Reads(o)
         /\ Writes([o EXCEPT !.dst = r]) = IF r.depth = 0 THEN {r.index} ELSE {}
         /\ o.op \notin Jumps
  <1>1. [o EXCEPT !.dst = r] \in Instruction2
    BY DEF Instruction2
  <1>2. o.op # "STORE_PROP" /\ o.op \notin Jumps
    BY DEF Writers, BinaryOps, ArithmeticOps, ComparisonOps, UnaryOps, Jumps
  <1>3. Reads([o EXCEPT !.dst = r]) = Reads(o)
    BY <1>2 DEF Reads, Instruction2, ByIndex
  <1>4. Writes([o EXCEPT !.dst = r]) = IF r.depth = 0 THEN {r.index} ELSE {}
    BY DEF Writes, Writers, Instruction2
  <1> QED BY <1>1, <1>2, <1>3, <1>4 DEF Instruction2

\* A step whose result goes to the first register not in use.
LEMMA ResultHolds ==
  ASSUME IInv, ~finished, ip < Len(legacy), In.op \notin Jumps,
         NEW o \in Instruction2, o.op \in Writers, NEW n \in Nat, NEW R, Result(o, n, R),
         n + 1 >= Start - Pops(In) + Pushes(In),
         Reads(o) \subseteq 0 .. Larger(max_slot, Start) - 1
  PROVE  IInv'
  <1> DEFINE new == [o EXCEPT !.dst = Ref(0, n)]
             defs == Define(Clear(Defs, R), n, Len(code))
  <1>1. new \in Instruction2 /\ new.op = o.op /\ new.dst = Ref(0, n) /\ Reads(new) = Reads(o)
        /\ Writes(new) = {n} /\ new.op \notin Jumps
    <2>1. Ref(0, n) \in ValueRef /\ Ref(0, n).depth = 0 /\ Ref(0, n).index = n
      BY RefType
    <2> QED BY <2>1, Redirected
  <1>2. Start \in Nat /\ max_slot \in Nat /\ code \in Seq(Instruction2)
    BY StartEnough DEF IInv, CodeHolds
  <1>3. Step(Append(code, new), n + 1, defs)
    BY DEF Result
  <1> HIDE DEF new
  <1>4. max_slot' \in Nat /\ max_slot' >= max_slot /\ max_slot' >= Start /\ max_slot' >= n + 1
    BY <1>2, <1>3, MaxSlot DEF Step
  <1>5. Inside(new, max_slot')
    BY <1>1, <1>2, <1>4 DEF Inside, Larger
  <1>6. CodeHolds(Append(code, new), max_slot') /\ SameJumps(Append(code, new))
    BY <1>1, <1>2, <1>4, <1>5, Appended DEF IInv
  <1>7. DefsHold(Append(code, new), defs)
    <2>1. DefsHold(code, Clear(Defs, R))
      BY <1>2, DefsAtStart, ClearHolds
    <2>2. new.dst.index = n /\ new.dst.depth = 0
      BY <1>1 DEF Ref
    <2> QED BY <1>1, <1>2, <2>1, <2>2, DefineHolds
  <1>8. Append(code, new) \in Seq(Instruction2) /\ n + 1 \in Nat
    BY <1>1, <1>2
  <1> HIDE DEF defs
  <1> QED BY <1>3, <1>6, <1>7, <1>8, StepHolds

\* The registers popped from a stack that is deep enough.
LEMMA Popped ==
  ASSUME NEW n \in Nat, n > 0
  PROVE  PopReg(n) = n - 1 /\ Pop(n) = n - 1 /\ n - 1 \in Nat
  BY DEF PopReg, Pop

\* What each instruction pops and pushes.
LEMMA PopsNone ==
  ASSUME NEW c, c.op \in {"ENTER_SCOPE", "EXIT_SCOPE", "JUMP", "PUSH_LITERAL", "LOAD_LOCAL",
                          "LOAD_GLOBAL", "MAKE_CLOSURE"}
  PROVE  Pops(c) = 0
  BY DEF Pops, BinaryOps, ArithmeticOps, ComparisonOps, UnaryOps

LEMMA PopsOne ==
  ASSUME NEW c,
         \/ c.op \in UnaryOps \cup {"POP", "STORE_LOCAL", "STORE_GLOBAL", "JUMP_IF_FALSE",
                                    "RETURN"}
         \/ c.op = "GET_PROP" /\ ~ByIndex(c)
  PROVE  Pops(c) = 1
  BY DEF Pops, BinaryOps, ArithmeticOps, ComparisonOps, UnaryOps

LEMMA PopsTwo ==
  ASSUME NEW c,
         \/ c.op \in BinaryOps
         \/ c.op = "GET_PROP" /\ ByIndex(c)
         \/ c.op = "STORE_PROP" /\ ~ByIndex(c)
  PROVE  Pops(c) = 2
  BY DEF Pops, BinaryOps, ArithmeticOps, ComparisonOps, UnaryOps

LEMMA PopsThree ==
  ASSUME NEW c, c.op = "STORE_PROP", ByIndex(c) PROVE Pops(c) = 3
  BY DEF Pops, BinaryOps, ArithmeticOps, ComparisonOps, UnaryOps

LEMMA PopsArguments ==
  ASSUME NEW c \in Instruction, c.op = "CALL"
  PROVE  Pops(c) = c.argc + (IF c.name = Dynamic THEN 1 ELSE 0)
  BY DEF Pops, BinaryOps, ArithmeticOps, ComparisonOps, UnaryOps

LEMMA PushesZero ==
  ASSUME NEW c, c.op \in {"ENTER_SCOPE", "EXIT_SCOPE", "POP", "STORE_LOCAL", "STORE_GLOBAL",
                          "STORE_PROP"}
  PROVE  Pushes(c) = 0
  BY DEF Pushes, BinaryOps, ArithmeticOps, ComparisonOps, UnaryOps

LEMMA PushesOne ==
  ASSUME NEW c PROVE Pushes(c) \in Nat /\ Pushes(c) <= 1
  BY DEF Pushes

\* The instructions, one by one.
LEMMA ScopeHolds == ASSUME IInv, Scope PROVE IInv'
  <1>1. ~finished /\ ip < Len(legacy) /\ In.op \in {"ENTER_SCOPE", "EXIT_SCOPE"}
        /\ Step(code, Start, Defs)
    BY DEF Scope, At
  <1>2. In.op \notin Jumps /\ Start \in Nat /\ Start >= Start - Pops(In) + Pushes(In)
    BY <1>1, StartEnough, PopsNone, PushesZero DEF Jumps
  <1>3. max_slot' \in Nat /\ max_slot' >= max_slot
    BY <1>1, <1>2, MaxSlot DEF Step
  <1>4. CodeHolds(code, max_slot') /\ code \in Seq(Instruction2)
    BY <1>3, InsideMore DEF IInv, CodeHolds
  <1>5. DefsHold(code, Defs)
    BY <1>2, DefsAtStart
  <1>6. SameJumps(code)
    BY <1>4 DEF SameJumps
  <1> QED BY <1>1, <1>2, <1>4, <1>5, <1>6, StepHolds

LEMMA PopHolds == ASSUME IInv, TranslatePop PROVE IInv'
  <1> DEFINE n == Pop(Start)
             defs == Clear(Defs, {PopReg(Start)})
  <1>1. ~finished /\ ip < Len(legacy) /\ In.op = "POP" /\ Step(code, n, defs)
    BY DEF TranslatePop, At
  <1>2. In.op \notin Jumps /\ Start \in Nat /\ Start >= 1 /\ Pops(In) = 1 /\ Pushes(In) = 0
    BY <1>1, StartEnough, PopsOne, PushesZero DEF Jumps
  <1>3. n \in Nat /\ n = Start - 1
    BY <1>2, Popped
  <1>4. DefsHold(code, defs)
    BY <1>2, DefsAtStart, ClearHolds
  <1> HIDE DEF n, defs
  <1>5. max_slot' \in Nat /\ max_slot' >= max_slot
    BY <1>1, <1>2, <1>3, MaxSlot DEF Step
  <1>6. CodeHolds(code, max_slot') /\ code \in Seq(Instruction2)
    BY <1>5, InsideMore DEF IInv, CodeHolds
  <1>7. SameJumps(code)
    BY <1>6 DEF SameJumps
  <1>8. n >= Start - Pops(In) + Pushes(In)
    BY <1>2, <1>3
  <1> QED BY <1>1, <1>2, <1>3, <1>4, <1>6, <1>7, <1>8, StepHolds

\* The blank instruction is one.
LEMMA BlankType == Blank2 \in Instruction2
  <1>1. Ref(0, 0) \in ValueRef
    BY RefType
  <1>2. None \in Literal
    BY DEF None, Literal
  <1> QED BY <1>1, <1>2 DEF Blank2, Instruction2, Opcode2, Name, Dynamic

\* What Produce emits reads a slot of the function, or none.
LEMMA ProducerType ==
  ASSUME NEW c \in Instruction, c.op \in {"PUSH_LITERAL", "LOAD_LOCAL", "LOAD_GLOBAL",
                                          "MAKE_CLOSURE"}
  PROVE  /\ Producer(c) \in Instruction2 /\ Producer(c).op \in Writers
         /\ Reads(Producer(c)) \subseteq
              IF c.op = "LOAD_LOCAL" /\ c.depth = 0 THEN {c.slot} ELSE {}
  <1>1. CASE c.op = "PUSH_LITERAL"
    <2> DEFINE o == [Blank2 EXCEPT !.op = "LOADK", !.lit = c.lit]
    <2>1. Producer(c) = o
      BY <1>1 DEF Producer
    <2>2. o \in Instruction2 /\ o.op = "LOADK"
      <3>1. c.lit \in Literal
        BY DEF Instruction
      <3> QED BY <3>1, BlankType DEF Instruction2, Opcode2
    <2> HIDE DEF o
    <2>3. Reads(o) = {}
      BY <2>2 DEF Reads, BinaryOps, ArithmeticOps, ComparisonOps, UnaryOps
    <2> QED BY <2>1, <2>2, <2>3 DEF Writers
  <1>2. CASE c.op = "LOAD_LOCAL"
    <2> DEFINE o == [Blank2 EXCEPT !.op = "MOVE", !.a = Ref(c.depth, c.slot)]
    <2>1. Producer(c) = o
      BY <1>2 DEF Producer
    <2>2. o \in Instruction2 /\ o.op = "MOVE" /\ o.a.depth = c.depth /\ o.a.index = c.slot
      <3>1. c.depth \in Nat /\ c.slot \in Nat
        BY DEF Instruction
      <3> QED BY <3>1, BlankType, RefType DEF Instruction2, Opcode2
    <2> HIDE DEF o
    <2>3. Reads(o) = IF c.depth = 0 THEN {c.slot} ELSE {}
      BY <2>2 DEF Reads, BinaryOps, ArithmeticOps, ComparisonOps, UnaryOps
    <2> QED BY <1>2, <2>1, <2>2, <2>3 DEF Writers
  <1>3. CASE c.op \in {"LOAD_GLOBAL", "MAKE_CLOSURE"}
    <2> DEFINE o == [Blank2 EXCEPT !.op = c.op, !.name = c.name]
    <2>1. Producer(c) = o
      BY <1>3 DEF Producer
    <2>2. o \in Instruction2 /\ o.op = c.op
      BY <1>3, BlankType DEF Instruction, Instruction2, Opcode2
    <2> HIDE DEF o
    <2>3. Reads(o) = {}
      BY <1>3, <2>2 DEF Reads, BinaryOps, ArithmeticOps, ComparisonOps, UnaryOps
    <2> QED BY <1>3, <2>1, <2>2, <2>3 DEF Writers
  <1> QED BY <1>1, <1>2, <1>3

LEMMA ProduceHolds == ASSUME IInv, Produce PROVE IInv'
  <1>1. /\ ~finished /\ ip < Len(legacy) /\ Result(Producer(In), Start, {})
        /\ In.op \in {"PUSH_LITERAL", "LOAD_LOCAL", "LOAD_GLOBAL", "MAKE_CLOSURE"}
    BY DEF Produce, At
  <1>2. In \in Instruction /\ Start \in Nat /\ Pops(In) = 0 /\ In.op \notin Jumps
    BY <1>1, StartEnough, PopsNone DEF Jumps
  <1>3. Start + 1 >= Start - Pops(In) + Pushes(In)
    BY <1>2, PushesOne
  <1>4. ASSUME In.op = "LOAD_LOCAL", In.depth = 0 PROVE In.slot \in Nat /\ In.slot < frame_size
    <2> DEFINE i == ip + 1
    <2>1. i \in 1 .. Len(legacy) /\ legacy[i] = In
      BY <1>1, SourceType DEF IInv, legacy, In
    <2> HIDE DEF i
    <2> QED BY <1>2, <1>4, <2>1, SourceType DEF IInv, Verified, legacy, frame_size, Instruction
  <1>5. Reads(Producer(In)) \subseteq 0 .. Larger(max_slot, Start) - 1
    <2>1. Larger(max_slot, Start) \in Nat /\ Larger(max_slot, Start) >= frame_size
          /\ frame_size \in Nat
      BY <1>1, <1>2, StartEnough DEF IInv, Larger
    <2> QED BY <1>1, <1>2, <1>4, <2>1, ProducerType
  <1> QED BY <1>1, <1>2, <1>3, <1>5, ProducerType, ResultHolds

LEMMA UnaryHolds == ASSUME IInv, TranslateUnary PROVE IInv'
  <1> DEFINE src == PopReg(Start)
             o == [Blank2 EXCEPT !.op = In.op, !.a = Ref(0, src)]
  <1>1. ~finished /\ ip < Len(legacy) /\ In.op \in UnaryOps
        /\ Result(o, Pop(Start), {src})
    BY DEF TranslateUnary, At
  <1>2. Start \in Nat /\ Start >= 1 /\ Pops(In) = 1 /\ In.op \notin Jumps /\ In.op \in Writers
        /\ max_slot \in Nat
    <2>1. In.op \notin Jumps /\ In.op \in Writers
      BY <1>1 DEF Jumps, UnaryOps, Writers
    <2>2. Pops(In) = 1
      BY <1>1, PopsOne
    <2> QED BY <1>1, <2>1, <2>2, StartEnough DEF IInv
  <1>3. src \in Nat /\ src = Start - 1 /\ Pop(Start) = Start - 1 /\ Pop(Start) \in Nat
    BY <1>2, Popped
  <1> HIDE DEF src
  <1>4. o \in Instruction2 /\ o.op = In.op /\ o.a.index = src
    <2>1. Ref(0, src) \in ValueRef /\ Ref(0, src).index = src
      BY <1>3, RefType
    <2> QED BY <1>1, <2>1, BlankType DEF Instruction2, Opcode2
  <1> HIDE DEF o
  <1>5. Reads(o) = {src}
    BY <1>1, <1>4 DEF Reads, BinaryOps, ArithmeticOps, ComparisonOps, UnaryOps
  <1>6. Reads(o) \subseteq 0 .. Larger(max_slot, Start) - 1
    BY <1>2, <1>3, <1>5 DEF Larger
  <1>7. Pop(Start) + 1 >= Start - Pops(In) + Pushes(In)
    BY <1>2, <1>3, PushesOne
  <1> QED BY <1>1, <1>2, <1>3, <1>4, <1>6, <1>7, ResultHolds

LEMMA BinaryHolds == ASSUME IInv, TranslateBinary PROVE IInv'
  <1> DEFINE rhs == PopReg(Start)
             lhs == PopReg(Pop(Start))
             n == Pop(Pop(Start))
             o == [Blank2 EXCEPT !.op = In.op, !.a = Ref(0, lhs), !.b = Ref(0, rhs)]
  <1>1. ~finished /\ ip < Len(legacy) /\ Result(o, n, {lhs, rhs})
        /\ (In.op \in BinaryOps \/ (In.op = "GET_PROP" /\ ByIndex(In)))
    BY DEF TranslateBinary, At
  <1>2. Start \in Nat /\ Start >= 2 /\ Pops(In) = 2 /\ max_slot \in Nat
    BY <1>1, StartEnough, PopsTwo DEF IInv
  <1>3. In.op \notin Jumps /\ In.op \in Writers
    BY <1>1 DEF Jumps, Writers, BinaryOps, ArithmeticOps, ComparisonOps, UnaryOps
  <1>4. rhs = Start - 1 /\ lhs = Start - 2 /\ n = Start - 2 /\ n \in Nat
    BY <1>2, Popped
  <1> HIDE DEF rhs, lhs, n
  <1>5. /\ o \in Instruction2 /\ o.op = In.op /\ o.a.index = lhs /\ o.b.index = rhs
        /\ o.lit = None
    <2>1. /\ Ref(0, lhs) \in ValueRef /\ Ref(0, lhs).index = lhs
          /\ Ref(0, rhs) \in ValueRef /\ Ref(0, rhs).index = rhs
      BY <1>2, <1>4, RefType
    <2>2. Blank2.lit = None
      BY DEF Blank2
    <2>3. In.op \in Opcode2
      BY <1>1 DEF Opcode2
    <2>4. o \in Instruction2
      BY <2>1, <2>3, BlankType DEF Instruction2
    <2> QED BY <2>1, <2>2, <2>4, BlankType DEF Instruction2
  <1> HIDE DEF o
  <1>6. Reads(o) = {lhs, rhs}
    <2>1. o.op \in BinaryOps \/ o.op = "GET_PROP"
      BY <1>1, <1>5
    <2>2. Reads(o) = {o.a.index, o.b.index}
      BY ONLY <1>5, <2>1 DEF Reads, BinaryOps, ArithmeticOps, ComparisonOps, UnaryOps, ByIndex
    <2> QED BY <1>5, <2>2
  <1>7. Reads(o) \subseteq 0 .. Larger(max_slot, Start) - 1
    BY <1>2, <1>4, <1>6 DEF Larger
  <1>8. n + 1 >= Start - Pops(In) + Pushes(In)
    BY <1>2, <1>4, PushesOne
  <1> QED BY <1>1, <1>3, <1>4, <1>5, <1>7, <1>8, ResultHolds

LEMMA GetKeyHolds == ASSUME IInv, TranslateGetKey PROVE IInv'
  <1> DEFINE src == PopReg(Start)
             o == [Blank2 EXCEPT !.op = "GET_PROP", !.a = Ref(0, src), !.lit = In.lit]
  <1>1. ~finished /\ ip < Len(legacy) /\ In.op = "GET_PROP" /\ ~ByIndex(In)
        /\ Result(o, Pop(Start), {})
    BY DEF TranslateGetKey, At
  <1>2. /\ Start \in Nat /\ Start >= 1 /\ Pops(In) = 1 /\ In.op \notin Jumps /\ max_slot \in Nat
        /\ In.lit \in Literal
    BY <1>1, StartEnough, PopsOne DEF Jumps, IInv, Instruction
  <1>3. src \in Nat /\ src = Start - 1 /\ Pop(Start) = Start - 1 /\ Pop(Start) \in Nat
    BY <1>2, Popped
  <1> HIDE DEF src
  <1>4. o \in Instruction2 /\ o.op = "GET_PROP" /\ o.a.index = src /\ o.lit = In.lit
    <2>1. Ref(0, src) \in ValueRef /\ Ref(0, src).index = src
      BY <1>3, RefType
    <2> QED BY <1>2, <2>1, BlankType DEF Instruction2, Opcode2
  <1> HIDE DEF o
  <1>5. Reads(o) = {src}
    BY <1>1, <1>4 DEF Reads, BinaryOps, ArithmeticOps, ComparisonOps, UnaryOps, ByIndex
  <1>6. Reads(o) \subseteq 0 .. Larger(max_slot, Start) - 1
    BY <1>2, <1>3, <1>5 DEF Larger
  <1>7. Pop(Start) + 1 >= Start - Pops(In) + Pushes(In)
    BY <1>2, <1>3, PushesOne
  <1>8. o.op \in Writers
    BY <1>4 DEF Writers
  <1> QED BY <1>1, <1>2, <1>3, <1>4, <1>6, <1>7, <1>8, ResultHolds

LEMMA CallHolds == ASSUME IInv, TranslateCall PROVE IInv'
  <1> DEFINE n == In.argc
             base == Larger(Start - n, 0)
             left == Start - n
             args == base .. base + n - 1
             callable == PopReg(left)
             dynamic == [Blank2 EXCEPT !.op = "CALL", !.argc = n, !.name = Dynamic,
                           !.a = Ref(0, Larger(callable, 0)), !.b = Ref(0, base)]
             named == [Blank2 EXCEPT !.op = "CALL", !.argc = n, !.name = In.name,
                         !.a = Ref(0, base)]
  <1>1. /\ ~finished /\ ip < Len(legacy) /\ In.op = "CALL"
        /\ IF In.name = Dynamic THEN Result(dynamic, Pop(left), args \cup {callable})
           ELSE Result(named, left, args)
    BY DEF TranslateCall, At
  <1>2. In \in Instruction /\ n \in Nat /\ In.name \in Name
    BY <1>1, StartEnough DEF Instruction
  <1>3. Start \in Nat /\ Start >= n + (IF In.name = Dynamic THEN 1 ELSE 0) /\ max_slot \in Nat
        /\ Pops(In) = n + (IF In.name = Dynamic THEN 1 ELSE 0) /\ In.op \notin Jumps
    BY <1>1, <1>2, StartEnough, PopsArguments DEF IInv, Jumps
  <1>4. left \in Nat /\ base = left
    BY <1>2, <1>3 DEF Larger
  <1>5. Pushes(In) \in Nat /\ Pushes(In) <= 1
    BY PushesOne
  <1> HIDE DEF n
  <1>6. CASE In.name = Dynamic
    <2>1. callable \in Nat /\ callable = left - 1 /\ Pop(left) = left - 1 /\ Pop(left) \in Nat
      BY <1>2, <1>3, <1>4, <1>6, Popped
    <2>2. Larger(callable, 0) = callable
      BY <2>1 DEF Larger
    <2> HIDE DEF left, base, callable
    <2>3. /\ dynamic \in Instruction2 /\ dynamic.op = "CALL" /\ dynamic.name = Dynamic
          /\ dynamic.a.index = callable /\ dynamic.b.index = base /\ dynamic.argc = n
      <3>1. /\ Ref(0, Larger(callable, 0)) \in ValueRef /\ Ref(0, Larger(callable, 0)).index = callable
            /\ Ref(0, base) \in ValueRef /\ Ref(0, base).index = base
        BY <1>4, <2>1, <2>2, RefType
      <3> QED BY <1>2, <3>1, BlankType DEF Instruction2, Opcode2, Name
    <2> HIDE DEF dynamic
    <2>4. Reads(dynamic) = {callable} \cup (base .. base + n - 1)
      BY <2>3 DEF Reads, BinaryOps, ArithmeticOps, ComparisonOps, UnaryOps
    <2>5. Reads(dynamic) \subseteq 0 .. Larger(max_slot, Start) - 1
      BY <1>2, <1>3, <1>4, <2>1, <2>4 DEF Larger, left
    <2>6. Pop(left) + 1 >= Start - Pops(In) + Pushes(In)
      BY <1>2, <1>3, <1>5, <1>6, <2>1 DEF left
    <2> QED BY <1>1, <1>3, <1>6, <2>1, <2>3, <2>5, <2>6, ResultHolds DEF Writers
  <1>7. CASE In.name # Dynamic
    <2> HIDE DEF left, base
    <2>1. /\ named \in Instruction2 /\ named.op = "CALL" /\ named.name = In.name
          /\ named.a.index = base /\ named.argc = n
      <3>1. Ref(0, base) \in ValueRef /\ Ref(0, base).index = base
        BY <1>4, RefType
      <3> QED BY <1>2, <3>1, BlankType DEF Instruction2, Opcode2
    <2> HIDE DEF named
    <2>2. Reads(named) = base .. base + n - 1
      BY <1>7, <2>1 DEF Reads, BinaryOps, ArithmeticOps, ComparisonOps, UnaryOps
    <2>3. Reads(named) \subseteq 0 .. Larger(max_slot, Start) - 1
      BY <1>2, <1>3, <1>4, <2>2 DEF Larger, left
    <2>4. left + 1 >= Start - Pops(In) + Pushes(In)
      BY <1>2, <1>3, <1>5, <1>7 DEF left
    <2> QED BY <1>1, <1>3, <1>4, <1>7, <2>1, <2>3, <2>4, ResultHolds DEF Writers
  <1> QED BY <1>6, <1>7

\* An instruction with no result is emitted.
LEMMA EffectHolds ==
  ASSUME IInv, ~finished, ip < Len(legacy), In.op \notin Jumps,
         NEW o \in Instruction2, o.op \notin Jumps, NEW n \in Nat, NEW defs,
         Step(Append(code, o), n, defs), DefsHold(code, defs),
         n >= Start - Pops(In) + Pushes(In), Writes(o) = {},
         Reads(o) \cup Writes(o) \subseteq 0 .. Larger(max_slot, Start) - 1
  PROVE  IInv'
  <1>1. Start \in Nat /\ max_slot \in Nat /\ code \in Seq(Instruction2)
    BY StartEnough DEF IInv, CodeHolds
  <1>2. max_slot' \in Nat /\ max_slot' >= max_slot /\ max_slot' >= Start
    BY <1>1, MaxSlot DEF Step
  <1>3. Inside(o, max_slot')
    <2>1. Inside(o, Larger(max_slot, Start)) /\ Larger(max_slot, Start) \in Nat
          /\ Larger(max_slot, Start) <= max_slot'
      BY <1>1, <1>2 DEF Inside, Larger
    <2> QED BY <1>2, <2>1, InsideMore
  <1>4. CodeHolds(Append(code, o), max_slot') /\ SameJumps(Append(code, o))
    BY <1>1, <1>2, <1>3, Appended DEF IInv
  <1>5. DefsHold(Append(code, o), defs) /\ Append(code, o) \in Seq(Instruction2)
    BY <1>1, DefsAppended
  <1> QED BY <1>4, <1>5, StepHolds

LEMMA StoreGlobalHolds == ASSUME IInv, TranslateStoreGlobal PROVE IInv'
  <1> DEFINE src == Larger(PopReg(Start), 0)
             o == [Blank2 EXCEPT !.op = "STORE_GLOBAL", !.name = In.name, !.a = Ref(0, src)]
             defs == Clear(Defs, {src})
  <1>1. ~finished /\ ip < Len(legacy) /\ In.op = "STORE_GLOBAL"
        /\ Step(Append(code, o), Pop(Start), defs)
    BY DEF TranslateStoreGlobal, At
  <1>2. /\ Start \in Nat /\ Start >= 1 /\ Pops(In) = 1 /\ Pushes(In) = 0 /\ In.op \notin Jumps
        /\ max_slot \in Nat /\ In.name \in Name
    BY <1>1, StartEnough, PopsOne, PushesZero DEF Jumps, IInv, Instruction
  <1>3. src = Start - 1 /\ src \in Nat /\ Pop(Start) = Start - 1 /\ Pop(Start) \in Nat
    BY <1>2, Popped DEF Larger
  <1>4. DefsHold(code, defs)
    BY <1>2, DefsAtStart, ClearHolds
  <1> HIDE DEF src, defs
  <1>5. o \in Instruction2 /\ o.op = "STORE_GLOBAL" /\ o.a.index = src
    <2>1. Ref(0, src) \in ValueRef /\ Ref(0, src).index = src
      BY <1>3, RefType
    <2> QED BY <1>2, <2>1, BlankType DEF Instruction2, Opcode2
  <1> HIDE DEF o
  <1>6. Reads(o) = {src} /\ Writes(o) = {} /\ o.op \notin Jumps
    BY <1>5 DEF Reads, Writes, BinaryOps, ArithmeticOps, ComparisonOps, UnaryOps, Jumps
  <1>7. Reads(o) \cup Writes(o) \subseteq 0 .. Larger(max_slot, Start) - 1
    BY <1>2, <1>3, <1>6 DEF Larger
  <1>8. Pop(Start) >= Start - Pops(In) + Pushes(In)
    BY <1>2, <1>3
  <1> QED BY <1>1, <1>2, <1>3, <1>4, <1>5, <1>6, <1>7, <1>8, EffectHolds

LEMMA StorePropHolds == ASSUME IInv, TranslateStoreProp PROVE IInv'
  <1> DEFINE value == PopReg(Start)
             idx == PopReg(Pop(Start))
             obj == PopReg(Pop(Pop(Start)))
             n == Pop(Pop(Pop(Start)))
             o == [Blank2 EXCEPT !.op = "STORE_PROP", !.dst = Ref(0, obj), !.a = Ref(0, value),
                                 !.b = Ref(0, idx)]
             defs == Clear(Defs, {value, idx, obj})
  <1>1. ~finished /\ ip < Len(legacy) /\ In.op = "STORE_PROP" /\ ByIndex(In)
        /\ Step(Append(code, o), n, defs)
    BY DEF TranslateStoreProp, At
  <1>2. /\ Start \in Nat /\ Start >= 3 /\ Pops(In) = 3 /\ Pushes(In) = 0 /\ In.op \notin Jumps
        /\ max_slot \in Nat
    BY <1>1, StartEnough, PopsThree, PushesZero DEF Jumps, IInv
  <1>3. value = Start - 1 /\ idx = Start - 2 /\ obj = Start - 3 /\ n = Start - 3 /\ n \in Nat
    BY <1>2, Popped
  <1>4. DefsHold(code, defs)
    BY <1>2, DefsAtStart, ClearHolds
  <1> HIDE DEF value, idx, obj, n, defs
  <1>5. /\ o \in Instruction2 /\ o.op = "STORE_PROP" /\ o.dst.index = obj
        /\ o.a.index = value /\ o.b.index = idx /\ o.lit = None
    <2>1. /\ Ref(0, obj) \in ValueRef /\ Ref(0, obj).index = obj
          /\ Ref(0, value) \in ValueRef /\ Ref(0, value).index = value
          /\ Ref(0, idx) \in ValueRef /\ Ref(0, idx).index = idx
      BY <1>2, <1>3, RefType
    <2>2. Blank2.lit = None
      BY DEF Blank2
    <2> QED BY <2>1, <2>2, BlankType DEF Instruction2, Opcode2
  <1> HIDE DEF o
  <1>6. Reads(o) = {obj, value, idx} /\ Writes(o) = {} /\ o.op \notin Jumps
    BY <1>5 DEF Reads, ByIndex, Writes, BinaryOps, ArithmeticOps, ComparisonOps, UnaryOps, Jumps
  <1>7. Reads(o) \cup Writes(o) \subseteq 0 .. Larger(max_slot, Start) - 1
    BY <1>2, <1>3, <1>6 DEF Larger
  <1>8. n >= Start - Pops(In) + Pushes(In)
    BY <1>2, <1>3
  <1> QED BY <1>1, <1>2, <1>3, <1>4, <1>5, <1>6, <1>7, <1>8, EffectHolds

LEMMA StoreKeyHolds == ASSUME IInv, TranslateStoreKey PROVE IInv'
  <1> DEFINE value == PopReg(Start)
             obj == PopReg(Pop(Start))
             n == Pop(Pop(Start))
             o == [Blank2 EXCEPT !.op = "STORE_PROP", !.dst = Ref(0, obj), !.a = Ref(0, value),
                                 !.lit = In.lit]
             defs == Clear(Defs, {value})
  <1>1. ~finished /\ ip < Len(legacy) /\ In.op = "STORE_PROP" /\ ~ByIndex(In)
        /\ Step(Append(code, o), n, defs)
    BY DEF TranslateStoreKey, At
  <1>2. /\ Start \in Nat /\ Start >= 2 /\ Pops(In) = 2 /\ Pushes(In) = 0 /\ In.op \notin Jumps
        /\ max_slot \in Nat /\ In.lit \in Literal
    BY <1>1, StartEnough, PopsTwo, PushesZero DEF Jumps, IInv, Instruction
  <1>3. value = Start - 1 /\ obj = Start - 2 /\ n = Start - 2 /\ n \in Nat
    BY <1>2, Popped
  <1>4. DefsHold(code, defs)
    BY <1>2, DefsAtStart, ClearHolds
  <1> HIDE DEF value, obj, n, defs
  <1>5. /\ o \in Instruction2 /\ o.op = "STORE_PROP" /\ o.dst.index = obj
        /\ o.a.index = value /\ o.lit = In.lit
    <2>1. /\ Ref(0, obj) \in ValueRef /\ Ref(0, obj).index = obj
          /\ Ref(0, value) \in ValueRef /\ Ref(0, value).index = value
      BY <1>2, <1>3, RefType
    <2> QED BY <1>2, <2>1, BlankType DEF Instruction2, Opcode2
  <1> HIDE DEF o
  <1>6. Reads(o) = {obj, value} /\ Writes(o) = {} /\ o.op \notin Jumps
    BY <1>1, <1>5 DEF Reads, ByIndex, Writes, BinaryOps, ArithmeticOps, ComparisonOps, UnaryOps, Jumps
  <1>7. Reads(o) \cup Writes(o) \subseteq 0 .. Larger(max_slot, Start) - 1
    BY <1>2, <1>3, <1>6 DEF Larger
  <1>8. n >= Start - Pops(In) + Pushes(In)
    BY <1>2, <1>3
  <1> QED BY <1>1, <1>2, <1>3, <1>4, <1>5, <1>6, <1>7, <1>8, EffectHolds

LEMMA ReturnHolds == ASSUME IInv, TranslateReturn PROVE IInv'
  <1> DEFINE src == Larger(Start - 1, 0)
             o == [Blank2 EXCEPT !.op = "RETURN", !.a = Ref(0, src)]
  <1>1. ~finished /\ ip < Len(legacy) /\ In.op = "RETURN"
        /\ Step(Append(code, o), Start, Defs)
    BY DEF TranslateReturn, At
  <1>2. /\ Start \in Nat /\ Start >= 1 /\ Pops(In) = 1 /\ Pushes(In) \in Nat /\ Pushes(In) <= 1
        /\ In.op \notin Jumps /\ max_slot \in Nat
    BY <1>1, StartEnough, PopsOne, PushesOne DEF Jumps, IInv
  <1>3. src = Start - 1 /\ src \in Nat
    BY <1>2 DEF Larger
  <1>4. DefsHold(code, Defs)
    BY <1>2, DefsAtStart
  <1> HIDE DEF src
  <1>5. o \in Instruction2 /\ o.op = "RETURN" /\ o.a.index = src
    <2>1. Ref(0, src) \in ValueRef /\ Ref(0, src).index = src
      BY <1>3, RefType
    <2> QED BY <2>1, BlankType DEF Instruction2, Opcode2
  <1> HIDE DEF o
  <1>6. Reads(o) = {src} /\ Writes(o) = {} /\ o.op \notin Jumps
    BY <1>5 DEF Reads, Writes, BinaryOps, ArithmeticOps, ComparisonOps, UnaryOps, Jumps
  <1>7. Reads(o) \cup Writes(o) \subseteq 0 .. Larger(max_slot, Start) - 1
    BY <1>2, <1>3, <1>6 DEF Larger
  <1>8. Start >= Start - Pops(In) + Pushes(In)
    BY <1>2
  <1> QED BY <1>1, <1>2, <1>4, <1>5, <1>6, <1>7, <1>8, EffectHolds

\* A store to a slot of the function itself is inside its frame.
LEMMA SlotInFrame ==
  ASSUME IInv, ip < Len(legacy), In.op \in {"LOAD_LOCAL", "STORE_LOCAL"}
  PROVE  /\ In.depth \in Nat /\ In.slot \in Nat
         /\ In.depth = 0 => In.slot < frame_size
         /\ In.op = "STORE_LOCAL" /\ OwnStores => In.depth = 0
  <1> DEFINE i == ip + 1
  <1>1. i \in 1 .. Len(legacy) /\ legacy[i] = In /\ In \in Instruction
    BY SourceType, StartEnough DEF IInv, legacy, In
  <1> HIDE DEF i
  <1>2. In.depth \in Nat /\ In.slot \in Nat
    BY <1>1 DEF Instruction
  <1>3. In.depth = 0 => In.slot < frame_size
    BY <1>1, SourceType DEF IInv, Verified, legacy, frame_size
  <1>4. In.op = "STORE_LOCAL" /\ OwnStores => In.depth = 0
    BY <1>1, SourceType DEF OwnStores, IInv, legacy
  <1> QED BY <1>2, <1>3, <1>4

\* STORE_LOCAL, with and without a MOVE.
LEMMA MovedHolds == ASSUME IInv, StoreLocalMoved PROVE IInv'
  <1> DEFINE r == Ref(In.depth, In.slot)
             o == [Blank2 EXCEPT !.op = "MOVE", !.dst = r, !.a = Ref(0, StoreSrc)]
             defs == Define(Clear(Defs, {StoreSrc}), In.slot, Len(code))
  <1>1. ~finished /\ ip < Len(legacy) /\ In.op = "STORE_LOCAL"
        /\ Step(Append(code, o), Pop(Start), defs)
    BY DEF StoreLocalMoved, At
  <1>2. /\ Start \in Nat /\ Start >= 1 /\ Pops(In) = 1 /\ Pushes(In) = 0 /\ In.op \notin Jumps
        /\ max_slot \in Nat /\ frame_size \in Nat /\ frame_size <= max_slot
        /\ code \in Seq(Instruction2)
    BY <1>1, StartEnough, PopsOne, PushesZero DEF Jumps, IInv, CodeHolds
  <1>3. StoreSrc = Start - 1 /\ StoreSrc \in Nat /\ Pop(Start) = Start - 1 /\ Pop(Start) \in Nat
    BY <1>2, Popped DEF StoreSrc, Larger
  <1>4. r \in ValueRef /\ r.depth = In.depth /\ r.index = In.slot
    BY <1>1, SlotInFrame, RefType
  <1>5. Ref(0, StoreSrc) \in ValueRef /\ Ref(0, StoreSrc).depth = 0
        /\ Ref(0, StoreSrc).index = StoreSrc
    BY <1>3, RefType
  <1> HIDE DEF r
  <1>6. /\ o \in Instruction2 /\ o.op = "MOVE" /\ o.dst = r /\ o.a.depth = 0
        /\ o.a.index = StoreSrc /\ o.op \in Writers /\ o.op \notin Jumps
    BY <1>4, <1>5, BlankType DEF Instruction2, Opcode2, Writers, Jumps
  <1> HIDE DEF o
  <1>7. DefsHold(Append(code, o), defs)
    <2>1. DefsHold(code, Clear(Defs, {StoreSrc}))
      BY <1>2, DefsAtStart, ClearHolds
    <2>2. OwnStores => o.dst.depth = 0
      BY <1>1, <1>4, <1>6, SlotInFrame
    <2>3. o.dst.index = In.slot
      BY <1>4, <1>6
    <2> QED BY <1>2, <1>6, <2>1, <2>2, <2>3, DefineHolds
  <1> HIDE DEF defs
  <1>8. max_slot' \in Nat /\ max_slot' >= max_slot /\ max_slot' >= Start
    BY <1>1, <1>2, <1>3, MaxSlot DEF Step
  <1>9. Inside(o, max_slot')
    <2>1. Reads(o) = {StoreSrc} /\ Writes(o) = IF In.depth = 0 THEN {In.slot} ELSE {}
      BY <1>4, <1>6 DEF Reads, Writes, BinaryOps, ArithmeticOps, ComparisonOps, UnaryOps
    <2>2. In.depth = 0 => In.slot \in 0 .. max_slot' - 1
      BY <1>1, <1>2, <1>8, SlotInFrame
    <2>3. StoreSrc \in 0 .. max_slot' - 1
      <3>1. Start \in Nat /\ StoreSrc \in Nat /\ StoreSrc = Start - 1
        BY <1>2, <1>3
      <3>2. \A a, b, m \in Nat : a = b - 1 /\ m >= b => a \in 0 .. m - 1
        OBVIOUS
      <3> QED BY ONLY <1>8, <3>1, <3>2
    <2> QED BY <2>1, <2>2, <2>3 DEF Inside
  <1>10. CodeHolds(Append(code, o), max_slot') /\ SameJumps(Append(code, o))
    BY <1>2, <1>6, <1>8, <1>9, Appended DEF IInv
  <1>11. Append(code, o) \in Seq(Instruction2) /\ Pop(Start) >= Start - Pops(In) + Pushes(In)
    BY <1>2, <1>3, <1>6
  <1> QED BY <1>1, <1>2, <1>3, <1>7, <1>10, <1>11, StepHolds

\* The redirected instruction defines the slot, and no other entry names it.
LEMMA RewrittenHolds == ASSUME IInv, StoreLocalRewritten PROVE IInv'
  <1> DEFINE r == Ref(In.depth, In.slot)
             k == StoreDef + 1
             new == [code EXCEPT ![k].dst = r]
             moved == [q \in DOMAIN Defs |-> IF q = In.slot + 1 THEN StoreDef ELSE Defs[q]]
             defs == Clear(moved, {StoreSrc})
  <1>1. /\ ~finished /\ ip < Len(legacy) /\ In.op = "STORE_LOCAL"
        /\ StoreDef \in 0 .. Len(code) - 1
        /\ Step(new, Pop(Start), defs)
    BY DEF StoreLocalRewritten, At
  <1>2. /\ Start \in Nat /\ Start >= 1 /\ Pops(In) = 1 /\ Pushes(In) = 0 /\ In.op \notin Jumps
        /\ max_slot \in Nat /\ frame_size \in Nat /\ frame_size <= max_slot
        /\ code \in Seq(Instruction2) /\ Len(code) \in Nat
    BY <1>1, StartEnough, PopsOne, PushesZero DEF Jumps, IInv, CodeHolds
  <1>3. StoreSrc = Start - 1 /\ StoreSrc \in Nat /\ Pop(Start) = Start - 1 /\ Pop(Start) \in Nat
    BY <1>2, Popped DEF StoreSrc, Larger
  <1>4. r \in ValueRef /\ r.depth = In.depth /\ r.index = In.slot
    BY <1>1, SlotInFrame, RefType
  <1>5. DefsHold(code, Defs) /\ Defs \in Seq(Nat \cup {-1})
    BY <1>2, DefsAtStart DEF DefsHold
  <1>6. StoreSrc + 1 \in 1 .. Len(Defs) /\ Defs[StoreSrc + 1] = StoreDef
    BY <1>1, <1>3, <1>5 DEF StoreDef
  <1>7. /\ k \in 1 .. Len(code) /\ code[k] \in Instruction2 /\ code[k].op \in Writers
        /\ OwnStores => code[k].dst = Ref(0, StoreSrc)
    <2> DEFINE q == StoreSrc + 1
    <2>1. q \in 1 .. Len(Defs) /\ Defs[q] = StoreDef /\ Defs[q] # -1 /\ q - 1 = StoreSrc
      BY <1>1, <1>3, <1>6
    <2> HIDE DEF q
    <2>2. OwnStores => code[StoreDef + 1].dst = Ref(0, StoreSrc)
      BY <1>5, <2>1 DEF DefsHold
    <2>3. k \in 1 .. Len(code)
      BY <1>1, <1>2
    <2>4. code[StoreDef + 1].op \in Writers
      BY <1>5, <2>1 DEF DefsHold
    <2> QED BY <1>2, <2>2, <2>3, <2>4
  <1> DEFINE o == [code[k] EXCEPT !.dst = r]
  <1>8. /\ o \in Instruction2 /\ o.op = code[k].op /\ o.dst = r /\ Reads(o) = Reads(code[k])
        /\ Writes(o) = (IF In.depth = 0 THEN {In.slot} ELSE {}) /\ code[k].op \notin Jumps
    BY <1>4, <1>7, Redirected
  <1>9. new = [code EXCEPT ![k] = o]
    OBVIOUS
  <1> HIDE DEF o, k, r
  <1>10. /\ new \in Seq(Instruction2) /\ Len(new) = Len(code) /\ new[k] = o
         /\ \A i \in 1 .. Len(code) : i # k => new[i] = code[i]
    BY <1>2, <1>7, <1>8, <1>9
  <1> HIDE DEF new
  <1>11. /\ moved \in Seq(Nat \cup {-1}) /\ Len(moved) = Len(Defs)
         /\ defs \in Seq(Nat \cup {-1}) /\ Len(defs) = Len(Defs)
    <2>1. DOMAIN Defs = 1 .. Len(Defs) /\ Len(Defs) \in Nat
      BY <1>5
    <2>2. StoreDef \in Nat
      BY <1>1, <1>2
    <2>3. \A q \in 1 .. Len(Defs) : moved[q] \in Nat \cup {-1}
      BY <1>5, <2>1, <2>2
    <2>4. moved \in Seq(Nat \cup {-1}) /\ Len(moved) = Len(Defs)
      BY <2>1, <2>3
    <2> HIDE DEF moved
    <2>5. DOMAIN moved = 1 .. Len(Defs)
      BY <2>1, <2>4
    <2>6. defs = [q \in 1 .. Len(Defs) |-> IF q - 1 \in {StoreSrc} THEN -1 ELSE moved[q]]
      BY <2>5 DEF Clear
    <2>7. \A q \in 1 .. Len(Defs) : defs[q] \in Nat \cup {-1}
      BY <2>1, <2>4, <2>6
    <2> QED BY <2>1, <2>4, <2>6, <2>7
  <1>12. ASSUME NEW q \in 1 .. Len(defs), defs[q] # -1
         PROVE  /\ q # StoreSrc + 1 /\ q \in 1 .. Len(Defs)
                /\ (q = In.slot + 1 /\ defs[q] = StoreDef) \/ defs[q] = Defs[q]
    BY <1>3, <1>5, <1>11, <1>12 DEF Clear
  <1> HIDE DEF defs, moved
  <1>13. DefsHold(new, defs)
    <2>1. ASSUME NEW q \in 1 .. Len(defs), defs[q] # -1
          PROVE  /\ defs[q] \in 0 .. Len(new) - 1
                 /\ new[defs[q] + 1].op \in Writers
                 /\ OwnStores => /\ new[defs[q] + 1].dst = Ref(0, q - 1)
                                 /\ q > frame_size => LastToWrite(new, defs[q], q - 1)
      <3>1. CASE q = In.slot + 1 /\ defs[q] = StoreDef
        <4>1. defs[q] + 1 = k
          BY <3>1 DEF k
        <4>3. OwnStores => ~(q > frame_size)
          BY <1>1, <1>2, <3>1, SlotInFrame
        <4>2. OwnStores => o.dst = Ref(0, q - 1)
          BY <1>1, <1>8, <3>1, SlotInFrame DEF r
        <4> QED BY <1>1, <1>7, <1>8, <1>10, <3>1, <4>1, <4>2, <4>3
      <3>2. CASE defs[q] = Defs[q]
        <4>1. /\ defs[q] \in 0 .. Len(code) - 1 /\ code[defs[q] + 1].op \in Writers
              /\ OwnStores => code[defs[q] + 1].dst = Ref(0, q - 1)
          BY <1>5, <1>12, <2>1, <3>2 DEF DefsHold
        <4>5. ASSUME OwnStores, q > frame_size PROVE LastToWrite(new, defs[q], q - 1)
          <5>1. LastToWrite(code, defs[q], q - 1)
            BY <1>5, <1>12, <2>1, <3>2, <4>5 DEF DefsHold
          <5>2. q - 1 \notin Writes(o)
            BY <1>1, <1>2, <1>8, <4>5, SlotInFrame
          <5> QED BY <1>2, <1>10, <4>1, <5>1, <5>2 DEF LastToWrite
        <4>2. defs[q] + 1 \in 1 .. Len(code)
          BY <1>2, <4>1
        <4>3. CASE defs[q] + 1 # k
          BY <1>10, <4>1, <4>2, <4>3, <4>5
        <4>4. CASE defs[q] + 1 = k
          <5>1. ~OwnStores
            <6>1. SUFFICES ASSUME OwnStores PROVE FALSE
              OBVIOUS
            <6>2. Ref(0, q - 1) = Ref(0, StoreSrc)
              BY <1>7, <4>1, <4>4, <6>1
            <6>3. q - 1 = StoreSrc
              BY <6>2 DEF Ref
            <6> QED BY <1>3, <1>12, <2>1, <6>3
          <5> QED BY <1>7, <1>8, <1>10, <4>1, <4>4, <4>5, <5>1
        <4> QED BY <4>3, <4>4
      <3> QED BY <1>12, <2>1, <3>1, <3>2
    <2> QED BY <1>11, <2>1 DEF DefsHold
  <1>14. max_slot' \in Nat /\ max_slot' >= max_slot
    BY <1>1, <1>2, <1>3, MaxSlot DEF Step
  <1>15. CodeHolds(new, max_slot')
    <2>1. \A i \in 1 .. Len(code) : Inside(code[i], max_slot')
      BY <1>2, <1>14, InsideMore DEF IInv, CodeHolds
    <2>2. Inside(code[k], max_slot')
      BY <1>7, <2>1
    <2>3. In.depth = 0 => In.slot \in 0 .. max_slot' - 1
      BY <1>1, <1>2, <1>14, SlotInFrame
    <2>4. Inside(o, max_slot')
      BY <1>8, <2>2, <2>3 DEF Inside
    <2> QED BY <1>10, <2>1, <2>4 DEF CodeHolds
  <1>16. SameJumps(new)
    BY <1>2, <1>8, <1>10 DEF SameJumps
  <1>17. Pop(Start) >= Start - Pops(In) + Pushes(In)
    BY <1>2, <1>3
  <1> QED BY <1>1, <1>2, <1>3, <1>10, <1>13, <1>15, <1>16, <1>17, StepHolds

\* Jumps with and without an operand.
LEMMA JumpStepHolds == ASSUME IInv, TranslateJump PROVE IInv'
  <1> DEFINE o == [Blank2 EXCEPT !.op = "JUMP"]
             new == [o EXCEPT !.target = In.target]
  <1>1. ~finished /\ ip < Len(legacy) /\ In.op = "JUMP" /\ Emitted(new, Start, Defs)
    BY DEF TranslateJump, At, EmitJump, Emitted
  <1>2. Start \in Nat /\ Pops(In) = 0 /\ In.target \in Nat /\ In.op \in Jumps /\ max_slot \in Nat
    BY <1>1, StartEnough, PopsNone DEF Jumps, Instruction, IInv
  <1>3. new \in Instruction2 /\ new.op = "JUMP" /\ new.target = In.target
    BY <1>2, BlankType DEF Instruction2, Opcode2
  <1> HIDE DEF new
  <1>4. max_slot' \in Nat
    BY <1>1, <1>2, MaxSlot DEF Emitted
  <1>5. Inside(new, max_slot')
    BY <1>3 DEF Inside, Reads, Writes, BinaryOps, ArithmeticOps, ComparisonOps, UnaryOps
  <1>6. DefsHold(code, Defs) /\ Start = Start - Pops(In)
    BY <1>2, DefsAtStart
  <1> QED BY <1>1, <1>2, <1>3, <1>5, <1>6, JumpHolds

LEMMA JumpIfFalseHolds == ASSUME IInv, TranslateJumpIfFalse PROVE IInv'
  <1> DEFINE cond == PopReg(Start)
             n == Pop(Start)
             defs == Clear(Defs, {cond})
             o == [Blank2 EXCEPT !.op = "JUMP_IF_FALSE", !.a = Ref(0, cond)]
             new == [o EXCEPT !.target = In.target]
  <1>1. ~finished /\ ip < Len(legacy) /\ In.op = "JUMP_IF_FALSE" /\ Emitted(new, n, defs)
    BY DEF TranslateJumpIfFalse, At, EmitJump, Emitted
  <1>2. /\ Start \in Nat /\ Start >= 1 /\ Pops(In) = 1 /\ In.target \in Nat /\ In.op \in Jumps
        /\ max_slot \in Nat
    BY <1>1, StartEnough, PopsOne DEF Jumps, Instruction, IInv
  <1>3. cond = Start - 1 /\ cond \in Nat /\ n = Start - 1 /\ n \in Nat
    BY <1>2, Popped
  <1>4. DefsHold(code, defs)
    BY <1>2, DefsAtStart, ClearHolds
  <1> HIDE DEF cond, n, defs
  <1>5. new \in Instruction2 /\ new.op = "JUMP_IF_FALSE" /\ new.target = In.target
        /\ new.a.index = cond
    <2>1. Ref(0, cond) \in ValueRef /\ Ref(0, cond).index = cond
      BY <1>3, RefType
    <2>2. o \in Instruction2 /\ o.op = "JUMP_IF_FALSE" /\ o.a.index = cond
      BY <2>1, BlankType DEF Instruction2, Opcode2
    <2> HIDE DEF o
    <2> QED BY <1>2, <2>2 DEF Instruction2
  <1> HIDE DEF new
  <1>6. max_slot' \in Nat /\ max_slot' >= Start
    BY <1>1, <1>2, <1>3, MaxSlot DEF Emitted
  <1>7. Inside(new, max_slot')
    <2>1. Reads(new) = {cond} /\ Writes(new) = {}
      BY <1>5 DEF Reads, Writes, BinaryOps, ArithmeticOps, ComparisonOps, UnaryOps
    <2>2. \A a, b, m \in Nat : a = b - 1 /\ m >= b => a \in 0 .. m - 1
      OBVIOUS
    <2>3. cond \in 0 .. max_slot' - 1
      BY ONLY <1>2, <1>3, <1>6, <2>2
    <2> QED BY <2>1, <2>3 DEF Inside
  <1>8. n = Start - Pops(In)
    BY <1>2, <1>3
  <1> QED BY <1>1, <1>2, <1>3, <1>4, <1>5, <1>7, <1>8, JumpHolds

-----------------------------------------------------------------------------
(* The last loop *)

\* The target is nothing that is read or written.
LEMMA Retargeted ==
  ASSUME NEW o \in Instruction2, NEW t \in Nat \cup {-1}
  PROVE  /\ [o EXCEPT !.target = t] \in Instruction2
         /\ [o EXCEPT !.target = t].op = o.op /\ [o EXCEPT !.target = t].dst = o.dst
         /\ [o EXCEPT !.target = t].target = t
         /\ Writes([o EXCEPT !.target = t]) = Writes(o)
         /\ \A m : Inside([o EXCEPT !.target = t], m) = Inside(o, m)
  <1> DEFINE p == [o EXCEPT !.target = t]
  <1>1. /\ p \in Instruction2 /\ p.op = o.op /\ p.dst = o.dst /\ p.target = t
        /\ p.a = o.a /\ p.b = o.b /\ p.name = o.name /\ p.argc = o.argc /\ p.lit = o.lit
    BY DEF Instruction2
  <1> HIDE DEF p
  <1>2. Reads(p) = Reads(o)
    BY <1>1 DEF Reads, ByIndex
  <1>3. Writes(p) = Writes(o)
    BY <1>1 DEF Writes
  <1> QED BY <1>1, <1>2, <1>3 DEF Inside, p

\* Where a jump leads is known when all the code has been translated.
LEMMA LandingType ==
  ASSUME IInv, ip = Len(legacy), NEW j \in 1 .. ip, legacy[j].op \in Jumps
  PROVE  /\ legacy[j].target + 1 \in 1 .. Len(legacy)
         /\ Landing(legacy[j].target) = legacy_to_code[legacy[j].target + 1]
         /\ Landing(legacy[j].target) \in 0 .. Len(code)
  <1> DEFINE t == legacy[j].target
  <1>1. t \in 0 .. Len(legacy) - 1 /\ ip \in Nat
    BY DEF IInv, TargetsHold
  <1> HIDE DEF t
  <1>2. t + 1 \in 1 .. Len(legacy) /\ t < ip
    BY <1>1
  <1>3. Landing(t) = legacy_to_code[t + 1]
    BY <1>2 DEF Landing, IInv, JumpsHold
  <1>4. legacy_to_code[t + 1] \in Nat /\ legacy_to_code[t + 1] <= Len(code) /\ Len(code) \in Nat
    BY <1>2 DEF IInv, JumpsHold, CodeHolds
  <1> QED BY <1>2, <1>3, <1>4 DEF t

LEMMA FixJumpsHolds == ASSUME IInv, FixJumps PROVE IInv'
  <1>1. /\ ~finished /\ ip = Len(legacy) /\ finished' = TRUE
        /\ UNCHANGED <<source, ip, next_slot, max_slot, last_def, slot_overrides,
                       legacy_to_code, jumps>>
        /\ legacy' = legacy /\ frame_size' = frame_size
    BY DEF FixJumps, legacy, frame_size
  <1>2. code \in Seq(Instruction2) /\ Len(code) \in Nat
    BY DEF IInv, CodeHolds
  <1>3. ASSUME NEW i \in 1 .. Len(code)
        PROVE  /\ code'[i] \in Instruction2 /\ code'[i].op = code[i].op
               /\ code'[i].dst = code[i].dst /\ Writes(code'[i]) = Writes(code[i])
               /\ \A m : Inside(code'[i], m) = Inside(code[i], m)
               /\ \A t : <<i - 1, t>> \in jumps => code'[i].target = Landing(code[i].target)
    <2>1. CASE \E p \in jumps : p[1] = i - 1
      <3>1. code[i].op \in Jumps
        BY <2>1 DEF IInv, JumpsHold
      <3>2. PICK j \in 1 .. ip : EmittedFor(i, j)
        BY <1>3, <3>1 DEF IInv, JumpsHold
      <3>3. code[i].target = legacy[j].target /\ legacy[j].op \in Jumps
        BY <1>1, <3>1, <3>2 DEF EmittedFor
      <3> DEFINE t == Landing(code[i].target)
      <3>4. t \in Nat \cup {-1}
        BY <1>1, <1>2, <3>3, LandingType
      <3>5. code'[i] = [code[i] EXCEPT !.target = t]
        <4>1. i \in DOMAIN code
          BY <1>2
        <4> QED BY <2>1, <4>1 DEF FixJumps
      <3> HIDE DEF t
      <3>6. code[i] \in Instruction2
        BY <1>2
      <3> QED BY <3>4, <3>5, <3>6, Retargeted DEF t
    <2>2. CASE ~ \E p \in jumps : p[1] = i - 1
      <3>1. code'[i] = code[i]
        BY <1>2, <2>2 DEF FixJumps
      <3> QED BY <1>2, <2>2, <3>1
    <2> QED BY <2>1, <2>2
  <1>4. code' \in Seq(Instruction2) /\ Len(code') = Len(code)
    <2>1. DOMAIN code' = 1 .. Len(code) /\ code' = [i \in 1 .. Len(code) |-> code'[i]]
      BY <1>2 DEF FixJumps
    <2> QED BY <1>2, <1>3, <2>1
  <1>5. CodeHolds(code, max_slot)'
    BY <1>1, <1>3, <1>4 DEF IInv, CodeHolds
  <1>6. DefsHold(code, last_def)'
    <2>1. /\ last_def' = last_def /\ last_def \in Seq(Nat \cup {-1})
          /\ OwnStores' = OwnStores
      BY <1>1 DEF IInv, DefsHold, OwnStores
    <2>2. ASSUME NEW r \in 1 .. Len(last_def), last_def[r] # -1
          PROVE  /\ last_def[r] \in 0 .. Len(code') - 1
                 /\ code'[last_def[r] + 1].op \in Writers
                 /\ OwnStores => /\ code'[last_def[r] + 1].dst = Ref(0, r - 1)
                                 /\ r > frame_size => LastToWrite(code', last_def[r], r - 1)
      <3>1. /\ last_def[r] \in 0 .. Len(code) - 1
            /\ code[last_def[r] + 1].op \in Writers
            /\ OwnStores => /\ code[last_def[r] + 1].dst = Ref(0, r - 1)
                            /\ r > frame_size => LastToWrite(code, last_def[r], r - 1)
        BY <2>2 DEF IInv, DefsHold
      <3>2. last_def[r] + 1 \in 1 .. Len(code)
        BY <1>2, <3>1
      <3>3. LastToWrite(code, last_def[r], r - 1) => LastToWrite(code', last_def[r], r - 1)
        BY <1>2, <1>3, <1>4, <3>1 DEF LastToWrite
      <3> QED BY <1>3, <1>4, <3>1, <3>2, <3>3
    <2> QED BY <1>1, <2>1, <2>2 DEF DefsHold
  <1>7. TargetsHold' /\ OperandsHold'
    BY <1>1 DEF IInv, TargetsHold, OperandsHold
  <1>8. JumpsHold'
    <2>1. ASSUME NEW i \in 1 .. Len(code'), code'[i].op \in Jumps
          PROVE  \E j \in 1 .. ip' : EmittedFor(i, j)'
      <3>1. i \in 1 .. Len(code) /\ code[i].op \in Jumps /\ code'[i].op = code[i].op
        BY <1>3, <1>4, <2>1
      <3>2. PICK j \in 1 .. ip : EmittedFor(i, j)
        BY <3>1 DEF IInv, JumpsHold
      <3>3. code'[i].target = Landing(legacy[j].target)
        BY <1>1, <1>3, <3>1, <3>2 DEF EmittedFor
      <3>4. EmittedFor(i, j)'
        BY <1>1, <3>1, <3>2, <3>3 DEF EmittedFor, Landing
      <3> QED BY <1>1, <3>4
    <2>2. ASSUME NEW p \in jumps PROVE p[1] < Len(code') /\ code'[p[1] + 1].op \in Jumps
      <3>1. p[1] \in Nat /\ p[1] < Len(code) /\ code[p[1] + 1].op \in Jumps
        BY DEF IInv, JumpsHold
      <3>2. p[1] + 1 \in 1 .. Len(code)
        BY <1>2, <3>1
      <3> QED BY <1>3, <1>4, <3>1, <3>2
    <2> QED BY <1>1, <1>4, <2>1, <2>2 DEF IInv, JumpsHold
  <1> QED BY <1>1, <1>5, <1>6, <1>7, <1>8 DEF IInv

-----------------------------------------------------------------------------
(* The theorems *)

\* A step of the translation preserves the inductive invariant.
LEMMA NextHolds == IInv /\ [TranslateNext]_translation => IInv'
  <1> SUFFICES ASSUME IInv, [TranslateNext]_translation PROVE IInv'
    OBVIOUS
  <1>1. CASE Scope
    BY <1>1, ScopeHolds
  <1>2. CASE Produce
    BY <1>2, ProduceHolds
  <1>3. CASE TranslateUnary
    BY <1>3, UnaryHolds
  <1>4. CASE TranslateBinary
    BY <1>4, BinaryHolds
  <1>5. CASE TranslatePop
    BY <1>5, PopHolds
  <1>6. CASE StoreLocalRewritten
    BY <1>6, RewrittenHolds
  <1>7. CASE StoreLocalMoved
    BY <1>7, MovedHolds
  <1>8. CASE TranslateStoreGlobal
    BY <1>8, StoreGlobalHolds
  <1>9. CASE TranslateStoreProp
    BY <1>9, StorePropHolds
  <1>10. CASE TranslateCall
    BY <1>10, CallHolds
  <1>11. CASE TranslateReturn
    BY <1>11, ReturnHolds
  <1>12. CASE TranslateJump
    BY <1>12, JumpStepHolds
  <1>13. CASE TranslateJumpIfFalse
    BY <1>13, JumpIfFalseHolds
  <1>14. CASE FixJumps
    BY <1>14, FixJumpsHolds
  <1>15. CASE TranslateGetKey
    BY <1>15, GetKeyHolds
  <1>16. CASE TranslateStoreKey
    BY <1>16, StoreKeyHolds
  <1>17. CASE UNCHANGED translation
    <2>1. /\ UNCHANGED <<source, ip, next_slot, max_slot, code, last_def, slot_overrides,
                           legacy_to_code, jumps, finished>>
          /\ legacy' = legacy /\ frame_size' = frame_size
      BY <1>17 DEF translation, legacy, frame_size
    <2>2. CodeHolds(code, max_slot)' /\ DefsHold(code, last_def)'
      BY <2>1 DEF IInv, CodeHolds, DefsHold, OwnStores
    <2>3. TargetsHold' /\ OperandsHold'
      BY <2>1 DEF IInv, TargetsHold, OperandsHold
    <2>4. \A i, j : EmittedFor(i, j) => EmittedFor(i, j)'
      BY <2>1 DEF EmittedFor, Landing
    <2>5. JumpsHold'
      BY <2>1, <2>4 DEF IInv, JumpsHold
    <2> QED BY <2>1, <2>2, <2>3, <2>5 DEF IInv
  <1> QED BY <1>1, <1>2, <1>3, <1>4, <1>5, <1>6, <1>7, <1>8, <1>9, <1>10, <1>11, <1>12,
             <1>13, <1>14, <1>15, <1>16, <1>17 DEF TranslateNext

\* The inductive invariant holds of every function that passes Verified.
THEOREM InvariantHolds == TranslateSpec => []IInv
  BY InitHolds, NextHolds, PTL DEF TranslateSpec

\* The tables and the code compile_to_us2 builds are of their types.
THEOREM TypeOKHolds == TranslateSpec => []TranslateTypeOK
  <1>1. IInv => TranslateTypeOK
    <2> SUFFICES ASSUME IInv PROVE TranslateTypeOK
      OBVIOUS
    <2>1. DOMAIN slot_overrides \subseteq Nat
      BY DEF IInv, TargetsHold
    <2>2. /\ source \in Sources /\ ip \in 0 .. Len(legacy) /\ next_slot \in Nat
          /\ max_slot \in Nat /\ finished \in BOOLEAN
      BY DEF IInv
    <2>3. code \in Seq(Instruction2) /\ last_def \in Seq(Nat \cup {-1})
      BY DEF IInv, CodeHolds, DefsHold
    <2>4. \A t \in DOMAIN slot_overrides : slot_overrides[t] \in Nat
      BY DEF IInv, TargetsHold
    <2>5. /\ legacy_to_code \in Seq(Nat) /\ Len(legacy_to_code) = ip
          /\ jumps \subseteq Nat \X Nat
      BY DEF IInv, JumpsHold
    <2> QED BY <2>1, <2>2, <2>3, <2>4, <2>5 DEF TranslateTypeOK
  <1> QED BY <1>1, InvariantHolds, PTL

\* No register outside the frame is read or written, whatever the function.
THEOREM RegistersInFrameHolds == TranslateSpec => []RegistersInFrame
  <1>1. IInv => RegistersInFrame
    BY DEF IInv, CodeHolds, Inside, RegistersInFrame
  <1> QED BY <1>1, InvariantHolds, PTL

\* Every jump of the new code leads to the code of the old jump's target.
THEOREM JumpsLandHolds == TranslateSpec => []JumpsLand
  <1>1. IInv => JumpsLand
    <2> SUFFICES ASSUME IInv, finished, NEW i \in DOMAIN code, code[i].op \in Jumps
                 PROVE  /\ code[i].target \in 0 .. Len(code)
                        /\ \E t \in DOMAIN legacy :
                             /\ code[i].target = legacy_to_code[t]
                             /\ \E j \in DOMAIN legacy :
                                  /\ legacy[j].op = code[i].op
                                  /\ legacy[j].target = t - 1
                                  /\ legacy_to_code[j] = i - 1
      BY DEF JumpsLand
    <2>1. DOMAIN code = 1 .. Len(code) /\ DOMAIN legacy = 1 .. Len(legacy) /\ ip = Len(legacy)
      BY SourceType DEF IInv, CodeHolds, legacy
    <2>2. PICK j \in 1 .. ip : EmittedFor(i, j)
      BY <2>1 DEF IInv, JumpsHold
    <2>3. /\ legacy[j].target + 1 \in 1 .. Len(legacy)
          /\ code[i].target = legacy_to_code[legacy[j].target + 1]
          /\ code[i].target \in 0 .. Len(code)
      BY <2>1, <2>2, LandingType DEF EmittedFor
    <2>4. PICK t \in 1 .. Len(legacy) : t = legacy[j].target + 1
      BY <2>3
    <2>5. legacy[j].target \in Nat
      BY <2>1, <2>2 DEF IInv, TargetsHold, EmittedFor
    <2>6. legacy[j].target = t - 1
      BY <2>4, <2>5
    <2> QED BY <2>1, <2>2, <2>3, <2>4, <2>6 DEF EmittedFor
  <1> QED BY <1>1, InvariantHolds, PTL

\* What STORE_LOCAL redirects wrote its operand, and nothing behind it does.
THEOREM DefinitionsHoldAlways == TranslateSpec => []DefinitionsHold
  <1>1. IInv => DefinitionsHold
    <2> SUFFICES ASSUME IInv, OwnStores, NEW r \in DOMAIN last_def, last_def[r] # -1
                 PROVE  /\ last_def[r] < Len(code) /\ Writes(code[last_def[r] + 1]) = {r - 1}
                        /\ r > frame_size => LastToWrite(code, last_def[r], r - 1)
      BY DEF DefinitionsHold, OwnStores
    <2>1. r \in 1 .. Len(last_def)
      BY DEF IInv, DefsHold
    <2>2. /\ last_def[r] \in 0 .. Len(code) - 1
          /\ code[last_def[r] + 1].op \in Writers
          /\ code[last_def[r] + 1].dst = Ref(0, r - 1)
          /\ r > frame_size => LastToWrite(code, last_def[r], r - 1)
      BY <2>1 DEF IInv, DefsHold
    <2>3. Writes(code[last_def[r] + 1]) = {r - 1}
      BY <2>2 DEF Writes, Writers, Ref
    <2> QED BY <2>2, <2>3 DEF IInv, CodeHolds
  <1> QED BY <1>1, InvariantHolds, PTL
=============================================================================
