-------------------------- MODULE RegisterMachine --------------------------
(***************************************************************************)
(* UdonInterpreter2::run.  Only functions with a name run on it: their     *)
(* code refers to no frame but its own.  Whatever is written to a register *)
(* is written to the environment of the activation as well, for the        *)
(* closures that captured it; the registers are not read back from there.  *)
(***************************************************************************)
EXTENDS Runtime

RFunction == functions_v2[Top.fn]
RIn == RFunction.code[Top.ip + 1]
RAt(ops) ==
  Running("register") /\ Top.ip < Len(RFunction.code) /\ RIn.op \in ops
R(ref) == Top.vals[ref.index + 1]

\* load_value finds the registers that the next instruction reads.
RFound == Reads(RIn) \subseteq 0 .. Len(Top.vals) - 1

\* It does not ("Invalid MOVE source"), and RETURN alone does not mind.  A
\* write to a register that is not there has no effect.
RRefused ==
  /\ Running("register") /\ Top.ip < Len(RFunction.code)
  /\ RIn.op # "RETURN" /\ ~RFound

\* store_value, for the top activation or the one below it.
Stored(regs, ref, a) == [regs EXCEPT ![ref.index + 1] = a]
Mirrored(es, e, ref, a) == [es EXCEPT ![e].slots[ref.index + 1] = a]

RWrite(a) ==
  /\ frames' = Continue(Stored(Top.vals, RIn.dst, a), Top.ip + 1)
  /\ envs' = Mirrored(envs, Top.env, RIn.dst, a)
  /\ UNCHANGED <<program, status, result>>

RGoto(ip) ==
  /\ frames' = Continue(Top.vals, ip)
  /\ UNCHANGED <<program, objects, out, status, result>>

RMove ==
  /\ RAt({"LOADK", "MOVE", "LOAD_GLOBAL"})
  /\ RWrite(CASE RIn.op = "LOADK" -> RIn.lit
             [] RIn.op = "MOVE" -> R(RIn.a)
             [] RIn.op = "LOAD_GLOBAL" ->
                  IF RIn.name \in DOMAIN globals THEN globals[RIn.name] ELSE None)
  /\ UNCHANGED <<globals, arrays, closures, out>>

RStoreGlobal ==
  /\ RAt({"STORE_GLOBAL"})
  /\ globals' = With(globals, RIn.name, R(RIn.a))
  /\ RGoto(Top.ip + 1)

RBinary ==
  /\ RAt(BinaryOps)
  /\ IF Defined(RIn.op, R(RIn.a), R(RIn.b), Size(R(RIn.b)))
       THEN RWrite(Compute(RIn.op, R(RIn.a), R(RIn.b))) /\ UNCHANGED <<globals, arrays, closures, out>>
       ELSE Abort

RUnary ==
  /\ RAt(UnaryOps)
  /\ IF UnaryDefined(RIn.op, R(RIn.a))
       THEN RWrite(Unary(RIn.op, R(RIn.a), Size(R(RIn.a)))) /\ UNCHANGED <<globals, arrays, closures, out>>
       ELSE Abort

RGetProp ==
  /\ RAt({"GET_PROP"})
  /\ RWrite(IF ByIndex(RIn) THEN Element(R(RIn.a), R(RIn.b)) ELSE Property(R(RIn.a), RIn.lit))
  /\ UNCHANGED <<globals, arrays, closures, out>>

\* array_set: a register that holds no array is made to hold a new one.
RStoreProp ==
  LET k == Key(IF ByIndex(RIn) THEN R(RIn.b) ELSE RIn.lit) IN
  /\ RAt({"STORE_PROP"})
  /\ IF R(RIn.dst).t = "array"
       THEN /\ arrays' = [arrays EXCEPT ![R(RIn.dst).v] = With(@, k, R(RIn.a))]
            /\ frames' = Continue(Top.vals, Top.ip + 1)
       ELSE /\ arrays' = Append(arrays, With(<<>>, k, R(RIn.a)))
            /\ frames' = Continue(Stored(Top.vals, RIn.dst, ArrayRef(Len(arrays) + 1)),
                                  Top.ip + 1)
  /\ UNCHANGED <<program, globals, closures, envs, out, status, result>>

RMakeClosure ==
  /\ RAt({"MAKE_CLOSURE"})
  /\ closures' = Append(closures, [name |-> RIn.name, env |-> Top.env])
  /\ RWrite(FunctionRef(Len(closures) + 1))
  /\ UNCHANGED <<globals, arrays, out>>

RJumping(t) ==
  IF t \in 0 .. Len(RFunction.code) THEN RGoto(t) /\ UNCHANGED globals ELSE Abort

RJump ==
  /\ RAt({"JUMP"})
  /\ RJumping(RIn.target)

RJumpIfFalse ==
  /\ RAt({"JUMP_IF_FALSE"})
  /\ IF Truth(R(RIn.a)) THEN RGoto(Top.ip + 1) /\ UNCHANGED globals ELSE RJumping(RIn.target)

-----------------------------------------------------------------------------
(* Calls *)

RArgsFrom(base) == [i \in 1 .. RIn.argc |-> Top.vals[base + i]]

\* print looks one register below its arguments: if there is a string there,
\* and the first argument is not one, all arguments are read from there on.
RShifted ==
  /\ RIn.name = "print" /\ RIn.argc >= 2 /\ RIn.a.index > 0
  /\ Top.vals[RIn.a.index + 1].t # "string" /\ Top.vals[RIn.a.index].t = "string"

RArgs == RArgsFrom(CASE RIn.name = Dynamic -> RIn.b.index
                     [] RIn.name # Dynamic /\ RShifted -> RIn.a.index - 1
                     [] OTHER -> RIn.a.index)

RSuspend == Continue(Top.vals, Top.ip + 1)

\* A function of the program.  Arguments it has no parameter for are
\* dropped.  The parent of its environment is that of its caller.
RCallFunction ==
  LET f == functions_v2[RIn.name]
      slots == Bind(f, f.frame_size, RArgs)
  IN
  /\ RAt({"CALL"}) /\ RIn.name \in DOMAIN functions_v2
  /\ arrays' = arrays \o Rest(f, RArgs)
  /\ envs' = Append(envs, [parent |-> Top.env, slots |-> slots])
  /\ frames' = Append(RSuspend, [NewFrame("register", RIn.name, Len(envs) + 1, slots, RArgs)
                                   EXCEPT !.dst = RIn.dst])
  /\ UNCHANGED <<program, globals, closures, out, status, result>>

\* A built-in function.  They all return true, error or not, and that is all
\* that is looked at.
RCallBuiltin ==
  /\ RAt({"CALL"}) /\ RIn.name \notin DOMAIN functions_v2 /\ RIn.name \in Builtins
  /\ BuiltinEffect(RIn.name, RArgs)
  /\ RWrite(BuiltinValue(RIn.name, RArgs))
  /\ UNCHANGED <<globals, closures>>

\* Any other name is not found by host->run either.
RCallMissing ==
  /\ RAt({"CALL"}) /\ RIn.name \notin DOMAIN functions_v2 \cup Builtins \cup {Dynamic}
  /\ Abort

\* invoke_function runs a closure on the stack machine.
RCallDynamic ==
  LET callee == R(RIn.a)
      c == closures[callee.v]
      f == instructions[c.name]
  IN
  /\ RAt({"CALL"}) /\ RIn.name = Dynamic
  /\ IF Callable(callee) /\ (f.variadic \/ RIn.argc <= f.params)
       THEN /\ arrays' = arrays \o Rest(f, RArgs)
            /\ envs' = Append(envs, [parent |-> c.env, slots |-> Bind(f, f.size, RArgs)])
            /\ frames' = Append(RSuspend, [NewFrame("stack", c.name, Len(envs) + 1, <<>>, RArgs)
                                             EXCEPT !.dst = RIn.dst])
            /\ UNCHANGED <<program, globals, closures, out, status, result>>
       ELSE Abort

-----------------------------------------------------------------------------
(* The end of an activation *)

\* Deviation: the environment of the caller is not told.
DeliverUnmirrored(a, dst) ==
  LET n == Len(frames) - 1 IN
  /\ IF n = 0
       THEN status' = "done" /\ result' = a /\ frames' = <<>>
       ELSE /\ frames' = [SubSeq(frames, 1, n) EXCEPT ![n].vals = Stored(@, dst, a)]
            /\ UNCHANGED <<status, result>>
  /\ UNCHANGED <<program, globals, objects, out>>

\* a is returned to an activation of this machine, in register dst of it, or
\* to the host.
Deliver(a, dst) ==
  LET n == Len(frames) - 1 IN
  /\ IF n = 0
       THEN /\ status' = "done" /\ result' = a
            /\ frames' = <<>>
            /\ UNCHANGED envs
       ELSE /\ frames' = [SubSeq(frames, 1, n) EXCEPT ![n].vals = Stored(@, dst, a)]
            /\ envs' = Mirrored(envs, frames[n].env, dst, a)
            /\ UNCHANGED <<status, result>>
  /\ UNCHANGED <<program, globals, arrays, closures, out>>

RReturn ==
  /\ RAt({"RETURN"})
  /\ Deliver(IF RFound THEN R(RIn.a) ELSE None, Top.dst)

\* Past the last instruction the value is none.
RFallOff ==
  /\ Running("register") /\ Top.ip = Len(RFunction.code)
  /\ Deliver(None, Top.dst)

RegisterNext ==
  IF RRefused THEN Abort
  ELSE \/ RMove \/ RStoreGlobal \/ RBinary \/ RUnary \/ RGetProp \/ RStoreProp
       \/ RMakeClosure \/ RJump \/ RJumpIfFalse \/ RCallFunction \/ RCallBuiltin
       \/ RCallMissing \/ RCallDynamic \/ RReturn \/ RFallOff
=============================================================================
