---------------------------- MODULE StackMachine ----------------------------
(***************************************************************************)
(* execute_function.  It runs closures, and every function that is called  *)
(* from one.  Variables live in environments only.                         *)
(***************************************************************************)
EXTENDS Runtime, SequencesExt

SFunction == instructions[Top.fn]
SIn == SFunction.code[Top.ip + 1]
SAt(ops) == Running("stack") /\ Top.ip < Len(SFunction.code) /\ SIn.op \in ops

\* The n topmost operands, and what is left without them.
Tops(n) == SubSeq(Top.vals, Len(Top.vals) - n + 1, Len(Top.vals))
Under(n) == SubSeq(Top.vals, 1, Len(Top.vals) - n)

\* The next instruction is reached with these operands.
Resume(vals) ==
  /\ frames' = Continue(vals, Top.ip + 1)
  /\ UNCHANGED <<program, status, result>>

\* ValueStack::pop fails.
Underflow ==
  Running("stack") /\ Top.ip < Len(SFunction.code) /\ Len(Top.vals) < Operands(SIn)

-----------------------------------------------------------------------------
(* Variables *)

\* The environment d steps out from that of the activation, 0 if there is
\* none.
EnvAt(d) == LET up[i \in 0 .. d] == IF i = 0 THEN Top.env
                                    ELSE IF up[i - 1] = 0 THEN 0 ELSE envs[up[i - 1]].parent
            IN  up[d]

Accessible(d, s) == EnvAt(d) # 0 /\ s < Len(envs[EnvAt(d)].slots)

SLoadLocal ==
  /\ SAt({"LOAD_LOCAL"})
  /\ IF Accessible(SIn.depth, SIn.slot)
       THEN /\ Resume(Append(Top.vals, envs[EnvAt(SIn.depth)].slots[SIn.slot + 1]))
            /\ UNCHANGED <<globals, objects, out>>
       ELSE Abort

SStoreLocal ==
  /\ SAt({"STORE_LOCAL"})
  /\ IF Accessible(SIn.depth, SIn.slot)
       THEN /\ envs' = [envs EXCEPT ![EnvAt(SIn.depth)].slots[SIn.slot + 1] = Tops(1)[1]]
            /\ Resume(Under(1))
            /\ UNCHANGED <<globals, arrays, closures, out>>
       ELSE Abort

SLoadGlobal ==
  /\ SAt({"LOAD_GLOBAL"})
  /\ Resume(Append(Top.vals, IF SIn.name \in DOMAIN globals THEN globals[SIn.name] ELSE None))
  /\ UNCHANGED <<globals, objects, out>>

SStoreGlobal ==
  /\ SAt({"STORE_GLOBAL"})
  /\ globals' = With(globals, SIn.name, Tops(1)[1])
  /\ Resume(Under(1))
  /\ UNCHANGED <<objects, out>>

-----------------------------------------------------------------------------
(* Operands *)

SPush ==
  /\ SAt({"PUSH_LITERAL"})
  /\ Resume(Append(Top.vals, SIn.lit))
  /\ UNCHANGED <<globals, objects, out>>

SPop ==
  /\ SAt({"POP"})
  /\ Resume(Under(1))
  /\ UNCHANGED <<globals, objects, out>>

SScope ==
  /\ SAt({"ENTER_SCOPE", "EXIT_SCOPE"})
  /\ Resume(Top.vals)
  /\ UNCHANGED <<globals, objects, out>>

SBinary ==
  LET a == Tops(2)[1]
      b == Tops(2)[2]
  IN
  /\ SAt(BinaryOps)
  /\ IF Defined(SIn.op, a, b, Size(b))
       THEN /\ Resume(Append(Under(2), Compute(SIn.op, a, b)))
            /\ UNCHANGED <<globals, objects, out>>
       ELSE Abort

SUnary ==
  LET a == Tops(1)[1] IN
  /\ SAt(UnaryOps)
  /\ IF UnaryDefined(SIn.op, a)
       THEN /\ Resume(Append(Under(1), Unary(SIn.op, a, Size(a))))
            /\ UNCHANGED <<globals, objects, out>>
       ELSE Abort

SGetProp ==
  LET n == Operands(SIn)
      obj == Tops(n)[1]
  IN
  /\ SAt({"GET_PROP"})
  /\ Resume(Append(Under(n), IF ByIndex(SIn) THEN Element(obj, Tops(n)[2])
                             ELSE Property(obj, SIn.lit)))
  /\ UNCHANGED <<globals, objects, out>>

\* Only an array can be stored to.
SStoreProp ==
  LET n == Operands(SIn)
      obj == Tops(n)[1]
      k == Key(IF ByIndex(SIn) THEN Tops(n)[2] ELSE SIn.lit)
  IN
  /\ SAt({"STORE_PROP"})
  /\ IF obj.t = "array"
       THEN /\ arrays' = [arrays EXCEPT ![obj.v] = With(@, k, Tops(n)[n])]
            /\ Resume(Under(n))
            /\ UNCHANGED <<globals, closures, envs, out>>
       ELSE Abort

\* Deviation: the environment kept is the one around that of the activation.
SMakeClosureOneOut ==
  /\ SAt({"MAKE_CLOSURE"})
  /\ closures' = Append(closures, [name |-> SIn.name, env |-> EnvAt(1)])
  /\ Resume(Append(Top.vals, FunctionRef(Len(closures) + 1)))
  /\ UNCHANGED <<globals, arrays, envs, out>>

SMakeClosure ==
  /\ SAt({"MAKE_CLOSURE"})
  /\ closures' = Append(closures, [name |-> SIn.name, env |-> Top.env])
  /\ Resume(Append(Top.vals, FunctionRef(Len(closures) + 1)))
  /\ UNCHANGED <<globals, arrays, envs, out>>

SJump ==
  /\ SAt({"JUMP"})
  /\ frames' = Continue(Top.vals, SIn.target)
  /\ UNCHANGED <<program, globals, objects, out, status, result>>

\* Deviation: the condition is looked at and left where it is.
SJumpIfFalsePeeks ==
  /\ SAt({"JUMP_IF_FALSE"})
  /\ frames' = Continue(Top.vals, IF Truth(Tops(1)[1]) THEN Top.ip + 1 ELSE SIn.target)
  /\ UNCHANGED <<program, globals, objects, out, status, result>>

SJumpIfFalse ==
  /\ SAt({"JUMP_IF_FALSE"})
  /\ frames' = Continue(Under(1), IF Truth(Tops(1)[1]) THEN Top.ip + 1 ELSE SIn.target)
  /\ UNCHANGED <<program, globals, objects, out, status, result>>

-----------------------------------------------------------------------------
(* Calls *)

\* Built-in functions are tried first.  Here their errors count.  (A built-in
\* kept from an earlier call is called twice if it fails; those that can fail
\* have no other effect then.)
SCallBuiltin ==
  LET args == Tops(SIn.argc) IN
  /\ SAt({"CALL"}) /\ SIn.name \in Builtins
  /\ IF BuiltinFails(SIn.name, args) THEN Abort
     ELSE /\ BuiltinEffect(SIn.name, args)
          /\ Resume(Append(Under(SIn.argc), BuiltinValue(SIn.name, args)))
          /\ UNCHANGED <<globals, closures, envs>>

\* Deviation: the new environment is current before its parent is set.
SActivateItsOwnParent(name, parent, n, how) ==
  LET f == instructions[name]
      args == Tops(SIn.argc)
  IN
  IF f.variadic \/ SIn.argc <= f.params
    THEN /\ arrays' = arrays \o Rest(f, args)
         /\ envs' = Append(envs, [parent |-> Len(envs) + 1, slots |-> Bind(f, f.size, args)])
         /\ frames' = Append(Continue(Under(n), Top.ip + 1),
                             [NewFrame("stack", name, Len(envs) + 1, <<>>, args)
                                EXCEPT !.site = how])
         /\ UNCHANGED <<program, globals, closures, out, status, result>>
    ELSE Abort

\* The activation of the function called name in the environment parent,
\* when n operands are taken from the stack, the arguments last.  how becomes
\* its site.
SActivate(name, parent, n, how) ==
  LET f == instructions[name]
      args == Tops(SIn.argc)
  IN
  IF f.variadic \/ SIn.argc <= f.params
    THEN /\ arrays' = arrays \o Rest(f, args)
         /\ envs' = Append(envs, [parent |-> parent, slots |-> Bind(f, f.size, args)])
         /\ frames' = Append(Continue(Under(n), Top.ip + 1),
                             [NewFrame("stack", name, Len(envs) + 1, <<>>, args)
                                EXCEPT !.site = how])
         /\ UNCHANGED <<program, globals, closures, out, status, result>>
    ELSE Abort

SCallFunction ==
  /\ SAt({"CALL"}) /\ SIn.name \in DOMAIN instructions \ Builtins
  /\ SActivate(SIn.name, 0, SIn.argc,
               IF <<Top.fn, Top.ip>> \in cached THEN "cached" ELSE "named")

SCallMissing ==
  /\ SAt({"CALL"}) /\ SIn.name \notin DOMAIN instructions \cup Builtins \cup {Dynamic}
  /\ Abort

SCallDynamic ==
  LET callee == Tops(SIn.argc + 1)[1] IN
  /\ SAt({"CALL"}) /\ SIn.name = Dynamic
  /\ IF Callable(callee)
       THEN SActivate(closures[callee.v].name, closures[callee.v].env, SIn.argc + 1,
                      "other")
       ELSE Abort

-----------------------------------------------------------------------------
(* The end of an activation *)

SFinishes == \/ SAt({"RETURN"})
             \/ Running("stack") /\ Top.ip >= Len(SFunction.code)

\* RETURN takes the topmost operand, if there is one.
ReturnValue ==
  IF SAt({"RETURN"}) /\ Top.vals # <<>> THEN Tops(1)[1] ELSE None

\* The caller runs on this machine too.  A CALL by name keeps the function
\* it has found once the call has succeeded.
SReturn ==
  LET n == Len(frames) - 1 IN
  /\ SFinishes
  /\ n > 0 /\ frames[n].vm = "stack" /\ Top.site # "again"
  /\ frames' = [Front(frames) EXCEPT ![n].vals = Append(@, ReturnValue)]
  /\ cached' = IF Top.site = "named" THEN cached \cup {<<frames[n].fn, frames[n].ip - 1>>}
                                    ELSE cached
  /\ UNCHANGED <<instructions, functions_v2, globals, objects, out, status, result>>

\* Deviation: the error of the first attempt is forgotten.
SReturnAgainForgiven ==
  LET n == Len(frames) - 1 IN
  /\ SFinishes
  /\ n > 0 /\ Top.site = "again"
  /\ frames' = [Front(frames) EXCEPT ![n].vals = Append(@, ReturnValue)]
  /\ UNCHANGED <<program, globals, objects, out, status, result>>

\* A call made again has succeeded: inner_err still holds the error of the
\* attempt before it, and the caller ends with that.
SReturnAgain ==
  /\ SFinishes
  /\ Len(frames) > 1 /\ Top.site = "again"
  /\ Abort

StackNext ==
  IF Underflow THEN Abort
  ELSE \/ SLoadLocal \/ SStoreLocal \/ SLoadGlobal \/ SStoreGlobal \/ SPush \/ SPop
       \/ SScope \/ SBinary \/ SUnary \/ SGetProp \/ SStoreProp \/ SMakeClosure
       \/ SJump \/ SJumpIfFalse \/ SCallBuiltin \/ SCallFunction \/ SCallMissing
       \/ SCallDynamic \/ SReturn \/ SReturnAgain
=============================================================================
