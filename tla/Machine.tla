------------------------------ MODULE Machine ------------------------------
(***************************************************************************)
(* The two virtual machines together.  A run begins on the register        *)
(* machine, or on the stack machine if the host calls a function value.    *)
(* Every call of a closure moves to the stack machine, and there it stays  *)
(* until that call returns.                                                *)
(***************************************************************************)
EXTENDS RegisterMachine, StackMachine

\* The host has function name executed on the machine vm, without arguments.
Run(vm, name) ==
  LET f == IF vm = "register" THEN functions_v2[name] ELSE instructions[name]
      n == IF vm = "register" THEN f.frame_size ELSE f.size
      slots == Bind(f, n, <<>>)
  IN
  /\ status # "running"
  /\ status' = "running"
  /\ arrays' = arrays \o Rest(f, <<>>)
  /\ envs' = Append(envs, [parent |-> 0, slots |-> slots])
  /\ frames' = <<NewFrame(vm, name, Len(envs) + 1, IF vm = "register" THEN slots ELSE <<>>,
                         <<>>)>>
  /\ UNCHANGED <<program, globals, closures, out, result>>

\* A closure returns to the register machine, or to the host.
SReturnAcross ==
  /\ SFinishes
  /\ Len(frames) > 1 => frames[Len(frames) - 1].vm = "register"
  /\ Deliver(ReturnValue, Top.dst)

MachineNext == RegisterNext \/ StackNext \/ SReturnAcross
=============================================================================
