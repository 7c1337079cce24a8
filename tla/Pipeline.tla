------------------------------ MODULE Pipeline ------------------------------
(***************************************************************************)
(* From a program to its outcome: the parser compiles it, compile_to_us2   *)
(* translates each function, the initialisers of the globals run, and the  *)
(* host calls main, either by name or as a function value.                 *)
(***************************************************************************)
EXTENDS Machine, Translate, Verifier

CONSTANTS
  Programs,  \* [tree, ok, fns, meant]: parse trees, what the parser makes of
             \* them (see CodeGen) and what they mean (see Meaning)
  Entries    \* the machines that main begins on

VARIABLES
  entry,    \* the machine that main begins on
  phase,    \* "load", "translate", "init", "main" or "end"
  meant,    \* what the program means
  promised, \* the code of the program keeps the parser's promises
  strayed   \* what has been done that no program asks for (see Strays): a
            \* history, only the properties look at it

about == <<entry, meant, promised>>
vars == <<runtime, about, strayed, phase, translation>>

\* The function that holds the initialisers of the globals.
InitName == "__globals_init_0"

\* What compile_to_us2 is given of a function.
SourceOf(f) == [code |-> f.code, size |-> f.size, depth |-> f.depth]
Nothing == [code |-> <<>>, size |-> 0, depth |-> <<>>]

\* What is compiled without an error.
Accepted == {p \in Programs : p.ok}

\* Code as the two machines take it to be: it passes Verifier, and each of its
\* functions is among those that Translate is verified for.  The parser does
\* not keep this promise always: it takes the assignment to an element for a
\* value, though nothing is pushed for it, and moves a jump in the increment
\* of a for loop without setting its target right.
Promising(fns) ==
  /\ Checked(fns)
  /\ {InitName, "main"} \cap DOMAIN fns \subseteq Outermost(fns)
  /\ \A n \in DOMAIN fns : SourceOf(fns[n]) \in Sources

ASSUME PipelineAssumption ==
  /\ Entries \subseteq {"register", "stack"}
  /\ \A p \in Accepted : "main" \in DOMAIN p.fns

\* A program with an error in it is compiled to nothing.
Init ==
  /\ entry \in Entries
  /\ \E p \in Programs :
       /\ instructions = p.fns
       /\ meant = p.meant
       /\ promised = (p.ok /\ Promising(p.fns))
       /\ status = IF p.ok THEN "idle" ELSE "error"
       /\ phase = IF p.ok THEN "load" ELSE "end"
  /\ functions_v2 = <<>> /\ globals = <<>>
  /\ arrays = <<>> /\ closures = <<>> /\ envs = <<>> /\ frames = <<>> /\ cached = {}
  /\ out = <<>> /\ result = None
  /\ strayed = {}
  /\ Begin(Nothing)

\* The functions not translated yet; one is chosen, no matter which.
Untranslated == {n \in DOMAIN instructions : n \notin DOMAIN functions_v2}
Chosen == CHOOSE n \in Untranslated : TRUE

Load ==
  LET s == SourceOf(instructions[Chosen]) IN
  /\ phase = "load" /\ Untranslated # {}
  /\ phase' = "translate"
  /\ source' = s
  /\ next_slot' = s.size /\ max_slot' = s.size
  /\ last_def' = [r \in 1 .. s.size |-> -1]
  /\ UNCHANGED <<runtime, about, strayed, ip, code, slot_overrides, legacy_to_code,
                 jumps, finished>>

Translate ==
  /\ phase = "translate"
  /\ TranslateNext
  /\ UNCHANGED <<runtime, about, strayed, phase>>

\* Deviation: the frame has the slots of the function and no registers for its
\* operands.
RegisterUnsized ==
  LET f == instructions[Chosen] IN
  /\ phase = "translate" /\ finished
  /\ phase' = "load"
  /\ functions_v2' = With(functions_v2, Chosen,
                          [code |-> code, frame_size |-> f.size, params |-> f.params,
                           variadic |-> f.variadic])
  /\ source' = Nothing
  /\ ip' = 0 /\ next_slot' = 0 /\ max_slot' = 0 /\ code' = <<>> /\ last_def' = <<>>
  /\ slot_overrides' = <<>> /\ legacy_to_code' = <<>> /\ jumps' = {} /\ finished' = FALSE
  /\ UNCHANGED <<instructions, cached, globals, objects, frames, out, status, result, about,
                 strayed>>

Register ==
  LET f == instructions[Chosen] IN
  /\ phase = "translate" /\ finished
  /\ phase' = "load"
  /\ functions_v2' = With(functions_v2, Chosen,
                          [code |-> code, frame_size |-> max_slot, params |-> f.params,
                           variadic |-> f.variadic])
  /\ source' = Nothing
  /\ ip' = 0 /\ next_slot' = 0 /\ max_slot' = 0 /\ code' = <<>> /\ last_def' = <<>>
  /\ slot_overrides' = <<>> /\ legacy_to_code' = <<>> /\ jumps' = {} /\ finished' = FALSE
  /\ UNCHANGED <<instructions, cached, globals, objects, frames, out, status, result, about,
                 strayed>>

RunInit ==
  /\ phase = "load" /\ Untranslated = {}
  /\ IF InitName \in DOMAIN instructions
       THEN Run("register", InitName) /\ phase' = "init"
       ELSE UNCHANGED runtime /\ phase' = "init"
  /\ UNCHANGED <<about, strayed, translation>>

\* What this step of the machines does that no program asks for: a call that
\* has failed is made again ("again"), a built-in function fails and the
\* register machine goes on ("ignored"), print is given a string that is not
\* its argument ("guessed").
Strays ==
  {s \in {"again", "ignored", "guessed"} :
     CASE s = "again" -> \E i \in DOMAIN frames' : frames'[i].site = "again"
       [] s = "ignored" -> /\ RAt({"CALL"}) /\ RFound
                           /\ BuiltinFails(RIn.name, RArgs)
       [] s = "guessed" -> RAt({"CALL"}) /\ RFound /\ RShifted}

Execute ==
  /\ MachineNext
  /\ strayed' = strayed \cup Strays
  /\ UNCHANGED <<about, phase, translation>>

RunMain ==
  /\ phase = "init" /\ status \in {"idle", "done"}
  /\ Run(entry, "main")
  /\ phase' = "main"
  /\ UNCHANGED <<about, strayed, translation>>

Finish ==
  /\ \/ phase = "init" /\ status = "error"
     \/ phase = "main" /\ status \in {"done", "error"}
  /\ phase' = "end"
  /\ UNCHANGED <<runtime, about, strayed, translation>>

Done == phase = "end" /\ UNCHANGED vars

Next == Load \/ Translate \/ Register \/ RunInit \/ Execute \/ RunMain \/ Finish \/ Done

Spec == Init /\ [][Next]_vars /\ WF_vars(Next)

-----------------------------------------------------------------------------
(* Properties *)

TypeOK ==
  /\ status \in {"idle", "running", "done", "error"}
  /\ phase \in {"load", "translate", "init", "main", "end"}
  /\ DOMAIN functions_v2 \subseteq DOMAIN instructions
  /\ \A i \in DOMAIN frames :
       /\ frames[i].vm \in {"register", "stack"}
       /\ frames[i].fn \in DOMAIN instructions
       /\ frames[i].env \in DOMAIN envs
       /\ frames[i].vals \in Seq(Value)
  /\ \A e \in DOMAIN envs : envs[e].parent < e /\ envs[e].slots \in Seq(Value)
  /\ out \in Seq(Seq(Value)) /\ result \in Value

\* Compiled, translated and run on either machine, a program prints and
\* returns what it means.
OutcomeAsMeant == phase = "end" => Outcome(status = "done", out, result) = meant

\* A function stores to a variable of a function around it.
StoresOutside ==
  \E n \in DOMAIN instructions : \E i \in DOMAIN instructions[n].code :
    instructions[n].code[i].op = "STORE_LOCAL" /\ instructions[n].code[i].depth > 0

\* A value that either of two branches computes is stored.
StoresAtJoin ==
  \E n \in DOMAIN instructions : \E i, j \in DOMAIN instructions[n].code :
    LET c == instructions[n].code IN
    c[i].op = "STORE_LOCAL" /\ c[j].op \in Jumps /\ c[j].target = i - 1

\* What keeps a program from what it means.
Diverted ==
  \/ ~promised
  \/ strayed \cap {"ignored", "guessed"} # {}
  \/ entry = "register" /\ (StoresOutside \/ StoresAtJoin)

\* There are no other reasons for a program to do what it does not mean than
\* these: no slot, register, jump or operand is taken for another one on the
\* way.  (A call made again shows what it shows once more, and the program
\* ends in the error that it means to end in.)
RunsAsMeant ==
  LET shown == SeenAll(out)
      again == "again" \in strayed
  IN
  \/ /\ \/ IsPrefix(shown, meant.out)
        \/ again /\ ~meant.ok /\ IsPrefix(meant.out, shown)
     /\ phase = "end" =>
          \/ Outcome(status = "done", out, result) = meant
          \/ again /\ ~meant.ok /\ status = "error"
  \/ Diverted

\* What is made again is lost: whatever the second attempt does, and however
\* many calls there are around it, the program ends in an error.
RetriedCallsFail == "again" \in strayed /\ phase = "end" => status = "error"

\* The stack machine never runs out of operands, and never reaches out of
\* its environments: no "Stack underflow", "Invalid variable access" or
\* "Invalid variable store" occurs where the promises are kept, whichever
\* calls, returns, errors and second attempts come between.
OperandsSuffice ==
  promised =>
    /\ ~Underflow
    /\ SAt({"LOAD_LOCAL", "STORE_LOCAL"}) => Accessible(SIn.depth, SIn.slot)

\* An activation's operands are used up when it ends: of a stack machine
\* activation nothing is left but the value it returns.
NothingLeftBehind == promised => (SFinishes => Len(Top.vals) <= 1)

\* A function inside function n stores to slot s of n.
StoredInside(n, s) ==
  \E m \in DOMAIN instructions : \E i \in DOMAIN instructions[m].code :
    LET c == instructions[m].code[i] IN
    /\ c.op = "STORE_LOCAL" /\ c.depth > 0 /\ c.slot = s
    /\ instructions[m].around[c.depth + 1] = n

\* Activations of the register machine lie below those of the stack machine.
\* What is in their registers is what closures see in the environment, and
\* that through all calls and returns, but for two kinds of registers: those
\* that a closure stores to (the activation never learns of it), and those
\* where array_set has put an array in place of another value (the closures
\* never learn of it).
RegistersAreMirrored ==
  promised =>
    \A i \in DOMAIN frames :
      LET slots == envs[frames[i].env].slots
          vals == frames[i].vals
      IN
      frames[i].vm = "register" =>
        /\ \A j \in 1 .. i : frames[j].vm = "register"
        /\ Len(slots) = Len(vals)
        /\ \A r \in DOMAIN vals :
             \/ slots[r] = vals[r]
             \/ vals[r].t = "array" /\ slots[r].t # "array"
             \/ StoredInside(frames[i].fn, r - 1)

\* An activation on registers never reaches out of its frame and never jumps
\* out of its code: what the translator sizes and aims for one function at a
\* time is what run() later finds, so that no "Invalid MOVE source", "Invalid
\* jump target" or the like occurs where the promises are kept, whichever
\* calls came between.
RegistersSuffice ==
  promised /\ Running("register") =>
    /\ Top.ip \in 0 .. Len(RFunction.code)
    /\ Top.ip < Len(RFunction.code) =>
         /\ RIn.dst.depth = 0 /\ RIn.a.depth = 0 /\ RIn.b.depth = 0
         /\ RFound /\ Writes(RIn) \subseteq 0 .. Len(Top.vals) - 1
         /\ RIn.op \in Jumps => RIn.target \in 0 .. Len(RFunction.code)

\* Every program here comes to an end, since it means to: no jump leads back
\* to where it should not.
Ends == <>(phase = "end" \/ ~promised)
=============================================================================
