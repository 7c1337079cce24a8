------------------------------- MODULE Shell -------------------------------
(***************************************************************************)
(* The interactive shell (programs/repl.cpp): lines are collected until    *)
(* the shell takes them for complete and compiles them, as they are if     *)
(* there is a definition among them, wrapped in a function otherwise.  Of  *)
(* the interpreter below it only the functions it knows are modelled.      *)
(***************************************************************************)
EXTENDS Integers, FiniteSets, SequencesExt

CONSTANTS
  Lines,    \* what can be typed, see Line
  MaxLines  \* the lines collected at a time, a bound of the model

VARIABLES
  accumulated_code,  \* the lines not yet compiled
  brace_depth, in_function,
  known,     \* the functions of the interpreter
  entered,   \* those whose definition has been typed to the end
  stopped

vars == <<accumulated_code, brace_depth, in_function, known, entered, stopped>>

\* A line that is no command, nor blank with nothing collected (that does
\* nothing): its braces as 1 and -1, whether the word function is in it and
\* whether it begins with it, and the functions it defines.
Line(braces, word, first, names) ==
  [braces |-> braces, word |-> word, first |-> first, names |-> names]

Sum(s) == FoldLeft(LAMBDA a, b : a + b, 0, s)

\* Text that the parser can accept: no brace closes what none has opened.
Braces(code) == FlattenSeq([i \in DOMAIN code |-> code[i].braces])
Complete(code) ==
  /\ Sum(Braces(code)) = 0
  /\ \A i \in DOMAIN Braces(code) : Sum(SubSeq(Braces(code), 1, i)) >= 0
Names(code) == UNION {code[i].names : i \in DOMAIN code}

Init ==
  /\ accumulated_code = <<>> /\ brace_depth = 0 /\ in_function = FALSE
  /\ known = {} /\ entered = {}
  /\ stopped = FALSE

\* compile forgets all functions first; one that fails may have added some.
Compile(code) ==
  IF Complete(code) THEN known' = Names(code) ELSE known' \in SUBSET Names(code)

\* Without the word function the lines become the body of a function of their own.
Execute(code) ==
  IF \E i \in DOMAIN code : code[i].word THEN Compile(code) ELSE known' = {}

Enter(line) ==
  /\ Len(accumulated_code) < MaxLines
  /\ LET code == Append(accumulated_code, line)
         depth == brace_depth + Sum(line.braces)
         in == in_function \/ line.first
         waits == depth > 0 \/ (in /\ depth >= 0)
     IN  /\ entered' = entered \cup (IF Complete(code) THEN Names(code) ELSE {})
         /\ IF waits
            THEN /\ accumulated_code' = code /\ brace_depth' = depth /\ in_function' = in
                 /\ known' = known
            ELSE /\ accumulated_code' = <<>> /\ brace_depth' = 0 /\ in_function' = FALSE
                 /\ Execute(code)
  /\ UNCHANGED stopped

Clear ==
  /\ accumulated_code' = <<>> /\ brace_depth' = 0 /\ in_function' = FALSE
  /\ UNCHANGED <<known, entered, stopped>>

\* exit, quit or the end of the input; what has been collected is not compiled.
Exit == stopped' = TRUE /\ UNCHANGED <<accumulated_code, brace_depth, in_function, known, entered>>

Next == ~stopped /\ (Clear \/ Exit \/ \E line \in Lines : Enter(line))

Spec == Init /\ [][Next]_vars

\* A function whose definition has been typed is there from then on: "Define
\* functions that persist across REPL sessions", says help (repl.cpp:55), and
\* "Multi-line input supported (unbalanced braces continue)".
DefinitionsPersist == entered \subseteq known
=============================================================================
