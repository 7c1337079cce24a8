------------------------------ MODULE MCShell ------------------------------
(***************************************************************************)
(* The lines of the example that help gives, a definition on two lines and *)
(* a definition behind a declaration.                                      *)
(***************************************************************************)
EXTENDS Shell

MCLines ==
  {Line(<<1, -1>>, TRUE, TRUE, {"add"}),     \* function add(a, b) { return a + b }
   Line(<<>>, FALSE, FALSE, {}),             \* print(add(5, 3))
   Line(<<1>>, TRUE, TRUE, {}),              \* function two() {
   Line(<<-1>>, FALSE, FALSE, {"two"}),      \* }
   Line(<<1, -1>>, TRUE, FALSE, {"three"})}  \* var x = 1 function three() { }
=============================================================================
