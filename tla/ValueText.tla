----------------------------- MODULE ValueText -----------------------------
(***************************************************************************)
(* How a value is written into a template, arrays within arrays included.  *)
(* Recursive, and therefore apart from Templates.                          *)
(***************************************************************************)
EXTENDS TemplateValues

RECURSIVE TextOf(_)
TextOf(v) ==
  CASE v[1] \in {"none", "bool"} -> <<>>
    [] IsArr(v) -> FlattenSeq([i \in DOMAIN Entries(v) |-> TextOf(OrderedEntries(v)[i][2])])
    [] OTHER -> Escaped(v)

RECURSIVE PlainText(_, _)
PlainText(v, raw) ==
  CASE v = None -> <<>>
    [] IsArr(v) -> Joined([i \in DOMAIN Entries(v) |->
                             PlainText(OrderedEntries(v)[i][2], raw)], " ")
    [] OTHER -> Show(v, raw)

StyleText(v, raw) ==
  IF ~IsArr(v) THEN Show(v, raw)
  ELSE Joined([i \in DOMAIN Entries(v) |->
                 LET x == OrderedEntries(v)[i]
                 IN  Show(Str(x[1]), raw) \o Mark(": ") \o Show(x[2], raw)], "; ")

AttributeText(name, v, raw) == IF name = "style" THEN StyleText(v, raw) ELSE PlainText(v, raw)
=============================================================================
