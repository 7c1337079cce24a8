----------------------------- MODULE Templates -----------------------------
(***************************************************************************)
(* The functions that $jsx and $html make of a template.  $jsx parses the  *)
(* source into a tree when the function is made; the tree is rendered each *)
(* time it is called.  $html scans its source at every call.               *)
(*                                                                         *)
(* A source for $jsx is a sequence of pieces, each what one reader of the  *)
(* parser consumes; one for $html is a sequence of characters.  Output is  *)
(* a sequence of atoms.  Scripts cannot give $jsx components or options.   *)
(***************************************************************************)
EXTENDS TemplateValues

CONSTANTS
  Sources,   \* the sources given to $jsx
  Formats,   \* the sources given to $html
  Values,    \* the values there are
  PropMaps,  \* the arguments of calls: name |-> value
  InText(_),           \* how a value is written as text (see ValueText),
  InAttribute(_, _, _) \*   and as an attribute with a name, escaped or not

VARIABLES
  kind,    \* "jsx" or "html"
  source,  \* what was given to it
  phase,   \* "parsing", "refused" or "ready"
  pos,     \* the next piece
  nodes,   \* the tree: what is read of each node, the children by their numbers
  open,    \* the nodes of the elements around the next piece, outermost first
  props,   \* the argument of the last call
  out      \*   and {what it returned}; {} before the first call

tree == <<nodes, open>>
vars == <<kind, source, phase, pos, tree, props, out>>

------------------------------------------------------------------------------
(* Pieces *)

Text(s) == [k |-> "text", text |-> s]
Braced(e) == [k |-> "expr", expr |-> e]
Tag(tag, attrs) == [k |-> "tag", tag |-> tag, attrs |-> attrs]
Fragment == Tag("", <<>>)
SelfClosing(tag, attrs) == [k |-> "void", tag |-> tag, attrs |-> attrs]
Closing(tag) == [k |-> "close", tag |-> tag]
Broken == [k |-> "broken"]   \* whatever a reader gives up on

Expression == [literal : Values] \cup [path : Seq(STRING)]
Attribute ==
  [kind : {"static"}, name : STRING, value : STRING] \cup [kind : {"flag"}, name : STRING]
  \cup [kind : {"expr"}, name : STRING, value : Expression]
  \cup [kind : {"spread"}, value : Expression]
Piece ==
  [k : {"text"}, text : STRING] \cup [k : {"expr"}, expr : Expression]
  \cup [k : {"tag"}, tag : STRING, attrs : Seq(Attribute)]
  \cup [k : {"void"}, tag : STRING, attrs : Seq(Attribute)]
  \cup [k : {"close"}, tag : STRING] \cup {Broken}

ASSUME TemplatesAssumption ==
  /\ \A v \in Values : IsArr(v) => Entries(v) \in Seq(STRING \X Values)
  /\ \A map \in PropMaps : \A x \in DOMAIN map : map[x] \in Values
  /\ Sources \subseteq Seq(Piece)
  /\ Formats \subseteq Seq(STRING)

------------------------------------------------------------------------------
(* Rendering attributes *)

Evaluated(name, value, raw) == [name |-> name, value |-> value, raw |-> raw]

Evaluate(a, map) ==
  CASE a.kind = "static" -> <<Evaluated(a.name, Str(a.value), TRUE)>>
    [] a.kind = "flag" -> <<Evaluated(a.name, Bool(TRUE), TRUE)>>
    [] a.kind = "expr" -> <<Evaluated(a.name, Resolve(a.value, map), FALSE)>>
    [] a.kind = "spread" ->
         LET v == Resolve(a.value, map)
         IN  IF ~IsArr(v) THEN <<>>
             ELSE [i \in DOMAIN Entries(v) |->
                     Evaluated(OrderedEntries(v)[i][1], OrderedEntries(v)[i][2], FALSE)]

EvaluateAttributes(attrs, map) == FlattenSeq([i \in DOMAIN attrs |-> Evaluate(attrs[i], map)])

RenderAttribute(a) ==
  CASE a.value \in {None, Bool(FALSE)} -> <<>>
    [] a.value = Bool(TRUE) -> Mark(" ") \o Name(a.name)
    [] OTHER -> Mark(" ") \o Name(a.name) \o Mark("=\"")
                \o <<<<"text", InAttribute(a.name, a.value, a.raw)>>>> \o Mark("\"")

\* Mutant: the first of them counts.
IsFirst(i, attrs) == \A j \in DOMAIN attrs : attrs[j].name = attrs[i].name => i <= j

\* Of the attributes with one name the last counts, in its place.
IsLast(i, attrs) == \A j \in DOMAIN attrs : attrs[j].name = attrs[i].name => j <= i

RenderAttributes(attrs, map) ==
  LET all == EvaluateAttributes(attrs, map)
  IN  FlattenSeq([i \in DOMAIN all |->
                    IF IsLast(i, all) THEN RenderAttribute(all[i]) ELSE <<>>])

------------------------------------------------------------------------------
(* Rendering a tree *)

OpeningTag(tag, attrs, map) == Mark("<") \o Name(tag) \o RenderAttributes(attrs, map)
ClosingTag(tag) == Mark("</") \o Name(tag) \o Mark(">")

RenderLeaf(node, map) ==
  CASE node.k = "text" -> Raw(node.text)
    [] node.k = "expr" -> <<<<"text", InText(Resolve(node.expr, map))>>>>
    [] node.k = "void" -> OpeningTag(node.tag, node.attrs, map) \o Mark("/>")

RenderElement(node, inner, map) ==
  IF node.tag = "" THEN inner
  ELSE OpeningTag(node.tag, node.attrs, map) \o Mark(">") \o inner \o ClosingTag(node.tag)

RenderNode(root, map) ==
  LET render[n \in DOMAIN nodes] ==
        IF nodes[n].k # "element" THEN RenderLeaf(nodes[n], map)
        ELSE RenderElement(nodes[n],
                           FlattenSeq([i \in DOMAIN nodes[n].children |->
                                         render[nodes[n].children[i]]]), map)
  IN  render[root]

------------------------------------------------------------------------------
(* Filling in a format *)

\* $html replaces {key} by the value of the key, or by nothing; a brace that is
\* not closed stays.  Keys of the argument are one character long.
Characters(s) == [i \in DOMAIN s |-> <<"raw", s[i]>>]
Replacement(key, map) ==
  IF Len(key) = 1 /\ key[1] \in DOMAIN map THEN Shown(map[key[1]]) ELSE <<>>

\* std::string::find, with 0 for npos.
Find(s, c, from) ==
  LET found == {i \in from .. Len(s) : s[i] = c} IN IF found = {} THEN 0 ELSE Min(found)

\* Mutant: a brace that is not closed takes the rest of the format with it.
FillInClosed(s, map) ==
  LET fill[p \in 1 .. Len(s) + 1] ==
        LET brace == Find(s, "{", p)
            end == Find(s, "}", brace + 1)
        IN  IF brace = 0 THEN Characters(SubSeq(s, p, Len(s)))
            ELSE Characters(SubSeq(s, p, brace - 1))
                 \o (IF end = 0 THEN <<>>
                     ELSE Replacement(SubSeq(s, brace + 1, end - 1), map) \o fill[end + 1])
  IN  fill[1]

FillIn(s, map) ==
  LET fill[p \in 1 .. Len(s) + 1] ==
        LET brace == Find(s, "{", p)
            end == Find(s, "}", brace + 1)
        IN  IF brace = 0 \/ end = 0 THEN Characters(SubSeq(s, p, Len(s)))
            ELSE Characters(SubSeq(s, p, brace - 1))
                 \o Replacement(SubSeq(s, brace + 1, end - 1), map) \o fill[end + 1]
  IN  fill[1]

------------------------------------------------------------------------------
(* The parser: one piece a step *)

Element(tag, attrs) == [k |-> "element", tag |-> tag, attrs |-> attrs, children |-> <<>>]

\* Mutant: children in the order of a stack.
PushChild(ns, parent, child) == [ns EXCEPT ![parent].children = <<child>> \o @]

AddChild(ns, parent, child) == [ns EXCEPT ![parent].children = Append(@, child)]

Init ==
  /\ \/ kind = "jsx" /\ source \in Sources /\ phase = "parsing"
     \/ kind = "html" /\ source \in Formats /\ phase = "ready"
  /\ pos = 1
  /\ nodes = <<Element("", <<>>)>> /\ open = <<1>>
  /\ props = <<>>
  /\ out = {}

At(k) == phase = "parsing" /\ pos \in DOMAIN source /\ source[pos].k = k
AtEnd == phase = "parsing" /\ pos = Len(source) + 1
Expected == nodes[Last(open)].tag

Refuse == phase' = "refused" /\ UNCHANGED <<kind, source, pos, tree, props, out>>

Advance == pos' = pos + 1 /\ UNCHANGED <<kind, source, phase, props, out>>

ReadLeaf ==
  /\ \E k \in {"text", "expr", "void"} : At(k)
  /\ nodes' = AddChild(Append(nodes, source[pos]), Last(open), Len(nodes) + 1)
  /\ UNCHANGED open
  /\ Advance

ReadOpening ==
  /\ At("tag")
  /\ nodes' = Append(nodes, Element(source[pos].tag, source[pos].attrs))
  /\ open' = Append(open, Len(nodes) + 1)
  /\ Advance

ReadBroken == At("broken") /\ Refuse

\* parse_children returns to the call for the element around it, where the
\* element becomes a child.
Leave ==
  /\ nodes' = AddChild(nodes, open[Len(open) - 1], Last(open))
  /\ open' = Front(open)

\* Mutant: a closing tag closes whatever is open.
ReadAnyClosing ==
  /\ At("close") /\ Len(open) > 1
  /\ Leave
  /\ Advance

ReadClosing ==
  /\ At("close") /\ source[pos].tag = Expected /\ Len(open) > 1
  /\ Leave
  /\ Advance

ReadMismatch == At("close") /\ source[pos].tag # Expected /\ Refuse

\* Mutant: the first </> ends the template.
ReadEndAnywhere ==
  /\ At("close") /\ source[pos].tag = Expected /\ Expected = ""
  /\ phase' = "ready" /\ pos' = pos + 1
  /\ UNCHANGED <<kind, source, tree, props, out>>

\* </> outside of all elements ends the template; what is behind it is dropped.
ReadEnd ==
  /\ At("close") /\ source[pos].tag = Expected /\ Len(open) = 1
  /\ phase' = "ready" /\ pos' = pos + 1
  /\ UNCHANGED <<kind, source, tree, props, out>>

\* The end of the source closes fragments only.
EndFragment ==
  /\ AtEnd /\ Expected = "" /\ Len(open) > 1
  /\ Leave
  /\ UNCHANGED <<kind, source, phase, pos, props, out>>

EndUnclosed == AtEnd /\ Expected # "" /\ Refuse

EndTemplate ==
  /\ AtEnd /\ Expected = "" /\ Len(open) = 1
  /\ phase' = "ready"
  /\ UNCHANGED <<kind, source, pos, tree, props, out>>

Parse ==
  \/ ReadLeaf \/ ReadOpening \/ ReadBroken \/ ReadClosing \/ ReadMismatch \/ ReadEnd
  \/ EndFragment \/ EndUnclosed \/ EndTemplate

------------------------------------------------------------------------------
(* Calls of the function *)

Call(map) ==
  /\ phase = "ready"
  /\ props' = map
  /\ out' = {IF kind = "jsx" THEN RenderNode(1, map) ELSE FillIn(source, map)}
  /\ UNCHANGED <<kind, source, phase, pos, tree>>

Next == Parse \/ \E map \in PropMaps : Call(map)

Spec == Init /\ [][Next]_vars

------------------------------------------------------------------------------
(* What templates promise *)

\* The parser is inside the elements it has opened and has read what it has
\* passed; only a template that was accepted has been called.
TemplateTypeOK ==
  /\ kind \in {"jsx", "html"}
  /\ phase \in {"parsing", "refused", "ready"}
  /\ pos \in 1 .. Len(source) + 1
  /\ nodes # <<>> /\ open \in Seq(DOMAIN nodes) /\ open # <<>> /\ open[1] = 1
  /\ nodes[1].tag = ""
  /\ \A d \in DOMAIN open : nodes[open[d]].k = "element"
  /\ phase = "ready" => Len(open) = 1
  /\ out # {} => phase = "ready" /\ props \in PropMaps

\* Which sources are templates, said without a parser, by counting tags.  A closing
\* tag closes the opening one that stands as deep, with nothing less deep between.
Depth(n) ==
  Cardinality({i \in 1 .. n : source[i].k = "tag"})
    - Cardinality({i \in 1 .. n : source[i].k = "close"})

Closes(i, j) ==
  /\ source[i].k = "tag" /\ source[j].k = "close"
  /\ i < j /\ Depth(j) = Depth(i) - 1
  /\ \A m \in i .. j - 1 : Depth(m) >= Depth(i)

\* A closing tag of no element ends the template.
Ends == {n \in DOMAIN source : Depth(n) < 0}
Used == IF Ends = {} THEN Len(source) ELSE Min(Ends)

Balanced ==
  /\ \A i \in 1 .. Used : source[i].k # "broken"
  /\ \A i, j \in 1 .. Used : Closes(i, j) => source[i].tag = source[j].tag
  /\ Ends # {} => source[Used].tag = ""
  /\ Ends = {} => \A i \in 1 .. Used :
                    source[i].k = "tag" /\ source[i].tag # "" => \E j \in 1 .. Used : Closes(i, j)

\* $jsx accepts a template exactly if its tags pair up, but for fragments that
\* the end of the source closes (JsxParser::parse_children).
AcceptsBalanced ==
  kind = "jsx" =>
    /\ phase = "ready" => Balanced
    /\ phase = "refused" => ~Balanced

\* What each piece of a template comes to when the pieces are rendered in place.
InPlace(p, map) ==
  CASE p.k \in {"text", "expr", "void"} -> RenderLeaf(p, map)
    [] p.k \in {"tag", "close"} /\ p.tag = "" -> <<>>
    [] p.k = "tag" /\ p.tag # "" -> OpeningTag(p.tag, p.attrs, map) \o Mark(">")
    [] p.k = "close" /\ p.tag # "" -> ClosingTag(p.tag)

\* Parsed into a tree once and rendered from it at each call, a template comes out
\* piece by piece in the order it was written, nothing lost, moved or repeated.
RendersInPlace ==
  kind = "jsx" /\ out # {} =>
    out = {FlattenSeq([i \in 1 .. Used |-> InPlace(source[i], props)])}

\* Attributes assigned one after the other, as to a map: name |-> attribute.
Assign(m, a) == [x \in DOMAIN m \cup {a.name} |-> IF x = a.name THEN a ELSE m[x]]
Assigned(all) ==
  LET upTo[n \in 0 .. Len(all)] == IF n = 0 THEN <<>> ELSE Assign(upTo[n - 1], all[n])
  IN  upTo[Len(all)]

\* Attributes are like assignments to a map, spreads included: the name that is
\* set last wins, an earlier value never shows, and none takes the name away.
LaterAttributesWin ==
  kind = "jsx" /\ out # {} =>
    \A p \in {q \in ToSet(SubSeq(source, 1, Used)) : q.k \in {"tag", "void"}} :
      LET assigned == Assigned(EvaluateAttributes(p.attrs, props))
          shown == {x \in DOMAIN assigned : assigned[x].value \notin {None, Bool(FALSE)}}
          atoms == RenderAttributes(p.attrs, props)
          Alone(x) == RenderAttribute(assigned[x])
      IN  /\ \A x \in shown :
               /\ Cardinality({i \in DOMAIN atoms : atoms[i] = Name(x)[1]}) = 1
               /\ \E i \in 1 .. Len(atoms) - Len(Alone(x)) + 1 :
                    SubSeq(atoms, i, i + Len(Alone(x)) - 1) = Alone(x)
          /\ {a \in ToSet(atoms) : a[1] = "name"} = {Name(x)[1] : x \in shown}

\* The fields of a format, found from their closing braces: each closing brace ends
\* the field that the first opening one since the closing brace before it begins.
ClosersBefore(i) == {j \in 1 .. i - 1 : source[j] = "}"}
SegmentStart(i) == IF ClosersBefore(i) = {} THEN 1 ELSE 1 + Max(ClosersBefore(i))
Segment(i) ==
  LET from == SegmentStart(i)
      opens == {j \in from .. i - 1 : source[j] = "{"}
      first == Min(opens)
  IN  IF source[i] # "}" THEN <<>>
      ELSE IF opens = {} THEN Characters(SubSeq(source, from, i))
      ELSE Characters(SubSeq(source, from, first - 1))
           \o Replacement(SubSeq(source, first + 1, i - 1), props)

\* $html fills in every field once and leaves everything else as it is; what it has
\* filled in is not looked at again, whatever braces it contains.
FieldsFilledOnce ==
  kind = "html" /\ out # {} =>
    out = {FlattenSeq([i \in DOMAIN source |-> Segment(i)])
           \o Characters(SubSeq(source, SegmentStart(Len(source) + 1), Len(source)))}
=============================================================================
