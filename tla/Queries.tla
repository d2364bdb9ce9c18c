------------------------------- MODULE Queries -------------------------------
(***************************************************************************)
(* What the queries of XPath mean: a query is written down as a structure, *)
(* printed, parsed and executed on a tree, and has to select what it says. *)
(*                                                                         *)
(* A query is a sequence of steps [axis, name, tests].  Left out, because  *)
(* libjudo takes them otherwise than XPath: "and" before "or", a path or a *)
(* position within [], "and" and "or" within not(), positions under more   *)
(* than one parent, values that are empty, and the functions on a child.   *)
(***************************************************************************)
EXTENDS XPath, TLC
LOCAL INSTANCE SequencesExt

VARIABLES query, target, result

queryVars == <<query, target, result>>

\* What a test compares: an attribute, the text or the name of the element, or
\* the texts of its children c
Subjects == {"attribute", "text", "name", "child"}

Has(s)          == [test |-> "has", of |-> s]
Is(test, s, x)  == [test |-> test, of |-> s, to |-> x]
Not(t)          == [test |-> "not", of |-> t]
Two(test, t, u) == [test |-> test, of |-> t, and |-> u]
Nth(n)          == [test |-> "position", of |-> n]

-----------------------------------------------------------------------------
Subject(s) == CASE s = "attribute" -> <<"@", "k">>
                [] s = "text" -> <<"text", "(", ")">>
                [] s = "name" -> <<"name", "(", ")">>
                [] s = "child" -> <<"c">>
Quoted(x)  == <<"'">> \o x \o <<"'">>

RECURSIVE Printed(_)
Printed(t) ==
  CASE t.test = "has" -> Subject(t.of)
    [] t.test = "equal" -> Subject(t.of) \o <<"=">> \o Quoted(t.to)
    [] t.test = "differs" -> Subject(t.of) \o <<" ", "!", "=", " ">> \o Quoted(t.to)
    [] t.test = "starts" -> <<"starts-with", "(">> \o Subject(t.of) \o <<",", " ">> \o Quoted(t.to) \o <<")">>
    [] t.test = "not" -> <<"not", "(">> \o Printed(t.of) \o <<")">>
    [] t.test \in {"and", "or"} -> Printed(t.of) \o <<" ", t.test, " ">> \o Printed(t.and)
    [] t.test = "position" -> <<t.of>>

PrintedQuery(steps) ==
  LET Step(s) == (IF s.axis = "all" THEN <<"/", "/">> ELSE <<"/">>) \o <<s.name>>
                   \o FlattenSeq([i \in 1..Len(s.tests) |-> <<"[">> \o Printed(s.tests[i]) \o <<"]">>])
  IN  FlattenSeq([i \in 1..Len(steps) |-> Step(steps[i])])

-----------------------------------------------------------------------------
ValuesOf(root, way, s) ==
  LET n == NodeAt(root, way)
  IN  CASE s = "attribute" -> {n.attribs[k] : k \in DOMAIN n.attribs \cap {<<"k">>}}
        [] s = "text" -> {TextOf(n)}
        [] s = "name" -> {n.name}
        [] s = "child" -> {TextOf(NodeAt(root, w)) : w \in Range(ChildrenOf(root, way, <<"c">>))}

RECURSIVE Holds(_, _, _)
Holds(root, way, t) ==
  CASE t.test = "has" -> ValuesOf(root, way, t.of) # {}
    [] t.test = "equal" -> t.to \in ValuesOf(root, way, t.of)
    [] t.test = "differs" -> \E x \in ValuesOf(root, way, t.of) : x # t.to
    [] t.test = "starts" -> \E x \in ValuesOf(root, way, t.of) : IsPrefix(t.to, x)
    [] t.test = "not" -> ~ Holds(root, way, t.of)
    [] t.test = "and" -> Holds(root, way, t.of) /\ Holds(root, way, t.and)
    [] t.test = "or" -> Holds(root, way, t.of) \/ Holds(root, way, t.and)

\* The elements a query means, in the order of the document
RECURSIVE Below(_, _)
Below(root, way) ==
  LET cs == ChildrenOf(root, way, <<"*">>)
  IN  <<way>> \o FlattenSeq([i \in 1..Len(cs) |-> Below(root, cs[i])])

Meant(root, steps) ==
  LET Named(ws, name) == SelectSeq(ws, LAMBDA w : name \in {"*", NodeAt(root, w).name[1]})
      Filter(ws, t) == IF t.test = "position"
                       THEN LET k == Positions[t.of] IN IF k <= Len(ws) THEN <<ws[k]>> ELSE <<>>
                       ELSE SelectSeq(ws, LAMBDA w : Holds(root, w, t))
      Step(ws, s) ==
        FoldLeft(Filter,
                 Named(CASE s.axis = "root" -> <<<<>>>>
                         [] s.axis = "all" -> Below(root, <<>>)
                         [] s.axis = "child" -> FlattenSeq([i \in 1..Len(ws) |-> ChildrenOf(root, ws[i], <<"*">>)]),
                       s.name),
                 s.tests)
  IN  FoldLeft(Step, <<>>, steps)

-----------------------------------------------------------------------------
(* Queries and trees                                                       *)
x == <<"x">>
xy == <<"x", "y">>

Simple == {Has("attribute"), Has("child"), Is("equal", "attribute", x), Is("equal", "child", x),
           Is("differs", "attribute", x), Is("equal", "text", x), Is("equal", "name", <<"b">>),
           Is("starts", "attribute", x)}
Some   == {Has("child"), Is("equal", "attribute", x), Not(Has("attribute")), Not(Is("equal", "child", x))}
Tests  == Simple \cup {Not(t) : t \in Simple} \cup
          {Two(op, t, u) : op \in {"and", "or"}, t \in Simple, u \in Some}
            \cup {Two(op, Has("attribute"), Two(op, Has("child"), t)) : op \in {"and", "or"}, t \in Simple}

Step_(axis, name, tests) == [axis |-> axis, name |-> name, tests |-> tests]
Root_(tests) == Step_("root", "a", tests)

Asked ==
  {<<Root_(<<>>), Step_("child", "b", <<t>>)>> : t \in Tests} \cup
  {<<Root_(<<t>>), Step_("child", "*", <<>>)>> : t \in Simple} \cup
  {<<Root_(<<>>), Step_("child", "b", <<t, u>>), Step_("child", "c", <<>>)>> : t \in Simple, u \in Some} \cup
  {<<Root_(<<>>), Step_("child", n, <<Nth(k), t>>)>> : n \in {"b", "*"}, k \in {"1", "2"}, t \in Simple} \cup
  {<<Root_(<<>>), Step_("child", "*", <<t, Nth("2")>>)>> : t \in Simple} \cup
  {<<Step_("all", n, <<t>>)>> : n \in {"a", "c", "*"}, t \in Simple \cup {Not(s) : s \in Simple}}

\* What is no query at all
Wrong == {<<"/", "a", "[">>, <<"/", "a", "[", "]">>, <<"/", "a", "]">>, <<"/", "a", ")">>,
          <<"/", "a", "[", "b">>, <<"/", "a", "[", "f", "(", ")", "]">>, <<"/", "a", "[", "@", "k", "!", "'", "x", "'", "]">>,
          <<"/", "a", "[", "@", "k", "=", "]">>, <<"/", "a", "=">>, <<"/", "a", ",">>,
          <<"/", "a", "[", "text", "(", "]">>, <<"/", "a", "[", "not", "(", "b", " ", "and", " ", "c", ")", "]">>}

Element(name, attribs, children) == [name |-> <<name>>, attribs |-> attribs, children |-> children]
Attribs == {<< >>, (<<"k">> :> x), (<<"k">> :> xy)}
Text(v) == [text |-> v]

Cs      == {Element("c", << >>, <<Text(x)>>), Element("c", (<<"k">> :> x), <<>>)}
Bs      == {Element("b", at, <<>>) : at \in Attribs} \cup
           {Element("b", << >>, <<Text(x), c>>) : c \in Cs} \cup {Element("b", (<<"k">> :> x), <<c>>) : c \in Cs}
Trees   == {Element("a", << >>, <<Text(xy), b, c>>) : b \in Bs, c \in Bs \cup Cs} \cup
           {Element("a", (<<"k">> :> xy), <<c, b>>) : b \in Bs, c \in Cs} \cup
           {Element("b", << >>, <<b>>) : b \in Bs}

QueryInit ==
  /\ \/ query \in {[text |-> PrintedQuery(steps), steps |-> steps] : steps \in Asked}
     \/ query \in {[text |-> q, steps |-> <<>>] : q \in Wrong}
  /\ target \in Trees
  /\ result = [asked |-> FALSE]

\* Query and execute() of XPath.cpp, as check() calls them with every packet.
\* is_root is what the memory of an AllOp held.
QueryNext ==
  \E is_root \in BOOLEAN :
    LET ops == parseQuery(query.text, is_root)
        v   == execute(ops.ops, target)
    IN  /\ ~ result.asked
        /\ result' = IF ops.error THEN [asked |-> TRUE, error |-> TRUE]
                     ELSE [asked |-> TRUE, error |-> FALSE, matched |-> v.ok, elems |-> v.elems,
                           is_root |-> is_root]
        /\ UNCHANGED <<query, target>>

-----------------------------------------------------------------------------
\* What the query that was asked means is what it has found.
Found ==
  LET meant == Meant(target, query.steps)
  IN  /\ ~ result.error
      /\ result.matched = (meant # <<>>)
      /\ result.matched => result.elems = meant

Descends == \E i \in DOMAIN query.steps : query.steps[i].axis = "all"

\* A query finds what it means, in the order of the document, and says whether
\* it has found anything; what is no query is refused.  A query with "//" does
\* so where the memory of its operator was zero (see AllDescends).
FindsWhatIsMeant ==
  /\ result.asked /\ query.steps = <<>> => result.error
  /\ result.asked /\ query.steps # <<>> /\ (Descends => ~ result.is_root) => Found

\* A query with "//" is not one for the root, for which alone its operator ends
\* early: "If we're only checking the root node bail early"
\* (src/libjudo/src/XPathOps.h:156).  The code breaks this, as AllOp asks
\* _is_root, which nothing sets.
AllDescends == result.asked /\ Descends => Found
=============================================================================
