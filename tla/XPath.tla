-------------------------------- MODULE XPath --------------------------------
(***************************************************************************)
(* The XPath queries of libjudo (src/libjudo/src/XPath.cpp, XPath.h,       *)
(* XPathOps.h and XPathFunctions.h), with which a session finds the        *)
(* packets an application has asked for.                                   *)
(*                                                                         *)
(* A query is a sequence of lexemes: the tokens of getNextToken() and      *)
(* whole identifiers.  Every quote in it is closed.  A name or a value is  *)
(* a sequence of lexemes as well, an element [name, attribs, children] as  *)
(* in Elements.  The elements that are selected are given by the way that  *)
(* leads to them, the indices of the children from the root on.            *)
(***************************************************************************)
EXTENDS Integers, Sequences, FiniteSets
LOCAL INSTANCE SequencesExt

Lexemes   == {"/", "[", "]", "@", "\"", "'", "=", "!", "(", ")", ":", " ", ","}  \* _tokens
Positions == [x \in {"1", "2", "3"} |-> CASE x = "1" -> 1 [] x = "2" -> 2 [] x = "3" -> 3]
functions == {<<"text">>, <<"name">>, <<"not">>, <<"starts-with">>}

\* An operator: its class, its _value and the operators it has; _is_root is
\* added to it by Constructed.
Op(class, value, args) == [op |-> class, value |-> value, args |-> args]
NULL == Op("NULL", <<>>, <<>>)

-----------------------------------------------------------------------------
\* The lexeme at pos, "" behind the end
Lexeme(q, pos)     == IF pos \in 1..Len(q) THEN q[pos] ELSE ""
IsName(q, pos) == Lexeme(q, pos) \notin Lexemes \cup {""}

\* Past the identifier at pos, if there is one
getNextToken(q, pos)      == IF IsName(q, pos) THEN pos + 1 ELSE pos
getNextIdentifier(q, pos) == SubSeq(q, pos, getNextToken(q, pos) - 1)

\* getOp() returns an operator, and leaves pos and _ops; or it throws.
Got(op, pos, ops) == [op |-> op, pos |-> pos, ops |-> ops, error |-> FALSE]
Invalid           == [op |-> NULL, pos |-> 0, ops |-> <<>>, error |-> TRUE]

\* operand() is the loop behind = and !=.
RECURSIVE getOp(_, _, _, _), operand(_, _, _)

operand(q, pos, ops) ==
  LET r == getOp(q, pos, "", ops)
  IN  IF pos > Len(q) + 1 THEN Invalid            \* std::out_of_range
      ELSE IF r.error \/ r.op # NULL THEN r ELSE operand(q, r.pos, r.ops)

\* The loop of getOp() ends at once if it is in no context.
Loop(q, op, pos, in_context, ops) ==
  IF in_context = "" THEN Got(op, pos, ops)
  ELSE getOp(q, pos, in_context, IF op = NULL THEN ops ELSE Append(ops, op))

\* The operator that was the last gets another one beside it.
Pair(class, r) == Op(class, <<>>, <<Last(r.ops), r.op>>)

logicOp(q, class, pos, in_context, ops) ==
  LET r == getOp(q, pos, in_context, ops)
  IN  IF r.error \/ r.ops = <<>> \/ (class = "AND" /\ r.op = NULL) THEN Invalid
      ELSE Got(Pair(class, r), r.pos, Front(r.ops))

compareOp(q, class, pos, in_context, ops) ==
  LET r == operand(q, pos, ops)
  IN  IF r.error \/ r.ops = <<>> THEN Invalid
      ELSE Loop(q, Pair(class, r), r.pos, in_context, Front(r.ops))

contextOp(q, pos, in_context, ops) ==
  LET r == getOp(q, pos, "[", ops)
  IN  IF r.error THEN r ELSE Loop(q, Op("CONTEXT", <<>>, <<r.op>>), r.pos, in_context, r.ops)

\* The name is the operator before, the arguments are what is added behind it.
functionOp(q, pos, in_context, ops) ==
  LET n    == Len(ops) - 1
      r    == getOp(q, pos, "(", Front(ops))
      args == SubSeq(r.ops, n + 1, Len(r.ops))
  IN  IF Last(ops).op = "ATTRIBUTE" \/ Last(ops).value \notin functions \/ r.error THEN Invalid
      ELSE Loop(q, Op("FUNCTION", Last(ops).value, args), r.pos, in_context, SubSeq(r.ops, 1, n))

getOp(q, pos, in_context, ops) ==
  LET c        == Lexeme(q, pos)
      next     == Lexeme(q, pos + 1)
      name(k)  == getNextIdentifier(q, k)
      on(op, k) == Loop(q, op, k, in_context, ops)
      step(class, k) == on(IF name(k) = <<>> THEN NULL ELSE Op(class, name(k), <<>>),
                           getNextToken(q, k))
      number   == next \in DOMAIN Positions /\ Lexeme(q, pos + 2) = "]"
      quoted   == SelectInSubSeq(q, pos + 1, Len(q), LAMBDA x : x = c)
  IN  CASE in_context # "" /\ Lexeme(q, getNextToken(q, pos)) = "" -> Invalid
        [] in_context = "" /\ c = "" -> Got(NULL, pos + 1, ops)
        [] IsName(q, pos) /\ (in_context = "" \/ next # "") -> step("NODE", pos)
        [] c = "/" /\ next = "/" -> step("ALL", pos + 2)
        [] c = "/" /\ next # "/" -> step(IF pos = 1 THEN "ROOT" ELSE "NODE", pos + 1)
        [] c = "@" -> on(Op("ATTRIBUTE", name(pos + 1), <<>>), getNextToken(q, pos + 1))
        [] c = "]" -> IF in_context = "[" /\ ops # <<>> THEN Got(Last(ops), pos + 1, Front(ops))
                      ELSE Invalid
        [] c \in {"'", "\""} -> on(Op("LITERAL", SubSeq(q, pos + 1, quoted - 1), <<>>), quoted + 1)
        [] c = " " /\ next = "and" -> logicOp(q, "AND", pos + 3, in_context, ops)
        [] c = " " /\ next = "or"  -> logicOp(q, "OR", pos + 3, in_context, ops)
        [] c = " " /\ next \notin {"and", "or"} -> on(NULL, getNextToken(q, pos + 1))
        [] c = "[" /\ next = "]" -> Invalid
        [] c = "[" /\ number -> on(Op("POSITION", name(pos + 1), <<>>), pos + 3)
        [] c = "[" /\ next # "]" /\ ~ number -> contextOp(q, pos + 1, in_context, ops)
        [] c = "(" -> IF ops = <<>> THEN Invalid ELSE functionOp(q, pos + 1, in_context, ops)
        [] c = ")" -> IF in_context = "(" THEN Got(NULL, pos + 1, ops) ELSE Invalid
        [] c = "," -> IF in_context = "(" THEN on(NULL, pos + 1) ELSE Invalid
        [] c = "=" -> compareOp(q, "EQUAL", pos + 1, in_context, ops)
        [] c = "!" -> IF next = "=" THEN compareOp(q, "NOTEQUAL", pos + 2, in_context, ops)
                      ELSE Invalid
        [] OTHER -> on(NULL, pos + 1)

\* _ops from pos on, or an error
RECURSIVE parseFrom(_, _, _)
parseFrom(q, pos, ops) ==
  LET r == getOp(q, pos, "", ops)
  IN  IF pos > Len(q) THEN Got(NULL, pos, ops)
      ELSE IF r.error THEN r
      ELSE parseFrom(q, r.pos, IF r.op = NULL THEN r.ops ELSE Append(r.ops, r.op))

\* No constructor sets _is_root of an AllOp: it is what the memory held.
RECURSIVE Constructed(_, _)
Constructed(op, memory) ==
  [op |-> op.op, value |-> op.value, is_root |-> op.op = "ROOT" \/ (op.op = "ALL" /\ memory),
   args |-> [i \in DOMAIN op.args |-> Constructed(op.args[i], memory)]]

parseQuery(q, memory) ==
  LET r == parseFrom(q, 1, <<>>)
  IN  [r EXCEPT !.ops = [i \in DOMAIN @ |-> Constructed(@[i], memory)]]

-----------------------------------------------------------------------------
\* The tree below root
IsElement(n) == "name" \in DOMAIN n

RECURSIVE NodeAt(_, _)
NodeAt(root, way) == IF way = <<>> THEN root ELSE NodeAt(root.children[Head(way)], Tail(way))

ChildrenOf(root, way, name) ==
  LET n == NodeAt(root, way)
      is == SelectSeq([i \in 1..Len(n.children) |-> i],
              LAMBDA i : IsElement(n.children[i]) /\ name \in {<<"*">>, n.children[i].name})
  IN  [k \in 1..Len(is) |-> Append(way, is[k])]

RECURSIVE descend(_, _, _)
descend(root, way, name) ==
  (IF name \in {<<"*">>, NodeAt(root, way).name} THEN <<way>> ELSE <<>>)
    \o LET below == ChildrenOf(root, way, <<"*">>)
       IN  FlattenSeq([i \in 1..Len(below) |-> descend(root, below[i], name)])

TextOf(n) == LET i == SelectInSeq(n.children, LAMBDA c : ~ IsElement(c))
             IN  IF i = 0 THEN <<>> ELSE n.children[i].text          \* getCDATA()
AttribOf(n, name) == IF name \in DOMAIN n.attribs THEN n.attribs[name] ELSE <<>>

\* calcStr(), and value() of the functions
calcStr(op, n) ==
  CASE op.op = "NODE" -> TextOf(n)
    [] op.op = "ATTRIBUTE" -> AttribOf(n, op.value)
    [] op.op = "FUNCTION" /\ op.value = <<"text">> -> TextOf(n)
    [] op.op = "FUNCTION" /\ op.value = <<"name">> -> n.name
    [] op.op = "FUNCTION" /\ op.value \notin {<<"text">>, <<"name">>} -> <<>>
    [] OTHER -> op.value

\* isValid() of an operator on a Value with these elements: whether it is, and
\* what it leaves of them.
Valid(elems)   == [ok |-> elems # <<>>, elems |-> elems]
Nothing(elems) == [ok |-> FALSE, elems |-> elems]
OrNothing(found, elems) == IF found = <<>> THEN Nothing(elems) ELSE Valid(found)

PositionOp(op, elems) ==
  LET k == Positions[op.value[1]]
  IN  OrNothing(IF k <= Len(elems) THEN <<elems[k]>> ELSE <<>>, elems)

\* Mutant: a name within [] selects the children, not the elements that have them.
NodeOpBelow(root, op, elems, in_context) ==
  OrNothing(FlattenSeq([i \in 1..Len(elems) |-> ChildrenOf(root, elems[i], op.value)]), elems)

NodeOp(root, op, elems, in_context) ==
  LET HasIt(w) == ChildrenOf(root, w, op.value) # <<>>
  IN  OrNothing(IF in_context THEN SelectSeq(elems, HasIt)
            ELSE FlattenSeq([i \in 1..Len(elems) |-> ChildrenOf(root, elems[i], op.value)]), elems)

\* _is_root: only the name of the root is compared.
RootOp(root, op, elems) == [ok |-> NodeAt(root, elems[1]).name = op.value, elems |-> elems]

AllOp(root, op, elems) ==
  IF op.is_root THEN RootOp(root, op, elems)
  ELSE OrNothing(FlattenSeq([i \in 1..Len(elems) |-> descend(root, elems[i], op.value)]), elems)

AttributeOp(root, op, elems) ==
  LET HasIt(w) == IF op.value = <<"*">> THEN DOMAIN NodeAt(root, w).attribs # {}
                  ELSE AttribOf(NodeAt(root, w), op.value) # <<>>
  IN  Valid(SelectSeq(elems, HasIt))

RECURSIVE isValid(_, _, _, _)

\* An argument of an operator, asked about one element in its context
Alone(root, arg, w) == isValid(root, arg, <<w>>, TRUE).ok

ContextOp(root, op, elems) == Valid(SelectSeq(elems, LAMBDA w : Alone(root, op.args[1], w)))

\* Both sides are asked about a copy of the elements; the strings are those of
\* the elements that are left.
Compared(root, op, elems, equal) ==
  LET lc == isValid(root, op.args[1], elems, FALSE)
      rc == isValid(root, op.args[2], lc.elems, FALSE)
      Side(i, w) == calcStr(op.args[i], NodeAt(root, w))
      Meets(w)   == (Side(1, w) = Side(2, w)) = equal
  IN  IF ~ lc.ok \/ ~ rc.ok THEN Nothing(elems)
      ELSE IF SelectSeq(rc.elems, Meets) = <<>> THEN Valid(<<>>) ELSE Valid(elems)

EqualOp(root, op, elems)    == Compared(root, op, elems, TRUE)
NotEqualOp(root, op, elems) == Compared(root, op, elems, FALSE)

AndOp(root, op, elems, in_context) ==
  LET l == isValid(root, op.args[1], elems, in_context)
  IN  IF l.ok THEN isValid(root, op.args[2], l.elems, in_context) ELSE l

OrOp(root, op, elems) ==
  Valid(SelectSeq(elems, LAMBDA w : Alone(root, op.args[1], w) \/ Alone(root, op.args[2], w)))

\* isValid() of the functions; calcStr() of text() and name() is above.
FunctionOp(root, op, elems) ==
  LET Starts(w) == IsPrefix(calcStr(op.args[2], NodeAt(root, w)), calcStr(op.args[1], NodeAt(root, w)))
  IN  CASE op.value \in {<<"text">>, <<"name">>} -> Valid(elems)
        [] op.value = <<"not">> -> Valid(SelectSeq(elems, LAMBDA w : ~ Alone(root, op.args[1], w)))
        [] op.value = <<"starts-with">> -> Valid(SelectSeq(elems, Starts))

isValid(root, op, elems, in_context) ==
  CASE op.op = "ROOT" -> RootOp(root, op, elems)
    [] op.op = "NODE" -> NodeOp(root, op, elems, in_context)
    [] op.op = "ALL"  -> AllOp(root, op, elems)
    [] op.op = "ATTRIBUTE" -> AttributeOp(root, op, elems)
    [] op.op = "POSITION" -> PositionOp(op, elems)
    [] op.op = "CONTEXT" -> ContextOp(root, op, elems)
    [] op.op = "EQUAL" -> EqualOp(root, op, elems)
    [] op.op = "NOTEQUAL" -> NotEqualOp(root, op, elems)
    [] op.op = "AND" -> AndOp(root, op, elems, in_context)
    [] op.op = "OR"  -> OrOp(root, op, elems)
    [] op.op = "FUNCTION" -> FunctionOp(root, op, elems)
    [] OTHER -> [ok |-> TRUE, elems |-> elems]

\* The operators one after the other, as long as there is something left
execute(ops, root) ==
  LET Next(v, op) == IF v.ok THEN isValid(root, op, v.elems, FALSE) ELSE v
  IN  FoldLeft(Next, [ok |-> TRUE, elems |-> <<<<>>>>], ops)
=============================================================================
