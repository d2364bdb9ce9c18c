------------------------------ MODULE Elements ------------------------------
(***************************************************************************)
(* The tree of libjudo (src/libjudo/src/Element.cpp, judo.cpp, judo.hpp):  *)
(* elements with attributes and children, the escaping of text, and the    *)
(* way to a string and back through the parser and parseAtOnce().          *)
(*                                                                         *)
(* An element is [name, attribs, children], a piece of text is [text].     *)
(* Texts and names are sequences of characters, see Tokens.                *)
(***************************************************************************)
EXTENDS Content, TLC
LOCAL INSTANCE SequencesExt

CONSTANTS MaxLength,        \* bounds: the characters of the string of an element,
          MaxChildren       \* and its children

VARIABLES tree           \* the one an application works on

elementVars == <<tree>>

-----------------------------------------------------------------------------
\* judo.cpp
Escapes == {<<"&", "&amp;">>, <<"'", "&apos;">>, <<"\"", "&quot;">>, <<"<", "&lt;">>, <<">", "&gt;">>}

\* Mutant: the quotes are left alone.
escapeMarkup(src) ==
  FlattenSeq([i \in 1..Len(src) |->
    CASE src[i] = "&" -> Chars("&amp;") [] src[i] = "<" -> Chars("&lt;") [] src[i] = ">" -> Chars("&gt;")
      [] OTHER -> <<src[i]>>])

escape(src) ==
  FlattenSeq([i \in 1..Len(src) |->
    IF \E e \in Escapes : e[1] = src[i] THEN Chars((CHOOSE e \in Escapes : e[1] = src[i])[2])
    ELSE <<src[i]>>])

\* The characters are taken one by one, those of an escape sequence at once.
\* strncmp() does not know where src ends: it goes on to look at what lies
\* behind it in memory.
unescape(src, behind) ==
  LET seen == src \o behind
      Found(i) == {e \in Escapes : IsPrefix(Chars(e[2]), Slice(seen, i, Len(seen) + 1))}
      Take(acc, i) ==
        IF i < acc.next THEN acc
        ELSE IF Found(i) = {} THEN [next |-> i + 1, dest |-> Append(acc.dest, src[i])]
        ELSE LET e == CHOOSE e \in Found(i) : TRUE
             IN  [next |-> i + Len(Chars(e[2])), dest |-> Append(acc.dest, e[1])]
  IN  FoldLeft(Take, [next |-> 1, dest |-> <<>>], [i \in 1..Len(src) |-> i]).dest

-----------------------------------------------------------------------------
\* Node and CDATA of judo.hpp
IsCDATA(n)           == "text" \in DOMAIN n
CDATA(text, escaped, behind) ==
  [text |-> IF escaped THEN unescape(text, behind) ELSE text]
appendText(n, text, escaped, behind) ==
  [n EXCEPT !.text = @ \o CDATA(text, escaped, behind).text]

\* Attributes as expat gives them; of two with a name the first is kept.
NewElement(name, attribs) ==
  LET Insert(m, a) == IF a[1] \in DOMAIN m THEN m ELSE m @@ (a[1] :> a[2])
  IN  [name |-> name, attribs |-> FoldLeft(Insert, << >>, attribs), children |-> <<>>]

appendChild(e, n) == [e EXCEPT !.children = Append(@, n)]

addCDATA(e, data, escaped, behind) ==
  IF e.children # <<>> /\ IsCDATA(Last(e.children))
  THEN [e EXCEPT !.children[Len(e.children)] = appendText(@, data, escaped, behind)]
  ELSE appendChild(e, CDATA(data, escaped, behind))

addElement(e, name, attribs) == appendChild(e, NewElement(name, attribs))
\* The value is a string, so nothing that could matter lies behind it.
EndOfString == <<>>
addText(e, name, value, escaped) ==
  appendChild(e, addCDATA(NewElement(name, <<>>), value, escaped, EndOfString))

hasAttrib(e, name)        == name \in DOMAIN e.attribs
putAttrib(e, name, value) == [e EXCEPT !.attribs = (name :> value) @@ @]
getAttrib(e, name)        == IF hasAttrib(e, name) THEN e.attribs[name] ELSE <<>>
delAttrib(e, name) ==
  [e EXCEPT !.attribs = [n \in DOMAIN @ \ {name} |-> @[n]]]

\* Where the first child element of a name is; 0 for end()
find(e, name) ==
  SelectInSeq(e.children, LAMBDA n : ~ IsCDATA(n) /\ n.name = name)
findElement(e, name) == IF find(e, name) = 0 THEN {} ELSE {e.children[find(e, name)]}
detachChild(e, i)     == [e EXCEPT !.children = RemoveAt(@, i)]
eraseElement(e, name) == IF find(e, name) = 0 THEN e ELSE detachChild(e, find(e, name))

getCDATA(e) ==
  LET i == SelectInSeq(e.children, IsCDATA) IN IF i = 0 THEN <<>> ELSE e.children[i].text

-----------------------------------------------------------------------------
\* std::map visits the attributes by name.
AttribNames == <<Chars("a"), Chars("b")>>

RECURSIVE toString(_)
toString(n) ==
  LET names == SelectSeq(AttribNames, LAMBDA a : hasAttrib(n, a))
      attribs == FlattenSeq([i \in 1..Len(names) |->
                   <<" ">> \o names[i] \o <<"=", "'">> \o escape(n.attribs[names[i]]) \o <<"'">>])
      children == FlattenSeq([i \in 1..Len(n.children) |-> toString(n.children[i])])
      tag == <<"<">> \o n.name \o attribs
  IN  IF IsCDATA(n) THEN escape(n.text)
      ELSE IF n.children = <<>> THEN tag \o <<"/", ">">>
      ELSE tag \o <<">">> \o children \o <<"<", "/">> \o n.name \o <<">">>

toStringEx(n, recursive, closetag) ==
  LET whole == toString(n)
      open  == toString([n EXCEPT !.children = <<>>])
      tag   == SubSeq(open, 1, Len(open) - 2)
  IN  IF recursive /\ n.children # <<>>
      THEN IF closetag THEN whole ELSE SubSeq(whole, 1, Len(whole) - Len(n.name) - 3)
      ELSE tag \o (IF closetag THEN <<"/", ">">> ELSE <<">">>)

\* BufferParser behind ElementStream: the first of the open elements is the
\* root, whose pieces of text are children of their own.  <<>> is an exception.
\* Only what stands for one character, alone in a variable of the parser, can
\* be an "&"; "behind" is what lies behind that variable.
TreeOf(p, behind) ==
  LET Close(open) ==
        LET n == Len(open)
        IN  IF n = 1 THEN open
            ELSE Append(SubSeq(open, 1, n - 2), appendChild(open[n - 1], open[n]))
      Take(open, e) ==
        CASE e.event = "start" -> Append(open, NewElement(e.name, e.atts))
          [] e.event = "end"   -> Close(open)
          [] e.event = "data" /\ Len(open) = 1 -> <<appendChild(open[1], CDATA(e.data, TRUE, behind))>>
          [] e.event = "data" /\ Len(open) > 1 ->
               Append(Front(open), addCDATA(Last(open), e.data, TRUE, behind))
  IN  IF p.error = "NONE" THEN FoldLeft(Take, <<>>, p.events) ELSE <<>>

parseAtOnce(text, behind) == TreeOf(Process(NewParser, text, FALSE), behind)

-----------------------------------------------------------------------------
\* What is said of an element, however its text is cut: pieces in a row are
\* one, and none is empty.
RECURSIVE Merged(_)
Merged(e) ==
  LET Join(cs, n) ==
        IF IsCDATA(n) THEN IF n.text = <<>> THEN cs
                           ELSE IF cs # <<>> /\ IsCDATA(Last(cs))
                                THEN Append(Front(cs), [text |-> Last(cs).text \o n.text])
                                ELSE Append(cs, n)
        ELSE Append(cs, Merged(n))
  IN  [e EXCEPT !.children = FoldLeft(Join, <<>>, @)]

Phrases == {Chars("&lt;")}
Hard    == Phrases \cup {Chars("'>\""), Chars("a;&"), Chars("&amp;lt;")}
NamesOf == {Chars("a"), Chars("d")}

Edited(e) ==
  {putAttrib(e, n, v) : n \in Range(AttribNames), v \in {<<>>, Chars("&'")}} \cup
  {delAttrib(e, n) : n \in Range(AttribNames)} \cup
  {addElement(e, Chars("d"), <<>>)} \cup
  {addText(e, Chars("a"), v, b) : v \in Phrases, b \in BOOLEAN} \cup
  {addCDATA(e, v, b, EndOfString) : v \in Phrases, b \in BOOLEAN} \cup
  {eraseElement(e, n) : n \in NamesOf}

edit == tree' \in Edited(tree)

\* An element below is edited, or copied behind the others.
editChild ==
  \E i \in 1..Len(tree.children) :
    /\ ~ IsCDATA(tree.children[i])
    /\ \/ \E e \in Edited(tree.children[i]) : tree' = [tree EXCEPT !.children[i] = e]
       \/ tree' = appendChild(tree, tree.children[i])

Bare == NewElement(Chars("a"), <<>>)

ElementInit == tree = Bare
ElementNext == /\ edit \/ editChild
               /\ /\ Len(toString(tree')) <= MaxLength
               /\ Len(tree'.children) <= MaxChildren

-----------------------------------------------------------------------------
\* The string of an element may be sent in parts, its start tag first, as the
\* session sends its stream.
InParts(e) ==
  toStringEx(e, FALSE, FALSE) \o FlattenSeq([i \in 1..Len(e.children) |-> toString(e.children[i])])
    \o <<"<", "/">> \o e.name \o <<">">>

\* What the memory may hold: a part of an escape sequence, and the rest of one
Memory == {Chars("lt"), Chars("amp;"), Chars("lt;")}

\* An "&" in front of it stays what it is.
Harmless(m) == \A e \in Escapes : IsPrefix(Tail(Chars(e[2])), m) => e[1] = "&"

\* An element that is written out and parsed says what it said before, with
\* each character of its texts and attributes, if no "&" happens to lie in
\* front of the rest of another escape sequence (see DataEndsWithItsLength);
\* and text that is added escaped is the text itself, whatever lies behind it.
\* toString(), escape() and unescape(), parseAtOnce().
ReadBack == tree # Bare =>
  LET parsed == Process(NewParser, toString(tree), FALSE)
      Told(text) == Joined(Process(NewParser, text, FALSE).events)
  IN  /\ \A m \in Memory : Harmless(m) =>
            \E back \in Range(TreeOf(parsed, m)) : Merged(back) = Merged(tree)
      /\ Told(InParts(tree)) = Joined(parsed.events)
      /\ toStringEx(tree, TRUE, TRUE) = toString(tree)
      /\ \A t \in Hard, m \in Memory :
            addCDATA(tree, escape(t), TRUE, m) = addCDATA(tree, t, FALSE, EndOfString)

\* The data that is added is of the length that is given: "datasz Length of
\* the character data" (src/libjudo/src/Element.cpp:150).  The code breaks this
\* with an "&", which the parser hands over alone: what comes out is decided
\* by the bytes behind it.
DataEndsWithItsLength ==
  LET parsed == Process(NewParser, toString(tree), FALSE)
  IN  \A i \in DOMAIN parsed.events, m \in Memory :
        parsed.events[i].event = "data" =>
          addCDATA(tree, parsed.events[i].data, TRUE, m) =
          addCDATA(tree, parsed.events[i].data, TRUE, EndOfString)
=============================================================================
