------------------------------ MODULE Documents ------------------------------
(***************************************************************************)
(* Documents and what they mean, for the parser of XMLParse: a set of      *)
(* texts that are put together from pieces, each written down with the     *)
(* events a reader of the XML recommendation expects of it, alone and      *)
(* under the declarations of Subset; and of texts that are not well formed.*)
(***************************************************************************)
EXTENDS XMLParse

Datum(s)        == [event |-> "data", data |-> Chars(s)]
Start(n, as)    == [event |-> "start", name |-> Chars(n),
                    atts |-> [i \in 1..Len(as) |-> <<Chars(as[i][1]), Chars(as[i][2])>>]]
End_(n)         == [event |-> "end", name |-> Chars(n)]
Both(n, as)     == <<Start(n, as), End_(n)>>

\* "alone" and "declared" are the events without and with Subset.
Piece(s, alone, declared) == [text |-> Chars(s), alone |-> alone, declared |-> declared]
Same(s, events) == Piece(s, events, events)

Subset == "<!DOCTYPE a[<!ENTITY e 'u&#60;b/>'>\n<!ATTLIST b c NMTOKENS ' p  q'>]>"

Pieces == {
  Same("x", <<Datum("x")>>),
  Same("]]", <<Datum("]]")>>),
  Same("&lt;", <<Datum("<")>>),
  Same("&#x41;", <<Datum("A")>>),
  Same("\r\n", <<Datum("\n")>>),
  Same("\r", <<Datum("\n")>>),
  Same("~^", <<Datum("~^")>>),
  Same("<![CDATA[<]]]>", <<Datum("<]")>>),
  Same("<!-- - -->", <<>>),
  Same("<?p ?>", <<>>),
  Same("<d b='&lt; &#x41;' c=\" 1  2\"/>", Both("d", <<<<"b", "< A">>, <<"c", " 1  2">>>>)),
  Same("<d>y</d >", <<Start("d", <<>>), Datum("y"), End_("d")>>),
  Piece("<b/>", Both("b", <<>>), Both("b", <<<<"c", "p q">>>>)),
  Piece("<b c=' 1  2'/>", Both("b", <<<<"c", " 1  2">>>>), Both("b", <<<<"c", "1 2">>>>))}

Reference == Same("&e;", <<Datum("u")>> \o Both("b", <<<<"c", "p q">>>>))

Root(events) == Joined(<<Start("a", <<>>)>> \o events \o <<End_("a")>>)

Written(before, text, events, after) ==
  [text |-> Chars(before) \o Chars("<a>") \o text \o Chars("</a>") \o Chars(after),
   wellFormed |-> TRUE, events |-> Root(events)]

Others   == {p \in Pieces : p.text[1] \notin {"&", "~", "\r"}}
ByItself    == {Written("", p.text \o q.text, p.alone \o q.alone, "\n") : p \in Pieces, q \in Others}
Declared == {Written(Subset, p.text, p.declared, "<!--x-->") : p \in Pieces \cup {Reference}}

\* One rule of the recommendation is broken in each.
Broken == {[text |-> Chars(s), wellFormed |-> FALSE] : s \in {
  "<a>", "<a></b>", "<a/><b/>", "x<a/>", "<a/>x", "<a b='1' b='2'/>", "<a b='<'/>", "<a b=1/>",
  "<a>]]></a>", "<a>&e;</a>", "<a>&#x0;</a>", "<a>&#xffff;</a>", "<a>&lt</a>", "<a>{</a>", "<a>~",
  "<a b='1'c='2'/>", "<a><![CDATA[x</a>", "<a><!-- -- --></a>", "<a><?xml v?></a>", "<?XML ?><a/>",
  "<?xml version='1.0' standalone='1'?><a/>", "<!DOCTYPE a[<!ENTITY e '<b>'>]><a>&e;</b></a>",
  "<!DOCTYPE a[<!ENTITY e '&e;'>]><a>&e;</a>", "<!DOCTYPE a[<!ENTITY e '&e;'>]><a b='&e;'/>",
  "<!DOCTYPE a[<!ENTITY e '%f;'>]><a/>", "<!DOCTYPE a[<!ENTITY e SYSTEM 'f'>]><a b='&e;'/>",
  "<!DOCTYPE a[<!ENTITY e SYSTEM 'f' NDATA g>]><a>&e;</a>",
  "<!DOCTYPE a[<!ELEMENT a (b,c|d)>]><a/>", "<!DOCTYPE a PUBLIC '{' 'b'><a/>"}}

AllDocuments == ByItself \cup Declared \cup Broken

-----------------------------------------------------------------------------
\* What has been told of a document is how it begins, and of a whole one it is
\* what was written: no more, no less, in this order.
BeginsAs(told, events) ==
  LET n == Len(told)
  IN  /\ n <= Len(events)
      /\ \A i \in 1..n : \/ told[i] = events[i]
                         \/ /\ i = n /\ told[i].event = "data" /\ events[i].event = "data"
                            /\ SubSeq(events[i].data, 1, Len(told[i].data)) = told[i].data

\* The handlers are told what a well-formed document says, references replaced
\* and defaults filled in, and one that is not well formed is refused at the
\* latest when it ends.  doContent, storeAtts and doProlog of xmlparse.c.
ToldAsWritten ==
  IF doc.wellFormed
  THEN /\ parser.error = "NONE"
       /\ BeginsAs(Joined(parser.events), doc.events)
       /\ ended => Joined(parser.events) = doc.events
  ELSE ended => parser.error # "NONE"
=============================================================================
