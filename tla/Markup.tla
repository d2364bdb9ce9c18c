------------------------------- MODULE Markup -------------------------------
(***************************************************************************)
(* What expat reads in a token once it is scanned: the attributes of a     *)
(* start tag, the number of a character reference, the name of a           *)
(* predefined entity (src/libjudo/src/expat/xmltok_impl.c) and the parts   *)
(* of an XML declaration (src/libjudo/src/expat/xmltok.c).                 *)
(***************************************************************************)
EXTENDS Tokens

Slice(t, a, b) == SubSeq(t, a, b - 1)              \* the characters from a up to b
Chars(str)     == [i \in 1..Len(str) |-> SubSeq(str, i, i)]

\* The index of the first character from i on that is not in set.
RECURSIVE Past(_, _, _)
Past(t, i, set) == IF i <= Len(t) /\ t[i] \in set THEN Past(t, i + 1, set) ELSE i

nameEnd(t, i) == Past(t, i, Names \cup {"^"})       \* nameLength
skipS(t, i)   == Past(t, i, White)

-----------------------------------------------------------------------------
\* getAtts: from ptr on, with what it knows of the tag so far.  An attribute is
\* [name, from, end, normalized], from and end enclosing its value.
RECURSIVE attsFrom(_, _, _, _, _)
attsFrom(t, ptr, state, open, atts) ==
  LET c     == t[ptr]
      cur   == atts[Len(atts)]
      with(a) == [atts EXCEPT ![Len(atts)] = a]
      next(s, o, as) == attsFrom(t, ptr + 1, s, o, as)
      spaceMatters == \/ ptr = cur.from
                      \/ c # " "
                      \/ t[ptr + 1] = " "
                      \/ t[ptr + 1] = open
  IN  CASE c \in Letters /\ state = "other" ->
             attsFrom(t, ptr + (IF c \in Lead THEN 2 ELSE 1), "name", open,
                      Append(atts, [name |-> ptr, from |-> 0, end |-> 0, normalized |-> TRUE]))
        [] c \in {"'", "\""} /\ state # "value" ->
             next("value", c, with([cur EXCEPT !.from = ptr + 1]))
        [] c \in {"'", "\""} /\ state = "value" /\ c = open ->
             next("other", open, with([cur EXCEPT !.end = ptr]))
        [] c = "&" -> next(state, open, with([cur EXCEPT !.normalized = FALSE]))
        [] c \in White /\ state = "name" -> next("other", open, atts)
        [] c \in {" ", "\t"} /\ state = "value" ->
             next(state, open, with([cur EXCEPT !.normalized = @ /\ ~ spaceMatters]))
        [] c \in {"\r", "\n"} /\ state = "value" ->
             next(state, open, with([cur EXCEPT !.normalized = FALSE]))
        [] c \in {">", "/"} /\ state # "value" -> atts
        [] OTHER -> next(state, open, atts)

\* i is the "<" of a start tag that has been scanned.
getAtts(t, i) == attsFrom(t, i + 1, "name", "", <<>>)

-----------------------------------------------------------------------------
MaxCode == 1114111                                  \* 0x10FFFF

\* -1 for what is not a character of XML.
checkCharRefNumber(n) ==
  IF \/ n \in 55296..57343
     \/ n < 32 /\ n \notin {9, 10, 13}
     \/ n \in {65534, 65535}
  THEN -1 ELSE n

HexValue(c) ==
  CHOOSE n \in 0..15 : c \in <<{"0"}, {"1"}, {"2"}, {"3"}, {"4"}, {"5"}, {"6"}, {"7"}, {"8"}, {"9"},
                              {"a", "A"}, {"b", "B"}, {"c", "C"}, {"d", "D"}, {"e", "E"},
                              {"f", "F"}>>[n + 1]

\* The number is given up as soon as it is too large, before it overflows.
RECURSIVE refNumberFrom(_, _, _, _)
refNumberFrom(t, ptr, base, n) ==
  IF n > MaxCode THEN -1
  ELSE IF t[ptr] = ";" THEN checkCharRefNumber(n)
  ELSE refNumberFrom(t, ptr + 1, base, n * base + HexValue(t[ptr]))

\* i is the "&" of the reference.
charRefNumber(t, i) ==
  IF t[i + 2] = "x" THEN refNumberFrom(t, i + 3, 16, 0) ELSE refNumberFrom(t, i + 2, 10, 0)

predefinedEntityName(name) ==
  CASE name = <<"l", "t">> -> "<"
    [] name = <<"g", "t">> -> ">"
    [] name = <<"a", "m", "p">> -> "&"
    [] name = <<"q", "u", "o", "t">> -> "\""
    [] name = <<"a", "p", "o", "s">> -> "'"
    [] OTHER -> ""

isPublicId(t) ==
  \A i \in 1..Len(t) :
    t[i] \in (Ascii \cup Digits \cup White \cup Marks \cup {".", "-"}) \
               {"\t", "<", ">", "&", "\"", "[", "]", "|"}

-----------------------------------------------------------------------------
NoName   == [ok |-> TRUE,  name |-> <<>>, val |-> <<>>, next |-> 0]
NoPseudo == [ok |-> FALSE, name |-> <<>>, val |-> <<>>, next |-> 0]

\* name='value' after white space, or white space up to the end.
parsePseudoAttribute(t, ptr) ==
  LET name  == skipS(t, ptr)
      nameE == Past(t, name, Xml \ (White \cup {"="}))
      eq    == skipS(t, nameE)
      quote == skipS(t, eq + 1)
      close == Past(t, quote + 1, (Ascii \ {":"}) \cup Digits \cup {".", "-"})
  IN  IF ptr = Len(t) + 1 THEN NoName
      ELSE IF name = ptr THEN NoPseudo
      ELSE IF name = Len(t) + 1 THEN NoName
      ELSE IF /\ At(t, eq) = "="
              /\ nameE # name
              /\ At(t, quote) \in {"'", "\""}
              /\ At(t, close) = At(t, quote)
           THEN [ok |-> TRUE, name |-> Slice(t, name, nameE),
                 val |-> Slice(t, quote + 1, close), next |-> close + 1]
           ELSE NoPseudo

\* The pseudo-attribute behind one of a name; one of another name stays.
Behind(t, pseudo, name) ==
  IF pseudo.name = Chars(name) THEN parsePseudoAttribute(t, pseudo.next) ELSE pseudo

\* What the three say
XmlDecl(isGeneralTextEntity, t, one, two, three) ==
  LET version  == one.name = Chars("version")
      encoding == two.name = Chars("encoding")
      standalone == /\ three.name = Chars("standalone") /\ ~ isGeneralTextEntity
                    /\ three.val \in {Chars("yes"), Chars("no")}
                    /\ skipS(t, three.next) = Len(t) + 1
      accepted == /\ one.ok /\ one.name # <<>>
                  /\ version \/ isGeneralTextEntity
                  /\ two.ok
                  /\ IF two.name = <<>> THEN ~ isGeneralTextEntity
                     ELSE /\ encoding => two.val # <<>> /\ two.val[1] \in Ascii \ {":", "_"}
                          /\ three.ok
                          /\ three.name = <<>> \/ standalone
  IN  [ok |-> accepted, encoding |-> IF encoding THEN two.val ELSE <<>>,
       standalone |-> accepted /\ three.name # <<>> /\ three.val = Chars("yes")]

\* t is the declaration without its "<?xml" and "?>".
afterEncoding(isGeneralTextEntity, t, one, two) ==
  XmlDecl(isGeneralTextEntity, t, one, two, Behind(t, two, "encoding"))
afterVersion(isGeneralTextEntity, t, one) ==
  afterEncoding(isGeneralTextEntity, t, one, Behind(t, one, "version"))
doParseXmlDecl(isGeneralTextEntity, t) ==
  afterVersion(isGeneralTextEntity, t, parsePseudoAttribute(t, 1))
=============================================================================
