------------------------------- MODULE Tokens -------------------------------
(***************************************************************************)
(* The tokenizer of expat, src/libjudo/src/expat/xmltok_impl.c, for an     *)
(* encoding with one byte per unit and without XML_NS and XML_DTD, as      *)
(* libjudo builds it.                                                      *)
(*                                                                         *)
(* A text is a sequence of one-character strings.  Each scan function is a *)
(* set of rules, one for each pair of a place in the function and a kind   *)
(* of character; a place is named after the text that leads to it: "<!--"  *)
(* is the loop of scanComment, "<a b=" the one that looks for the opening  *)
(* quote.  Where no rule applies the function returns XML_TOK_INVALID, or  *)
(* XML_TOK_PARTIAL at the end of the text.                                 *)
(*                                                                         *)
(* Abstraction: a few characters stand for each byte type.  "~" is the     *)
(* lead byte of a two-byte letter, "^" its trail byte and "{" a byte that  *)
(* no XML document holds.  nextTokPtr of an invalid token, which only the  *)
(* error position depends on, is left out.                                 *)
(***************************************************************************)
EXTENDS Integers, Sequences, FiniteSets

Hex     == {"a", "b", "c", "d", "e", "f", "A", "B", "C", "D", "E", "F"}
Ascii   == Hex \cup {"g", "h", "i", "j", "k", "l", "m", "n", "o", "p", "q", "r", "s", "t", "u", "v",
                     "w", "x", "y", "z", "G", "H", "I", "J", "K", "L", "M", "N", "O", "P", "Q", "R",
                     "S", "T", "U", "V", "W", "X", "Y", "Z", ":", "_"}
Lead    == {"~"}
Letters == Ascii \cup Lead                          \* CHECK_NMSTRT_CASES
Digits  == {"0", "1", "2", "3", "4", "5", "6", "7", "8", "9"}
Names   == Letters \cup Digits \cup {".", "-"}      \* CHECK_NAME_CASES
White   == {" ", "\t", "\n", "\r"}
Marks   == {"<", ">", "&", "'", "\"", "!", "?", "/", "=", "#", ";", "%", "[", "]", "(", ")",
            "|", ",", "+", "*", "$", "@"}
Xml     == Names \cup White \cup Marks              \* what INVALID_CASES lets pass
Bytes   == Xml \cup {"^", "{"}
End     == {""}                                     \* ptr == end

Go(s)       == [tok |-> "",  to |-> s,  by |-> 1]   \* past the character
Redo(s)     == [tok |-> "",  to |-> s,  by |-> 0]
Ref(s)      == [tok |-> "&", to |-> s,  by |-> 1]   \* scanRef first, then on in s
Token(t)    == [tok |-> t,   to |-> "", by |-> 1]   \* nextTokPtr behind the character,
Before(t)   == [tok |-> t,   to |-> "", by |-> 0]   \* at it,
Back(t, n)  == [tok |-> t,   to |-> "", by |-> 0 - n]   \* or n before it
Rule(s, on, r) == [at |-> s, on |-> on, then |-> r]

-----------------------------------------------------------------------------
scanComment == {
  Rule("<!-",     {"-"},          Go("<!--")),
  Rule("<!--",    Xml \ {"-"},    Go("<!--")),
  Rule("<!--",    {"-"},          Go("<!-- -")),
  Rule("<!-- -",  Bytes \ {"-"},  Redo("<!--")),
  Rule("<!-- -",  {"-"},          Go("<!-- --")),
  Rule("<!-- --", {">"},          Token("COMMENT"))}

scanDecl == {
  Rule("<!",  {"-"},   Go("<!-")),
  Rule("<!",  {"["},   Token("COND_SECT_OPEN")),
  Rule("<!",  Ascii,   Go("<!A")),
  Rule("<!A", Ascii,   Go("<!A")),
  Rule("<!A", White,   Before("DECL_OPEN")),
  Rule("<!A", {"%"},   Go("<!A%")),
  Rule("<!A%", Bytes \ (White \cup {"%"}), Back("DECL_OPEN", 1))}

\* A target that is "xml" makes a declaration, one in capitals is refused.
checkPiTarget == {
  Rule("<?",   {"x"},                     Go("<?x")),
  Rule("<?",   {"X"},                     Go("<?X")),
  Rule("<?",   Letters \ {"x", "X"},      Go("<?a")),
  Rule("<?x",  {"m"},                     Go("<?xm")),
  Rule("<?x",  {"M"},                     Go("<?XM")),
  Rule("<?X",  {"m", "M"},                Go("<?XM")),
  Rule("<?xm", {"l"},                     Go("<?xml")),
  Rule("<?xm", {"L"},                     Go("<?XML")),
  Rule("<?XM", {"l", "L"},                Go("<?XML")),
  Rule("<?xml", Names,                    Go("<?a")),
  Rule("<?XML", Names,                    Go("<?a"))} \cup
  {Rule(s, Names \ {"m", "M"}, Go("<?a")) : s \in {"<?x", "<?X"}} \cup
  {Rule(s, Names \ {"l", "L"}, Go("<?a")) : s \in {"<?xm", "<?XM"}}

scanPi == checkPiTarget \cup
  UNION {{Rule(s, White, Go("<?a ")), Rule(s, {"?"}, Go("<?a?"))}
           : s \in {"<?x", "<?X", "<?xm", "<?XM", "<?a"}} \cup {
  Rule("<?a",     Names,        Go("<?a")),
  Rule("<?a ",    Xml \ {"?"},  Go("<?a ")),
  Rule("<?a ",    {"?"},        Go("<?a ?")),
  Rule("<?a ?",   {">"},        Token("PI")),
  Rule("<?a ?",   Bytes \ {">"}, Redo("<?a ")),
  Rule("<?a?",    {">"},        Token("PI")),
  Rule("<?xml",   White,        Go("<?xml ")),
  Rule("<?xml",   {"?"},        Go("<?xml?")),
  Rule("<?xml ",  Xml \ {"?"},  Go("<?xml ")),
  Rule("<?xml ",  {"?"},        Go("<?xml ?")),
  Rule("<?xml ?", {">"},        Token("XML_DECL")),
  Rule("<?xml ?", Bytes \ {">"}, Redo("<?xml ")),
  Rule("<?xml?",  {">"},        Token("XML_DECL"))}

\* The six characters of CDATA[ are compared when there are six to read.
CDATA_LSQB == <<"C", "D", "A", "T", "A", "[">>
scanCdataSection ==
  LET Good == <<"<![", "<![C", "<![CD", "<![CDA", "<![CDAT", "<![CDATA">>
      Bad  == <<"", "<![.", "<![..", "<![...", "<![....", "<![.....">>
  IN  {Rule(Good[k], {CDATA_LSQB[k]},
            IF k = 6 THEN Token("CDATA_SECT_OPEN") ELSE Go(Good[k + 1])) : k \in 1..6} \cup
      {Rule(Good[k], Bytes \ {CDATA_LSQB[k]}, Go(Bad[k + 1])) : k \in 1..5} \cup
      {Rule(Bad[k], Bytes, IF k = 6 THEN Before("INVALID") ELSE Go(Bad[k + 1])) : k \in 2..6}

cdataSectionTok == {
  Rule("cdata",   End,                           Before("NONE")),
  Rule("cdata",   {"]"},                         Go("cdata]")),
  Rule("cdata",   {"\r"},                        Go("cdata\r")),
  Rule("cdata",   {"\n"},                        Token("DATA_NEWLINE")),
  Rule("cdata",   Xml \ {"]", "\r", "\n"},       Go("cdata.")),
  Rule("cdata]",  {"]"},                         Go("cdata]]")),
  Rule("cdata]",  Bytes \ {"]"},                 Redo("cdata.")),
  Rule("cdata]]", {">"},                         Token("CDATA_SECT_CLOSE")),
  Rule("cdata]]", Bytes \ {">"},                 Back("DATA_CHARS", 1)),
  Rule("cdata\r", {"\n"},                        Token("DATA_NEWLINE")),
  Rule("cdata\r", Bytes \ {"\n"},                Before("DATA_NEWLINE")),
  Rule("cdata.",  Xml \ {"\r", "\n", "]"},       Go("cdata.")),
  Rule("cdata.",  End \cup {"^", "{", "\r", "\n", "]"}, Before("DATA_CHARS"))}

scanEndTag == {
  Rule("</",   Letters, Go("</a")),
  Rule("</a",  Names,   Go("</a")),
  Rule("</a",  White,   Go("</a ")),
  Rule("</a",  {">"},   Token("END_TAG")),
  Rule("</a ", White,   Go("</a ")),
  Rule("</a ", {">"},   Token("END_TAG"))}

scanHexCharRef == {
  Rule("&#x",  Digits \cup Hex, Go("&#xf")),
  Rule("&#xf", Digits \cup Hex, Go("&#xf")),
  Rule("&#xf", {";"},           Token("CHAR_REF"))}

scanCharRef == {
  Rule("&#",  {"x"},  Go("&#x")),
  Rule("&#",  Digits, Go("&#0")),
  Rule("&#0", Digits, Go("&#0")),
  Rule("&#0", {";"},  Token("CHAR_REF"))}

scanRef == {
  Rule("&",  Letters, Go("&a")),
  Rule("&",  {"#"},   Go("&#")),
  Rule("&a", Names,   Go("&a")),
  Rule("&a", {";"},   Token("ENTITY_REF"))}

scanAtts == {
  Rule("<a b",    Names,  Go("<a b")),
  Rule("<a b",    White,  Go("<a b ")),
  Rule("<a b",    {"="},  Go("<a b=")),
  Rule("<a b ",   White,  Go("<a b ")),
  Rule("<a b ",   {"="},  Go("<a b=")),
  Rule("<a b=",   White,  Go("<a b=")),
  Rule("<a b=",   {"'"},  Go("<a b='")),
  Rule("<a b=",   {"\""}, Go("<a b=\"")),
  Rule("<a b='",  Xml \ {"'", "&", "<"},  Go("<a b='")),
  Rule("<a b='",  {"&"},  Ref("<a b='")),
  Rule("<a b='",  {"'"},  Go("<a b=''")),
  Rule("<a b=\"", Xml \ {"\"", "&", "<"}, Go("<a b=\"")),
  Rule("<a b=\"", {"&"},  Ref("<a b=\"")),
  Rule("<a b=\"", {"\""}, Go("<a b=''")),
  Rule("<a b=''", White,  Go("<a b='' ")),
  Rule("<a b='' ", White, Go("<a b='' ")),
  Rule("<a b='' ", Letters, Go("<a b")),
  Rule("<a b=''/", {">"}, Token("EMPTY_ELEMENT_WITH_ATTS"))} \cup
  UNION {{Rule(s, {">"}, Token("START_TAG_WITH_ATTS")), Rule(s, {"/"}, Go("<a b=''/"))}
           : s \in {"<a b=''", "<a b='' "}}

scanLt == {
  Rule("<",   Letters, Go("<a")),
  Rule("<",   {"!"},   Go("<!.")),
  Rule("<",   {"?"},   Go("<?")),
  Rule("<",   {"/"},   Go("</")),
  Rule("<!.", {"-"},   Go("<!-")),
  Rule("<!.", {"["},   Go("<![")),
  Rule("<a",  Names,   Go("<a")),
  Rule("<a",  White,   Go("<a ")),
  Rule("<a ", White,   Go("<a ")),
  Rule("<a ", Letters, Go("<a b")),
  Rule("<a/", {">"},   Token("EMPTY_ELEMENT_NO_ATTS"))} \cup
  UNION {{Rule(s, {">"}, Token("START_TAG_NO_ATTS")), Rule(s, {"/"}, Go("<a/"))}
           : s \in {"<a", "<a "}}

\* "data]" and "data]]" look ahead for the "]]>" that data may not hold.
contentTok == {
  Rule("content",   End,                      Before("NONE")),
  Rule("content",   {"<"},                    Go("<")),
  Rule("content",   {"&"},                    Go("&")),
  Rule("content",   {"\r"},                   Go("content\r")),
  Rule("content",   {"\n"},                   Token("DATA_NEWLINE")),
  Rule("content",   {"]"},                    Go("content]")),
  Rule("content",   Xml \ {"<", "&", "\r", "\n", "]"}, Go("data")),
  Rule("content\r", End,                      Before("TRAILING_CR")),
  Rule("content\r", {"\n"},                   Token("DATA_NEWLINE")),
  Rule("content\r", Bytes \ {"\n"},           Before("DATA_NEWLINE")),
  Rule("content]",  End,                      Before("TRAILING_RSQB")),
  Rule("content]",  {"]"},                    Go("content]]")),
  Rule("content]",  Bytes \ {"]"},            Redo("data")),
  Rule("content]]", End,                      Before("TRAILING_RSQB")),
  Rule("content]]", Bytes \ {">"},            Redo("data]")),
  Rule("data",      Xml \ {"<", "&", "\r", "\n", "]"}, Go("data")),
  Rule("data",      {"]"},                    Go("data]")),
  Rule("data",      End \cup {"<", "&", "\r", "\n", "^", "{"}, Before("DATA_CHARS")),
  Rule("data]",     {"]"},                    Go("data]]")),
  Rule("data]",     Bytes \ {"]"},            Redo("data")),
  Rule("data]",     End,                      Back("DATA_CHARS", 1)),
  Rule("data]]",    Bytes \ {">"},            Redo("data]")),
  Rule("data]]",    End,                      Back("DATA_CHARS", 2))}

scanPercent == {
  Rule("%",  Letters,               Go("%a")),
  Rule("%",  White \cup {"%"},      Before("PERCENT")),
  Rule("%a", Names,                 Go("%a")),
  Rule("%a", {";"},                 Token("PARAM_ENTITY_REF"))}

scanPoundName == {
  Rule("#",  Letters,                             Go("#a")),
  Rule("#a", Names,                               Go("#a")),
  Rule("#a", White \cup {")", ">", "%", "|"},     Before("POUND_NAME")),
  Rule("#a", End,                                 Before("-POUND_NAME"))}

scanLit == {
  Rule("'a",   Xml \ {"'"},  Go("'a")),
  Rule("'a",   {"'"},        Go("'a'")),
  Rule("\"a",  Xml \ {"\""}, Go("\"a")),
  Rule("\"a",  {"\""},       Go("'a'")),
  Rule("'a'",  White \cup {">", "%", "["}, Before("LITERAL")),
  Rule("'a'",  End,          Before("-LITERAL"))}

\* Space is read on as long as the next character does not make a CR a CR LF.
prologSpace == {
  Rule("prolog",   End,             Before("NONE")),
  Rule("prolog",   {"'"},           Go("'a")),
  Rule("prolog",   {"\""},          Go("\"a")),
  Rule("prolog",   {"<"},           Go("prolog<")),
  Rule("prolog<",  {"!"},           Go("<!")),
  Rule("prolog<",  {"?"},           Go("<?")),
  Rule("prolog<",  Letters,         Back("INSTANCE_START", 1)),
  Rule("prolog",   {"\r"},          Go("prolog\r")),
  Rule("prolog\r", End,             Before("-PROLOG_S")),
  Rule("prolog\r", Bytes,           Redo("prolog ")),
  Rule("prolog",   {" ", "\t", "\n"}, Go("prolog ")),
  Rule("prolog ",  {" ", "\t", "\n"}, Go("prolog ")),
  Rule("prolog ",  {"\r"},          Go("prolog \r")),
  Rule("prolog ",  End \cup (Bytes \ White), Before("PROLOG_S")),
  Rule("prolog \r", Bytes,          Redo("prolog ")),
  Rule("prolog \r", End,            Back("PROLOG_S", 1))}

prologPunctuation == {
  Rule("prolog",   {"%"},           Go("%")),
  Rule("prolog",   {","},           Token("COMMA")),
  Rule("prolog",   {"["},           Token("OPEN_BRACKET")),
  Rule("prolog",   {"]"},           Go("prolog]")),
  Rule("prolog]",  End,             Before("-CLOSE_BRACKET")),
  Rule("prolog]",  {"]"},           Go("prolog]]")),
  Rule("prolog]",  Bytes \ {"]"},   Before("CLOSE_BRACKET")),
  Rule("prolog]]", {">"},           Token("COND_SECT_CLOSE")),
  Rule("prolog]]", Bytes \ {">"},   Back("CLOSE_BRACKET", 1)),
  Rule("prolog",   {"("},           Token("OPEN_PAREN")),
  Rule("prolog",   {")"},           Go("prolog)")),
  Rule("prolog)",  End,             Before("-CLOSE_PAREN")),
  Rule("prolog)",  {"*"},           Token("CLOSE_PAREN_ASTERISK")),
  Rule("prolog)",  {"?"},           Token("CLOSE_PAREN_QUESTION")),
  Rule("prolog)",  {"+"},           Token("CLOSE_PAREN_PLUS")),
  Rule("prolog)",  White \cup {">", ",", "|", ")"}, Before("CLOSE_PAREN")),
  Rule("prolog",   {"|"},           Token("OR")),
  Rule("prolog",   {">"},           Token("DECL_CLOSE")),
  Rule("prolog",   {"#"},           Go("#"))}

prologNames == {
  Rule("prolog",   Letters,         Go("name")),
  Rule("prolog",   Names \ Letters, Go("nmtoken")),
  Rule("name",     {"+"},           Token("NAME_PLUS")),
  Rule("name",     {"*"},           Token("NAME_ASTERISK")),
  Rule("name",     {"?"},           Token("NAME_QUESTION")),
  Rule("name",     End,             Before("-NAME")),
  Rule("nmtoken",  End,             Before("-NMTOKEN"))} \cup
  {Rule(s, Names, Go(s)) : s \in {"name", "nmtoken"}} \cup
  {Rule(s, White \cup {">", ")", ",", "|", "[", "%"},
        Before(IF s = "name" THEN "NAME" ELSE "NMTOKEN")) : s \in {"name", "nmtoken"}}

prologTok == prologSpace \cup prologPunctuation \cup prologNames

attributeValueTok == {
  Rule("value",   End,                         Before("NONE")),
  Rule("value",   {"&"},                       Go("&")),
  Rule("value",   {"\n"},                      Token("DATA_NEWLINE")),
  Rule("value",   {"\r"},                      Go("value\r")),
  Rule("value",   {" ", "\t"},                 Token("ATTRIBUTE_VALUE_S")),
  Rule("value",   Bytes \ (White \cup {"&", "<"}), Go("value.")),
  Rule("value\r", End,                         Before("TRAILING_CR")),
  Rule("value\r", {"\n"},                      Token("DATA_NEWLINE")),
  Rule("value\r", Bytes \ {"\n"},              Before("DATA_NEWLINE")),
  Rule("value.",  Bytes \ (White \cup {"&", "<"}), Go("value.")),
  Rule("value.",  End \cup White \cup {"&"},   Before("DATA_CHARS"))}

entityValueTok == {
  Rule("entity",   End,                        Before("NONE")),
  Rule("entity",   {"&"},                      Go("&")),
  Rule("entity",   {"%"},                      Go("entity%")),
  Rule("entity%",  Letters,                    Go("%a")),
  Rule("entity",   {"\n"},                     Token("DATA_NEWLINE")),
  Rule("entity",   {"\r"},                     Go("entity\r")),
  Rule("entity",   Bytes \ {"&", "%", "\n", "\r"}, Go("entity.")),
  Rule("entity\r", End,                        Before("TRAILING_CR")),
  Rule("entity\r", {"\n"},                     Token("DATA_NEWLINE")),
  Rule("entity\r", Bytes \ {"\n"},             Before("DATA_NEWLINE")),
  Rule("entity.",  Bytes \ {"&", "%", "\n", "\r"}, Go("entity.")),
  Rule("entity.",  End \cup {"&", "%", "\n", "\r"}, Before("DATA_CHARS"))}

-----------------------------------------------------------------------------
Rules == UNION {scanComment, scanDecl, scanPi, scanCdataSection, cdataSectionTok, scanEndTag,
                scanHexCharRef, scanCharRef, scanRef, scanAtts, scanLt, contentTok, scanPercent,
                scanPoundName, scanLit, prologTok, attributeValueTok, entityValueTok}

\* The place and the character decide; there is one rule for both at most.
Row(rules) ==
  [c \in Bytes \cup End |->
     IF \E r \in rules : c \in r.on THEN (CHOOSE r \in rules : c \in r.on).then
     ELSE Before(IF c = "" THEN "PARTIAL" ELSE "INVALID")]
TableOf(rules) == [s \in {r.at : r \in rules} |-> Row({r \in rules : r.at = s})]
Table == TableOf(Rules)

At(t, i) == IF i > Len(t) THEN "" ELSE t[i]

\* The token of text t that starts at i for the scan that starts in s: its kind
\* and the index behind it.  A lead byte at the end is not scanned past.
RECURSIVE Scan(_, _, _), Ruled(_, _, _, _)
Scan(t, i, s) == Ruled(t, i, s, Table[s][At(t, i)])

\* The same with the rule for the character that is there
Ruled(t, i, s, r) ==
  LET w == IF At(t, i) \in Lead /\ r.by = 1 THEN 2 ELSE r.by
  IN  CASE r.tok = "&" ->
             LET ref == Scan(t, i + 1, "&")
             IN  IF ref.tok \in {"ENTITY_REF", "CHAR_REF"} THEN Scan(t, ref.next, r.to) ELSE ref
        [] r.tok = "" /\ i + w > Len(t) + 1 ->
             IF s \in {"data", "cdata."} THEN [tok |-> "DATA_CHARS", next |-> i]
                                         ELSE [tok |-> "PARTIAL_CHAR", next |-> i]
        [] r.tok = "" /\ i + w <= Len(t) + 1 -> Scan(t, i + w, r.to)
        [] OTHER -> [tok |-> r.tok, next |-> i + r.by]

\* Where the scan stops, so that what is left is scanned again with more text.
Unfinished == {"NONE", "PARTIAL", "PARTIAL_CHAR", "TRAILING_CR", "TRAILING_RSQB", "-PROLOG_S",
               "-CLOSE_BRACKET", "-CLOSE_PAREN", "-NAME", "-NMTOKEN", "-POUND_NAME", "-LITERAL"}
=============================================================================
