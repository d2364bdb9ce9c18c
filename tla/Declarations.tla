---------------------------- MODULE Declarations ----------------------------
(***************************************************************************)
(* The prolog as doProlog of src/libjudo/src/expat/xmlparse.c takes it,    *)
(* token by token, next to the grammar of the XML recommendation.  The     *)
(* grammar is read from the left: "expected" is the set of what may follow *)
(* (sequences of symbols) of all the ways to read the tokens so far.       *)
(***************************************************************************)
EXTENDS Content
LOCAL INSTANCE SequencesExt

CONSTANT MaxTokens           \* bound: how many tokens of a document are read

VARIABLES reader,            \* the parser, without a text
          role,              \* the role of the last token
          expected, wanted,  \* what may follow, and the roles the token may have
          read               \* how many

declVars == <<reader, role, expected, wanted, read>>

T(tok, r)       == [tok |-> tok, word |-> "", role |-> r]
W(tok, word, r) == [tok |-> tok, word |-> word, role |-> r]
N(symbol)       == [tok |-> "", word |-> symbol, role |-> ""]

\* SYSTEM id, or PUBLIC id id, with the roles of the ids.
ExternalID(public, system) ==
  {<<W("NAME", "SYSTEM", "NONE"), T("LITERAL", system)>>,
   <<W("NAME", "PUBLIC", "NONE"), T("LITERAL", public), T("LITERAL", system)>>}

Close       == T("DECL_CLOSE", "NONE")
Decl(word)  == W("DECL_OPEN", word, "NONE")
Misc(s)     == {<<T("PI", "NONE"), N(s)>>, <<T("COMMENT", "NONE"), N(s)>>}
Then(A, s)  == {a \o s : a \in A}
Quantified  == {<<T(c[1], c[2])>> : c \in Children}
GroupEnds   == {<<T("CLOSE_PAREN", "GROUP_CLOSE")>>, <<T("CLOSE_PAREN_ASTERISK", "GROUP_CLOSE_REP")>>,
                <<T("CLOSE_PAREN_QUESTION", "GROUP_CLOSE_OPT")>>, <<T("CLOSE_PAREN_PLUS", "GROUP_CLOSE_PLUS")>>}

Grammar == [
  document  |-> {<<T("XML_DECL", "XML_DECL"), N("misc")>>, <<N("misc")>>},
  misc      |-> Misc("misc") \cup {<<N("root")>>, <<N("doctype"), N("misc2")>>},
  misc2     |-> Misc("misc2") \cup {<<N("root")>>},
  root      |-> {<<T("INSTANCE_START", "INSTANCE_START")>>},
  doctype   |-> {<<Decl("DOCTYPE"), T("NAME", "DOCTYPE_NAME"), N("extid"), N("subset"),
                   T("DECL_CLOSE", "DOCTYPE_CLOSE")>>},
  extid     |-> {<<>>} \cup ExternalID("DOCTYPE_PUBLIC_ID", "DOCTYPE_SYSTEM_ID"),
  subset    |-> {<<>>, <<T("OPEN_BRACKET", "DOCTYPE_INTERNAL_SUBSET"), N("decls"),
                         T("CLOSE_BRACKET", "NONE")>>},
  decls     |-> {<<>>, <<N("decl"), N("decls")>>,
                 <<T("PARAM_ENTITY_REF", "PARAM_ENTITY_REF"), N("decls")>>} \cup Misc("decls"),
  decl      |-> {<<Decl("ENTITY"), N("entity")>>, <<Decl("NOTATION"), N("notation")>>,
                 <<Decl("ATTLIST"), T("NAME", "ATTLIST_ELEMENT_NAME"), N("atts")>>,
                 <<Decl("ELEMENT"), T("NAME", "ELEMENT_NAME"), N("model")>>},
  entity    |-> {<<T("NAME", "GENERAL_ENTITY_NAME"), T("LITERAL", "ENTITY_VALUE"), Close>>,
                 <<T("NAME", "GENERAL_ENTITY_NAME"), N("extent"), T("DECL_CLOSE", "ENTITY_COMPLETE")>>,
                 <<T("NAME", "GENERAL_ENTITY_NAME"), N("extent"), W("NAME", "NDATA", "NONE"),
                   T("NAME", "ENTITY_NOTATION_NAME"), Close>>,
                 <<T("PERCENT", "NONE"), T("NAME", "PARAM_ENTITY_NAME"), N("extent"), Close>>,
                 <<T("PERCENT", "NONE"), T("NAME", "PARAM_ENTITY_NAME"), T("LITERAL", "ENTITY_VALUE"),
                   Close>>},
  extent    |-> ExternalID("ENTITY_PUBLIC_ID", "ENTITY_SYSTEM_ID"),
  notation  |-> {<<T("NAME", "NOTATION_NAME"), N("notid")>>},
  notid     |-> Then(ExternalID("NOTATION_PUBLIC_ID", "NOTATION_SYSTEM_ID"), <<Close>>)
                  \cup {<<W("NAME", "PUBLIC", "NONE"), T("LITERAL", "NOTATION_PUBLIC_ID"),
                          T("DECL_CLOSE", "NOTATION_NO_SYSTEM_ID")>>},
  atts      |-> {<<Close>>, <<T("NAME", "ATTRIBUTE_NAME"), N("type"), N("default"), N("atts")>>},
  type      |-> {<<W("NAME", t, "ATTRIBUTE_TYPE")>> : t \in AttributeTypes} \cup
                {<<T("OPEN_PAREN", "NONE"), N("tokens")>>,
                 <<W("NAME", "NOTATION", "NONE"), T("OPEN_PAREN", "NONE"), N("names")>>},
  tokens    |-> {<<T(t, "ATTRIBUTE_ENUM_VALUE"), N("tokens2")>> : t \in {"NAME", "NMTOKEN"}},
  tokens2   |-> {<<T("CLOSE_PAREN", "NONE")>>, <<T("OR", "NONE"), N("tokens")>>},
  names     |-> {<<T("NAME", "ATTRIBUTE_NOTATION_VALUE"), N("names2")>>},
  names2    |-> {<<T("CLOSE_PAREN", "NONE")>>, <<T("OR", "NONE"), N("names")>>},
  default   |-> {<<W("POUND_NAME", "IMPLIED", "IMPLIED_ATTRIBUTE_VALUE")>>,
                 <<W("POUND_NAME", "REQUIRED", "REQUIRED_ATTRIBUTE_VALUE")>>,
                 <<W("POUND_NAME", "FIXED", "NONE"), T("LITERAL", "FIXED_ATTRIBUTE_VALUE")>>,
                 <<T("LITERAL", "DEFAULT_ATTRIBUTE_VALUE")>>},
  model     |-> {<<W("NAME", "EMPTY", "CONTENT_EMPTY"), Close>>, <<W("NAME", "ANY", "CONTENT_ANY"), Close>>,
                 <<N("group"), Close>>,
                 <<T("OPEN_PAREN", "GROUP_OPEN"), W("POUND_NAME", "PCDATA", "CONTENT_PCDATA"), N("mixed"),
                   Close>>},
  mixed     |-> {<<T("CLOSE_PAREN", "GROUP_CLOSE")>>, <<N("mixed2")>>},
  mixed2    |-> {<<T("CLOSE_PAREN_ASTERISK", "GROUP_CLOSE_REP")>>,
                 <<T("OR", "NONE"), T("NAME", "CONTENT_ELEMENT"), N("mixed2")>>},
  group     |-> {<<T("OPEN_PAREN", "GROUP_OPEN"), N("particle"), N("members")>>},
  members   |-> GroupEnds \cup {<<T("OR", "GROUP_CHOICE"), N("particle"), N("choice")>>,
                                <<T("COMMA", "GROUP_SEQUENCE"), N("particle"), N("sequence")>>},
  choice    |-> GroupEnds \cup {<<T("OR", "GROUP_CHOICE"), N("particle"), N("choice")>>},
  sequence  |-> GroupEnds \cup {<<T("COMMA", "GROUP_SEQUENCE"), N("particle"), N("sequence")>>},
  particle  |-> Quantified \cup {<<N("group")>>}]

\* The same sequences with a token in front.
RECURSIVE Unfolded(_)
Unfolded(S) ==
  LET open == {s \in S : s # <<>> /\ s[1].tok = ""}
  IN  IF open = {} THEN S
      ELSE Unfolded((S \ open) \cup UNION {Then(Grammar[s[1].word], Tail(s)) : s \in open})

Tokens_ == {<<a.tok, a.word>> : a \in {a \in UNION {UNION {{s[i] : i \in 1..Len(s)} : s \in g} :
              g \in {Grammar[n] : n \in DOMAIN Grammar}} : a.tok # ""}}

\* White space is no part of a declaration, but puts an end to the hope for an
\* XML declaration.
AfterSpace == IF expected = {<<N("document")>>} THEN {<<N("misc")>>} ELSE expected

-----------------------------------------------------------------------------
\* The text of a token: only that of an XML declaration matters here.
Sample(tok) == IF tok = "XML_DECL" THEN Chars("<?xml version='1.0'?>") ELSE <<>>

Taken(p, tok, word) ==
  LET r == XmlTokenRole(p.role, tok, word)
  IN  IF r.role = "ERROR" THEN Fail(p, RoleError(tok))
      ELSE declare([p EXCEPT !.role = r.state], r.role, Sample(tok))

\* Of what may follow, what begins with the token
Fitting(unfolded, tok, word) ==
  {s \in unfolded : s # <<>> /\ s[1].tok = tok /\ s[1].word \in {"", word}}

ReadToken(tok, word, unfolded) ==
  LET fit == Fitting(unfolded, tok, word)
  IN  /\ reader' = Taken(reader, tok, word)
      /\ role' = XmlTokenRole(reader.role, tok, word).role
      /\ expected' = IF tok = "PROLOG_S" THEN AfterSpace ELSE {Tail(s) : s \in fit}
      /\ wanted' = IF tok = "PROLOG_S" THEN {"NONE"} ELSE {s[1].role : s \in fit}

\* Places to begin at: the start of a document, that of an internal subset, and
\* the content model of an element, whose groups take many tokens.
Beginning == <<<<"DECL_OPEN", "DOCTYPE">>, <<"NAME", "">>, <<"OPEN_BRACKET", "">>,
               <<"DECL_OPEN", "ELEMENT">>, <<"NAME", "">>, <<"OPEN_PAREN", "">>>>

DeclInit ==
  /\ role = "NONE" /\ read = 0 /\ wanted = {"NONE"}
  /\ \E begun \in {<<>>, SubSeq(Beginning, 1, 3), Beginning} :
       /\ reader = FoldLeft(LAMBDA p, t : Taken(p, t[1], t[2]), NewParser, begun)
       /\ expected = FoldLeft(LAMBDA S, t : {Tail(s) : s \in Fitting(Unfolded(S), t[1], t[2])},
                              {<<N("document")>>}, begun)

DeclIdle == /\ reader = NewParser /\ role = "NONE" /\ read = 0
            /\ expected = {<<N("document")>>} /\ wanted = {"NONE"}

DeclNext ==
  /\ read < MaxTokens /\ reader.error = "NONE" /\ role # "INSTANCE_START"
  /\ read' = read + 1
  /\ LET unfolded == Unfolded(expected)
     IN  \E t \in Tokens_ \cup {<<"PROLOG_S", "">>} : ReadToken(t[1], t[2], unfolded)

-----------------------------------------------------------------------------
\* The prolog is refused at the very token with which it stops being the
\* beginning of one by the grammar, and up to there every token has the role
\* the grammar gives it.  xmlrole.c, and the connectors of doProlog.
FollowsGrammar ==
  /\ (reader.error = "NONE") = (expected # {})
  /\ expected # {} /\ read > 0 => wanted = {role}
=============================================================================
