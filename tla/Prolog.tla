------------------------------- MODULE Prolog -------------------------------
(***************************************************************************)
(* The roles of the tokens of a prolog, src/libjudo/src/expat/xmlrole.c,   *)
(* as it is built without XML_DTD.  A handler of the source is a set of    *)
(* rules, one for each token it takes, and "handler" names the handler     *)
(* that is called next.  All handlers take PROLOG_S and stay; they are     *)
(* left out of the sets but for prolog0, which goes on.                    *)
(***************************************************************************)
EXTENDS Integers, Sequences

On(h, tok, means, to)         == [at |-> h, tok |-> tok, word |-> "", role |-> means, to |-> to]
Word(h, tok, word, means, to) == [at |-> h, tok |-> tok, word |-> word, role |-> means, to |-> to]
All(h, toks, means, to)       == {On(h, t, means, to) : t \in toks}

prolog ==
  All("prolog0", {"PROLOG_S", "PI", "COMMENT"}, "NONE", "prolog1") \cup
  All("prolog1", {"PI", "COMMENT"}, "NONE", "prolog1") \cup
  All("prolog2", {"PI", "COMMENT"}, "NONE", "prolog2") \cup
  {On("prolog0", "XML_DECL", "XML_DECL", "prolog1")} \cup
  {Word(h, "DECL_OPEN", "DOCTYPE", "NONE", "doctype0") : h \in {"prolog0", "prolog1"}} \cup
  {On(h, "INSTANCE_START", "INSTANCE_START", "error") : h \in {"prolog0", "prolog1", "prolog2"}}

doctype == {
  On("doctype0", "NAME", "DOCTYPE_NAME", "doctype1"),
  Word("doctype1", "NAME", "SYSTEM", "NONE", "doctype3"),
  Word("doctype1", "NAME", "PUBLIC", "NONE", "doctype2"),
  On("doctype2", "LITERAL", "DOCTYPE_PUBLIC_ID", "doctype3"),
  On("doctype3", "LITERAL", "DOCTYPE_SYSTEM_ID", "doctype4"),
  On("doctype5", "DECL_CLOSE", "DOCTYPE_CLOSE", "prolog2")} \cup
  UNION {{On(h, "OPEN_BRACKET", "DOCTYPE_INTERNAL_SUBSET", "internalSubset"),
          On(h, "DECL_CLOSE", "DOCTYPE_CLOSE", "prolog2")} : h \in {"doctype1", "doctype4"}}

internalSubset == {
  Word("internalSubset", "DECL_OPEN", "ENTITY",   "NONE", "entity0"),
  Word("internalSubset", "DECL_OPEN", "ATTLIST",  "NONE", "attlist0"),
  Word("internalSubset", "DECL_OPEN", "ELEMENT",  "NONE", "element0"),
  Word("internalSubset", "DECL_OPEN", "NOTATION", "NONE", "notation0"),
  On("internalSubset", "PARAM_ENTITY_REF", "PARAM_ENTITY_REF", "internalSubset"),
  On("internalSubset", "CLOSE_BRACKET", "NONE", "doctype5")} \cup
  All("internalSubset", {"PI", "COMMENT"}, "NONE", "internalSubset")

\* entity0 to entity6
entity == {
  On("entity0", "PERCENT", "NONE", "entity1"),
  On("entity0", "NAME", "GENERAL_ENTITY_NAME", "entity2"),
  On("entity1", "NAME", "PARAM_ENTITY_NAME", "entity7"),
  Word("entity2", "NAME", "SYSTEM", "NONE", "entity4"),
  Word("entity2", "NAME", "PUBLIC", "NONE", "entity3"),
  On("entity2", "LITERAL", "ENTITY_VALUE", "declClose"),
  On("entity3", "LITERAL", "ENTITY_PUBLIC_ID", "entity4"),
  On("entity4", "LITERAL", "ENTITY_SYSTEM_ID", "entity5"),
  On("entity5", "DECL_CLOSE", "ENTITY_COMPLETE", "internalSubset"),
  Word("entity5", "NAME", "NDATA", "NONE", "entity6"),
  On("entity6", "NAME", "ENTITY_NOTATION_NAME", "declClose")}

\* entity7 to entity9
paramEntity == {
  Word("entity7", "NAME", "SYSTEM", "NONE", "entity9"),
  Word("entity7", "NAME", "PUBLIC", "NONE", "entity8"),
  On("entity7", "LITERAL", "ENTITY_VALUE", "declClose"),
  On("entity8", "LITERAL", "ENTITY_PUBLIC_ID", "entity9"),
  On("entity9", "LITERAL", "ENTITY_SYSTEM_ID", "declClose")}

notation == {
  On("notation0", "NAME", "NOTATION_NAME", "notation1"),
  Word("notation1", "NAME", "SYSTEM", "NONE", "notation3"),
  Word("notation1", "NAME", "PUBLIC", "NONE", "notation2"),
  On("notation2", "LITERAL", "NOTATION_PUBLIC_ID", "notation4"),
  On("notation3", "LITERAL", "NOTATION_SYSTEM_ID", "declClose"),
  On("notation4", "LITERAL", "NOTATION_SYSTEM_ID", "declClose"),
  On("notation4", "DECL_CLOSE", "NOTATION_NO_SYSTEM_ID", "internalSubset")}

AttributeTypes == {"CDATA", "ID", "IDREF", "IDREFS", "ENTITY", "ENTITIES", "NMTOKEN", "NMTOKENS"}

\* attlist0 to attlist4
attlist == {
  On("attlist0", "NAME", "ATTLIST_ELEMENT_NAME", "attlist1"),
  On("attlist1", "DECL_CLOSE", "NONE", "internalSubset"),
  On("attlist1", "NAME", "ATTRIBUTE_NAME", "attlist2"),
  Word("attlist2", "NAME", "NOTATION", "NONE", "attlist5"),
  On("attlist2", "OPEN_PAREN", "NONE", "attlist3"),
  On("attlist4", "CLOSE_PAREN", "NONE", "attlist8"),
  On("attlist4", "OR", "NONE", "attlist3")} \cup
  {Word("attlist2", "NAME", t, "ATTRIBUTE_TYPE", "attlist8") : t \in AttributeTypes} \cup
  All("attlist3", {"NAME", "NMTOKEN"}, "ATTRIBUTE_ENUM_VALUE", "attlist4")

\* attlist5 to attlist9
attlistDefault == {
  On("attlist5", "OPEN_PAREN", "NONE", "attlist6"),
  On("attlist6", "NAME", "ATTRIBUTE_NOTATION_VALUE", "attlist7"),
  On("attlist7", "CLOSE_PAREN", "NONE", "attlist8"),
  On("attlist7", "OR", "NONE", "attlist6"),
  Word("attlist8", "POUND_NAME", "IMPLIED", "IMPLIED_ATTRIBUTE_VALUE", "attlist1"),
  Word("attlist8", "POUND_NAME", "REQUIRED", "REQUIRED_ATTRIBUTE_VALUE", "attlist1"),
  Word("attlist8", "POUND_NAME", "FIXED", "NONE", "attlist9"),
  On("attlist8", "LITERAL", "DEFAULT_ATTRIBUTE_VALUE", "attlist1"),
  On("attlist9", "LITERAL", "FIXED_ATTRIBUTE_VALUE", "attlist1")}

Children == {<<"NAME", "CONTENT_ELEMENT">>, <<"NAME_QUESTION", "CONTENT_ELEMENT_OPT">>,
             <<"NAME_ASTERISK", "CONTENT_ELEMENT_REP">>, <<"NAME_PLUS", "CONTENT_ELEMENT_PLUS">>}

\* element0 to element3
element == {
  On("element0", "NAME", "ELEMENT_NAME", "element1"),
  Word("element1", "NAME", "EMPTY", "CONTENT_EMPTY", "declClose"),
  Word("element1", "NAME", "ANY", "CONTENT_ANY", "declClose"),
  On("element1", "OPEN_PAREN", "GROUP_OPEN", "element2"),
  Word("element2", "POUND_NAME", "PCDATA", "CONTENT_PCDATA", "element3"),
  On("element2", "OPEN_PAREN", "GROUP_OPEN", "element6"),
  On("element3", "CLOSE_PAREN", "GROUP_CLOSE", "declClose"),
  On("element3", "CLOSE_PAREN_ASTERISK", "GROUP_CLOSE_REP", "declClose"),
  On("element3", "OR", "NONE", "element4")} \cup
  {On("element2", c[1], c[2], "element7") : c \in Children}

\* element4 to element7: a parenthesis closes the declaration at level 0.
elementGroup == {
  On("element4", "NAME", "CONTENT_ELEMENT", "element5"),
  On("element5", "CLOSE_PAREN_ASTERISK", "GROUP_CLOSE_REP", "declClose"),
  On("element5", "OR", "NONE", "element4"),
  On("element6", "OPEN_PAREN", "GROUP_OPEN", "element6"),
  On("element7", "CLOSE_PAREN", "GROUP_CLOSE", "element7"),
  On("element7", "CLOSE_PAREN_ASTERISK", "GROUP_CLOSE_REP", "element7"),
  On("element7", "CLOSE_PAREN_QUESTION", "GROUP_CLOSE_OPT", "element7"),
  On("element7", "CLOSE_PAREN_PLUS", "GROUP_CLOSE_PLUS", "element7"),
  On("element7", "COMMA", "GROUP_SEQUENCE", "element6"),
  On("element7", "OR", "GROUP_CHOICE", "element6")} \cup
  {On("element6", c[1], c[2], "element7") : c \in Children}

declClose == {On("declClose", "DECL_CLOSE", "NONE", "internalSubset")}

Handlers == UNION {prolog, doctype, internalSubset, entity, paramEntity, notation, attlist,
                   attlistDefault, element, elementGroup, declClose}

ByHandler(rules) == [h \in {r.at : r \in rules} \cup {"error"} |-> {r \in rules : r.at = h}]
TakenBy   == ByHandler(Handlers)

-----------------------------------------------------------------------------
XmlPrologStateInit == [handler |-> "prolog0", level |-> 0]

levelAfter(state, tok) ==
  CASE state.handler = "element1" /\ tok = "OPEN_PAREN" -> 1
    [] state.handler = "element2" /\ tok = "OPEN_PAREN" -> 2
    [] state.handler = "element6" /\ tok = "OPEN_PAREN" -> state.level + 1
    [] state.handler = "element7" /\ tok \notin {"COMMA", "OR", "PROLOG_S"} -> state.level - 1
    [] OTHER -> state.level

\* takes has what the handler takes the token for: one at most
RoleAmong(takes, state, tok) ==
  LET r     == CHOOSE x \in takes : TRUE
      level == levelAfter(state, tok)
      to    == IF r.to = "element7" /\ state.handler = "element7" /\ level = 0
               THEN "declClose" ELSE r.to
  IN  IF takes # {} THEN [role |-> r.role, state |-> [handler |-> to, level |-> level]]
      ELSE IF state.handler = "error" \/ tok = "PROLOG_S" THEN [role |-> "NONE", state |-> state]
      ELSE [role |-> "ERROR", state |-> [state EXCEPT !.handler = "error"]]

\* What follows from a token, with the word it starts with where one decides:
\* its role and the next state.
XmlTokenRole(state, tok, word) ==
  RoleAmong({r \in TakenBy[state.handler] : r.tok = tok /\ r.word \in {"", word}}, state, tok)
=============================================================================
