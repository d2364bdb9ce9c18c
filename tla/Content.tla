------------------------------- MODULE Content -------------------------------
(***************************************************************************)
(* The parser of expat, src/libjudo/src/expat/xmlparse.c, with the         *)
(* handlers libjudo sets: elements and character data.  It is built        *)
(* without XML_NS, XML_DTD and XML_CONTEXT_BYTES.                          *)
(*                                                                         *)
(* A parser is a record p:                                                 *)
(*   processor   the function called with the next piece of the document,  *)
(*   started     the encoding is known,                                    *)
(*   role        prologState, groups the connectors of its open groups,    *)
(*   dtd         what is declared (see Values), external: there is more,   *)
(*   defaults    the attributes declared, in order,                        *)
(*   decl        what is being declared,                                   *)
(*   stack       the names of the open tags; tagLevel is its length,       *)
(*   flags       the attributes marked as specified,                       *)
(*   events      what the handlers were told,                              *)
(*   error       the result, and next the index of what is left.           *)
(* "more" says that nextPtr is set: the text may go on.                    *)
(***************************************************************************)
EXTENDS Values, Prolog
LOCAL INSTANCE SequencesExt

NoDeclaration == [entity |-> <<>>, element |-> <<>>, attribute |-> <<>>, cdata |-> FALSE, id |-> FALSE]

NewParser ==
  [processor |-> "prologInit", started |-> FALSE, role |-> XmlPrologStateInit, groups |-> <<>>,
   dtd |-> [entities |-> {}, complete |-> TRUE, standalone |-> FALSE], external |-> FALSE,
   defaults |-> <<>>, decl |-> NoDeclaration, stack |-> <<>>, flags |-> {}, events |-> <<>>,
   error |-> "NONE", next |-> 1]

Fail(p, error) == [p EXCEPT !.error = error]
Leave(p, i)    == [p EXCEPT !.next = i]
Tell(p, e)     == [p EXCEPT !.events = Append(@, e)]

\* reportCharacterData: one call for each piece, and what they say together
Data(p, chars) == Tell(p, [event |-> "data", data |-> chars])

Joined(events) ==
  LET Join(told, e) ==
        IF told # <<>> /\ Last(told).event = "data" /\ e.event = "data"
        THEN Append(Front(told), [Last(told) EXCEPT !.data = @ \o e.data])
        ELSE Append(told, e)
  IN  FoldLeft(Join, <<>>, events)

StartElement(p, name, atts) == Tell(p, [event |-> "start", name |-> name, atts |-> atts])
EndElement(p, name)         == Tell(p, [event |-> "end", name |-> name])

-----------------------------------------------------------------------------
DefaultsOf(p, name) == SelectSeq(p.defaults, LAMBDA d : d.element = name)

defineAttribute(p, value, isId) ==
  LET d == p.decl
      att == [element |-> d.element, id |-> d.attribute, cdata |-> d.cdata, value |-> value]
  IN  IF /\ value # <<>> \/ isId
         /\ \E x \in Range(p.defaults) : x.element = d.element /\ x.id = d.attribute
      THEN p ELSE [p EXCEPT !.defaults = Append(@, att)]

IsCdata(p, name, id) ==
  LET ds == SelectSeq(DefaultsOf(p, name), LAMBDA d : d.id = id)
  IN  ds = <<>> \/ ds[1].cdata

\* An attribute of the tag: its flag says that it was there.
WithValue(acc, id, r) ==
  [flags |-> acc.flags \cup {id}, error |-> r.error, atts |-> Append(acc.atts, <<id, r.pool>>)]

Specified(p, name, t, open, acc, a) ==
  LET id  == Slice(t, a.name, nameEnd(t, a.name))
      raw == Slice(t, a.from, a.end)
  IN  IF acc.error # "NONE" THEN acc
      ELSE IF id \in acc.flags THEN Fail(acc, "DUPLICATE_ATTRIBUTE")
      ELSE WithValue(acc, id, IF a.normalized THEN [error |-> "NONE", pool |-> raw]
                              ELSE storeAttributeValue(raw, IsCdata(p, name, id), p.dtd, open))

\* A default, for one that was not
Defaulted(acc, d) ==
  IF d.id \notin acc.flags /\ d.value # <<>>
  THEN [acc EXCEPT !.flags = @ \cup {d.id}, !.atts = Append(@, <<d.id, d.value[1]>>)]
  ELSE acc

\* Mutant: the flags are left for the next tag.
NotCleared(acc) == acc

Cleared(acc) == [acc EXCEPT !.flags = @ \ {a[1] : a \in Range(acc.atts)}]

\* The attributes of a tag: those specified, then the defaults of the others.
Completed(p, name, acc) ==
  IF acc.error # "NONE" THEN acc ELSE Cleared(FoldLeft(Defaulted, acc, DefaultsOf(p, name)))

storeAtts(p, name, t, i, open) ==
  LET none == [flags |-> p.flags, error |-> "NONE", atts |-> <<>>]
      take(acc, a) == Specified(p, name, t, open, acc, a)
  IN  Completed(p, name, FoldLeft(take, none, getAtts(t, i)))

-----------------------------------------------------------------------------
RECURSIVE epilogProcessor(_, _, _, _), epilogToken(_, _, _, _, _)
epilogProcessor(p, t, i, more) ==
  epilogToken([p EXCEPT !.processor = "epilog"], t, i, Scan(t, i, "prolog"), more)

epilogToken(p, t, i, k, more) ==
  CASE k.tok \in {"-PROLOG_S", "NONE"} -> Leave(p, Len(t) + 1)
    [] k.tok \in {"PROLOG_S", "PI", "COMMENT"} -> epilogProcessor(p, t, k.next, more)
    [] k.tok = "INVALID" -> Fail(p, "INVALID_TOKEN")
    [] k.tok \in {"PARTIAL", "PARTIAL_CHAR"} /\ more -> Leave(p, i)
    [] k.tok = "PARTIAL" /\ ~ more -> Fail(p, "UNCLOSED_TOKEN")
    [] k.tok = "PARTIAL_CHAR" /\ ~ more -> Fail(p, "PARTIAL_CHAR")
    [] OTHER -> Fail(p, "JUNK_AFTER_DOC_ELEMENT")

\* next is 0 if the section is not closed yet, and where it goes on is in p.
RECURSIVE doCdataSection(_, _, _, _), cdataToken(_, _, _, _, _)
doCdataSection(p, t, i, more) == cdataToken(p, t, i, Scan(t, i, "cdata"), more)

cdataToken(p, t, i, k, more) ==
  LET open(q) == [p |-> q, next |-> 0]
  IN  CASE k.tok = "CDATA_SECT_CLOSE" -> [p |-> p, next |-> k.next]
        [] k.tok = "DATA_NEWLINE" -> doCdataSection(Data(p, <<"\n">>), t, k.next, more)
        [] k.tok = "DATA_CHARS" -> doCdataSection(Data(p, Slice(t, i, k.next)), t, k.next, more)
        [] k.tok = "INVALID" -> open(Fail(p, "INVALID_TOKEN"))
        [] k.tok \in {"PARTIAL_CHAR", "PARTIAL", "NONE"} /\ more -> open(Leave(p, i))
        [] k.tok = "PARTIAL_CHAR" /\ ~ more -> open(Fail(p, "PARTIAL_CHAR"))
        [] k.tok \in {"PARTIAL", "NONE"} /\ ~ more -> open(Fail(p, "UNCLOSED_CDATA_SECTION"))
        [] OTHER -> open(Fail(p, "UNEXPECTED_STATE"))

\* What ends the text of an entity ends in no tag that was opened before it.
endsContent(p, level) ==
  IF level = 0 THEN Fail(p, "NO_ELEMENTS")
  ELSE IF Len(p.stack) # level THEN Fail(p, "ASYNC_ENTITY") ELSE p

\* There is no whole token: the rest has to wait, or this is the end.
contentStops(p, tok, t, i, level, more) ==
  CASE tok = "INVALID" -> Fail(p, "INVALID_TOKEN")
    [] tok # "INVALID" /\ more -> Leave(p, i)
    [] tok = "TRAILING_CR" /\ ~ more -> endsContent(Data(p, <<"\n">>), level)
    [] tok = "NONE" /\ ~ more -> endsContent(p, level)
    [] tok = "TRAILING_RSQB" /\ ~ more -> endsContent(Data(p, Slice(t, i, Len(t) + 1)), level)
    [] tok = "PARTIAL" /\ ~ more -> Fail(p, "UNCLOSED_TOKEN")
    [] tok = "PARTIAL_CHAR" /\ ~ more -> Fail(p, "PARTIAL_CHAR")

EndTag(p, t, i, level) ==
  LET top == Len(p.stack)
      name == Slice(t, i + 2, nameEnd(t, i + 2))
  IN  IF top = level THEN Fail(p, "ASYNC_ENTITY")
      ELSE IF name # p.stack[top] THEN Fail(p, "TAG_MISMATCH")
      ELSE EndElement([p EXCEPT !.stack = SubSeq(@, 1, top - 1)], name)

\* A start tag, or the one tag of an empty element, with what storeAtts returns
Opened(p, name, r, empty) ==
  LET q == StartElement([p EXCEPT !.flags = r.flags], name, r.atts)
  IN  IF r.error # "NONE" THEN Fail(p, r.error)
      ELSE IF empty THEN EndElement(q, name) ELSE q

StartTag(p, t, i, open, empty) ==
  LET name == Slice(t, i + 1, nameEnd(t, i + 1))
  IN  Opened(IF empty THEN p ELSE [p EXCEPT !.stack = Append(@, name)], name,
             storeAtts(p, name, t, i, open), empty)

\* A token that is text, or nothing to the handlers
contentPiece(p, tok, t, i, next) ==
  CASE tok = "CHAR_REF" -> IF charRefNumber(t, i) < 0 THEN Fail(p, "BAD_CHAR_REF")
                           ELSE Data(p, XmlEncode(charRefNumber(t, i)))
    [] tok = "XML_DECL" -> Fail(p, "MISPLACED_XML_PI")
    [] tok = "DATA_NEWLINE" -> Data(p, <<"\n">>)
    [] tok = "DATA_CHARS" -> Data(p, Slice(t, i, next))
    [] tok \in {"PI", "COMMENT"} -> p

RECURSIVE doContent(_, _, _, _, _, _), contentToken(_, _, _, _, _, _, _), EntityReference(_, _, _)

\* The text of an entity is content of its own, with the entity open.
EntityReference(p, name, open) ==
  LET found == Named(p.dtd.entities, name)
      e     == CHOOSE x \in found : TRUE
  IN  IF predefinedEntityName(name) # "" THEN Data(p, <<predefinedEntityName(name)>>)
      ELSE IF found = {} THEN IF p.dtd.complete \/ p.dtd.standalone THEN Fail(p, "UNDEFINED_ENTITY")
                              ELSE p
      ELSE IF name \in open THEN Fail(p, "RECURSIVE_ENTITY_REF")
      ELSE IF e.notation THEN Fail(p, "BINARY_ENTITY_REF")
      ELSE IF e.internal THEN doContent(p, Len(p.stack), e.text, 1, FALSE, open \cup {name})
      ELSE p

\* The content of the document (level 0) or of the entities in open.
doContent(p, level, t, i, more, open) ==
  contentToken(p, level, t, i, Scan(t, i, "content"), more, open)

EmptyTags == {"EMPTY_ELEMENT_WITH_ATTS", "EMPTY_ELEMENT_NO_ATTS"}
Tags == {"START_TAG_WITH_ATTS", "START_TAG_NO_ATTS", "END_TAG"} \cup EmptyTags

contentToken(p, level, t, i, k, more, open) ==
  LET ended(q) == q.error = "NONE" /\ q.stack = <<>> /\ k.tok \in EmptyTags \cup {"END_TAG"}
      on(q) == IF ended(q) THEN epilogProcessor(q, t, k.next, more)
               ELSE IF q.error = "NONE" THEN doContent(q, level, t, k.next, more, open) ELSE q
      after(section) ==
        IF section.next = 0 THEN [section.p EXCEPT !.processor = "cdataSection"]
        ELSE doContent(section.p, level, t, section.next, more, open)
  IN  CASE k.tok \in Unfinished \cup {"INVALID"} -> contentStops(p, k.tok, t, i, level, more)
        [] k.tok = "CDATA_SECT_OPEN" -> after(doCdataSection(p, t, k.next, more))
        [] OTHER ->
             on(CASE k.tok = "ENTITY_REF" -> EntityReference(p, Slice(t, i + 1, k.next - 1), open)
                  [] k.tok = "END_TAG" -> EndTag(p, t, i, level)
                  [] k.tok \in Tags \ {"END_TAG"} -> StartTag(p, t, i, open, k.tok \in EmptyTags)
                  [] k.tok \notin Tags \cup {"ENTITY_REF"} -> contentPiece(p, k.tok, t, i, k.next))

\* Mutant: the content does not learn that there may be more of it.
contentProcessorToEnd(p, t, i, more) ==
  doContent([p EXCEPT !.processor = "content"], 0, t, i, FALSE, {})

contentProcessor(p, t, i, more) ==
  doContent([p EXCEPT !.processor = "content"], 0, t, i, more, {})

afterSection(r, t, more) == IF r.next = 0 THEN r.p ELSE contentProcessor(r.p, t, r.next, more)
cdataSectionProcessor(p, t, i, more) == afterSection(doCdataSection(p, t, i, more), t, more)

-----------------------------------------------------------------------------
KnownEncodings == {Chars("UTF-8"), Chars("utf-8")}

\* t is the whole declaration.
withXmlDecl(p, d) ==
  LET q == [p EXCEPT !.dtd.standalone = d.standalone]
  IN  IF ~ d.ok THEN Fail(p, "SYNTAX")
      ELSE IF d.encoding \in KnownEncodings \cup {<<>>} THEN q ELSE Fail(q, "UNKNOWN_ENCODING")
processXmlDecl(p, t) == withXmlDecl(p, doParseXmlDecl(FALSE, SubSeq(t, 6, Len(t) - 2)))

\* One entity of a name: what is declared again is read and not kept.
newEntity(p, name) ==
  LET new == /\ predefinedEntityName(name) = "" /\ p.dtd.complete
             /\ Named(p.dtd.entities, name) = {}
  IN  IF new THEN [p EXCEPT !.decl.entity = name,
                            !.dtd.entities = @ \cup {[name |-> name, text |-> <<>>, internal |-> FALSE,
                                                      notation |-> FALSE]}]
      ELSE [p EXCEPT !.decl.entity = <<>>]

changeEntity(p, text, internal) ==
  LET old == Named(p.dtd.entities, p.decl.entity)
  IN  [p EXCEPT !.dtd.entities =
         (@ \ old) \cup {[e EXCEPT !.text = text, !.internal = internal, !.notation = ~ internal] : e \in old}]

\* What is done for the role of the token s: of the document type,
declareDoctype(p, role, s) ==
  CASE role = "XML_DECL" -> processXmlDecl(p, s)
    [] role \in {"DOCTYPE_PUBLIC_ID", "ENTITY_PUBLIC_ID", "NOTATION_PUBLIC_ID"} ->
         IF isPublicId(SubSeq(s, 2, Len(s) - 1)) THEN p ELSE Fail(p, "SYNTAX")
    [] role = "DOCTYPE_SYSTEM_ID" -> [p EXCEPT !.external = TRUE]
    [] role = "DOCTYPE_CLOSE" -> [p EXCEPT !.dtd.complete = @ /\ ~ p.external]
    [] role = "PARAM_ENTITY_REF" -> [p EXCEPT !.dtd.complete = FALSE]

\* of an attribute,
declareAttribute(p, role, s) ==
  LET define(q, value, isId) == IF q.dtd.complete THEN defineAttribute(q, value, isId) ELSE q
      default(av) == IF av.error # "NONE" THEN Fail(p, av.error) ELSE define(p, <<av.pool>>, FALSE)
  IN  CASE role = "ATTLIST_ELEMENT_NAME" -> [p EXCEPT !.decl.element = s]
        [] role = "ATTRIBUTE_NAME" ->
             [p EXCEPT !.decl.attribute = s, !.decl.cdata = FALSE, !.decl.id = FALSE]
        [] role = "ATTRIBUTE_TYPE" ->
             [p EXCEPT !.decl.cdata = @ \/ s = Chars("CDATA"), !.decl.id = @ \/ s = Chars("ID")]
        [] role \in {"IMPLIED_ATTRIBUTE_VALUE", "REQUIRED_ATTRIBUTE_VALUE"} ->
             define(p, <<>>, p.decl.id)
        [] role \in {"DEFAULT_ATTRIBUTE_VALUE", "FIXED_ATTRIBUTE_VALUE"} ->
             default(storeAttributeValue(SubSeq(s, 2, Len(s) - 1), p.decl.cdata, p.dtd, {}))

\* of an entity,
declareEntity(p, role, s) ==
  LET keep(ev) == Fail(changeEntity(p, ev.pool, TRUE), ev.error)
  IN  CASE role = "GENERAL_ENTITY_NAME" -> newEntity(p, s)
        [] role = "PARAM_ENTITY_NAME" -> [p EXCEPT !.decl.entity = <<>>]
        [] role = "ENTITY_VALUE" -> keep(storeEntityValue(SubSeq(s, 2, Len(s) - 1), 1, <<>>))
        [] role = "ENTITY_NOTATION_NAME" -> changeEntity(p, <<>>, FALSE)

\* Mutant: a group that is opened takes over the connector of one before it.
declareGroupOver(p, role) ==
  LET level == p.role.level
      connect(c) == IF p.groups[level] \in {"", c} THEN [p EXCEPT !.groups[level] = c]
                    ELSE Fail(p, "SYNTAX")
  IN  CASE role = "GROUP_OPEN" -> IF level <= Len(p.groups) THEN p
                                  ELSE [p EXCEPT !.groups = Append(@, "")]
        [] role = "GROUP_SEQUENCE" -> connect(",")
        [] role = "GROUP_CHOICE" -> connect("|")

\* and of a group.  GROUP_OPEN makes room for its level; the two connectors
\* must not be mixed in one group.
declareGroup(p, role) ==
  LET level == p.role.level
      connect(c) == IF p.groups[level] \in {"", c} THEN [p EXCEPT !.groups[level] = c]
                    ELSE Fail(p, "SYNTAX")
  IN  CASE role = "GROUP_OPEN" -> [p EXCEPT !.groups = Append(SubSeq(@, 1, level - 1), "")]
        [] role = "GROUP_SEQUENCE" -> connect(",")
        [] role = "GROUP_CHOICE" -> connect("|")

DoctypeRoles   == {"XML_DECL", "DOCTYPE_PUBLIC_ID", "ENTITY_PUBLIC_ID", "NOTATION_PUBLIC_ID",
                   "DOCTYPE_SYSTEM_ID", "DOCTYPE_CLOSE", "PARAM_ENTITY_REF"}
AttributeRoles == {"ATTLIST_ELEMENT_NAME", "ATTRIBUTE_NAME", "ATTRIBUTE_TYPE", "IMPLIED_ATTRIBUTE_VALUE",
                   "REQUIRED_ATTRIBUTE_VALUE", "DEFAULT_ATTRIBUTE_VALUE", "FIXED_ATTRIBUTE_VALUE"}
EntityRoles    == {"GENERAL_ENTITY_NAME", "PARAM_ENTITY_NAME", "ENTITY_VALUE", "ENTITY_NOTATION_NAME"}

declare(p, role, s) ==
  CASE role \in DoctypeRoles -> declareDoctype(p, role, s)
    [] role \in AttributeRoles -> declareAttribute(p, role, s)
    [] role \in EntityRoles -> declareEntity(p, role, s)
    [] role \in {"GROUP_OPEN", "GROUP_SEQUENCE", "GROUP_CHOICE"} -> declareGroup(p, role)
    [] OTHER -> p

RoleError(tok) == CASE tok = "PARAM_ENTITY_REF" -> "PARAM_ENTITY_REF"
                    [] tok = "XML_DECL" -> "MISPLACED_XML_PI"
                    [] OTHER -> "SYNTAX"

Keywords == {"DOCTYPE", "SYSTEM", "PUBLIC", "ENTITY", "ATTLIST", "ELEMENT", "NOTATION", "NDATA",
             "EMPTY", "ANY", "PCDATA", "IMPLIED", "REQUIRED", "FIXED"} \cup AttributeTypes

Keyword(s) == IF \E w \in Keywords : Chars(w) = s THEN CHOOSE w \in Keywords : Chars(w) = s ELSE "-"

\* The token at i, and whether the end of the text ends it
prologToken(p, t, i) ==
  LET ended(k) == IF SubSeq(k.tok, 1, 1) # "-" THEN [tok |-> k.tok, next |-> k.next, short |-> FALSE]
                  ELSE [tok |-> SubSeq(k.tok, 2, Len(k.tok)), next |-> Len(t) + 1, short |-> TRUE]
  IN  IF ~ p.started /\ i = Len(t) THEN [tok |-> "PARTIAL", next |-> i, short |-> FALSE]
      ELSE ended(Scan(t, i, "prolog"))

\* The word a token s starts with where that decides
WordOf(tok, s) ==
  Keyword(CASE tok = "DECL_OPEN" -> SubSeq(s, 3, Len(s))
            [] tok = "POUND_NAME" -> SubSeq(s, 2, Len(s))
            [] OTHER -> s)

RECURSIVE doProlog(_, _, _, _), prologTaken(_, _, _, _, _), prologRole(_, _, _, _, _, _)
doProlog(p, t, i, more) == prologTaken(p, t, i, prologToken(p, t, i), more)

prologTaken(p, t, i, k, more) ==
  CASE k.tok \in {"NONE", "PARTIAL", "PARTIAL_CHAR"} \/ (k.short /\ more) ->
         IF more THEN Leave(p, i)
         ELSE Fail(p, CASE k.tok = "NONE" -> "NO_ELEMENTS"
                        [] k.tok = "PARTIAL" -> "UNCLOSED_TOKEN"
                        [] OTHER -> "PARTIAL_CHAR")
    [] k.tok = "INVALID" -> Fail(p, "INVALID_TOKEN")
    [] OTHER ->
         prologRole(p, t, i, k, XmlTokenRole(p.role, k.tok, WordOf(k.tok, Slice(t, i, k.next))), more)

prologRole(p, t, i, k, r, more) ==
  LET on(q) == IF q.error # "NONE" THEN q ELSE doProlog(q, t, k.next, more)
      in    == [p EXCEPT !.role = r.state]
  IN  IF r.role = "ERROR" THEN Fail(in, RoleError(k.tok))
      ELSE IF r.role = "INSTANCE_START" THEN contentProcessor(in, t, i, more)
      ELSE on(declare([in EXCEPT !.started = TRUE], r.role, Slice(t, i, k.next)))

prologProcessor(p, t, i, more) == doProlog([p EXCEPT !.processor = "prolog"], t, i, more)

\* The processor reads t, and leaves what starts at p.next if there may be more.
Process(p, t, more) ==
  CASE p.processor \in {"prologInit", "prolog"} -> prologProcessor(p, t, 1, more)
    [] p.processor = "content" -> contentProcessor(p, t, 1, more)
    [] p.processor = "cdataSection" -> cdataSectionProcessor(p, t, 1, more)
    [] p.processor = "epilog" -> epilogProcessor(p, t, 1, more)
    [] p.processor = "error" -> p
=============================================================================
