------------------------------ MODULE XMLParse ------------------------------
(***************************************************************************)
(* XML_Parse, src/libjudo/src/expat/xmlparse.c.                            *)
(*                                                                         *)
(* A caller gives the document piece by piece and ends it with the last    *)
(* one or with an empty call.  What could not be parsed yet is kept in the *)
(* buffer of ParseBuffer, for which the parser is the processor.           *)
(***************************************************************************)
EXTENDS Content, ParseBuffer

CONSTANT PieceSizes          \* how much a call gives at most: the bounds of the calls

VARIABLES doc,               \* what is written: a record with the text
          given,             \* how much of it
          parser,
          ended              \* the last call was made

xmlVars == <<doc, given, parser, buffer, rest, ended>>

\* A parser that fails is not asked again.
Parsed(text, final) ==
  LET failed(p) == IF p.error = "NONE" THEN p ELSE [p EXCEPT !.processor = "error"]
  IN  IF parser.processor = "error" THEN parser
      ELSE failed(Process([parser EXCEPT !.error = "NONE"], text, ~ final))

Failed == parser'.error # "NONE"

\* len = 0 and isFinal
endDocument ==
  /\ parser' = Parsed(rest, TRUE)
  /\ UNCHANGED bufferVars

\* The caller's bytes are parsed where they are.
parseInPlace(data, final) ==
  /\ parser' = Parsed(data, final)
  /\ KeepLeftOver(data, parser'.next, final \/ Failed)

XML_ParseBuffer(data, final) ==
  /\ parser' = Parsed(rest \o data, final)
  /\ ParseBuffered(data, parser'.next, final \/ Failed)

\* len is 0 for the call that only ends the document.
XML_Parse(len, final) ==
  /\ ~ ended
  /\ given + len <= Len(doc.text)
  /\ final => given + len = Len(doc.text)
  /\ final \/ len > 0
  /\ given' = given + len
  /\ ended' = final
  /\ UNCHANGED doc
  /\ LET data == SubSeq(doc.text, given + 1, given + len)
     IN  \/ len = 0 /\ endDocument
         \/ len > 0 /\ parseInPlace(data, final)
         \/ len > 0 /\ XML_ParseBuffer(data, final)

XMLInit(documents) ==
  /\ doc \in documents /\ given = 0 /\ ended = FALSE
  /\ parser = NewParser /\ BufferInit

XMLNext == \E len \in PieceSizes, final \in BOOLEAN : XML_Parse(len, final)

-----------------------------------------------------------------------------
\* It makes no difference where a document is cut into pieces: neither to the
\* error nor, if there is none, to what the handlers have been told.  XML_Parse
\* of xmlparse.c.
SameAs(whole) ==
  /\ parser.error = whole.error
  /\ parser.error = "NONE" => Joined(parser.events) = Joined(whole.events)
CutsDontMatter == ended => SameAs(Process(NewParser, doc.text, FALSE))
=============================================================================
