---------------------------- MODULE ElementStream ----------------------------
(***************************************************************************)
(* libjudo's wrapper of the expat parser (libjudo/src/ElementStream.cpp):   *)
(* the handlers that expat calls build the children of the document's root  *)
(* on a stack and hand each to the listener when it is complete; reset()    *)
(* makes a new parser for a new document.  Expat is external: it calls the  *)
(* handlers in the order of a well-formed document, until it meets an error.*)
(*                                                                         *)
(* An element is written as the sequence of its tokens: a start tag is its  *)
(* name, then its content, then "/".  The token "." is character data.      *)
(***************************************************************************)
EXTENDS Integers, Sequences, FiniteSets, SequencesExt

CONSTANTS
    Names,          \* names of elements
    ResetAnywhere,  \* reset() also when a child of the root is incomplete
    ResetAtEnd,     \* the listener calls reset() from onDocumentEnd()
    MaxTokens,      \* tokens parsed in one document
    MaxDocuments    \* calls of reset()

ASSUME ElementStreamAssumption ==
    /\ "/" \notin Names /\ "." \notin Names
    /\ {ResetAnywhere, ResetAtEnd} \subseteq BOOLEAN
    /\ {MaxTokens, MaxDocuments} \subseteq Nat

VARIABLES
    parser,             \* expat: "parsing" or, after an error, "error"
    text,               \* what expat has parsed of this document
    element_stack,      \* _element_stack
    document_started,   \* _document_started
    document_ended,     \* _document_ended
    documents,          \* documents there have been
    events              \* calls of the listener for this document

flags == <<document_started, document_ended>>
vars == <<parser, text, element_stack, flags, documents, events>>

Tokens == Names \cup {"/", "."}

\* Elements open after the first n tokens of a document
Depth(tokens, n) ==
    Cardinality({k \in 1 .. n : tokens[k] \in Names})
      - Cardinality({k \in 1 .. n : tokens[k] = "/"})

depth == Depth(text, Len(text))

Tell(kind, tokens) == events' = Append(events, [kind |-> kind, tokens |-> tokens])

-----------------------------------------------------------------------------
(* push(): expat calls the handlers                                         *)

Parses(token) ==
    /\ parser = "parsing"
    /\ ~document_ended          \* asserted by push()
    /\ Len(text) < MaxTokens
    /\ text' = Append(text, token)
    /\ UNCHANGED <<parser, documents>>

onStartElement(name) ==
    /\ text = <<>> \/ depth > 0
    /\ Parses(name)
    /\ IF document_started
       THEN /\ element_stack' = Append(element_stack, <<name>>)
            /\ UNCHANGED <<document_started, events>>
       ELSE /\ document_started' = TRUE
            /\ Tell("onDocumentStart", <<name>>)
            /\ UNCHANGED element_stack
    /\ UNCHANGED document_ended

\* Closing element k of the stack completes it as a child of element k - 1.
Closed == Append(Last(element_stack), "/")

onEndElement ==
    /\ depth > 0
    /\ Parses("/")
    /\ CASE Len(element_stack) = 1 ->
              /\ Tell("onElement", Closed)
              /\ element_stack' = <<>>
              /\ UNCHANGED document_ended
         [] element_stack = <<>> ->
              /\ Tell("onDocumentEnd", <<>>)
              /\ document_ended' = TRUE
              /\ UNCHANGED element_stack
         [] OTHER ->
              /\ element_stack' =
                     LET below == Front(element_stack)
                     IN  [below EXCEPT ![Len(below)] = @ \o Closed]
              /\ UNCHANGED <<document_ended, events>>
    /\ UNCHANGED document_started

\* The end of a document whose listener calls reset() in onDocumentEnd().  The
\* parser is freed while it runs; if the program survives that, control comes
\* back to onEndElement, which then sets its flag for the new document.
onEndElementReset ==
    /\ ResetAtEnd
    /\ depth > 0
    /\ element_stack = <<>>
    /\ parser = "parsing" /\ ~document_ended /\ Len(text) < MaxTokens
    /\ documents < MaxDocuments
    /\ documents' = documents + 1
    /\ text' = <<>>
    /\ events' = <<>>
    /\ document_started' = FALSE
    /\ document_ended' = TRUE
    /\ UNCHANGED <<parser, element_stack>>

\* Mutant: text goes to the outermost element that is open
onCDATAOutermost ==
    /\ depth > 0
    /\ Parses(".")
    /\ IF element_stack # <<>>
       THEN /\ element_stack' = [element_stack EXCEPT ![1] = Append(@, ".")]
            /\ UNCHANGED events
       ELSE /\ Tell("onCDATA", <<".">>)
            /\ UNCHANGED element_stack
    /\ UNCHANGED flags

onCDATA ==
    /\ depth > 0
    /\ Parses(".")
    /\ IF element_stack # <<>>
       THEN /\ element_stack' = [element_stack EXCEPT
                                    ![Len(element_stack)] = Append(@, ".")]
            /\ UNCHANGED events
       ELSE /\ Tell("onCDATA", <<".">>)
            /\ UNCHANGED element_stack
    /\ UNCHANGED flags

\* XML_Parse fails, push() throws; also on what follows the document in the
\* same call.
ParserError ==
    /\ parser = "parsing"
    /\ parser' = "error"
    /\ UNCHANGED <<text, element_stack, flags, documents, events>>

reset ==
    /\ documents < MaxDocuments
    /\ ResetAnywhere \/ depth <= 1
    /\ documents' = documents + 1
    /\ parser' = "parsing"
    /\ text' = <<>>
    /\ events' = <<>>
    /\ document_started' = FALSE
    /\ document_ended' = FALSE
    /\ UNCHANGED element_stack

Init ==
    /\ parser = "parsing"
    /\ text = <<>>
    /\ element_stack = <<>>
    /\ document_started = FALSE
    /\ document_ended = FALSE
    /\ documents = 0
    /\ events = <<>>

Next ==
    \/ \E name \in Names : onStartElement(name)
    \/ onEndElement
    \/ onEndElementReset
    \/ onCDATA
    \/ ParserError
    \/ reset

Spec == Init /\ [][Next]_vars

-----------------------------------------------------------------------------
(***************************************************************************)
(* What the listener must have been told of a document: its root, each      *)
(* complete child and each piece of text of the root, in the order they     *)
(* end, and the end of the root.  Token n ends such a part if the depth is  *)
(* then 1; the part starts where the depth last was 1 before.               *)
(***************************************************************************)
\* The last of the first n tokens behind which the depth is 1
WholeTo(tokens, n) == Max({0} \cup {m \in 1 .. n : Depth(tokens, m) = 1})

EventAt(tokens, n) ==
    CASE n = 1 -> [kind |-> "onDocumentStart", tokens |-> <<tokens[1]>>]
      [] n > 1 /\ Depth(tokens, n) = 0 -> [kind |-> "onDocumentEnd", tokens |-> <<>>]
      [] n > 1 /\ Depth(tokens, n) = 1 /\ tokens[n] = "." ->
            [kind |-> "onCDATA", tokens |-> <<".">>]
      [] n > 1 /\ Depth(tokens, n) = 1 /\ tokens[n] = "/" ->
            [kind |-> "onElement", tokens |-> SubSeq(tokens, WholeTo(tokens, n - 1) + 1, n)]

Ends(tokens, n) == n = 1 \/ Depth(tokens, n) = 0
                         \/ (Depth(tokens, n) = 1 /\ tokens[n] \in {"/", "."})

\* A sequence lists what f has at the places in K, in their order.
Rank(K, n) == Cardinality({m \in K : m <= n})

Lists(seq, K, f) == Len(seq) = Cardinality(K) /\ \A n \in K : seq[Rank(K, n)] = f[n]

EndsOf(tokens) == {n \in 1 .. Len(tokens) : Ends(tokens, n)}

(***************************************************************************)
(* The listener is told of every document what is in it: each child of the  *)
(* root once, whole and in order, whatever the documents before held and    *)
(* however they broke off.                                                  *)
(***************************************************************************)
ToldOfDocument ==
    Lists(events, EndsOf(text), [n \in EndsOf(text) |-> EventAt(text, n)])

(***************************************************************************)
(* ElementStream.cpp:60 on reset(): "Reset the parser for a new XML         *)
(* document/stream".  What comes after is told as the document it is.       *)
(***************************************************************************)
ResetForgets == documents > 0 => ToldOfDocument
=============================================================================
