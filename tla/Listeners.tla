------------------------------ MODULE Listeners -------------------------------
(***************************************************************************)
(* What the library hangs on an ElementStream: the BufferParser behind      *)
(* parseAtOnce() (libjudo/src/ElementStream.cpp), FileStream                *)
(* (src/jabberoo-filestream.cc) and ComponentSession                        *)
(* (src/jabberoo-component-session.cpp).  Each takes the calls of the       *)
(* stream; the first two put the document together again below its root,    *)
(* the third keeps the state of a connection.  Any other listener may call  *)
(* reset() as it likes.                                                     *)
(***************************************************************************)
EXTENDS ElementStream

CONSTANT Handshake      \* the name of <handshake/>

ASSUME ListenersAssumption == Handshake \in Names

VARIABLES
    listener,   \* "BufferParser", "FileStream", "ComponentSession" or "other"
    root,       \* _root: the tokens of the element so far, <<>> for NULL
    connState,  \* _connState of a ComponentSession
    late,       \* something was parsed for it while it was not connected
    outcome     \* what parseAtOnce() or ParseFile() has ended with, or the program

listenerVars == <<listener, root, connState, late, outcome>>
allVars == <<vars, listenerVars>>

\* The call of the listener in a step of the stream, if there is one
Called == Len(events') > Len(events)
Call == Last(events')
CalledAs(kind) == Called /\ Call.kind = kind

\* Mutant: the handlers for text are mixed up
KeptSwapped == IF listener = "FileStream" THEN <<"onElement", "onCDATA">>
                                          ELSE <<"onElement">>

\* Calls whose argument is appended to the root; FileStream has no onCDATA
Kept == IF listener = "BufferParser" THEN <<"onElement", "onCDATA">>
                                     ELSE <<"onElement">>

takeIntoRoot ==
    /\ root' = IF CalledAs("onDocumentStart") THEN Call.tokens
               ELSE IF Called /\ Contains(Kept, Call.kind)
                    THEN root \o Call.tokens ELSE root
    /\ UNCHANGED <<listener, connState, late, outcome>>

\* Mutant: an element of that name connects wherever it is closed
takeIntoSessionAnywhere ==
    /\ connState' = CASE Called /\ Call.kind = "onDocumentEnd" -> "NotConnected"
                      [] element_stack # <<>> /\ Len(element_stack') < Len(element_stack)
                         /\ Last(element_stack)[1] = Handshake -> "Connected"
                      [] OTHER -> connState
    /\ late' = (late \/ connState = "NotConnected")
    /\ outcome' = IF CalledAs("onDocumentEnd") /\ connState = "NotConnected"
                  THEN "assertion" ELSE outcome
    /\ UNCHANGED <<listener, root>>

\* onElement() and onDocumentEnd() of a ComponentSession.  The latter calls
\* disconnect(), whose assertion fails if it is not connected.
takeIntoSession ==
    /\ connState' = CASE CalledAs("onDocumentEnd") -> "NotConnected"
                      [] CalledAs("onElement") /\ Call.tokens[1] = Handshake ->
                            "Connected"
                      [] OTHER -> connState
    /\ late' = (late \/ connState = "NotConnected")
    /\ outcome' = IF CalledAs("onDocumentEnd") /\ connState = "NotConnected"
                  THEN "assertion" ELSE outcome
    /\ UNCHANGED <<listener, root>>

Parsed == (\E name \in Names : onStartElement(name)) \/ onEndElement \/ onCDATA

parse ==
    /\ outcome = "none"
    /\ Parsed
    /\ CASE listener = "ComponentSession" -> takeIntoSession
         [] listener \in {"BufferParser", "FileStream"} -> takeIntoRoot
         [] OTHER -> UNCHANGED listenerVars

-----------------------------------------------------------------------------
(* The end of parseAtOnce() and ParseFile()                                 *)

returns ==
    /\ listener \in {"BufferParser", "FileStream"}
    /\ outcome = "none" /\ parser = "parsing"
    /\ outcome' = IF listener = "BufferParser" /\ ~ document_ended
                  THEN "IncompleteParse" ELSE "root"
    /\ UNCHANGED <<vars, listener, root, connState, late>>

\* ParserError goes through parseAtOnce(); ParseFile() catches it.
breaksOff ==
    /\ listener \in {"BufferParser", "FileStream"}
    /\ outcome = "none"
    /\ ParserError
    /\ outcome' = "error"
    /\ root' = <<>>
    /\ UNCHANGED <<listener, connState, late>>

-----------------------------------------------------------------------------
(* ComponentSession                                                         *)

connect ==
    /\ listener = "ComponentSession"
    /\ connState = "NotConnected"
    /\ reset
    /\ connState' = "AwaitingAuth"
    /\ late' = FALSE
    /\ UNCHANGED <<listener, root, outcome>>

\* The application keeps to the assertion.
disconnect ==
    /\ listener = "ComponentSession"
    /\ connState # "NotConnected"
    /\ connState' = "NotConnected"
    /\ UNCHANGED <<vars, listener, root, late, outcome>>

\* push() of what cannot be parsed: it disconnects.  If it was not connected
\* the assertion fails, and the program ends.
pushBad ==
    /\ listener = "ComponentSession"
    /\ parser = "error" \/ ParserError
    /\ parser' = "error"
    /\ connState' = "NotConnected"
    /\ outcome' = IF connState = "NotConnected" THEN "assertion" ELSE outcome
    /\ UNCHANGED <<text, element_stack, flags, documents, events, listener, root, late>>

-----------------------------------------------------------------------------
(* Any other listener                                                       *)

other ==
    /\ listener = "other"
    /\ onEndElementReset \/ ParserError \/ reset
    /\ UNCHANGED listenerVars

ListenersInit ==
    /\ Init
    /\ listener \in {"BufferParser", "FileStream", "ComponentSession", "other"}
    /\ root = <<>>
    /\ connState = "NotConnected"
    /\ late = FALSE
    /\ outcome = "none"

ListenersNext ==
    \/ parse
    \/ returns
    \/ breaksOff
    \/ outcome = "none" /\ (connect \/ disconnect \/ pushBad)
    \/ other

ListenersSpec == ListenersInit /\ [][ListenersNext]_allVars

-----------------------------------------------------------------------------
(***************************************************************************)
(* parseAtOnce() and FileStream rebuild the document: what hangs below the  *)
(* root is what was parsed, token by token, up to the last child that is    *)
(* complete.  FileStream drops the text that is directly below the root.    *)
(* parseAtOnce() returns whole documents only, ParseFile() also a part.     *)
(***************************************************************************)
\* "." below the root is where the depth is 1 before and after it
WithoutRootText(tokens) ==
    {n \in 1 .. WholeTo(tokens, Len(tokens)) : tokens[n] # "." \/ Depth(tokens, n) # 1}

RootIsDocument ==
    /\ listener = "BufferParser" /\ outcome # "error" =>
          root = SubSeq(text, 1, WholeTo(text, Len(text)))
    /\ listener = "FileStream" /\ outcome # "error" =>
          Lists(root, WithoutRootText(text), text)
    /\ listener = "BufferParser" /\ outcome = "root" => root \o <<"/">> = text

(***************************************************************************)
(* A ComponentSession that is connected has got a <handshake/> as a child   *)
(* of the stream's root since it called connect(), on this very stream; one *)
(* that has got it and neither ended nor failed is connected.  (What is     *)
(* parsed while it is not connected may connect it all the same.)           *)
(***************************************************************************)
ConnectedByHandshake ==
    listener = "ComponentSession" /\ ~ late =>
        LET shaken == \E i \in DOMAIN events : /\ events[i].kind = "onElement"
                                               /\ events[i].tokens[1] = Handshake
        IN  /\ connState = "Connected" => shaken /\ ~ document_ended
            /\ connState = "AwaitingAuth" => ~ shaken
=============================================================================
