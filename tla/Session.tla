------------------------------- MODULE Session -------------------------------
(***************************************************************************)
(* Connecting and logging in (src/jabberoo-session.cc): connect() and       *)
(* disconnect() of the application, the handlers of the stream of the       *)
(* server, and the answers to the requests the session has sent.  The       *)
(* server, the connection and the application are the environment: the      *)
(* server answers each request at most once, in any order, and may close    *)
(* the stream or break it at any time.                                      *)
(***************************************************************************)
EXTENDS Integers, FiniteSets

CONSTANTS
    AuthTypes,      \* the authentication types applications ask for
    AuthFlags,      \* the values of should_auth they use
    Errors,         \* how the server refuses: "error" with, "bare" without <error/>
    Patient,        \* connect() is called again only when something was told
    LateInput,      \* what was under way is still parsed after disconnect()
    MaxID           \* connect() is called while fewer ids have been used

ASSUME SessionAssumption ==
    /\ AuthTypes \subseteq {"Plaintext", "Digest", "0k", "Auto"}
    /\ AuthFlags \subseteq BOOLEAN
    /\ Errors \subseteq {"error", "bare"}
    /\ Patient \in BOOLEAN
    /\ LateInput \in BOOLEAN
    /\ MaxID \in Nat

VARIABLES
    connState,      \* _ConnState
    streamStart,    \* _StreamStart
    streamElement,  \* what _StreamElement points to
    authType,       \* _AuthType
    authenticating, \* _Authenticate
    nextID,         \* _ID
    callbacks,      \* _Callbacks: the id of an IQ and the handler for it
    stream,         \* the server's stream, as far as it is parsed
    asked,          \* requests the server has yet to answer
    accepted,       \* the server has accepted a login on this stream
    event,          \* the event of the last step and the state it was told in
    waiting,        \* connect() was called and nothing has been told since
    refusedBare,    \* auxiliary: a refusal without <error/> came on this stream
    fault           \* a dead pointer has been followed

settings == <<authType, authenticating>>
vars == <<connState, streamStart, streamElement, settings, nextID, callbacks,
          stream, asked, accepted, event, waiting, refusedBare, fault>>

States == {"NotConnected", "CreateUser", "AuthReq", "AwaitingAuth", "Connected"}
Handlers == {"OnAuthTypeReceived", "IQHandler_Auth", "IQHandler_CreateUser"}
Requests == {"types", "login", "register", "nameless", "roster"}

\* Events told by a step; the state is the one getConnState() then returns.
Report(e, state, waits) ==
    /\ event' = [kind |-> e, state |-> state]
    /\ waiting' = waits

Tell(e, state) == Report(e, state, FALSE)
Silent == Report("none", "NotConnected", waiting)
Await == Report("none", "NotConnected", TRUE)

-----------------------------------------------------------------------------
(***************************************************************************)
(* Requests.  A handler works on a draft of what it sends and changes: the  *)
(* id counter, the callbacks, the requests under way and the state.         *)
(***************************************************************************)
Draft(state) ==
    [id |-> nextID, callbacks |-> callbacks, asked |-> asked,
     state |-> state, fault |-> FALSE]

\* An IQ with a fresh id, and the handler registered for its answer, if any
Send(d, what, handlers) ==
    [d EXCEPT !.id = @ + 1,
              !.asked = @ \cup {[id |-> d.id, what |-> what]},
              !.callbacks = @ \cup {[id |-> d.id, f |-> f] : f \in handlers}]

\* Mutant: the handler for the answer to a registration is not registered
sendLoginUnheard(d, atype, hasQuery) ==
    LET sent ==
          IF d.state = "CreateUser"
          THEN Send(d, "register", {})
          ELSE IF d.state = "AuthReq"
               THEN Send(d, "login", {"IQHandler_Auth"})
               ELSE Send(d, "nameless", {})
    IN  IF d.state = "AuthReq" /\ atype = "0k" /\ ~hasQuery
        THEN [d EXCEPT !.fault = TRUE]
        ELSE [sent EXCEPT !.state = "AwaitingAuth"]

\* sendLogin(atype, squery); hasQuery says that squery is not NULL
sendLogin(d, atype, hasQuery) ==
    LET sent ==
          IF d.state = "CreateUser"
          THEN Send(d, "register", {"IQHandler_CreateUser"})
          ELSE IF d.state = "AuthReq"
               THEN Send(d, "login", {"IQHandler_Auth"})
               ELSE Send(d, "nameless", {})
    IN  IF d.state = "AuthReq" /\ atype = "0k" /\ ~hasQuery
        THEN [d EXCEPT !.fault = TRUE]      \* squery->getChildCData
        ELSE [sent EXCEPT !.state = "AwaitingAuth"]

\* Mutant: the types are asked for and waited for in either case
authenticateTwice(d, atype) ==
    LET asking == Send(d, "types", {"OnAuthTypeReceived"}) IN
    IF atype = "Auto" THEN asking ELSE sendLogin(asking, atype, FALSE)

authenticate(d, atype) ==
    IF atype = "Auto" THEN Send(d, "types", {"OnAuthTypeReceived"})
                      ELSE sendLogin(Send(d, "types", {}), atype, FALSE)

Commit(d) ==
    /\ nextID' = d.id
    /\ callbacks' = d.callbacks
    /\ asked' = d.asked
    /\ connState' = d.state
    /\ fault' = d.fault

\* evtConnected(*_StreamElement)
tellConnected(state) ==
    /\ Tell("Connected", state)
    /\ fault' = (streamElement # "live")

-----------------------------------------------------------------------------
(* The application                                                          *)

MayConnect ==
    /\ ~fault
    /\ nextID < MaxID
    /\ Patient => ~waiting

\* Mutant: connect() counts ids from 0 again
connectNewFromZero(atype, newuser, auth) ==
    /\ MayConnect
    /\ connState = "NotConnected"
    /\ authType' = atype
    /\ authenticating' = auth
    /\ connState' = IF newuser THEN "CreateUser" ELSE "AuthReq"
    /\ stream' = "opening"
    /\ asked' = {}
    /\ accepted' = FALSE
    /\ refusedBare' = FALSE
    /\ nextID' = 0
    /\ Await
    /\ UNCHANGED <<streamStart, streamElement, callbacks, fault>>

\* connect() on a session that is not connected at all
connectNew(atype, newuser, auth) ==
    /\ MayConnect
    /\ connState = "NotConnected"
    /\ authType' = atype
    /\ authenticating' = auth
    /\ connState' = IF newuser THEN "CreateUser" ELSE "AuthReq"
    /\ stream' = "opening"
    /\ asked' = {}
    /\ accepted' = FALSE
    /\ refusedBare' = FALSE
    /\ Await
    /\ UNCHANGED <<streamStart, streamElement, nextID, callbacks, fault>>

\* Mutant: connect() does not return when the session is connected
connectOver(atype, newuser, auth) ==
    /\ MayConnect
    /\ connState # "NotConnected"
    /\ authType' = atype
    /\ authenticating' = auth
    /\ LET state == IF newuser THEN "CreateUser" ELSE connState IN
       IF auth
       THEN Commit(authenticate(Draft(state), atype)) /\ Await
       ELSE /\ tellConnected(state)
            /\ connState' = state
            /\ UNCHANGED <<nextID, callbacks, asked>>
    /\ UNCHANGED <<streamStart, streamElement, stream, accepted, refusedBare>>

\* connect() again: connState is neither NotConnected nor Connected
connectAgain(atype, newuser, auth) ==
    /\ MayConnect
    /\ connState \notin {"NotConnected", "Connected"}
    /\ authType' = atype
    /\ authenticating' = auth
    /\ LET state == IF newuser THEN "CreateUser" ELSE connState IN
       IF auth
       THEN Commit(authenticate(Draft(state), atype)) /\ Await
       ELSE /\ tellConnected(state)
            /\ connState' = state
            /\ UNCHANGED <<nextID, callbacks, asked>>
    /\ UNCHANGED <<streamStart, streamElement, stream, accepted, refusedBare>>

\* An application that closes its socket hears nothing more of the stream.
disconnect ==
    /\ ~fault
    /\ connState # "NotConnected"
    /\ connState' = "NotConnected"
    /\ streamStart' = FALSE
    /\ stream' = IF LateInput THEN stream ELSE "closed"
    /\ Report("none", "NotConnected", FALSE)
    /\ UNCHANGED <<streamElement, settings, nextID, callbacks, asked,
                   accepted, refusedBare, fault>>

-----------------------------------------------------------------------------
(* The stream of the server                                                 *)

onDocumentStart ==
    /\ ~fault
    /\ stream = "opening"
    /\ stream' = "open"
    /\ streamElement' = "live"
    /\ streamStart' = TRUE
    /\ IF authenticating
       THEN Commit(authenticate(Draft(connState), authType)) /\ Silent
       ELSE /\ Tell("Connected", connState)
            /\ UNCHANGED <<nextID, callbacks, asked, connState, fault>>
    /\ UNCHANGED <<settings, accepted, refusedBare>>

onDocumentEnd ==
    /\ ~fault
    /\ stream = "open"
    /\ stream' = "closed"
    /\ connState' = "NotConnected"
    /\ streamStart' = FALSE
    /\ Tell("Disconnected", "NotConnected")
    /\ UNCHANGED <<streamElement, settings, nextID, callbacks, asked,
                   accepted, refusedBare, fault>>

\* push() on what the parser refuses: the event is told before the state is set
parserError ==
    /\ ~fault
    /\ stream # "closed"
    /\ stream' = "closed"
    /\ Tell("XMLParserError", connState)
    /\ connState' = "NotConnected"
    /\ streamStart' = FALSE
    /\ UNCHANGED <<streamElement, settings, nextID, callbacks, asked,
                   accepted, refusedBare, fault>>

-----------------------------------------------------------------------------
(* handleIQ on the answer to request r: the handler registered for its id   *)

\* The answer takes r from what is asked and its callback from the map.
Answered(r) ==
    [Draft(connState) EXCEPT !.asked = @ \ {r},
                             !.callbacks = {c \in @ : c.id # r.id}]

Handles(r, f) == [id |-> r.id, f |-> f] \in callbacks

\* Mutant: the <query/> of the answer is not passed on
OnAuthTypeReceivedAlone(r, offer) ==
    /\ Handles(r, "OnAuthTypeReceived")
    /\ Commit(sendLogin(Answered(r), offer, FALSE))
    /\ Silent
    /\ UNCHANGED <<streamElement, accepted, refusedBare>>

\* The best of the types offered, plaintext where there is no <query/>.
OnAuthTypeReceived(r, offer) ==
    /\ Handles(r, "OnAuthTypeReceived")
    /\ Commit(sendLogin(Answered(r), offer, TRUE))
    /\ Silent
    /\ UNCHANGED <<streamElement, accepted, refusedBare>>

IQHandler_Auth(r, reply) ==
    /\ Handles(r, "IQHandler_Auth")
    /\ \/ /\ reply = "result"
          /\ LET d == [Answered(r) EXCEPT !.state = "Connected"] IN
             Commit([(IF authenticating THEN Send(d, "roster", {}) ELSE d)
                        EXCEPT !.fault = streamElement # "live"])
          /\ Tell("Connected", "Connected")
          /\ streamElement' = "freed"
       \/ /\ reply = "error"
          /\ Commit([Answered(r) EXCEPT !.state = "AuthReq"])
          /\ Tell("AuthError", "AuthReq")
          /\ UNCHANGED streamElement
       \/ /\ reply = "bare"
          /\ Commit(Answered(r))
          /\ Tell("AuthError", connState)
          /\ UNCHANGED streamElement
    /\ accepted' = (accepted \/ (r.what = "login" /\ reply = "result"))
    /\ refusedBare' = (refusedBare \/ reply = "bare")

\* Mutant: the new user is not logged in
IQHandler_CreateUserOnly(r, reply) ==
    /\ Handles(r, "IQHandler_CreateUser")
    /\ LET d == [Answered(r) EXCEPT !.state = "AuthReq"] IN
       \/ reply \in {"result", "bare"} /\ Commit(d) /\ Silent
       \/ reply = "error" /\ Commit(d) /\ Tell("AuthError", "AuthReq")
    /\ refusedBare' = (refusedBare \/ reply = "bare")
    /\ UNCHANGED <<streamElement, accepted>>

IQHandler_CreateUser(r, reply) ==
    /\ Handles(r, "IQHandler_CreateUser")
    /\ LET d == [Answered(r) EXCEPT !.state = "AuthReq"] IN
       \/ reply = "result" /\ Commit(authenticate(d, authType)) /\ Silent
       \/ reply = "error" /\ Commit(d) /\ Tell("AuthError", "AuthReq")
       \/ reply = "bare" /\ Commit(d) /\ Silent
    /\ refusedBare' = (refusedBare \/ reply = "bare")
    /\ UNCHANGED <<streamElement, accepted>>

\* No handler: the roster is stored, the rest goes to evtIQ.
Unhandled(r) ==
    /\ \A f \in Handlers : ~Handles(r, f)
    /\ Commit(Answered(r))
    /\ Silent
    /\ UNCHANGED <<streamElement, accepted, refusedBare>>

handleIQ(r) ==
    /\ ~fault
    /\ stream = "open"
    /\ \/ \E offer \in {"Plaintext", "Digest", "0k"} : OnAuthTypeReceived(r, offer)
       \/ \E reply \in {"result"} \cup Errors :
             IQHandler_Auth(r, reply) \/ IQHandler_CreateUser(r, reply)
       \/ Unhandled(r)
    /\ UNCHANGED <<streamStart, settings, stream>>

-----------------------------------------------------------------------------
Init ==
    /\ connState = "NotConnected"
    /\ streamStart = FALSE
    /\ streamElement = "unset"
    /\ authType \in AuthTypes
    /\ authenticating = FALSE
    /\ nextID = 0
    /\ callbacks = {}
    /\ stream = "closed"
    /\ asked = {}
    /\ accepted = FALSE
    /\ event = [kind |-> "none", state |-> "NotConnected"]
    /\ waiting = FALSE
    /\ refusedBare = FALSE
    /\ fault = FALSE

Application ==
    \/ \E atype \in AuthTypes, newuser \in BOOLEAN, auth \in AuthFlags :
          connectNew(atype, newuser, auth) \/ connectAgain(atype, newuser, auth)
    \/ disconnect

Answers == \E r \in asked : handleIQ(r)

Next ==
    \/ Application
    \/ onDocumentStart
    \/ onDocumentEnd
    \/ parserError
    \/ Answers

Spec == Init /\ [][Next]_vars

(***************************************************************************)
(* A server that opens the stream it was asked for and answers what it is   *)
(* asked, or the connection ends: what a login can count on.                *)
(***************************************************************************)
FairSpec ==
    /\ Spec
    /\ WF_vars(onDocumentStart)
    /\ \A n \in 0 .. MaxID + 10 :
          WF_vars(\E r \in asked : r.id = n /\ handleIQ(r))

-----------------------------------------------------------------------------
TypeOK ==
    /\ connState \in States
    /\ streamStart \in BOOLEAN
    /\ streamElement \in {"unset", "live", "freed"}
    /\ authType \in AuthTypes
    /\ authenticating \in BOOLEAN
    /\ nextID \in Nat
    /\ callbacks \subseteq [id : 0 .. nextID - 1, f : Handlers]
    /\ stream \in {"closed", "opening", "open"}
    /\ asked \subseteq [id : 0 .. nextID - 1, what : Requests]
    /\ accepted \in BOOLEAN
    /\ event \in [kind : {"none", "Connected", "Disconnected", "AuthError",
                          "XMLParserError"},
                  state : States]
    /\ waiting \in BOOLEAN
    /\ refusedBare \in BOOLEAN
    /\ fault \in BOOLEAN

(***************************************************************************)
(* A session is connected only by an accepted login of this very stream:    *)
(* the callbacks that earlier streams left behind never stand in for it.    *)
(***************************************************************************)
ConnectedMeansAccepted == connState = "Connected" => accepted

(***************************************************************************)
(* A session that waits for the outcome of its login waits for an answer    *)
(* the server still owes and that a handler is registered for; unless it    *)
(* was refused without an <error/>, which leaves it waiting for nothing.    *)
(***************************************************************************)
AwaitsAnAnswer ==
    connState = "AwaitingAuth" =>
        \/ \E r \in asked : \/ Handles(r, "IQHandler_Auth")
                            \/ Handles(r, "IQHandler_CreateUser")
        \/ refusedBare

(***************************************************************************)
(* No more than one step of the login is under way: a second one would log  *)
(* in, and free the stream header, twice.                                   *)
(***************************************************************************)
OneLoginAtATime ==
    Cardinality({r \in asked : \E f \in Handlers : Handles(r, f)}) <= 1

(***************************************************************************)
(* No handler follows a pointer to nothing: the stream header before it     *)
(* came or after the login freed it, or the <query/> of an answer that was  *)
(* never asked for.                                                         *)
(***************************************************************************)
NoFault == ~fault

(***************************************************************************)
(* Whoever calls connect() hears of it, if the server does its part: that   *)
(* the session is connected, or that it failed.  Only a refusal without an  *)
(* <error/> may leave it waiting: a registration that is refused so ends    *)
(* without a word.                                                          *)
(***************************************************************************)
LoginSettles == waiting ~> (~waiting \/ refusedBare)

-----------------------------------------------------------------------------
(***************************************************************************)
(* include/session.hh:81 and :142: getConnState() says csConnected,         *)
(* "Connected.", while the session is: from an accepted login to the end    *)
(* of the connection.                                                       *)
(***************************************************************************)
StaysConnected ==
    [][connState = "Connected" => connState' \in {"Connected", "NotConnected"}]_vars

(***************************************************************************)
(* include/session.hh:307: evtDisconnected "is emitted when the connection  *)
(* to the server has been discontinued.  This will be emitted whether the   *)
(* connection was due to error or not."  (The end that the application     *)
(* itself asks for with disconnect() is left aside.)                        *)
(***************************************************************************)
EndIsTold ==
    [][connState # "NotConnected" /\ connState' = "NotConnected" /\ ~disconnect =>
          event'.kind = "Disconnected"]_vars
=============================================================================
