--------------------------- MODULE Session_proofs ---------------------------
(***************************************************************************)
(* Only an accepted login of the stream at hand connects a session, for any *)
(* application, any number of logins and streams, and any order of answers. *)
(***************************************************************************)
EXTENDS Session, FiniteSetTheorems, TLAPS

Drafts == [id        : Nat,
           callbacks : SUBSET [id : Nat, f : Handlers],
           asked     : SUBSET [id : Nat, what : Requests],
           state     : States,
           fault     : BOOLEAN]

\* Nothing waits under an id that is yet to be used.
IdsUsed(d) ==
    /\ \A c \in d.callbacks : c.id < d.id
    /\ \A r \in d.asked : r.id < d.id

\* The handler of logins waits for answers to logins only.
Matched(d) ==
    \A r \in d.asked, c \in d.callbacks :
        r.id = c.id /\ c.f = "IQHandler_Auth" => r.what = "login"

DraftInv(d) == d \in Drafts /\ IdsUsed(d) /\ Matched(d)

\* The state a handler works on, and what it leaves alone or sets directly.
Core == [id |-> nextID, callbacks |-> callbacks, asked |-> asked,
         state |-> connState, fault |-> fault]

OthersOK ==
    /\ streamStart \in BOOLEAN
    /\ streamElement \in {"unset", "live", "freed"}
    /\ authType \in AuthTypes
    /\ authenticating \in BOOLEAN
    /\ stream \in {"closed", "opening", "open"}
    /\ accepted \in BOOLEAN
    /\ event \in [kind : {"none", "Connected", "Disconnected", "AuthError",
                          "XMLParserError"},
                  state : States]
    /\ waiting \in BOOLEAN
    /\ refusedBare \in BOOLEAN

IInv == DraftInv(Core) /\ OthersOK /\ ConnectedMeansAccepted

-----------------------------------------------------------------------------
\* A new id belongs to one request and to the handlers given for it.
LEMMA SendKeeps ==
    ASSUME NEW d, DraftInv(d), NEW what \in Requests,
           NEW handlers \in SUBSET Handlers,
           "IQHandler_Auth" \in handlers => what = "login"
    PROVE  /\ DraftInv(Send(d, what, handlers))
           /\ Send(d, what, handlers).state = d.state
<1> DEFINE s == Send(d, what, handlers)
           r0 == [id |-> d.id, what |-> what]
           C0 == {[id |-> d.id, f |-> f] : f \in handlers}
<1>1. d \in Drafts /\ d.id \in Nat /\ d.id + 1 \in Nat
    BY DEF DraftInv, Drafts
<1>7. /\ s = [d EXCEPT !.id = d.id + 1,
                      !.asked = d.asked \cup {r0},
                      !.callbacks = d.callbacks \cup C0]
      /\ r0 \in [id : Nat, what : Requests]
      /\ C0 \subseteq [id : Nat, f : Handlers]
    BY <1>1 DEF Send
<1>4. /\ \A c \in C0 : c.id = d.id /\ c.f \in handlers
      /\ r0.id = d.id /\ r0.what = what
    OBVIOUS
<1> HIDE DEF s, r0, C0
<1>2. /\ s.id = d.id + 1
      /\ s.asked = d.asked \cup {r0}
      /\ s.callbacks = d.callbacks \cup C0
      /\ s.state = d.state
      /\ s.fault = d.fault
      /\ s \in Drafts
    BY <1>1, <1>7 DEF Drafts
<1>3. /\ \A r \in d.asked : r.id \in Nat /\ r.id < d.id
      /\ \A c \in d.callbacks : c.id \in Nat /\ c.id < d.id
    BY <1>1 DEF DraftInv, IdsUsed, Drafts
<1>5. IdsUsed(s)
    BY <1>1, <1>2, <1>3, <1>4 DEF IdsUsed
<1>6. Matched(s)
    <2> SUFFICES ASSUME NEW r \in s.asked, NEW c \in s.callbacks,
                        r.id = c.id, c.f = "IQHandler_Auth"
                 PROVE  r.what = "login"
        BY DEF Matched
    <2>1. CASE r \in d.asked /\ c \in d.callbacks
        BY <2>1 DEF DraftInv, Matched
    <2>2. CASE r = r0 /\ c \in C0
        BY <2>2, <1>4
    <2>3. CASE r \in d.asked /\ c \in C0
        BY <2>3, <1>1, <1>3, <1>4
    <2>4. CASE r = r0 /\ c \in d.callbacks
        BY <2>4, <1>1, <1>3, <1>4
    <2> QED
        BY <2>1, <2>2, <2>3, <2>4, <1>2
<1> QED
    BY <1>2, <1>5, <1>6 DEF DraftInv, s

\* sendLogin() sends a login with its handler, or waits without one.
LEMMA SendLoginKeeps ==
    ASSUME NEW d, DraftInv(d), NEW atype, NEW hasQuery \in BOOLEAN
    PROVE  /\ DraftInv(sendLogin(d, atype, hasQuery))
           /\ sendLogin(d, atype, hasQuery).state \in {d.state, "AwaitingAuth"}
<1> DEFINE sent == IF d.state = "CreateUser"
                   THEN Send(d, "register", {"IQHandler_CreateUser"})
                   ELSE IF d.state = "AuthReq"
                        THEN Send(d, "login", {"IQHandler_Auth"})
                        ELSE Send(d, "nameless", {})
<1>1. DraftInv(sent)
    <2>1. /\ {"register", "login", "nameless"} \subseteq Requests
          /\ {{"IQHandler_CreateUser"}, {"IQHandler_Auth"}, {}} \subseteq SUBSET Handlers
        BY DEF Requests, Handlers
    <2> QED
        BY <2>1, SendKeeps
<1>2. DraftInv([d EXCEPT !.fault = TRUE])
      /\ [d EXCEPT !.fault = TRUE].state = d.state
    BY DEF DraftInv, Drafts, IdsUsed, Matched
<1> HIDE DEF sent
<1>3. DraftInv([sent EXCEPT !.state = "AwaitingAuth"])
      /\ [sent EXCEPT !.state = "AwaitingAuth"].state = "AwaitingAuth"
    BY <1>1 DEF DraftInv, Drafts, IdsUsed, Matched, States
<1> QED
    BY <1>2, <1>3 DEF sendLogin, sent

\* authenticate() never connects a session by itself.
LEMMA AuthenticateKeeps ==
    ASSUME NEW d, DraftInv(d), NEW atype
    PROVE  /\ DraftInv(authenticate(d, atype))
           /\ authenticate(d, atype).state \in {d.state, "AwaitingAuth"}
<1>1. "types" \in Requests /\ {{"OnAuthTypeReceived"}, {}} \subseteq SUBSET Handlers
      /\ "IQHandler_Auth" \notin {"OnAuthTypeReceived"}
    BY DEF Requests, Handlers
<1>2. /\ DraftInv(Send(d, "types", {"OnAuthTypeReceived"}))
      /\ Send(d, "types", {"OnAuthTypeReceived"}).state = d.state
    BY <1>1, SendKeeps
<1>3. /\ DraftInv(Send(d, "types", {}))
      /\ Send(d, "types", {}).state = d.state
    BY <1>1, SendKeeps
<1>4. LET s == sendLogin(Send(d, "types", {}), atype, FALSE) IN
      DraftInv(s) /\ s.state \in {d.state, "AwaitingAuth"}
    BY <1>3, SendLoginKeeps
<1> QED
    BY <1>2, <1>4 DEF authenticate

-----------------------------------------------------------------------------
\* The invariant covers the types.
LEMMA InvHasTypes == IInv => TypeOK
<1> SUFFICES ASSUME IInv PROVE TypeOK
    OBVIOUS
<1>1. /\ nextID \in Nat
      /\ callbacks \subseteq [id : Nat, f : Handlers]
      /\ asked \subseteq [id : Nat, what : Requests]
      /\ connState \in States
      /\ fault \in BOOLEAN
      /\ \A c \in callbacks : c.id < nextID
      /\ \A r \in asked : r.id < nextID
    BY DEF IInv, DraftInv, Drafts, IdsUsed, Core
<1>2. callbacks \subseteq [id : 0 .. nextID - 1, f : Handlers]
    <2> SUFFICES ASSUME NEW c \in callbacks
                 PROVE  c \in [id : 0 .. nextID - 1, f : Handlers]
        OBVIOUS
    <2>1. c = [id |-> c.id, f |-> c.f] /\ c.id \in Nat /\ c.f \in Handlers /\ c.id < nextID
        BY <1>1
    <2>2. c.id \in 0 .. nextID - 1
        BY <2>1, <1>1
    <2> QED
        BY <2>1, <2>2
<1>3. asked \subseteq [id : 0 .. nextID - 1, what : Requests]
    <2> SUFFICES ASSUME NEW r \in asked
                 PROVE  r \in [id : 0 .. nextID - 1, what : Requests]
        OBVIOUS
    <2>1. r = [id |-> r.id, what |-> r.what] /\ r.id \in Nat /\ r.what \in Requests /\ r.id < nextID
        BY <1>1
    <2>2. r.id \in 0 .. nextID - 1
        BY <2>1, <1>1
    <2> QED
        BY <2>1, <2>2
<1> QED
    BY <1>1, <1>2, <1>3 DEF IInv, OthersOK, TypeOK

LEMMA InitInv == Init => IInv
<1> SUFFICES ASSUME Init PROVE IInv
    OBVIOUS
<1>1. Core = [id |-> 0, callbacks |-> {}, asked |-> {},
              state |-> "NotConnected", fault |-> FALSE]
    BY DEF Init, Core
<1>2. DraftInv(Core)
    <2>1. Core \in Drafts
        BY <1>1 DEF Drafts, States
    <2> QED
        BY <1>1, <2>1 DEF DraftInv, IdsUsed, Matched
<1>3. OthersOK /\ ConnectedMeansAccepted
    BY DEF Init, OthersOK, ConnectedMeansAccepted, States
<1> QED
    BY <1>2, <1>3 DEF IInv

\* What a handler starts from and what it ends with.
LEMMA DraftHolds ==
    ASSUME IInv, NEW state \in States
    PROVE  DraftInv(Draft(state)) /\ Draft(state).state = state
BY DEF IInv, DraftInv, Drafts, IdsUsed, Matched, Core, Draft

LEMMA CommitHolds ==
    ASSUME NEW d, DraftInv(d), Commit(d)
    PROVE  DraftInv(Core)' /\ connState' = d.state
<1>1. d = [id |-> d.id, callbacks |-> d.callbacks, asked |-> d.asked,
           state |-> d.state, fault |-> d.fault]
    BY DEF DraftInv, Drafts
<1>2. Core' = d
    BY <1>1 DEF Core, Commit
<1> QED
    BY <1>2 DEF DraftInv, IdsUsed, Matched, Commit

\* An answer takes its request and its callbacks out.
LEMMA AnsweredHolds ==
    ASSUME IInv, NEW r \in asked
    PROVE  DraftInv(Answered(r)) /\ Answered(r).state = connState
<1>1. DraftInv(Draft(connState)) /\ Draft(connState).state = connState
    BY DraftHolds DEF IInv, DraftInv, Drafts, Core
<1> QED
    BY <1>1 DEF DraftInv, Drafts, IdsUsed, Matched, Answered

\* Steps that send nothing: they may forget the requests of an old stream.
LEMMA QuietHolds ==
    ASSUME IInv, connState' \in States, fault' \in BOOLEAN, asked' \in {asked, {}},
           nextID' = nextID, callbacks' = callbacks
    PROVE  DraftInv(Core)'
<1>1. /\ nextID \in Nat
      /\ callbacks \subseteq [id : Nat, f : Handlers]
      /\ asked \subseteq [id : Nat, what : Requests]
      /\ \A c \in callbacks : c.id < nextID
      /\ \A r \in asked : r.id < nextID
      /\ \A r \in asked, c \in callbacks :
            r.id = c.id /\ c.f = "IQHandler_Auth" => r.what = "login"
    BY DEF IInv, DraftInv, Drafts, IdsUsed, Matched, Core
<1>2. asked' \subseteq asked
    OBVIOUS
<1>3. Core' \in Drafts
    BY <1>1, <1>2 DEF Core, Drafts
<1>4. IdsUsed(Core)' /\ Matched(Core)'
    BY <1>1, <1>2 DEF IdsUsed, Matched, Core
<1> QED
    BY <1>3, <1>4 DEF DraftInv, IdsUsed, Matched

\* What is told is one of the events, in one of the states.
LEMMA ToldHolds ==
    ASSUME NEW state \in States, NEW waits \in BOOLEAN,
           NEW kind \in {"none", "Connected", "Disconnected", "AuthError",
                         "XMLParserError"},
           Report(kind, state, waits)
    PROVE  /\ event' \in [kind : {"none", "Connected", "Disconnected", "AuthError",
                                  "XMLParserError"},
                          state : States]
           /\ waiting' \in BOOLEAN
BY DEF Report

-----------------------------------------------------------------------------
(* One lemma for each group of steps that change the state in one way.      *)

LEMMA ConnectKeeps ==
    ASSUME IInv, NEW atype \in AuthTypes, NEW newuser \in BOOLEAN,
           NEW auth \in AuthFlags,
           connectNew(atype, newuser, auth) \/ connectAgain(atype, newuser, auth)
    PROVE  IInv'
<1>1. auth \in BOOLEAN /\ connState \in States
    BY SessionAssumption DEF IInv, DraftInv, Drafts, Core
<1>2. CASE connectNew(atype, newuser, auth)
    <2>1. /\ connState' \in {"CreateUser", "AuthReq"}
          /\ asked' = {} /\ nextID' = nextID /\ callbacks' = callbacks
          /\ fault' = fault
        BY <1>2 DEF connectNew
    <2>2. DraftInv(Core)'
        <3>1. fault \in BOOLEAN
            BY DEF IInv, DraftInv, Drafts, Core
        <3>2. connState' \in States /\ fault' \in BOOLEAN
            BY <2>1, <3>1 DEF States
        <3> QED
            BY <2>1, <3>2, QuietHolds
    <2>3. OthersOK' /\ ConnectedMeansAccepted'
        BY <1>1, <1>2, <2>1
        DEF IInv, OthersOK, ConnectedMeansAccepted, connectNew, Await, Report, States
    <2> QED
        BY <2>2, <2>3 DEF IInv
<1>3. CASE connectAgain(atype, newuser, auth)
    <2> DEFINE state == IF newuser THEN "CreateUser" ELSE connState
    <2>1. state \in States \ {"Connected"}
        BY <1>1, <1>3 DEF connectAgain, States
    <2>2. DraftInv(Draft(state)) /\ Draft(state).state = state
        BY <2>1, DraftHolds
    <2>3. CASE auth
        <3> DEFINE d == authenticate(Draft(state), atype)
        <3>1. DraftInv(d) /\ d.state # "Connected"
            BY <2>1, <2>2, AuthenticateKeeps
        <3>2. Commit(d)
            BY <1>3, <2>3 DEF connectAgain
        <3> HIDE DEF d
        <3>3. DraftInv(Core)' /\ connState' # "Connected"
            BY <3>1, <3>2, CommitHolds
        <3>4. OthersOK'
            BY <1>1, <1>3, <2>3
            DEF IInv, OthersOK, connectAgain, Await, Report, States
        <3> QED
            BY <3>3, <3>4 DEF IInv, ConnectedMeansAccepted
    <2>4. CASE ~auth
        <3>1. /\ connState' = state
              /\ fault' = (streamElement # "live")
              /\ event' = [kind |-> "Connected", state |-> state]
              /\ waiting' = FALSE
              /\ authType' = atype /\ authenticating' = auth
              /\ UNCHANGED <<nextID, callbacks, asked, streamStart, streamElement,
                             stream, accepted, refusedBare>>
            BY <1>3, <2>4 DEF connectAgain, tellConnected, Tell, Report
        <3> HIDE DEF state
        <3>2. DraftInv(Core)'
            <4>1. connState' \in States /\ fault' \in BOOLEAN
                BY <2>1, <3>1
            <4>2. asked' = asked /\ nextID' = nextID /\ callbacks' = callbacks
                BY <3>1
            <4> QED
                BY <4>1, <4>2, QuietHolds
        <3>3. OthersOK'
            BY <1>1, <2>1, <3>1 DEF IInv, OthersOK
        <3> QED
            BY <2>1, <3>1, <3>2, <3>3 DEF IInv, ConnectedMeansAccepted
    <2> QED
        BY <1>1, <2>3, <2>4
<1> QED
    BY <1>2, <1>3

LEMMA EndKeeps ==
    ASSUME IInv, disconnect \/ onDocumentEnd \/ parserError
    PROVE  IInv'
<1>1. /\ connState' = "NotConnected"
      /\ nextID' = nextID /\ callbacks' = callbacks /\ asked' = asked
      /\ fault' = fault
    BY DEF disconnect, onDocumentEnd, parserError
<1>2. DraftInv(Core)'
    <2>1. fault \in BOOLEAN
        BY DEF IInv, DraftInv, Drafts, Core
    <2>2. connState' \in States /\ fault' \in BOOLEAN
        BY <1>1, <2>1 DEF States
    <2> QED
        BY <1>1, <2>2, QuietHolds
<1>3. connState \in States
    BY DEF IInv, DraftInv, Drafts, Core
<1>4. OthersOK'
    <2>1. /\ UNCHANGED <<streamElement, authType, authenticating, accepted, refusedBare>>
          /\ streamStart' = FALSE
          /\ stream' \in {stream, "closed"}
        BY DEF disconnect, onDocumentEnd, parserError, settings
    <2>2. \/ Report("none", "NotConnected", FALSE)
          \/ Report("Disconnected", "NotConnected", FALSE)
          \/ Report("XMLParserError", connState, FALSE)
        BY DEF disconnect, onDocumentEnd, parserError, Tell
    <2>3. "NotConnected" \in States
        BY DEF States
    <2>4. /\ event' \in [kind : {"none", "Connected", "Disconnected", "AuthError",
                                 "XMLParserError"},
                         state : States]
          /\ waiting' \in BOOLEAN
        BY <1>3, <2>2, <2>3, ToldHolds
    <2> QED
        BY <2>1, <2>4 DEF IInv, OthersOK
<1> QED
    BY <1>1, <1>2, <1>4 DEF IInv, ConnectedMeansAccepted

LEMMA StartKeeps ==
    ASSUME IInv, onDocumentStart
    PROVE  IInv'
<1>1. connState \in States
    BY DEF IInv, DraftInv, Drafts, Core
<1>2. DraftInv(Core)' /\ connState' \in {connState, "AwaitingAuth"}
    <2>1. CASE authenticating
        <3> DEFINE d == authenticate(Draft(connState), authType)
        <3>1. DraftInv(Draft(connState)) /\ Draft(connState).state = connState
            BY <1>1, DraftHolds
        <3>2. DraftInv(d) /\ d.state \in {connState, "AwaitingAuth"}
            BY <3>1, AuthenticateKeeps
        <3>3. Commit(d)
            BY <2>1 DEF onDocumentStart
        <3> HIDE DEF d
        <3> QED
            BY <3>2, <3>3, CommitHolds
    <2>2. CASE ~authenticating
        <3>1. UNCHANGED <<nextID, callbacks, asked, connState, fault>>
            BY <2>2 DEF onDocumentStart
        <3>2. Core' = Core
            BY <3>1 DEF Core
        <3> QED
            BY <3>1, <3>2 DEF IInv, DraftInv, IdsUsed, Matched
    <2> QED
        BY <2>1, <2>2
<1>3. OthersOK'
    <2>1. /\ UNCHANGED <<authType, authenticating, accepted, refusedBare>>
          /\ streamStart' = TRUE /\ streamElement' = "live" /\ stream' = "open"
        BY DEF onDocumentStart, settings
    <2>2. \/ Report("none", "NotConnected", waiting)
          \/ Report("Connected", connState, FALSE)
        BY DEF onDocumentStart, Silent, Tell
    <2>3. "NotConnected" \in States /\ waiting \in BOOLEAN
        BY DEF States, IInv, OthersOK
    <2>4. /\ event' \in [kind : {"none", "Connected", "Disconnected", "AuthError",
                                 "XMLParserError"},
                         state : States]
          /\ waiting' \in BOOLEAN
        BY <1>1, <2>2, <2>3, ToldHolds
    <2> QED
        BY <2>1, <2>4 DEF IInv, OthersOK
<1> QED
    BY <1>2, <1>3 DEF IInv, ConnectedMeansAccepted, onDocumentStart

\* The handlers of answers: only that of logins connects, on a login's answer.
LEMMA AnswerKeeps ==
    ASSUME IInv, NEW r \in asked, handleIQ(r)
    PROVE  IInv'
<1>1. /\ DraftInv(Answered(r)) /\ Answered(r).state = connState
      /\ connState \in States
    BY AnsweredHolds DEF IInv, DraftInv, Drafts, Core
<1>2. UNCHANGED <<streamStart, authType, authenticating, stream>>
    BY DEF handleIQ, settings
<1>3. ASSUME NEW offer, OnAuthTypeReceived(r, offer)
      PROVE  IInv'
    <2> DEFINE d == sendLogin(Answered(r), offer, TRUE)
    <2>1. DraftInv(d) /\ d.state \in {connState, "AwaitingAuth"}
        BY <1>1, SendLoginKeeps
    <2>2. Commit(d) /\ Silent /\ UNCHANGED <<streamElement, accepted, refusedBare>>
        BY <1>3 DEF OnAuthTypeReceived
    <2> HIDE DEF d
    <2>3. DraftInv(Core)' /\ connState' \in {connState, "AwaitingAuth"}
        BY <2>1, <2>2, CommitHolds
    <2>4. OthersOK'
        BY <1>2, <2>2 DEF IInv, OthersOK, Silent, Report, States
    <2> QED
        BY <2>2, <2>3, <2>4 DEF IInv, ConnectedMeansAccepted
<1>4. ASSUME NEW reply, IQHandler_Auth(r, reply)
      PROVE  IInv'
    <2>1. r.what = "login"
        BY <1>4 DEF IQHandler_Auth, Handles, IInv, DraftInv, Matched, Core
    <2>4. refusedBare' \in BOOLEAN
        BY <1>4 DEF IQHandler_Auth, IInv, OthersOK
    <2>2. CASE reply = "result"
        <3> DEFINE e == [Answered(r) EXCEPT !.state = "Connected"]
                   d == [(IF authenticating THEN Send(e, "roster", {}) ELSE e)
                            EXCEPT !.fault = streamElement # "live"]
        <3>1. DraftInv(e)
            BY <1>1 DEF DraftInv, Drafts, IdsUsed, Matched, States
        <3>2. DraftInv(Send(e, "roster", {}))
            <4>1. "roster" \in Requests /\ {} \in SUBSET Handlers
                BY DEF Requests
            <4> HIDE DEF e
            <4> QED
                BY <3>1, <4>1, SendKeeps
        <3>3. DraftInv(d)
            <4> HIDE DEF e
            <4> QED
                BY <3>1, <3>2 DEF DraftInv, Drafts, IdsUsed, Matched
        <3>4. /\ Commit(d) /\ Tell("Connected", "Connected")
              /\ streamElement' = "freed"
              /\ accepted' = TRUE
            BY <1>4, <2>1, <2>2 DEF IQHandler_Auth
        <3> HIDE DEF d
        <3>5. DraftInv(Core)'
            BY <3>3, <3>4, CommitHolds
        <3>6. OthersOK'
            BY <1>2, <2>4, <3>4 DEF IInv, OthersOK, Tell, Report, States
        <3> QED
            BY <3>4, <3>5, <3>6 DEF IInv, ConnectedMeansAccepted
    <2>3. CASE reply \in {"error", "bare"}
        <3>1. PICK state \in {"AuthReq", connState} :
                  /\ Commit([Answered(r) EXCEPT !.state = state])
                  /\ Tell("AuthError", state)
            <4>1. Answered(r) = [Answered(r) EXCEPT !.state = connState]
                BY <1>1 DEF DraftInv, Drafts
            <4> QED
                BY <1>4, <2>3, <4>1 DEF IQHandler_Auth
        <3>2. UNCHANGED <<streamElement, accepted>>
            BY <1>4, <2>3 DEF IQHandler_Auth, IInv, OthersOK
        <3>3. state \in States
            BY <1>1 DEF States
        <3>4. DraftInv(Core)' /\ connState' = state
            <4>1. /\ DraftInv([Answered(r) EXCEPT !.state = state])
                  /\ [Answered(r) EXCEPT !.state = state].state = state
                BY <1>1, <3>3 DEF DraftInv, Drafts, IdsUsed, Matched
            <4> QED
                BY <3>1, <4>1, CommitHolds
        <3>5. OthersOK'
            BY <1>2, <2>4, <3>1, <3>2, <3>3 DEF IInv, OthersOK, Tell, Report
        <3> QED
            BY <3>1, <3>2, <3>4, <3>5 DEF IInv, ConnectedMeansAccepted
    <2> QED
        BY <1>4, <2>2, <2>3 DEF IQHandler_Auth
<1>5. ASSUME NEW reply, IQHandler_CreateUser(r, reply)
      PROVE  IInv'
    <2> DEFINE d == [Answered(r) EXCEPT !.state = "AuthReq"]
    <2>1. DraftInv(d) /\ d.state = "AuthReq"
        BY <1>1 DEF DraftInv, Drafts, IdsUsed, Matched, States
    <2> HIDE DEF d
    <2>2. /\ DraftInv(authenticate(d, authType))
          /\ authenticate(d, authType).state \in {"AuthReq", "AwaitingAuth"}
        BY <2>1, AuthenticateKeeps
    <2>3. /\ Commit(authenticate(d, authType)) \/ Commit(d)
          /\ Silent \/ Tell("AuthError", "AuthReq")
          /\ UNCHANGED <<streamElement, accepted>>
          /\ refusedBare' \in BOOLEAN
        BY <1>5 DEF IQHandler_CreateUser, d, IInv, OthersOK
    <2>4. DraftInv(Core)' /\ connState' \in {"AuthReq", "AwaitingAuth"}
        BY <2>1, <2>2, <2>3, CommitHolds
    <2>5. OthersOK'
        <3>1. \/ Report("none", "NotConnected", waiting)
              \/ Report("AuthError", "AuthReq", FALSE)
            BY <2>3 DEF Silent, Tell
        <3>2. {"NotConnected", "AuthReq"} \subseteq States /\ waiting \in BOOLEAN
            BY DEF States, IInv, OthersOK
        <3>3. /\ event' \in [kind : {"none", "Connected", "Disconnected", "AuthError",
                                     "XMLParserError"},
                             state : States]
              /\ waiting' \in BOOLEAN
            BY <3>1, <3>2, ToldHolds
        <3> QED
            BY <1>2, <2>3, <3>3 DEF IInv, OthersOK
    <2> QED
        BY <2>4, <2>5 DEF IInv, ConnectedMeansAccepted
<1>6. ASSUME Unhandled(r)
      PROVE  IInv'
    <2>1. /\ Commit(Answered(r)) /\ Silent
          /\ UNCHANGED <<streamElement, accepted, refusedBare>>
        BY <1>6 DEF Unhandled
    <2>2. DraftInv(Core)' /\ connState' = connState
        BY <1>1, <2>1, CommitHolds
    <2>3. OthersOK'
        BY <1>2, <2>1 DEF IInv, OthersOK, Silent, Report, States
    <2> QED
        BY <2>1, <2>2, <2>3 DEF IInv, ConnectedMeansAccepted
<1> QED
    BY <1>3, <1>4, <1>5, <1>6 DEF handleIQ

LEMMA NextInv == IInv /\ [Next]_vars => IInv'
<1> SUFFICES ASSUME IInv, [Next]_vars PROVE IInv'
    OBVIOUS
<1>1. CASE Application
    <2>1. \/ disconnect
          \/ \E atype \in AuthTypes, newuser \in BOOLEAN, auth \in AuthFlags :
                connectNew(atype, newuser, auth) \/ connectAgain(atype, newuser, auth)
        BY <1>1 DEF Application
    <2> QED
        BY <2>1, ConnectKeeps, EndKeeps
<1>2. CASE onDocumentStart
    BY <1>2, StartKeeps
<1>3. CASE onDocumentEnd \/ parserError
    BY <1>3, EndKeeps
<1>4. CASE Answers
    BY <1>4, AnswerKeeps DEF Answers
<1>5. CASE UNCHANGED vars
    <2>1. Core' = Core
        BY <1>5 DEF vars, Core
    <2> QED
        BY <1>5, <2>1
        DEF IInv, DraftInv, IdsUsed, Matched, OthersOK, ConnectedMeansAccepted,
            vars, settings
<1> QED
    BY <1>1, <1>2, <1>3, <1>4, <1>5 DEF Next

-----------------------------------------------------------------------------
(***************************************************************************)
(* The variables keep their types: in particular every callback and every   *)
(* request has an id that was given out.                                    *)
(***************************************************************************)
THEOREM SessionTypeCorrect == Spec => []TypeOK
<1>1. IInv => TypeOK
    BY InvHasTypes
<1> QED
    BY <1>1, InitInv, NextInv, PTL DEF Spec

(***************************************************************************)
(* However often connect() and disconnect() are called, streams end or      *)
(* break, and answers come late or never: a session is connected only when  *)
(* the server has accepted a login on the stream at hand.                   *)
(***************************************************************************)
THEOREM ConnectionIsAccepted == Spec => []ConnectedMeansAccepted
<1>1. IInv => ConnectedMeansAccepted
    BY DEF IInv
<1> QED
    BY <1>1, InitInv, NextInv, PTL DEF Spec

-----------------------------------------------------------------------------
(***************************************************************************)
(* What an application gains that waits for the outcome of connect() before *)
(* it calls it again (Patient), on a connection that brings nothing after   *)
(* disconnect() (~LateInput): one step of the login at a time, no dead      *)
(* pointer, and an answer to wait for, with any number of logins, refusals  *)
(* and streams.                                                             *)
(*                                                                          *)
(* A request is pending if a handler is registered for its answer.  While   *)
(* one is, the application waits; so connect() finds none, and a handler,   *)
(* whose request is the one that was pending, leaves none behind but the    *)
(* one it sends.                                                            *)
(***************************************************************************)
Patience == Patient /\ ~ LateInput

Pending(d) == {r \in d.asked : \E c \in d.callbacks : c.id = r.id}

OneHandlerEach(d) == \A b, c \in d.callbacks : b.id = c.id => b = c

AtMostOnePending(d) == \A q, r \in Pending(d) : q = r

\* A draft that waits does so for a request with one of the two handlers.
Answerable(d) ==
    d.state = "AwaitingAuth" =>
        \E r \in d.asked, c \in d.callbacks :
            r.id = c.id /\ c.f \in {"IQHandler_Auth", "IQHandler_CreateUser"}

LoggingIn == {"CreateUser", "AuthReq"}

\* Once refused with no <error/>, a session may wait for nothing.
Unrefused(P) == ~ refusedBare => P

\* What a handler may send from, and what it has then.
Idle(d) ==
    /\ DraftInv(d)
    /\ OneHandlerEach(d)
    /\ Pending(d) = {}
    /\ Unrefused(d.state \in LoggingIn)

OneStep(d) ==
    /\ DraftInv(d)
    /\ OneHandlerEach(d)
    /\ AtMostOnePending(d)
    /\ Unrefused(Answerable(d))

StreamInv ==
    /\ stream = "closed" <=> connState = "NotConnected"
    /\ stream = "opening" => waiting /\ asked = {} /\ connState \in LoggingIn
    /\ stream = "open" /\ connState # "Connected" => streamElement = "live"
    /\ stream = "open" /\ Pending(Core) # {} => waiting /\ connState # "Connected"

FaultInv == "0k" \notin AuthTypes => ~ fault

PatientInv == IInv /\ OneStep(Core) /\ StreamInv /\ FaultInv

-----------------------------------------------------------------------------
(* Sending                                                                  *)

LEMMA SendPends ==
    ASSUME NEW d, DraftInv(d), OneHandlerEach(d), NEW what, NEW handlers,
           \A f, g \in handlers : f = g
    PROVE  /\ OneHandlerEach(Send(d, what, handlers))
           /\ Pending(Send(d, what, handlers))
              = Pending(d) \cup (IF handlers = {} THEN {}
                                 ELSE {[id |-> d.id, what |-> what]})
           /\ Send(d, what, handlers).state = d.state
           /\ Send(d, what, handlers).fault = d.fault
<1> DEFINE s == Send(d, what, handlers)
           r0 == [id |-> d.id, what |-> what]
           C0 == {[id |-> d.id, f |-> f] : f \in handlers}
<1>1. /\ d.id \in Nat
      /\ \A r \in d.asked : r.id \in Nat /\ r.id # d.id
      /\ \A c \in d.callbacks : c.id \in Nat /\ c.id # d.id
    BY DEF DraftInv, Drafts, IdsUsed
<1>2. /\ s.asked = d.asked \cup {r0} /\ s.callbacks = d.callbacks \cup C0
      /\ s.state = d.state /\ s.fault = d.fault
    BY DEF Send, DraftInv, Drafts
<1>3. /\ \A c \in C0 : c.id = d.id
      /\ \A b, c \in C0 : b = c
      /\ r0.id = d.id
      /\ handlers = {} => C0 = {}
      /\ handlers # {} => C0 # {}
    <2>1. \A c \in C0 : c.id = d.id
        OBVIOUS
    <2>2. ASSUME NEW b \in C0, NEW c \in C0 PROVE b = c
        <3>1. PICK f \in handlers : b = [id |-> d.id, f |-> f]
            OBVIOUS
        <3>2. PICK g \in handlers : c = [id |-> d.id, f |-> g]
            OBVIOUS
        <3> QED
            BY <3>1, <3>2
    <2>3. handlers # {} => C0 # {}
        <3> SUFFICES ASSUME NEW f \in handlers PROVE C0 # {}
            OBVIOUS
        <3>1. [id |-> d.id, f |-> f] \in C0
            OBVIOUS
        <3> QED
            BY <3>1
    <2> QED
        BY <2>1, <2>2, <2>3
<1> HIDE DEF s, r0, C0
<1>4. OneHandlerEach(s)
    BY <1>1, <1>2, <1>3 DEF OneHandlerEach
<1>5. Pending(s) = Pending(d) \cup (IF handlers = {} THEN {} ELSE {r0})
    <2>1. CASE handlers = {}
        <3>1. s.callbacks = d.callbacks
            BY <1>2, <1>3, <2>1
        <3>2. \A r : r \in Pending(s) <=> r \in Pending(d)
            BY <1>1, <1>2, <1>3, <3>1 DEF Pending
        <3> QED
            BY <2>1, <3>2
    <2>2. CASE handlers # {}
        <3>1. PICK c0 \in C0 : TRUE
            BY <1>3, <2>2
        <3>2. \A r : r \in Pending(s) <=> r \in Pending(d) \/ r = r0
            BY <1>1, <1>2, <1>3, <3>1 DEF Pending
        <3> QED
            BY <2>2, <3>2
    <2> QED
        BY <2>1, <2>2
<1> QED
    BY <1>2, <1>4, <1>5 DEF s, r0, C0

LEMMA SendLoginPends ==
    ASSUME NEW d, Idle(d), NEW atype, NEW hasQuery \in BOOLEAN
    PROVE  /\ OneStep(sendLogin(d, atype, hasQuery))
           /\ hasQuery \/ atype # "0k" => sendLogin(d, atype, hasQuery).fault = d.fault
<1> DEFINE s == sendLogin(d, atype, hasQuery)
<1>1. DraftInv(s)
    BY SendLoginKeeps DEF Idle
<1>2. CASE d.state = "AuthReq" /\ atype = "0k" /\ ~ hasQuery
    <2>1. s = [d EXCEPT !.fault = TRUE]
        BY <1>2 DEF sendLogin
    <2>2. s.asked = d.asked /\ s.callbacks = d.callbacks /\ s.state = d.state
        BY <2>1 DEF Idle, DraftInv, Drafts
    <2> HIDE DEF s
    <2>3. Pending(s) = {} /\ OneHandlerEach(s)
        BY <2>2 DEF Idle, Pending, OneHandlerEach
    <2>4. OneStep(s)
        BY <1>1, <1>2, <2>2, <2>3 DEF OneStep, AtMostOnePending, Answerable, Unrefused
    <2> QED
        BY <1>2, <2>4 DEF s
<1>3. CASE ~ (d.state = "AuthReq" /\ atype = "0k" /\ ~ hasQuery)
    <2>1. PICK what \in {"register", "login", "nameless"},
               handlers \in {{"IQHandler_CreateUser"}, {"IQHandler_Auth"}, {}} :
            /\ s = [Send(d, what, handlers) EXCEPT !.state = "AwaitingAuth"]
            /\ d.state \in LoggingIn => handlers # {}
        BY <1>3 DEF sendLogin, LoggingIn
    <2> DEFINE t == Send(d, what, handlers)
    <2>2. DraftInv(d) /\ OneHandlerEach(d) /\ Pending(d) = {}
        BY DEF Idle
    <2>3. \A f, g \in handlers : f = g
        OBVIOUS
    <2>4. /\ OneHandlerEach(t)
          /\ Pending(t) \subseteq {[id |-> d.id, what |-> what]}
          /\ t.fault = d.fault
          /\ t.asked = d.asked \cup {[id |-> d.id, what |-> what]}
          /\ t.callbacks = d.callbacks \cup {[id |-> d.id, f |-> f] : f \in handlers}
        <3>1. /\ OneHandlerEach(t) /\ t.fault = d.fault
              /\ Pending(t) = Pending(d) \cup (IF handlers = {} THEN {}
                                               ELSE {[id |-> d.id, what |-> what]})
            BY <2>2, <2>3, SendPends
        <3>2. /\ t.asked = d.asked \cup {[id |-> d.id, what |-> what]}
              /\ t.callbacks = d.callbacks \cup {[id |-> d.id, f |-> f] : f \in handlers}
            BY <2>2 DEF Send, DraftInv, Drafts
        <3> HIDE DEF t
        <3> QED
            BY <2>2, <3>1, <3>2
    <2>5. /\ s.asked = t.asked /\ s.callbacks = t.callbacks /\ s.fault = t.fault
        BY <2>1 DEF Send, Idle, DraftInv, Drafts
    <2> HIDE DEF s, t
    <2>6. OneHandlerEach(s) /\ Pending(s) \subseteq {[id |-> d.id, what |-> what]}
        BY <2>4, <2>5 DEF OneHandlerEach, Pending
    <2>7. AtMostOnePending(s)
        BY <2>6 DEF AtMostOnePending
    <2>8. ASSUME d.state \in LoggingIn
          PROVE  Answerable(s)
        <3>1. PICK f \in {"IQHandler_CreateUser", "IQHandler_Auth"} : f \in handlers
            BY <2>1, <2>8
        <3>2. /\ [id |-> d.id, what |-> what] \in s.asked
              /\ [id |-> d.id, f |-> f] \in s.callbacks
            BY <2>4, <2>5, <3>1
        <3> QED
            BY <3>2 DEF Answerable
    <2>9. OneStep(s)
        BY <1>1, <2>6, <2>7, <2>8 DEF OneStep, Unrefused, Idle
    <2> QED
        BY <2>4, <2>5, <2>9 DEF s
<1> QED
    BY <1>2, <1>3

LEMMA AuthenticatePends ==
    ASSUME NEW d, Idle(d), NEW atype
    PROVE  /\ OneStep(authenticate(d, atype))
           /\ atype # "0k" => authenticate(d, atype).fault = d.fault
<1>1. DraftInv(d) /\ OneHandlerEach(d) /\ Pending(d) = {}
    BY DEF Idle
<1>2. CASE atype = "Auto"
    <2> DEFINE s == Send(d, "types", {"OnAuthTypeReceived"})
    <2>1. s = authenticate(d, atype)
        BY <1>2 DEF authenticate
    <2>2. DraftInv(s)
        BY <1>1, <2>1, AuthenticateKeeps
    <2>3. /\ OneHandlerEach(s)
          /\ Pending(s) \subseteq {[id |-> d.id, what |-> "types"]}
          /\ s.state = d.state /\ s.fault = d.fault
        BY <1>1, SendPends
    <2> HIDE DEF s
    <2>4. OneStep(s)
        BY <2>2, <2>3
        DEF OneStep, AtMostOnePending, Unrefused, Answerable, Idle, LoggingIn
    <2> QED
        BY <2>1, <2>3, <2>4
<1>3. CASE atype # "Auto"
    <2> DEFINE s == Send(d, "types", {})
    <2>1. authenticate(d, atype) = sendLogin(s, atype, FALSE)
        BY <1>3 DEF authenticate
    <2>2. DraftInv(s)
        <3>1. "types" \in Requests /\ {} \in SUBSET Handlers
            BY DEF Requests
        <3> QED
            BY <1>1, <3>1, SendKeeps
    <2>3. /\ OneHandlerEach(s) /\ Pending(s) = {}
          /\ s.state = d.state /\ s.fault = d.fault
        BY <1>1, SendPends
    <2> HIDE DEF s
    <2>4. Idle(s)
        BY <2>2, <2>3 DEF Idle, Unrefused
    <2> QED
        BY <2>1, <2>3, <2>4, SendLoginPends
<1> QED
    BY <1>2, <1>3

\* A draft that waits for no pending request answers for itself.
LEMMA IdleIsOneStep ==
    ASSUME NEW d, DraftInv(d), OneHandlerEach(d), Pending(d) = {},
           Unrefused(d.state # "AwaitingAuth")
    PROVE  OneStep(d)
BY DEF OneStep, AtMostOnePending, Unrefused, Answerable

-----------------------------------------------------------------------------
(* Committing                                                               *)

LEMMA CommitIsCore ==
    ASSUME NEW d, DraftInv(d), Commit(d)
    PROVE  /\ Core' = d
           /\ connState' = d.state /\ fault' = d.fault
BY DEF DraftInv, Drafts, Core, Commit

\* OneStep of the core is that of a draft that equals it.
LEMMA OneStepOfCore ==
    ASSUME NEW d, OneStep(d), Core' = d, refusedBare => refusedBare'
    PROVE  OneStep(Core)'
BY DEF OneStep, DraftInv, IdsUsed, Matched, OneHandlerEach, AtMostOnePending,
       Pending, Unrefused, Answerable

LEMMA CommitOneStep ==
    ASSUME NEW d, OneStep(d), Commit(d), refusedBare => refusedBare'
    PROVE  OneStep(Core)' /\ connState' = d.state /\ fault' = d.fault
           /\ (Pending(Core)' # {} => Pending(d) # {})
<1>1. DraftInv(d)
    BY DEF OneStep
<1>2. Core' = d /\ connState' = d.state /\ fault' = d.fault
    BY <1>1, CommitIsCore
<1>3. OneStep(Core)'
    BY <1>2, OneStepOfCore
<1>4. Pending(Core)' = Pending(d)
    BY <1>2 DEF Pending
<1> QED
    BY <1>2, <1>3, <1>4

\* What a handler commits on a refusal with no <error/>.
LEMMA CommitRefused ==
    ASSUME NEW d, DraftInv(d), OneHandlerEach(d), Pending(d) = {}, Commit(d),
           refusedBare'
    PROVE  OneStep(Core)' /\ connState' = d.state /\ fault' = d.fault
           /\ Pending(Core)' = {}
<1>1. Core' = d /\ connState' = d.state /\ fault' = d.fault
    BY CommitIsCore
<1>2. DraftInv(Core)'
    BY <1>1 DEF DraftInv, IdsUsed, Matched
<1>3. OneHandlerEach(Core)' /\ Pending(Core)' = {}
    BY <1>1 DEF OneHandlerEach, Pending
<1>4. AtMostOnePending(Core)'
    BY <1>3 DEF AtMostOnePending
<1> QED
    BY <1>1, <1>2, <1>3, <1>4 DEF OneStep, Unrefused

-----------------------------------------------------------------------------
(* The steps                                                                *)

LEMMA PatientInit == Init => PatientInv
<1> SUFFICES ASSUME Init PROVE PatientInv
    OBVIOUS
<1>1. IInv
    BY InitInv
<1>2. Core = [id |-> 0, callbacks |-> {}, asked |-> {},
              state |-> "NotConnected", fault |-> FALSE]
    BY DEF Init, Core
<1>3. Pending(Core) = {} /\ OneHandlerEach(Core) /\ Core.state = "NotConnected"
    BY <1>2 DEF Pending, OneHandlerEach
<1>4. OneStep(Core)
    BY <1>1, <1>3 DEF OneStep, AtMostOnePending, Answerable, Unrefused, IInv
<1>5. StreamInv /\ FaultInv
    BY DEF Init, StreamInv, FaultInv
<1> QED
    BY <1>1, <1>4, <1>5 DEF PatientInv

\* Steps that send nothing, of a session that then waits for nothing.
LEMMA PatientQuiet ==
    ASSUME PatientInv, asked' \in {asked, {}}, nextID' = nextID,
           callbacks' = callbacks, connState' # "AwaitingAuth",
           connState' \in States, fault' \in BOOLEAN
    PROVE  OneStep(Core)' /\ (Pending(Core)' # {} => Pending(Core) # {} /\ asked' # {})
<1>1. DraftInv(Core)'
    BY QuietHolds DEF PatientInv
<1>2. /\ Core.asked = asked /\ Core.callbacks = callbacks
      /\ Core'.asked = asked' /\ Core'.callbacks = callbacks
      /\ Core'.state = connState'
    BY DEF Core
<1>3. Pending(Core)' \subseteq Pending(Core) /\ Pending(Core)' \subseteq asked'
    BY <1>2 DEF Pending
<1>4. OneHandlerEach(Core)' /\ AtMostOnePending(Core)'
    BY <1>2, <1>3 DEF OneHandlerEach, AtMostOnePending, PatientInv, OneStep
<1>5. Unrefused(Answerable(Core))'
    BY <1>2 DEF Unrefused, Answerable
<1> QED
    BY <1>1, <1>3, <1>4, <1>5 DEF OneStep

LEMMA PatientConnectNew ==
    ASSUME PatientInv, NEW atype \in AuthTypes, NEW newuser \in BOOLEAN,
           NEW auth \in AuthFlags, connectNew(atype, newuser, auth)
    PROVE  PatientInv'
<1>1. /\ connState' \in LoggingIn /\ stream' = "opening" /\ asked' = {}
      /\ nextID' = nextID /\ callbacks' = callbacks /\ fault' = fault
      /\ waiting' = TRUE
    BY DEF connectNew, Await, Report, LoggingIn
<1>2. IInv'
    BY ConnectKeeps DEF PatientInv
<1>3. OneStep(Core)'
    <2>1. connState' # "AwaitingAuth" /\ connState' \in States /\ fault' \in BOOLEAN
        BY <1>1 DEF LoggingIn, States, PatientInv, IInv, DraftInv, Drafts, Core
    <2> QED
        BY <1>1, <2>1, PatientQuiet
<1>4. StreamInv' /\ FaultInv'
    BY <1>1 DEF StreamInv, FaultInv, LoggingIn, PatientInv
<1> QED
    BY <1>2, <1>3, <1>4 DEF PatientInv

LEMMA PatientConnectAgain ==
    ASSUME Patience, PatientInv, NEW atype \in AuthTypes, NEW newuser \in BOOLEAN,
           NEW auth \in AuthFlags, connectAgain(atype, newuser, auth)
    PROVE  PatientInv'
<1> DEFINE state == IF newuser THEN "CreateUser" ELSE connState
<1>1. /\ ~ waiting /\ connState \notin {"NotConnected", "Connected"}
      /\ auth \in BOOLEAN /\ ~ fault
      /\ connState \in States /\ stream \in {"closed", "opening", "open"}
    BY SessionAssumption
    DEF Patience, connectAgain, MayConnect, PatientInv, IInv, OthersOK, DraftInv,
        Drafts, Core
<1>2. stream = "open" /\ Pending(Core) = {} /\ streamElement = "live"
    BY <1>1 DEF PatientInv, StreamInv
<1>3. IInv'
    BY ConnectKeeps DEF PatientInv
<1>4. UNCHANGED <<stream, streamElement>>
    BY DEF connectAgain
<1>5. Unrefused(connState \in LoggingIn)
    <2>1. Core.state = connState /\ Core.asked = asked /\ Core.callbacks = callbacks
        BY DEF Core
    <2>2. ASSUME Answerable(Core) PROVE connState # "AwaitingAuth"
        BY <1>2, <2>1, <2>2 DEF Answerable, Pending
    <2> QED
        BY <1>1, <2>2 DEF PatientInv, OneStep, Unrefused, States, LoggingIn
<1>6. state \in States \ {"NotConnected", "Connected"}
      /\ Unrefused(state \in LoggingIn)
    BY <1>1, <1>5 DEF States, LoggingIn, Unrefused
<1>7. CASE auth
    <2> DEFINE d == authenticate(Draft(state), atype)
    <2>1. Idle(Draft(state)) /\ Draft(state).fault = FALSE /\ Draft(state).state = state
        <3>1. DraftInv(Draft(state)) /\ Draft(state).state = state
            BY <1>6, DraftHolds DEF PatientInv
        <3>2. /\ Draft(state).asked = Core.asked
              /\ Draft(state).callbacks = Core.callbacks
              /\ Draft(state).fault = FALSE
            BY DEF Draft, Core
        <3>3. Pending(Draft(state)) = {} /\ OneHandlerEach(Draft(state))
            BY <1>2, <3>2 DEF Pending, OneHandlerEach, PatientInv, OneStep
        <3> QED
            BY <1>6, <3>1, <3>2, <3>3 DEF Idle
    <2>2. /\ OneStep(d) /\ (atype # "0k" => d.fault = FALSE)
          /\ d.state \in {state, "AwaitingAuth"}
        BY <2>1, AuthenticatePends, AuthenticateKeeps DEF Idle
    <2>3. Commit(d) /\ waiting' = TRUE /\ refusedBare' = refusedBare
        BY <1>7 DEF connectAgain, Await, Report
    <2> HIDE DEF d, state
    <2>4. /\ OneStep(Core)' /\ connState' \in {state, "AwaitingAuth"}
          /\ atype # "0k" => fault' = FALSE
        BY <2>2, <2>3, CommitOneStep
    <2>5. StreamInv' /\ FaultInv'
        BY <1>2, <1>4, <1>6, <2>3, <2>4 DEF StreamInv, FaultInv
    <2> QED
        BY <1>3, <2>4, <2>5 DEF PatientInv
<1>8. CASE ~ auth
    <2>1. /\ connState' = state /\ fault' = (streamElement # "live")
          /\ UNCHANGED <<nextID, callbacks, asked, refusedBare>>
        BY <1>8 DEF connectAgain, tellConnected
    <2> HIDE DEF state
    <2>2. fault' = FALSE
        BY <1>2, <2>1
    <2>3. /\ Core'.asked = Core.asked /\ Core'.callbacks = Core.callbacks
          /\ Core'.state = state
        BY <2>1 DEF Core
    <2>4. Pending(Core)' = {} /\ OneHandlerEach(Core)'
        BY <1>2, <2>3 DEF Pending, OneHandlerEach, PatientInv, OneStep
    <2>5. OneStep(Core)'
        BY <1>3, <1>6, <2>1, <2>3, <2>4
        DEF OneStep, IInv, AtMostOnePending, Unrefused, Answerable, LoggingIn
    <2>6. StreamInv' /\ FaultInv'
        BY <1>2, <1>4, <1>6, <2>1, <2>2, <2>4 DEF StreamInv, FaultInv
    <2> QED
        BY <1>3, <2>5, <2>6 DEF PatientInv
<1> QED
    BY <1>1, <1>7, <1>8

LEMMA PatientEnd ==
    ASSUME Patience, PatientInv, disconnect \/ onDocumentEnd \/ parserError
    PROVE  PatientInv'
<1>1. /\ connState' = "NotConnected" /\ stream' = "closed"
      /\ nextID' = nextID /\ callbacks' = callbacks /\ asked' = asked
      /\ fault' = fault
    BY DEF disconnect, onDocumentEnd, parserError, Patience
<1>2. IInv'
    BY EndKeeps DEF PatientInv
<1>3. OneStep(Core)'
    <2>1. connState' # "AwaitingAuth" /\ connState' \in States /\ fault' \in BOOLEAN
        BY <1>1 DEF States, PatientInv, IInv, DraftInv, Drafts, Core
    <2> QED
        BY <1>1, <2>1, PatientQuiet
<1>4. StreamInv' /\ FaultInv'
    BY <1>1 DEF StreamInv, FaultInv, PatientInv
<1> QED
    BY <1>2, <1>3, <1>4 DEF PatientInv

LEMMA PatientStart ==
    ASSUME PatientInv, onDocumentStart
    PROVE  PatientInv'
<1>1. /\ stream = "opening" /\ asked = {} /\ connState \in LoggingIn /\ waiting
      /\ ~ fault /\ authenticating \in BOOLEAN /\ authType \in AuthTypes
    BY DEF onDocumentStart, PatientInv, StreamInv, IInv, OthersOK
<1>2. stream' = "open" /\ streamElement' = "live"
    BY DEF onDocumentStart
<1>3. IInv'
    BY StartKeeps DEF PatientInv
<1>4. CASE authenticating
    <2> DEFINE d == authenticate(Draft(connState), authType)
    <2>1. /\ Idle(Draft(connState)) /\ Draft(connState).fault = FALSE
          /\ Draft(connState).state = connState
        <3>1. DraftInv(Draft(connState)) /\ Draft(connState).state = connState
            BY <1>1, DraftHolds DEF PatientInv, LoggingIn, States
        <3>2. /\ Draft(connState).asked = {}
              /\ Draft(connState).callbacks = Core.callbacks
              /\ Draft(connState).fault = FALSE
            BY <1>1 DEF Draft, Core
        <3>3. Pending(Draft(connState)) = {} /\ OneHandlerEach(Draft(connState))
            BY <3>2 DEF Pending, OneHandlerEach, PatientInv, OneStep
        <3> QED
            BY <1>1, <3>1, <3>2, <3>3 DEF Idle, Unrefused
    <2>2. /\ OneStep(d) /\ (authType # "0k" => d.fault = FALSE)
          /\ d.state \in {connState, "AwaitingAuth"}
        BY <2>1, AuthenticatePends, AuthenticateKeeps DEF Idle
    <2>3. Commit(d) /\ waiting' = waiting /\ refusedBare' = refusedBare
        BY <1>4 DEF onDocumentStart, Silent, Report
    <2> HIDE DEF d
    <2>4. /\ OneStep(Core)' /\ connState' \in {connState, "AwaitingAuth"}
          /\ authType # "0k" => fault' = FALSE
        BY <2>2, <2>3, CommitOneStep
    <2>5. StreamInv' /\ FaultInv'
        BY <1>1, <1>2, <2>3, <2>4 DEF StreamInv, FaultInv, LoggingIn
    <2> QED
        BY <1>3, <2>4, <2>5 DEF PatientInv
<1>5. CASE ~ authenticating
    <2>1. UNCHANGED <<nextID, callbacks, asked, connState, fault>>
        BY <1>5 DEF onDocumentStart
    <2>2. OneStep(Core)' /\ Pending(Core)' = {}
        <3>1. connState' # "AwaitingAuth" /\ connState' \in States /\ fault' \in BOOLEAN
            BY <1>1, <2>1 DEF LoggingIn, States, PatientInv, IInv, DraftInv, Drafts, Core
        <3>2. asked' \in {asked, {}} /\ asked' = {}
              /\ nextID' = nextID /\ callbacks' = callbacks
            BY <1>1, <2>1
        <3> QED
            BY <3>1, <3>2, PatientQuiet
    <2>3. StreamInv' /\ FaultInv'
        BY <1>1, <1>2, <2>1, <2>2 DEF StreamInv, FaultInv, LoggingIn
    <2> QED
        BY <1>3, <2>2, <2>3 DEF PatientInv
<1> QED
    BY <1>1, <1>4, <1>5

\* An answer to a pending request leaves none behind.
LEMMA PatientAnswered ==
    ASSUME PatientInv, NEW r \in asked, NEW f, Handles(r, f), stream = "open"
    PROVE  /\ OneHandlerEach(Answered(r)) /\ Pending(Answered(r)) = {}
           /\ DraftInv(Answered(r)) /\ Answered(r).state = connState
           /\ Answered(r).fault = FALSE
           /\ waiting /\ streamElement = "live"
           /\ connState \notin {"Connected", "NotConnected"}
           /\ f = "OnAuthTypeReceived" => Unrefused(connState \in LoggingIn)
<1>1. DraftInv(Answered(r)) /\ Answered(r).state = connState
    BY AnsweredHolds DEF PatientInv
<1>2. /\ Answered(r).asked = asked \ {r}
      /\ Answered(r).callbacks = {c \in callbacks : c.id # r.id}
      /\ Answered(r).fault = FALSE
    BY DEF Answered, Draft
<1>3. /\ Core.asked = asked /\ Core.callbacks = callbacks /\ Core.state = connState
      /\ connState \in States
    BY DEF Core, PatientInv, IInv, DraftInv, Drafts
<1>4. r \in Pending(Core) /\ [id |-> r.id, f |-> f] \in callbacks
    <2>1. [id |-> r.id, f |-> f] \in callbacks
        BY DEF Handles
    <2> QED
        BY <1>3, <2>1 DEF Pending
<1>5. Pending(Answered(r)) = {}
    <2> SUFFICES ASSUME NEW q \in Pending(Answered(r)) PROVE FALSE
        OBVIOUS
    <2>1. q \in Pending(Core) /\ q # r
        BY <1>2, <1>3 DEF Pending
    <2> QED
        BY <1>4, <2>1 DEF PatientInv, OneStep, AtMostOnePending
<1>6. OneHandlerEach(Answered(r))
    BY <1>2, <1>3 DEF OneHandlerEach, PatientInv, OneStep
<1>7. /\ waiting /\ streamElement = "live"
      /\ connState \notin {"Connected", "NotConnected"}
    BY <1>4 DEF PatientInv, StreamInv
<1>8. ASSUME f = "OnAuthTypeReceived", Answerable(Core)
      PROVE  connState # "AwaitingAuth"
    <2> SUFFICES ASSUME connState = "AwaitingAuth" PROVE FALSE
        OBVIOUS
    <2>1. PICK q \in asked, c \in callbacks :
              q.id = c.id /\ c.f \in {"IQHandler_Auth", "IQHandler_CreateUser"}
        BY <1>3, <1>8 DEF Answerable
    <2>2. q = r
        BY <1>3, <1>4, <2>1 DEF Pending, PatientInv, OneStep, AtMostOnePending
    <2>3. c = [id |-> r.id, f |-> f]
        <3>1. [id |-> r.id, f |-> f].id = r.id
            OBVIOUS
        <3> QED
            BY <1>3, <1>4, <2>1, <2>2, <3>1 DEF PatientInv, OneStep, OneHandlerEach
    <2>4. c.f = f
        BY <2>3
    <2> QED
        BY <1>8, <2>1, <2>4
<1>9. f = "OnAuthTypeReceived" => Unrefused(connState \in LoggingIn)
    BY <1>3, <1>7, <1>8 DEF Unrefused, PatientInv, OneStep, States, LoggingIn
<1> QED
    BY <1>1, <1>2, <1>5, <1>6, <1>7, <1>9

\* The invariant after a step of a stream that stays open.
LEMMA PatientOpen ==
    ASSUME IInv', OneStep(Core)', FaultInv', stream' = "open",
           connState' # "NotConnected",
           connState' # "Connected" => streamElement' = "live",
           Pending(Core)' # {} => waiting' /\ connState' # "Connected"
    PROVE  PatientInv'
BY DEF PatientInv, StreamInv

LEMMA PatientAnswer ==
    ASSUME PatientInv, NEW r \in asked, handleIQ(r)
    PROVE  PatientInv' /\ (connState = "Connected" => connState' = "Connected")
<1>1. stream = "open" /\ stream' = "open" /\ ~ fault
    BY DEF handleIQ
<1>2. IInv'
    BY AnswerKeeps DEF PatientInv
<1>3. ASSUME NEW offer \in {"Plaintext", "Digest", "0k"}, OnAuthTypeReceived(r, offer)
      PROVE  PatientInv' /\ connState # "Connected"
    <2> DEFINE d == sendLogin(Answered(r), offer, TRUE)
    <2>1. /\ Idle(Answered(r)) /\ Answered(r).fault = FALSE
          /\ Answered(r).state = connState
          /\ waiting /\ streamElement = "live"
          /\ connState \notin {"Connected", "NotConnected"}
        BY <1>1, <1>3, PatientAnswered DEF OnAuthTypeReceived, Idle
    <2>2. OneStep(d) /\ d.fault = FALSE /\ d.state \in {connState, "AwaitingAuth"}
        BY <2>1, SendLoginPends, SendLoginKeeps DEF Idle
    <2>3. /\ Commit(d) /\ waiting' = waiting /\ streamElement' = streamElement
          /\ refusedBare' = refusedBare
        BY <1>3 DEF OnAuthTypeReceived, Silent, Report
    <2> HIDE DEF d
    <2>4. /\ OneStep(Core)' /\ connState' \in {connState, "AwaitingAuth"}
          /\ fault' = FALSE
        BY <2>2, <2>3, CommitOneStep
    <2>5. FaultInv'
        BY <2>4 DEF FaultInv
    <2> QED
        BY <1>1, <1>2, <2>1, <2>3, <2>4, <2>5, PatientOpen
<1>4. ASSUME NEW reply, IQHandler_Auth(r, reply), reply \in {"result"} \cup Errors
      PROVE  PatientInv' /\ connState # "Connected"
    <2>1. /\ OneHandlerEach(Answered(r)) /\ Pending(Answered(r)) = {}
          /\ DraftInv(Answered(r)) /\ Answered(r).state = connState
          /\ Answered(r).fault = FALSE /\ streamElement = "live"
          /\ connState \notin {"Connected", "NotConnected"}
        BY <1>1, <1>4, PatientAnswered DEF IQHandler_Auth
    <2>2. CASE reply = "result"
        <3> DEFINE e == [Answered(r) EXCEPT !.state = "Connected"]
                   g == IF authenticating THEN Send(e, "roster", {}) ELSE e
                   d == [g EXCEPT !.fault = streamElement # "live"]
        <3>1. /\ DraftInv(e) /\ OneHandlerEach(e) /\ Pending(e) = {}
              /\ e.state = "Connected"
            BY <2>1 DEF DraftInv, Drafts, IdsUsed, Matched, States, OneHandlerEach,
                        Pending
        <3>2. /\ DraftInv(g) /\ OneHandlerEach(g) /\ Pending(g) = {}
              /\ g.state = "Connected"
            <4>1. "roster" \in Requests /\ {} \in SUBSET Handlers
                BY DEF Requests
            <4> HIDE DEF e
            <4> QED
                BY <3>1, <4>1, SendKeeps, SendPends
        <3> HIDE DEF g
        <3>3. /\ d.asked = g.asked /\ d.callbacks = g.callbacks
              /\ d.state = "Connected" /\ d.fault = FALSE
              /\ DraftInv(d)
            BY <2>1, <3>2 DEF DraftInv, Drafts, IdsUsed, Matched
        <3>4. Commit(d) /\ (refusedBare => refusedBare')
            BY <1>4, <2>2 DEF IQHandler_Auth, g
        <3> HIDE DEF d
        <3>5. OneHandlerEach(d) /\ Pending(d) = {}
            BY <3>2, <3>3 DEF OneHandlerEach, Pending
        <3>6. OneStep(d)
            BY <3>3, <3>5, IdleIsOneStep DEF Unrefused
        <3>7. /\ OneStep(Core)' /\ connState' = "Connected" /\ fault' = FALSE
              /\ Pending(Core)' = {}
            BY <3>3, <3>4, <3>5, <3>6, CommitOneStep
        <3>8. FaultInv'
            BY <3>7 DEF FaultInv
        <3> QED
            BY <1>1, <1>2, <2>1, <3>7, <3>8, PatientOpen
    <2>3. CASE reply \in {"error", "bare"}
        <3>1. PICK state \in {"AuthReq", connState} :
                  /\ Commit([Answered(r) EXCEPT !.state = state])
                  /\ refusedBare' \/ (state = "AuthReq" /\ refusedBare' = refusedBare)
                  /\ streamElement' = streamElement
            <4>1. Answered(r) = [Answered(r) EXCEPT !.state = connState]
                BY <2>1 DEF DraftInv, Drafts
            <4>2. CASE reply = "error"
                BY <1>4, <4>2 DEF IQHandler_Auth, PatientInv, IInv, OthersOK
            <4>3. CASE reply = "bare"
                BY <1>4, <4>1, <4>3 DEF IQHandler_Auth
            <4> QED
                BY <2>3, <4>2, <4>3
        <3> DEFINE d == [Answered(r) EXCEPT !.state = state]
        <3>2. state \in States /\ state \notin {"Connected", "NotConnected"}
            BY <2>1 DEF States, DraftInv, Drafts
        <3>3. /\ d.asked = Answered(r).asked /\ d.callbacks = Answered(r).callbacks
              /\ d.state = state /\ d.fault = FALSE
              /\ DraftInv(d)
            BY <2>1, <3>2 DEF DraftInv, Drafts, IdsUsed, Matched
        <3>4. Commit(d)
            BY <3>1
        <3> HIDE DEF d
        <3>5. OneHandlerEach(d) /\ Pending(d) = {}
            BY <2>1, <3>3 DEF OneHandlerEach, Pending
        <3>6. CASE refusedBare'
            BY <1>1, <1>2, <2>1, <3>1, <3>2, <3>3, <3>4, <3>5, <3>6, CommitRefused,
               PatientOpen DEF FaultInv
        <3>7. CASE state = "AuthReq" /\ refusedBare' = refusedBare
            <4>1. OneStep(d)
                BY <3>3, <3>5, <3>7, IdleIsOneStep DEF Unrefused
            <4>2. /\ OneStep(Core)' /\ connState' = state /\ fault' = FALSE
                  /\ Pending(Core)' = {}
                BY <3>3, <3>4, <3>5, <3>7, <4>1, CommitOneStep
            <4> QED
                BY <1>1, <1>2, <2>1, <3>1, <3>2, <4>2, PatientOpen DEF FaultInv
        <3> QED
            BY <3>1, <3>6, <3>7
    <2> QED
        BY <1>4, <2>2, <2>3, SessionAssumption
<1>5. ASSUME NEW reply, IQHandler_CreateUser(r, reply)
      PROVE  PatientInv' /\ connState # "Connected"
    <2> DEFINE d == [Answered(r) EXCEPT !.state = "AuthReq"]
    <2>1. /\ OneHandlerEach(Answered(r)) /\ Pending(Answered(r)) = {}
          /\ DraftInv(Answered(r)) /\ Answered(r).fault = FALSE
          /\ waiting /\ streamElement = "live"
          /\ connState \notin {"Connected", "NotConnected"}
        BY <1>1, <1>5, PatientAnswered DEF IQHandler_CreateUser
    <2>2. /\ d.asked = Answered(r).asked /\ d.callbacks = Answered(r).callbacks
          /\ d.state = "AuthReq" /\ d.fault = FALSE
          /\ DraftInv(d)
        BY <2>1 DEF DraftInv, Drafts, IdsUsed, Matched, States
    <2>3. /\ (Commit(authenticate(d, authType)) /\ waiting' = waiting) \/ Commit(d)
          /\ streamElement' = streamElement /\ (refusedBare => refusedBare')
        BY <1>5 DEF IQHandler_CreateUser, Silent, Report
    <2> HIDE DEF d
    <2>4. OneHandlerEach(d) /\ Pending(d) = {}
        BY <2>1, <2>2 DEF OneHandlerEach, Pending
    <2>5. CASE Commit(d)
        <3>1. OneStep(d)
            BY <2>2, <2>4, IdleIsOneStep DEF Unrefused
        <3>2. /\ OneStep(Core)' /\ connState' = "AuthReq" /\ fault' = FALSE
              /\ Pending(Core)' = {}
            BY <2>2, <2>3, <2>4, <2>5, <3>1, CommitOneStep
        <3>3. FaultInv'
            BY <3>2 DEF FaultInv
        <3> QED
            BY <1>1, <1>2, <2>1, <2>3, <3>2, <3>3, PatientOpen
    <2>6. CASE Commit(authenticate(d, authType)) /\ waiting' = waiting
        <3>1. Idle(d)
            BY <2>2, <2>4 DEF Idle, Unrefused, LoggingIn
        <3>2. /\ OneStep(authenticate(d, authType))
              /\ authType # "0k" => authenticate(d, authType).fault = FALSE
              /\ authenticate(d, authType).state \in {"AuthReq", "AwaitingAuth"}
            BY <2>2, <3>1, AuthenticatePends, AuthenticateKeeps
        <3>3. /\ OneStep(Core)' /\ connState' \in {"AuthReq", "AwaitingAuth"}
              /\ authType # "0k" => fault' = FALSE
            BY <2>3, <2>6, <3>2, CommitOneStep
        <3>4. FaultInv'
            BY <3>3 DEF FaultInv, PatientInv, IInv, OthersOK
        <3> QED
            BY <1>1, <1>2, <2>1, <2>3, <2>6, <3>3, <3>4, PatientOpen
    <2> QED
        BY <2>1, <2>3, <2>5, <2>6
<1>6. ASSUME Unhandled(r)
      PROVE  PatientInv' /\ connState' = connState
    <2>1. DraftInv(Answered(r)) /\ Answered(r).state = connState
        BY AnsweredHolds DEF PatientInv
    <2>2. /\ Answered(r).asked = asked \ {r}
          /\ Answered(r).callbacks = {c \in callbacks : c.id # r.id}
          /\ Answered(r).fault = FALSE
        BY DEF Answered, Draft
    <2>3. Core.asked = asked /\ Core.callbacks = callbacks /\ Core.state = connState
        BY DEF Core
    <2>4. \A c \in callbacks : c.id # r.id
        <3> SUFFICES ASSUME NEW c \in callbacks, c.id = r.id PROVE FALSE
            OBVIOUS
        <3>1. c = [id |-> r.id, f |-> c.f] /\ c.f \in Handlers
            BY DEF PatientInv, IInv, DraftInv, Drafts, Core
        <3> QED
            BY <1>6, <3>1 DEF Unhandled, Handles
    <2>5. Answered(r).callbacks = callbacks
        BY <2>2, <2>4
    <2>6. OneStep(Answered(r)) /\ Pending(Answered(r)) = Pending(Core)
        <3>1. OneHandlerEach(Answered(r)) /\ Pending(Answered(r)) = Pending(Core)
            BY <2>2, <2>3, <2>4, <2>5 DEF OneHandlerEach, Pending, PatientInv, OneStep
        <3>2. Answerable(Core) => Answerable(Answered(r))
            BY <2>1, <2>2, <2>3, <2>4, <2>5 DEF Answerable
        <3> QED
            BY <2>1, <3>1, <3>2 DEF OneStep, AtMostOnePending, Unrefused, PatientInv
    <2>7. /\ Commit(Answered(r)) /\ waiting' = waiting
          /\ streamElement' = streamElement /\ refusedBare' = refusedBare
        BY <1>6 DEF Unhandled, Silent, Report
    <2>8. /\ OneStep(Core)' /\ connState' = connState /\ fault' = FALSE
          /\ Pending(Core)' # {} => Pending(Core) # {}
        BY <2>1, <2>2, <2>6, <2>7, CommitOneStep
    <2>9. FaultInv'
        BY <2>8 DEF FaultInv
    <2> QED
        BY <1>1, <1>2, <2>7, <2>8, <2>9, PatientOpen DEF PatientInv, StreamInv
<1> QED
    BY <1>3, <1>4, <1>5, <1>6 DEF handleIQ

LEMMA PatientNext ==
    ASSUME Patience, PatientInv, [Next]_vars
    PROVE  /\ PatientInv'
           /\ connState = "Connected" => connState' \in {"Connected", "NotConnected"}
<1>1. CASE Application
    <2>1. CASE disconnect
        BY <2>1, PatientEnd DEF disconnect
    <2>2. ASSUME NEW atype \in AuthTypes, NEW newuser \in BOOLEAN,
                 NEW auth \in AuthFlags,
                 connectNew(atype, newuser, auth) \/ connectAgain(atype, newuser, auth)
          PROVE  PatientInv' /\ connState # "Connected"
        BY <2>2, PatientConnectNew, PatientConnectAgain DEF connectNew, connectAgain
    <2> QED
        BY <1>1, <2>1, <2>2 DEF Application
<1>2. CASE onDocumentStart
    BY <1>2, PatientStart DEF PatientInv, StreamInv, LoggingIn, onDocumentStart
<1>3. CASE onDocumentEnd \/ parserError
    BY <1>3, PatientEnd DEF onDocumentEnd, parserError
<1>4. CASE Answers
    BY <1>4, PatientAnswer DEF Answers
<1>5. CASE UNCHANGED vars
    <2>1. Core' = Core
        BY <1>5 DEF vars, Core
    <2>2. IInv'
        BY <1>5, NextInv DEF PatientInv
    <2>3. OneStep(Core)' /\ Pending(Core)' = Pending(Core)
        <3>1. OneStep(Core)
            BY DEF PatientInv
        <3>2. Pending(Core)' = Pending(Core)
            BY <2>1 DEF Pending
        <3> QED
            BY <1>5, <2>1, <3>1, <3>2, OneStepOfCore DEF vars
    <2>4. StreamInv' /\ FaultInv'
        BY <1>5, <2>3 DEF PatientInv, StreamInv, FaultInv, vars, settings
    <2> QED
        BY <1>5, <2>2, <2>3, <2>4 DEF PatientInv, vars
<1> QED
    BY <1>1, <1>2, <1>3, <1>4, <1>5 DEF Next

LEMMA PatientInvariant == Patience /\ Spec => []PatientInv
<1> SUFFICES ASSUME Patience
             PROVE  Spec => []PatientInv
    OBVIOUS
<1>1. PatientInv /\ [Next]_vars => PatientInv'
    BY PatientNext
<1> QED
    BY <1>1, PatientInit, PTL DEF Spec

-----------------------------------------------------------------------------
(***************************************************************************)
(* The session of a patient application never has two steps of a login     *)
(* under way, so the server's header is freed once at most.                 *)
(***************************************************************************)
THEOREM PatientLogsInOnce == Patience /\ Spec => []OneLoginAtATime
<1>1. PatientInv => OneLoginAtATime
    <2> SUFFICES ASSUME PatientInv PROVE OneLoginAtATime
        OBVIOUS
    <2> DEFINE P == {r \in asked : \E f \in Handlers : Handles(r, f)}
    <2>1. P \subseteq Pending(Core)
        <3> SUFFICES ASSUME NEW r \in asked, NEW f \in Handlers, Handles(r, f)
                     PROVE  r \in Pending(Core)
            OBVIOUS
        <3>1. [id |-> r.id, f |-> f] \in Core.callbacks /\ r \in Core.asked
            BY DEF Handles, Core
        <3> QED
            BY <3>1 DEF Pending
    <2>2. \A q, r \in P : q = r
        BY <2>1 DEF PatientInv, OneStep, AtMostOnePending
    <2> HIDE DEF P
    <2>3. P = {} \/ \E r : P = {r}
        BY <2>2
    <2>4. CASE P = {}
        BY <2>4, FS_EmptySet DEF OneLoginAtATime, P
    <2>5. ASSUME NEW r, P = {r}
          PROVE  Cardinality(P) <= 1
        BY <2>5, FS_Singleton
    <2> QED
        BY <2>3, <2>4, <2>5 DEF OneLoginAtATime, P
<1>2. Patience /\ Spec => []PatientInv
    BY PatientInvariant
<1> QED
    BY <1>1, <1>2, PTL

(***************************************************************************)
(* It follows no dead pointer, unless it asks for zero-knowledge            *)
(* authentication by name.                                                  *)
(***************************************************************************)
THEOREM PatientNeverFaults ==
    "0k" \notin AuthTypes /\ Patience /\ Spec => []NoFault
<1> SUFFICES ASSUME "0k" \notin AuthTypes
             PROVE  Patience /\ Spec => []NoFault
    OBVIOUS
<1>1. PatientInv => NoFault
    BY DEF PatientInv, FaultInv, NoFault
<1>2. Patience /\ Spec => []PatientInv
    BY PatientInvariant
<1> QED
    BY <1>1, <1>2, PTL

(***************************************************************************)
(* It waits only for answers that the server owes and a handler takes, as   *)
(* long as each refusal comes with an <error/>.                             *)
(***************************************************************************)
THEOREM PatientAwaitsAnAnswer == Patience /\ Spec => []AwaitsAnAnswer
<1>1. PatientInv => AwaitsAnAnswer
    <2> SUFFICES ASSUME PatientInv, connState = "AwaitingAuth", ~ refusedBare
                 PROVE  \E r \in asked : \/ Handles(r, "IQHandler_Auth")
                                         \/ Handles(r, "IQHandler_CreateUser")
        BY DEF AwaitsAnAnswer
    <2>1. PICK r \in asked, c \in callbacks :
              r.id = c.id /\ c.f \in {"IQHandler_Auth", "IQHandler_CreateUser"}
        BY DEF PatientInv, OneStep, Unrefused, Answerable, Core
    <2>2. c = [id |-> r.id, f |-> c.f]
        BY <2>1 DEF PatientInv, IInv, DraftInv, Drafts, Core
    <2> QED
        BY <2>1, <2>2 DEF Handles
<1>2. Patience /\ Spec => []PatientInv
    BY PatientInvariant
<1> QED
    BY <1>1, <1>2, PTL

(***************************************************************************)
(* Once connected it stays so until the connection ends.                    *)
(***************************************************************************)
THEOREM PatientStaysConnected == Patience /\ Spec => StaysConnected
<1> SUFFICES ASSUME Patience
             PROVE  Spec => StaysConnected
    OBVIOUS
<1>1. PatientInv /\ [Next]_vars
      => [connState = "Connected" => connState' \in {"Connected", "NotConnected"}]_vars
    BY PatientNext
<1>2. Spec => []PatientInv
    BY PatientInvariant
<1> QED
    BY <1>1, <1>2, PTL DEF Spec, StaysConnected
=============================================================================
