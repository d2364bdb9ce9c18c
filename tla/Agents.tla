-------------------------------- MODULE Agents --------------------------------
(***************************************************************************)
(* The agents of a server (src/jabberoox-agent.cc): fetch() asks an agent   *)
(* for the agents below it, once, and on_fetch() takes the answer and tells *)
(* those who wait for it, who may call fetch() in turn.  The agents of a    *)
(* list are copies, and the copy constructor leaves _fetchrequested as it   *)
(* finds it.                                                                *)
(***************************************************************************)
EXTENDS Naturals, FiniteSets

CONSTANTS
    Agent,          \* agents that say they have agents below them
    Garbled,        \* the copies among them whose flag happens to be set
    MaxFetches      \* requests are made while there were fewer

ASSUME AgentsAssumption == Garbled \subseteq Agent /\ MaxFetches \in Nat

VARIABLES
    fetchrequested, \* _fetchrequested of each agent
    loads,          \* the answers its list has been filled from
    telling,        \* whether its evtFetchComplete is being emitted
    fetches,        \* requests that have no answer yet
    fetched,        \* requests made so far
    unanswered      \* the agents whose answer was lost with the stream

agentVars == <<fetchrequested, loads, telling, fetches, fetched, unanswered>>

empty(a) == loads[a] = 0

\* Mutant: the flag is not looked at
fetchAlways(a) ==
    /\ empty(a)
    /\ fetched < MaxFetches
    /\ fetchrequested' = [fetchrequested EXCEPT ![a] = TRUE]
    /\ fetched' = fetched + 1
    /\ fetches' = fetches \cup {<<a, fetched>>}
    /\ UNCHANGED <<loads, telling, unanswered>>

fetch(a) ==
    /\ empty(a) /\ ~ fetchrequested[a]
    /\ fetched < MaxFetches
    /\ fetchrequested' = [fetchrequested EXCEPT ![a] = TRUE]
    /\ fetched' = fetched + 1
    /\ fetches' = fetches \cup {<<a, fetched>>}
    /\ UNCHANGED <<loads, telling, unanswered>>

\* Mutant: the flag is reset by a result only
on_fetchResult(f, reply, k) ==
    LET a == f[1]
    IN  /\ fetches' = fetches \ {f}
        /\ fetchrequested' = [fetchrequested EXCEPT ![a] = @ /\ reply # "result"]
        /\ loads' = [loads EXCEPT ![a] = IF reply = "result" THEN @ + k ELSE @]
        /\ telling' = [telling EXCEPT ![a] = reply # "no query"]
        /\ UNCHANGED <<fetched, unanswered>>

\* The answer has k agents, or it is an error, or there is no query in it.
on_fetch(f, reply, k) ==
    LET a == f[1]
    IN  /\ fetches' = fetches \ {f}
        /\ fetchrequested' = [fetchrequested EXCEPT ![a] = FALSE]
        /\ loads' = [loads EXCEPT ![a] = IF reply = "result" THEN @ + k ELSE @]
        /\ telling' = [telling EXCEPT ![a] = reply # "no query"]
        /\ UNCHANGED <<fetched, unanswered>>

\* evtFetchComplete has been emitted and is cleared.
release(a) ==
    /\ telling[a]
    /\ telling' = [telling EXCEPT ![a] = FALSE]
    /\ UNCHANGED <<fetchrequested, loads, fetches, fetched, unanswered>>

loseFetches ==
    /\ fetches' = {}
    /\ unanswered' = unanswered \cup {f[1] : f \in fetches}
    /\ UNCHANGED <<fetchrequested, loads, telling, fetched>>

AgentsInit ==
    /\ fetchrequested = [a \in Agent |-> a \in Garbled]
    /\ loads = [a \in Agent |-> 0]
    /\ telling = [a \in Agent |-> FALSE]
    /\ fetches = {} /\ fetched = 0 /\ unanswered = {}

\* The application acts between two answers, and when it is told of one.
Telling == {a \in Agent : telling[a]}

AgentsNext ==
    \/ \E a \in Agent : fetch(a) \/ release(a)
    \/ /\ Telling = {}
       /\ \E f \in fetches, reply \in {"result", "error", "no query"}, k \in 0 .. 1 :
             on_fetch(f, reply, k)

-----------------------------------------------------------------------------
(***************************************************************************)
(* One request of an agent is open at a time, and its list is filled from   *)
(* one answer, however often fetch() is called and whoever calls it again   *)
(* when it is told: the agents below it are never listed twice.             *)
(***************************************************************************)
LoadedOnce ==
    \A a \in Agent :
        /\ Cardinality({f \in fetches : f[1] = a}) <= 1
        /\ loads[a] <= 1
        /\ loads[a] = 1 => \A f \in fetches : f[1] # a

(***************************************************************************)
(* An agent whose list is empty may be asked again or its answer is due;    *)
(* the ones that are stuck are those whose answer went with the stream and  *)
(* copies whose flag was never set to anything.                             *)
(***************************************************************************)
StuckByLossOnly ==
    \A a \in Agent :
        empty(a) /\ fetchrequested[a] =>
            \/ \E f \in fetches : f[1] = a
            \/ a \in unanswered \cup Garbled
=============================================================================
