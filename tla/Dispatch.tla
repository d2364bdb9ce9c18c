------------------------------- MODULE Dispatch -------------------------------
(***************************************************************************)
(* The queries of a session (src/jabberoo-session.cc): registerXPath() and  *)
(* unregisterXPath(), and the two loops that hand packets to them, the one  *)
(* of dispatch() over what comes in, behind the handlers of the stanza      *)
(* (IQDispatch for an IQ), and the one of operator<< over what goes out.    *)
(* Any function that is called may register, unregister and send, and what  *)
(* it sends runs through a loop of its own while the others wait.           *)
(***************************************************************************)
EXTENDS IQDispatch

CONSTANTS
    MaxQueries,     \* XPath queries are registered while there were fewer
    MaxSends,       \* packets are sent while there were fewer
    MaxCalls        \* bound on the calls of all three kinds together

ASSUME DispatchAssumption == {MaxQueries, MaxSends, MaxCalls} \subseteq Nat

VARIABLES
    queries,        \* _incoming_queries and _outgoing_queries
    nextQuery,      \* XPath queries made so far: each is known by its number
    deleted,        \* the queries that are deleted and still in a list
    stanza,         \* what dispatch() is doing: nothing, its handlers, its loop
    running,        \* the loops over queries that run, the innermost one last
    sent,           \* packets sent so far
    misused,        \* a query was unregistered in its own call or in a wrong list
    fault           \* a loop has used what is no longer there

queryVars == <<queries, nextQuery, deleted, misused>>
allVars == <<vars, queryVars, stanza, running, sent, fault>>

Lists == {"incoming", "outgoing"}
Gone == -2          \* an iterator whose node has been erased

First(list) == IF list = <<>> THEN End ELSE list[1]
After(list, q) ==
    IF q = End \/ q = Last(list)
    THEN End ELSE list[1 + CHOOSE i \in DOMAIN list : list[i] = q]

\* find_if() and erase(): the first node that holds the query goes.
Erased(list, q) ==
    IF q \in ToSet(list)
    THEN RemoveAt(list, CHOOSE i \in DOMAIN list : list[i] = q) ELSE list

\* A loop from the first query of a list; "inside" while it calls a function
Loop(list) ==
    [list |-> list, it |-> First(queries[list]), inside |-> FALSE,
     calls |-> End, began |-> ToSet(queries[list]), done |-> {}]

Top == Last(running)
ReplaceTop(f) == running' = Append(Front(running), f)

-----------------------------------------------------------------------------
(* The application, which has control between two stanzas, in the signals   *)
(* and callbacks of the handlers, and in the function of a query            *)

HasControl ==
    /\ ~ fault
    /\ IF running # <<>> THEN Top.inside
                         ELSE loop # Idle => loop.calling

MayCall == HasControl /\ nextID + nextQuery + sent < MaxCalls

\* Mutant: push_back
registerXPathBehind(list) ==
    /\ MayCall /\ nextQuery < MaxQueries
    /\ queries' = [queries EXCEPT ![list] = Append(@, nextQuery)]
    /\ nextQuery' = nextQuery + 1
    /\ UNCHANGED <<vars, deleted, misused, stanza, running, sent, fault>>

registerXPath(list) ==
    /\ MayCall /\ nextQuery < MaxQueries
    /\ queries' = [queries EXCEPT ![list] = <<nextQuery>> \o @]
    /\ nextQuery' = nextQuery + 1
    /\ UNCHANGED <<vars, deleted, misused, stanza, running, sent, fault>>

\* The node goes from the list that is named, the query itself in any case.
unregisterXPath(q, list) ==
    /\ HasControl
    /\ \E l \in Lists : q \in ToSet(queries[l]) \ deleted
    /\ queries' = [queries EXCEPT ![list] = Erased(@, q)]
    /\ deleted' = IF q \in ToSet(queries[list]) THEN deleted ELSE deleted \cup {q}
    /\ misused' = \/ misused
                  \/ q \notin ToSet(queries[list])
                  \/ \E i \in DOMAIN running : running[i].calls = q /\ running[i].inside
    /\ running' = [i \in DOMAIN running |->
                     IF running[i].list = list /\ running[i].it = q
                     THEN [running[i] EXCEPT !.it = Gone] ELSE running[i]]
    /\ UNCHANGED <<vars, nextQuery, stanza, sent, fault>>

\* operator<< of a Packet, of the application or a reply of handleIQ(): its
\* loop begins
send ==
    /\ MayCall /\ sent < MaxSends
    /\ sent' = sent + 1
    /\ running' = Append(running, Loop("outgoing"))
    /\ UNCHANGED <<vars, queryVars, stanza, fault>>

\* queryNamespace(): the callback is registered, then the IQ is sent as a
\* string, and operator<< of a string shows it to no query.
queryAndSend ==
    /\ MayCall
    /\ queryNamespace
    /\ UNCHANGED <<queryVars, stanza, running, sent, fault>>

-----------------------------------------------------------------------------
(* dispatch(): first the handlers, then the loop                            *)

receive ==
    /\ ~ fault /\ stanza = "none" /\ running = <<>>
    /\ \/ \E n \in owed : Answer(n)
       \/ PeerQuery
       \/ UNCHANGED vars            \* a message, a presence or an unknown one
    /\ stanza' = "handlers"
    /\ UNCHANGED <<queryVars, running, sent, fault>>

runCallbacks ==
    /\ ~ fault /\ running = <<>>
    /\ Call \/ Erase \/ PassBy \/ Return
    /\ UNCHANGED <<queryVars, stanza, running, sent, fault>>

runQueries ==
    /\ ~ fault /\ stanza = "handlers" /\ running = <<>> /\ loop = Idle
    /\ stanza' = "queries"
    /\ running' = <<Loop("incoming")>>
    /\ UNCHANGED <<vars, queryVars, sent, fault>>

-----------------------------------------------------------------------------
(* A turn of either loop                                                    *)

AtAQuery == ~ fault /\ running # <<>> /\ ~ Top.inside /\ Top.it # End

\* Mutant: the iterator is moved on before the function is called, too
checkMatchesMoved ==
    /\ AtAQuery /\ Top.it \notin deleted
    /\ ReplaceTop([Top EXCEPT !.inside = TRUE, !.calls = Top.it,
                              !.done = @ \cup {Top.it},
                              !.it = After(queries[Top.list], Top.it)])
    /\ UNCHANGED <<vars, queryVars, stanza, sent, fault>>

checkMatches ==
    /\ AtAQuery /\ Top.it \notin deleted
    /\ ReplaceTop([Top EXCEPT !.inside = TRUE, !.calls = Top.it,
                              !.done = @ \cup {Top.it}])
    /\ UNCHANGED <<vars, queryVars, stanza, sent, fault>>

checkFails ==
    /\ AtAQuery /\ Top.it \notin deleted
    /\ ReplaceTop([Top EXCEPT !.it = After(queries[Top.list], Top.it),
                              !.done = @ \cup {Top.it}])
    /\ UNCHANGED <<vars, queryVars, stanza, sent, fault>>

\* The function returns and the iterator is incremented.
returns ==
    /\ ~ fault /\ running # <<>> /\ Top.inside /\ Top.it # Gone
    /\ ReplaceTop([Top EXCEPT !.inside = FALSE, !.calls = End,
                              !.it = After(queries[Top.list], Top.it)])
    /\ UNCHANGED <<vars, queryVars, stanza, sent, fault>>

\* What the code does next is undefined; nothing is said of what follows.
faults ==
    /\ ~ fault /\ running # <<>>
    /\ \/ Top.it = Gone
       \/ Top.it \in deleted /\ ~ Top.inside
    /\ fault' = TRUE
    /\ UNCHANGED <<vars, queryVars, stanza, running, sent>>

\* Mutant: the element is not deleted and dispatch() does not come to its end
endLoopOnly ==
    /\ ~ fault /\ running # <<>> /\ Top.it = End /\ ~ Top.inside
    /\ running' = Front(running)
    /\ UNCHANGED <<vars, queryVars, stanza, sent, fault>>

\* dispatch() deletes its element; operator<< transmits the packet.
endLoop ==
    /\ ~ fault /\ running # <<>> /\ Top.it = End /\ ~ Top.inside
    /\ running' = Front(running)
    /\ stanza' = IF Top.list = "incoming" THEN "none" ELSE stanza
    /\ UNCHANGED <<vars, queryVars, sent, fault>>

DispatchInit ==
    /\ Init
    /\ queries = [l \in Lists |-> <<>>]
    /\ nextQuery = 0
    /\ deleted = {}
    /\ stanza = "none"
    /\ running = <<>>
    /\ sent = 0
    /\ misused = FALSE
    /\ fault = FALSE

Turn == checkMatches \/ checkFails \/ returns \/ faults \/ endLoop

DispatchNext ==
    \/ \E l \in Lists : registerXPath(l)
    \/ \E q \in 0 .. MaxQueries - 1, l \in Lists : unregisterXPath(q, l)
    \/ send
    \/ queryAndSend
    \/ receive
    \/ runCallbacks
    \/ runQueries
    \/ Turn

\* dispatch() runs on, in one thread, and the functions it calls return.
DispatchSpec ==
    /\ DispatchInit /\ [][DispatchNext]_allVars
    /\ WF_allVars(runCallbacks \/ runQueries \/ Turn)

-----------------------------------------------------------------------------
(***************************************************************************)
(* Beside TypeOK of the callbacks: every loop stands on a query of its list *)
(* or at the end, or it has lost its node, and dispatch() has one loop.     *)
(***************************************************************************)
DispatchTypeOK ==
    /\ TypeOK
    /\ \A l \in Lists : ToSet(queries[l]) \subseteq 0 .. nextQuery - 1
    /\ \A i \in DOMAIN running :
          LET f == running[i]
          IN  /\ f.it \in ToSet(queries[f.list]) \cup {End, Gone}
              /\ f.list = "incoming" <=> i = 1 /\ stanza = "queries"

(***************************************************************************)
(* The loops know where they are: that of handleIQ() has its iterators in   *)
(* order on nodes that are there, those over queries stand in their lists.  *)
(***************************************************************************)
DispatchInv == DispatchTypeOK /\ IteratorsInOrder

(***************************************************************************)
(* Each loop of dispatch() and operator<< (the one of a Packet: what is     *)
(* sent as a string has no loop) shows its packet to every query            *)
(* that was registered when it began and still is, to each once, and to     *)
(* none that was registered since: what a function registers is not called  *)
(* for the packet at hand.  Nested loops do not disturb the outer one.      *)
(***************************************************************************)
EachQueryOnce ==
    \A i \in DOMAIN running :
        LET f == running[i]
        IN  /\ f.done \subseteq f.began
            /\ ~ f.inside => f.it \notin f.done
            /\ f.it = End => f.began \cap ToSet(queries[f.list]) \subseteq f.done

(***************************************************************************)
(* Functions may unregister any query that waits, also the one the loop     *)
(* would look at next, and those of loops further out: a loop loses its     *)
(* node, or finds a query deleted, only when the application unregisters a  *)
(* query while its own function runs, or names the wrong list.              *)
(***************************************************************************)
FaultsAreMisuse ==
    /\ fault => misused
    /\ \A i \in DOMAIN running : running[i].it = Gone => running[i].inside

(***************************************************************************)
(* dispatch() comes to its end, whatever is registered meanwhile.           *)
(***************************************************************************)
DispatchReturns == stanza # "none" ~> stanza = "none" \/ fault
=============================================================================
