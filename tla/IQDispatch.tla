------------------------------ MODULE IQDispatch ------------------------------
(***************************************************************************)
(* The callbacks of a session (src/jabberoo-session.cc): getNextID(),       *)
(* queryNamespace(), and the loop of handleIQ() over the callbacks that are *)
(* registered for the id of a stanza, whose functions may query again while *)
(* the loop holds its two iterators.  In Session handleIQ() is one step;    *)
(* here it is the steps of its loop.  Dispatch says when they are taken.    *)
(***************************************************************************)
EXTENDS Integers, Sequences, SequencesExt

CONSTANTS
    Base,           \* ids are counted in this base (10 in the code)
    Width,          \* digits of the number that fit into an id (6 in the code)
    MaxID           \* queries are made while fewer ids have been used

ASSUME IQDispatchAssumption ==
    /\ Base \in Nat \ {0, 1}
    /\ Width \in Nat \ {0}
    /\ MaxID \in Nat

VARIABLES
    nextID,         \* _ID
    callbacks,      \* _Callbacks in its order: each with the query it is for
    owed,           \* the queries that are yet to be answered
    loop,           \* the loop of handleIQ, if it is running
    called          \* every call of a callback, and the stanza it was called for

vars == <<nextID, callbacks, owed, loop, called>>

-----------------------------------------------------------------------------
(* The text of an id: snprintf(buf, 8, "j%ld", _ID++)                       *)

Digits[n \in 0 .. MaxID] ==
    IF n < Base THEN <<n>> ELSE Append(Digits[n \div Base], n % Base)

IdText(n) ==
    IF Len(Digits[n]) <= Width THEN Digits[n] ELSE SubSeq(Digits[n], 1, Width)

\* s is before t in the order of std::string
Before(s, t) ==
    \E i \in 1 .. Len(t) :
        /\ \A k \in 1 .. i - 1 : k <= Len(s) /\ s[k] = t[k]
        /\ i <= Len(s) => s[i] < t[i]

-----------------------------------------------------------------------------
(* The multimap.  A node is known by the query it was registered for, an    *)
(* iterator by the node it points to; End is past the last one.             *)

End == -1

\* insert(): a new node goes behind those of the same id.
Inserted(list, n) ==
    LET after == {i \in 1 .. Len(list) : Before(IdText(n), list[i].id)}
        place == IF after = {} THEN Len(list) + 1
                               ELSE CHOOSE i \in after : \A k \in after : i <= k
    IN  InsertAt(list, place, [id |-> IdText(n), n |-> n])

Nodes == {callbacks[i].n : i \in DOMAIN callbacks}

NodeAt(list, i) == IF i > Len(list) THEN End ELSE list[i].n

Position(list, node) ==
    IF node = End THEN Len(list) + 1
                  ELSE CHOOSE i \in 1 .. Len(list) : list[i].n = node

Following(list, node) == NodeAt(list, Position(list, node) + 1)

Registered(id) == {i \in 1 .. Len(callbacks) : callbacks[i].id = id}

\* equal_range(id), where something is registered for id
LowerBound(id) == NodeAt(callbacks, CHOOSE i \in Registered(id) :
                                   \A k \in Registered(id) : i <= k)
\* Mutant: the range ends behind the first callback
UpperBoundOfOne(id) ==
    NodeAt(callbacks, 1 + CHOOSE i \in Registered(id) :
                              \A k \in Registered(id) : i <= k)

UpperBound(id) == NodeAt(callbacks, 1 + CHOOSE i \in Registered(id) :
                                      \A k \in Registered(id) : k <= i)

-----------------------------------------------------------------------------
Idle == [busy |-> FALSE]

\* queryNamespace() of the application, between two stanzas or in a callback
queryNamespace ==
    /\ loop # Idle => loop.calling
    /\ nextID < MaxID
    /\ nextID' = nextID + 1
    /\ callbacks' = Inserted(callbacks, nextID)
    /\ owed' = owed \cup {nextID}
    /\ UNCHANGED <<loop, called>>

\* handleIQ() on a stanza with this id
handleIQ(id) ==
    /\ loop = Idle
    /\ loop' = IF Registered(id) = {}
               THEN Idle
               ELSE [busy |-> TRUE, id |-> id, calling |-> FALSE,
                     it |-> LowerBound(id), last |-> UpperBound(id)]
    /\ UNCHANGED <<nextID, callbacks, called>>

Answer(n) == n \in owed /\ handleIQ(IdText(n)) /\ owed' = owed \ {n}

\* Another entity sends an IQ with an id of its own choice.
PeerQuery ==
    /\ \E n \in 0 .. MaxID : handleIQ(IdText(n))
    /\ UNCHANGED owed

AtANode == loop # Idle /\ ~ loop.calling /\ loop.it # loop.last

\* Mutant: the id is not compared again
CallAny ==
    /\ AtANode
    /\ called' = called \cup {[n |-> loop.it, id |-> loop.id]}
    /\ loop' = [loop EXCEPT !.calling = TRUE]
    /\ UNCHANGED <<nextID, callbacks, owed>>

\* A turn of the loop whose id matches: the function is called.
Call ==
    /\ AtANode
    /\ callbacks[Position(callbacks, loop.it)].id = loop.id
    /\ called' = called \cup {[n |-> loop.it, id |-> loop.id]}
    /\ loop' = [loop EXCEPT !.calling = TRUE]
    /\ UNCHANGED <<nextID, callbacks, owed>>

\* The node is erased and the iterator moved on to another.
EraseTo(node) ==
    /\ loop' = [loop EXCEPT !.calling = FALSE, !.it = node]
    /\ callbacks' = RemoveAt(callbacks, Position(callbacks, loop.it))
    /\ UNCHANGED <<nextID, owed, called>>

\* Mutant: the iterator is incremented after the node is erased
EraseFirst ==
    /\ loop # Idle /\ loop.calling
    /\ EraseTo(Following(callbacks, Following(callbacks, loop.it)))

\* The function returns: remove = it++, and the node is erased.
Erase ==
    /\ loop # Idle /\ loop.calling
    /\ EraseTo(Following(callbacks, loop.it))

\* One turn whose id does not match: registered since the loop began
PassBy ==
    /\ AtANode
    /\ callbacks[Position(callbacks, loop.it)].id # loop.id
    /\ loop' = [loop EXCEPT !.it = Following(callbacks, loop.it)]
    /\ UNCHANGED <<nextID, callbacks, owed, called>>

Return ==
    /\ loop # Idle /\ ~ loop.calling /\ loop.it = loop.last
    /\ loop' = Idle
    /\ UNCHANGED <<nextID, callbacks, owed, called>>

Init ==
    /\ nextID = 0
    /\ callbacks = <<>>
    /\ owed = {}
    /\ loop = Idle
    /\ called = {}

-----------------------------------------------------------------------------
(***************************************************************************)
(* The multimap is in order, one node for each query, and both iterators of *)
(* a loop that runs point to nodes that are still there.                    *)
(***************************************************************************)
TypeOK ==
    /\ nextID \in 0 .. MaxID
    /\ owed \subseteq 0 .. nextID - 1
    /\ Nodes \subseteq 0 .. nextID - 1
    /\ \A i, k \in DOMAIN callbacks :
          /\ callbacks[i].id = IdText(callbacks[i].n)
          /\ i < k => callbacks[i].n # callbacks[k].n
          /\ i < k => ~ Before(callbacks[k].id, callbacks[i].id)
    /\ \/ loop = Idle
       \/ /\ loop.busy
          /\ {loop.it, loop.last} \subseteq Nodes \cup {End}
    /\ \A c \in called : c.n \in 0 .. nextID - 1

(***************************************************************************)
(* Whatever is registered or erased while the loop of handleIQ() runs, the  *)
(* iterator that moves never gets past the one it stops at.                 *)
(***************************************************************************)
IteratorsInOrder ==
    loop # Idle => Position(callbacks, loop.it) <= Position(callbacks, loop.last)

(***************************************************************************)
(* A callback is called for a stanza of its own id and for no other: the    *)
(* loop calls nothing that was registered under it for another id, though   *)
(* it may well walk over it.                                                *)
(***************************************************************************)
CalledForOwnID == \A c \in called : c.id = IdText(c.n)

(***************************************************************************)
(* No callback is lost and none stays behind: each waits in the map until   *)
(* its query is answered, and has been called when handleIQ() returns.      *)
(***************************************************************************)
CalledWhenAnswered ==
    \A n \in 0 .. nextID - 1 :
        LET wasCalled == \E c \in called : c.n = n
        IN  /\ n \in Nodes \/ wasCalled
            /\ n \notin owed /\ loop = Idle => wasCalled /\ n \notin Nodes
=============================================================================
