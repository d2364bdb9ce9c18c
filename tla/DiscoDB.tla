------------------------------- MODULE DiscoDB --------------------------------
(***************************************************************************)
(* The cache of service discovery (src/jabberoo-disco.cpp): cache() asks a  *)
(* JID, or a node of it, for its features or its items; the answer, or the  *)
(* one to jabber:iq:browse that is tried after an error, makes items, which *)
(* are allocated one by one and point to each other as children, and runs   *)
(* the functions that wait for that JID and node.  The loop over these      *)
(* functions is modelled by its steps, since they may call cache() again.   *)
(* Names, features and identities are left out.                             *)
(***************************************************************************)
EXTENDS Integers, Sequences, FiniteSets, SequencesExt

CONSTANTS
    JIDs,           \* the JIDs, numbered in the order of their texts
    Nodes,          \* the nodes of a JID, numbered likewise
    MaxListed,      \* what an answer lists at most
    MaxItems,       \* answers come while fewer items have been allocated
    MaxCalls,       \* cache() is called while it has been called less often
    MaxErased       \* erase() is called while fewer items have been erased

NoNode == 0         \* no node
NoJID == 0          \* the empty JID

ASSUME DiscoAssumption ==
    /\ JIDs \subseteq Nat \ {NoJID}
    /\ Nodes \subseteq Nat \ {NoNode}
    /\ {MaxListed, MaxItems, MaxCalls, MaxErased} \subseteq Nat

VARIABLES
    heap,           \* the items that are allocated, by number
    items,          \* _items
    callbacks,      \* _callbacks: each with its key and number
    requests,       \* requests that have no answer yet
    loop,           \* the loop of runCallbacks, if it is running
    calls,          \* calls of cache() so far
    allocated,      \* items allocated so far
    told,           \* every call of a function
    nested,         \* calls of cache() made while an answer was handled
    shared,         \* the JIDs that were asked again before they had answered
    forgotten,      \* the keys whose answer was lost on its way
    erased,         \* items the application has erased
    selfListed,     \* the JIDs that listed themselves when browsed, since clear()
    fault           \* how memory was misused: "no", "null" or "freed"

discoVars == <<heap, items, callbacks, requests, loop, calls, allocated, told,
               nested, shared, forgotten, erased, selfListed, fault>>

Idle == [busy |-> FALSE]
Nothing == 0        \* NULL, and the iterator past the end

Precedes(k, l) == k[1] < l[1] \/ (k[1] = l[1] /\ k[2] < l[2])

(* The multimap of callbacks is in the order of its keys; insert() puts an  *)
(* entry behind those of the same key.                                      *)
Before(c, d) == Precedes(c.key, d.key) \/ (c.key = d.key /\ c.n < d.n)

\* The first of some entries, by its number
FirstIn(S) ==
    IF S = {} THEN Nothing
              ELSE (CHOOSE c \in S : \A d \in S \ {c} : Before(c, d)).n

Entry(n) == CHOOSE c \in callbacks : c.n = n

\* the iterator incremented
Successor(n) == FirstIn({c \in callbacks : Before(Entry(n), c)})

\* lower_bound and upper_bound of a key
FirstOf(key) == FirstIn({c \in callbacks : ~ Precedes(c.key, key)})
EndOf(key) == FirstIn({c \in callbacks : Precedes(key, c.key)})

-----------------------------------------------------------------------------
(* The application: between two answers, and in a function that is called   *)

cache(jid, node, kind) ==
    LET n == calls + 1
        key == <<jid, node>>
    IN  /\ fault = "no"
        /\ loop # Idle => loop.calling
        /\ calls < MaxCalls
        /\ calls' = n
        /\ callbacks' = callbacks \cup {[key |-> key, n |-> n]}
        /\ requests' = requests \cup
                          {[n |-> n, to |-> jid, node |-> node, kind |-> kind]}
        /\ nested' = IF loop = Idle THEN nested ELSE nested \cup {n}
        /\ shared' = IF \/ \E c \in callbacks : c.key[1] = jid
                        \/ \E r \in requests : r.to = jid
                     THEN shared \cup {jid} ELSE shared
        /\ UNCHANGED <<heap, items, loop, allocated, told, forgotten, erased,
                       selfListed, fault>>

clear ==
    /\ fault = "no" /\ loop = Idle
    /\ heap' = [i \in DOMAIN heap \ items |-> heap[i]]
    /\ items' = {}
    /\ selfListed' = {}
    /\ UNCHANGED <<callbacks, requests, loop, calls, allocated, told, nested,
                   shared, forgotten, erased, fault>>

erase(i) ==
    /\ fault = "no" /\ loop = Idle
    /\ i \in items /\ Cardinality(erased) < MaxErased
    /\ heap' = [k \in DOMAIN heap \ {i} |-> heap[k]]
    /\ items' = items \ {i}
    /\ erased' = erased \cup {i}
    /\ UNCHANGED <<callbacks, requests, loop, calls, allocated, told, nested,
                   shared, forgotten, selfListed, fault>>

-----------------------------------------------------------------------------
(* The answers.  "h" is a heap with its map, its counter, the item that is  *)
(* at hand and the items listed for it so far.                              *)

Heap == [at |-> heap, map |-> items, next |-> allocated + 1, item |-> Nothing,
         listed |-> {}]

\* The items of a JID in the map.  Items are put into the map in the order of
\* their numbers and stay in it in that order: find() returns the first.
OfJID(h, jid) == {i \in h.map : h.at[i].jid = jid}
First(is) == CHOOSE i \in is : \A k \in is : i <= k

\* A new item in the map
NewItem(h, jid, node, children) ==
    [h EXCEPT !.at = [i \in DOMAIN @ \cup {h.next} |->
                         IF i = h.next
                         THEN [jid |-> jid, node |-> node, children |-> children]
                         ELSE @[i]],
              !.map = @ \cup {h.next},
              !.next = @ + 1]

List(h, i) == [h EXCEPT !.listed = @ \cup {i}]

NewChild(h, jid, node) == List(NewItem(h, jid, node, {}), h.next)

\* A child of an answer to disco#items: it is made if its JID is new.
ListItem(h, c) ==
    IF OfJID(h, c.jid) = {} THEN NewChild(h, c.jid, c.node) ELSE h

\* A child of an answer to browse is appended in any case (twice if it is made).
ListBrowsed(h, c) ==
    IF OfJID(h, c.jid) = {} THEN NewChild(h, c.jid, NoNode)
                            ELSE List(h, First(OfJID(h, c.jid)))

Listings ==
    UNION {[1 .. n -> [jid : JIDs, node : Nodes \cup {NoNode}]] :
              n \in 0 .. MaxListed}

\* appendChild() of what was listed to the item at hand, which is in the map
AppendListed(h) == [h EXCEPT !.at[h.item].children = @ \cup h.listed]

UseHeap(h) == heap' = h.at /\ items' = h.map /\ allocated' = h.next - 1

\* Mutant: the node is not part of the lookup
KeyWithoutNode(jid, item) == <<jid, NoNode>>

Key(jid, item) == <<jid, item.node>>

\* runCallbacks(): the signal signal_cache_updated is emitted first.
RunCallbacks(jid, i) ==
    loop' = [busy |-> TRUE, calling |-> TRUE, jid |-> jid, item |-> i,
             it |-> Nothing, last |-> Nothing]

Answers(r) ==
    /\ fault = "no" /\ loop = Idle
    /\ allocated + 1 + MaxListed <= MaxItems
    /\ r \in requests

\* The item that is at hand for an answer: a new one, or that of the node,
\* if there is one
Found(jid, node) ==
    LET there == OfJID(Heap, jid)
        same == {i \in there : heap[i].node = node}
    IN  IF there = {}
        THEN [NewItem(Heap, jid, node, {}) EXCEPT !.item = Heap.next]
        ELSE [Heap EXCEPT !.item = IF same = {} THEN Nothing ELSE First(same)]

\* discoInfoCB(), discoItemsCB(): a result of the JID that was asked
result(r) ==
    LET h == Found(r.to, r.node)
    IN  /\ Answers(r) /\ r.kind \in {"info", "items"}
        /\ requests' = requests \ {r}
        /\ IF h.item = Nothing
           THEN fault' = "null" /\ UNCHANGED <<heap, items, allocated, loop>>
           ELSE /\ \E listing \in IF r.kind = "items" THEN Listings ELSE {<<>>} :
                       UseHeap(AppendListed(FoldLeft(ListItem, h, listing)))
                /\ RunCallbacks(r.to, h.item)
                /\ UNCHANGED fault
        /\ UNCHANGED <<callbacks, calls, told, nested, shared, forgotten, erased,
                       selfListed>>

\* The same on an error: the JID is browsed, whichever node was asked.
refusal(r) ==
    /\ Answers(r) /\ r.kind \in {"info", "items"}
    /\ requests' = (requests \ {r}) \cup {[r EXCEPT !.kind = "browse"]}
    /\ forgotten' = IF r.node = NoNode THEN forgotten
                                       ELSE forgotten \cup {<<r.to, r.node>>}
    /\ UNCHANGED <<heap, items, callbacks, loop, calls, allocated, told, nested,
                   shared, erased, selfListed, fault>>

\* Mutant: the old item is deleted as well
TakenOutAndDeleted(h, jid) ==
    LET old == First(OfJID(h, jid))
    IN  IF OfJID(h, jid) = {} THEN h
        ELSE [h EXCEPT !.map = @ \ {old},
                       !.at = [i \in DOMAIN @ \ {old} |-> @[i]]]

\* find() and erase() of the map: the item itself is not deleted.
TakenOut(h, jid) ==
    IF OfJID(h, jid) = {} THEN h
    ELSE [h EXCEPT !.map = @ \ {First(OfJID(h, jid))}]

\* browseCB() on an element of this JID with these children, which may be of
\* the same JID.  The item is looked at by nobody before it is in the map, and
\* has its number then.
Browse(jid, listing) ==
    LET h == FoldLeft(ListBrowsed, TakenOut(Heap, jid), listing)
    IN  /\ UseHeap(NewItem(h, jid, NoNode, h.listed))
        /\ selfListed' = IF \E c \in ToSet(listing) : c.jid = jid
                         THEN selfListed \cup {jid} ELSE selfListed
        /\ RunCallbacks(jid, h.next)

browsed(r) ==
    /\ Answers(r) /\ r.kind = "browse"
    /\ requests' = requests \ {r}
    /\ \E listing \in Listings : Browse(r.to, listing)
    /\ UNCHANGED <<callbacks, calls, told, nested, shared, forgotten, erased, fault>>

\* An error to browse as well: its elements have no JID, and so has the item.
\* An answer without elements is not looked at.
browseRefused(r) ==
    /\ Answers(r) /\ r.kind = "browse"
    /\ requests' = requests \ {r}
    /\ \/ Browse(NoJID, <<>>)
       \/ UNCHANGED <<heap, items, allocated, loop>>
    /\ forgotten' = forgotten \cup {<<r.to, NoNode>>}
    /\ UNCHANGED <<callbacks, calls, told, nested, shared, erased, selfListed,
                   fault>>

-----------------------------------------------------------------------------
(* The loop of runCallbacks()                                               *)

\* The signal has been emitted: the loop begins, if anything is registered.
beginLoop ==
    /\ fault = "no" /\ loop # Idle /\ loop.calling /\ loop.it = Nothing
    /\ LET key == Key(loop.jid, heap[loop.item])
       IN  loop' = IF \E c \in callbacks : c.key = key
                   THEN [loop EXCEPT !.calling = FALSE,
                                     !.it = FirstOf(key), !.last = EndOf(key)]
                   ELSE Idle
    /\ UNCHANGED <<heap, items, callbacks, requests, calls, allocated, told,
                   nested, shared, forgotten, erased, selfListed, fault>>

call ==
    /\ fault = "no" /\ loop # Idle /\ ~ loop.calling /\ loop.it # loop.last
    /\ loop' = [loop EXCEPT !.calling = TRUE]
    /\ told' = told \cup
                  {[n |-> loop.it, key |-> Entry(loop.it).key,
                    first |-> \A t \in told : t.n # loop.it,
                    own |-> /\ heap[loop.item].jid = Entry(loop.it).key[1]
                            /\ heap[loop.item].node = Entry(loop.it).key[2],
                    answered |-> \A r \in requests : r.n # loop.it]}
    /\ UNCHANGED <<heap, items, callbacks, requests, calls, allocated, nested,
                   shared, forgotten, erased, selfListed, fault>>

\* Mutant: the loop ends with the first function
returnsOnce ==
    /\ fault = "no" /\ loop # Idle /\ loop.calling /\ loop.it # Nothing
    /\ callbacks' = {c \in callbacks : c.n # loop.it}
    /\ loop' = Idle
    /\ UNCHANGED <<heap, items, requests, calls, allocated, told, nested, shared,
                   forgotten, erased, selfListed, fault>>

\* The node is erased and then its iterator incremented.  The memory may
\* still hold what it held, and the loop goes on; or it may not.
returns ==
    /\ fault = "no" /\ loop # Idle /\ loop.calling /\ loop.it # Nothing
    /\ callbacks' = {c \in callbacks : c.n # loop.it}
    /\ \/ loop' = [loop EXCEPT !.calling = FALSE, !.it = Successor(loop.it)]
          /\ UNCHANGED fault
       \/ fault' = "freed" /\ UNCHANGED loop
    /\ UNCHANGED <<heap, items, requests, calls, allocated, told, nested, shared,
                   forgotten, erased, selfListed>>

endCallbacks ==
    /\ fault = "no" /\ loop # Idle /\ ~ loop.calling /\ loop.it = loop.last
    /\ loop' = Idle
    /\ UNCHANGED <<heap, items, callbacks, requests, calls, allocated, told,
                   nested, shared, forgotten, erased, selfListed, fault>>

\* The stream ends: what was asked on it is not answered any more.
lose ==
    /\ loop = Idle
    /\ requests' = {}
    /\ forgotten' = forgotten \cup {<<r.to, r.node>> : r \in requests}
    /\ UNCHANGED <<heap, items, callbacks, loop, calls, allocated, told, nested,
                   shared, erased, selfListed, fault>>

Init ==
    /\ heap = <<>> /\ items = {} /\ callbacks = {} /\ requests = {}
    /\ loop = Idle
    /\ calls = 0 /\ allocated = 0
    /\ told = {}
    /\ nested = {} /\ shared = {} /\ forgotten = {} /\ erased = {}
    /\ selfListed = {}
    /\ fault = "no"

Next ==
    \/ \E j \in JIDs, k \in Nodes \cup {NoNode}, kind \in {"info", "items"} :
          cache(j, k, kind)
    \/ clear
    \/ \E i \in 1 .. MaxItems : erase(i)
    \/ \E r \in requests :
          result(r) \/ refusal(r) \/ browsed(r) \/ browseRefused(r)
    \/ beginLoop
    \/ call
    \/ returns
    \/ endCallbacks

Spec == Init /\ [][Next]_discoVars

-----------------------------------------------------------------------------
(***************************************************************************)
(* What the map lists is allocated, and so is the item that functions are   *)
(* called with.                                                             *)
(***************************************************************************)
DiscoTypeOK ==
    /\ items \subseteq DOMAIN heap
    /\ DOMAIN heap \subseteq 1 .. allocated
    /\ \A c, d \in callbacks : c.n = d.n => c = d
    /\ loop # Idle => loop.item \in DOMAIN heap
    /\ fault \in {"no", "null", "freed"}

\* Items with all that can be reached from them: none leads to another
Closed(is) == \A i \in is \cap DOMAIN heap : heap[i].children \subseteq is

(***************************************************************************)
(* Whatever is queried again, browsed or cleared, following the children of *)
(* an item of the cache never leads to an item that was deleted, unless the *)
(* application erased it with erase().  That browseCB() does not delete the *)
(* item it replaces is what keeps this true.                                *)
(***************************************************************************)
ChildrenAlive ==
    \E is \in SUBSET (DOMAIN heap \cup erased) : items \subseteq is /\ Closed(is)

(***************************************************************************)
(* The cache holds one item of a JID: a copy in the cache is cleaned up and *)
(* the new one takes precedence (src/jabberoo-disco.cpp:421-422).  The code *)
(* breaks this when an answer to browse lists the JID that was asked: the   *)
(* child is put into the cache before its parent.                           *)
(***************************************************************************)
OneItemPerJID ==
    \A i, k \in items : heap[i].jid = heap[k].jid => i = k

(***************************************************************************)
(* What is left of it: there are two items of a JID only if it has listed   *)
(* itself, and never three.  The map is a multimap, and items are looked    *)
(* for by their node, but no answer for another node ever makes an item of  *)
(* its own, and what browsing puts in it has taken out before.              *)
(***************************************************************************)
FewItemsPerJID ==
    /\ \A i, k \in items :
          heap[i].jid = heap[k].jid => i = k \/ heap[i].jid \in selfListed
    /\ \A i, k, m \in items :
          heap[i].jid = heap[k].jid /\ heap[k].jid = heap[m].jid =>
              i = k \/ k = m \/ i = m

(***************************************************************************)
(* The cache is sound: its items are allocated, their children are alive,   *)
(* and there is one item of a JID that does not list itself.                *)
(***************************************************************************)
CacheInv == DiscoTypeOK /\ ChildrenAlive /\ FewItemsPerJID

(***************************************************************************)
(* A function is called once; with the item of the JID and node it was      *)
(* registered for, unless it was registered while that answer was handled;  *)
(* and when its own question is answered, unless the JID had been asked     *)
(* before and not answered: either answer calls all that wait.              *)
(***************************************************************************)
CalledForOwnAnswer ==
    \A t \in told :
        /\ t.first
        /\ t.own \/ t.n \in nested
        /\ t.answered \/ t.n \in nested \/ t.key[1] \in shared

(***************************************************************************)
(* No function is left behind: one that waits does so for a request of its  *)
(* own that is not answered yet, or the answer was lost with the stream, in *)
(* a fallback that forgets the node, or by an error in the fallback.        *)
(***************************************************************************)
NoneForgotten ==
    fault = "no" /\ loop = Idle =>
        \A c \in callbacks :
            c.key \in forgotten \/ \E r \in requests : r.n = c.n
=============================================================================
