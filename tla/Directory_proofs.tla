--------------------------- MODULE Directory_proofs ---------------------------
(***************************************************************************)
(* Proofs about the two parts of a directory, whatever happens on the       *)
(* session they share.                                                      *)
(*                                                                          *)
(* The agents: one is never listed twice, and one that cannot be fetched    *)
(* any more has lost its answer.                                            *)
(*                                                                          *)
(* The discovery cache: its items are alive and one of a JID, or two if it  *)
(* listed itself, the functions that wait in it are called once, for their  *)
(* own answer, and those that are not going to be were forgotten (DiscoInv).*)
(***************************************************************************)
EXTENDS Directory, FiniteSetTheorems, TLAPS

Listed == INSTANCE SequenceLemmas WITH Op <- ListItem
Browsed == INSTANCE SequenceLemmas WITH Op <- ListBrowsed

-----------------------------------------------------------------------------
(* The agents                                                               *)

\* An agent with a request open has its flag set and an empty list, and the
\* request is the only one: fetch() returns at once while either is so.
OpenOnce ==
    /\ fetches \subseteq Agent \X Nat
    /\ \A f, g \in fetches : f[1] = g[1] => f = g
    /\ \A f \in fetches : fetchrequested[f[1]] /\ loads[f[1]] = 0

AgentsTypeOK ==
    /\ fetchrequested \in [Agent -> BOOLEAN]
    /\ loads \in [Agent -> {0, 1}]
    /\ telling \in [Agent -> BOOLEAN]
    /\ fetched \in Nat

AgentsInv == AgentsTypeOK /\ OpenOnce /\ StuckByLossOnly

LEMMA AgentsInvInit == AgentsInit => AgentsInv
<1> SUFFICES ASSUME AgentsInit
             PROVE  AgentsInv
  OBVIOUS
<1>1. AgentsTypeOK
  BY DEF AgentsInit, AgentsTypeOK
<1>2. OpenOnce
  BY DEF AgentsInit, OpenOnce
<1>3. StuckByLossOnly
  BY DEF AgentsInit, StuckByLossOnly
<1> QED
  BY <1>1, <1>2, <1>3 DEF AgentsInv

LEMMA FetchKeeps ==
  ASSUME AgentsInv, NEW a \in Agent, fetch(a)
  PROVE  AgentsInv'
<1> USE DEF AgentsInv, fetch, empty
<1>1. AgentsTypeOK'
  BY DEF AgentsTypeOK
<1>2. OpenOnce'
  <2>1. \A f \in fetches : f[1] # a
    BY DEF OpenOnce
  <2>2. <<a, fetched>> \in Agent \X Nat
    BY DEF AgentsTypeOK
  <2> QED
    BY <2>1, <2>2 DEF OpenOnce, AgentsTypeOK
<1>3. StuckByLossOnly'
  <2> SUFFICES ASSUME NEW b \in Agent, empty(b)', fetchrequested'[b]
               PROVE  (\E f \in fetches' : f[1] = b) \/ b \in unanswered' \cup Garbled
    BY DEF StuckByLossOnly
  <2>1. CASE b = a
    <3>1. <<a, fetched>> \in fetches' /\ <<a, fetched>>[1] = a
      OBVIOUS
    <3> QED
      BY <2>1, <3>1
  <2>2. CASE b # a
    <3>1. empty(b) /\ fetchrequested[b]
      BY <2>2 DEF AgentsTypeOK
    <3> QED
      BY <3>1 DEF StuckByLossOnly
  <2> QED
    BY <2>1, <2>2
<1> QED
  BY <1>1, <1>2, <1>3

LEMMA OnFetchKeeps ==
  ASSUME AgentsInv, NEW f \in fetches, NEW k \in 0 .. 1,
         NEW reply \in {"result", "error", "no query"}, on_fetch(f, reply, k)
  PROVE  AgentsInv'
<1> USE DEF AgentsInv, on_fetch
<1>1. f[1] \in Agent /\ loads[f[1]] = 0 /\ \A g \in fetches' : g \in fetches /\ g[1] # f[1]
  BY DEF OpenOnce
<1>2. AgentsTypeOK'
  <2>1. (IF reply = "result" THEN loads[f[1]] + k ELSE loads[f[1]]) \in {0, 1}
    <3> HIDE DEF AgentsInv, on_fetch
    <3>1. CASE reply = "result"
      BY <1>1, <3>1
    <3>2. CASE reply # "result"
      BY <1>1, <3>2
    <3> QED
      BY <3>1, <3>2
  <2> QED
    BY <1>1, <2>1 DEF AgentsTypeOK
<1>3. OpenOnce'
  BY <1>1, <1>2 DEF OpenOnce, AgentsTypeOK
<1>4. StuckByLossOnly'
  <2> SUFFICES ASSUME NEW b \in Agent, empty(b)', fetchrequested'[b]
               PROVE  (\E g \in fetches' : g[1] = b) \/ b \in unanswered' \cup Garbled
    BY DEF StuckByLossOnly
  <2>1. b # f[1]
    BY <1>1 DEF AgentsTypeOK
  <2>2. empty(b) /\ fetchrequested[b]
    BY <2>1 DEF AgentsTypeOK, empty
  <2> QED
    BY <2>1, <2>2 DEF StuckByLossOnly
<1> QED
  BY <1>2, <1>3, <1>4

LEMMA LossKeeps == AgentsInv /\ loseFetches => AgentsInv'
<1> SUFFICES ASSUME AgentsInv, loseFetches
             PROVE  AgentsInv'
  OBVIOUS
<1> USE DEF AgentsInv, loseFetches
<1>1. AgentsTypeOK' /\ OpenOnce'
  BY DEF AgentsTypeOK, OpenOnce
<1>2. StuckByLossOnly'
  BY DEF StuckByLossOnly, empty
<1> QED
  BY <1>1, <1>2

LEMMA AgentsUnchanged == AgentsInv /\ UNCHANGED agentVars => AgentsInv'
BY DEF AgentsInv, AgentsTypeOK, OpenOnce, StuckByLossOnly, empty, agentVars

LEMMA AgentsStepKeeps == AgentsInv /\ AgentsNext => AgentsInv'
<1> SUFFICES ASSUME AgentsInv, AgentsNext
             PROVE  AgentsInv'
  OBVIOUS
<1>1. CASE \E a \in Agent : fetch(a)
  BY <1>1, FetchKeeps
<1>2. CASE \E a \in Agent : release(a)
  BY <1>2 DEF release, AgentsInv, AgentsTypeOK, OpenOnce, StuckByLossOnly, empty
<1>3. CASE \E f \in fetches, reply \in {"result", "error", "no query"}, k \in 0 .. 1 :
               on_fetch(f, reply, k)
  BY <1>3, OnFetchKeeps
<1> QED
  BY <1>1, <1>2, <1>3 DEF AgentsNext

LEMMA DirectoryKeepsAgents == DirSpec => []AgentsInv
<1>1. DirInit => AgentsInv
  BY AgentsInvInit DEF DirInit
<1>2. AgentsInv /\ [DirNext]_dirVars => AgentsInv'
  <2> SUFFICES ASSUME AgentsInv, [DirNext]_dirVars
               PROVE  AgentsInv'
    OBVIOUS
  <2>1. CASE DiscoStep
    BY <2>1, AgentsUnchanged DEF DiscoStep
  <2>2. CASE AgentStep
    BY <2>2, AgentsStepKeeps DEF AgentStep
  <2>3. CASE StreamEnds
    BY <2>3, LossKeeps DEF StreamEnds
  <2>4. CASE UNCHANGED dirVars
    BY <2>4, AgentsUnchanged DEF dirVars
  <2> QED
    BY <2>1, <2>2, <2>3, <2>4 DEF DirNext
<1> QED
  BY <1>1, <1>2, PTL DEF DirSpec

LEMMA OpenOnceCounts == AgentsInv => LoadedOnce
<1> SUFFICES ASSUME AgentsInv, NEW a \in Agent
             PROVE  /\ Cardinality({f \in fetches : f[1] = a}) <= 1
                    /\ loads[a] <= 1
                    /\ loads[a] = 1 => \A f \in fetches : f[1] # a
  BY DEF LoadedOnce
<1>1. Cardinality({f \in fetches : f[1] = a}) <= 1
  <2>1. CASE {f \in fetches : f[1] = a} = {}
    <3>1. Cardinality({f \in fetches : f[1] = a}) = 0
      BY <2>1, FS_EmptySet
    <3> QED
      BY <3>1
  <2>2. CASE \E f \in fetches : f[1] = a
    <3>1. PICK f \in fetches : f[1] = a
      BY <2>2
    <3>2. {g \in fetches : g[1] = a} = {f}
      BY <3>1 DEF AgentsInv, OpenOnce
    <3>3. Cardinality({g \in fetches : g[1] = a}) = 1
      BY <3>2, FS_Singleton
    <3> QED
      BY <3>3
  <2> QED
    BY <2>1, <2>2
<1>2. loads[a] <= 1
  BY DEF AgentsInv, AgentsTypeOK
<1>3. loads[a] = 1 => \A f \in fetches : f[1] # a
  BY DEF AgentsInv, OpenOnce
<1> QED
  BY <1>1, <1>2, <1>3

(***************************************************************************)
(* However often fetch() is called, by whomever and in whatever order the   *)
(* answers of the discovery cache come and streams end between them: an     *)
(* agent has one request open at most and fills its list once.              *)
(***************************************************************************)
THEOREM AgentsLoadedOnce == DirSpec => []LoadedOnce
BY DirectoryKeepsAgents, OpenOnceCounts, PTL

(***************************************************************************)
(* An agent that fetch() does not ask again and whose list is empty waits   *)
(* for an answer, has lost it with a stream, or is a copy whose flag was    *)
(* never set.                                                               *)
(***************************************************************************)
THEOREM AgentsStuckByLossOnly == DirSpec => []StuckByLossOnly
BY DirectoryKeepsAgents, PTL DEF AgentsInv

-----------------------------------------------------------------------------
(* The invariant of the cache                                               *)

\* A heap with its map, and what is listed, which is in the map
Shaped(h) ==
    /\ h = [at |-> h.at, map |-> h.map, next |-> h.next, item |-> h.item,
            listed |-> h.listed]
    /\ h.at = [i \in DOMAIN h.at |-> h.at[i]]
    /\ h.next \in Nat \ {0}
    /\ DOMAIN h.at \subseteq 1 .. h.next - 1
    /\ h.map \subseteq DOMAIN h.at
    /\ h.listed \subseteq h.map
    /\ \A i \in DOMAIN h.at :
          h.at[i] = [jid |-> h.at[i].jid, node |-> h.at[i].node,
                     children |-> h.at[i].children]

\* One item of a JID, or two of one of D
Few(h, D) ==
    /\ \A i, k \in h.map :
          h.at[i].jid = h.at[k].jid => i = k \/ h.at[i].jid \in D
    /\ \A i, k, m \in h.map :
          h.at[i].jid = h.at[k].jid /\ h.at[k].jid = h.at[m].jid =>
              i = k \/ k = m \/ i = m

\* None of these items leads to another that is not among them.
Leads(at, is) == \A i \in is \cap DOMAIN at : at[i].children \subseteq is

\* The map is among such items, which are allocated but for those of E (the
\* ones that were erased).
Live(h, E) ==
    \E is : is \subseteq DOMAIN h.at \cup E /\ h.map \subseteq is /\ Leads(h.at, is)

Sound(h, D, E) == Shaped(h) /\ Few(h, D) /\ Live(h, E)

HeapInv == allocated \in Nat /\ Sound(Heap, selfListed, erased)

-----------------------------------------------------------------------------
(* The functions that wait, their requests and the loop                     *)

Keys == JIDs \X (Nodes \cup {NoNode})
Entries == [key : Keys, n : Nat \ {0}]
Kinds == {"info", "items", "browse"}
Requests == [n : Nat \ {0}, to : JIDs, node : Nodes \cup {NoNode}, kind : Kinds]
Loops == [busy : {TRUE}, calling : BOOLEAN, jid : JIDs \cup {NoJID},
          item : Nat, it : Nat, last : Nat]

QuestionsOK ==
    /\ calls \in Nat
    /\ callbacks \in SUBSET Entries
    /\ requests \in SUBSET Requests
    /\ \A c \in callbacks : c.n <= calls
    /\ \A r \in requests : r.n <= calls
    /\ \A t \in told : t.n \in Nat /\ t.n <= calls
    /\ \A c, d \in callbacks : c.n = d.n => c = d
    /\ \A r, s \in requests : r.n = s.n => r = s

\* A request is that of the function of its number; ...
Own ==
    \A r \in requests, c \in callbacks : r.n = c.n => c.key = <<r.to, r.node>>

\* ... browsing forgets the node; ...
BrowsingForgets ==
    \A r \in requests :
        r.kind = "browse" => r.node = NoNode \/ <<r.to, r.node>> \in forgotten

\* ... and two to a JID make it shared.
TwoShare ==
    \A r, s \in requests : r.to = s.to => r = s \/ r.to \in shared

\* The functions that have been called are gone, but for the one at hand.
ToldAreGone ==
    \A t \in told, c \in callbacks :
        t.n = c.n => loop # Idle /\ loop.calling /\ loop.it = c.n

LoopKey == <<loop.jid, heap[loop.item].node>>
Signals == loop.calling /\ loop.it = Nothing

\* The loop will stop behind this entry; ...
Short(c) == \A e \in callbacks : e.n = loop.last => Before(c, e)

\* ... it is yet to come to it.
Due(c) ==
    /\ Short(c)
    /\ loop.it # loop.last
    /\ \E e \in callbacks : e.n = loop.it /\ (c = e \/ Before(e, c))

LoopOK ==
    loop # Idle =>
        /\ loop \in Loops
        /\ loop.item \in DOMAIN heap
        /\ heap[loop.item].jid = loop.jid
        /\ LoopKey \in Nat \X Nat
        /\ loop.calling => loop.it = Nothing \/ loop.it # loop.last
        /\ loop.last # Nothing => \E e \in callbacks : e.n = loop.last
        /\ loop.it = Nothing => loop.last = Nothing
        /\ loop.it # loop.last => \E e \in callbacks : e.n = loop.it /\ Short(e)

\* Between its iterators are the functions of its key, and nested ones.
InRange ==
    loop # Idle =>
        \A c \in callbacks : Due(c) => c.key = LoopKey \/ c.n \in nested

\* The functions of the JID that had one request are those of the answer.
Answered ==
    loop # Idle =>
        \A c \in callbacks :
            c.key[1] = loop.jid =>
                \/ c.n \in nested
                \/ loop.jid \in shared
                \/ \A r \in requests : r.n # c.n

\* Whoever waits does so for an answer, or for the loop, or was forgotten.
Waits ==
    \A c \in callbacks :
        \/ c.key \in forgotten
        \/ \E r \in requests : r.n = c.n
        \/ loop # Idle /\ c.key = LoopKey /\ (Signals \/ Due(c))

LoopItem == loop # Idle => loop.item \in DOMAIN heap

LoopInv ==
    /\ Own /\ BrowsingForgets /\ TwoShare
    /\ ToldAreGone
    /\ LoopOK /\ InRange /\ Answered /\ Waits

DiscoInv ==
    /\ HeapInv
    /\ LoopItem
    /\ fault \in {"no", "null", "freed"}
    /\ QuestionsOK
    /\ CalledForOwnAnswer
    /\ fault = "no" => LoopInv

-----------------------------------------------------------------------------
(* What the steps of a handler do to the heap                               *)

NotListed(h, jid) == \A k \in h.map : h.at[k].jid # jid
AtMostOne(h, jid) ==
    \A i, k \in h.map : h.at[i].jid = jid /\ h.at[k].jid = jid => i = k

\* There may be one more item of this JID.
Free(h, jid, D) == NotListed(h, jid) \/ (jid \in D /\ AtMostOne(h, jid))

LEMMA NewItemIs ==
  ASSUME NEW h, Shaped(h), NEW jid, NEW node, NEW cs
  PROVE  LET g == NewItem(h, jid, node, cs)
         IN  /\ Shaped(g)
             /\ g.map = h.map \cup {h.next}
             /\ g.next = h.next + 1 /\ g.item = h.item /\ g.listed = h.listed
             /\ h.next # Nothing /\ h.next \notin DOMAIN h.at
             /\ DOMAIN g.at = DOMAIN h.at \cup {h.next}
             /\ g.at[h.next] = [jid |-> jid, node |-> node, children |-> cs]
             /\ \A i \in DOMAIN h.at : g.at[i] = h.at[i]
<1> DEFINE at == [i \in DOMAIN h.at \cup {h.next} |->
                     IF i = h.next
                     THEN [jid |-> jid, node |-> node, children |-> cs]
                     ELSE h.at[i]]
           g == NewItem(h, jid, node, cs)
<1>0. h \in [at : {h.at}, map : {h.map}, next : {h.next}, item : {h.item},
             listed : {h.listed}]
  BY DEF Shaped
<1>1. g = [at |-> at, map |-> h.map \cup {h.next}, next |-> h.next + 1,
           item |-> h.item, listed |-> h.listed]
  <2>1. g = [h EXCEPT !.at = at, !.map = @ \cup {h.next}, !.next = @ + 1]
    BY DEF NewItem
  <2> HIDE DEF at, g
  <2> QED
    BY <1>0, <2>1
<1>2. h.next \in Nat \ {0} /\ h.next \notin DOMAIN h.at
  BY DEF Shaped
<1>3. \A i \in DOMAIN h.at : at[i] = h.at[i]
  BY <1>2
<1>4. /\ DOMAIN at = DOMAIN h.at \cup {h.next}
      /\ at[h.next] = [jid |-> jid, node |-> node, children |-> cs]
      /\ at = [i \in DOMAIN at |-> at[i]]
  OBVIOUS
<1> HIDE DEF at, g
<1>5. DOMAIN at \subseteq 1 .. (h.next + 1) - 1
  BY <1>2, <1>4 DEF Shaped
<1>6. Shaped(g)
  BY <1>1, <1>2, <1>3, <1>4, <1>5 DEF Shaped
<1> QED
  BY <1>1, <1>2, <1>3, <1>4, <1>6 DEF g, Nothing

\* An item may be made whose JID has none, or one if it listed itself, and
\* whose children are in the map.
LEMMA NewItemKeeps ==
  ASSUME NEW h, NEW D, NEW E, Sound(h, D, E), NEW jid, NEW node,
         NEW cs \in SUBSET h.map, Free(h, jid, D)
  PROVE  LET g == NewItem(h, jid, node, cs)
         IN  /\ Sound(g, D, E)
             /\ g.map = h.map \cup {h.next}
             /\ g.item = h.item /\ g.listed = h.listed
             /\ h.next # Nothing /\ h.next \notin DOMAIN h.at
             /\ g.at[h.next] = [jid |-> jid, node |-> node, children |-> cs]
             /\ \A i \in DOMAIN h.at : g.at[i] = h.at[i]
<1> DEFINE g == NewItem(h, jid, node, cs)
<1>1. /\ Shaped(g)
      /\ g.map = h.map \cup {h.next}
      /\ g.item = h.item /\ g.listed = h.listed
      /\ h.next # Nothing /\ h.next \notin DOMAIN h.at
      /\ DOMAIN g.at = DOMAIN h.at \cup {h.next}
      /\ g.at[h.next] = [jid |-> jid, node |-> node, children |-> cs]
      /\ \A i \in DOMAIN h.at : g.at[i] = h.at[i]
  BY NewItemIs DEF Sound
<1> HIDE DEF g
<1>2. h.map \subseteq DOMAIN h.at
  BY DEF Sound, Shaped
<1>3. g.at[h.next].jid = jid /\ \A i \in h.map : g.at[i].jid = h.at[i].jid
  BY <1>1, <1>2
<1>4. Few(g, D)
  <2>1. CASE NotListed(h, jid)
    <3>1. ASSUME NEW i \in g.map, NEW k \in g.map, g.at[i].jid = g.at[k].jid, i # k
          PROVE  i \in h.map /\ k \in h.map
      BY <2>1, <3>1, <1>1, <1>3 DEF NotListed
    <3> QED
      BY <3>1, <1>3 DEF Sound, Few
  <2>2. CASE jid \in D /\ AtMostOne(h, jid)
    <3>1. ASSUME NEW i \in g.map, NEW k \in g.map, g.at[i].jid = g.at[k].jid, i # k
          PROVE  g.at[i].jid \in D
      BY <2>2, <3>1, <1>1, <1>3 DEF Sound, Few
    <3>2. ASSUME NEW i \in g.map, NEW k \in g.map, NEW m \in g.map,
                 g.at[i].jid = g.at[k].jid, g.at[k].jid = g.at[m].jid,
                 i # k, k # m, i # m
          PROVE  FALSE
      <4>1. CASE i \in h.map /\ k \in h.map /\ m \in h.map
        BY <3>2, <4>1, <1>3 DEF Sound, Few
      <4>2. CASE i = h.next \/ k = h.next \/ m = h.next
        BY <2>2, <3>2, <4>2, <1>1, <1>3 DEF AtMostOne
      <4> QED
        BY <4>1, <4>2, <1>1
    <3> QED
      BY <3>1, <3>2 DEF Few
  <2> QED
    BY <2>1, <2>2 DEF Free
<1>5. Live(g, E)
  <2>1. PICK is : /\ is \subseteq DOMAIN h.at \cup E
                  /\ h.map \subseteq is
                  /\ Leads(h.at, is)
    BY DEF Sound, Live
  <2> DEFINE js == is \cup {h.next}
  <2>2. Leads(g.at, js)
    <3> SUFFICES ASSUME NEW m \in js \cap DOMAIN g.at
                 PROVE  g.at[m].children \subseteq js
      BY DEF Leads
    <3>1. CASE m = h.next
      BY <3>1, <1>1, <2>1
    <3>2. CASE m # h.next
      BY <3>2, <1>1, <2>1 DEF Leads
    <3> QED
      BY <3>1, <3>2
  <2>3. js \subseteq DOMAIN g.at \cup E /\ g.map \subseteq js
    BY <2>1, <1>1
  <2> QED
    BY <2>2, <2>3 DEF Live
<1> QED
  BY <1>1, <1>4, <1>5 DEF Sound, g

LEMMA ListedKeeps ==
  ASSUME NEW h, NEW D, NEW E, Sound(h, D, E), NEW k \in h.map
  PROVE  LET g == List(h, k)
         IN  /\ Sound(g, D, E)
             /\ g.at = h.at /\ g.map = h.map /\ g.item = h.item
<1> DEFINE g == List(h, k)
<1>0. h \in [at : {h.at}, map : {h.map}, next : {h.next}, item : {h.item},
             listed : {h.listed}]
  BY DEF Sound, Shaped
<1>1. g = [at |-> h.at, map |-> h.map, next |-> h.next, item |-> h.item,
           listed |-> h.listed \cup {k}]
  BY <1>0 DEF List
<1> HIDE DEF g
<1>2. Shaped(g)
  BY <1>1 DEF Sound, Shaped
<1>3. Few(g, D) /\ Live(g, E)
  BY <1>1 DEF Sound, Few, Live
<1> QED
  BY <1>1, <1>2, <1>3 DEF Sound, g

LEMMA NewChildKeeps ==
  ASSUME NEW h, NEW D, NEW E, Sound(h, D, E), NEW j, NEW n, OfJID(h, j) = {}
  PROVE  LET g == NewChild(h, j, n)
         IN  /\ Sound(g, D, E)
             /\ g.map = h.map \cup {h.next} /\ g.item = h.item
             /\ h.next \notin DOMAIN h.at
             /\ g.at[h.next].jid = j
             /\ \A i \in DOMAIN h.at : g.at[i] = h.at[i]
<1> DEFINE f == NewItem(h, j, n, {})
           g == NewChild(h, j, n)
<1>1. Free(h, j, D)
  BY DEF Free, NotListed, OfJID
<1>2. /\ Sound(f, D, E)
      /\ f.map = h.map \cup {h.next} /\ f.item = h.item
      /\ h.next \notin DOMAIN h.at
      /\ f.at[h.next] = [jid |-> j, node |-> n, children |-> {}]
      /\ \A i \in DOMAIN h.at : f.at[i] = h.at[i]
  BY <1>1, NewItemKeeps
<1>3. g = List(f, h.next)
  BY DEF NewChild
<1> HIDE DEF f, g
<1>4. Sound(g, D, E) /\ g.at = f.at /\ g.map = f.map /\ g.item = f.item
  BY <1>2, <1>3, ListedKeeps
<1> QED
  BY <1>2, <1>4 DEF g

LEMMA FirstOfSome ==
  ASSUME NEW S \in SUBSET Nat, S # {}
  PROVE  First(S) \in S
<1>1. \E i \in S : \A k \in S : i <= k
  BY Listed!LeastNatural
<1> QED
  BY <1>1 DEF First

LEMMA FirstOfJID ==
  ASSUME NEW h, Shaped(h), NEW jid, OfJID(h, jid) # {}
  PROVE  First(OfJID(h, jid)) \in h.map /\ h.at[First(OfJID(h, jid))].jid = jid
<1>1. h.map \subseteq Nat
  BY DEF Shaped
<1>2. OfJID(h, jid) \in SUBSET Nat
  BY <1>1 DEF OfJID
<1>3. First(OfJID(h, jid)) \in OfJID(h, jid)
  BY <1>2, FirstOfSome
<1> QED
  BY <1>3 DEF OfJID

-----------------------------------------------------------------------------
(* What the answers do to the heap                                          *)

\* The item at hand, while an answer to disco is handled
AtHand(h, i, jid, node, D, E) ==
    /\ Sound(h, D, E)
    /\ h.item = i /\ i \in h.map
    /\ h.at[i].jid = jid /\ h.at[i].node = node

LEMMA ListItemKeeps ==
  ASSUME NEW h, NEW i, NEW jid, NEW node, NEW D, NEW E,
         AtHand(h, i, jid, node, D, E), NEW c
  PROVE  AtHand(ListItem(h, c), i, jid, node, D, E)
<1>1. CASE OfJID(h, c.jid) = {}
  <2> DEFINE g == NewChild(h, c.jid, c.node)
  <2>1. /\ Sound(g, D, E)
        /\ g.map = h.map \cup {h.next} /\ g.item = h.item
        /\ \A k \in DOMAIN h.at : g.at[k] = h.at[k]
    BY <1>1, NewChildKeeps DEF AtHand
  <2>2. ListItem(h, c) = g
    BY <1>1 DEF ListItem
  <2> HIDE DEF g
  <2>3. i \in DOMAIN h.at
    BY DEF AtHand, Sound, Shaped
  <2> QED
    BY <2>1, <2>2, <2>3 DEF AtHand
<1>2. CASE OfJID(h, c.jid) # {}
  BY <1>2 DEF ListItem
<1> QED
  BY <1>1, <1>2

\* While an answer to browse is handled: one item at most is of the JID that
\* was asked, and none unless that JID has listed itself.
Browsing(h, jid, D, E) ==
    /\ Sound(h, D, E)
    /\ AtMostOne(h, jid)
    /\ jid \notin D => NotListed(h, jid)

LEMMA ListBrowsedKeeps ==
  ASSUME NEW h, NEW jid, NEW D, NEW E, Browsing(h, jid, D, E),
         NEW c, c.jid # jid \/ jid \in D
  PROVE  Browsing(ListBrowsed(h, c), jid, D, E)
<1>0. h.map \subseteq DOMAIN h.at
  BY DEF Browsing, Sound, Shaped
<1>1. CASE OfJID(h, c.jid) = {}
  <2> DEFINE g == NewChild(h, c.jid, NoNode)
  <2>1. /\ Sound(g, D, E)
        /\ g.map = h.map \cup {h.next}
        /\ g.at[h.next].jid = c.jid
        /\ \A i \in DOMAIN h.at : g.at[i] = h.at[i]
    BY <1>1, NewChildKeeps DEF Browsing
  <2>2. ListBrowsed(h, c) = g
    BY <1>1 DEF ListBrowsed
  <2> HIDE DEF g
  <2>3. \A i \in h.map : g.at[i].jid = h.at[i].jid /\ h.at[i].jid # c.jid
    BY <1>0, <1>1, <2>1 DEF OfJID
  <2>4. AtMostOne(g, jid)
    BY <2>1, <2>3 DEF Browsing, AtMostOne
  <2>5. jid \notin D => NotListed(g, jid)
    BY <2>1, <2>3 DEF Browsing, NotListed
  <2> QED
    BY <2>1, <2>2, <2>4, <2>5 DEF Browsing
<1>2. CASE OfJID(h, c.jid) # {}
  <2> DEFINE k == First(OfJID(h, c.jid))
  <2>1. k \in h.map
    BY <1>2, FirstOfJID DEF Browsing, Sound
  <2>2. ListBrowsed(h, c) = List(h, k)
    BY <1>2 DEF ListBrowsed
  <2> HIDE DEF k
  <2>3. Sound(List(h, k), D, E) /\ List(h, k).at = h.at /\ List(h, k).map = h.map
    BY <2>1, ListedKeeps DEF Browsing
  <2> QED
    BY <2>2, <2>3 DEF Browsing, AtMostOne, NotListed
<1> QED
  BY <1>1, <1>2

Children == [jid : JIDs, node : Nodes \cup {NoNode}]

LEMMA ListingsAreSequences == Listings \subseteq Seq(Children)
<1> SUFFICES ASSUME NEW q \in Listings
             PROVE  q \in Seq(Children)
  OBVIOUS
<1>1. PICK n \in 0 .. MaxListed : q \in [1 .. n -> Children]
  BY DEF Listings, Children
<1>2. n \in Nat
  BY <1>1, DiscoAssumption
<1> QED
  BY <1>1, <1>2, Listed!SeqDef

LEMMA ListKeeps ==
  ASSUME NEW h, NEW i, NEW jid, NEW node, NEW D, NEW E,
         AtHand(h, i, jid, node, D, E), NEW S, NEW q \in Seq(S)
  PROVE  AtHand(FoldLeft(ListItem, h, q), i, jid, node, D, E)
<1> DEFINE T == {g \in Listed!Folds(h, S) : AtHand(g, i, jid, node, D, E)}
<1>1. h \in T
  BY Listed!FoldsAreClosed
<1>2. \A g \in T, c \in S : ListItem(g, c) \in T
  BY Listed!FoldsAreClosed, ListItemKeeps
<1> HIDE DEF T
<1>3. FoldLeft(ListItem, h, q) \in T
  BY <1>1, <1>2, Listed!FoldStays
  DEF Listed!Folded, FoldLeft, Listed!FoldLeft, MapThenFoldSet,
      Listed!MapThenFoldSet, Max, Listed!Max
<1> QED
  BY <1>3 DEF T

LEMMA BrowseKeeps ==
  ASSUME NEW h, NEW jid, NEW D, NEW E, Browsing(h, jid, D, E),
         NEW S, \A c \in S : c.jid # jid \/ jid \in D, NEW q \in Seq(S)
  PROVE  Browsing(FoldLeft(ListBrowsed, h, q), jid, D, E)
<1> DEFINE T == {g \in Browsed!Folds(h, S) : Browsing(g, jid, D, E)}
<1>1. h \in T
  BY Browsed!FoldsAreClosed
<1>2. \A g \in T, c \in S : ListBrowsed(g, c) \in T
  BY Browsed!FoldsAreClosed, ListBrowsedKeeps
<1> HIDE DEF T
<1>3. FoldLeft(ListBrowsed, h, q) \in T
  BY <1>1, <1>2, Browsed!FoldStays
  DEF Browsed!Folded, FoldLeft, Browsed!FoldLeft, MapThenFoldSet,
      Browsed!MapThenFoldSet, Max, Browsed!Max
<1> QED
  BY <1>3 DEF T

LEMMA AppendListedKeeps ==
  ASSUME NEW h, NEW i, NEW jid, NEW node, NEW D, NEW E,
         AtHand(h, i, jid, node, D, E)
  PROVE  AtHand(AppendListed(h), i, jid, node, D, E)
<1> DEFINE at == [h.at EXCEPT ![h.item].children = @ \cup h.listed]
           g == AppendListed(h)
<1>0. h \in [at : {h.at}, map : {h.map}, next : {h.next}, item : {h.item},
             listed : {h.listed}]
  BY DEF AtHand, Sound, Shaped
<1>1. g = [at |-> at, map |-> h.map, next |-> h.next, item |-> h.item,
           listed |-> h.listed]
  BY <1>0 DEF AppendListed
<1>2. /\ h.item \in DOMAIN h.at /\ h.map \subseteq DOMAIN h.at
      /\ h.listed \subseteq h.map
  BY DEF AtHand, Sound, Shaped
<1>3. DOMAIN at = DOMAIN h.at /\ at = [k \in DOMAIN at |-> at[k]]
  BY DEF AtHand, Sound, Shaped
<1>4. at[h.item] = [jid |-> h.at[h.item].jid, node |-> h.at[h.item].node,
                    children |-> h.at[h.item].children \cup h.listed]
  <2>1. h.at[h.item] = [jid |-> h.at[h.item].jid, node |-> h.at[h.item].node,
                        children |-> h.at[h.item].children]
    BY <1>2 DEF AtHand, Sound, Shaped
  <2>2. at[h.item] = [h.at[h.item] EXCEPT !.children = @ \cup h.listed]
    BY <1>2
  <2> QED
    BY <2>1, <2>2
<1>5. \A k \in DOMAIN h.at : k # h.item => at[k] = h.at[k]
  OBVIOUS
<1> HIDE DEF at, g
<1>6. \A k \in DOMAIN h.at :
         /\ at[k].jid = h.at[k].jid
         /\ at[k].node = h.at[k].node
         /\ at[k].children \subseteq h.at[k].children \cup h.listed
         /\ at[k] = [jid |-> at[k].jid, node |-> at[k].node,
                     children |-> at[k].children]
  BY <1>4, <1>5 DEF AtHand, Sound, Shaped
<1>7. Shaped(g)
  BY <1>1, <1>3, <1>6 DEF AtHand, Sound, Shaped
<1>8. Few(g, D)
  <2>1. \A k \in h.map : g.at[k].jid = h.at[k].jid
    BY <1>1, <1>2, <1>6
  <2> QED
    BY <1>1, <2>1 DEF AtHand, Sound, Few
<1>9. Live(g, E)
  <2>1. PICK is : /\ is \subseteq DOMAIN h.at \cup E
                  /\ h.map \subseteq is
                  /\ Leads(h.at, is)
    BY DEF AtHand, Sound, Live
  <2>2. Leads(at, is)
    BY <1>2, <1>3, <1>6, <2>1 DEF Leads
  <2> QED
    BY <1>1, <1>3, <2>1, <2>2 DEF Live
<1>10. /\ g.item = i /\ i \in g.map
       /\ g.at[i].jid = jid /\ g.at[i].node = node
  BY <1>1, <1>2, <1>6 DEF AtHand
<1>11. AtHand(g, i, jid, node, D, E)
  BY <1>7, <1>8, <1>9, <1>10 DEF AtHand, Sound
<1> QED
  BY <1>11 DEF g

\* The loop as an answer of this JID and node leaves it
Begun(jid, node) ==
    \E i \in DOMAIN heap :
        /\ loop = [busy |-> TRUE, calling |-> TRUE, jid |-> jid, item |-> i,
                   it |-> Nothing, last |-> Nothing]
        /\ heap[i].jid = jid /\ heap[i].node = node

LEMMA UsedKeeps ==
  ASSUME NEW h, NEW i, NEW jid, NEW node, Sound(h, selfListed', erased),
         i \in h.map, h.at[i].jid = jid, h.at[i].node = node,
         UseHeap(h), RunCallbacks(jid, i), UNCHANGED erased
  PROVE  HeapInv' /\ Begun(jid, node)'
<1>1. Heap' = [at |-> h.at, map |-> h.map, next |-> (h.next - 1) + 1, item |-> Nothing,
               listed |-> {}]
  BY DEF Heap, UseHeap
<1>2. (h.next - 1) + 1 = h.next
  BY DEF Sound, Shaped
<1>3. Shaped(Heap')
  BY <1>1, <1>2 DEF Sound, Shaped
<1>4. Few(Heap', selfListed') /\ Live(Heap', erased')
  BY <1>1 DEF Sound, Few, Live
<1>5. Begun(jid, node)'
  BY DEF Sound, Shaped, UseHeap, RunCallbacks, Begun
<1>6. allocated' \in Nat
  BY DEF Sound, Shaped, UseHeap
<1> QED
  BY <1>3, <1>4, <1>5, <1>6 DEF HeapInv, Sound

LEMMA HeapIs ==
  /\ Heap.at = heap /\ Heap.map = items /\ Heap.next = allocated + 1
  /\ Heap.item = Nothing /\ Heap.listed = {}
  /\ Heap \in [at : {heap}, map : {items}, next : {allocated + 1}, item : {Nothing},
               listed : {{}}]
BY DEF Heap

\* The heap with another item at hand is as sound.
LEMMA HandedKeeps ==
  ASSUME NEW h, NEW i, NEW D, NEW E, Sound(h, D, E)
  PROVE  LET g == [h EXCEPT !.item = i]
         IN  Sound(g, D, E) /\ g.at = h.at /\ g.map = h.map /\ g.item = i
<1> DEFINE g == [h EXCEPT !.item = i]
<1>0. h \in [at : {h.at}, map : {h.map}, next : {h.next}, item : {h.item},
             listed : {h.listed}]
  BY DEF Sound, Shaped
<1>1. g = [at |-> h.at, map |-> h.map, next |-> h.next, item |-> i,
           listed |-> h.listed]
  BY <1>0
<1> HIDE DEF g
<1> QED
  BY <1>1 DEF Sound, Shaped, Few, Live, g

LEMMA FoundIsAtHand ==
  ASSUME HeapInv, NEW jid, NEW node, Found(jid, node).item # Nothing
  PROVE  LET h == Found(jid, node)
         IN  AtHand(h, h.item, jid, node, selfListed, erased)
<1> DEFINE there == OfJID(Heap, jid)
           same == {i \in there : heap[i].node = node}
<1>1. CASE there = {}
  <2> DEFINE f == NewItem(Heap, jid, node, {})
             i == Heap.next
  <2>1. Free(Heap, jid, selfListed)
    BY <1>1 DEF OfJID, Free, NotListed
  <2>2. /\ Sound(f, selfListed, erased)
        /\ i \in f.map
        /\ f.at[i] = [jid |-> jid, node |-> node, children |-> {}]
    BY <2>1, NewItemKeeps DEF HeapInv
  <2>3. Found(jid, node) = [f EXCEPT !.item = i]
    BY <1>1 DEF Found
  <2> HIDE DEF f, i
  <2> DEFINE g == [f EXCEPT !.item = i]
  <2>4. Sound(g, selfListed, erased) /\ g.at = f.at /\ g.map = f.map /\ g.item = i
    BY <2>2, HandedKeeps
  <2>5. Found(jid, node) = g
    BY <2>3
  <2> HIDE DEF g
  <2> QED
    BY <2>2, <2>4, <2>5 DEF AtHand
<1>2. CASE there # {}
  <2> DEFINE i == IF same = {} THEN Nothing ELSE First(same)
  <2>1. Found(jid, node) = [Heap EXCEPT !.item = i]
    BY <1>2 DEF Found
  <2> DEFINE g == [Heap EXCEPT !.item = i]
  <2> HIDE DEF i
  <2>2. Sound(g, selfListed, erased) /\ g.at = heap /\ g.map = items /\ g.item = i
    BY HandedKeeps, HeapIs DEF HeapInv
  <2>3. Found(jid, node) = g
    BY <2>1
  <2> HIDE DEF g
  <2>4. i # Nothing
    BY <2>2, <2>3
  <2>5. i = First(same) /\ same # {}
    BY <2>4 DEF i
  <2>6. items \subseteq DOMAIN heap /\ DOMAIN heap \subseteq Nat
    BY HeapIs DEF HeapInv, Sound, Shaped
  <2>7. same \in SUBSET Nat
    BY HeapIs, <2>6 DEF OfJID
  <2>8. i \in same
    BY <2>5, <2>7, FirstOfSome
  <2>9. i \in items /\ heap[i].jid = jid /\ heap[i].node = node
    BY <2>8, HeapIs DEF OfJID
  <2> QED
    BY <2>2, <2>3, <2>9 DEF AtHand
<1> QED
  BY <1>1, <1>2

LEMMA ResultIs ==
  ASSUME HeapInv, NEW r, result(r)
  PROVE  /\ HeapInv'
         /\ \/ Begun(r.to, r.node)' /\ fault' = "no"
            \/ fault' = "null" /\ loop' = loop
<1> DEFINE h == Found(r.to, r.node)
<1>1. fault = "no" /\ UNCHANGED <<erased, selfListed>>
  BY DEF result, Answers
<1>2. CASE h.item = Nothing
  <2>1. fault' = "null" /\ UNCHANGED <<heap, items, allocated, loop, erased, selfListed>>
    BY <1>2 DEF result
  <2> QED
    BY <2>1 DEF HeapInv, Heap
<1>3. CASE h.item # Nothing
  <2>1. PICK q \in Seq(Children) :
           UseHeap(AppendListed(FoldLeft(ListItem, h, q)))
    <3>1. \E q \in IF r.kind = "items" THEN Listings ELSE {<<>>} :
             UseHeap(AppendListed(FoldLeft(ListItem, h, q)))
      BY <1>3 DEF result
    <3>2. <<>> \in Seq(Children)
      OBVIOUS
    <3> HIDE DEF h
    <3> QED
      BY <3>1, <3>2, ListingsAreSequences
  <2>2. RunCallbacks(r.to, h.item) /\ UNCHANGED fault
    BY <1>3 DEF result
  <2>3. AtHand(h, h.item, r.to, r.node, selfListed, erased)
    BY <1>3, FoundIsAtHand
  <2> HIDE DEF h
  <2> DEFINE g == FoldLeft(ListItem, h, q)
  <2>4. AtHand(g, h.item, r.to, r.node, selfListed, erased)
    BY <2>1, <2>3, ListKeeps
  <2>5. UseHeap(AppendListed(g))
    BY <2>1
  <2> HIDE DEF g
  <2>6. AtHand(AppendListed(g), h.item, r.to, r.node, selfListed, erased)
    BY <2>4, AppendListedKeeps
  <2>7. HeapInv' /\ Begun(r.to, r.node)'
    BY <1>1, <2>2, <2>5, <2>6, UsedKeeps DEF AtHand
  <2> QED
    BY <1>1, <2>2, <2>7
<1> QED
  BY <1>2, <1>3

LEMMA TakenOutIs ==
  ASSUME HeapInv, NEW jid
  PROVE  Browsing(TakenOut(Heap, jid), jid, selfListed, erased)
<1>1. CASE OfJID(Heap, jid) = {}
  BY <1>1 DEF TakenOut, HeapInv, OfJID, NotListed, AtMostOne, Browsing
<1>2. CASE OfJID(Heap, jid) # {}
  <2> DEFINE k == First(OfJID(Heap, jid))
             h == TakenOut(Heap, jid)
  <2>1. k \in items /\ heap[k].jid = jid
    BY <1>2, FirstOfJID, HeapIs DEF HeapInv, Sound
  <2>2. h = [at |-> heap, map |-> items \ {k}, next |-> allocated + 1,
             item |-> Nothing, listed |-> {}]
    <3>1. h = [Heap EXCEPT !.map = @ \ {k}]
      BY <1>2 DEF TakenOut
    <3> HIDE DEF k, h
    <3> QED
      BY <3>1, HeapIs
  <2> HIDE DEF k, h
  <2>3. Sound(Heap, selfListed, erased)
    BY DEF HeapInv
  <2>4. Shaped(h)
    BY <2>2, <2>3, HeapIs DEF Sound, Shaped
  <2>5. Few(h, selfListed) /\ Live(h, erased)
    BY <2>2, <2>3, HeapIs DEF Sound, Few, Live
  <2>6. AtMostOne(h, jid)
    BY <2>1, <2>2, <2>3, HeapIs DEF Sound, Few, AtMostOne
  <2>7. jid \notin selfListed => NotListed(h, jid)
    BY <2>1, <2>2, <2>3, HeapIs DEF Sound, Few, NotListed
  <2> QED
    BY <2>4, <2>5, <2>6, <2>7 DEF Browsing, Sound, h
<1> QED
  BY <1>1, <1>2

LEMMA BrowseIs ==
  ASSUME HeapInv, NEW jid, NEW q \in Seq(Children), Browse(jid, q),
         UNCHANGED erased
  PROVE  HeapInv' /\ Begun(jid, NoNode)'
<1> DEFINE f == TakenOut(Heap, jid)
           h == FoldLeft(ListBrowsed, f, q)
           i == h.next
           D == selfListed'
<1>1. selfListed \subseteq D /\ D \subseteq selfListed \cup {jid}
  BY DEF Browse
<1>2. Browsing(f, jid, D, erased)
  <2>1. Browsing(f, jid, selfListed, erased)
    BY TakenOutIs
  <2> HIDE DEF f, D
  <2> QED
    BY <1>1, <2>1 DEF Browsing, Sound, Few
<1>3. PICK S : q \in Seq(S) /\ \A c \in S : c.jid # jid \/ jid \in D
  <2>1. CASE jid \in D
    BY <2>1
  <2>2. CASE jid \notin D
    <3>1. \A c \in ToSet(q) : c.jid # jid
      BY <2>2 DEF Browse
    <3>2. q \in Seq(ToSet(q))
      <4>1. Len(q) \in Nat /\ q = [n \in 1 .. Len(q) |-> q[n]]
        BY Listed!SeqDef, Listed!LenProperties
      <4>2. \A n \in 1 .. Len(q) : q[n] \in ToSet(q)
        BY <4>1, Listed!LenProperties DEF ToSet
      <4>3. q \in [1 .. Len(q) -> ToSet(q)]
        BY <4>1, <4>2
      <4> QED
        BY <4>1, <4>3, Listed!SeqDef
    <3> QED
      BY <3>1, <3>2
  <2> QED
    BY <2>1, <2>2
<1>4. /\ UseHeap(NewItem(h, jid, NoNode, h.listed))
      /\ RunCallbacks(jid, i)
  BY DEF Browse
<1> HIDE DEF f, D
<1>5. Browsing(h, jid, D, erased)
  BY <1>2, <1>3, BrowseKeeps
<1> HIDE DEF h, i
<1>6. Free(h, jid, D) /\ h.listed \in SUBSET h.map
  BY <1>5 DEF Browsing, Free, Sound, Shaped
<1> DEFINE g == NewItem(h, jid, NoNode, h.listed)
<1>7. /\ Sound(g, D, erased)
      /\ i \in g.map
      /\ g.at[i] = [jid |-> jid, node |-> NoNode, children |-> h.listed]
  BY <1>5, <1>6, NewItemKeeps DEF Browsing, i
<1>8. UseHeap(g)
  BY <1>4
<1> HIDE DEF g
<1>9. g.at[i].jid = jid /\ g.at[i].node = NoNode
  BY <1>7
<1>10. Sound(g, selfListed', erased)
  BY <1>7 DEF D
<1> QED
  BY <1>4, <1>7, <1>8, <1>9, <1>10, UsedKeeps

-----------------------------------------------------------------------------
(* The order of the functions                                               *)

LEMMA KeysAreNumbers ==
  /\ \A k \in Keys : k \in Nat \X Nat
  /\ \A c \in Entries : c.key \in Nat \X Nat /\ c.n \in Nat
<1>1. JIDs \subseteq Nat /\ Nodes \cup {NoNode} \subseteq Nat
  BY DiscoAssumption DEF NoNode
<1>2. \A k \in Keys : k \in Nat \X Nat
  BY <1>1 DEF Keys
<1>3. \A c \in Entries : c.key \in Keys /\ c.n \in Nat
  BY DEF Entries
<1> QED
  BY <1>2, <1>3

LEMMA PrecedesIsOrder ==
  ASSUME NEW k \in Nat \X Nat, NEW l \in Nat \X Nat, NEW m \in Nat \X Nat
  PROVE  /\ ~ Precedes(k, k)
         /\ Precedes(k, l) /\ Precedes(l, m) => Precedes(k, m)
         /\ Precedes(k, l) => ~ Precedes(l, k)
         /\ k = l \/ Precedes(k, l) \/ Precedes(l, k)
<1>1. k = <<k[1], k[2]>> /\ l = <<l[1], l[2]>>
  OBVIOUS
<1>2. /\ k[1] \in Nat /\ k[2] \in Nat /\ l[1] \in Nat /\ l[2] \in Nat
      /\ m[1] \in Nat /\ m[2] \in Nat
  OBVIOUS
<1>3. k[1] = l[1] /\ k[2] = l[2] => k = l
  BY <1>1
<1> QED
  BY <1>2, <1>3 DEF Precedes

LEMMA BeforeIsOrder ==
  ASSUME NEW c \in Entries, NEW d \in Entries, NEW e \in Entries
  PROVE  /\ ~ Before(c, c)
         /\ Before(c, d) /\ Before(d, e) => Before(c, e)
         /\ Before(c, d) => ~ Before(d, c)
         /\ c.n # d.n => Before(c, d) \/ Before(d, c)
<1>1. c.n \in Nat /\ d.n \in Nat /\ e.n \in Nat
  BY KeysAreNumbers
<1>2. c.key \in Nat \X Nat /\ d.key \in Nat \X Nat /\ e.key \in Nat \X Nat
  BY KeysAreNumbers
<1>3. /\ ~ Precedes(c.key, c.key)
      /\ Precedes(c.key, d.key) /\ Precedes(d.key, e.key) => Precedes(c.key, e.key)
      /\ Precedes(c.key, d.key) => ~ Precedes(d.key, c.key)
      /\ c.key = d.key \/ Precedes(c.key, d.key) \/ Precedes(d.key, c.key)
  BY <1>2, PrecedesIsOrder
<1>4. ~ Precedes(d.key, d.key)
  BY <1>2, PrecedesIsOrder
<1> QED
  BY <1>1, <1>3, <1>4 DEF Before

\* Entries with numbers of their own
Numbered(S) == S \in SUBSET Entries /\ \A c, d \in S : c.n = d.n => c = d

LEMMA FirstExists ==
  ASSUME NEW S, Numbered(S), S # {}
  PROVE  \E f \in S : \A d \in S \ {f} : Before(f, d)
<1>1. S \subseteq Entries /\ \A c \in S : /\ c.key[1] \in Nat
                                          /\ c.key[2] \in Nat
                                          /\ c.n \in Nat
  BY KeysAreNumbers DEF Numbered
<1> DEFINE Ones == {c.key[1] : c \in S}
<1>2. PICK a \in Ones : \A b \in Ones : a <= b
  <2>1. Ones \in SUBSET Nat /\ Ones # {}
    BY <1>1
  <2> QED
    BY <2>1, Listed!LeastNatural
<1> DEFINE A == {c \in S : c.key[1] = a}
           Twos == {c.key[2] : c \in A}
<1>3. PICK x \in Twos : \A b \in Twos : x <= b
  <2>1. Twos \in SUBSET Nat /\ Twos # {}
    BY <1>1, <1>2
  <2> QED
    BY <2>1, Listed!LeastNatural
<1> DEFINE B == {c \in A : c.key[2] = x}
           Threes == {c.n : c \in B}
<1>4. PICK m \in Threes : \A b \in Threes : m <= b
  <2>1. Threes \in SUBSET Nat /\ Threes # {}
    BY <1>1, <1>3
  <2> QED
    BY <2>1, Listed!LeastNatural
<1>5. PICK f \in B : f.n = m
  BY <1>4
<1>6. ASSUME NEW d \in S \ {f}
      PROVE  Before(f, d)
  <2>1. f \in S /\ f.key[1] = a /\ f.key[2] = x /\ f.n # d.n
    BY <1>5, <1>6 DEF Numbered
  <2>2. a <= d.key[1] /\ (d.key[1] = a => x <= d.key[2])
    BY <1>2, <1>3
  <2>3. d.key[1] = a /\ d.key[2] = x => m <= d.n
    BY <1>4
  <2>4. f.key[1] \in Nat /\ f.key[2] \in Nat /\ f.n \in Nat
        /\ d.key[1] \in Nat /\ d.key[2] \in Nat /\ d.n \in Nat
    BY <1>1, <2>1
  <2>5. f.key[1] = d.key[1] /\ f.key[2] = d.key[2] => f.key = d.key
    <3>1. f.key \in Nat \X Nat /\ d.key \in Nat \X Nat
      BY <1>1, <2>1, KeysAreNumbers
    <3>2. f.key = <<f.key[1], f.key[2]>> /\ d.key = <<d.key[1], d.key[2]>>
      BY <3>1
    <3> QED
      BY <3>2
  <2> QED
    BY <1>5, <2>1, <2>2, <2>3, <2>4, <2>5 DEF Before, Precedes
<1> QED
  BY <1>5, <1>6

LEMMA FirstInIs ==
  ASSUME NEW S, Numbered(S)
  PROVE  /\ S = {} => FirstIn(S) = Nothing
         /\ S # {} => \E f \in S : /\ FirstIn(S) = f.n
                                   /\ \A d \in S \ {f} : Before(f, d)
<1>1. CASE S = {}
  BY <1>1 DEF FirstIn
<1>2. CASE S # {}
  <2> DEFINE f == CHOOSE c \in S : \A d \in S \ {c} : Before(c, d)
  <2>1. f \in S /\ \A d \in S \ {f} : Before(f, d)
    BY <1>2, FirstExists
  <2>2. FirstIn(S) = f.n
    BY <1>2 DEF FirstIn
  <2> HIDE DEF f
  <2> QED
    BY <1>2, <2>1, <2>2
<1> QED
  BY <1>1, <1>2

LEMMA EntryIs ==
  ASSUME Numbered(callbacks), NEW c \in callbacks
  PROVE  Entry(c.n) = c
BY DEF Entry, Numbered

LEMMA CallbacksNumbered == QuestionsOK => Numbered(callbacks)
BY DEF QuestionsOK, Numbered

-----------------------------------------------------------------------------
(* What the application does                                                *)

LEMMA CacheKeeps ==
  ASSUME DiscoInv, NEW jid \in JIDs, NEW node \in Nodes \cup {NoNode},
         NEW kind \in {"info", "items"}, cache(jid, node, kind)
  PROVE  DiscoInv'
<1> DEFINE n == calls + 1
           new == [key |-> <<jid, node>>, n |-> n]
           asked == [n |-> n, to |-> jid, node |-> node, kind |-> kind]
<1>1. /\ fault = "no" /\ fault' = fault
      /\ calls' = n
      /\ callbacks' = callbacks \cup {new}
      /\ requests' = requests \cup {asked}
      /\ nested \subseteq nested' /\ (loop # Idle => n \in nested')
      /\ shared \subseteq shared'
      /\ \A r \in requests : r.to = jid => jid \in shared'
      /\ UNCHANGED <<heap, items, loop, allocated, told, forgotten, erased, selfListed>>
  BY DEF cache
<1>2. QuestionsOK /\ LoopInv
  BY <1>1 DEF DiscoInv
<1>3. /\ calls \in Nat /\ n \in Nat \ {0}
      /\ \A c \in callbacks : c.n # n /\ c.n # 0
      /\ \A r \in requests : r.n # n
      /\ \A t \in told : t.n # n
  BY <1>2 DEF QuestionsOK, Entries
<1>4. new \in Entries /\ asked \in Requests
  BY <1>3 DEF Entries, Requests, Keys, Kinds
<1>5. new.n = n /\ asked.n = n /\ new.key = <<jid, node>> /\ asked.to = jid
      /\ asked.node = node /\ asked.kind # "browse" /\ new.key[1] = jid
  OBVIOUS
<1>6. HeapInv' /\ LoopItem'
  BY <1>1 DEF DiscoInv, HeapInv, Heap, LoopItem
<1> HIDE DEF n, new, asked
<1>7. QuestionsOK'
  <2>1. callbacks' \in SUBSET Entries /\ requests' \in SUBSET Requests
    BY <1>1, <1>2, <1>4 DEF QuestionsOK
  <2>2. n = calls + 1 /\ calls' = n
    BY <1>1 DEF n
  <2>3. /\ \A c \in callbacks' : c.n <= calls'
        /\ \A r \in requests' : r.n <= calls'
        /\ \A t \in told' : t.n <= calls'
    <3>1. \A m : m <= calls /\ (m \in Nat) => m <= n
      BY <1>3, <2>2
    <3>2. \A c \in callbacks : c.n \in Nat
      BY <1>2 DEF QuestionsOK, Entries
    <3>3. \A r \in requests : r.n \in Nat
      BY <1>2 DEF QuestionsOK, Requests
    <3>4. \A t \in told : t.n \in Nat
      BY <1>2 DEF QuestionsOK
    <3>5. n <= n
      BY <1>3
    <3> QED
      BY <1>1, <1>2, <1>5, <2>2, <3>1, <3>2, <3>3, <3>4, <3>5 DEF QuestionsOK
  <2>4. \A c, d \in callbacks' : c.n = d.n => c = d
    BY <1>1, <1>2, <1>3, <1>5 DEF QuestionsOK
  <2>5. \A r, s \in requests' : r.n = s.n => r = s
    BY <1>1, <1>2, <1>3, <1>5 DEF QuestionsOK
  <2>6. calls' \in Nat /\ \A t \in told' : t.n \in Nat
    BY <1>1, <1>2, <1>3 DEF QuestionsOK
  <2> QED
    BY <2>1, <2>3, <2>4, <2>5, <2>6 DEF QuestionsOK
<1>8. CalledForOwnAnswer'
  BY <1>1 DEF DiscoInv, CalledForOwnAnswer
<1>9. Own'
  BY <1>1, <1>2, <1>3, <1>5 DEF LoopInv, Own
<1>10. BrowsingForgets'
  BY <1>1, <1>2, <1>5 DEF LoopInv, BrowsingForgets
<1>11. TwoShare'
  BY <1>1, <1>2, <1>5 DEF LoopInv, TwoShare
<1>12. ToldAreGone'
  BY <1>1, <1>2, <1>3, <1>5 DEF LoopInv, ToldAreGone
<1>13. LoopKey' = LoopKey /\ Signals' = Signals
  BY <1>1 DEF LoopKey, Signals
<1>14. ASSUME loop # Idle
       PROVE  loop.last # n /\ loop.it # n
  <2>1. /\ loop.last # Nothing => \E e \in callbacks : e.n = loop.last
        /\ loop.it # loop.last => \E e \in callbacks : e.n = loop.it
    BY <1>2, <1>14 DEF LoopInv, LoopOK
  <2> QED
    BY <2>1, <1>3 DEF Nothing
<1>15. ASSUME loop # Idle, NEW c
       PROVE  (Short(c)' <=> Short(c)) /\ (c \in callbacks => (Due(c)' <=> Due(c)))
  <2>1. Short(c)' <=> Short(c)
    BY <1>1, <1>5, <1>14, <1>15 DEF Short
  <2>2. Due(c)' <=> Due(c)
    BY <1>1, <1>5, <1>14, <1>15, <2>1 DEF Due
  <2> QED
    BY <2>1, <2>2
<1>16. LoopOK'
  <2> SUFFICES ASSUME loop # Idle
               PROVE  LoopOK'
    BY <1>1 DEF LoopOK
  <2>1. /\ loop.last # Nothing => \E e \in callbacks' : e.n = loop.last
        /\ loop.it # loop.last => \E e \in callbacks' : e.n = loop.it /\ Short(e)'
    BY <1>1, <1>2, <1>15 DEF LoopInv, LoopOK
  <2> QED
    BY <1>1, <1>2, <1>13, <2>1 DEF LoopInv, LoopOK
<1>17. InRange'
  <2> SUFFICES ASSUME loop # Idle, NEW c \in callbacks', Due(c)'
               PROVE  c.key = LoopKey' \/ c.n \in nested'
    BY <1>1 DEF InRange
  <2>1. CASE c = new
    BY <2>1, <1>1, <1>5
  <2>2. CASE c \in callbacks
    BY <2>2, <1>1, <1>2, <1>13, <1>15 DEF LoopInv, InRange
  <2> QED
    BY <1>1, <2>1, <2>2
<1>18. Answered'
  <2> SUFFICES ASSUME loop # Idle, NEW c \in callbacks', c.key[1] = loop.jid,
                      c.n \notin nested', loop.jid \notin shared', NEW r \in requests'
               PROVE  r.n # c.n
    BY <1>1 DEF Answered
  <2>1. c \in callbacks
    BY <1>1, <1>5
  <2>2. CASE r \in requests
    BY <2>1, <2>2, <1>1, <1>2 DEF LoopInv, Answered
  <2> QED
    BY <2>1, <2>2, <1>1, <1>3, <1>5
<1>19. Waits'
  <2> SUFFICES ASSUME NEW c \in callbacks'
               PROVE  \/ c.key \in forgotten'
                      \/ \E r \in requests' : r.n = c.n
                      \/ loop' # Idle /\ c.key = LoopKey' /\ (Signals' \/ Due(c)')
    BY DEF Waits
  <2>1. CASE c = new
    BY <2>1, <1>1, <1>5
  <2>2. CASE c \in callbacks
    BY <2>2, <1>1, <1>2, <1>13, <1>15 DEF LoopInv, Waits
  <2> QED
    BY <1>1, <2>1, <2>2
<1>20. LoopInv'
  BY <1>9, <1>10, <1>11, <1>12, <1>16, <1>17, <1>18, <1>19 DEF LoopInv
<1> QED
  BY <1>1, <1>6, <1>7, <1>8, <1>20 DEF DiscoInv

\* What does not touch the functions and their requests, while none is called
LEMMA QuestionsUnchanged ==
  ASSUME DiscoInv, loop = Idle,
         UNCHANGED <<callbacks, requests, loop, calls, told, nested, shared,
                     forgotten, fault>>
  PROVE  QuestionsOK' /\ CalledForOwnAnswer' /\ (fault = "no" => LoopInv')
<1>1. QuestionsOK' /\ CalledForOwnAnswer'
  BY DEF DiscoInv, QuestionsOK, CalledForOwnAnswer
<1>2. ASSUME fault = "no"
      PROVE  LoopInv'
  <2>1. LoopInv
    BY <1>2 DEF DiscoInv
  <2>2. Own' /\ BrowsingForgets' /\ TwoShare' /\ ToldAreGone'
    BY <2>1 DEF LoopInv, Own, BrowsingForgets, TwoShare, ToldAreGone
  <2>3. LoopOK' /\ InRange' /\ Answered'
    BY DEF LoopOK, InRange, Answered
  <2>4. Waits'
    BY <2>1 DEF LoopInv, Waits
  <2> QED
    BY <2>2, <2>3, <2>4 DEF LoopInv
<1> QED
  BY <1>1, <1>2

LEMMA ClearKeeps ==
  ASSUME DiscoInv, clear
  PROVE  DiscoInv'
<1>1. HeapInv'
  <2>1. Heap' = [at |-> [i \in DOMAIN heap \ items |-> heap[i]], map |-> {},
                 next |-> allocated + 1, item |-> Nothing, listed |-> {}]
    BY DEF clear, Heap
  <2>2. /\ Heap.at = heap /\ Heap.map = items /\ Heap.next = allocated + 1
        /\ Shaped(Heap)
    BY DEF Heap, DiscoInv, HeapInv, Sound
  <2>3. Shaped(Heap')
    BY <2>1, <2>2 DEF Shaped
  <2>4. Few(Heap', selfListed')
    BY <2>1 DEF Few
  <2>5. Live(Heap', erased')
    <3>1. Leads(Heap'.at, {})
      BY DEF Leads
    <3>2. Heap'.map = {}
      BY <2>1
    <3> QED
      BY <3>1, <3>2 DEF Live
  <2> QED
    BY <2>3, <2>4, <2>5 DEF HeapInv, Sound, DiscoInv, clear
<1>2. LoopItem' /\ fault = "no"
  BY DEF clear, LoopItem
<1> QED
  BY <1>1, <1>2, QuestionsUnchanged DEF clear, DiscoInv

LEMMA EraseKeeps ==
  ASSUME DiscoInv, NEW i, erase(i)
  PROVE  DiscoInv'
<1>1. HeapInv'
  <2>1. Heap' = [at |-> [k \in DOMAIN heap \ {i} |-> heap[k]], map |-> items \ {i},
                 next |-> allocated + 1, item |-> Nothing, listed |-> {}]
    BY DEF erase, Heap
  <2>2. /\ Heap.at = heap /\ Heap.map = items /\ Heap.next = allocated + 1
        /\ Heap.listed = {}
        /\ Shaped(Heap) /\ Few(Heap, selfListed) /\ Live(Heap, erased)
    BY DEF Heap, DiscoInv, HeapInv, Sound
  <2>3. Shaped(Heap')
    BY <2>1, <2>2 DEF Shaped
  <2>4. Few(Heap', selfListed')
    BY <2>1, <2>2 DEF erase, Few, Shaped
  <2>5. Live(Heap', erased')
    <3>1. PICK is : /\ is \subseteq DOMAIN heap \cup erased
                    /\ items \subseteq is
                    /\ Leads(heap, is)
      BY <2>2 DEF Live
    <3>2. erased' = erased \cup {i}
      BY DEF erase
    <3>3. DOMAIN Heap'.at = DOMAIN heap \ {i}
          /\ \A k \in DOMAIN heap \ {i} : Heap'.at[k] = heap[k]
      BY <2>1
    <3>4. Leads(Heap'.at, is)
      BY <3>1, <3>3 DEF Leads
    <3>5. is \subseteq DOMAIN Heap'.at \cup erased'
      BY <3>1, <3>2, <3>3
    <3>6. Heap'.map \subseteq is
      BY <2>1, <3>1
    <3> QED
      BY <3>4, <3>5, <3>6 DEF Live
  <2> QED
    BY <2>3, <2>4, <2>5 DEF HeapInv, Sound, DiscoInv, erase
<1>2. LoopItem' /\ fault = "no"
  BY DEF erase, LoopItem
<1> QED
  BY <1>1, <1>2, QuestionsUnchanged DEF erase, DiscoInv

-----------------------------------------------------------------------------
(* What the answers do to those who wait for them                           *)

\* A request is answered: the loop begins for its JID and node, or the key
\* is forgotten and the loop begins for its JID, for none, or not at all.
Settled(r) ==
    /\ loop' = Idle \/ \E j \in {r.to, NoJID}, k \in Nodes \cup {NoNode} : Begun(j, k)'
    /\ Begun(r.to, r.node)' \/ <<r.to, r.node>> \in forgotten'

LEMMA SettledKeeps ==
  ASSUME DiscoInv, NEW r \in requests, Settled(r), HeapInv',
         fault = "no", loop = Idle, fault' = "no",
         requests' = requests \ {r}, forgotten \subseteq forgotten',
         UNCHANGED <<callbacks, calls, told, nested, shared>>
  PROVE  DiscoInv'
<1>1. QuestionsOK /\ LoopInv
  BY DEF DiscoInv
<1>2. QuestionsOK' /\ CalledForOwnAnswer'
  BY DEF DiscoInv, QuestionsOK, CalledForOwnAnswer
<1>3. r \in Requests /\ r.to \in JIDs /\ r.node \in Nodes \cup {NoNode}
  BY <1>1 DEF QuestionsOK, Requests
<1>4. Own' /\ TwoShare'
  BY <1>1 DEF LoopInv, Own, TwoShare
<1>5. BrowsingForgets'
  BY <1>1 DEF LoopInv, BrowsingForgets
<1>6. ToldAreGone'
  BY <1>1 DEF LoopInv, ToldAreGone
<1>7. \A c \in callbacks : c.n # Nothing
  BY <1>1 DEF QuestionsOK, Entries, Nothing
<1>8. ASSUME loop' # Idle
      PROVE  /\ \E j \in {r.to, NoJID}, k \in Nodes \cup {NoNode} : Begun(j, k)'
             /\ loop'.it = Nothing /\ loop'.last = Nothing /\ loop'.calling
             /\ loop'.jid \in {r.to, NoJID}
  BY <1>8 DEF Settled, Begun
<1>9. LoopOK' /\ LoopItem'
  <2> SUFFICES ASSUME loop' # Idle
               PROVE  LoopOK' /\ LoopItem'
    BY DEF LoopOK, LoopItem
  <2>1. PICK j \in {r.to, NoJID}, k \in Nodes \cup {NoNode} : Begun(j, k)'
    BY <1>8
  <2>2. PICK i \in DOMAIN heap' :
           /\ loop' = [busy |-> TRUE, calling |-> TRUE, jid |-> j, item |-> i,
                       it |-> Nothing, last |-> Nothing]
           /\ heap'[i].jid = j /\ heap'[i].node = k
    BY <2>1 DEF Begun
  <2>3. i \in Nat
    <3>1. DOMAIN heap' = DOMAIN Heap'.at /\ Shaped(Heap')
      BY DEF Heap, HeapInv, Sound
    <3> QED
      BY <3>1 DEF Shaped
  <2>4. loop' \in Loops
    BY <1>3, <2>2, <2>3 DEF Loops, Nothing
  <2>5. LoopKey' = <<j, k>> /\ <<j, k>> \in Nat \X Nat
    <3>1. JIDs \subseteq Nat /\ Nodes \cup {NoNode} \subseteq Nat /\ NoJID \in Nat
      BY DiscoAssumption DEF NoNode, NoJID
    <3> QED
      BY <1>3, <2>2, <3>1 DEF LoopKey
  <2> QED
    BY <2>2, <2>4, <2>5 DEF LoopOK, LoopItem
<1>10. InRange'
  BY <1>7, <1>8 DEF InRange, Due
<1>11. Answered'
  <2> SUFFICES ASSUME loop' # Idle, NEW c \in callbacks, c.key[1] = loop'.jid,
                      loop'.jid \notin shared', NEW s \in requests'
               PROVE  s.n # c.n
    BY DEF Answered
  <2>1. c.key[1] \in JIDs
    BY <1>1 DEF QuestionsOK, Entries, Keys
  <2>2. NoJID \notin JIDs
    BY DiscoAssumption
  <2>3. loop'.jid = r.to
    BY <1>8, <2>1, <2>2
  <2>4. s \in requests /\ s # r
    OBVIOUS
  <2>5. s.to # r.to
    BY <1>1, <2>3, <2>4 DEF LoopInv, TwoShare
  <2> QED
    BY <1>1, <2>3, <2>4, <2>5 DEF LoopInv, Own
<1>12. Waits'
  <2> SUFFICES ASSUME NEW c \in callbacks, c.key \notin forgotten',
                      \A s \in requests' : s.n # c.n
               PROVE  loop' # Idle /\ c.key = LoopKey' /\ Signals'
    BY DEF Waits
  <2>1. r.n = c.n
    BY <1>1 DEF LoopInv, Waits
  <2>2. c.key = <<r.to, r.node>>
    BY <1>1, <2>1 DEF LoopInv, Own
  <2>3. Begun(r.to, r.node)'
    BY <2>2 DEF Settled
  <2> QED
    BY <2>2, <2>3 DEF Begun, LoopKey, Signals, Idle
<1>13. LoopInv'
  BY <1>4, <1>5, <1>6, <1>9, <1>10, <1>11, <1>12 DEF LoopInv
<1> QED
  BY <1>2, <1>9, <1>13 DEF DiscoInv

LEMMA ResultKeeps ==
  ASSUME DiscoInv, NEW r \in requests, result(r)
  PROVE  DiscoInv'
<1>1. /\ fault = "no" /\ loop = Idle
      /\ requests' = requests \ {r}
      /\ UNCHANGED <<callbacks, calls, told, nested, shared, forgotten>>
  BY DEF result, Answers
<1>2. /\ HeapInv'
      /\ \/ Begun(r.to, r.node)' /\ fault' = "no"
         \/ fault' = "null" /\ loop' = loop
  BY ResultIs DEF DiscoInv
<1>3. CASE Begun(r.to, r.node)' /\ fault' = "no"
  <2>1. r.node \in Nodes \cup {NoNode}
    BY DEF DiscoInv, QuestionsOK, Requests
  <2>2. Settled(r)
    BY <1>3, <2>1 DEF Settled
  <2> QED
    BY <1>1, <1>2, <1>3, <2>2, SettledKeeps
<1>4. CASE fault' = "null" /\ loop' = loop
  <2>1. QuestionsOK' /\ CalledForOwnAnswer'
    BY <1>1 DEF DiscoInv, QuestionsOK, CalledForOwnAnswer
  <2>2. LoopItem'
    BY <1>1, <1>4 DEF LoopItem
  <2> QED
    BY <1>2, <1>4, <2>1, <2>2 DEF DiscoInv
<1> QED
  BY <1>2, <1>3, <1>4

LEMMA RefusalKeeps ==
  ASSUME DiscoInv, NEW r \in requests, refusal(r)
  PROVE  DiscoInv'
<1> DEFINE s == [r EXCEPT !.kind = "browse"]
<1>1. /\ fault = "no" /\ loop = Idle
      /\ requests' = (requests \ {r}) \cup {s}
      /\ forgotten \subseteq forgotten'
      /\ r.node = NoNode \/ <<r.to, r.node>> \in forgotten'
      /\ UNCHANGED <<heap, items, callbacks, loop, calls, allocated, told, nested,
                     shared, erased, selfListed, fault>>
  BY DEF refusal, Answers
<1>2. QuestionsOK /\ LoopInv
  BY <1>1 DEF DiscoInv
<1>3. /\ r \in Requests
      /\ s \in Requests /\ s.n = r.n /\ s.to = r.to /\ s.node = r.node
  BY <1>2 DEF QuestionsOK, Requests, Kinds
<1> HIDE DEF s
<1>4. HeapInv' /\ LoopItem'
  BY <1>1 DEF DiscoInv, HeapInv, Heap, LoopItem
<1>5. QuestionsOK'
  BY <1>1, <1>2, <1>3 DEF QuestionsOK
<1>6. CalledForOwnAnswer'
  BY <1>1 DEF DiscoInv, CalledForOwnAnswer
<1>7. Own'
  BY <1>1, <1>2, <1>3 DEF LoopInv, Own
<1>8. BrowsingForgets'
  BY <1>1, <1>2, <1>3 DEF LoopInv, BrowsingForgets
<1>9. TwoShare'
  BY <1>1, <1>2, <1>3 DEF LoopInv, TwoShare
<1>10. ToldAreGone' /\ LoopOK' /\ InRange' /\ Answered'
  BY <1>1, <1>2 DEF LoopInv, ToldAreGone, LoopOK, InRange, Answered
<1>11. Waits'
  BY <1>1, <1>2, <1>3 DEF LoopInv, Waits
<1>12. LoopInv'
  BY <1>7, <1>8, <1>9, <1>10, <1>11 DEF LoopInv
<1> QED
  BY <1>1, <1>4, <1>5, <1>6, <1>12 DEF DiscoInv

LEMMA BrowsedKeeps ==
  ASSUME DiscoInv, NEW r \in requests, browsed(r)
  PROVE  DiscoInv'
<1>1. /\ fault = "no" /\ loop = Idle /\ r.kind = "browse"
      /\ requests' = requests \ {r}
      /\ UNCHANGED <<callbacks, calls, told, nested, shared, forgotten, erased, fault>>
  BY DEF browsed, Answers
<1>2. PICK q \in Listings : Browse(r.to, q)
  BY DEF browsed
<1>3. HeapInv' /\ Begun(r.to, NoNode)'
  BY <1>1, <1>2, ListingsAreSequences, BrowseIs DEF DiscoInv
<1>4. Settled(r)
  BY <1>1, <1>3 DEF Settled, DiscoInv, LoopInv, BrowsingForgets
<1> QED
  BY <1>1, <1>3, <1>4, SettledKeeps

LEMMA BrowseRefusedKeeps ==
  ASSUME DiscoInv, NEW r \in requests, browseRefused(r)
  PROVE  DiscoInv'
<1>1. /\ fault = "no" /\ loop = Idle /\ r.kind = "browse"
      /\ requests' = requests \ {r}
      /\ forgotten' = forgotten \cup {<<r.to, NoNode>>}
      /\ UNCHANGED <<callbacks, calls, told, nested, shared, erased, fault>>
  BY DEF browseRefused, Answers
<1>2. HeapInv' /\ (Begun(NoJID, NoNode)' \/ loop' = Idle)
  <2>1. CASE Browse(NoJID, <<>>)
    <3>1. <<>> \in Seq(Children)
      OBVIOUS
    <3> QED
      BY <1>1, <2>1, <3>1, BrowseIs DEF DiscoInv
  <2>2. CASE UNCHANGED <<heap, items, allocated, loop, selfListed>>
    BY <1>1, <2>2 DEF DiscoInv, HeapInv, Heap
  <2> QED
    BY <2>1, <2>2 DEF browseRefused
<1>3. <<r.to, r.node>> \in forgotten'
  BY <1>1 DEF DiscoInv, LoopInv, BrowsingForgets
<1>4. Settled(r)
  BY <1>2, <1>3 DEF Settled
<1> QED
  BY <1>1, <1>2, <1>4, SettledKeeps

-----------------------------------------------------------------------------
(* The loop                                                                 *)

\* A loop that ends leaves nothing it was yet to call.
LEMMA EndKeeps ==
  ASSUME DiscoInv, fault = "no", loop # Idle, loop' = Idle,
         \A c \in callbacks : ~ (c.key = LoopKey /\ (Signals \/ Due(c))),
         \A t \in told, c \in callbacks : t.n # c.n,
         UNCHANGED <<heap, items, callbacks, requests, calls, allocated, told,
                     nested, shared, forgotten, erased, selfListed, fault>>
  PROVE  DiscoInv'
<1>1. QuestionsOK /\ LoopInv
  BY DEF DiscoInv
<1>2. QuestionsOK' /\ CalledForOwnAnswer' /\ HeapInv' /\ LoopItem'
  BY DEF DiscoInv, QuestionsOK, CalledForOwnAnswer, HeapInv, Heap, LoopItem
<1>3. Own' /\ BrowsingForgets' /\ TwoShare'
  BY <1>1 DEF LoopInv, Own, BrowsingForgets, TwoShare
<1>4. ToldAreGone' /\ LoopOK' /\ InRange' /\ Answered'
  BY DEF ToldAreGone, LoopOK, InRange, Answered
<1>5. Waits'
  BY <1>1 DEF LoopInv, Waits
<1>6. LoopInv'
  BY <1>3, <1>4, <1>5 DEF LoopInv
<1> QED
  BY <1>2, <1>6 DEF DiscoInv

\* Calling or not calling is all that changes.
LEMMA LoopStays ==
  ASSUME DiscoInv, fault = "no", loop # Idle, loop' \in Loops,
         loop'.jid = loop.jid, loop'.item = loop.item,
         UNCHANGED <<heap, items, callbacks, requests, calls, allocated,
                     nested, shared, forgotten, erased, selfListed, fault>>
  PROVE  /\ HeapInv' /\ LoopItem'
         /\ Own' /\ BrowsingForgets' /\ TwoShare' /\ Answered'
         /\ LoopKey' = LoopKey /\ loop' # Idle
<1>1. LoopInv
  BY DEF DiscoInv
<1>2. HeapInv' /\ LoopItem'
  BY DEF DiscoInv, HeapInv, Heap, LoopItem
<1>3. Own' /\ BrowsingForgets' /\ TwoShare' /\ Answered'
  BY <1>1 DEF LoopInv, Own, BrowsingForgets, TwoShare, Answered
<1>4. LoopKey' = LoopKey
  BY DEF LoopKey
<1>5. loop' # Idle
  <2>1. loop'.busy = TRUE
    BY DEF Loops
  <2> QED
    BY <2>1 DEF Idle
<1> QED
  BY <1>2, <1>3, <1>4, <1>5

LEMMA BeginLoopKeeps ==
  ASSUME DiscoInv, beginLoop
  PROVE  DiscoInv'
<1>1. /\ fault = "no" /\ loop # Idle /\ loop.calling /\ loop.it = Nothing
      /\ loop' = IF \E c \in callbacks : c.key = LoopKey
                 THEN [loop EXCEPT !.calling = FALSE, !.it = FirstOf(LoopKey),
                                   !.last = EndOf(LoopKey)]
                 ELSE Idle
      /\ UNCHANGED <<heap, items, callbacks, requests, calls, allocated, told,
                     nested, shared, forgotten, erased, selfListed, fault>>
  <2>1. LoopOK
    BY DEF beginLoop, DiscoInv, LoopInv
  <2>2. Key(loop.jid, heap[loop.item]) = LoopKey
    BY DEF Key, LoopKey
  <2> QED
    BY <2>2 DEF beginLoop
<1>2. QuestionsOK /\ LoopInv
  BY <1>1 DEF DiscoInv
<1>3. Numbered(callbacks)
  BY <1>2, CallbacksNumbered
<1>4. \A c \in callbacks : c.n \in Nat \ {0}
  BY <1>2 DEF QuestionsOK, Entries
<1>5. \A t \in told, c \in callbacks : t.n # c.n
  BY <1>1, <1>2, <1>4 DEF LoopInv, ToldAreGone, Nothing
<1>6. CASE \A c \in callbacks : c.key # LoopKey
  BY <1>1, <1>5, <1>6, EndKeeps
<1>7. CASE \E c \in callbacks : c.key = LoopKey
  <2> DEFINE K == LoopKey
             From == {c \in callbacks : ~ Precedes(c.key, K)}
             To == {c \in callbacks : Precedes(K, c.key)}
  <2>1. K \in Nat \X Nat /\ loop \in Loops
    BY <1>1, <1>2 DEF LoopInv, LoopOK
  <2>2. /\ \A c \in callbacks : c \in Entries /\ c.key \in Nat \X Nat
        /\ Numbered(From) /\ Numbered(To)
    BY <1>3, KeysAreNumbers DEF Numbered
  <2>3. PICK a \in callbacks : a.key = K
    BY <1>7
  <2> HIDE DEF From, To
  <2>f. /\ From # {} => (\E f \in From : /\ FirstIn(From) = f.n
                                         /\ \A d \in From \ {f} : Before(f, d))
        /\ To = {} => FirstIn(To) = Nothing
        /\ To # {} => (\E f \in To : /\ FirstIn(To) = f.n
                                     /\ \A d \in To \ {f} : Before(f, d))
    BY <2>2, FirstInIs
  <2> USE DEF From, To
  <2>4. a \in From
    BY <2>1, <2>3, PrecedesIsOrder
  <2>5. PICK f \in From : FirstIn(From) = f.n /\ \A d \in From \ {f} : Before(f, d)
    BY <2>4, <2>f
  <2>6. FirstOf(K) = f.n /\ EndOf(K) = FirstIn(To)
    BY <2>5 DEF FirstOf, EndOf
  <2> HIDE DEF K
  <2>7. f.key = K
    <3>1. f = a \/ Before(f, a)
      BY <2>4, <2>5
    <3>2. f \in callbacks /\ ~ Precedes(f.key, K)
      OBVIOUS
    <3>3. ~ Precedes(K, f.key)
      BY <2>1, <2>2, <2>3, <3>1, <3>2, PrecedesIsOrder DEF Before
    <3> QED
      BY <2>1, <2>2, <3>2, <3>3, PrecedesIsOrder
  <2>8. /\ loop' \in Loops /\ loop'.jid = loop.jid /\ loop'.item = loop.item
        /\ loop'.calling = FALSE /\ loop'.it = f.n /\ loop'.last = EndOf(K)
    <3>1. loop' = [loop EXCEPT !.calling = FALSE, !.it = f.n, !.last = EndOf(K)]
      BY <1>1, <1>7, <2>6 DEF K
    <3>2. EndOf(K) \in Nat /\ f.n \in Nat
      <4>1. FirstIn(To) = Nothing \/ \E e \in To : FirstIn(To) = e.n
        BY <2>f
      <4> QED
        BY <4>1, <1>4, <2>6 DEF Nothing
    <3> QED
      BY <2>1, <3>1, <3>2 DEF Loops
  <2>9. /\ HeapInv' /\ LoopItem'
        /\ Own' /\ BrowsingForgets' /\ TwoShare' /\ Answered'
        /\ LoopKey' = K /\ loop' # Idle
    BY <1>1, <2>8, LoopStays DEF K
  <2>10. ASSUME NEW c \in callbacks
         PROVE  Short(c)' <=> ~ Precedes(K, c.key)
    <3>1. CASE To = {}
      <4>1. loop'.last = 0
        BY <3>1, <2>f, <2>6, <2>8 DEF Nothing
      <4>2. Short(c)'
        BY <4>1, <1>1, <1>4 DEF Short
      <4> QED
        BY <3>1, <4>2
    <3>2. CASE To # {}
      <4>1. PICK e \in To : FirstIn(To) = e.n /\ \A d \in To \ {e} : Before(e, d)
        BY <3>2, <2>f
      <4>2. Short(c)' <=> Before(c, e)
        BY <4>1, <1>1, <1>3, <2>6, <2>8 DEF Short, Numbered
      <4>3. ASSUME Precedes(K, c.key)
            PROVE  ~ Before(c, e)
        <5>1. c = e \/ Before(e, c)
          BY <4>1, <4>3
        <5> QED
          BY <5>1, <2>2, <4>1, BeforeIsOrder
      <4>4. ASSUME ~ Precedes(K, c.key)
            PROVE  Before(c, e)
        <5>1. Precedes(K, e.key) /\ e \in callbacks
          OBVIOUS
        <5>2. Precedes(c.key, e.key)
          BY <5>1, <4>4, <2>1, <2>2, PrecedesIsOrder
        <5> QED
          BY <5>2 DEF Before
      <4> QED
        BY <4>2, <4>3, <4>4
    <3> QED
      BY <3>1, <3>2
  <2>11. ~ Precedes(K, f.key) /\ Short(f)'
    BY <2>1, <2>2, <2>7, <2>10, PrecedesIsOrder
  <2>12. loop'.it # loop'.last
    <3>1. ASSUME loop'.last = f.n
          PROVE  FALSE
      <4>1. Before(f, f)
        BY <1>1, <2>11, <3>1 DEF Short
      <4> QED
        BY <4>1, <2>2, BeforeIsOrder
    <3> QED
      BY <3>1, <2>8
  <2>13. ASSUME NEW c \in callbacks
         PROVE  Due(c)' <=> c.key = K
    <3>1. Due(c)' <=> ~ Precedes(K, c.key) /\ (c = f \/ Before(f, c))
      BY <1>1, <1>3, <2>8, <2>10, <2>12 DEF Due, Numbered
    <3>2. c = f \/ Before(f, c) <=> ~ Precedes(c.key, K)
      <4>1. ASSUME ~ Precedes(c.key, K)
            PROVE  c = f \/ Before(f, c)
        BY <2>5, <4>1
      <4>2. ASSUME c = f \/ Before(f, c)
            PROVE  ~ Precedes(c.key, K)
        BY <4>2, <2>1, <2>2, <2>7, PrecedesIsOrder DEF Before
      <4> QED
        BY <4>1, <4>2
    <3> QED
      BY <3>1, <3>2, <2>1, <2>2, PrecedesIsOrder
  <2>14. LoopOK'
    <3>1. loop'.last # Nothing => \E e \in callbacks : e.n = loop'.last
      <4>1. FirstIn(To) = Nothing \/ \E e \in To : FirstIn(To) = e.n
        BY <2>f
      <4> QED
        BY <4>1, <2>6, <2>8
    <3>2. loop'.it # Nothing
      BY <1>4, <2>8 DEF Nothing
    <3>3. loop.item \in DOMAIN heap /\ heap[loop.item].jid = loop.jid
      BY <1>1, <1>2 DEF LoopInv, LoopOK
    <3>4. \E e \in callbacks' : e.n = loop'.it /\ Short(e)'
      BY <1>1, <2>8, <2>11
    <3> QED
      BY <1>1, <2>1, <2>8, <2>9, <3>1, <3>2, <3>3, <3>4 DEF LoopOK
  <2>15. InRange'
    BY <1>1, <2>9, <2>13 DEF InRange
  <2>16. ToldAreGone'
    BY <1>1, <1>5 DEF ToldAreGone
  <2>17. Waits'
    BY <1>1, <1>2, <2>9, <2>13 DEF LoopInv, Waits, K
  <2>18. LoopInv'
    BY <2>9, <2>14, <2>15, <2>16, <2>17 DEF LoopInv
  <2>19. QuestionsOK' /\ CalledForOwnAnswer'
    BY <1>1 DEF DiscoInv, QuestionsOK, CalledForOwnAnswer
  <2> QED
    BY <1>1, <2>9, <2>18, <2>19 DEF DiscoInv
<1> QED
  BY <1>6, <1>7

LEMMA CallKeeps ==
  ASSUME DiscoInv, call
  PROVE  DiscoInv'
<1>1. /\ fault = "no" /\ loop # Idle /\ ~ loop.calling /\ loop.it # loop.last
      /\ loop' = [loop EXCEPT !.calling = TRUE]
      /\ UNCHANGED <<heap, items, callbacks, requests, calls, allocated, nested,
                     shared, forgotten, erased, selfListed, fault>>
  BY DEF call
<1>2. QuestionsOK /\ LoopInv /\ Numbered(callbacks)
  BY <1>1, CallbacksNumbered DEF DiscoInv
<1>3. loop \in Loops
  BY <1>1, <1>2 DEF LoopInv, LoopOK
<1>4. PICK e \in callbacks : e.n = loop.it /\ Short(e)
  BY <1>1, <1>2 DEF LoopInv, LoopOK
<1>5. Entry(loop.it) = e
  BY <1>2, <1>4, EntryIs
<1>6. /\ e.n \in Nat \ {0} /\ e.key \in Keys
      /\ e.n <= calls
  BY <1>2 DEF QuestionsOK, Entries
<1>7. \A t \in told : t.n # loop.it
  BY <1>1, <1>2, <1>4 DEF LoopInv, ToldAreGone
<1> DEFINE new == [n |-> loop.it, key |-> e.key,
                   first |-> \A t \in told : t.n # loop.it,
                   own |-> /\ heap[loop.item].jid = e.key[1]
                           /\ heap[loop.item].node = e.key[2],
                   answered |-> \A r \in requests : r.n # loop.it]
<1>8. told' = told \cup {new}
  BY <1>5 DEF call
<1>9. /\ loop' \in Loops /\ loop'.jid = loop.jid /\ loop'.item = loop.item
      /\ loop'.it = loop.it /\ loop'.last = loop.last /\ loop'.calling
  BY <1>1, <1>3 DEF Loops
<1>10. /\ HeapInv' /\ LoopItem'
       /\ Own' /\ BrowsingForgets' /\ TwoShare' /\ Answered'
       /\ LoopKey' = LoopKey /\ loop' # Idle
  BY <1>1, <1>9, LoopStays
<1>11. /\ new.n = loop.it /\ new.key = e.key
       /\ new.first = (\A t \in told : t.n # loop.it)
       /\ new.own = (heap[loop.item].jid = e.key[1] /\ heap[loop.item].node = e.key[2])
       /\ new.answered = (\A r \in requests : r.n # loop.it)
  OBVIOUS
<1> HIDE DEF new
<1>12. ASSUME NEW c
       PROVE  (Short(c)' <=> Short(c)) /\ (Due(c)' <=> Due(c))
  <2>1. Short(c)' <=> Short(c)
    BY <1>1, <1>9 DEF Short
  <2> QED
    BY <2>1, <1>1, <1>9 DEF Due
<1>13. e.key = LoopKey \/ e.n \in nested
  <2>1. Due(e)
    BY <1>1, <1>4 DEF Due
  <2> QED
    BY <1>1, <1>2, <2>1 DEF LoopInv, InRange
<1>14. CalledForOwnAnswer'
  <2> SUFFICES ASSUME NEW t \in told'
               PROVE  /\ t.first
                      /\ t.own \/ t.n \in nested
                      /\ t.answered \/ t.n \in nested \/ t.key[1] \in shared
    BY <1>1 DEF CalledForOwnAnswer
  <2>1. CASE t \in told
    BY <2>1 DEF DiscoInv, CalledForOwnAnswer
  <2>2. CASE t = new
    <3>1. new.first
      BY <1>7, <1>11
    <3>2. new.own \/ new.n \in nested
      <4>1. CASE e.key = LoopKey
        <5>1. e.key[1] = loop.jid /\ e.key[2] = heap[loop.item].node
          BY <4>1 DEF LoopKey
        <5>2. heap[loop.item].jid = loop.jid
          BY <1>1, <1>2 DEF LoopInv, LoopOK
        <5> QED
          BY <5>1, <5>2, <1>11
      <4>2. CASE e.n \in nested
        BY <4>2, <1>4, <1>11
      <4> QED
        BY <4>1, <4>2, <1>13
    <3>3. new.answered \/ new.n \in nested \/ new.key[1] \in shared
      <4>1. CASE e.key = LoopKey
        <5>1. e.key[1] = loop.jid
          BY <4>1 DEF LoopKey
        <5> QED
          BY <5>1, <1>1, <1>2, <1>4, <1>11 DEF LoopInv, Answered
      <4>2. CASE e.n \in nested
        BY <4>2, <1>4, <1>11
      <4> QED
        BY <4>1, <4>2, <1>13
    <3> QED
      BY <2>2, <3>1, <3>2, <3>3
  <2> QED
    BY <2>1, <2>2, <1>8
<1>15. QuestionsOK'
  <2>1. \A t \in told' : t.n \in Nat /\ t.n <= calls'
    BY <1>1, <1>2, <1>4, <1>6, <1>8, <1>11 DEF QuestionsOK
  <2> QED
    BY <1>1, <1>2, <2>1 DEF QuestionsOK
<1>16. ToldAreGone'
  BY <1>1, <1>2, <1>8, <1>9, <1>10, <1>11 DEF LoopInv, ToldAreGone
<1>17. LoopOK'
  BY <1>1, <1>2, <1>9, <1>10, <1>12 DEF LoopInv, LoopOK
<1>18. InRange'
  BY <1>1, <1>2, <1>10, <1>12 DEF LoopInv, InRange
<1>19. Waits'
  <2>1. ~ Signals
    BY <1>1 DEF Signals
  <2> QED
    BY <1>1, <1>2, <2>1, <1>10, <1>12 DEF LoopInv, Waits
<1>20. LoopInv'
  BY <1>10, <1>16, <1>17, <1>18, <1>19 DEF LoopInv
<1> QED
  BY <1>1, <1>10, <1>14, <1>15, <1>20 DEF DiscoInv

LEMMA EndCallbacksKeeps ==
  ASSUME DiscoInv, endCallbacks
  PROVE  DiscoInv'
<1>1. /\ fault = "no" /\ loop # Idle /\ ~ loop.calling /\ loop.it = loop.last
      /\ loop' = Idle
      /\ UNCHANGED <<heap, items, callbacks, requests, calls, allocated, told,
                     nested, shared, forgotten, erased, selfListed, fault>>
  BY DEF endCallbacks
<1>2. \A c \in callbacks : ~ Signals /\ ~ Due(c)
  BY <1>1 DEF Signals, Due
<1>3. \A t \in told, c \in callbacks : t.n # c.n
  BY <1>1 DEF DiscoInv, LoopInv, ToldAreGone
<1> QED
  BY <1>1, <1>2, <1>3, EndKeeps

LEMMA ReturnsKeeps ==
  ASSUME DiscoInv, returns
  PROVE  DiscoInv'
<1>1. /\ fault = "no" /\ loop # Idle /\ loop.calling /\ loop.it # Nothing
      /\ callbacks' = {c \in callbacks : c.n # loop.it}
      /\ UNCHANGED <<heap, items, requests, calls, allocated, told, nested,
                     shared, forgotten, erased, selfListed>>
  BY DEF returns
<1>2. QuestionsOK /\ LoopInv /\ Numbered(callbacks)
  BY <1>1, CallbacksNumbered DEF DiscoInv
<1>3. HeapInv' /\ QuestionsOK' /\ CalledForOwnAnswer'
  BY <1>1 DEF DiscoInv, HeapInv, Heap, QuestionsOK, CalledForOwnAnswer
<1>4. CASE fault' = "freed" /\ loop' = loop
  BY <1>1, <1>3, <1>4 DEF DiscoInv, LoopItem
<1>5. CASE /\ loop' = [loop EXCEPT !.calling = FALSE, !.it = Successor(loop.it)]
           /\ fault' = fault
  <2>1. loop \in Loops /\ loop.it # loop.last
    BY <1>1, <1>2 DEF LoopInv, LoopOK
  <2>2. PICK f \in callbacks : f.n = loop.it /\ Short(f)
    BY <1>1, <1>2, <2>1 DEF LoopInv, LoopOK
  <2> DEFINE After == {c \in callbacks : Before(f, c)}
             next == FirstIn(After)
  <2>3. /\ \A c \in callbacks : c \in Entries /\ c.n \in Nat \ {0}
        /\ Numbered(After)
    BY <1>2 DEF Numbered, Entries
  <2> HIDE DEF After
  <2>f. /\ After = {} => next = Nothing
        /\ After # {} => (\E e \in After : /\ next = e.n
                                           /\ \A d \in After \ {e} : Before(e, d))
    BY <2>3, FirstInIs
  <2> HIDE DEF next
  <2> USE DEF After
  <2>4. next = Nothing \/ \E e \in After : next = e.n
    BY <2>f
  <2>5. /\ loop' \in Loops /\ loop'.jid = loop.jid /\ loop'.item = loop.item
        /\ loop'.calling = FALSE /\ loop'.it = next /\ loop'.last = loop.last
    <3>1. Successor(loop.it) = next
      BY <1>2, <2>2, EntryIs DEF Successor, next
    <3>2. next \in Nat
      BY <2>3, <2>4 DEF Nothing
    <3>3. loop' = [loop EXCEPT !.calling = FALSE, !.it = next]
      BY <1>5, <3>1
    <3> QED
      BY <2>1, <3>2, <3>3 DEF Loops
  <2>6. \A c \in callbacks' : c \in callbacks /\ c # f
    BY <1>1, <2>2
  <2>7. \A c \in callbacks : c # f => c \in callbacks'
    BY <1>1, <1>2, <2>2 DEF Numbered
  <2>8. f \notin After
    BY <2>3, BeforeIsOrder
  <2>9. ASSUME NEW c \in callbacks
        PROVE  Short(c)' <=> Short(c)
    BY <1>1, <2>1, <2>5 DEF Short
  <2>10. loop.last = Nothing \/ \E e \in callbacks : e.n = loop.last /\ e # f /\ Before(f, e)
    BY <1>2, <1>1, <2>1, <2>2 DEF LoopInv, LoopOK, Short
  <2>11. ASSUME next # loop.last
         PROVE  \E e \in After : /\ e.n = next /\ Short(e)
                                 /\ \A d \in After \ {e} : Before(e, d)
    <3>1. After # {}
      <4>1. CASE After = {}
        <5>1. next = Nothing
          BY <4>1, <2>f
        <5> QED
          BY <4>1, <5>1, <2>10, <2>11
      <4> QED
        BY <4>1
    <3>2. PICK e \in After : next = e.n /\ \A d \in After \ {e} : Before(e, d)
      BY <3>1, <2>f
    <3>3. Short(e)
      <4> SUFFICES ASSUME NEW d \in callbacks, d.n = loop.last
                   PROVE  Before(e, d)
        BY DEF Short
      <4>1. Before(f, d)
        BY <2>2 DEF Short
      <4>2. d \in After /\ d # e
        BY <4>1, <3>2, <2>11
      <4> QED
        BY <4>2, <3>2
    <3> QED
      BY <3>2, <3>3
  <2>12. ASSUME NEW c \in callbacks'
         PROVE  Due(c)' <=> Due(c)
    <3>0. c \in callbacks /\ c # f /\ c \in Entries /\ f \in Entries
      BY <2>3, <2>6
    <3>1. ASSUME Due(c)'
          PROVE  Due(c)
      <4>1. Short(c) /\ next # loop.last
        BY <3>0, <3>1, <2>5, <2>9 DEF Due
      <4>2. PICK e \in callbacks' : e.n = next /\ (c = e \/ Before(e, c))
        BY <3>1, <2>5 DEF Due
      <4>3. PICK d \in After : d.n = next
        BY <4>1, <2>11
      <4>4. e = d /\ Before(f, e) /\ e \in Entries
        BY <4>2, <4>3, <1>2, <2>3, <2>6 DEF Numbered
      <4>5. Before(f, c)
        BY <4>2, <4>4, <3>0, BeforeIsOrder
      <4> QED
        BY <4>1, <4>5, <2>1, <2>2 DEF Due
    <3>2. ASSUME Due(c)
          PROVE  Due(c)'
      <4>1. Short(c) /\ Before(f, c)
        BY <3>0, <3>2, <1>2, <2>2 DEF Due, Numbered
      <4>2. c \in After
        BY <3>0, <4>1
      <4>3. PICK e \in After : next = e.n /\ \A d \in After \ {e} : Before(e, d)
        BY <4>2, <2>f
      <4>4. next # loop.last
        <5>1. ASSUME next = loop.last
              PROVE  FALSE
          <6>1. Before(c, e)
            BY <4>1, <4>3, <5>1 DEF Short
          <6>2. c = e \/ Before(e, c)
            BY <4>2, <4>3
          <6> QED
            BY <6>1, <6>2, <3>0, <2>3, BeforeIsOrder
        <5> QED
          BY <5>1
      <4>5. e \in callbacks' /\ (c = e \/ Before(e, c))
        BY <4>2, <4>3, <2>7, <2>8
      <4>6. Short(c)'
        BY <4>1, <3>0, <2>9
      <4> QED
        BY <4>3, <4>4, <4>5, <4>6, <2>5 DEF Due
    <3> QED
      BY <3>1, <3>2
  <2>13. LoopKey' = LoopKey /\ loop' # Idle
    <3>1. loop'.busy = TRUE
      BY <2>5 DEF Loops
    <3> QED
      BY <3>1, <1>1, <2>5 DEF LoopKey, Idle
  <2>14. LoopOK' /\ LoopItem'
    <3>1. loop'.last # Nothing => \E e \in callbacks' : e.n = loop'.last
      BY <2>5, <2>7, <2>10
    <3>2. loop'.it = Nothing => loop'.last = Nothing
      <4>1. ASSUME next = Nothing
            PROVE  After = {}
        <5>1. CASE After # {}
          BY <5>1, <4>1, <2>f, <2>3 DEF Nothing
        <5> QED
          BY <5>1
      <4> QED
        BY <4>1, <2>5, <2>10
    <3>3. loop'.it # loop'.last => \E e \in callbacks' : e.n = loop'.it /\ Short(e)'
      <4> SUFFICES ASSUME next # loop.last
                   PROVE  \E e \in callbacks' : e.n = next /\ Short(e)'
        BY <2>5
      <4>1. PICK e \in After : e.n = next /\ Short(e)
        BY <2>11
      <4> QED
        BY <4>1, <2>7, <2>8, <2>9
    <3>4. /\ loop.item \in DOMAIN heap /\ heap[loop.item].jid = loop.jid
          /\ LoopKey \in Nat \X Nat
      BY <1>1, <1>2 DEF LoopInv, LoopOK
    <3> QED
      BY <1>1, <2>5, <2>13, <3>1, <3>2, <3>3, <3>4 DEF LoopOK, LoopItem
  <2>15. InRange'
    BY <1>1, <1>2, <2>6, <2>12, <2>13 DEF LoopInv, InRange
  <2>16. Answered'
    BY <1>1, <1>2, <2>5, <2>6 DEF LoopInv, Answered
  <2>17. Waits'
    <3>1. ~ Signals
      BY <1>1 DEF Signals
    <3> QED
      BY <1>1, <1>2, <2>6, <2>12, <2>13, <3>1 DEF LoopInv, Waits
  <2>18. ToldAreGone'
    <3>1. \A t \in told, c \in callbacks' : t.n # c.n
      BY <1>1, <1>2, <2>6 DEF LoopInv, ToldAreGone
    <3> QED
      BY <1>1, <3>1 DEF ToldAreGone
  <2>19. Own' /\ BrowsingForgets' /\ TwoShare'
    BY <1>1, <1>2, <2>6 DEF LoopInv, Own, BrowsingForgets, TwoShare
  <2>20. LoopInv'
    BY <2>14, <2>15, <2>16, <2>17, <2>18, <2>19 DEF LoopInv
  <2> QED
    BY <1>1, <1>3, <1>5, <2>14, <2>20 DEF DiscoInv
<1> QED
  BY <1>4, <1>5 DEF returns

-----------------------------------------------------------------------------
(* The directory                                                            *)

LEMMA DiscoInit == Init => DiscoInv
<1> SUFFICES ASSUME Init
             PROVE  DiscoInv
  OBVIOUS
<1>1. HeapInv
  <2>1. Heap = [at |-> <<>>, map |-> {}, next |-> 1, item |-> Nothing, listed |-> {}]
    BY DEF Init, Heap
  <2>2. DOMAIN <<>> = {}
    OBVIOUS
  <2>3. <<>> = [i \in {} |-> <<>>[i]]
    OBVIOUS
  <2>4. Shaped(Heap)
    BY <2>1, <2>2, <2>3 DEF Shaped
  <2>5. Few(Heap, selfListed)
    BY <2>1 DEF Few
  <2>6. Live(Heap, erased)
    <3>1. Leads(Heap.at, {})
      BY DEF Leads
    <3> QED
      BY <2>1, <3>1 DEF Live
  <2> QED
    BY <2>4, <2>5, <2>6 DEF HeapInv, Sound, Init
<1>2. QuestionsOK /\ CalledForOwnAnswer
  BY DEF Init, QuestionsOK, CalledForOwnAnswer
<1>3. LoopInv
  BY DEF Init, LoopInv, Own, BrowsingForgets, TwoShare, ToldAreGone, LoopOK,
         InRange, Answered, Waits
<1> QED
  BY <1>1, <1>2, <1>3 DEF Init, DiscoInv, LoopItem

LEMMA DiscoUnchanged == DiscoInv /\ UNCHANGED discoVars => DiscoInv'
<1> SUFFICES ASSUME DiscoInv, UNCHANGED discoVars
             PROVE  DiscoInv'
  OBVIOUS
<1>1. HeapInv' /\ LoopItem' /\ QuestionsOK' /\ CalledForOwnAnswer'
  BY DEF discoVars, DiscoInv, HeapInv, Heap, LoopItem, QuestionsOK, CalledForOwnAnswer
<1>2. ASSUME LoopInv
      PROVE  LoopInv'
  BY <1>2 DEF discoVars, LoopInv, Own, BrowsingForgets, TwoShare, ToldAreGone,
              LoopOK, InRange, Answered, Waits, LoopKey, Signals, Due, Short
<1> QED
  BY <1>1, <1>2 DEF discoVars, DiscoInv

LEMMA LoseKeeps ==
  ASSUME DiscoInv, lose, fault = "no"
  PROVE  DiscoInv'
<1>1. /\ loop = Idle /\ requests' = {}
      /\ forgotten' = forgotten \cup {<<r.to, r.node>> : r \in requests}
      /\ UNCHANGED <<heap, items, callbacks, loop, calls, allocated, told, nested,
                     shared, erased, selfListed, fault>>
  BY DEF lose
<1>2. HeapInv' /\ LoopItem' /\ QuestionsOK' /\ CalledForOwnAnswer'
  BY <1>1 DEF DiscoInv, HeapInv, Heap, LoopItem, QuestionsOK, CalledForOwnAnswer
<1>3. LoopInv
  BY DEF DiscoInv
<1>4. Own' /\ BrowsingForgets' /\ TwoShare' /\ ToldAreGone'
  BY <1>1, <1>3 DEF LoopInv, Own, BrowsingForgets, TwoShare, ToldAreGone
<1>5. LoopOK' /\ InRange' /\ Answered'
  BY <1>1 DEF LoopOK, InRange, Answered
<1>6. Waits'
  BY <1>1, <1>3 DEF LoopInv, Waits, Own
<1> QED
  BY <1>1, <1>2, <1>4, <1>5, <1>6 DEF DiscoInv, LoopInv

LEMMA DiscoStepKeeps == DiscoInv /\ Next => DiscoInv'
<1> SUFFICES ASSUME DiscoInv, Next
             PROVE  DiscoInv'
  OBVIOUS
<1>1. CASE \E j \in JIDs, k \in Nodes \cup {NoNode}, kind \in {"info", "items"} :
              cache(j, k, kind)
  BY <1>1, CacheKeeps
<1>2. CASE clear
  BY <1>2, ClearKeeps
<1>3. CASE \E i \in 1 .. MaxItems : erase(i)
  BY <1>3, EraseKeeps
<1>4. CASE \E r \in requests :
              result(r) \/ refusal(r) \/ browsed(r) \/ browseRefused(r)
  BY <1>4, ResultKeeps, RefusalKeeps, BrowsedKeeps, BrowseRefusedKeeps
<1>5. CASE beginLoop
  BY <1>5, BeginLoopKeeps
<1>6. CASE call
  BY <1>6, CallKeeps
<1>7. CASE returns
  BY <1>7, ReturnsKeeps
<1>8. CASE endCallbacks
  BY <1>8, EndCallbacksKeeps
<1> QED
  BY <1>1, <1>2, <1>3, <1>4, <1>5, <1>6, <1>7, <1>8 DEF Next

LEMMA DirectoryKeepsCache == DirSpec => []DiscoInv
<1>1. DirInit => DiscoInv
  BY DiscoInit DEF DirInit
<1>2. DiscoInv /\ [DirNext]_dirVars => DiscoInv'
  <2> SUFFICES ASSUME DiscoInv, [DirNext]_dirVars
               PROVE  DiscoInv'
    OBVIOUS
  <2>1. CASE DiscoStep
    BY <2>1, DiscoStepKeeps DEF DiscoStep
  <2>2. CASE AgentStep
    BY <2>2, DiscoUnchanged DEF AgentStep
  <2>3. CASE StreamEnds
    BY <2>3, LoseKeeps DEF StreamEnds
  <2>4. CASE UNCHANGED dirVars
    BY <2>4, DiscoUnchanged DEF dirVars
  <2> QED
    BY <2>1, <2>2, <2>3, <2>4 DEF DirNext
<1> QED
  BY <1>1, <1>2, PTL DEF DirSpec

(***************************************************************************)
(* The cache is sound for any JIDs and nodes, answers of any length and any *)
(* number of questions: its map lists allocated items, one of a JID or, if  *)
(* it has listed itself when it was browsed, two and never more, and        *)
(* following their children never leads to one that was deleted, unless     *)
(* the application erased it.                                               *)
(***************************************************************************)
THEOREM CacheIsSound == DirSpec => []CacheInv
<1>1. DiscoInv => CacheInv
  <2> SUFFICES ASSUME DiscoInv
               PROVE  CacheInv
    OBVIOUS
  <2>1. Heap.at = heap /\ Heap.map = items /\ Heap.next = allocated + 1
    BY DEF Heap
  <2>2. DOMAIN heap \subseteq 1 .. allocated
    <3>1. /\ DOMAIN heap \subseteq 1 .. (allocated + 1) - 1
          /\ allocated \in Nat
      BY <2>1 DEF DiscoInv, HeapInv, Sound, Shaped
    <3> QED
      BY <3>1
  <2>3. DiscoTypeOK
    BY <2>1, <2>2 DEF DiscoInv, HeapInv, Sound, Shaped, LoopItem, QuestionsOK, DiscoTypeOK
  <2>4. ChildrenAlive
    BY <2>1 DEF DiscoInv, HeapInv, Sound, Live, Leads, ChildrenAlive, Closed
  <2>5. FewItemsPerJID
    BY <2>1 DEF DiscoInv, HeapInv, Sound, Few, FewItemsPerJID
  <2> QED
    BY <2>3, <2>4, <2>5 DEF CacheInv
<1> QED
  BY <1>1, DirectoryKeepsCache, PTL

(***************************************************************************)
(* A function that waits in the cache is called once, with the item of its  *)
(* JID and node and by its own answer, or it is one the two exceptions of   *)
(* CalledForOwnAnswer name.                                                 *)
(***************************************************************************)
THEOREM FunctionsGetTheirAnswer == DirSpec => []CalledForOwnAnswer
BY DirectoryKeepsCache, PTL DEF DiscoInv

(***************************************************************************)
(* One that waits and is not going to be called waits for a key that was    *)
(* forgotten, with the stream, by the fallback or by an error in it.        *)
(***************************************************************************)
THEOREM FunctionsWaitForAnswers == DirSpec => []NoneForgotten
<1>1. DiscoInv => NoneForgotten
  BY DEF DiscoInv, LoopInv, Waits, NoneForgotten
<1> QED
  BY <1>1, DirectoryKeepsCache, PTL
=============================================================================
