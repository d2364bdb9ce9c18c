---------------------------- MODULE Roster_proofs ----------------------------
(***************************************************************************)
(* The roster and its index of groups, for any JIDs, groups and roster      *)
(* queries of any length.                                                   *)
(*                                                                          *)
(* A query is a fold of Pushed over its items, so each property of a step   *)
(* is one of Pushed: it maps some set of states of the roster to itself     *)
(* (FoldStays).  The last section is about the loop of mergeItemGroups.     *)
(***************************************************************************)
EXTENDS RosterHistory, RosterMerge, SequenceLemmas

Query == INSTANCE SequenceLemmas WITH Op <- Pushed

ItemMaps == UNION {[K -> Items] : K \in SUBSET RosterKeys}
Indexes == UNION {[G -> (SUBSET JIDs) \ {{}}] : G \in SUBSET Groups}
RosterStates == [items : ItemMaps, groups : Indexes]

\* Types, with items and index as functions; no group of the index is empty
RosterStateOK == items \in ItemMaps /\ groups \in Indexes

-----------------------------------------------------------------------------
LEMMA ItemMapIsFunction ==
  ASSUME NEW m
  PROVE  m \in ItemMaps <=> \E K \in SUBSET RosterKeys : m \in [K -> Items]
BY DEF ItemMaps

LEMMA IndexIsFunction ==
  ASSUME NEW gs
  PROVE  gs \in Indexes <=> \E G \in SUBSET Groups : gs \in [G -> (SUBSET JIDs) \ {{}}]
BY DEF Indexes

(***************************************************************************)
(* removeItemFromAllGroups takes the item out of its groups and leaves no   *)
(* group empty.                                                             *)
(***************************************************************************)
Without(gs, out, j, g) == IF g \in out THEN Members(gs, g) \ {j} ELSE Members(gs, g)

LEMMA RemoveFromGroups ==
  ASSUME NEW gs \in Indexes, NEW out \in SUBSET Groups, NEW j \in JIDs
  PROVE  /\ removeItemFromGroups(gs, out, j) \in Indexes
         /\ \A g \in Groups : Members(removeItemFromGroups(gs, out, j), g)
                              = Without(gs, out, j, g)
<1>1. PICK G \in SUBSET Groups : gs \in [G -> (SUBSET JIDs) \ {{}}]
  BY IndexIsFunction
<1> DEFINE D == {g \in G : g \in out => ~ EmptiedBy(gs, g, j)}
           Left(f) == IF f \in out THEN gs[f] \ {j} ELSE gs[f]
<1>2. removeItemFromGroups(gs, out, j) = [f \in D |-> Left(f)]
  BY <1>1 DEF removeItemFromGroups
<1>3. \A f \in D : Left(f) \in (SUBSET JIDs) \ {{}}
  BY <1>1 DEF EmptiedBy
<1>4. D \in SUBSET Groups
  OBVIOUS
<1>5. \A g \in G \ D : g \in out /\ gs[g] \ {j} = {}
  BY <1>1 DEF EmptiedBy
<1> HIDE DEF D, Left
<1>6. [f \in D |-> Left(f)] \in Indexes
  BY <1>3, <1>4, IndexIsFunction
<1>7. ASSUME NEW g \in Groups
      PROVE  Members([f \in D |-> Left(f)], g) = Without(gs, out, j, g)
  BY <1>1, <1>5 DEF Members, Without, D, Left
<1> QED
  BY <1>2, <1>6, <1>7

(***************************************************************************)
(* mergeItemGroups moves nobody but the item.                               *)
(***************************************************************************)
Merged(gs, j, old, new, g) ==
    (Members(gs, g) \ (IF g \in old \ Kept(old, new) THEN {j} ELSE {}))
    \cup (IF g \in new \ Kept(old, new) THEN {j} ELSE {})

LEMMA MergeGroups ==
  ASSUME NEW gs \in Indexes, NEW old \in SUBSET Groups, NEW new \in SUBSET Groups,
         NEW j \in JIDs
  PROVE  /\ mergeItemGroups(gs, j, old, new) \in Indexes
         /\ \A g \in Groups : Members(mergeItemGroups(gs, j, old, new), g)
                              = Merged(gs, j, old, new, g)
<1>1. PICK G \in SUBSET Groups : gs \in [G -> (SUBSET JIDs) \ {{}}]
  BY IndexIsFunction
<1> DEFINE D == {f \in G \cup (new \ Kept(old, new)) : Merged(gs, j, old, new, f) # {}}
<1>2. mergeItemGroups(gs, j, old, new) = [g \in D |-> Merged(gs, j, old, new, g)]
  BY <1>1 DEF mergeItemGroups, Merged
<1>3. \A g \in Groups : Members(gs, g) \in SUBSET JIDs
  BY <1>1 DEF Members
<1>4. \A g \in Groups : Merged(gs, j, old, new, g) \in SUBSET JIDs
  BY <1>3 DEF Merged
<1>5. D \in SUBSET Groups /\ \A g \in D : Merged(gs, j, old, new, g) # {}
  OBVIOUS
<1>6. \A g \in Groups \ D : Merged(gs, j, old, new, g) = {}
  <2>1. \A g \in Groups \ (G \cup (new \ Kept(old, new))) : Merged(gs, j, old, new, g) = {}
    BY <1>1 DEF Members, Merged
  <2> QED
    BY <2>1
<1> HIDE DEF D
<1>7. [g \in D |-> Merged(gs, j, old, new, g)] \in Indexes
  BY <1>4, <1>5, IndexIsFunction
<1>8. \A g \in Groups : Members([f \in D |-> Merged(gs, j, old, new, f)], g)
                        = Merged(gs, j, old, new, g)
  BY <1>6 DEF Members
<1> QED
  BY <1>2, <1>7, <1>8

\* What is kept is old and new.
LEMMA KeptIsBoth ==
  ASSUME NEW old, NEW new, NEW g \in Kept(old, new)
  PROVE  g \in old /\ g \in new
BY DEF Kept

-----------------------------------------------------------------------------
(* One item of a query                                                      *)

LEMMA ItemOfType ==
  ASSUME NEW e \in PushedItems, NEW r \in {0, 1}
  PROVE  /\ filterJID(e.jid) \in RosterKeys /\ e.jid \in JIDs
         /\ ItemOf(e, r) \in Items
         /\ ItemOf(e, r).jid = e.jid /\ ItemOf(e, r).groups = ShownIn(e)
         /\ ItemOf(e, r).rescnt = r
         /\ ShownIn(e) \in SUBSET Groups
<1>1. e.jid \in JIDs /\ e.ask \in BOOLEAN /\ e.in \in SUBSET RealGroups
  BY DEF PushedItems
<1>2. ShownIn(e) \in SUBSET Groups
  BY <1>1, GroupsAssumption DEF ShownIn
<1> QED
  BY <1>1, <1>2 DEF ItemOf, Items, RosterKeys

\* Items are put in and taken out one by one.
LEMMA PutItem ==
  ASSUME NEW m \in ItemMaps, NEW k \in RosterKeys, NEW i \in Items
  PROVE  [x \in DOMAIN m \cup {k} |-> IF x = k THEN i ELSE m[x]] \in ItemMaps
<1>1. PICK K \in SUBSET RosterKeys : m \in [K -> Items]
  BY ItemMapIsFunction
<1>2. [x \in DOMAIN m \cup {k} |-> IF x = k THEN i ELSE m[x]] \in [K \cup {k} -> Items]
  BY <1>1
<1> QED
  BY <1>2, ItemMapIsFunction

LEMMA TakeItem ==
  ASSUME NEW m \in ItemMaps, NEW k
  PROVE  [x \in DOMAIN m \ {k} |-> m[x]] \in ItemMaps
<1>1. PICK K \in SUBSET RosterKeys : m \in [K -> Items]
  BY ItemMapIsFunction
<1>2. [x \in DOMAIN m \ {k} |-> m[x]] \in [K \ {k} -> Items]
  BY <1>1
<1> QED
  BY <1>2, ItemMapIsFunction

LEMMA ItemTypes ==
  ASSUME NEW m \in ItemMaps, NEW k \in DOMAIN m
  PROVE  /\ k \in RosterKeys /\ m[k] \in Items
         /\ m[k].jid \in JIDs /\ m[k].groups \in SUBSET Groups /\ m[k].rescnt \in {0, 1}
BY ItemMapIsFunction DEF Items

(***************************************************************************)
(* Each item of a query keeps the types and leaves no empty group.          *)
(***************************************************************************)
LEMMA PushedType ==
  ASSUME NEW s \in RosterStates, NEW e \in PushedItems
  PROVE  Pushed(s, e) \in RosterStates
<1> DEFINE k == filterJID(e.jid)
<1>1. s.items \in ItemMaps /\ s.groups \in Indexes
  BY DEF RosterStates
<1>2. CASE ~ e.remove
  <2> DEFINE known == k \in DOMAIN s.items
             r == IF known THEN s.items[k].rescnt ELSE 0
             old == IF known THEN s.items[k].groups ELSE {}
  <2>1. r \in {0, 1} /\ old \in SUBSET Groups
    BY <1>1, ItemTypes
  <2> HIDE DEF r, old
  <2>2. /\ k \in RosterKeys /\ e.jid \in JIDs /\ ItemOf(e, r) \in Items
        /\ ItemOf(e, r).jid = e.jid /\ ItemOf(e, r).groups \in SUBSET Groups
    BY <2>1, ItemOfType
  <2>3. [x \in DOMAIN s.items \cup {k} |-> IF x = k THEN ItemOf(e, r) ELSE s.items[x]]
        \in ItemMaps
    BY <1>1, <2>2, PutItem
  <2>4. mergeItemGroups(s.groups, ItemOf(e, r).jid, old, ItemOf(e, r).groups) \in Indexes
    BY <1>1, <2>1, <2>2, MergeGroups
  <2>5. Pushed(s, e) =
          [items  |-> [x \in DOMAIN s.items \cup {k} |->
                         IF x = k THEN ItemOf(e, r) ELSE s.items[x]],
           groups |-> mergeItemGroups(s.groups, ItemOf(e, r).jid, old, ItemOf(e, r).groups)]
    BY <1>2 DEF Pushed, Replaced, r, old
  <2> QED
    BY <2>3, <2>4, <2>5 DEF RosterStates
<1>3. CASE e.remove /\ k \in DOMAIN s.items
  <2>1. s.items[k].jid \in JIDs /\ s.items[k].groups \in SUBSET Groups
    BY <1>1, <1>3, ItemTypes
  <2>2. [x \in DOMAIN s.items \ {k} |-> s.items[x]] \in ItemMaps
    BY <1>1, TakeItem
  <2>3. removeItemFromGroups(s.groups, s.items[k].groups, s.items[k].jid) \in Indexes
    BY <1>1, <2>1, RemoveFromGroups
  <2> QED
    BY <1>3, <2>2, <2>3 DEF Pushed, Removed, RosterStates
<1>4. CASE e.remove /\ k \notin DOMAIN s.items
  BY <1>4 DEF Pushed
<1> QED
  BY <1>2, <1>3, <1>4

(***************************************************************************)
(* What every item of a query keeps, the query keeps.                       *)
(***************************************************************************)
LEMMA QueryStays ==
  ASSUME NEW T, NEW s \in T, NEW q \in Seq(PushedItems),
         \A t \in T, e \in PushedItems : Pushed(t, e) \in T
  PROVE  FoldLeft(Pushed, s, q) \in T
BY Query!FoldStays
DEF Query!Folded, FoldLeft, Query!FoldLeft, MapThenFoldSet, Query!MapThenFoldSet, Max, Query!Max

LEMMA UpdateIsFold ==
  ASSUME NEW q \in Pushes, update(q)
  PROVE  /\ q \in Seq(PushedItems)
         /\ items' = FoldLeft(Pushed, [items |-> items, groups |-> groups], q).items
         /\ groups' = FoldLeft(Pushed, [items |-> items, groups |-> groups], q).groups
BY PushesAssumption DEF update, Become

-----------------------------------------------------------------------------
(* Types, and no empty group                                                *)

LEMMA RosterStart ==
  Init => RosterStateOK
<1> SUFFICES ASSUME Init PROVE RosterStateOK
  OBVIOUS
<1>1. items \in [{} -> Items] /\ groups \in [{} -> (SUBSET JIDs) \ {{}}]
  BY DEF Init
<1> QED
  BY <1>1, ItemMapIsFunction, IndexIsFunction DEF RosterStateOK

\* An edit of an item changes that item only.
LEMMA EditItem ==
  ASSUME items \in ItemMaps, NEW k \in DOMAIN items, NEW i \in Items,
         items' = [items EXCEPT ![k] = i]
  PROVE  items' \in ItemMaps
BY ItemMapIsFunction

LEMMA EditKeepsState ==
  ASSUME RosterStateOK, Edit
  PROVE  RosterStateOK'
<1>1. groups' = groups
  BY DEF Edit, addToGroup, delFromGroup, clearGroups, setJID
<1>2. PICK k \in DOMAIN items :
        \/ \E g \in RealGroups : addToGroup(k, g) \/ delFromGroup(k, g)
        \/ clearGroups(k)
        \/ \E j \in JIDs : setJID(k, j)
  BY DEF Edit
<1>3. items \in ItemMaps /\ items[k] \in Items
  BY ItemTypes DEF RosterStateOK
<1>4. RealGroups \subseteq Groups
  BY GroupsAssumption
<1>5. \E i \in Items : items' = [items EXCEPT ![k] = i]
  <2>1. ASSUME NEW G \in SUBSET Groups PROVE [items[k] EXCEPT !.groups = G] \in Items
    BY <1>3 DEF Items
  <2>2. ASSUME NEW j \in JIDs PROVE [items[k] EXCEPT !.jid = j] \in Items
    BY <1>3 DEF Items
  <2>3. items[k].groups \in SUBSET Groups
    BY <1>3 DEF Items
  <2>4. CASE \E g \in RealGroups : addToGroup(k, g) \/ delFromGroup(k, g)
    <3>1. PICK g \in RealGroups : addToGroup(k, g) \/ delFromGroup(k, g)
      BY <2>4
    <3>2. items[k].groups \cup {g} \in SUBSET Groups /\ items[k].groups \ {g} \in SUBSET Groups
      BY <1>4, <2>3
    <3> QED
      BY <2>1, <3>1, <3>2 DEF addToGroup, delFromGroup
  <2>5. CASE clearGroups(k)
    BY <2>1, <2>5 DEF clearGroups
  <2>6. CASE \E j \in JIDs : setJID(k, j)
    BY <2>2, <2>6 DEF setJID
  <2> QED
    BY <1>2, <2>4, <2>5, <2>6
<1> QED
  BY <1>1, <1>3, <1>5, EditItem DEF RosterStateOK

LEMMA RosterStep ==
  ASSUME RosterStateOK, [Next]_vars
  PROVE  RosterStateOK'
<1>1. ASSUME NEW q \in Pushes, update(q) PROVE RosterStateOK'
  <2> DEFINE s == [items |-> items, groups |-> groups]
  <2>1. s \in RosterStates
    BY DEF RosterStates, RosterStateOK
  <2>2. FoldLeft(Pushed, s, q) \in RosterStates
    BY <1>1, <2>1, UpdateIsFold, QueryStays, PushedType
  <2> QED
    BY <1>1, <2>2, UpdateIsFold DEF RosterStates, RosterStateOK
<1>2. CASE reset
  <2>1. items' \in [{} -> Items] /\ groups' = groups
    BY <1>2 DEF reset
  <2> QED
    BY <2>1, ItemMapIsFunction DEF RosterStateOK
<1>3. CASE Edit
  BY <1>3, EditKeepsState
<1>4. CASE UNCHANGED vars
  BY <1>4 DEF vars, RosterStateOK
<1> QED
  BY <1>1, <1>2, <1>3, <1>4 DEF Next

LEMMA StateOKInOrder ==
  RosterStateOK => RosterInv
<1> SUFFICES ASSUME RosterStateOK PROVE RosterInv
  OBVIOUS
<1>1. PICK K \in SUBSET RosterKeys : items \in [K -> Items]
  BY ItemMapIsFunction DEF RosterStateOK
<1>2. PICK G \in SUBSET Groups : groups \in [G -> (SUBSET JIDs) \ {{}}]
  BY IndexIsFunction DEF RosterStateOK
<1> QED
  BY <1>1, <1>2 DEF RosterInv, TypeOK, NoEmptyGroup

(***************************************************************************)
(* Whatever the server pushes and the application edits, the items stay     *)
(* items and no group of the index is empty: a client that draws a heading  *)
(* per group of getGroups() draws none over nothing.                        *)
(***************************************************************************)
THEOREM RosterInOrder == Spec => []RosterInv
<1>1. Init => RosterStateOK
  BY RosterStart
<1>2. RosterStateOK /\ [Next]_vars => RosterStateOK'
  BY RosterStep
<1>3. RosterStateOK => RosterInv
  BY StateOKInOrder
<1> QED
  BY <1>1, <1>2, <1>3, PTL DEF Spec

-----------------------------------------------------------------------------
(* The index and the items                                                  *)

\* Each item is filed under the key of its JID.
FiledByJID(s) == \A k \in DOMAIN s.items : filterJID(s.items[k].jid) = k

\* Each item is listed, in some spelling, in its groups.
AllListed(s) ==
    \A k \in DOMAIN s.items : \A g \in s.items[k].groups :
        \E m \in Members(s.groups, g) : filterJID(m) = k

\* j is listed in g and is no item that is in it.
GhostIn(s, g, j) ==
    /\ j \in Members(s.groups, g)
    /\ \A k \in DOMAIN s.items : s.items[k].jid = j => g \notin s.items[k].groups

\* s has no ghost among the contacts named in one way that s0 has not.
NoNewGhost(s0, s) ==
    \A g \in Groups, j \in NamedOneWay : GhostIn(s, g, j) => GhostIn(s0, g, j)

(***************************************************************************)
(* What a pushed item does to the items and to the members of each group.   *)
(***************************************************************************)
LEMMA ReplacedIs ==
  ASSUME NEW s \in RosterStates, NEW e \in PushedItems, ~ e.remove,
         NEW k, k = filterJID(e.jid)
  PROVE  LET p == Pushed(s, e)
             old == IF k \in DOMAIN s.items THEN s.items[k].groups ELSE {}
         IN  /\ DOMAIN p.items = DOMAIN s.items \cup {k}
             /\ p.items[k].jid = e.jid /\ p.items[k].groups = ShownIn(e)
             /\ \A x \in DOMAIN s.items \ {k} : p.items[x] = s.items[x]
             /\ \A g \in Groups : Members(p.groups, g)
                                  = Merged(s.groups, e.jid, old, ShownIn(e), g)
<1> DEFINE known == k \in DOMAIN s.items
           r == IF known THEN s.items[k].rescnt ELSE 0
           old == IF known THEN s.items[k].groups ELSE {}
<1>1. s.items \in ItemMaps /\ s.groups \in Indexes
  BY DEF RosterStates
<1>2. r \in {0, 1} /\ old \in SUBSET Groups
  BY <1>1, ItemTypes
<1>3. Pushed(s, e) =
        [items  |-> [x \in DOMAIN s.items \cup {k} |->
                       IF x = k THEN ItemOf(e, r) ELSE s.items[x]],
         groups |-> mergeItemGroups(s.groups, ItemOf(e, r).jid, old, ItemOf(e, r).groups)]
  BY DEF Pushed, Replaced, r, old
<1> HIDE DEF r, old
<1>4. /\ e.jid \in JIDs /\ ShownIn(e) \in SUBSET Groups
      /\ ItemOf(e, r).jid = e.jid /\ ItemOf(e, r).groups = ShownIn(e)
  BY <1>2, ItemOfType
<1>5. \A g \in Groups : Members(mergeItemGroups(s.groups, e.jid, old, ShownIn(e)), g)
                        = Merged(s.groups, e.jid, old, ShownIn(e), g)
  BY <1>1, <1>2, <1>4, MergeGroups
<1> DEFINE p == Pushed(s, e)
           put == [x \in DOMAIN s.items \cup {k} |->
                     IF x = k THEN ItemOf(e, r) ELSE s.items[x]]
<1>6. p.items = put
  BY <1>3
<1>7. /\ DOMAIN put = DOMAIN s.items \cup {k} /\ put[k] = ItemOf(e, r)
      /\ \A x \in DOMAIN s.items \ {k} : put[x] = s.items[x]
  OBVIOUS
<1>8. p.groups = mergeItemGroups(s.groups, e.jid, old, ShownIn(e))
  BY <1>3, <1>4
<1> HIDE DEF p, put
<1>9. /\ DOMAIN p.items = DOMAIN s.items \cup {k}
      /\ p.items[k].jid = e.jid /\ p.items[k].groups = ShownIn(e)
      /\ \A x \in DOMAIN s.items \ {k} : p.items[x] = s.items[x]
      /\ \A g \in Groups : Members(p.groups, g) = Merged(s.groups, e.jid, old, ShownIn(e), g)
  BY <1>4, <1>5, <1>6, <1>7, <1>8
<1> QED
  BY <1>9 DEF old, p

LEMMA RemovedIs ==
  ASSUME NEW s \in RosterStates, NEW e \in PushedItems, e.remove,
         NEW k \in DOMAIN s.items, k = filterJID(e.jid)
  PROVE  LET p == Pushed(s, e) IN
             /\ DOMAIN p.items = DOMAIN s.items \ {k}
             /\ \A x \in DOMAIN s.items \ {k} : p.items[x] = s.items[x]
             /\ \A g \in Groups : Members(p.groups, g)
                    = Without(s.groups, s.items[k].groups, s.items[k].jid, g)
<1>1. s.items \in ItemMaps /\ s.groups \in Indexes
  BY DEF RosterStates
<1>2. s.items[k].jid \in JIDs /\ s.items[k].groups \in SUBSET Groups
  BY <1>1, ItemTypes
<1>3. Pushed(s, e) =
        [items  |-> [x \in DOMAIN s.items \ {k} |-> s.items[x]],
         groups |-> removeItemFromGroups(s.groups, s.items[k].groups, s.items[k].jid)]
  BY DEF Pushed, Removed
<1> DEFINE p == Pushed(s, e)
           left == [x \in DOMAIN s.items \ {k} |-> s.items[x]]
<1>4. p.items = left
  BY <1>3
<1>5. /\ DOMAIN left = DOMAIN s.items \ {k}
      /\ \A x \in DOMAIN s.items \ {k} : left[x] = s.items[x]
  OBVIOUS
<1>6. \A g \in Groups : Members(p.groups, g)
          = Without(s.groups, s.items[k].groups, s.items[k].jid, g)
  <2>1. p.groups = removeItemFromGroups(s.groups, s.items[k].groups, s.items[k].jid)
    BY <1>3
  <2> HIDE DEF p
  <2> QED
    BY <1>1, <1>2, <2>1, RemoveFromGroups
<1> HIDE DEF p, left
<1>7. /\ DOMAIN p.items = DOMAIN s.items \ {k}
      /\ \A x \in DOMAIN s.items \ {k} : p.items[x] = s.items[x]
  BY <1>4, <1>5
<1> QED
  BY <1>6, <1>7 DEF p

LEMMA UnknownRemovedIs ==
  ASSUME NEW s, NEW e, e.remove, filterJID(e.jid) \notin DOMAIN s.items
  PROVE  Pushed(s, e) = s
BY DEF Pushed

LEMMA PushedFiled ==
  ASSUME NEW s \in RosterStates, FiledByJID(s), NEW e \in PushedItems
  PROVE  FiledByJID(Pushed(s, e))
<1> DEFINE k == filterJID(e.jid)
<1>1. CASE ~ e.remove
  BY <1>1, ReplacedIs DEF FiledByJID
<1>2. CASE e.remove /\ k \in DOMAIN s.items
  BY <1>2, RemovedIs DEF FiledByJID
<1>3. CASE e.remove /\ k \notin DOMAIN s.items
  BY <1>3, UnknownRemovedIs
<1> QED
  BY <1>1, <1>2, <1>3

LEMMA PushedListed ==
  ASSUME NEW s \in RosterStates, FiledByJID(s), AllListed(s), NEW e \in PushedItems
  PROVE  AllListed(Pushed(s, e))
<1> DEFINE p == Pushed(s, e)
<1>0. PICK k : k = filterJID(e.jid)
  OBVIOUS
<1>1. s.items \in ItemMaps
  BY DEF RosterStates
<1>t. \A x \in DOMAIN s.items : s.items[x].groups \in SUBSET Groups /\ s.items[x].jid \in JIDs
  BY <1>1, ItemTypes
<1>e. ShownIn(e) \in SUBSET Groups
  BY ItemOfType
<1>2. CASE ~ e.remove
  <2> DEFINE old == IF k \in DOMAIN s.items THEN s.items[k].groups ELSE {}
  <2>1. /\ DOMAIN p.items = DOMAIN s.items \cup {k}
        /\ p.items[k].groups = ShownIn(e)
        /\ \A x \in DOMAIN s.items \ {k} : p.items[x] = s.items[x]
        /\ \A g \in Groups : Members(p.groups, g)
                             = Merged(s.groups, e.jid, old, ShownIn(e), g)
    BY <1>0, <1>2, ReplacedIs
  <2> HIDE DEF p
  <2>2. ASSUME NEW g \in ShownIn(e)
        PROVE  \E m \in Members(p.groups, g) : filterJID(m) = k
    <3>1. CASE g \in Kept(old, ShownIn(e))
      <4>1. g \in old
        BY <3>1, KeptIsBoth
      <4>2. PICK m \in Members(s.groups, g) : filterJID(m) = k
        BY <4>1 DEF AllListed
      <4>3. m \in Members(p.groups, g)
        BY <1>e, <2>1, <3>1, <4>2 DEF Merged
      <4> QED
        BY <4>2, <4>3
    <3>2. CASE g \notin Kept(old, ShownIn(e))
      <4>1. e.jid \in Members(p.groups, g)
        BY <1>e, <2>1, <3>2 DEF Merged
      <4> QED
        BY <1>0, <4>1
    <3> QED
      BY <3>1, <3>2
  <2>3. ASSUME NEW x \in DOMAIN s.items \ {k}, NEW g \in s.items[x].groups
        PROVE  \E m \in Members(p.groups, g) : filterJID(m) = x
    <3>1. PICK m \in Members(s.groups, g) : filterJID(m) = x
      BY DEF AllListed
    <3>2. m # e.jid
      BY <1>0, <3>1
    <3>3. m \in Members(p.groups, g)
      BY <1>t, <2>1, <3>1, <3>2 DEF Merged
    <3> QED
      BY <3>1, <3>3
  <2>4. AllListed(p)
    BY <2>1, <2>2, <2>3 DEF AllListed
  <2> QED
    BY <2>4 DEF p
<1>3. CASE e.remove /\ k \in DOMAIN s.items
  <2>1. /\ DOMAIN p.items = DOMAIN s.items \ {k}
        /\ \A x \in DOMAIN s.items \ {k} : p.items[x] = s.items[x]
        /\ \A g \in Groups : Members(p.groups, g)
               = Without(s.groups, s.items[k].groups, s.items[k].jid, g)
    BY <1>0, <1>3, RemovedIs
  <2> HIDE DEF p
  <2>2. filterJID(s.items[k].jid) = k
    BY <1>3 DEF FiledByJID
  <2>3. ASSUME NEW x \in DOMAIN s.items \ {k}, NEW g \in s.items[x].groups
        PROVE  \E m \in Members(p.groups, g) : filterJID(m) = x
    <3>1. PICK m \in Members(s.groups, g) : filterJID(m) = x
      BY DEF AllListed
    <3>2. m # s.items[k].jid
      BY <2>2, <3>1
    <3>3. m \in Members(p.groups, g)
      BY <1>t, <2>1, <3>1, <3>2 DEF Without
    <3> QED
      BY <3>1, <3>3
  <2>4. AllListed(p)
    BY <2>1, <2>3 DEF AllListed
  <2> QED
    BY <2>4 DEF p
<1>4. CASE e.remove /\ k \notin DOMAIN s.items
  BY <1>0, <1>4, UnknownRemovedIs
<1> QED
  BY <1>2, <1>3, <1>4

LEMMA PushedHauntsNoOne ==
  ASSUME NEW s0, NEW s \in RosterStates, FiledByJID(s), NoNewGhost(s0, s),
         NEW e \in PushedItems
  PROVE  NoNewGhost(s0, Pushed(s, e))
<1> DEFINE p == Pushed(s, e)
<1>0. PICK k : k = filterJID(e.jid)
  OBVIOUS
<1> SUFFICES ASSUME NEW g \in Groups, NEW j \in NamedOneWay, GhostIn(p, g, j)
             PROVE  GhostIn(s, g, j)
  BY DEF NoNewGhost
<1>j. j \in JIDs /\ e.jid \in JIDs /\ (filterJID(j) = k => e.jid = j)
  BY <1>0, ItemOfType DEF NamedOneWay
<1>2. CASE ~ e.remove
  <2> DEFINE old == IF k \in DOMAIN s.items THEN s.items[k].groups ELSE {}
  <2>1. /\ DOMAIN p.items = DOMAIN s.items \cup {k}
        /\ p.items[k].jid = e.jid /\ p.items[k].groups = ShownIn(e)
        /\ \A x \in DOMAIN s.items \ {k} : p.items[x] = s.items[x]
        /\ Members(p.groups, g) = Merged(s.groups, e.jid, old, ShownIn(e), g)
    BY <1>0, <1>2, ReplacedIs
  <2> HIDE DEF p
  <2>2. \A x \in DOMAIN s.items \ {k} : s.items[x].jid = j => g \notin s.items[x].groups
    BY <2>1 DEF GhostIn
  <2>3. CASE j = e.jid
    <3>1. g \notin ShownIn(e)
      BY <2>1, <2>3 DEF GhostIn
    <3>2. g \notin Kept(old, ShownIn(e))
      BY <3>1, KeptIsBoth
    <3>3. g \notin old /\ j \in Members(s.groups, g)
      BY <2>1, <2>3, <3>1, <3>2 DEF GhostIn, Merged
    <3> QED
      BY <2>2, <3>3 DEF GhostIn
  <2>4. CASE j # e.jid
    <3>1. j \in Members(s.groups, g)
      BY <2>1, <2>4 DEF GhostIn, Merged
    <3>2. k \in DOMAIN s.items => s.items[k].jid # j
      BY <1>j, <2>4 DEF FiledByJID
    <3> QED
      BY <2>2, <3>1, <3>2 DEF GhostIn
  <2> QED
    BY <2>3, <2>4
<1>3. CASE e.remove /\ k \in DOMAIN s.items
  <2>1. /\ DOMAIN p.items = DOMAIN s.items \ {k}
        /\ \A x \in DOMAIN s.items \ {k} : p.items[x] = s.items[x]
        /\ Members(p.groups, g)
               = Without(s.groups, s.items[k].groups, s.items[k].jid, g)
    BY <1>0, <1>3, RemovedIs
  <2> HIDE DEF p
  <2> QED
    BY <2>1 DEF GhostIn, Without
<1>4. CASE e.remove /\ k \notin DOMAIN s.items
  BY <1>0, <1>4, UnknownRemovedIs
<1> QED
  BY <1>2, <1>3, <1>4

-----------------------------------------------------------------------------
(* The roster as its history tells it                                       *)

IndexOK ==
    /\ RosterStateOK
    /\ edits \in Nat
    /\ ~ edited => LET s == [items |-> items, groups |-> groups]
                   IN  FiledByJID(s) /\ AllListed(s)

\* A query that comes before any edit finds and leaves the index in step.
LEMMA QueryInStep ==
  ASSUME IndexOK, ~ edited, NEW q \in Pushes, update(q)
  PROVE  LET s == [items |-> items, groups |-> groups]
             t == [items |-> items', groups |-> groups']
         IN  t \in RosterStates /\ FiledByJID(t) /\ AllListed(t) /\ NoNewGhost(s, t)
<1> DEFINE s == [items |-> items, groups |-> groups]
           t == [items |-> items', groups |-> groups']
           T == {u \in RosterStates : FiledByJID(u) /\ AllListed(u) /\ NoNewGhost(s, u)}
<1>1. s \in T
  BY DEF RosterStates, RosterStateOK, IndexOK, NoNewGhost
<1>2. \A u \in T, e \in PushedItems : Pushed(u, e) \in T
  BY PushedType, PushedFiled, PushedListed, PushedHauntsNoOne
<1> HIDE DEF T, s
<1>3. FoldLeft(Pushed, s, q) \in T
  BY <1>1, <1>2, UpdateIsFold, QueryStays
<1>4. FoldLeft(Pushed, s, q) = t
  BY <1>3, UpdateIsFold DEF T, RosterStates, s
<1> QED
  BY <1>3, <1>4 DEF T, s

LEMMA IndexStart ==
  HInit => IndexOK
<1> SUFFICES ASSUME HInit PROVE IndexOK
  OBVIOUS
<1>1. RosterStateOK
  BY RosterStart DEF HInit
<1>2. DOMAIN items = {} /\ edits = 0
  BY DEF HInit, Init
<1> QED
  BY <1>1, <1>2 DEF IndexOK, FiledByJID, AllListed

LEMMA IndexStep ==
  ASSUME IndexOK, [HNext]_hvars
  PROVE  IndexOK'
<1>1. RosterStateOK'
  BY RosterStep DEF IndexOK, HNext, Next, hvars
<1>2. ASSUME NEW q \in Pushes, update(q), UNCHANGED edits PROVE IndexOK'
  BY <1>1, <1>2, QueryInStep DEF IndexOK, edited
<1>3. CASE reset /\ UNCHANGED edits
  <2>1. DOMAIN items' = {} /\ edits' = edits
    BY <1>3 DEF reset
  <2> QED
    BY <1>1, <2>1 DEF IndexOK, FiledByJID, AllListed, edited
<1>4. CASE Edit /\ edits' = edits + 1
  <2>1. edits' \in Nat /\ edits' > 0
    BY <1>4 DEF IndexOK
  <2> QED
    BY <1>1, <2>1 DEF IndexOK, edited
<1>5. CASE UNCHANGED hvars
  BY <1>1, <1>5 DEF IndexOK, hvars, vars, edited
<1> QED
  BY <1>2, <1>3, <1>4, <1>5 DEF HNext

LEMMA IndexAlways == HSpec => []IndexOK
<1>1. HInit => IndexOK
  BY IndexStart
<1>2. IndexOK /\ [HNext]_hvars => IndexOK'
  BY IndexStep
<1> QED
  BY <1>1, <1>2, PTL DEF HSpec

(***************************************************************************)
(* However the server spells JIDs, moves items between groups and removes   *)
(* them, and whenever the stream ends, each item is listed in each of its   *)
(* groups as long as the application has not edited one.                    *)
(***************************************************************************)
THEOREM ItemsAreListed == HSpec => []EveryItemListed
<1>1. IndexOK => EveryItemListed
  BY DEF IndexOK, AllListed, EveryItemListed
<1> QED
  BY <1>1, IndexAlways, PTL

(***************************************************************************)
(* Of the contacts the server names in one way, a query leaves none in a    *)
(* group it is not in: only a reset does.                                   *)
(***************************************************************************)
THEOREM QueriesLeaveNoGhosts == HSpec => OnlyResetLeavesGhosts
<1> DEFINE Step == edited' \/ reset \/ \A gj \in Ghosts' \ Ghosts : gj[2] \notin NamedOneWay
<1>1. ASSUME IndexOK, [HNext]_hvars PROVE [Step]_hvars
  <2>1. ASSUME NEW q \in Pushes, update(q), UNCHANGED edits, ~ edited
        PROVE  \A gj \in Ghosts' \ Ghosts : gj[2] \notin NamedOneWay
    <3>1. NoNewGhost([items |-> items, groups |-> groups],
                     [items |-> items', groups |-> groups'])
      BY <1>1, <2>1, QueryInStep
    <3> QED
      BY <3>1 DEF NoNewGhost, GhostIn, Ghosts
  <2>2. CASE Edit /\ edits' = edits + 1
    BY <1>1, <2>2 DEF IndexOK, edited
  <2> QED
    BY <1>1, <2>1, <2>2 DEF HNext, edited
<1>2. IndexOK /\ [HNext]_hvars => [Step]_hvars
  BY <1>1
<1> HIDE DEF Step
<1>3. HSpec => [][Step]_hvars
  BY <1>2, IndexAlways, PTL DEF HSpec
<1> QED
  BY <1>3 DEF OnlyResetLeavesGhosts, Step

-----------------------------------------------------------------------------
(***************************************************************************)
(* The loop of Roster::mergeItemGroups does what the roster takes it for,   *)
(* with any groups, any order of them and any index.                        *)
(*                                                                          *)
(* The groups the loop leaves alone are a prefix of the new ones (Kept).    *)
(* While old groups are left, the new ones it has passed are old ones it    *)
(* has passed, all of them kept; the next new one, if it is to be kept, is  *)
(* still to come among the old ones, since both are sorted.  So the loop    *)
(* takes the item out of old groups that are not kept, and enters it into   *)
(* new groups that are not kept.                                            *)
(***************************************************************************)
Passed(s, i) == {s[k] : k \in 1 .. i - 1}
keep == Kept(OldSet, NewSet)

\* What the loop has made of a group
SoFar(g) ==
    (Members(before, g) \ (IF g \in Passed(oldgrp, old_it) \ keep THEN {itemjid} ELSE {}))
    \cup (IF g \in Passed(newgrp, new_it) \ keep THEN {itemjid} ELSE {})

MergeTypeOK ==
    /\ before \in IndexOver(Jids) /\ index \in IndexOver(Jids)
    /\ oldgrp \in GroupLists /\ newgrp \in GroupLists
    /\ old_it \in 1 .. Len(oldgrp) + 1 /\ new_it \in 1 .. Len(newgrp) + 1

SideBySide ==
    /\ OldLeft => Passed(newgrp, new_it) \subseteq Passed(oldgrp, old_it) \cap keep
    /\ NewLeft /\ newgrp[new_it] \in keep => newgrp[new_it] \notin Passed(oldgrp, old_it)

MergeInv ==
    /\ MergeTypeOK
    /\ SideBySide
    /\ \A g \in Groups : Members(index, g) = SoFar(g)

-----------------------------------------------------------------------------
\* An index is a function from some groups to sets that are not empty.
LEMMA IndexOverJids ==
  ASSUME NEW gs
  PROVE  gs \in IndexOver(Jids)
         <=> \E G \in SUBSET Groups : gs \in [G -> (SUBSET Jids) \ {{}}]
BY DEF IndexOver

LEMMA InsertInGroup ==
  ASSUME NEW gs \in IndexOver(Jids), NEW g \in Groups, NEW j \in Jids
  PROVE  /\ insertInGroup(gs, g, j) \in IndexOver(Jids)
         /\ \A f \in Groups : Members(insertInGroup(gs, g, j), f)
                              = IF f = g THEN Members(gs, g) \cup {j} ELSE Members(gs, f)
<1>1. PICK G \in SUBSET Groups : gs \in [G -> (SUBSET Jids) \ {{}}]
  BY IndexOverJids
<1>2. insertInGroup(gs, g, j) \in [G \cup {g} -> (SUBSET Jids) \ {{}}]
  <2>1. insertInGroup(gs, g, j)
        = [f \in G \cup {g} |-> IF f = g THEN Members(gs, g) \cup {j} ELSE gs[f]]
    BY <1>1 DEF insertInGroup
  <2>2. Members(gs, g) \cup {j} \in (SUBSET Jids) \ {{}}
    BY <1>1 DEF Members
  <2>3. \A f \in G \cup {g} : (IF f = g THEN Members(gs, g) \cup {j} ELSE gs[f])
                              \in (SUBSET Jids) \ {{}}
    BY <1>1, <2>2
  <2> QED
    BY <2>1, <2>3
<1>3. G \cup {g} \in SUBSET Groups
  OBVIOUS
<1>4. insertInGroup(gs, g, j) \in IndexOver(Jids)
  BY <1>2, <1>3, IndexOverJids
<1>5. ASSUME NEW f \in Groups
      PROVE  Members(insertInGroup(gs, g, j), f)
             = IF f = g THEN Members(gs, g) \cup {j} ELSE Members(gs, f)
  BY <1>1 DEF insertInGroup, Members
<1> QED
  BY <1>4, <1>5

LEMMA RemoveFromGroup ==
  ASSUME NEW gs \in IndexOver(Jids), NEW g \in Groups, NEW j \in Jids
  PROVE  /\ removeItemFromGroup(gs, g, j) \in IndexOver(Jids)
         /\ \A f \in Groups : Members(removeItemFromGroup(gs, g, j), f)
                              = IF f = g THEN Members(gs, g) \ {j} ELSE Members(gs, f)
<1>1. PICK G \in SUBSET Groups : gs \in [G -> (SUBSET Jids) \ {{}}]
  BY IndexOverJids
<1> DEFINE D == G \ (IF EmptiedBy(gs, g, j) THEN {g} ELSE {})
<1>2. removeItemFromGroup(gs, g, j) = [f \in D |-> IF f = g THEN gs[f] \ {j} ELSE gs[f]]
  BY <1>1 DEF removeItemFromGroup
<1>3. \A f \in D : (IF f = g THEN gs[f] \ {j} ELSE gs[f]) \in (SUBSET Jids) \ {{}}
  BY <1>1 DEF EmptiedBy
<1>4. removeItemFromGroup(gs, g, j) \in [D -> (SUBSET Jids) \ {{}}]
  BY <1>2, <1>3
<1>5. D \in SUBSET Groups
  OBVIOUS
<1>6. removeItemFromGroup(gs, g, j) \in IndexOver(Jids)
  BY <1>4, <1>5, IndexOverJids
<1>7. ASSUME NEW f \in Groups
      PROVE  Members(removeItemFromGroup(gs, g, j), f)
             = IF f = g THEN Members(gs, g) \ {j} ELSE Members(gs, f)
  BY <1>1, <1>2 DEF Members, EmptiedBy
<1> QED
  BY <1>6, <1>7

\* The loop passes one group at a time.
LEMMA PassedOne ==
  ASSUME NEW s, NEW i \in Nat \ {0}
  PROVE  Passed(s, i + 1) = Passed(s, i) \cup {s[i]}
<1>1. 1 .. (i + 1) - 1 = (1 .. i - 1) \cup {i}
  OBVIOUS
<1> QED
  BY <1>1 DEF Passed

LEMMA SortedStrictly ==
  ASSUME NEW s \in GroupLists, NEW i \in 1 .. Len(s), NEW k \in 1 .. Len(s)
  PROVE  /\ s[i] \in Groups
         /\ i < k => Precedes(s[i], s[k])
         /\ Precedes(s[i], s[k]) => i < k
         /\ s[i] = s[k] => i = k
<1>1. Sorted(s) /\ Len(s) \in Nat /\ \A m \in 1 .. Len(s) : s[m] \in Groups
  BY MergeAssumption DEF Sorted
<1>2. i < k => Precedes(s[i], s[k])
  BY <1>1 DEF Sorted
<1>3. k < i => Precedes(s[k], s[i])
  BY <1>1 DEF Sorted
<1>4. ~ Precedes(s[i], s[i]) /\ ~ Precedes(s[k], s[k])
  BY <1>1, NameOrderAssumption DEF Precedes
<1>5. ~ (Precedes(s[i], s[k]) /\ Precedes(s[k], s[i]))
  BY <1>1, <1>4, NameOrderAssumption DEF Precedes
<1> QED
  BY <1>1, <1>2, <1>3, <1>4, <1>5

\* The groups that are kept are old and new ones, with all new ones before them.
LEMMA KeptIsPrefix ==
  ASSUME NEW g \in keep
  PROVE  /\ g \in OldSet \cap NewSet
         /\ \A f \in NewSet : Precedes(f, g) => f \in OldSet
BY DEF keep, Kept

-----------------------------------------------------------------------------
\* Where both agree, the group is kept.
LEMMA EqualIsKept ==
  ASSUME MergeInv, OldLeft, NewLeft, oldgrp[old_it] = newgrp[new_it]
  PROVE  newgrp[new_it] \in keep
<1>1. new_it \in 1 .. Len(newgrp) /\ old_it \in 1 .. Len(oldgrp)
  BY DEF MergeInv, MergeTypeOK, OldLeft, NewLeft
<1>2. newgrp[new_it] \in NewSet /\ newgrp[new_it] \in OldSet
  BY <1>1 DEF NewSet, OldSet
<1>3. ASSUME NEW f \in NewSet, Precedes(f, newgrp[new_it])
      PROVE  f \in OldSet
  <2>1. PICK k \in 1 .. Len(newgrp) : f = newgrp[k]
    BY DEF NewSet
  <2>2. k < new_it
    BY <1>1, <1>3, <2>1, SortedStrictly DEF MergeInv, MergeTypeOK
  <2>3. f \in Passed(newgrp, new_it)
    BY <1>1, <2>1, <2>2 DEF Passed
  <2>4. f \in keep
    BY <2>3 DEF MergeInv, SideBySide
  <2> QED
    BY <2>4, KeptIsPrefix
<1> QED
  BY <1>2, <1>3 DEF keep, Kept

\* Where they differ, the old group is not kept.
LEMMA DifferentIsNotKept ==
  ASSUME MergeInv, OldLeft, NewLeft => oldgrp[old_it] # newgrp[new_it]
  PROVE  oldgrp[old_it] \notin keep
<1> DEFINE g == oldgrp[old_it]
<1> SUFFICES ASSUME g \in keep
             PROVE  FALSE
  OBVIOUS
<1>1. /\ old_it \in 1 .. Len(oldgrp) /\ new_it \in 1 .. Len(newgrp) + 1
      /\ oldgrp \in GroupLists /\ newgrp \in GroupLists
      /\ Len(oldgrp) \in Nat /\ Len(newgrp) \in Nat
  BY MergeAssumption DEF MergeInv, MergeTypeOK, OldLeft, Sorted
<1>2. PICK k \in 1 .. Len(newgrp) : g = newgrp[k]
  BY KeptIsPrefix DEF NewSet
<1>3. CASE k < new_it
  <2>1. g \in Passed(newgrp, new_it)
    BY <1>1, <1>2, <1>3 DEF Passed
  <2>2. g \in Passed(oldgrp, old_it)
    BY <2>1 DEF MergeInv, SideBySide
  <2>3. PICK i \in 1 .. old_it - 1 : g = oldgrp[i]
    BY <2>2 DEF Passed
  <2>4. i \in 1 .. Len(oldgrp) /\ i # old_it
    BY <1>1
  <2> QED
    BY <1>1, <2>3, <2>4, SortedStrictly
<1>4. CASE k >= new_it
  <2>1. new_it \in 1 .. Len(newgrp)
    BY <1>1, <1>4
  <2>2. NewLeft /\ k # new_it
    BY <1>1, <1>2, <2>1 DEF NewLeft
  <2>3. Precedes(newgrp[new_it], g)
    BY <1>1, <1>2, <1>4, <2>1, <2>2, SortedStrictly
  <2>4. newgrp[new_it] \in NewSet
    BY <2>1 DEF NewSet
  <2>5. newgrp[new_it] \in OldSet
    BY <2>3, <2>4, KeptIsPrefix
  <2>6. PICK i \in 1 .. Len(oldgrp) : newgrp[new_it] = oldgrp[i]
    BY <2>5 DEF OldSet
  <2>7. i < old_it
    BY <1>1, <2>3, <2>6, SortedStrictly
  <2>8. newgrp[new_it] \in Passed(oldgrp, old_it)
    BY <1>1, <2>6, <2>7 DEF Passed
  <2>9. newgrp[new_it] \in keep
    <3>1. ASSUME NEW f \in NewSet, Precedes(f, newgrp[new_it])
          PROVE  f \in OldSet
      <4>1. f \in Groups /\ g \in Groups /\ newgrp[new_it] \in Groups
        BY <1>1, <1>2, <2>1, SortedStrictly DEF NewSet
      <4>2. Precedes(f, g)
        BY <2>3, <3>1, <4>1, NameOrderAssumption DEF Precedes
      <4> QED
        BY <4>2, KeptIsPrefix
    <3> QED
      BY <2>4, <2>5, <3>1 DEF keep, Kept
  <2> QED
    BY <2>2, <2>8, <2>9 DEF MergeInv, SideBySide
<1> QED
  BY <1>1, <1>3, <1>4

\* When the old ones have all been passed, none that is entered is kept.
LEMMA EnteredIsNotKept ==
  ASSUME MergeInv, ~ OldLeft, NewLeft
  PROVE  newgrp[new_it] \notin keep
<1>1. old_it = Len(oldgrp) + 1 /\ Len(oldgrp) \in Nat
  BY MergeAssumption DEF MergeInv, MergeTypeOK, OldLeft, Sorted
<1>2. Passed(oldgrp, old_it) = OldSet
  BY <1>1 DEF Passed, OldSet
<1> QED
  BY <1>2, KeptIsPrefix DEF MergeInv, SideBySide

-----------------------------------------------------------------------------
LEMMA MergeStarts == MergeInit => MergeInv
<1> SUFFICES ASSUME MergeInit
             PROVE  MergeInv
  OBVIOUS
<1>1. MergeTypeOK
  BY MergeAssumption DEF MergeInit, MergeTypeOK, Sorted
<1>2. Passed(oldgrp, old_it) = {} /\ Passed(newgrp, new_it) = {}
  BY DEF MergeInit, Passed
<1>3. SideBySide
  BY <1>2 DEF SideBySide
<1>4. \A g \in Groups : Members(index, g) = SoFar(g)
  BY <1>2 DEF SoFar, MergeInit
<1> QED
  BY <1>1, <1>3, <1>4 DEF MergeInv

LEMMA SkipEqualKeeps == MergeInv /\ SkipEqual => MergeInv'
<1> SUFFICES ASSUME MergeInv, SkipEqual
             PROVE  MergeInv'
  OBVIOUS
<1> DEFINE g == newgrp[new_it]
<1>1. g \in keep /\ g = oldgrp[old_it]
  BY EqualIsKept DEF SkipEqual
<1>2. /\ old_it \in 1 .. Len(oldgrp) /\ new_it \in 1 .. Len(newgrp)
      /\ Len(oldgrp) \in Nat /\ Len(newgrp) \in Nat
      /\ oldgrp \in GroupLists /\ newgrp \in GroupLists
  BY MergeAssumption DEF MergeInv, MergeTypeOK, SkipEqual, OldLeft, NewLeft, Sorted
<1>3. /\ oldgrp' = oldgrp /\ newgrp' = newgrp /\ before' = before /\ index' = index
      /\ old_it' = old_it + 1 /\ new_it' = new_it + 1
  BY DEF SkipEqual, args
<1>4. keep' = keep
  BY <1>3 DEF keep, OldSet, NewSet
<1>5. /\ Passed(oldgrp, old_it)' = Passed(oldgrp, old_it) \cup {g}
      /\ Passed(newgrp, new_it)' = Passed(newgrp, new_it) \cup {g}
  <2>1. Passed(oldgrp, old_it + 1) = Passed(oldgrp, old_it) \cup {g}
    BY <1>1, <1>2, PassedOne
  <2>2. Passed(newgrp, new_it + 1) = Passed(newgrp, new_it) \cup {g}
    BY <1>2, PassedOne
  <2> QED
    BY <1>3, <2>1, <2>2 DEF Passed
<1>6. MergeTypeOK'
  BY <1>2, <1>3 DEF MergeInv, MergeTypeOK
<1>7. SideBySide'
  <2>1. Passed(newgrp, new_it)' \subseteq (Passed(oldgrp, old_it) \cap keep)'
    BY <1>1, <1>4, <1>5 DEF MergeInv, SideBySide, SkipEqual
  <2>2. ASSUME NewLeft', newgrp'[new_it'] \in Passed(oldgrp, old_it)'
        PROVE  FALSE
    <3>1. new_it + 1 \in 1 .. Len(newgrp)
      BY <1>2, <1>3, <2>2 DEF NewLeft
    <3>2. Precedes(g, newgrp[new_it + 1])
      BY <1>2, <3>1, SortedStrictly
    <3>3. PICK i \in 1 .. old_it : newgrp[new_it + 1] = oldgrp[i]
      BY <1>2, <1>3, <2>2 DEF Passed
    <3>4. old_it < i
      BY <1>1, <1>2, <3>2, <3>3, SortedStrictly
    <3> QED
      BY <1>2, <3>4
  <2> QED
    BY <2>1, <2>2 DEF SideBySide
<1>8. ASSUME NEW f \in Groups
      PROVE  Members(index', f) = SoFar(f)'
  <2>1. SoFar(f)' = SoFar(f)
    BY <1>1, <1>3, <1>4, <1>5 DEF SoFar
  <2> QED
    BY <1>3, <2>1 DEF MergeInv
<1> QED
  BY <1>6, <1>7, <1>8 DEF MergeInv, Members

LEMMA LeaveOldKeeps == MergeInv /\ LeaveOld => MergeInv'
<1> SUFFICES ASSUME MergeInv, LeaveOld
             PROVE  MergeInv'
  OBVIOUS
<1> DEFINE g == oldgrp[old_it]
<1>1. g \notin keep
  BY DifferentIsNotKept DEF LeaveOld
<1>2. /\ old_it \in 1 .. Len(oldgrp) /\ new_it \in 1 .. Len(newgrp) + 1
      /\ Len(oldgrp) \in Nat /\ Len(newgrp) \in Nat
      /\ oldgrp \in GroupLists /\ newgrp \in GroupLists
  BY MergeAssumption DEF MergeInv, MergeTypeOK, LeaveOld, OldLeft, Sorted
<1>3. /\ oldgrp' = oldgrp /\ newgrp' = newgrp /\ before' = before
      /\ index' = removeItemFromGroup(index, g, itemjid)
      /\ old_it' = old_it + 1 /\ new_it' = new_it
  BY DEF LeaveOld, args
<1>4. keep' = keep
  BY <1>3 DEF keep, OldSet, NewSet
<1>5. /\ Passed(oldgrp, old_it)' = Passed(oldgrp, old_it) \cup {g}
      /\ Passed(newgrp, new_it)' = Passed(newgrp, new_it)
  <2>1. Passed(oldgrp, old_it + 1) = Passed(oldgrp, old_it) \cup {g}
    BY <1>2, PassedOne
  <2> QED
    BY <1>3, <2>1 DEF Passed
<1>6. g \in Groups /\ itemjid \in Jids
  BY <1>2, SortedStrictly, MergeAssumption
<1>7. MergeTypeOK'
  BY <1>2, <1>3, <1>6, RemoveFromGroup DEF MergeInv, MergeTypeOK
<1>8. SideBySide'
  <2>1. Passed(newgrp, new_it)' \subseteq (Passed(oldgrp, old_it) \cap keep)'
    BY <1>4, <1>5 DEF MergeInv, SideBySide, LeaveOld
  <2>2. NewLeft' /\ newgrp'[new_it'] \in keep' => newgrp'[new_it'] \notin Passed(oldgrp, old_it)'
    BY <1>3, <1>4, <1>5 DEF MergeInv, SideBySide, LeaveOld, NewLeft
  <2> QED
    BY <2>1, <2>2 DEF SideBySide
<1>9. ASSUME NEW f \in Groups
      PROVE  Members(index', f) = SoFar(f)'
  <2>1. Members(index', f) = IF f = g THEN Members(index, g) \ {itemjid} ELSE Members(index, f)
    <3>1. index \in IndexOver(Jids)
      BY DEF MergeInv, MergeTypeOK
    <3> HIDE DEF g
    <3>2. \A h \in Groups : Members(removeItemFromGroup(index, g, itemjid), h)
          = IF h = g THEN Members(index, g) \ {itemjid} ELSE Members(index, h)
      BY <1>6, <3>1, RemoveFromGroup
    <3> QED
      BY <1>3, <3>2
  <2>2. Passed(newgrp, new_it) \subseteq keep
    BY DEF MergeInv, SideBySide, LeaveOld
  <2>3. SoFar(f)' = IF f = g THEN SoFar(g) \ {itemjid} ELSE SoFar(f)
    BY <1>1, <1>3, <1>4, <1>5, <2>2 DEF SoFar
  <2> QED
    BY <1>6, <2>1, <2>3 DEF MergeInv
<1> QED
  BY <1>7, <1>8, <1>9 DEF MergeInv, Members

LEMMA EnterNewKeeps == MergeInv /\ EnterNew => MergeInv'
<1> SUFFICES ASSUME MergeInv, EnterNew
             PROVE  MergeInv'
  OBVIOUS
<1> DEFINE g == newgrp[new_it]
<1>1. g \notin keep
  BY EnteredIsNotKept DEF EnterNew
<1>2. /\ old_it = Len(oldgrp) + 1 /\ new_it \in 1 .. Len(newgrp)
      /\ Len(oldgrp) \in Nat /\ Len(newgrp) \in Nat
      /\ oldgrp \in GroupLists /\ newgrp \in GroupLists
  BY MergeAssumption DEF MergeInv, MergeTypeOK, EnterNew, OldLeft, NewLeft, Sorted
<1>3. /\ oldgrp' = oldgrp /\ newgrp' = newgrp /\ before' = before
      /\ index' = insertInGroup(index, g, itemjid)
      /\ old_it' = old_it /\ new_it' = new_it + 1
  BY DEF EnterNew, args
<1>4. keep' = keep
  BY <1>3 DEF keep, OldSet, NewSet
<1>5. /\ Passed(oldgrp, old_it)' = Passed(oldgrp, old_it)
      /\ Passed(newgrp, new_it)' = Passed(newgrp, new_it) \cup {g}
  <2>1. Passed(newgrp, new_it + 1) = Passed(newgrp, new_it) \cup {g}
    BY <1>2, PassedOne
  <2> QED
    BY <1>3, <2>1 DEF Passed
<1>6. g \in Groups /\ itemjid \in Jids
  BY <1>2, SortedStrictly, MergeAssumption
<1>7. MergeTypeOK'
  BY <1>2, <1>3, <1>6, InsertInGroup DEF MergeInv, MergeTypeOK
<1>8. SideBySide'
  <2>1. ~ OldLeft'
    BY <1>2, <1>3 DEF OldLeft
  <2>2. ASSUME NewLeft', newgrp'[new_it'] \in keep'
        PROVE  FALSE
    <3>1. new_it + 1 \in 1 .. Len(newgrp)
      BY <1>2, <1>3, <2>2 DEF NewLeft
    <3>2. Precedes(g, newgrp[new_it + 1]) /\ newgrp[new_it + 1] \in Groups
      BY <1>2, <3>1, SortedStrictly
    <3>3. newgrp[new_it + 1] \in keep
      BY <1>3, <1>4, <2>2
    <3>4. ASSUME NEW f \in NewSet, f = g \/ Precedes(f, g)
          PROVE  f \in OldSet
      <4>1. f \in Groups
        BY <1>2, SortedStrictly DEF NewSet
      <4>2. Precedes(f, newgrp[new_it + 1])
        BY <1>6, <3>2, <3>4, <4>1, NameOrderAssumption DEF Precedes
      <4> QED
        BY <3>3, <4>2, KeptIsPrefix
    <3>5. g \in NewSet
      BY <1>2 DEF NewSet
    <3> QED
      BY <1>1, <3>4, <3>5 DEF keep, Kept
  <2> QED
    BY <2>1, <2>2 DEF SideBySide
<1>9. ASSUME NEW f \in Groups
      PROVE  Members(index', f) = SoFar(f)'
  <2>1. Members(index', f) = IF f = g THEN Members(index, g) \cup {itemjid} ELSE Members(index, f)
    <3>1. index \in IndexOver(Jids)
      BY DEF MergeInv, MergeTypeOK
    <3> HIDE DEF g
    <3>2. \A h \in Groups : Members(insertInGroup(index, g, itemjid), h)
          = IF h = g THEN Members(index, g) \cup {itemjid} ELSE Members(index, h)
      BY <1>6, <3>1, InsertInGroup
    <3> QED
      BY <1>3, <3>2
  <2>2. SoFar(f)' = IF f = g THEN SoFar(g) \cup {itemjid} ELSE SoFar(f)
    BY <1>1, <1>3, <1>4, <1>5 DEF SoFar
  <2> QED
    BY <1>6, <2>1, <2>2 DEF MergeInv
<1> QED
  BY <1>7, <1>8, <1>9 DEF MergeInv, Members

LEMMA MergeInvariant == MergeSpec => []MergeInv
<1>1. MergeInv /\ UNCHANGED mergeVars => MergeInv'
  <2> SUFFICES ASSUME MergeInv, UNCHANGED mergeVars
               PROVE  MergeInv'
    OBVIOUS
  <2>1. MergeTypeOK'
    BY DEF MergeInv, MergeTypeOK, mergeVars, args
  <2>2. keep' = keep /\ Passed(oldgrp, old_it)' = Passed(oldgrp, old_it)
        /\ Passed(newgrp, new_it)' = Passed(newgrp, new_it)
    BY DEF keep, OldSet, NewSet, Passed, mergeVars, args
  <2>3. SideBySide'
    BY <2>2 DEF MergeInv, SideBySide, OldLeft, NewLeft, mergeVars, args
  <2>4. \A g \in Groups : Members(index', g) = SoFar(g)'
    BY <2>2 DEF MergeInv, SoFar, mergeVars, args
  <2> QED
    BY <2>1, <2>3, <2>4 DEF MergeInv, Members
<1>2. MergeInv /\ [MergeNext]_mergeVars => MergeInv'
  BY <1>1, SkipEqualKeeps, LeaveOldKeeps, EnterNewKeeps DEF MergeNext
<1> QED
  BY <1>2, MergeStarts, PTL DEF MergeSpec

\* When both are passed, every group has what mergeItemGroups gives it.
LEMMA DoneSoFar ==
  ASSUME MergeInv, Done, NEW g \in Groups
  PROVE  Members(index, g)
         = (Members(before, g) \ (IF g \in OldSet \ keep THEN {itemjid} ELSE {}))
           \cup (IF g \in NewSet \ keep THEN {itemjid} ELSE {})
<1>1. Passed(oldgrp, old_it) = OldSet /\ Passed(newgrp, new_it) = NewSet
  BY MergeAssumption
  DEF MergeInv, MergeTypeOK, Done, OldLeft, NewLeft, Passed, OldSet, NewSet, Sorted
<1> QED
  BY <1>1 DEF MergeInv, SoFar

(***************************************************************************)
(* When the loop of mergeItemGroups ends, the index is the one the model of *)
(* the roster puts in its place, for all groups, orders and indexes.        *)
(***************************************************************************)
THEOREM LoopMergesGroups == MergeSpec => []MergesGroups
<1>1. MergeInv => MergesGroups
  <2> SUFFICES ASSUME MergeInv, Done
               PROVE  index = mergeItemGroups(before, itemjid, OldSet, NewSet)
    BY DEF MergesGroups
  <2> DEFINE After(g) ==
        (Members(before, g) \ (IF g \in OldSet \ keep THEN {itemjid} ELSE {}))
        \cup (IF g \in NewSet \ keep THEN {itemjid} ELSE {})
      D == {f \in DOMAIN before \cup (NewSet \ keep) : After(f) # {}}
  <2>1. mergeItemGroups(before, itemjid, OldSet, NewSet) = [g \in D |-> After(g)]
    BY DEF mergeItemGroups, keep
  <2>2. PICK G \in SUBSET Groups : index \in [G -> (SUBSET Jids) \ {{}}]
    BY IndexOverJids DEF MergeInv, MergeTypeOK
  <2>3. PICK B \in SUBSET Groups : before \in [B -> (SUBSET Jids) \ {{}}]
    BY IndexOverJids DEF MergeInv, MergeTypeOK
  <2>4. NewSet \subseteq Groups
    BY SortedStrictly DEF NewSet, MergeInv, MergeTypeOK
  <2>5. \A g \in Groups : Members(index, g) = After(g)
    BY DoneSoFar
  <2>6. \A g \in Groups : g \in G <=> After(g) # {}
    <3>1. \A g \in Groups : g \in G <=> Members(index, g) # {}
      BY <2>2 DEF Members
    <3> HIDE DEF After
    <3> QED
      BY <2>5, <3>1
  <2>7. \A g \in Groups : After(g) # {} => g \in DOMAIN before \cup (NewSet \ keep)
    BY <2>3 DEF Members
  <2>8. D \subseteq Groups
    BY <2>3, <2>4
  <2>9. G = D
    BY <2>6, <2>7, <2>8
  <2>10. \A g \in G : index[g] = After(g)
    BY <2>2, <2>5 DEF Members
  <2>11. index = [g \in G |-> index[g]]
    BY <2>2
  <2> QED
    BY <2>1, <2>9, <2>10, <2>11
<1> QED
  BY <1>1, MergeInvariant, PTL

(***************************************************************************)
(* An item that was listed where it was said to be is listed, after the     *)
(* loop, where it is said to be now.                                        *)
(***************************************************************************)
THEOREM LoopListsAsTold == MergeSpec => []ListedAsTold
<1>1. MergeInv => ListedAsTold
  <2> SUFFICES ASSUME MergeInv, Done, NEW g \in Groups,
                      itemjid \in Members(before, g) <=> g \in OldSet
               PROVE  itemjid \in Members(index, g) <=> g \in NewSet
    BY DEF ListedAsTold
  <2>1. g \in keep => g \in OldSet /\ g \in NewSet
    BY KeptIsPrefix
  <2> QED
    BY <2>1, DoneSoFar
<1> QED
  BY <1>1, MergeInvariant, PTL
=============================================================================
