--------------------------- MODULE Contacts_proofs ---------------------------
(***************************************************************************)
(* The roster, the presence database and the session agree on who is        *)
(* online, for any contacts, resources and groups, any presences and roster *)
(* queries of any length in any order, and any number of streams.           *)
(*                                                                          *)
(* A presence touches the list of its own contact only, and the only item   *)
(* of a user under that contact's key is the one it counts.  A roster query *)
(* leaves the database alone, and of an item it replaces it keeps the       *)
(* count; an item that is new has none.                                     *)
(***************************************************************************)
EXTENDS Contacts, TLAPS

Query == INSTANCE SequenceLemmas WITH Op <- R!Pushed

IsItem(i) ==
    /\ i = [jid |-> i.jid, pending |-> i.pending, groups |-> i.groups, rescnt |-> i.rescnt]
    /\ i.rescnt \in {0, 1}

\* Items are items, filed under keys of the roster
ItemsOK(m) == \A k \in DOMAIN m : k \in RosterKeys /\ IsItem(m[k])

ContactsInv ==
    /\ ItemsOK(items)
    /\ heard \subseteq DOMAIN items
    /\ OnlineIsAvailable
    /\ HeardItemsAgree

-----------------------------------------------------------------------------
(* Keys                                                                     *)

\* The roster and the database have their own copies of JIDs.
LEMMA SameKeys ==
  ASSUME NEW j
  PROVE  R!filterJID(j) = filterJID(j) /\ PDB!getUserHost(j) = getUserHost(j)
BY DEF R!filterJID, R!HasUser, filterJID, HasUser, PDB!getUserHost, getUserHost

\* The only key of a user.
LEMMA KeyOfUser ==
  ASSUME NEW k \in RosterKeys, HasUser(k), NEW j \in JIDs
  PROVE  getUserHost(k) = getUserHost(j) <=> k = filterJID(j)
<1>1. PICK i \in JIDs : k = filterJID(i)
  BY DEF RosterKeys
<1>2. k = [bare |-> i.bare, res |-> NoRes] /\ k.bare = i.bare
  BY <1>1 DEF filterJID, HasUser
<1> QED
  BY <1>2 DEF filterJID, HasUser, getUserHost

-----------------------------------------------------------------------------
(* The database                                                             *)

\* A presence of one contact leaves every other one as available as it was.
LEMMA OthersStayAvailable ==
  ASSUME NEW p, PDB!insert(p), NEW h, h # getUserHost(p.from)
  PROVE  PDB!available(h)' = PDB!available(h)
<1>1. PICK l : PDB!SetBucket(getUserHost(p.from), l)
  BY SameKeys DEF PDB!insert
<1>2. h \in DOMAIN db' <=> h \in DOMAIN db
  BY <1>1 DEF PDB!SetBucket
<1>3. h \in DOMAIN db => db'[h] = db[h]
  BY <1>1 DEF PDB!SetBucket
<1> QED
  BY <1>2, <1>3 DEF PDB!available, PDB!contains, PDB!find

\* What a signal calls the type before p is "Available" if the contact was.
LEMMA PrevTypeTells ==
  ASSUME NEW p
  PROVE  prevType(p) = "Available" <=> PDB!available(getUserHost(p.from))
BY DEF prevType, PDB!available

-----------------------------------------------------------------------------
(* Roster queries                                                           *)

LEMMA ItemOfIsItem ==
  ASSUME NEW e, NEW r \in {0, 1}
  PROVE  IsItem(R!ItemOf(e, r)) /\ R!ItemOf(e, r).rescnt = r
BY DEF IsItem, R!ItemOf

\* One item of a query, as far as the items go.
LEMMA OneItem ==
  ASSUME NEW s, ItemsOK(s.items), NEW e \in R!PushedItems,
         NEW k, k = filterJID(e.jid)
  PROVE  LET n == R!Pushed(s, e).items IN
             /\ ItemsOK(n)
             /\ e.remove => DOMAIN n = DOMAIN s.items \ {k}
             /\ ~ e.remove => DOMAIN n = DOMAIN s.items \cup {k}
             /\ \A x \in DOMAIN s.items \cap DOMAIN n : n[x].rescnt = s.items[x].rescnt
             /\ \A x \in DOMAIN n \ DOMAIN s.items : n[x].rescnt = 0
<1> DEFINE n == R!Pushed(s, e).items
<1>0. k \in RosterKeys
  BY DEF R!PushedItems, RosterKeys
<1>1. CASE ~ e.remove
  <2> DEFINE r == IF k \in DOMAIN s.items THEN s.items[k].rescnt ELSE 0
  <2>1. r \in {0, 1}
    BY DEF ItemsOK, IsItem
  <2>2. n = [x \in DOMAIN s.items \cup {k} |-> IF x = k THEN R!ItemOf(e, r) ELSE s.items[x]]
    BY <1>1, SameKeys DEF R!Pushed, R!Replaced
  <2> HIDE DEF n
  <2>3. DOMAIN n = DOMAIN s.items \cup {k} /\ n[k] = R!ItemOf(e, r)
        /\ \A x \in DOMAIN s.items \ {k} : n[x] = s.items[x]
    BY <2>2
  <2>4. n[k].rescnt = r /\ IsItem(n[k])
    BY <2>1, <2>3, ItemOfIsItem
  <2>5. ItemsOK(n)
    BY <1>0, <2>3, <2>4 DEF ItemsOK
  <2> QED
    BY <1>1, <2>3, <2>4, <2>5 DEF n
<1>2. CASE e.remove /\ k \in DOMAIN s.items
  <2>1. n = [x \in DOMAIN s.items \ {k} |-> s.items[x]]
    BY <1>2, SameKeys DEF R!Pushed, R!Removed
  <2> HIDE DEF n
  <2>2. DOMAIN n = DOMAIN s.items \ {k} /\ \A x \in DOMAIN n : n[x] = s.items[x]
    BY <2>1
  <2>3. ItemsOK(n)
    BY <2>2 DEF ItemsOK
  <2> QED
    BY <1>2, <2>2, <2>3 DEF n
<1>3. CASE e.remove /\ k \notin DOMAIN s.items
  BY <1>3, SameKeys DEF R!Pushed
<1> QED
  BY <1>1, <1>2, <1>3

(***************************************************************************)
(* What holds of a roster before a query and after each of its items, holds *)
(* of it after the query.                                                   *)
(***************************************************************************)
LEMMA QueryStays ==
  ASSUME NEW T, NEW s \in T, NEW S, NEW q \in Seq(S),
         \A t \in T, e \in S : R!Pushed(t, e) \in T
  PROVE  R!FoldLeft(R!Pushed, s, q) \in T
<1>1. Query!Folded(s, q) \in T
  BY Query!FoldStays
<1>2. Query!Folded(s, q) = R!FoldLeft(R!Pushed, s, q)
  BY DEF Query!Folded, R!FoldLeft, Query!FoldLeft, R!MapThenFoldSet, Query!MapThenFoldSet,
         R!Max, Query!Max
<1> QED
  BY <1>1, <1>2

\* A query leaves an item the count it had, or makes it with none.
CountsKept(m) ==
    \A k \in DOMAIN m :
        m[k].rescnt # 0 => k \in DOMAIN items /\ m[k].rescnt = items[k].rescnt

LEMMA QueryKeepsCounts ==
  ASSUME ItemsOK(items), NEW q \in Seq(R!PushedItems), R!update(q)
  PROVE  ItemsOK(items') /\ CountsKept(items')
<1> DEFINE s == [items |-> items, groups |-> groups]
           T == {t \in Query!Folds(s, R!PushedItems) : ItemsOK(t.items) /\ CountsKept(t.items)}
<1>1. s \in T
  BY Query!FoldsAreClosed DEF CountsKept
<1>2. ASSUME NEW t \in T, NEW e \in R!PushedItems
      PROVE  R!Pushed(t, e) \in T
  <2>1. R!Pushed(t, e) \in Query!Folds(s, R!PushedItems)
    BY Query!FoldsAreClosed
  <2>2. ItemsOK(R!Pushed(t, e).items) /\ CountsKept(R!Pushed(t, e).items)
    BY OneItem DEF CountsKept
  <2> QED
    BY <2>1, <2>2
<1> HIDE DEF s, T
<1>3. R!FoldLeft(R!Pushed, s, q) \in T
  BY <1>1, <1>2, QueryStays
<1> QED
  BY <1>3 DEF R!update, R!Become, s, T

\* An item that is there and that no item of a query removes stays, with its count.
LEMMA QueryKeepsItem ==
  ASSUME ItemsOK(items), NEW q \in Seq(R!PushedItems), R!update(q),
         NEW k \in DOMAIN items, \A i \in DOMAIN q : q[i].remove => filterJID(q[i].jid) # k
  PROVE  k \in DOMAIN items' /\ items'[k].rescnt = items[k].rescnt
<1> DEFINE s == [items |-> items, groups |-> groups]
           S == {e \in R!PushedItems : e.remove => filterJID(e.jid) # k}
           T == {t \in Query!Folds(s, S) : /\ ItemsOK(t.items)
                                           /\ k \in DOMAIN t.items
                                           /\ t.items[k].rescnt = items[k].rescnt}
<1>1. s \in T
  BY Query!FoldsAreClosed
<1>2. ASSUME NEW t \in T, NEW e \in S
      PROVE  R!Pushed(t, e) \in T
  <2>1. R!Pushed(t, e) \in Query!Folds(s, S)
    BY Query!FoldsAreClosed
  <2>2. /\ ItemsOK(R!Pushed(t, e).items) /\ k \in DOMAIN R!Pushed(t, e).items
        /\ R!Pushed(t, e).items[k].rescnt = items[k].rescnt
    BY OneItem
  <2> QED
    BY <2>1, <2>2
<1>3. q \in Seq(S)
  <2>1. PICK n \in Nat : q \in [1 .. n -> R!PushedItems]
    <3>1. Len(q) \in Nat /\ q \in [1 .. Len(q) -> R!PushedItems]
      OBVIOUS
    <3> QED
      BY <3>1
  <2>2. q \in [1 .. n -> S]
    BY <2>1
  <2> QED
    BY <2>2
<1> HIDE DEF s, T, S
<1>4. R!FoldLeft(R!Pushed, s, q) \in T
  BY <1>1, <1>2, <1>3, QueryStays
<1> QED
  BY <1>4 DEF R!update, R!Become, s, T

-----------------------------------------------------------------------------
(* Steps                                                                    *)

LEMMA PresenceKeepsInv ==
  ASSUME ContactsInv, NEW p \in PDB!Presences, handlePresence(p)
  PROVE  ContactsInv'
<1> DEFINE k == filterJID(p.from)
           n == IF PDB!available(getUserHost(p.from))' THEN 1 ELSE 0
<1>0. p.from \in JIDs /\ PDB!insert(p)
  BY DEF PDB!Presences, handlePresence
<1>1. \A x \in UserItems \ {k} : Available(x)' = Available(x)
  BY <1>0, KeyOfUser, OthersStayAvailable DEF UserItems, Available, ContactsInv, ItemsOK
<1>2. k \in UserItems => Available(k)' = PDB!available(getUserHost(p.from))'
  <2>1. k \in UserItems => getUserHost(k) = getUserHost(p.from)
    BY <1>0, KeyOfUser DEF UserItems, ContactsInv, ItemsOK
  <2> QED
    BY <2>1 DEF Available
<1>3. CASE R!containsJID(k)
  <2>1. items' = [items EXCEPT ![k].rescnt = n] /\ heard' = heard \cup {k}
    BY <1>3 DEF handlePresence, countPresence
  <2>2. k \in DOMAIN items
    BY <1>3 DEF R!containsJID
  <2>3. IsItem(items'[k]) /\ items'[k].rescnt = n
    <3>1. PICK j, pe, gs, r : items[k] = [jid |-> j, pending |-> pe, groups |-> gs, rescnt |-> r]
      BY <2>2 DEF ContactsInv, ItemsOK, IsItem
    <3>2. items'[k] = [jid |-> j, pending |-> pe, groups |-> gs, rescnt |-> n]
      BY <2>1, <2>2, <3>1
    <3> QED
      BY <3>2 DEF IsItem
  <2>4. DOMAIN items' = DOMAIN items /\ \A x \in DOMAIN items \ {k} : items'[x] = items[x]
    BY <2>1
  <2>5. UserItems' = UserItems /\ ItemsOK(items')
    BY <2>3, <2>4 DEF UserItems, ContactsInv, ItemsOK
  <2>6. ASSUME NEW x \in UserItems \ {k}
        PROVE  Online(x)' = Online(x) /\ Available(x)' = Available(x)
    BY <1>1, <2>4 DEF Online, UserItems
  <2>7. k \in UserItems => (Online(k)' <=> Available(k)')
    BY <1>2, <2>3 DEF Online
  <2> QED
    BY <2>1, <2>2, <2>4, <2>5, <2>6, <2>7 DEF ContactsInv, OnlineIsAvailable, HeardItemsAgree
<1>4. CASE ~ R!containsJID(k)
  <2>1. items' = items /\ heard' = heard /\ k \notin UserItems
    BY <1>4 DEF handlePresence, countPresence, R!containsJID, UserItems
  <2>2. UserItems' = UserItems /\ \A x \in UserItems : Online(x)' = Online(x)
    BY <2>1 DEF UserItems, Online
  <2> QED
    BY <1>1, <2>1, <2>2 DEF ContactsInv, OnlineIsAvailable, HeardItemsAgree
<1> QED
  BY <1>3, <1>4

LEMMA QueryKeepsInv ==
  ASSUME ContactsInv, NEW q \in Pushes, handleRosterIQ(q)
  PROVE  ContactsInv'
<1>1. q \in Seq(R!PushedItems) /\ R!update(q) /\ db' = db
  BY PushesAssumption DEF handleRosterIQ
<1>2. ItemsOK(items') /\ CountsKept(items')
  BY <1>1, QueryKeepsCounts DEF ContactsInv
<1>3. \A x : Available(x)' = Available(x)
  BY <1>1 DEF Available, PDB!available, PDB!contains, PDB!find
<1>4. OnlineIsAvailable'
  BY <1>2, <1>3 DEF OnlineIsAvailable, ContactsInv, UserItems, Online, CountsKept, ItemsOK, IsItem
<1>5. ASSUME NEW k \in heard'
      PROVE  k \in heard /\ k \in DOMAIN items' /\ items'[k].rescnt = items[k].rescnt
  BY <1>1, QueryKeepsItem DEF handleRosterIQ, ContactsInv
<1>6. HeardItemsAgree'
  BY <1>3, <1>5 DEF HeardItemsAgree, ContactsInv, UserItems, Online
<1> QED
  BY <1>2, <1>4, <1>5, <1>6 DEF ContactsInv

LEMMA ContactsStep ==
  ASSUME ContactsInv, [Next]_vars
  PROVE  ContactsInv'
<1>1. ASSUME NEW p \in PDB!Presences, handlePresence(p) PROVE ContactsInv'
  BY <1>1, PresenceKeepsInv
<1>2. ASSUME NEW q \in Pushes, handleRosterIQ(q) PROVE ContactsInv'
  BY <1>2, QueryKeepsInv
<1>3. CASE onDocumentEnd
  <2>1. DOMAIN items' = {} /\ heard' = {}
    BY <1>3 DEF onDocumentEnd, R!reset
  <2> QED
    BY <2>1 DEF ContactsInv, ItemsOK, OnlineIsAvailable, HeardItemsAgree, UserItems
<1>4. ASSUME UNCHANGED <<db, items, heard>> PROVE ContactsInv'
  <2>1. \A x : Available(x)' = Available(x)
    BY <1>4 DEF Available, PDB!available, PDB!contains, PDB!find
  <2> QED
    BY <1>4, <2>1 DEF ContactsInv, ItemsOK, OnlineIsAvailable, HeardItemsAgree, UserItems, Online
<1> QED
  BY <1>1, <1>2, <1>3, <1>4 DEF Next, connect, disconnect, vars

LEMMA ContactsAlways == Spec => []ContactsInv
<1>1. Init => ContactsInv
  <2>1. Init => DOMAIN items = {} /\ heard = {}
    BY DEF Init, R!Init
  <2> QED
    BY <2>1 DEF ContactsInv, ItemsOK, OnlineIsAvailable, HeardItemsAgree, UserItems
<1>2. ContactsInv /\ [Next]_vars => ContactsInv'
  BY ContactsStep
<1> QED
  BY <1>1, <1>2, PTL DEF Spec

(***************************************************************************)
(* Whatever presences and roster queries come, in any order and over any    *)
(* number of streams, the roster shows no contact online whose default      *)
(* presence is not an available one.                                        *)
(***************************************************************************)
THEOREM ShownOnlineIsAvailable == Spec => []OnlineIsAvailable
<1>1. ContactsInv => OnlineIsAvailable
  BY DEF ContactsInv
<1> QED
  BY <1>1, ContactsAlways, PTL

(***************************************************************************)
(* From the first presence on that comes for an item, the roster shows it   *)
(* online exactly if the database has it available.                         *)
(***************************************************************************)
THEOREM HeardItemsAgreeAlways == Spec => []HeardItemsAgree
<1>1. ContactsInv => HeardItemsAgree
  BY DEF ContactsInv
<1> QED
  BY <1>1, ContactsAlways, PTL

(***************************************************************************)
(* When a contact of the roster comes or goes, but for the end of the       *)
(* stream, the same step signals it, with the right past and present.       *)
(***************************************************************************)
THEOREM ChangesAreToldAlways == Spec => ChangesAreTold
<1> DEFINE Told == \A k \in UserItems :
                       Available(k)' # Available(k) /\ ~onDocumentEnd =>
                           \E s \in rosterTold' :
                               /\ s.key = k
                               /\ s.available = Available(k)'
                               /\ (s.prev = "Available") = Available(k)
<1>1. ASSUME ContactsInv, [Next]_vars PROVE [Told]_vars
  <2> SUFFICES ASSUME NEW k \in UserItems, Available(k)' # Available(k), ~onDocumentEnd
               PROVE  \E s \in rosterTold' : /\ s.key = k
                                             /\ s.available = Available(k)'
                                             /\ (s.prev = "Available") = Available(k)
    OBVIOUS
  <2>1. db' # db
    BY DEF Available, PDB!available, PDB!contains, PDB!find
  <2>2. PICK p \in PDB!Presences : handlePresence(p)
    BY <1>1, <2>1 DEF Next, handleRosterIQ, connect, disconnect, vars
  <2>3. p.from \in JIDs /\ PDB!insert(p)
    BY <2>2 DEF PDB!Presences, handlePresence
  <2>4. k = filterJID(p.from) /\ getUserHost(k) = getUserHost(p.from)
    BY <1>1, <2>3, KeyOfUser, OthersStayAvailable
    DEF Available, UserItems, ContactsInv, ItemsOK
  <2>5. R!containsJID(k)
    BY DEF R!containsJID, UserItems
  <2> DEFINE n == IF PDB!available(getUserHost(p.from))' THEN 1 ELSE 0
             sig == [key |-> k, available |-> n = 1, prev |-> prevType(p)]
  <2>6. rosterTold' = {sig}
    BY <2>2, <2>4, <2>5 DEF handlePresence, countPresence
  <2>7. sig.key = k /\ sig.available = (n = 1) /\ sig.prev = prevType(p)
    OBVIOUS
  <2>8. (n = 1) = Available(k)'
    BY <2>4 DEF Available, PDB!available, PDB!contains
  <2>9. (prevType(p) = "Available") = Available(k)
    BY <2>4, PrevTypeTells DEF Available, PDB!available, PDB!contains
  <2> HIDE DEF n, sig
  <2> QED
    BY <2>6, <2>7, <2>8, <2>9
<1>2. ContactsInv /\ [Next]_vars => [Told]_vars
  BY <1>1
<1> HIDE DEF Told
<1>3. Spec => [][Told]_vars
  BY <1>2, ContactsAlways, PTL DEF Spec
<1> QED
  BY <1>3 DEF ChangesAreTold, Told
=============================================================================
