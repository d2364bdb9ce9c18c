------------------------- MODULE PresenceDB_proofs -------------------------
(***************************************************************************)
(* The presence database keeps its lists in order for every set of JIDs     *)
(* and priorities, and forgets or invents nobody.                           *)
(***************************************************************************)
EXTENDS PresenceHistory, SequenceLemmas

\* The presences that stay in the database, and the inductive invariant below
Stays == {p \in Presences : ~Leaves(p)}

\* What DBInv says of the list of one contact, the empty one included.
ListInv(h, l) ==
    /\ l \in Seq(Stays)
    /\ \A i \in 1 .. Len(l) : getUserHost(l[i].from) = h
    /\ \A i, k \in 1 .. Len(l) : i < k => getPriority(l[i]) >= getPriority(l[k])
    /\ \A i, k \in 1 .. Len(l) : SameJID(l[i].from, l[k].from) => i = k

IInv == DBTypeOK /\ DBInv

\* Priorities are integers, those of unavailable presences included.
LEMMA PriorityIsInt == \A p \in Presences : getPriority(p) \in Int
<1> SUFFICES ASSUME NEW p \in Presences
             PROVE  getPriority(p) \in Int
    OBVIOUS
<1>1. p.pri \in Int
    BY PresenceAssumption DEF Presences
<1>2. -1 \in Int
    OBVIOUS
<1> QED
    BY <1>1, <1>2 DEF getPriority

\* The entries of a list of presences that stay, and their priorities.
LEMMA StayingTypes ==
    ASSUME NEW l \in Seq(Stays)
    PROVE  /\ Len(l) \in Nat
           /\ DOMAIN l = 1 .. Len(l)
           /\ \A i \in 1 .. Len(l) : l[i] \in Stays /\ getPriority(l[i]) \in Int
BY LenProperties, ElementOfSeq, PriorityIsInt DEF Stays

\* The invariant of the database is that of each of its lists.
LEMMA InvIsListInv ==
    IInv <=> /\ DOMAIN db \subseteq BareJIDs
             /\ \A h \in DOMAIN db : db[h] # <<>> /\ ListInv(h, db[h])
<1>1. DBTypeOK <=> /\ DOMAIN db \subseteq BareJIDs
                 /\ \A h \in DOMAIN db : db[h] \in Seq(Stays)
    BY DEF DBTypeOK, Stays
<1>2. ASSUME \A h \in DOMAIN db : db[h] \in Seq(Stays)
      PROVE  \A h \in DOMAIN db : Entries(h) = 1 .. Len(db[h])
    BY <1>2, StayingTypes DEF Entries
<1> QED
    BY <1>1, <1>2
    DEF IInv, DBInv, NoEmptyList, FiledUnderOwnJID, SortedByPriority,
        OneEntryPerJID, ListInv

-----------------------------------------------------------------------------
\* The two searches of the code find the first entry there is.
LEMMA IndexFound ==
    ASSUME NEW l \in Seq(Stays), NEW j \in JIDs, HoldsJID(l, j)
    PROVE  /\ IndexOfJID(l, j) \in 1 .. Len(l)
           /\ SameJID(l[IndexOfJID(l, j)].from, j)
<1> DEFINE T == {i \in 1 .. Len(l) : SameJID(l[i].from, j)}
<1>1. Len(l) \in Nat /\ DOMAIN l = 1 .. Len(l)
    BY StayingTypes
<1>2. T \in SUBSET Nat /\ T # {}
    BY <1>1 DEF HoldsJID
<1>3. PICK m \in T : \A n \in T : m <= n
    <2> HIDE DEF T
    <2> QED BY <1>2, LeastNatural
<1>4. /\ m \in DOMAIN l
      /\ SameJID(l[m].from, j)
      /\ \A k \in 1 .. m - 1 : ~SameJID(l[k].from, j)
    BY <1>1, <1>3
<1> QED
    BY <1>1, <1>4 DEF IndexOfJID

\* pred_presence_priority finds the one place that keeps the list in order.
LEMMA InsertionPointFound ==
    ASSUME NEW l \in Seq(Stays), NEW p \in Stays
    PROVE  LET i == InsertionPoint(l, p) IN
           /\ i \in 1 .. Len(l) + 1
           /\ i # Len(l) + 1 => getPriority(l[i]) <= getPriority(p)
           /\ \A k \in 1 .. i - 1 : getPriority(l[k]) > getPriority(p)
<1> DEFINE T == {i \in 1 .. Len(l) + 1 :
                   i # Len(l) + 1 => getPriority(l[i]) <= getPriority(p)}
<1>1. /\ Len(l) \in Nat
      /\ \A i \in 1 .. Len(l) : getPriority(l[i]) \in Int
      /\ getPriority(p) \in Int
    BY StayingTypes, PriorityIsInt DEF Stays
<1>2. T \in SUBSET Nat /\ Len(l) + 1 \in T
    BY <1>1
<1>3. PICK m \in T : \A n \in T : m <= n
    <2> HIDE DEF T
    <2> QED BY <1>2, LeastNatural
<1>4. \A k \in 1 .. m - 1 : getPriority(l[k]) > getPriority(p)
    <2> SUFFICES ASSUME NEW k \in 1 .. m - 1
                 PROVE  getPriority(l[k]) > getPriority(p)
        OBVIOUS
    <2>1. k \in 1 .. Len(l) /\ k \notin T
        BY <1>1, <1>3
    <2> QED
        BY <2>1, <1>1
<1> QED
    BY <1>3, <1>4 DEF InsertionPoint

-----------------------------------------------------------------------------
\* Taking the entry of j out keeps the list in order and leaves none of j.
LEMMA WithoutKeepsOrder ==
    ASSUME NEW h, NEW l, ListInv(h, l), NEW j \in JIDs
    PROVE  /\ ListInv(h, WithoutJID(l, j))
           /\ ~HoldsJID(WithoutJID(l, j), j)
           /\ Range(WithoutJID(l, j)) =
                 {q \in Range(l) : ~SameJID(q.from, j)}
<1>1. CASE ~HoldsJID(l, j)
    BY <1>1 DEF WithoutJID, HoldsJID, Range
<1>2. CASE HoldsJID(l, j)
    <2> DEFINE i == IndexOfJID(l, j)
               r == RemoveAt(l, i)
    <2>1. /\ l \in Seq(Stays) /\ Len(l) \in Nat
          /\ i \in 1 .. Len(l)
          /\ SameJID(l[i].from, j)
        BY <1>2, IndexFound, StayingTypes DEF ListInv
    <2>2. WithoutJID(l, j) = r
        BY <1>2 DEF WithoutJID
    <2> HIDE DEF i
    <2>3. /\ r \in Seq(Stays)
          /\ Len(r) = Len(l) - 1
          /\ \A k \in 1 .. Len(l) - 1 : r[k] = IF k < i THEN l[k] ELSE l[k + 1]
        BY <2>1, RemoveAtProperties
    <2> HIDE DEF r
    <2> DEFINE from(k) == IF k < i THEN k ELSE k + 1
    <2>4. \A k \in 1 .. Len(r) : from(k) \in (1 .. Len(l)) \ {i} /\ r[k] = l[from(k)]
        BY <2>1, <2>3
    <2>5. \A k, m \in 1 .. Len(r) : (k < m => from(k) < from(m))
                                    /\ (from(k) = from(m) => k = m)
        BY <2>1, <2>3
    <2>8. \A m \in (1 .. Len(l)) \ {i} : \E k \in 1 .. Len(r) : from(k) = m
        <3> SUFFICES ASSUME NEW m \in (1 .. Len(l)) \ {i}
                     PROVE  \E k \in 1 .. Len(r) : from(k) = m
            OBVIOUS
        <3>1. CASE m < i
            BY <3>1, <2>1, <2>3
        <3>2. CASE ~(m < i)
            <4>1. m - 1 \in 1 .. Len(r) /\ from(m - 1) = m
                BY <3>2, <2>1, <2>3
            <4> QED BY <4>1
        <3> QED
            BY <3>1, <3>2
    <2> HIDE DEF from
    <2>6. ListInv(h, r)
        BY <2>3, <2>4, <2>5 DEF ListInv
    <2>7. ~HoldsJID(r, j)
        <3> SUFFICES ASSUME NEW k \in 1 .. Len(r), SameJID(r[k].from, j)
                     PROVE  FALSE
            BY <2>3, StayingTypes DEF HoldsJID
        <3>1. SameJID(l[from(k)].from, l[i].from)
            BY <2>1, <2>4 DEF SameJID
        <3> QED
            BY <3>1, <2>1, <2>4 DEF ListInv
    <2>9. Range(r) = {q \in Range(l) : ~SameJID(q.from, j)}
        <3>1. DOMAIN l = 1 .. Len(l) /\ DOMAIN r = 1 .. Len(r)
            BY <2>1, <2>3, StayingTypes
        <3>2. \A k \in 1 .. Len(r) : ~SameJID(r[k].from, j)
            BY <2>7, <3>1 DEF HoldsJID
        <3>3. \A m \in 1 .. Len(l) : ~SameJID(l[m].from, j) =>
                  \E k \in 1 .. Len(r) : r[k] = l[m]
            BY <2>1, <2>4, <2>8
        <3> QED
            BY <3>1, <3>2, <3>3, <2>4 DEF Range
    <2> QED
        BY <2>2, <2>6, <2>7, <2>9
<1> QED
    BY <1>1, <1>2

\* Putting in a presence whose JID the list does not hold keeps it in order.
LEMMA PlacedKeepsOrder ==
    ASSUME NEW l, NEW p \in Stays, ListInv(getUserHost(p.from), l),
           ~HoldsJID(l, p.from)
    PROVE  /\ ListInv(getUserHost(p.from), Placed(l, p))
           /\ Len(Placed(l, p)) # 0
           /\ Range(Placed(l, p)) = Range(l) \cup {p}
<1> DEFINE i == InsertionPoint(l, p)
           r == InsertAt(l, i, p)
<1>1. /\ l \in Seq(Stays) /\ Len(l) \in Nat /\ DOMAIN l = 1 .. Len(l)
      /\ getPriority(p) \in Int
      /\ \A k \in 1 .. Len(l) : getPriority(l[k]) \in Int
    BY StayingTypes, PriorityIsInt DEF ListInv, Stays
<1>2. /\ i \in 1 .. Len(l) + 1
      /\ i # Len(l) + 1 => getPriority(l[i]) <= getPriority(p)
      /\ \A k \in 1 .. i - 1 : getPriority(l[k]) > getPriority(p)
    BY <1>1, InsertionPointFound
<1> HIDE DEF i
<1>3. /\ r \in Seq(Stays)
      /\ Len(r) = Len(l) + 1
      /\ \A k \in 1 .. Len(l) + 1 :
            r[k] = IF k < i THEN l[k] ELSE IF k = i THEN p ELSE l[k - 1]
    BY <1>1, <1>2, InsertAtProperties
<1> HIDE DEF r
<1>4. \A k \in i .. Len(l) : getPriority(l[k]) <= getPriority(p)
    <2> SUFFICES ASSUME NEW k \in i .. Len(l)
                 PROVE  getPriority(l[k]) <= getPriority(p)
        OBVIOUS
    <2>1. /\ k \in 1 .. Len(l) /\ i \in 1 .. Len(l)
          /\ getPriority(l[i]) <= getPriority(p)
          /\ k = i \/ getPriority(l[i]) >= getPriority(l[k])
        BY <1>1, <1>2 DEF ListInv
    <2> QED
        BY <2>1, <1>1
<1> DEFINE from(k) == IF k < i THEN k ELSE k - 1
<1>5. \A k \in 1 .. Len(r) : k # i => from(k) \in 1 .. Len(l) /\ r[k] = l[from(k)]
    BY <1>1, <1>2, <1>3
<1>6. \A k, m \in 1 .. Len(r) : k # i /\ m # i
          => (k < m => from(k) < from(m)) /\ (from(k) = from(m) => k = m)
    BY <1>1, <1>2, <1>3
<1>12. \A m \in 1 .. Len(l) : \E k \in 1 .. Len(r) : k # i /\ from(k) = m
    <2> SUFFICES ASSUME NEW m \in 1 .. Len(l)
                 PROVE  \E k \in 1 .. Len(r) : k # i /\ from(k) = m
        OBVIOUS
    <2>1. CASE m < i
        BY <2>1, <1>1, <1>2, <1>3
    <2>2. CASE ~(m < i)
        <3>1. m + 1 \in 1 .. Len(r) /\ m + 1 # i /\ from(m + 1) = m
            BY <2>2, <1>1, <1>2, <1>3
        <3> QED BY <3>1
    <2> QED
        BY <2>1, <2>2
<1>7. r[i] = p /\ i \in 1 .. Len(r)
    BY <1>1, <1>2, <1>3
<1>8. \A k \in 1 .. Len(r) : getUserHost(r[k].from) = getUserHost(p.from)
    <2> HIDE DEF from
    <2> QED BY <1>5, <1>7 DEF ListInv
<1>9. \A k, m \in 1 .. Len(r) : k < m => getPriority(r[k]) >= getPriority(r[m])
    <2> SUFFICES ASSUME NEW k \in 1 .. Len(r), NEW m \in 1 .. Len(r), k < m
                 PROVE  getPriority(r[k]) >= getPriority(r[m])
        OBVIOUS
    <2>1. CASE k # i /\ m # i
        <3> HIDE DEF from
        <3> QED BY <2>1, <1>5, <1>6 DEF ListInv
    <2>2. CASE k = i
        <3>1. from(m) \in i .. Len(l) /\ r[m] = l[from(m)]
            BY <2>2, <1>1, <1>2, <1>3
        <3> HIDE DEF from
        <3>2. from(m) \in 1 .. Len(l)
            BY <3>1, <1>1, <1>2
        <3> QED BY <3>1, <3>2, <2>2, <1>1, <1>4, <1>7
    <2>3. CASE m = i
        <3>1. from(k) \in 1 .. i - 1 /\ r[k] = l[from(k)]
            BY <2>3, <1>1, <1>2, <1>3
        <3> HIDE DEF from
        <3>2. from(k) \in 1 .. Len(l)
            BY <3>1, <1>1, <1>2
        <3> QED BY <3>1, <3>2, <2>3, <1>1, <1>2, <1>7
    <2> QED
        BY <2>1, <2>2, <2>3
<1>10. \A k, m \in 1 .. Len(r) : SameJID(r[k].from, r[m].from) => k = m
    <2> SUFFICES ASSUME NEW k \in 1 .. Len(r), NEW m \in 1 .. Len(r),
                        SameJID(r[k].from, r[m].from)
                 PROVE  k = m
        OBVIOUS
    <2> HIDE DEF from
    <2>1. CASE k # i /\ m # i
        BY <2>1, <1>5, <1>6 DEF ListInv
    <2>2. CASE k = i /\ m # i
        <3>1. SameJID(l[from(m)].from, p.from) /\ from(m) \in DOMAIN l
            BY <2>2, <1>1, <1>5, <1>7 DEF SameJID
        <3> QED BY <3>1 DEF HoldsJID
    <2>3. CASE m = i /\ k # i
        <3>1. SameJID(l[from(k)].from, p.from) /\ from(k) \in DOMAIN l
            BY <2>3, <1>1, <1>5, <1>7 DEF SameJID
        <3> QED BY <3>1 DEF HoldsJID
    <2> QED
        BY <2>1, <2>2, <2>3
<1>11. Placed(l, p) = r
    BY DEF Placed, r, i
<1>13. Range(r) = Range(l) \cup {p}
    <2> HIDE DEF from
    <2>1. DOMAIN r = 1 .. Len(r)
        BY <1>3, StayingTypes
    <2>2. \A m \in 1 .. Len(l) : \E k \in 1 .. Len(r) : r[k] = l[m]
        BY <1>5, <1>12
    <2>3. \A k \in 1 .. Len(r) : r[k] = p \/ \E m \in 1 .. Len(l) : r[k] = l[m]
        BY <1>5, <1>7
    <2>4. \A q : q \in Range(r) <=> \E k \in 1 .. Len(r) : q = r[k]
        BY <2>1 DEF Range
    <2>5. \A q : q \in Range(l) <=> \E k \in 1 .. Len(l) : q = l[k]
        BY <1>1 DEF Range
    <2>6. \A q : q \in Range(r) <=> q \in Range(l) \cup {p}
        BY <2>2, <2>3, <2>4, <2>5, <1>7
    <2> QED
        BY <2>6
<1> QED
    BY <1>1, <1>3, <1>8, <1>9, <1>10, <1>11, <1>13 DEF ListInv

\* insert() of a presence that stays: in place, or out and in again.
LEMMA UpdatedKeepsOrder ==
    ASSUME NEW l, NEW p \in Stays, ListInv(getUserHost(p.from), l)
    PROVE  /\ ListInv(getUserHost(p.from), Updated(l, p))
           /\ Len(Updated(l, p)) # 0
           /\ Range(Updated(l, p)) =
                 {q \in Range(l) : ~SameJID(q.from, p.from)} \cup {p}
<1>0. p.from \in JIDs
    BY DEF Stays, Presences
<1>1. CASE ~KeepsPlace(l, p)
    <2>1. /\ ListInv(getUserHost(p.from), WithoutJID(l, p.from))
          /\ ~HoldsJID(WithoutJID(l, p.from), p.from)
          /\ Range(WithoutJID(l, p.from)) =
                {q \in Range(l) : ~SameJID(q.from, p.from)}
        BY <1>0, WithoutKeepsOrder
    <2> QED
        BY <1>1, <2>1, PlacedKeepsOrder DEF Updated
<1>2. CASE KeepsPlace(l, p)
    <2> DEFINE i == IndexOfJID(l, p.from)
               r == [l EXCEPT ![i] = p]
    <2>1. /\ l \in Seq(Stays) /\ Len(l) \in Nat
          /\ i \in 1 .. Len(l)
          /\ SameJID(l[i].from, p.from)
          /\ getPriority(l[i]) = getPriority(p)
        BY <1>0, <1>2, IndexFound, StayingTypes DEF ListInv, KeepsPlace
    <2>2. Updated(l, p) = r
        BY <1>2 DEF Updated
    <2> HIDE DEF i
    <2>3. /\ r \in Seq(Stays) /\ Len(r) = Len(l)
          /\ \A k \in 1 .. Len(l) : r[k] = IF k = i THEN p ELSE l[k]
        BY <2>1, ExceptSeq
    <2> HIDE DEF r
    <2>4. \A k \in 1 .. Len(l) : /\ getPriority(r[k]) = getPriority(l[k])
                                 /\ SameJID(r[k].from, l[k].from)
        BY <2>1, <2>3 DEF SameJID
    <2>5. ListInv(getUserHost(p.from), r)
        BY <2>3, <2>4 DEF ListInv, SameJID
    <2>6. Range(r) = {q \in Range(l) : ~SameJID(q.from, p.from)} \cup {p}
        <3>1. DOMAIN l = 1 .. Len(l) /\ DOMAIN r = 1 .. Len(l)
            BY <2>1, <2>3, StayingTypes
        <3>2. \A k \in 1 .. Len(l) : SameJID(l[k].from, p.from) <=> k = i
            BY <2>1 DEF ListInv, SameJID
        <3> QED
            BY <3>1, <3>2, <2>1, <2>3 DEF Range
    <2> QED
        BY <2>1, <2>2, <2>3, <2>5, <2>6
<1> QED
    BY <1>1, <1>2

-----------------------------------------------------------------------------
\* Storing a list in order under its contact keeps the invariant.
LEMMA SetBucketKeepsInv ==
    ASSUME IInv, NEW h \in BareJIDs, NEW l, ListInv(h, l), SetBucket(h, l)
    PROVE  IInv'
<1>1. /\ DOMAIN db \subseteq BareJIDs
      /\ \A k \in DOMAIN db : db[k] # <<>> /\ ListInv(k, db[k])
    BY InvIsListInv
<1>2. /\ DOMAIN db' \subseteq BareJIDs
      /\ \A k \in DOMAIN db' : db'[k] # <<>> /\ ListInv(k, db'[k])
    BY <1>1 DEF SetBucket
<1>3. ListInv(h, l)' <=> ListInv(h, l)
    OBVIOUS
<1> QED
    BY <1>2, StayingTypes
    DEF IInv, DBTypeOK, DBInv, NoEmptyList, FiledUnderOwnJID, SortedByPriority,
        OneEntryPerJID, Entries, ListInv, Stays

\* The list _DB[h] is in order, the empty one it may just have created too.
LEMMA BucketInv ==
    ASSUME IInv, NEW h
    PROVE  ListInv(h, Bucket(h))
<1>1. CASE h \in DOMAIN db
    BY <1>1, InvIsListInv DEF Bucket
<1>2. CASE h \notin DOMAIN db
    BY <1>2 DEF Bucket, ListInv
<1> QED
    BY <1>1, <1>2

\* Every JID has a bare JID for its list.
LEMMA HostOfJID == \A j \in JIDs : getUserHost(j) \in BareJIDs
BY JIDsAssumption DEF getUserHost, BareJIDs

\* The empty database satisfies the invariant.
LEMMA InitInv == DBInit => IInv
BY DEF DBInit, IInv, DBTypeOK, DBInv, NoEmptyList, FiledUnderOwnJID,
       SortedByPriority, OneEntryPerJID, Entries

\* insert(), remove() and clear() keep the invariant.
LEMMA NextInv == IInv /\ [DBNext]_db => IInv'
<1> SUFFICES ASSUME IInv, [DBNext]_db
             PROVE  IInv'
    OBVIOUS
<1>1. ASSUME NEW p \in Presences, insert(p)
      PROVE  IInv'
    <2> DEFINE h == getUserHost(p.from)
               l == IF Leaves(p) THEN WithoutJID(Bucket(h), p.from)
                                 ELSE Updated(Bucket(h), p)
    <2>1. p.from \in JIDs /\ h \in BareJIDs /\ ListInv(h, Bucket(h))
        BY HostOfJID, BucketInv DEF Presences
    <2>2. ListInv(h, l)
        <3>1. CASE Leaves(p)
            BY <2>1, <3>1, WithoutKeepsOrder
        <3>2. CASE ~Leaves(p)
            BY <2>1, <3>2, UpdatedKeepsOrder DEF Stays
        <3> QED
            BY <3>1, <3>2
    <2>3. SetBucket(h, l)
        BY <1>1 DEF insert
    <2> QED
        BY <2>1, <2>2, <2>3, SetBucketKeepsInv
<1>2. ASSUME NEW j \in JIDs, remove(j)
      PROVE  IInv'
    <2>1. /\ getUserHost(j) \in BareJIDs
          /\ ListInv(getUserHost(j), WithoutJID(Bucket(getUserHost(j)), j))
        BY HostOfJID, BucketInv, WithoutKeepsOrder
    <2> QED
        BY <1>2, <2>1, SetBucketKeepsInv DEF remove
<1>3. CASE clear
    BY <1>3 DEF clear, IInv, DBTypeOK, DBInv, NoEmptyList, FiledUnderOwnJID,
                SortedByPriority, OneEntryPerJID, Entries
<1>4. CASE UNCHANGED db
    BY <1>4 DEF IInv, DBTypeOK, DBInv, NoEmptyList, FiledUnderOwnJID,
                SortedByPriority, OneEntryPerJID, Entries
<1> QED
    BY <1>1, <1>2, <1>3, <1>4 DEF DBNext

-----------------------------------------------------------------------------
\* Storing the list l for h replaces what was known of h by what is in l.
LEMMA KnownAfterSet ==
    ASSUME IInv, NEW h, NEW l, SetBucket(h, l), Range(l) = {} \/ l # <<>>
    PROVE  Known' = {q \in Known : getUserHost(q.from) # h} \cup Range(l)
<1>1. \A k \in DOMAIN db : \A q \in Range(db[k]) : getUserHost(q.from) = k
    BY DEF IInv, DBInv, FiledUnderOwnJID, Entries, Range
<1>2. Known = UNION {Range(db[k]) : k \in DOMAIN db}
    BY DEF Known
<1>3. Known' = UNION {Range(db'[k]) : k \in DOMAIN db'}
    BY DEF Known
<1>4. CASE l = <<>>
    <2>1. /\ DOMAIN db' = DOMAIN db \ {h}
          /\ \A k \in DOMAIN db' : db'[k] = db[k]
          /\ Range(l) = {}
        BY <1>4 DEF SetBucket, Range
    <2>2. Known' = {q \in Known : getUserHost(q.from) # h}
        <3> HIDE DEF Range
        <3> QED BY <1>1, <1>2, <1>3, <2>1
    <2> QED
        BY <2>1, <2>2
<1>5. CASE l # <<>>
    <2>1. /\ DOMAIN db' = DOMAIN db \cup {h}
          /\ \A k \in DOMAIN db' : db'[k] = IF k = h THEN l ELSE db[k]
        BY <1>5 DEF SetBucket
    <2> QED
        BY <1>1, <1>2, <1>3, <2>1
<1> QED
    BY <1>4, <1>5

\* What is known of a contact is what its list holds.
LEMMA KnownOfHost ==
    ASSUME IInv, NEW h
    PROVE  Range(Bucket(h)) = {q \in Known : getUserHost(q.from) = h}
<1>1. \A k \in DOMAIN db : \A q \in Range(db[k]) : getUserHost(q.from) = k
    BY DEF IInv, DBInv, FiledUnderOwnJID, Entries, Range
<1>2. Range(<<>>) = {}
    BY DEF Range
<1> QED
    BY <1>1, <1>2 DEF Known, Bucket

\* JID::compare is the same relation in both specifications.
LEMMA AbstractSameJID == \A a, b : Abstract!SameJID(a, b) <=> SameJID(a, b)
BY DEF Abstract!SameJID, SameJID, Abstract!getUserHost, getUserHost,
       Abstract!getResource, getResource

\* insert(), remove() and clear() are Receive, Forget and ForgetAll of the map.
LEMMA StepImplementsMap == IInv /\ [DBNext]_db => [Abstract!Next]_Known
<1> SUFFICES ASSUME IInv, [DBNext]_db
             PROVE  [Abstract!Next]_Known
    OBVIOUS
<1>1. ASSUME NEW p \in Presences, insert(p)
      PROVE  Abstract!Receive(p)
    <2> DEFINE h == getUserHost(p.from)
               l == IF Leaves(p) THEN WithoutJID(Bucket(h), p.from)
                                 ELSE Updated(Bucket(h), p)
    <2>1. p.from \in JIDs /\ ListInv(h, Bucket(h)) /\ SetBucket(h, l)
        BY <1>1, BucketInv DEF Presences, insert
    <2>2. Range(l) = {q \in Range(Bucket(h)) : ~SameJID(q.from, p.from)}
                     \cup (IF Leaves(p) THEN {} ELSE {p})
        <3>1. CASE Leaves(p)
            BY <2>1, <3>1, WithoutKeepsOrder
        <3>2. CASE ~Leaves(p)
            BY <2>1, <3>2, UpdatedKeepsOrder DEF Stays
        <3> QED
            BY <3>1, <3>2
    <2>3. Known' = {q \in Known : getUserHost(q.from) # h} \cup Range(l)
        <3>1. Range(l) = {} \/ l # <<>>
            BY DEF Range
        <3> HIDE DEF h, l
        <3> QED BY <2>1, <3>1, KnownAfterSet
    <2>4. Known' = {q \in Known : ~SameJID(q.from, p.from)}
                   \cup (IF Leaves(p) THEN {} ELSE {p})
        BY <2>2, <2>3, KnownOfHost DEF SameJID
    <2> QED
        BY <2>4, AbstractSameJID DEF Abstract!Receive, Abstract!Others
<1>2. ASSUME NEW j \in JIDs, remove(j)
      PROVE  Abstract!Forget(j)
    <2> DEFINE h == getUserHost(j)
               l == WithoutJID(Bucket(h), j)
    <2>1. ListInv(h, Bucket(h)) /\ SetBucket(h, l)
        BY <1>2, BucketInv DEF remove
    <2>2. Range(l) = {q \in Range(Bucket(h)) : ~SameJID(q.from, j)}
        BY <2>1, WithoutKeepsOrder
    <2>3. Known' = {q \in Known : getUserHost(q.from) # h} \cup Range(l)
        <3>1. Range(l) = {} \/ l # <<>>
            BY DEF Range
        <3> HIDE DEF h, l
        <3> QED BY <2>1, <3>1, KnownAfterSet
    <2>4. Known' = {q \in Known : ~SameJID(q.from, j)}
        BY <2>2, <2>3, KnownOfHost DEF SameJID
    <2> QED
        BY <2>4, AbstractSameJID DEF Abstract!Forget, Abstract!Others
<1>3. CASE clear
    BY <1>3 DEF clear, Known, Abstract!Next, Abstract!ForgetAll
<1>4. CASE UNCHANGED db
    BY <1>4 DEF Known
<1> QED
    BY <1>1, <1>2, <1>3, <1>4 DEF DBNext, Abstract!Next

\* The empty database knows nobody.
LEMMA InitImplementsMap == DBInit => Abstract!Init
BY DEF DBInit, Known, Abstract!Init

(***************************************************************************)
(* The database maps bare JIDs to lists of presences that stay.             *)
(***************************************************************************)
THEOREM DatabaseTypeCorrect == DBSpec => []DBTypeOK
<1>1. IInv => DBTypeOK
    BY DEF IInv
<1> QED
    BY InitInv, NextInv, <1>1, PTL DEF DBSpec

(***************************************************************************)
(* No empty list, every presence under its own contact, the list by         *)
(* descending priority, no resource twice: for all JIDs and priorities,     *)
(* after any sequence of insert(), remove() and clear().                    *)
(***************************************************************************)
THEOREM DatabaseInOrder == DBSpec => []DBInv
<1>1. IInv => DBInv
    BY DEF IInv
<1> QED
    BY InitInv, NextInv, <1>1, PTL DEF DBSpec

(***************************************************************************)
(* The lists hold exactly the latest presence of each JID that has not      *)
(* left: PresenceDB implements PresenceMap.                                 *)
(***************************************************************************)
THEOREM DatabaseImplementsMap == DBSpec => ImplementsMap
BY InitInv, NextInv, InitImplementsMap, StepImplementsMap, PTL
   DEF DBSpec, ImplementsMap, Abstract!Spec

-----------------------------------------------------------------------------
(* Which of several resources of one priority comes first                   *)

Ties(l, later) ==
    \A i, k \in 1 .. Len(l) :
        i < k /\ getPriority(l[i]) = getPriority(l[k])
            => <<getResource(l[i].from), getResource(l[k].from)>> \in later

HInv ==
    /\ IInv
    /\ DOMAIN placings = BareJIDs
    /\ \A h \in DOMAIN db : Ties(db[h], placings[h])

\* In the list of one contact resources tell JIDs apart.
LEMMA ResourcesOfOne ==
    ASSUME NEW h, NEW l, ListInv(h, l), NEW j \in JIDs, getUserHost(j) = h
    PROVE  \A i \in 1 .. Len(l) :
              /\ getResource(l[i].from) \in AnyRes
              /\ SameJID(l[i].from, j) <=> getResource(l[i].from) = getResource(j)
<1> SUFFICES ASSUME NEW i \in 1 .. Len(l)
             PROVE  /\ getResource(l[i].from) \in AnyRes
                    /\ SameJID(l[i].from, j) <=> getResource(l[i].from) = getResource(j)
    OBVIOUS
<1>1. l[i].from \in JIDs
    BY StayingTypes DEF ListInv, Stays, Presences
<1>2. getUserHost(l[i].from) = h
    BY DEF ListInv
<1>3. getResource(l[i].from) \in AnyRes
    BY <1>1, JIDsAssumption DEF getResource, AnyRes
<1> QED
    BY <1>2, <1>3 DEF SameJID

\* What is taken out of a list leaves the order of the others.
LEMMA WithoutKeepsTies ==
    ASSUME NEW h, NEW l, ListInv(h, l), NEW j \in JIDs, getUserHost(j) = h,
           NEW later, Ties(l, later)
    PROVE  Ties(WithoutJID(l, j), Dropped(later, getResource(j)))
<1> DEFINE r == WithoutJID(l, j)
<1>1. ASSUME NEW from, NEW i \in 1 .. Len(r), NEW k \in 1 .. Len(r),
             from[i] \in 1 .. Len(l), from[k] \in 1 .. Len(l), from[i] < from[k],
             r[i] = l[from[i]], r[k] = l[from[k]],
             getPriority(r[i]) = getPriority(r[k])
      PROVE  <<getResource(r[i].from), getResource(r[k].from)>> \in Dropped(later, getResource(j))
    <2>1. <<getResource(r[i].from), getResource(r[k].from)>> \in later
        BY <1>1 DEF Ties
    <2>2. ListInv(h, r) /\ ~HoldsJID(r, j)
        BY WithoutKeepsOrder
    <2> HIDE DEF r
    <2>3. DOMAIN r = 1 .. Len(r)
        BY <2>2, StayingTypes DEF ListInv
    <2>4. ~SameJID(r[i].from, j) /\ ~SameJID(r[k].from, j)
        BY <2>2, <2>3 DEF HoldsJID
    <2>5. getResource(r[i].from) # getResource(j) /\ getResource(r[k].from) # getResource(j)
        BY <2>2, <2>4, ResourcesOfOne
    <2> QED
        BY <2>1, <2>5 DEF Dropped
<1>2. CASE ~HoldsJID(l, j)
    <2>1. r = l /\ Len(l) \in Nat
        BY <1>2, StayingTypes DEF WithoutJID, ListInv
    <2> DEFINE from == [i \in 1 .. Len(l) |-> i]
    <2>2. \A i \in 1 .. Len(l) : from[i] = i
        OBVIOUS
    <2> HIDE DEF r, from
    <2>3. ASSUME NEW i \in 1 .. Len(r), NEW k \in 1 .. Len(r), i < k,
                 getPriority(r[i]) = getPriority(r[k])
          PROVE  <<getResource(r[i].from), getResource(r[k].from)>>
                    \in Dropped(later, getResource(j))
        <3>1. /\ from[i] \in 1 .. Len(l) /\ from[k] \in 1 .. Len(l) /\ from[i] < from[k]
              /\ r[i] = l[from[i]] /\ r[k] = l[from[k]]
            BY <2>1, <2>2, <2>3
        <3> QED
            BY <2>3, <3>1, <1>1
    <2> QED
        BY <2>3 DEF Ties, r
<1>3. CASE HoldsJID(l, j)
    <2> DEFINE o == IndexOfJID(l, j)
    <2>1. /\ l \in Seq(Stays) /\ Len(l) \in Nat
          /\ o \in 1 .. Len(l)
        BY <1>3, IndexFound, StayingTypes DEF ListInv
    <2>2. r = RemoveAt(l, o)
        BY <1>3 DEF WithoutJID
    <2> HIDE DEF o, r
    <2>3. /\ Len(r) = Len(l) - 1
          /\ \A k \in 1 .. Len(l) - 1 : r[k] = IF k < o THEN l[k] ELSE l[k + 1]
        BY <2>1, <2>2, RemoveAtProperties
    <2> DEFINE from == [i \in 1 .. Len(l) |-> IF i < o THEN i ELSE i + 1]
    <2>4. \A i \in 1 .. Len(l) : from[i] = IF i < o THEN i ELSE i + 1
        OBVIOUS
    <2> HIDE DEF from
    <2>5. ASSUME NEW i \in 1 .. Len(r), NEW k \in 1 .. Len(r), i < k,
                 getPriority(r[i]) = getPriority(r[k])
          PROVE  <<getResource(r[i].from), getResource(r[k].from)>>
                    \in Dropped(later, getResource(j))
        <3>1. \A x \in 1 .. Len(r) : /\ from[x] \in 1 .. Len(l) /\ r[x] = l[from[x]]
                                     /\ from[x] = IF x < o THEN x ELSE x + 1
            <4> SUFFICES ASSUME NEW x \in 1 .. Len(r)
                         PROVE  /\ from[x] \in 1 .. Len(l) /\ r[x] = l[from[x]]
                                /\ from[x] = IF x < o THEN x ELSE x + 1
                OBVIOUS
            <4>1. x \in 1 .. Len(l) /\ x + 1 \in 1 .. Len(l) /\ x \in 1 .. Len(l) - 1
                BY <2>1, <2>3
            <4>2. CASE x < o
                BY <4>1, <4>2, <2>3, <2>4
            <4>3. CASE ~(x < o)
                BY <4>1, <4>3, <2>3, <2>4
            <4> QED
                BY <4>2, <4>3
        <3>2. from[i] < from[k]
            BY <2>1, <2>3, <2>5, <3>1
        <3> QED
            BY <2>5, <3>1, <3>2, <1>1
    <2> QED
        BY <2>5 DEF Ties, r
<1> QED
    BY <1>2, <1>3

\* What is put in comes before those of its priority, and after those of higher.
LEMMA PlacedKeepsTies ==
    ASSUME NEW p \in Stays, NEW l, ListInv(getUserHost(p.from), l), ~HoldsJID(l, p.from),
           NEW later, Ties(l, Dropped(later, getResource(p.from)))
    PROVE  Ties(Placed(l, p), Latest(later, getResource(p.from)))
<1> DEFINE i == InsertionPoint(l, p)
           r == Placed(l, p)
           res == getResource(p.from)
<1>1. /\ l \in Seq(Stays) /\ Len(l) \in Nat /\ DOMAIN l = 1 .. Len(l)
      /\ getPriority(p) \in Int
      /\ \A k \in 1 .. Len(l) : getPriority(l[k]) \in Int
    BY StayingTypes, PriorityIsInt DEF ListInv, Stays
<1>2. /\ i \in 1 .. Len(l) + 1
      /\ \A k \in 1 .. i - 1 : getPriority(l[k]) > getPriority(p)
    BY <1>1, InsertionPointFound
<1>3. r = InsertAt(l, i, p)
    BY DEF Placed
<1> HIDE DEF i, r
<1>4. /\ Len(r) = Len(l) + 1
      /\ \A k \in 1 .. Len(l) + 1 :
            r[k] = IF k < i THEN l[k] ELSE IF k = i THEN p ELSE l[k - 1]
    BY <1>1, <1>2, <1>3, InsertAtProperties
<1>5. p.from \in JIDs
    BY DEF Stays, Presences
<1>6. \A k \in 1 .. Len(l) : getResource(l[k].from) \in AnyRes \ {res}
    BY <1>1, <1>5, ResourcesOfOne DEF HoldsJID
<1> SUFFICES ASSUME NEW k \in 1 .. Len(r), NEW m \in 1 .. Len(r), k < m,
                    getPriority(r[k]) = getPriority(r[m])
             PROVE  <<getResource(r[k].from), getResource(r[m].from)>> \in Latest(later, res)
    BY DEF Ties, r
<1>7. CASE m = i
    <2>1. k \in 1 .. i - 1 /\ k \in 1 .. Len(l) /\ r[k] = l[k] /\ r[m] = p
        BY <1>1, <1>2, <1>4, <1>7
    <2> QED
        BY <2>1, <1>1, <1>2
<1>8. CASE k = i
    <2>1. m - 1 \in 1 .. Len(l) /\ r[m] = l[m - 1] /\ r[k] = p
        BY <1>1, <1>2, <1>4, <1>8
    <2> QED
        BY <2>1, <1>6 DEF Latest
<1>9. CASE k # i /\ m # i
    <2>1. PICK x \in 1 .. Len(l), y \in 1 .. Len(l) : x < y /\ r[k] = l[x] /\ r[m] = l[y]
        <3> DEFINE x == IF k < i THEN k ELSE k - 1
                   y == IF m < i THEN m ELSE m - 1
        <3>1. x \in 1 .. Len(l) /\ y \in 1 .. Len(l) /\ x < y /\ r[k] = l[x] /\ r[m] = l[y]
            BY <1>1, <1>2, <1>4, <1>9
        <3> HIDE DEF x, y
        <3> QED
            BY <3>1
    <2> QED
        BY <2>1 DEF Ties, Latest
<1> QED
    BY <1>7, <1>8, <1>9

\* A list that is stored is the list of its contact, and the others stay.
LEMMA StoredTies ==
    ASSUME HInv, NEW h \in BareJIDs, NEW l, SetBucket(h, l), NEW later, Ties(l, later),
           placings' = [placings EXCEPT ![h] = later], IInv'
    PROVE  HInv'
<1>1. DOMAIN placings' = BareJIDs /\ placings'[h] = later
    BY DEF HInv
<1>2. ASSUME NEW k \in DOMAIN db'
      PROVE  Ties(db'[k], placings'[k])
    <2>1. CASE k = h
        <3>1. db'[k] = l
            BY <1>2, <2>1 DEF SetBucket
        <3> QED
            BY <1>1, <2>1, <3>1
    <2>2. CASE k # h
        <3>1. k \in DOMAIN db /\ db'[k] = db[k] /\ placings'[k] = placings[k]
            BY <1>2, <2>2, <1>1 DEF SetBucket, HInv, IInv, DBTypeOK
        <3> QED
            BY <3>1 DEF HInv
    <2> QED
        BY <2>1, <2>2
<1> QED
    BY <1>1, <1>2 DEF HInv, Ties

LEMMA BucketTies ==
    ASSUME HInv, NEW h
    PROVE  Ties(Bucket(h), placings[h])
<1>1. CASE h \in DOMAIN db
    BY <1>1 DEF HInv, Bucket
<1>2. CASE h \notin DOMAIN db
    BY <1>2 DEF Bucket, Ties
<1> QED
    BY <1>1, <1>2

LEMMA PlacingInsertKeepsTies ==
    ASSUME HInv, NEW p \in Presences, PlacingInsert(p)
    PROVE  HInv'
<1> DEFINE h == getUserHost(p.from)
           res == getResource(p.from)
           later == placings[h]
<1>1. p.from \in JIDs /\ h \in BareJIDs
    BY HostOfJID DEF Presences
<1>2. ListInv(h, Bucket(h)) /\ Ties(Bucket(h), later)
    BY BucketInv, BucketTies DEF HInv
<1>3. IInv'
    BY NextInv DEF HInv, PlacingInsert, DBNext
<1>4. CASE Leaves(p)
    <2>1. SetBucket(h, WithoutJID(Bucket(h), p.from))
        BY <1>4 DEF PlacingInsert, insert
    <2>2. placings' = [placings EXCEPT ![h] = Dropped(later, res)]
        BY <1>4 DEF PlacingInsert
    <2>3. Ties(WithoutJID(Bucket(h), p.from), Dropped(later, res))
        BY <1>1, <1>2, WithoutKeepsTies
    <2> QED
        BY <1>1, <1>3, <2>1, <2>2, <2>3, StoredTies
<1>5. CASE ~Leaves(p)
    <2>1. SetBucket(h, Updated(Bucket(h), p)) /\ p \in Stays
        BY <1>5 DEF PlacingInsert, insert, Stays
    <2>2. Moves(p) <=> ~ KeepsPlace(Bucket(h), p)
        <3>1. \A q \in Known : SameJID(q.from, p.from) => q \in Range(Bucket(h))
            BY KnownOfHost DEF HInv, SameJID
        <3>2. Range(Bucket(h)) \subseteq Known
            BY KnownOfHost DEF HInv
        <3>3. DOMAIN Bucket(h) = 1 .. Len(Bucket(h))
            BY <1>2, StayingTypes DEF ListInv
        <3>4. \A q \in Range(Bucket(h)) : SameJID(q.from, p.from)
                 => /\ HoldsJID(Bucket(h), p.from)
                    /\ q = Bucket(h)[IndexOfJID(Bucket(h), p.from)]
            <4> SUFFICES ASSUME NEW i \in 1 .. Len(Bucket(h)),
                                SameJID(Bucket(h)[i].from, p.from)
                         PROVE  /\ HoldsJID(Bucket(h), p.from)
                                /\ i = IndexOfJID(Bucket(h), p.from)
                BY <3>3 DEF Range
            <4>1. HoldsJID(Bucket(h), p.from)
                BY <3>3 DEF HoldsJID
            <4>2. IndexOfJID(Bucket(h), p.from) \in 1 .. Len(Bucket(h))
                  /\ SameJID(Bucket(h)[IndexOfJID(Bucket(h), p.from)].from, p.from)
                BY <1>1, <1>2, <4>1, IndexFound DEF ListInv
            <4> QED
                BY <1>2, <4>1, <4>2 DEF ListInv, SameJID
        <3>5. HoldsJID(Bucket(h), p.from) =>
                  /\ Bucket(h)[IndexOfJID(Bucket(h), p.from)] \in Range(Bucket(h))
                  /\ SameJID(Bucket(h)[IndexOfJID(Bucket(h), p.from)].from, p.from)
            BY <1>1, <1>2, <3>3, IndexFound DEF ListInv, Range
        <3> QED
            BY <3>1, <3>2, <3>4, <3>5 DEF Moves, KeepsPlace
    <2>3. CASE Moves(p)
        <3>1. placings' = [placings EXCEPT ![h] = Latest(later, res)]
            BY <1>5, <2>3 DEF PlacingInsert
        <3>2. Updated(Bucket(h), p) = Placed(WithoutJID(Bucket(h), p.from), p)
            BY <2>2, <2>3 DEF Updated
        <3>3. /\ ListInv(h, WithoutJID(Bucket(h), p.from))
              /\ ~HoldsJID(WithoutJID(Bucket(h), p.from), p.from)
              /\ Ties(WithoutJID(Bucket(h), p.from), Dropped(later, res))
            BY <1>1, <1>2, WithoutKeepsOrder, WithoutKeepsTies
        <3>4. Ties(Updated(Bucket(h), p), Latest(later, res))
            BY <2>1, <3>2, <3>3, PlacedKeepsTies
        <3> QED
            BY <1>1, <1>3, <2>1, <3>1, <3>4, StoredTies
    <2>4. CASE ~Moves(p)
        <3> DEFINE i == IndexOfJID(Bucket(h), p.from)
                   l == Bucket(h)
                   r == [l EXCEPT ![i] = p]
        <3>1. placings' = [placings EXCEPT ![h] = later]
            BY <1>5, <2>4 DEF PlacingInsert
        <3>2. /\ l \in Seq(Stays) /\ Len(l) \in Nat
              /\ i \in 1 .. Len(l) /\ SameJID(l[i].from, p.from)
              /\ getPriority(l[i]) = getPriority(p)
            BY <1>1, <1>2, <2>2, <2>4, IndexFound, StayingTypes DEF ListInv, KeepsPlace
        <3>3. Updated(l, p) = r
            BY <2>2, <2>4 DEF Updated
        <3> HIDE DEF i, l
        <3>4. /\ Len(r) = Len(l)
              /\ \A k \in 1 .. Len(l) : r[k] = IF k = i THEN p ELSE l[k]
            BY <2>1, <3>2, ExceptSeq
        <3> HIDE DEF r
        <3>5. \A k \in 1 .. Len(l) : /\ getPriority(r[k]) = getPriority(l[k])
                                     /\ getResource(r[k].from) = getResource(l[k].from)
            BY <3>2, <3>4 DEF SameJID
        <3>6. Ties(r, later)
            BY <1>2, <3>4, <3>5 DEF Ties, l
        <3> QED
            BY <1>1, <1>3, <2>1, <3>1, <3>3, <3>6, StoredTies DEF l
    <2> QED
        BY <2>3, <2>4
<1> QED
    BY <1>4, <1>5

LEMMA PlacingNextKeepsTies == HInv /\ [PlacingNext]_placingVars => HInv'
<1> SUFFICES ASSUME HInv, [PlacingNext]_placingVars PROVE HInv'
    OBVIOUS
<1>1. IInv'
    BY NextInv DEF HInv, PlacingNext, PlacingInsert, PlacingRemove, PlacingClear, DBNext, placingVars
<1>2. ASSUME NEW p \in Presences, PlacingInsert(p) PROVE HInv'
    BY <1>2, PlacingInsertKeepsTies
<1>3. ASSUME NEW j \in JIDs, PlacingRemove(j) PROVE HInv'
    <2> DEFINE h == getUserHost(j)
    <2>1. /\ h \in BareJIDs /\ ListInv(h, Bucket(h)) /\ Ties(Bucket(h), placings[h])
        BY HostOfJID, BucketInv, BucketTies DEF HInv
    <2>2. Ties(WithoutJID(Bucket(h), j), Dropped(placings[h], getResource(j)))
        BY <2>1, WithoutKeepsTies
    <2>3. SetBucket(h, WithoutJID(Bucket(h), j))
        BY <1>3 DEF PlacingRemove, remove
    <2>4. placings' = [placings EXCEPT ![h] = Dropped(placings[h], getResource(j))]
        BY <1>3 DEF PlacingRemove
    <2> QED
        BY <1>1, <2>1, <2>2, <2>3, <2>4, StoredTies
<1>4. CASE PlacingClear
    <2>1. DOMAIN db' = {} /\ DOMAIN placings' = BareJIDs
        BY <1>4 DEF PlacingClear, clear, Nobody
    <2> QED
        BY <1>1, <2>1 DEF HInv
<1>5. CASE UNCHANGED placingVars
    BY <1>1, <1>5 DEF placingVars, HInv, Ties
<1> QED
    BY <1>2, <1>3, <1>4, <1>5 DEF PlacingNext

(***************************************************************************)
(* Among resources of one priority the list has the one first that logged   *)
(* in or changed its priority last, for any JIDs and priorities.            *)
(***************************************************************************)
THEOREM TiesGoToTheLatest == PlacingSpec => []TiesByPlacing
<1>1. PlacingInit => HInv
    <2>1. PlacingInit => IInv /\ DOMAIN db = {} /\ DOMAIN placings = BareJIDs
        BY InitInv DEF PlacingInit, DBInit, Nobody
    <2> QED
        BY <2>1 DEF HInv
<1>2. HInv => TiesByPlacing
    <2> SUFFICES ASSUME HInv, NEW h \in DOMAIN db PROVE Entries(h) = 1 .. Len(db[h])
        BY DEF HInv, TiesByPlacing, Ties, Later
    <2> QED
        BY InvIsListInv, StayingTypes DEF HInv, Entries, ListInv
<1> QED
    BY <1>1, <1>2, PlacingNextKeepsTies, PTL DEF PlacingSpec
=============================================================================
