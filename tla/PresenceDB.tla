---------------------------- MODULE PresenceDB ----------------------------
(***************************************************************************)
(* The presence database of a session (src/jabberoo-presencedb.cc): for     *)
(* each bare JID the list of the presences of its resources.  The list is  *)
(* kept by descending priority, so that its first entry, the "default      *)
(* presence" of the contact, is what find() and available() look at.       *)
(***************************************************************************)
EXTENDS Integers, Sequences, SequencesExt, JIDs

CONSTANTS
    Priorities,
    Types           \* the types of presence that are inserted

\* Presence::Type
Type == {"SubRequest", "UnsubRequest", "Subscribed", "Unsubscribed",
         "Available", "Unavailable", "Error", "Invisible"}

\* What Session::handlePresence lets through to insert().
StoredTypes == Type \ {"SubRequest", "UnsubRequest", "Unsubscribed"}

ASSUME PresenceAssumption ==
    /\ Priorities \subseteq Int
    /\ Types \subseteq StoredTypes

Presences == [from : JIDs, type : Types, pri : Priorities]

\* Presence::getPriority: an unavailable presence ranks below the default 0.
getPriority(p) == IF p.type = "Unavailable" THEN -1 ELSE p.pri

\* The types that take a resource out of the database.
Leaves(p) == p.type \in {"Unavailable", "Error"}

VARIABLE db     \* bare JID -> list of presences; the std::map _DB

-----------------------------------------------------------------------------
(* std::find_if with the two predicates, and the list operations            *)

HoldsJID(l, j) == \E i \in DOMAIN l : SameJID(l[i].from, j)

\* find_if(l, pred_presence_jid(j)), where there is such an entry
IndexOfJID(l, j) ==
    CHOOSE i \in DOMAIN l :
        /\ SameJID(l[i].from, j)
        /\ \A k \in 1 .. i - 1 : ~SameJID(l[k].from, j)

WithoutJID(l, j) ==
    IF HoldsJID(l, j) THEN RemoveAt(l, IndexOfJID(l, j)) ELSE l

\* Mutant: "<" for "<=", which queues p behind its equals
InsertionPointBehind(l, p) ==
    CHOOSE i \in 1 .. Len(l) + 1 :
        /\ i # Len(l) + 1 => getPriority(l[i]) < getPriority(p)
        /\ \A k \in 1 .. i - 1 : getPriority(l[k]) >= getPriority(p)

\* find_if(l, pred_presence_priority(p)): the first entry p does not rank below
InsertionPoint(l, p) ==
    CHOOSE i \in 1 .. Len(l) + 1 :
        /\ i # Len(l) + 1 => getPriority(l[i]) <= getPriority(p)
        /\ \A k \in 1 .. i - 1 : getPriority(l[k]) > getPriority(p)

Placed(l, p) == InsertAt(l, InsertionPoint(l, p), p)

\* Mutant: a presence is replaced in its place whatever its priority
KeepsPlaceAlways(l, p) == HoldsJID(l, p.from)

KeepsPlace(l, p) ==
    /\ HoldsJID(l, p.from)
    /\ getPriority(l[IndexOfJID(l, p.from)]) = getPriority(p)

\* Mutant: where the priority changes, the old presence is not erased
UpdatedBeside(l, p) ==
    IF KeepsPlace(l, p) THEN [l EXCEPT ![IndexOfJID(l, p.from)] = p]
                        ELSE Placed(l, p)

Updated(l, p) ==
    IF KeepsPlace(l, p) THEN [l EXCEPT ![IndexOfJID(l, p.from)] = p]
                        ELSE Placed(WithoutJID(l, p.from), p)

\* _DB[h], which creates an empty list where there is none
Bucket(h) == IF h \in DOMAIN db THEN db[h] ELSE <<>>

\* l becomes the list of h; an empty list is erased from the map
SetBucket(h, l) ==
    db' = [k \in (IF l = <<>> THEN DOMAIN db \ {h} ELSE DOMAIN db \cup {h}) |->
              IF k = h THEN l ELSE db[k]]

-----------------------------------------------------------------------------
(* Queries                                                                  *)

contains(h) == h \in DOMAIN db

\* find(jid), which throws where contains() is false
find(h) == Head(db[h])

available(h) == contains(h) /\ find(h).type = "Available"

\* findExact(jid) returns rather than throws
FindsExact(j) ==
    /\ contains(getUserHost(j))
    /\ getResource(j) # NoRes => HoldsJID(db[getUserHost(j)], j)

findExact(j) ==
    LET l == db[getUserHost(j)] IN
    IF getResource(j) = NoRes THEN Head(l) ELSE l[IndexOfJID(l, j)]

\* The entries send_unavailable() announces: one per contact.
FarewellEntries == {find(h) : h \in {g \in DOMAIN db : available(g)}}

-----------------------------------------------------------------------------
DBInit == db = <<>>

insert(p) ==
    LET h == getUserHost(p.from) IN
    SetBucket(h, IF Leaves(p) THEN WithoutJID(Bucket(h), p.from)
                              ELSE Updated(Bucket(h), p))

remove(j) ==
    LET h == getUserHost(j) IN SetBucket(h, WithoutJID(Bucket(h), j))

clear == db' = <<>>

DBNext ==
    \/ \E p \in Presences : insert(p)
    \/ \E j \in JIDs : remove(j)
    \/ clear

DBSpec == DBInit /\ [][DBNext]_db

-----------------------------------------------------------------------------
Entries(h) == DOMAIN db[h]

\* The database maps bare JIDs to lists of presences of a kind that stays.
DBTypeOK ==
    /\ DOMAIN db \subseteq BareJIDs
    /\ \A h \in DOMAIN db : db[h] \in Seq({p \in Presences : ~Leaves(p)})

NoEmptyList == \A h \in DOMAIN db : db[h] # <<>>

FiledUnderOwnJID ==
    \A h \in DOMAIN db : \A i \in Entries(h) : getUserHost(db[h][i].from) = h

SortedByPriority ==
    \A h \in DOMAIN db : \A i, k \in Entries(h) :
        i < k => getPriority(db[h][i]) >= getPriority(db[h][k])

OneEntryPerJID ==
    \A h \in DOMAIN db : \A i, k \in Entries(h) :
        SameJID(db[h][i].from, db[h][k].from) => i = k

(***************************************************************************)
(* Whatever the order of logins, priority changes, logouts and removals, no *)
(* contact is left with an empty list (contains() would be true and find() *)
(* throw), every presence is filed under its own contact, the list is in   *)
(* order of priority, and no resource is in it twice (a logout, which      *)
(* removes one entry, would leave a ghost): what find(), available() and    *)
(* findExact() rely on.                                                     *)
(***************************************************************************)
DBInv ==
    /\ NoEmptyList
    /\ FiledUnderOwnJID
    /\ SortedByPriority
    /\ OneEntryPerJID

-----------------------------------------------------------------------------
\* All presences the database holds.
Known == UNION {Range(db[h]) : h \in DOMAIN db}

Abstract == INSTANCE PresenceMap WITH known <- Known

(***************************************************************************)
(* Whatever list surgery a packet causes, the presences the database holds  *)
(* are exactly the latest one of each JID that has not left, and remove()   *)
(* takes out the one JID it is given: an implementation of the plain map of *)
(* PresenceMap.  (include/presenceDB.hh:85 says remove() takes out the      *)
(* whole contact; RemoveTakesAll of PresenceClaims refutes that.)           *)
(***************************************************************************)
ImplementsMap == Abstract!Spec
=============================================================================
