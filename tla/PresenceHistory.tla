-------------------------- MODULE PresenceHistory --------------------------
(***************************************************************************)
(* The presence database with an auxiliary variable that remembers in      *)
(* which order its resources came, to say which of them is the default.    *)
(***************************************************************************)
EXTENDS PresenceDB

VARIABLE placings   \* per contact, {<<r, s>> : its resource r logged in or
                    \* changed its priority after s did}

placingVars == <<db, placings>>

AnyRes == Resources \cup {NoRes}

Dropped(later, r) == {rs \in later : r # rs[1] /\ r # rs[2]}

Latest(later, r) == Dropped(later, r) \cup {<<r, s>> : s \in AnyRes \ {r}}

\* The resource of p is new or changes its priority.
Moves(p) ==
    ~\E q \in Known : SameJID(q.from, p.from) /\ getPriority(q) = getPriority(p)

Nobody == [h \in BareJIDs |-> {}]

PlacingInit == DBInit /\ placings = Nobody

PlacingInsert(p) ==
    LET h == getUserHost(p.from)
        r == getResource(p.from)
    IN  /\ insert(p)
        /\ placings' = [placings EXCEPT ![h] =
              IF Leaves(p) THEN Dropped(@, r)
              ELSE IF Moves(p) THEN Latest(@, r) ELSE @]

PlacingRemove(j) ==
    LET h == getUserHost(j) IN
    /\ remove(j)
    /\ placings' = [placings EXCEPT ![h] = Dropped(@, getResource(j))]

PlacingClear == clear /\ placings' = Nobody

PlacingNext ==
    \/ \E p \in Presences : PlacingInsert(p)
    \/ \E j \in JIDs : PlacingRemove(j)
    \/ PlacingClear

PlacingSpec == PlacingInit /\ [][PlacingNext]_placingVars

-----------------------------------------------------------------------------
\* Entry i of the list of h comes later in the history than entry k.
Later(h, i, k) ==
    <<getResource(db[h][i].from), getResource(db[h][k].from)>> \in placings[h]

(***************************************************************************)
(* The order the code keeps among resources of one priority: the one first  *)
(* that logged in or changed its priority last.  A resource that only       *)
(* repeats or edits its presence (away, back) takes nobody's place, and one *)
(* that moves down and up again does; include/presence.hh:150 speaks of     *)
(* logins only, which LatestLoginIsDefault of PresenceClaims refutes.  With *)
(* SortedByPriority this fixes the whole list.                              *)
(***************************************************************************)
TiesByPlacing ==
    \A h \in DOMAIN db : \A i, k \in Entries(h) :
        /\ i < k
        /\ getPriority(db[h][i]) = getPriority(db[h][k])
        => Later(h, i, k)
=============================================================================
