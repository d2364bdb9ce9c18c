-------------------------- MODULE PresenceClaims --------------------------
(***************************************************************************)
(* What the headers say of the presence database, where the code does       *)
(* something else: the history of logins and removals is kept beside the    *)
(* database to judge it by.  What the code does is TiesByPlacing of         *)
(* PresenceHistory and ImplementsMap of PresenceDB.                         *)
(***************************************************************************)
EXTENDS PresenceHistory

VARIABLES
    logins,     \* per contact, {<<r, s>> : its resource r logged in after s did}
    removed     \* the contacts of the JID remove() was just called with

cvars == <<placingVars, logins, removed>>

LoggedIn(p) == ~ \E q \in Known : SameJID(q.from, p.from)

CInit == PlacingInit /\ logins = Nobody /\ removed = {}

CInsert(p) ==
    LET h == getUserHost(p.from)
        r == getResource(p.from)
    IN  /\ PlacingInsert(p)
        /\ logins' = [logins EXCEPT ![h] =
              IF Leaves(p) THEN Dropped(@, r)
              ELSE IF LoggedIn(p) THEN Latest(@, r) ELSE @]
        /\ removed' = {}

CRemove(j) ==
    LET h == getUserHost(j) IN
    /\ PlacingRemove(j)
    /\ logins' = [logins EXCEPT ![h] = Dropped(@, getResource(j))]
    /\ removed' = {h}

CClear == PlacingClear /\ logins' = Nobody /\ removed' = {}

CNext ==
    \/ \E p \in Presences : CInsert(p)
    \/ \E j \in JIDs : CRemove(j)
    \/ CClear

CSpec == CInit /\ [][CNext]_cvars

-----------------------------------------------------------------------------
(***************************************************************************)
(* "If two resources have the same priority, the most recently logged in    *)
(* resource is the default" (src/include/presence.hh:150-151).  In the code *)
(* one that changes its priority to that of the default becomes the         *)
(* default, whenever it logged in.                                          *)
(***************************************************************************)
LatestLoginIsDefault ==
    \A h \in DOMAIN db : \A i \in Entries(h) \ {1} :
        getPriority(db[h][i]) = getPriority(find(h)) =>
            <<getResource(find(h).from), getResource(db[h][i].from)>> \in logins[h]

(***************************************************************************)
(* remove() "will remove all Presence Packets which match the user@host"    *)
(* (src/include/presenceDB.hh:85).  In the code it removes the one of the   *)
(* JID it is given.                                                         *)
(***************************************************************************)
RemoveTakesAll == \A h \in removed : ~ contains(h)

(***************************************************************************)
(* At no time are both sentences broken at once.  A behavior that ends in a *)
(* state where they are shows the two disagreements side by side: a contact *)
(* whose default presence is not its latest login, and which remove() left  *)
(* there.                                                                   *)
(***************************************************************************)
LoginClaimOrRemoveClaim == LatestLoginIsDefault \/ RemoveTakesAll
=============================================================================
