--------------------------- MODULE RosterHistory ---------------------------
(***************************************************************************)
(* The roster with an auxiliary variable that counts the edits the          *)
(* application makes on its own: what the index of groups is worth as long *)
(* as it has not.  (An edit changes the item and not the index.)            *)
(***************************************************************************)
EXTENDS Integers, Roster

CONSTANT MaxEdits   \* edits of the application

ASSUME MaxEditsAssumption == MaxEdits \in Nat

VARIABLE edits      \* edits there have been

edited == edits > 0

hvars == <<vars, edits>>

HInit == Init /\ edits = 0

HNext ==
    \/ \E q \in Pushes : update(q) /\ UNCHANGED edits
    \/ reset /\ UNCHANGED edits
    \/ Edit /\ edits < MaxEdits /\ edits' = edits + 1

HSpec == HInit /\ [][HNext]_hvars

-----------------------------------------------------------------------------
(***************************************************************************)
(* Every item is listed, in some spelling, in each of its groups: a client  *)
(* that draws the roster by groups shows every contact.  The merge of the   *)
(* groups works from the difference to the item's old groups, which the     *)
(* spelling of the JID, a reset or another item's removal must not upset.   *)
(***************************************************************************)
EveryItemListed ==
    ~edited => \A k \in DOMAIN items : \A g \in items[k].groups :
                   \E m \in Members(groups, g) : filterJID(m) = k

\* Who is listed in a group but is no item that is in it.
Ghosts ==
    {gj \in Groups \X JIDs :
        /\ gj[2] \in Members(groups, gj[1])
        /\ \A k \in DOMAIN items : items[k].jid = gj[2] => gj[1] \notin items[k].groups}

NamedOneWay == {j \in JIDs : \A i \in JIDs : filterJID(i) = filterJID(j) => i = j}

(***************************************************************************)
(* Where the server names a contact in one way, always in the same spelling *)
(* and with the same resource, and the application leaves the items alone,  *)
(* only a reset leaves anyone in a group that is in it no more: no push,    *)
(* move between groups or removal does.                                     *)
(***************************************************************************)
OnlyResetLeavesGhosts ==
    [][edited' \/ reset \/ \A gj \in Ghosts' \ Ghosts : gj[2] \notin NamedOneWay]_hvars
=============================================================================
