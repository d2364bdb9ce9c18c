---------------------------- MODULE RosterGroups ----------------------------
(***************************************************************************)
(* The group index of a roster (Roster::_groups in src/jabberoo-roster.cc): *)
(* a map from group names to sets of JIDs as the server spelled them, and   *)
(* the ways the roster changes it.  A group nobody is in is erased.         *)
(***************************************************************************)
CONSTANTS
    Groups,     \* group names
    NameOrder   \* {<<f, g>> : f sorts before g}, the order of a std::set

ASSUME NameOrderAssumption ==
    /\ NameOrder \subseteq Groups \X Groups
    /\ \A g \in Groups : <<g, g>> \notin NameOrder
    /\ \A f, g \in Groups : f # g => <<f, g>> \in NameOrder \/ <<g, f>> \in NameOrder
    /\ \A f, g, h \in Groups :
          <<f, g>> \in NameOrder /\ <<g, h>> \in NameOrder => <<f, h>> \in NameOrder

Precedes(f, g) == <<f, g>> \in NameOrder

Members(gs, g) == IF g \in DOMAIN gs THEN gs[g] ELSE {}

\* _groups[g].insert(j)
insertInGroup(gs, g, j) ==
    [f \in DOMAIN gs \cup {g} |->
        IF f = g THEN Members(gs, g) \cup {j} ELSE gs[f]]

EmptiedBy(gs, g, j) == g \in DOMAIN gs /\ gs[g] \subseteq {j}

removeItemFromGroup(gs, g, j) ==
    [f \in DOMAIN gs \ (IF EmptiedBy(gs, g, j) THEN {g} ELSE {}) |->
        IF f = g THEN gs[f] \ {j} ELSE gs[f]]

\* Mutant: the same, of the loop
removeLeavingGroups(gs, out, j) ==
    [f \in DOMAIN gs |-> IF f \in out THEN gs[f] \ {j} ELSE gs[f]]

\* The loop of removeItemFromAllGroups: j leaves each of the groups in out.
removeItemFromGroups(gs, out, j) ==
    [f \in {g \in DOMAIN gs : g \in out => ~EmptiedBy(gs, g, j)} |->
        IF f \in out THEN gs[f] \ {j} ELSE gs[f]]

-----------------------------------------------------------------------------
(***************************************************************************)
(* What the loop of mergeItemGroups comes to (RosterMerge has the loop).    *)
(* It walks the old and the new groups of an item side by side, each in     *)
(* order, and moves on in the new ones only where both agree: it leaves     *)
(* alone the new groups up to the first one that is not an old one, takes   *)
(* the item out of all other old groups and enters it into all other new    *)
(* ones.                                                                    *)
(***************************************************************************)
Kept(old, new) ==
    {g \in new : \A f \in new : f = g \/ Precedes(f, g) => f \in old}

mergeItemGroups(gs, j, old, new) ==
    LET keep == Kept(old, new)
        After(g) == (Members(gs, g) \ (IF g \in old \ keep THEN {j} ELSE {}))
                    \cup (IF g \in new \ keep THEN {j} ELSE {})
    IN  [g \in {f \in DOMAIN gs \cup (new \ keep) : After(f) # {}} |-> After(g)]
=============================================================================
