---------------------------- MODULE RosterMerge ----------------------------
(***************************************************************************)
(* The loop of Roster::mergeItemGroups, one iteration per step: two         *)
(* iterators over the sorted sets of the groups an item was in and is in    *)
(* now.                                                                     *)
(***************************************************************************)
EXTENDS Naturals, Sequences, RosterGroups

CONSTANTS
    Jids,
    itemjid,        \* the item whose groups are merged
    GroupLists      \* the contents of sets of groups, in the order of the set

Sorted(s) ==
    /\ s \in Seq(Groups)
    /\ \A i, k \in 1 .. Len(s) : i < k => Precedes(s[i], s[k])

ASSUME MergeAssumption ==
    /\ itemjid \in Jids
    /\ \A s \in GroupLists : Sorted(s)

VARIABLES
    index,          \* Roster::_groups
    before,         \* what the loop found there
    oldgrp,         \* the groups the item was in
    newgrp,         \* the groups it is in now
    old_it, new_it  \* positions in oldgrp and newgrp

args == <<before, oldgrp, newgrp>>
mergeVars == <<args, index, old_it, new_it>>

\* The group indexes over the JIDs in D.
IndexOver(D) == UNION {[G -> (SUBSET D) \ {{}}] : G \in SUBSET Groups}

MergeInit ==
    /\ before \in IndexOver(Jids)
    /\ oldgrp \in GroupLists
    /\ newgrp \in GroupLists
    /\ index = before
    /\ old_it = 1
    /\ new_it = 1

OldLeft == old_it <= Len(oldgrp)
NewLeft == new_it <= Len(newgrp)

EnterNew ==
    /\ ~OldLeft
    /\ NewLeft
    /\ index' = insertInGroup(index, newgrp[new_it], itemjid)
    /\ new_it' = new_it + 1
    /\ UNCHANGED <<args, old_it>>

\* Mutant: only the iterator of the old groups moves on
SkipOld ==
    /\ OldLeft
    /\ NewLeft
    /\ oldgrp[old_it] = newgrp[new_it]
    /\ old_it' = old_it + 1
    /\ UNCHANGED <<args, index, new_it>>

SkipEqual ==
    /\ OldLeft
    /\ NewLeft
    /\ oldgrp[old_it] = newgrp[new_it]
    /\ old_it' = old_it + 1
    /\ new_it' = new_it + 1
    /\ UNCHANGED <<args, index>>

\* Mutant: both iterators move on where they differ
LeaveBoth ==
    /\ OldLeft
    /\ NewLeft => oldgrp[old_it] # newgrp[new_it]
    /\ index' = removeItemFromGroup(index, oldgrp[old_it], itemjid)
    /\ old_it' = old_it + 1
    /\ new_it' = IF NewLeft THEN new_it + 1 ELSE new_it
    /\ UNCHANGED args

\* Mutant: the iterator stays
LeaveAndStay ==
    /\ OldLeft
    /\ NewLeft => oldgrp[old_it] # newgrp[new_it]
    /\ index' = removeItemFromGroup(index, oldgrp[old_it], itemjid)
    /\ UNCHANGED <<args, old_it, new_it>>

\* The second and the last branch of the loop.
LeaveOld ==
    /\ OldLeft
    /\ NewLeft => oldgrp[old_it] # newgrp[new_it]
    /\ index' = removeItemFromGroup(index, oldgrp[old_it], itemjid)
    /\ old_it' = old_it + 1
    /\ UNCHANGED <<args, new_it>>

Done == ~OldLeft /\ ~NewLeft

MergeNext == EnterNew \/ SkipEqual \/ LeaveOld

MergeSpec == MergeInit /\ [][MergeNext]_mergeVars /\ WF_mergeVars(MergeNext)

-----------------------------------------------------------------------------
OldSet == {oldgrp[i] : i \in 1 .. Len(oldgrp)}
NewSet == {newgrp[i] : i \in 1 .. Len(newgrp)}

(***************************************************************************)
(* The loop ends with the index mergeItemGroups stands for: nobody else     *)
(* moves, the item leaves what it left, is entered where it is new, and no  *)
(* empty group remains, whatever the index held before.                     *)
(***************************************************************************)
MergesGroups ==
    Done => index = mergeItemGroups(before, itemjid, OldSet, NewSet)

(***************************************************************************)
(* An item that was listed in all its old groups ends up listed in exactly  *)
(* its new ones, though the loop takes it out of groups it is to stay in.   *)
(***************************************************************************)
ListedAsTold ==
    Done /\ (\A g \in Groups : itemjid \in Members(before, g) <=> g \in OldSet)
        => \A g \in Groups : itemjid \in Members(index, g) <=> g \in NewSet

(***************************************************************************)
(* Every iteration moves an iterator: the loop ends.                        *)
(***************************************************************************)
Terminates == <>Done
=============================================================================
