------------------------------ MODULE MCStores ------------------------------
(***************************************************************************)
(* The presence database, the roster and the merge of the groups of one     *)
(* item, checked in one run.  They have no state in common; a behavior      *)
(* takes one of them up, and the variables of the others stay as they are. *)
(*   "presences": a user with three resources, one of them seen in two      *)
(*                spellings, and an agent, over three priorities.           *)
(*   "roster":    a user in two spellings and an agent registration;        *)
(*                queries of one item and of two.                           *)
(*   "merge":     all indexes over three groups and two items, all old and  *)
(*                new groups of one of them.                                *)
(***************************************************************************)
EXTENDS PresenceHistory, RosterHistory, RosterMerge

CONSTANTS u, g, r1, r2, r3, reg, low, up, A, B, P, U, W

VARIABLE suite

UserJID == [bare |-> u, res |-> NoRes, sp |-> low]
Respelled == [bare |-> u, res |-> NoRes, sp |-> up]
Registration == [bare |-> g, res |-> reg, sp |-> low]

RosterJIDs == {UserJID, Respelled, Registration}

PresenceJIDs ==
    {[bare |-> u, res |-> r, sp |-> low] : r \in {r1, r2, r3}}
    \cup {[bare |-> u, res |-> r1, sp |-> up],
          [bare |-> g, res |-> NoRes, sp |-> low]}

MCJIDs == RosterJIDs \cup PresenceJIDs

InOrder == <<A, B, P, U, W>>

MCNameOrder ==
    {<<InOrder[p[1]], InOrder[p[2]]>> : p \in {q \in (1 .. 5) \X (1 .. 5) : q[1] < q[2]}}

Item(j, in, ask) == [jid |-> j, remove |-> FALSE, ask |-> ask, in |-> in]
Removal(j) == [jid |-> j, remove |-> TRUE, ask |-> FALSE, in |-> {}]

MCPushes ==
    {<<Item(j, in, FALSE)>> : j \in {UserJID, Respelled}, in \in {{B, W}, {W}, {}}}
    \cup {<<Item(Registration, in, FALSE)>> : in \in {{}, {W}}}
    \cup {<<Removal(UserJID)>>, <<Removal(Registration)>>,
          <<Item(UserJID, {W}, TRUE)>>,
          <<Item(UserJID, {B}, FALSE), Removal(Registration)>>,
          <<Removal(UserJID), Item(UserJID, {}, TRUE)>>}

MergedGroups == {B, P, W}

MCGroupLists == {SetToSortSeq(S, Precedes) : S \in SUBSET MergedGroups}

MergedJIDs == {UserJID, Registration}

-----------------------------------------------------------------------------
NoMerge ==
    /\ before = <<>> /\ index = <<>>
    /\ oldgrp = <<>> /\ newgrp = <<>>
    /\ old_it = 1 /\ new_it = 1

StoresInit ==
    /\ PlacingInit
    /\ HInit
    /\ \/ suite \in {"presences", "roster"} /\ NoMerge
       \/ suite = "merge" /\ MergeInit /\ DOMAIN before \subseteq MergedGroups

PresencesNext ==
    \/ \E p \in [from : PresenceJIDs, type : Types, pri : Priorities] : PlacingInsert(p)
    \/ \E j \in PresenceJIDs : PlacingRemove(j)
    \/ PlacingClear

MergeStep ==
    /\ suite = "merge"
    /\ MergeNext
    /\ UNCHANGED <<suite, placingVars, hvars>>

StoresNext ==
    \/ /\ suite = "presences"
       /\ PresencesNext
       /\ UNCHANGED <<suite, hvars, mergeVars>>
    \/ /\ suite = "roster"
       /\ HNext
       /\ UNCHANGED <<suite, placingVars, mergeVars>>
    \/ MergeStep

storesVars == <<suite, placingVars, hvars, mergeVars>>

\* The loop of the merge goes on as long as it can.
StoresSpec == StoresInit /\ [][StoresNext]_storesVars /\ WF_storesVars(MergeStep)
=============================================================================
