------------------------------- MODULE Roster -------------------------------
(***************************************************************************)
(* The roster of a session (src/jabberoo-roster.cc): the items the server   *)
(* pushes, each under the key filterJID makes of its JID, and the index of  *)
(* their groups.  Names and subscription states are left out; "remove" is   *)
(* what the code tells apart.                                               *)
(***************************************************************************)
EXTENDS Sequences, SequencesExt, JIDs, RosterGroups

CONSTANTS
    RealGroups,                     \* groups the server names
    Pending, AgentsGroup, Unfiled,  \* the virtual groups
    Pushes          \* contents of the roster queries the server may send

ASSUME GroupsAssumption ==
    RealGroups \cup {Pending, AgentsGroup, Unfiled} \subseteq Groups

(***************************************************************************)
(* An <item/> of a roster query.                                            *)
(***************************************************************************)
PushedItems == [jid : JIDs, remove : BOOLEAN, ask : BOOLEAN, in : SUBSET RealGroups]

ASSUME PushesAssumption == Pushes \subseteq Seq(PushedItems)

VARIABLES
    items,      \* filterJID(jid) -> the item
    groups      \* the index: group name -> JIDs

vars == <<items, groups>>

Items == [jid     : JIDs,           \* _jid, as last pushed
          pending : BOOLEAN,
          groups  : SUBSET Groups,  \* _groups
          rescnt  : {0, 1}]

containsJID(k) == k \in DOMAIN items

-----------------------------------------------------------------------------
\* An agent registration: no user, but a resource.
IsAgent(j) == ~HasUser(j) /\ getResource(j) # NoRes

\* Roster::Item::update(Element): the groups an item is shown in.
ShownIn(e) ==
    IF e.ask THEN e.in \cup {Pending}
    ELSE IF e.in # {} THEN e.in
    ELSE IF IsAgent(e.jid) THEN {AgentsGroup} ELSE {Unfiled}

\* The item e makes of one with r presences counted.
ItemOf(e, r) ==
    [jid |-> e.jid, pending |-> e.ask, groups |-> ShownIn(e), rescnt |-> r]

(***************************************************************************)
(* One round of the loop of Roster::update(Element), on a state of items    *)
(* and groups.                                                              *)
(***************************************************************************)
\* Mutant: removeItemFromAllGroups() is not called
RemovedInItems(s, k) ==
    [s EXCEPT !.items = [x \in DOMAIN s.items \ {k} |-> s.items[x]]]

Removed(s, k) ==
    [items  |-> [x \in DOMAIN s.items \ {k} |-> s.items[x]],
     groups |-> removeItemFromGroups(s.groups, s.items[k].groups, s.items[k].jid)]

\* Mutant: the old groups are read when the new ones are already in place
ReplacedFirst(s, k, e) ==
    LET known == k \in DOMAIN s.items
        i == ItemOf(e, IF known THEN s.items[k].rescnt ELSE 0)
        old == IF known THEN i.groups ELSE {}
    IN  [items  |-> [x \in DOMAIN s.items \cup {k} |->
                        IF x = k THEN i ELSE s.items[x]],
         groups |-> mergeItemGroups(s.groups, i.jid, old, i.groups)]

Replaced(s, k, e) ==
    LET known == k \in DOMAIN s.items
        i == ItemOf(e, IF known THEN s.items[k].rescnt ELSE 0)
        old == IF known THEN s.items[k].groups ELSE {}
    IN  [items  |-> [x \in DOMAIN s.items \cup {k} |->
                        IF x = k THEN i ELSE s.items[x]],
         groups |-> mergeItemGroups(s.groups, i.jid, old, i.groups)]

Pushed(s, e) ==
    LET k == filterJID(e.jid) IN
    IF ~e.remove THEN Replaced(s, k, e)
    ELSE IF k \in DOMAIN s.items THEN Removed(s, k) ELSE s

Become(s) == items' = s.items /\ groups' = s.groups

-----------------------------------------------------------------------------
Init ==
    /\ items = <<>>
    /\ groups = <<>>

\* Roster::update(Element): the roster query of a result or a push
update(q) == Become(FoldLeft(Pushed, [items |-> items, groups |-> groups], q))

\* Roster::reset, when the server ends the stream
reset ==
    /\ items' = <<>>
    /\ UNCHANGED groups

\* The modifiers of an item the application got by reference.
addToGroup(k, g) ==
    /\ items' = [items EXCEPT ![k].groups = @ \cup {g}]
    /\ UNCHANGED groups

delFromGroup(k, g) ==
    /\ items' = [items EXCEPT ![k].groups = @ \ {g}]
    /\ UNCHANGED groups

clearGroups(k) ==
    /\ items' = [items EXCEPT ![k].groups = {}]
    /\ UNCHANGED groups

setJID(k, j) ==
    /\ items' = [items EXCEPT ![k].jid = j]
    /\ UNCHANGED groups

\* The application edits an item it got through operator[].
Edit ==
    \E k \in DOMAIN items :
        \/ \E g \in RealGroups : addToGroup(k, g) \/ delFromGroup(k, g)
        \/ clearGroups(k)
        \/ \E j \in JIDs : setJID(k, j)

Next ==
    \/ \E q \in Pushes : update(q)
    \/ reset
    \/ Edit

Spec == Init /\ [][Next]_vars

-----------------------------------------------------------------------------
TypeOK ==
    /\ DOMAIN items \subseteq RosterKeys
    /\ \A k \in DOMAIN items : items[k] \in Items
    /\ DOMAIN groups \subseteq Groups
    /\ \A g \in DOMAIN groups : groups[g] \subseteq JIDs

(***************************************************************************)
(* No push, re-spelling, edit or reset leaves a group nobody is in: a       *)
(* client draws one heading per group of getGroups().                       *)
(***************************************************************************)
NoEmptyGroup == \A g \in DOMAIN groups : groups[g] # {}

\* The types of Roster, with no group of the index empty
RosterInv == TypeOK /\ NoEmptyGroup
=============================================================================
