------------------------------ MODULE Contacts ------------------------------
(***************************************************************************)
(* How a session (src/jabberoo-session.cc) drives its roster and its        *)
(* presence database from the packets of the server, and what it tells the  *)
(* application.  Packets come in any order the server chooses: presences    *)
(* before the roster that names their senders, several resources of one     *)
(* contact, removals between presences.                                     *)
(***************************************************************************)
EXTENDS Integers, Sequences, JIDs, RosterGroups

CONSTANTS
    Priorities, Types,
    RealGroups, Pending, AgentsGroup, Unfiled, Pushes

VARIABLES
    db,         \* the presence database
    items,      \* the roster
    groups,     \* and the index of its groups
    connected,  \* _ConnState is not csNotConnected
    feed,       \* the stream of the server is open: its packets are parsed
    heard,      \* auxiliary: the items a presence has come for since they exist
    told,       \* Session::evtPresence signals of the last step
    rosterTold  \* Roster::evtPresence signals of the last step

vars == <<db, items, groups, connected, feed, heard, told, rosterTold>>

PDB == INSTANCE PresenceDB

R == INSTANCE Roster

ASSUME PushesAssumption == Pushes \subseteq Seq(R!PushedItems)

Quiet == told' = {} /\ rosterTold' = {}

-----------------------------------------------------------------------------
(* Session::handlePresence                                                  *)

\* Mutant: the previous type is looked up when p is already in the database
typeOfDefault(p) ==
    LET h == getUserHost(p.from) IN
    IF PDB!contains(h)' THEN PDB!find(h).type' ELSE "Unavailable"

\* The type of the presence find() has for the contact of p before p counts.
prevType(p) ==
    LET h == getUserHost(p.from) IN
    IF PDB!contains(h) THEN PDB!find(h).type ELSE "Unavailable"

\* Mutant: the count follows the database before p
countBefore(p) ==
    LET k == filterJID(p.from)
        n == IF PDB!available(getUserHost(p.from)) THEN 1 ELSE 0
    IN  IF R!containsJID(k)
        THEN /\ items' = [items EXCEPT ![k].rescnt = n]
             /\ rosterTold' = {[key |-> k, available |-> n = 1, prev |-> prevType(p)]}
             /\ heard' = heard \cup {k}
        ELSE /\ rosterTold' = {}
             /\ UNCHANGED <<items, heard>>

\* Mutant: the count follows p itself
countPacket(p) ==
    LET k == filterJID(p.from)
        n == IF p.type = "Available" THEN 1 ELSE 0
    IN  IF R!containsJID(k)
        THEN /\ items' = [items EXCEPT ![k].rescnt = n]
             /\ rosterTold' = {[key |-> k, available |-> n = 1, prev |-> prevType(p)]}
             /\ heard' = heard \cup {k}
        ELSE /\ rosterTold' = {}
             /\ UNCHANGED <<items, heard>>

\* Roster::Item::update(Presence): the count follows the database after p.
countPresence(p) ==
    LET k == filterJID(p.from)
        n == IF PDB!available(getUserHost(p.from))' THEN 1 ELSE 0
    IN  IF R!containsJID(k)
        THEN /\ items' = [items EXCEPT ![k].rescnt = n]
             /\ rosterTold' = {[key |-> k, available |-> n = 1, prev |-> prevType(p)]}
             /\ heard' = heard \cup {k}
        ELSE /\ rosterTold' = {}
             /\ UNCHANGED <<items, heard>>

handlePresence(p) ==
    /\ feed
    /\ PDB!insert(p)
    /\ countPresence(p)
    /\ told' = {[from |-> p.from, type |-> p.type, prev |-> prevType(p)]}
    /\ UNCHANGED <<groups, connected, feed>>

-----------------------------------------------------------------------------
\* The roster branch of Session::handleIQ
handleRosterIQ(q) ==
    /\ feed
    /\ R!update(q)
    /\ heard' = {k \in heard : k \in DOMAIN items' /\ \A i \in DOMAIN q :
                     q[i].remove => filterJID(q[i].jid) # k}
    /\ Quiet
    /\ UNCHANGED <<db, connected, feed>>

\* PresenceDB::send_unavailable, one signal for each contact it announces
farewells ==
    {[from |-> q.from, type |-> "Unavailable", prev |-> "Unavailable"] :
        q \in PDB!FarewellEntries}

\* Session::onDocumentEnd: the server has closed the stream
onDocumentEnd ==
    /\ feed
    /\ R!reset
    /\ told' = farewells
    /\ rosterTold' = {}
    /\ PDB!clear
    /\ connected' = FALSE
    /\ feed' = FALSE
    /\ heard' = {}

\* Session::connect, which starts a new stream
connect ==
    /\ ~connected
    /\ connected' = TRUE
    /\ feed' = TRUE
    /\ Quiet
    /\ UNCHANGED <<db, items, groups, heard>>

\* Session::disconnect; what the server has sent by then may still be parsed
disconnect ==
    /\ connected
    /\ connected' = FALSE
    /\ Quiet
    /\ UNCHANGED <<db, items, groups, feed, heard>>

Init ==
    /\ PDB!DBInit
    /\ R!Init
    /\ connected = FALSE
    /\ feed = FALSE
    /\ heard = {}
    /\ told = {}
    /\ rosterTold = {}

Next ==
    \/ \E p \in PDB!Presences : handlePresence(p)
    \/ \E q \in Pushes : handleRosterIQ(q)
    \/ onDocumentEnd
    \/ connect
    \/ disconnect

Spec == Init /\ [][Next]_vars

-----------------------------------------------------------------------------
UserItems == {k \in DOMAIN items : HasUser(k)}

Online(k) == items[k].rescnt > 0      \* Roster::Item::isAvailable

Available(k) == PDB!available(getUserHost(k))

(***************************************************************************)
(* The roster never shows a contact online whose default presence is not    *)
(* an available one, whatever resources came and went, whether the item     *)
(* was removed and added again, and over reconnects.                        *)
(***************************************************************************)
OnlineIsAvailable == \A k \in UserItems : Online(k) => Available(k)

(***************************************************************************)
(* From the first presence that comes for an item on, the item and the      *)
(* database agree, though the one counts and the other ranks resources.     *)
(***************************************************************************)
HeardItemsAgree == \A k \in UserItems \cap heard : Online(k) <=> Available(k)

(***************************************************************************)
(* A contact of the roster comes and goes with a signal of the roster that  *)
(* says so: `available` is the database after the packet, `prev` the        *)
(* database before it.  Clients log "x is now online" from the two.         *)
(***************************************************************************)
ChangesAreTold ==
    [][\A k \in UserItems :
          Available(k)' # Available(k) /\ ~onDocumentEnd =>
              \E s \in rosterTold' :
                  /\ s.key = k
                  /\ s.available = Available(k)'
                  /\ (s.prev = "Available") = Available(k)]_vars

=============================================================================
