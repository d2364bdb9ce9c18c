------------------------------- MODULE JIDs -------------------------------
(***************************************************************************)
(* Jabber identifiers as src/jabberoo-JID.cc takes them apart.  A JID is    *)
(* user@host/resource; an agent (a gateway of the server) has no user and  *)
(* is host or host/resource.  The part before the slash is compared without *)
(* regard to case, so a JID is a record of the case-folded bare part, the  *)
(* resource and the spelling the bare part came in.                        *)
(***************************************************************************)
CONSTANTS
    Users,      \* bare JIDs that have a user: they contain '@'
    Agents,     \* bare JIDs without a user
    Resources,
    NoRes,      \* "no slash in the JID"
    Spellings,
    JIDs        \* the JIDs packets and the application name

ASSUME JIDsAssumption ==
    /\ JIDs \subseteq [bare : Users \cup Agents,
                       res  : Resources \cup {NoRes},
                       sp   : Spellings]
    /\ Users \cap Agents = {}
    /\ NoRes \notin Resources

BareJIDs == Users \cup Agents

getUserHost(j) == j.bare

getResource(j) == j.res

\* JID::compare(a, b) = 0: the bare parts up to case, the resources exactly.
SameJID(a, b) ==
    /\ getUserHost(a) = getUserHost(b)
    /\ getResource(a) = getResource(b)

HasUser(j) == j.bare \in Users

(***************************************************************************)
(* Roster::filterJID, the key of a roster item: the bare JID of a user, the *)
(* whole JID (escaped, which maps different JIDs to different keys) of an  *)
(* agent.  The item map ignores case, hence no spelling in the key.        *)
(***************************************************************************)
filterJID(j) ==
    IF HasUser(j) THEN [bare |-> j.bare, res |-> NoRes]
                  ELSE [bare |-> j.bare, res |-> j.res]

RosterKeys == {filterJID(j) : j \in JIDs}
=============================================================================
