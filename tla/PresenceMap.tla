---------------------------- MODULE PresenceMap ----------------------------
(***************************************************************************)
(* What the presence database does, seen without lists or priorities: it    *)
(* knows the latest presence of every JID that has not left or been removed *)
(* since.  The header promises more of remove(): see PresenceClaims.        *)
(***************************************************************************)
EXTENDS JIDs

CONSTANTS
    Presences,      \* records with a field from
    Leaves(_)       \* the presences that say a JID has left

VARIABLE known      \* the presences of the JIDs that are there

Others(j) == {q \in known : ~SameJID(q.from, j)}

Init == known = {}

Receive(p) == known' = Others(p.from) \cup (IF Leaves(p) THEN {} ELSE {p})

Forget(j) == known' = Others(j)

ForgetAll == known' = {}

Next ==
    \/ \E p \in Presences : Receive(p)
    \/ \E j \in JIDs : Forget(j)
    \/ ForgetAll

Spec == Init /\ [][Next]_known
=============================================================================
