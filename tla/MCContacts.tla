----------------------------- MODULE MCContacts -----------------------------
(* A user with two resources and an agent registration.                     *)
EXTENDS Contacts

CONSTANTS u, g, r1, r2, reg, low, A, P, U

InOrder == <<A, P, U>>

MCNameOrder ==
    {<<InOrder[p[1]], InOrder[p[2]]>> : p \in {q \in (1 .. 3) \X (1 .. 3) : q[1] < q[2]}}

JID(b, r) == [bare |-> b, res |-> r, sp |-> low]

MCJIDs == {JID(u, r1), JID(u, r2), JID(g, reg)}

Item(j, remove) == [jid |-> j, remove |-> remove, ask |-> FALSE, in |-> {}]

\* The roster query names the user by any of its JIDs: the key is the same.
MCPushes ==
    {<<Item(j, remove)>> : j \in {JID(u, r1), JID(g, reg)}, remove \in BOOLEAN}
    \cup {<<Item(JID(u, r1), TRUE), Item(JID(u, r1), FALSE)>>}
=============================================================================
