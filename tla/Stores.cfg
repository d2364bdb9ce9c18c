\* The presence database: logins, logouts, priority changes and removals in any
\* order.  The roster: pushes, edits and resets, with a JID that is spelled in
\* two ways.  The merge: every index, item and pair of old and new groups over
\* three groups; it stops when the loop is done.
CONSTANTS
    u = u
    g = g
    r1 = r1
    r2 = r2
    r3 = r3
    reg = reg
    low = low
    up = up
    A = A
    B = B
    P = P
    U = U
    W = W
    NoRes = NoRes
    Users = {u}
    Agents = {g}
    Resources = {r1, r2, r3, reg}
    Spellings = {low, up}
    JIDs <- MCJIDs
    Types = {"Available", "Unavailable", "Error"}
    Priorities = {0, 1, 2}
    Groups = {A, B, P, U, W}
    NameOrder <- MCNameOrder
    RealGroups = {B, W}
    Pending = P
    AgentsGroup = A
    Unfiled = U
    Pushes <- MCPushes
    MaxEdits = 2
    GroupLists <- MCGroupLists
    Jids <- MergedJIDs
    itemjid <- UserJID
SPECIFICATION StoresSpec
INVARIANT DBInv
INVARIANT TiesByPlacing
INVARIANT RosterInv
INVARIANT EveryItemListed
INVARIANT MergesGroups
INVARIANT ListedAsTold
PROPERTY ImplementsMap
PROPERTY OnlyResetLeavesGhosts
PROPERTY Terminates
CHECK_DEADLOCK FALSE
