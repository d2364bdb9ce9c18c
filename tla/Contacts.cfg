\* Presences and roster queries in any order, over reconnects
CONSTANTS
    u = u
    g = g
    r1 = r1
    r2 = r2
    reg = reg
    low = low
    A = A
    P = P
    U = U
    NoRes = NoRes
    Users = {u}
    Agents = {g}
    Resources = {r1, r2, reg}
    Spellings = {low}
    JIDs <- MCJIDs
    Types = {"Available", "Unavailable", "Subscribed"}
    Priorities = {0, 1}
    Groups = {A, P, U}
    NameOrder <- MCNameOrder
    RealGroups = {}
    Pending = P
    AgentsGroup = A
    Unfiled = U
    Pushes <- MCPushes
SPECIFICATION Spec
INVARIANT OnlineIsAvailable
INVARIANT HeardItemsAgree
PROPERTY ChangesAreTold
