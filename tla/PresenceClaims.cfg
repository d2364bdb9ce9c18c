\* Two resources of a user, and two priorities
CONSTANTS
    u = u
    r1 = r1
    r2 = r2
    low = low
    NoRes = NoRes
    Users = {u}
    Agents = {}
    Resources = {r1, r2}
    Spellings = {low}
    JIDs <- Named
    Types = {"Available", "Unavailable"}
    Priorities = {0, 1}
SPECIFICATION CSpec
INVARIANT LoginClaimOrRemoveClaim
