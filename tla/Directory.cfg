\* Two JIDs, one with a node or both; an agent and a copy of one
CONSTANTS
    JIDs = {1, 2}
    Nodes = {1}
    MaxListed = 1
    MaxItems = 4
    MaxCalls = 3
    MaxErased = 1
    Agent = {a, c}
    Garbled = {c}
    MaxFetches = 2
    MaxBeside = 1
SPECIFICATION DirSpec
INVARIANT CacheInv
INVARIANT CalledForOwnAnswer
INVARIANT NoneForgotten
INVARIANT LoadedOnce
INVARIANT StuckByLossOnly
CHECK_DEADLOCK FALSE
