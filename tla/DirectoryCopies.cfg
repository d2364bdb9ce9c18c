\* As Directory, for what is said of copies in the cache
CONSTANTS
    JIDs = {1, 2}
    Nodes = {1}
    MaxListed = 1
    MaxItems = 4
    MaxCalls = 3
    MaxErased = 1
    Agent = {a, c}
    Garbled = {c}
    MaxFetches = 2
    MaxBeside = 1
SPECIFICATION DirSpec
INVARIANT OneItemPerJID
CHECK_DEADLOCK FALSE
