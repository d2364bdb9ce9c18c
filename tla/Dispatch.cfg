\* Callbacks that query again, ids that repeat, IQs of other entities, and
\* queries that come and go while packets are handed to them
CONSTANTS
    Base = 2
    Width = 2
    MaxID = 6
    MaxQueries = 3
    MaxSends = 2
    MaxCalls = 6
SPECIFICATION DispatchSpec
INVARIANT DispatchInv
INVARIANT CalledForOwnID
INVARIANT CalledWhenAnswered
INVARIANT EachQueryOnce
INVARIANT FaultsAreMisuse
PROPERTY DispatchReturns
CHECK_DEADLOCK FALSE
