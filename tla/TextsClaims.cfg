\* Elements of up to 30 characters, and all queries with "//" of Queries
CONSTANTS
    MaxTokens = 12
    MaxLength = 30
    MaxChildren = 3
SPECIFICATION ClaimsSpec
INVARIANT LengthClaimOrDescentClaim
CHECK_DEADLOCK FALSE
