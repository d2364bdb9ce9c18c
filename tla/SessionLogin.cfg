\* An application that calls connect() again only after it was told of a failure,
\* with or without a login, and refusals with and without an <error/>; the last
\* stream may end, and no more ids than MaxID are used
CONSTANTS
    AuthTypes = {"Plaintext", "Auto"}
    AuthFlags = {TRUE, FALSE}
    Errors = {"error", "bare"}
    Patient = TRUE
    LateInput = FALSE
    MaxID = 7
SPECIFICATION FairSpec
INVARIANT AwaitsAnAnswer
INVARIANT OneLoginAtATime
INVARIANT NoFault
INVARIANT ConnectedMeansAccepted
PROPERTY StaysConnected
PROPERTY LoginSettles
CHECK_DEADLOCK FALSE
