\* Documents that end, or break off between two children of their root, for
\* each of the listeners
CONSTANTS
    Names = {"a", "b"}
    Handshake = "b"
    ResetAnywhere = FALSE
    ResetAtEnd = TRUE
    MaxTokens = 7
    MaxDocuments = 2
SPECIFICATION ListenersSpec
INVARIANT ToldOfDocument
INVARIANT RootIsDocument
INVARIANT ConnectedByHandshake
CHECK_DEADLOCK FALSE
