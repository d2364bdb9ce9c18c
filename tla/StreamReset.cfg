\* A document that breaks off within a child of its root
CONSTANTS
    Names = {"a", "b"}
    ResetAnywhere = TRUE
    ResetAtEnd = FALSE
    MaxTokens = 7
    MaxDocuments = 2
SPECIFICATION Spec
INVARIANT ResetForgets
CHECK_DEADLOCK FALSE
