\* How a session gets told of its end
CONSTANTS
    AuthTypes = {"Plaintext"}
    AuthFlags = {TRUE}
    Errors = {"error"}
    Patient = TRUE
    LateInput = FALSE
    MaxID = 6
SPECIFICATION Spec
PROPERTY EndIsTold
CHECK_DEADLOCK FALSE
