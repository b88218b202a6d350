SPECIFICATION Spec
CONSTANTS
    e1 = e1
    h1 = h1
    h2 = h2
    Emails = {e1}
    Handlers <- MCHandlers
    MaxUsers = 2
    MaxCodes = 2
    MaxRequests = 6
SYMMETRY Symmetry
INVARIANTS
    TablesCorrect
    EnteredCanRegister
    GoogleStaysApart
    CodeUsedOnce
    DeletedLockedOut
    ApprovedIdentity
CHECK_DEADLOCK FALSE
