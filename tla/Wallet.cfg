SPECIFICATION SpecAfterFirst
CONSTANTS
    u1 = u1  u2 = u2
    i1 = i1  i2 = i2
    p1 = p1
    n1 = n1  n2 = n2
    h1 = h1  h2 = h2
    Keep = Keep
    Users <- MCUsers
    Insts <- MCInsts
    Persons = {p1}
    Numbers <- MCNumbers
    Handlers <- MCHandlers
    Limit = 1
    MaxRequests = 4
SYMMETRY Symmetry
INVARIANTS
    WalletCorrect
    AccountsWithinLimit
    SelfRecipientIsHolder
    DestinationKept
CHECK_DEADLOCK FALSE
