SPECIFICATION Spec
CONSTANTS
    n1 = n1  n2 = n2  k1 = k1  a1 = a1
    r1 = r1  r2 = r2
    h1 = h1  h2 = h2
    None = None
    Insts <- MCInsts
    Kinds = {k1}
    Numbers = {a1}
    Rates <- MCRates
    Fees = {1, 2}
    Handlers <- MCHandlers
    MaxRows = 2
    MaxRequests = 5
SYMMETRY Symmetry
INVARIANTS
    CatalogueCorrect
    OneLinkPerPair
    DeletedLinksGone
    FeeOfAccount
CHECK_DEADLOCK FALSE
