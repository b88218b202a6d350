SPECIFICATION Spec
CONSTANTS
    a1 = a1  a2 = a2  c1 = c1  m1 = m1
    x1 = x1  x2 = x2  h1 = h1  h2 = h2
    Nobody = Nobody
    Assessors <- MCAssessors
    Clients = {c1}
    Staff = {m1}
    Sockets <- MCSockets
    Handlers <- MCHandlers
    MaxRestarts = 1
    MaxTicks = 1
    MaxMessages = 2
    MaxRequests = 3
SYMMETRY Symmetry
INVARIANTS
    SupportCorrect
    WelcomeOnce
    PresenceFollowsSockets
CHECK_DEADLOCK FALSE
