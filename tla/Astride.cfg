CONSTANTS
    r1 = r1  r2 = r2  ab = ab  cl = cl  sd = sd
    Runner = {r1}
    Aborter = {}
    Releaser = {}
    Sender = {sd}
    DrainBudget = 1
    DevCap = 1
    DevOffers = {TRUE}
    CloseStops = {"read", "write"}
    InboxCap = 1
    MaxRuns = 2
    MaxPackets = 2
    MaxDevice = 1
SPECIFICATION Spec
CHECK_DEADLOCK FALSE
INVARIANTS VerdictCurrent
