CONSTANTS
    r1 = r1  r2 = r2  ab = ab  cl = cl  sd = sd
    Runner = {r1}
    Aborter = {}
    Releaser = {cl}
    Sender = {}
    DrainBudget = 1
    DevCap = 1
    DevOffers = {TRUE}
    CloseStops = {"read", "write"}
    InboxCap = 1
    MaxRuns = 1
    MaxPackets = 1
    MaxDevice = 0
SPECIFICATION Spec
CHECK_DEADLOCK FALSE
INVARIANTS CloseBarrier
