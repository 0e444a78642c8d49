CONSTANTS
    Baud <- Bauds
    MaxCap <- Caps
    Rest <- Rests
    MaxFlight = 1
    MaxRpos = 2
SPECIFICATION FairSpec
CHECK_DEADLOCK FALSE
INVARIANTS CapHeld
PROPERTIES Earned Regrows
