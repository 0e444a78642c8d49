CONSTANTS
    ORG = ORG  ANS = ANS
    a1 = a1  a2 = a2  a3 = a3  b1 = b1
    NoFile = NoFile  EOB = EOB
    File = {a1, b1}
    Offers <- BothWays
    Size <- ThreeTwo
    Actual <- ThreeTwo
    SafeMax = 4
    BadOffer = {}
    ReadFails = {}
    WriteFails = {}
    NoSeek = {}
    ResumeAt = {0}
    RefuseWith = {}
    Window <- WindowAns
    DevOn = TRUE
    MaxDev <- DevAns
    DevQCap = 1
    MaxRetries = 1
    HdxBurst = 0
    MaxBlock = 1
    MaxInFlight = 2
    MaxLoss = 1
    MayFail = {}
    Hasty = {"DataAck"}
SPECIFICATION FairSpec
INVARIANTS CleanEnd WindowHeld DeviceOnce
PROPERTIES Success Termination
