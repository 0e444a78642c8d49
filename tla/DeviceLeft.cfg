CONSTANTS
    ORG = ORG  ANS = ANS
    a1 = a1  a2 = a2  a3 = a3  b1 = b1
    NoFile = NoFile  EOB = EOB
    File = {}
    Offers <- NoOffers
    Size <- Twos
    Actual <- Twos
    SafeMax = 4
    BadOffer = {}
    ReadFails = {}
    WriteFails = {}
    NoSeek = {}
    ResumeAt = {0}
    RefuseWith = {"Skip"}
    Window <- NoWindow
    DevOn = TRUE
    MaxDev <- DevOne
    DevQCap = 1
    MaxRetries = 2
    HdxBurst = 1
    MaxBlock = 1
    MaxInFlight = 3
    MaxLoss = 0
    MayFail = {}
    Hasty = {}
SPECIFICATION Spec
PROPERTIES DeviceGate
