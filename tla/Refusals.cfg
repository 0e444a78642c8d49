CONSTANTS
    ORG = ORG  ANS = ANS
    a1 = a1  a2 = a2  a3 = a3  b1 = b1
    NoFile = NoFile  EOB = EOB
    File = {a1, a2, a3}
    Offers <- TwoAndBad
    Size <- Twos
    Actual <- Held
    SafeMax = 2
    BadOffer = {a3}
    ReadFails = {a1}
    WriteFails = {a1, a2}
    NoSeek = {a2}
    ResumeAt = {0, 1, 2, 3}
    RefuseWith = {"Skip", "Defer"}
    Window <- NoWindow
    DevOn = FALSE
    MaxDev <- DevNone
    DevQCap = 1
    MaxRetries = 1
    HdxBurst = 1
    MaxBlock = 1
    MaxInFlight = 3
    MaxLoss = 2
    MayFail = {ORG, ANS}
    Hasty = {"EOFAck", "Swait", "InitAck"}
SPECIFICATION Spec
INVARIANTS
    TypeOK Integrity EndAgreement ModesFlipped Agreement SentOnce ReceivedOnce
PROPERTIES HandlerContract
