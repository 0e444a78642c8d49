CONSTANTS
    Word = 8
    SafeMaxOffset = 2
    Configs <- Ends
    Messages <- FirstMessages
    Probes <- Afterwards
    Foreign <- Decoded
    PeerPrefixes <- Asked
    DamageTo <- Hits
    Lost = 256
    DataBufMax = 4
    maxEncodedLen = 51
    MaxSent = 2
SPECIFICATION Spec
CHECK_DEADLOCK FALSE
INVARIANTS Delivered CancelExact OptionsAgree WindowsServed
