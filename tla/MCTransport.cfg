SPECIFICATION Spec
CONSTANTS
    Payload <- MCPayload
    Header = 1
    Cache = 2
    TransmitSize = 5
    SendTmpSize = 12
    ReceiveSize = 16
    Frames <- MCFrames
    MaxFrames = 3
    Buses <- MCBuses
    MaxChunks = 3
    Room = 1
CHECK_DEADLOCK FALSE
INVARIANT
    BuffersHold
    WireCarriesPacket
    FrontIsOldest
    QuietCloseIsClean
    StreamUnbroken
    SessionsAreEmergency
