SPECIFICATION BaFairSpec
CONSTANTS
    Digest = {d1}
    MaxCounter = 2
    MaxEpoch = 2
    Conn = {1, 2}
    Setting <- MCSetting
    Broadcast = {b1, b2}
    ResendMax = 1
    MaxInbox = 2
    Gone = Gone
    NoChange = NoChange
INVARIANTS BaTypeOK LiveConnectionOwns
PROPERTIES HeldBlobHeals
