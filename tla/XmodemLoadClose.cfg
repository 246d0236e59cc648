CONSTANTS
    ByteMod = 8
    BlkLen = 2
    SOH = 1
    EOT = 2
    ACK = 3
    NAK = 4
    CAN = 5
    Files <- MCShortFiles
    Keys <- MCKeys
    MaxLoads = 2
    MaxUploads = 2
    MaxCancels = 1
    MaxKeys = 1
    UsesClose = TRUE
SPECIFICATION FairSpec

PROPERTY CloseInEnds
CHECK_DEADLOCK FALSE
