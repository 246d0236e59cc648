CONSTANTS
    ByteMod = 8
    BlkLen = 2
    SOH = 1
    EOT = 2
    ACK = 3
    NAK = 4
    CAN = 5
    Memories <- MCMemories
    Filler = 6
    Keys <- MCKeys
    MaxSaves = 2
    MaxDownloads = 2
    MaxCancels = 1
    MaxKeys = 1
SPECIFICATION FairSpec
INVARIANTS TypeOK SavePrefix AckedWritten NotBothWaiting SaveInv
PROPERTIES EndComplete SaveEnds SaveTransfers
CHECK_DEADLOCK FALSE
