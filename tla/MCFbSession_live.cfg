SPECIFICATION FairSpec
CONSTANTS
    MaxMessages = 2
    MaxQueries = 1
    MaxToggles = 0
    Nonfatal = FALSE
    OmitSeqId = FALSE
PROPERTIES LoginEnds Drains  DeadPeerNoticed
