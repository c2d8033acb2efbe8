SPECIFICATION Spec
CONSTANTS
    MaxMessages = 2
    MaxQueries = 1
    MaxToggles = 1
    Nonfatal = FALSE
    OmitSeqId = TRUE
INVARIANTS HeadUnderWay QueueHasToken Resumable
