SPECIFICATION Spec
CONSTANTS
    MaxMessages = 2
    MaxQueries = 2
    MaxToggles = 0
    Nonfatal = TRUE
    OmitSeqId = FALSE
INVARIANTS TypeOK
PROPERTIES PopsTakenAlone StreamImplemented SendQueueImplemented
