SPECIFICATION Spec
CONSTANTS
    MaxMessages = 2
    MaxQueries = 2
    MaxToggles = 0
    Nonfatal = FALSE
    OmitSeqId = FALSE
PROPERTIES PopsOnlyTaken
