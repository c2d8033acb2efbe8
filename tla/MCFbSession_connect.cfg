SPECIFICATION Spec
CONSTANTS
    MaxMessages = 1
    MaxQueries = 1
    MaxToggles = 0
    Nonfatal = FALSE
    OmitSeqId = FALSE
PROPERTIES ConnectMeansEstablished
