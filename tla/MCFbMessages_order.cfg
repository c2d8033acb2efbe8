SPECIFICATION FairSpec
CONSTANTS
    u1 = u1
    u2 = u2
    User = {u1}
    MaxMessages = 2
    MaxBatch = 2
    MaxIcons = 1
    MaxActive = 2
    ImagesFail = FALSE
    Nonfatal = FALSE
INVARIANTS InOrder Busy
PROPERTIES Delivered
