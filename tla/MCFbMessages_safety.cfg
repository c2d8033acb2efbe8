SPECIFICATION Spec
CONSTANTS
    u1 = u1
    u2 = u2
    User = {u1, u2}
    MaxMessages = 2
    MaxBatch = 2
    MaxIcons = 1
    MaxActive = 2
    ImagesFail = TRUE
    Nonfatal = FALSE
SYMMETRY Symmetry
VIEW Present
INVARIANTS TypeOK Accounted ParkedAsked ActiveBounded
