SPECIFICATION FairSpec
CONSTANTS
    MaxReads = 2
INVARIANTS TypeOK ClosesItsOwn NeverStranded WantedOnly
PROPERTIES Reconnects
