SPECIFICATION Spec
INVARIANTS TypeOK OpsFitStream Watched ReaderAlive NoOrphanTimer
