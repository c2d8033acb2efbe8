SPECIFICATION FairSpec
CONSTANTS
    Base = 2
    MaxDigits = 2
    MaxPushes = 3
    Packets <- MCPackets
    Data <- MCData
INVARIANTS TypeOK NoneForgotten CloseWaits AnswersTrue ReceivedSent
PROPERTIES Arrives
CHECK_DEADLOCK FALSE
