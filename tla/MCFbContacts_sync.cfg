SPECIFICATION FairSpec
CONSTANTS
    NUsers = 3
    PageSize = 2
    Self = 1
    MaxOrphans = 0
INVARIANTS TypeOK SyncAlive SignOnUnderWay ListHoldsBase
PROPERTIES FriendsListed
