SPECIFICATION FairSpec
CONSTANT MaxTimers = 2
INVARIANTS
    OneReconnectChain
    PublishesOverLiveClient
PROPERTIES
    ClientReplaced
    ExitCompletes
