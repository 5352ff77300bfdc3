SPECIFICATION FairSpec
CONSTANT MaxTimers = 2
INVARIANTS
    NoSubscriptionLeak
