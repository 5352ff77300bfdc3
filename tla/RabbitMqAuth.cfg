SPECIFICATION FairSpec
CONSTANT Devices = {d1, d2}
INVARIANTS AdmittedByUserinfo
PROPERTIES RefusedEnds SubscribedAgain
