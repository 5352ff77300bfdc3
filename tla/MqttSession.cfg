SPECIFICATION SessionSpec
CONSTANTS
    Messages = 2
    Faulty = 1
    Slots = {1, 2}
INVARIANTS
    SessionTypeOK
    ConnectedTracksLink
    RefusedTokenReplaced
    SessionAgrees
PROPERTIES
    GoodTokenServed
    SessionCompletes
    EveryRequestSettled
