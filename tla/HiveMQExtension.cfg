SPECIFICATION Spec
CONSTANTS
    c1 = c1
    c2 = c2
    r1 = r1
    r2 = r2
    good = good
    forged = forged
    x1 = x1
    x2 = x2
    Conns = {c1, c2}
    Requests = {r1, r2}
    Topics = {x1, x2}
    Tokens = {good, forged}
    Issued = {good}
    MqttScopes <- MCMqttScopes
    Workers = 1
    NoConn = NoConn
    NoToken = NoToken
    NoTopic = NoTopic
SYMMETRY Symmetry
INVARIANTS
    OneConnectPending
    PendingRequests
    AdmittedByToken
    ConfinedToScope
    DeadTokenRefused
PROPERTIES
    ImplementsPromise
