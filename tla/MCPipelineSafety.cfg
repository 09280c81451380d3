SPECIFICATION FairSpec
CONSTANTS
    a1 = a1  a2 = a2  b1 = b1  alice = alice  bob = bob
    w1 = w1  w2 = w2
    msg = msg  ack = ack  chunk = chunk  complete = complete
    None = None
    Conns = {a1, b1}
    Users = {alice, bob}
    Owner <- MCOwner
    MaxConnections = 2
    Workers = {w1, w2}
    QueueSize = 1
    Ops = {msg, ack}
    Kind <- MCKind
    From <- MCFrom
    To <- MCTo
    MaxCopies <- MCRetried
    MayClose = TRUE
INVARIANTS
    TypeOK
    EveryTaskIsAccountedFor
    DuplicatesNeedExpiry
PROPERTIES
    AcceptedTasksFinish
