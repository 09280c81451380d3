SPECIFICATION Spec
CONSTANTS
    a1 = a1  a2 = a2  b1 = b1  alice = alice  bob = bob
    w1 = w1  w2 = w2
    msg = msg  ack = ack  chunk = chunk  complete = complete
    None = None
    Conns = {a1, b1}
    Users = {alice, bob}
    Owner <- MCOwner
    MaxConnections = 2
    Workers = {w1, w2}
    QueueSize = 2
    Ops = {chunk, complete}
    Kind <- MCKind
    From <- MCFrom
    To <- MCTo
    MaxCopies <- MCOnce
    MayClose = FALSE
INVARIANTS
    FileFramesStayInOrder
