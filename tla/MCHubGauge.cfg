SPECIFICATION Spec
CONSTANTS
    c1 = c1  c2 = c2  c3 = c3  u1 = u1  u2 = u2
    None = None
    Conns = {c1, c2}
    Users = {u1, u2}
    Workers = {}
    Owner <- MCOneUser
    MaxConnections = 2
    SendBufSize = 1
    AuthWays = {"header", "message"}
    MayShutdown = FALSE
INVARIANTS
    ActiveGaugeIsAccurate
