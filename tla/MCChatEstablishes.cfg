SPECIFICATION ChatSpec
CONSTANTS
    a = a
    b = b
    Peers = {a, b}
    NoKey = NoKey
    AckMaxRetries = 3
    MaxStarts = 2
    PromptEffects = TRUE
    FaultKinds = {}
    MaxFaults = 0
SYMMETRY EitherSide
CHECK_DEADLOCK FALSE
INVARIANTS
    ExchangeEstablishes
