SPECIFICATION ChatSpec
CONSTANTS
    a = a
    b = b
    Peers = {a, b}
    NoKey = NoKey
    AckMaxRetries = 2
    MaxStarts = 2
    PromptEffects = FALSE
    FaultKinds = {"link", "remount", "disable", "delay", "loss", "callback"}
    MaxFaults = 1
SYMMETRY EitherSide
\* The windows come to rest when nobody acts.
CHECK_DEADLOCK FALSE
INVARIANTS
    ChatTypeOK
    KeyMatchesState
    TimersAreOwned
