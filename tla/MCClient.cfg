SPECIFICATION Spec
CONSTANTS
    MaxSequence = 5
    SequenceModulus = 2
    MaxBufferSize = 2
    MaxToKeep = 2
    KeepBehind = 1
    Writers = {wa, wb}
    Emojis = {e1, e2, e3}
    MaxMessages = 2
    MaxOps = 3
    Users = {ua, ub}
    NoUser = NoUser
    MaxIssued = 3
    MaxCalls = 2
    Accounts = {ca, cb}
    Nobody = Nobody
    MaxKeys = 4
    MaxRecorders = 3
    MaxModals = 2
    MaxRenders = 2
    Files = {f1, f2}
    Chunks = 2
    Burst = 1
    MaxSessions = 2
    MaxLost = 1
    MaxRequests = 2
    ChunksPerFile = 2
    MaxCrashes = 1
    MaxPrints = 3
    MaxLoads = 6
    MaxReconnectAttempts = 2
    MaxClients = 2
    MaxSockets = 3
    MaxDrafts = 3
    MaxNotices = 2
INVARIANTS
    ClientTypeOK
    BufferIsAhead
    DeliveryIsTruthful
    PreviewFollowsTarget
    ViewsAgree
    TokensAgree
    ProfileIsComing
    KeysAgree
    MicrophoneIsReleased
    SentAsRecorded
    FilesArriveWhole
    NoCallIsForgotten
    EnabledIsVerified
    DroppedIsSilent
    TypingIsTakenBack
PROPERTIES
    ImplementsOrderedChannel
    StatusNeverRegresses
CHECK_DEADLOCK FALSE
