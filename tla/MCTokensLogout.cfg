SPECIFICATION Spec
CONSTANTS
    r1 = r1  r2 = r2  r3 = r3
    Requests = {r1, r2}
    MaxTokens = 1
    TokenLimit = 3
    Faulty = FALSE
SYMMETRY AnyRequest
INVARIANTS
    LogoutInvalidates
