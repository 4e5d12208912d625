\* Two instances, two sessions, two requests at a time, one Redis fault, one
\* restart that may change the token.
SPECIFICATION Spec
CONSTANTS
    i1 = i1
    i2 = i2
    r1 = r1
    r2 = r2
    s1 = s1
    s2 = s2
    old = old
    new = new
    None = None
    Instances <- TwoInstances
    Requests <- TwoRequests
    Sids <- TwoSids
    Tokens <- TwoTokens
    TTL = 1
    MaxWait = 1
    MaxFaults = 1
    MaxBoots = 1
SYMMETRY Alike
INVARIANTS
    LoggedOutStaysOut
    TokenBinds
    TTLBounds
    LoginIsHonoured
CHECK_DEADLOCK FALSE
