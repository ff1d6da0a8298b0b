CONSTANTS
    Request    = {r1, r2, r3, r4}
    Session    = {s1}
    File       = {f1, f2}
    Null       = Null
    full       = full
    sparse     = sparse
    unparsed   = unparsed
    nul        = nul
    Answer     <- MCAnswer
    Full       <- MCFull
    Message    <- MCMessage
    Unstorable = {}
    MaxFaults  = 0
SPECIFICATION Spec
SYMMETRY Symmetry
INVARIANT CachedResultIsOneAnswer
