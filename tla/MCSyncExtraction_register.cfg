CONSTANTS
    Request    = {r1, r2, r3}
    Session    = {s1, s2}
    File       = {f1, f2}
    Null       = Null
    full       = full
    sparse     = sparse
    unparsed   = unparsed
    nul        = nul
    Answer     <- MCAnswer
    Full       <- MCFull
    Message    <- MCMessage
    Unstorable = {nul}
    MaxFaults  = 2
SPECIFICATION Spec
SYMMETRY Symmetry
PROPERTY ImplementsRegister
