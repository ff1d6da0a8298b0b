CONSTANTS
    Request    = {r1, r2, r3}
    Session    = {s1}
    File       = {f1, f2}
    Null       = Null
    full       = full
    sparse     = sparse
    unparsed   = unparsed
    nul        = nul
    Answer     = {full, sparse}
    Full       = {full}
    Message    = {unparsed}
    Unstorable = {sparse}
    MaxFaults  = 1
SPECIFICATION FairSpec
PROPERTY EveryUploadAnswered
