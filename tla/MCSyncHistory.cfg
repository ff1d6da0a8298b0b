CONSTANTS
    Request    = {r1, r2, r3, r4}
    Session    = {s1}
    File       = {f1, f2}
    Null       = Null
    full       = full
    sparse     = sparse
    unparsed   = unparsed
    nul        = nul
    Answer     <- MCAnswer
    Full       <- MCFull
    Message    <- MCMessage
    Unstorable = {nul}
    MaxFaults  = 1
SPECIFICATION HSpec
SYMMETRY Symmetry
INVARIANTS TypeOK IInv StatusMatchesDocument ReloadFindsRow RepliesNameTheStoredRecord RepliesAreOneOutcome OnlyOverlapsTear SessionsHoldRecords
PROPERTIES RecordsPersist OnlyFirstRaceDowngrades SuccessIsStored
