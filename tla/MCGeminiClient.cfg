CONSTANTS
    Worker = {w1, w2, w3}
    Null = Null
SPECIFICATION Spec
SYMMETRY Symmetry
INVARIANTS TypeOK PairIsComplete IInv OneClientPerWorker
