\* Two transactions, both ecosystems, at most one update of an older property per block.
SPECIFICATION Spec
CONSTANTS
    TestEcoProperty1 = 11
    Info = {a}
    TxId = {t1, t2}
    MaxHeight = 3
    Hash = {h1, h2, h3}
    TwicePerBlock = FALSE
SYMMETRY Symmetry
INVARIANTS
    IdentifiersFresh
    IndexExact
    RollbackPossible
    RollbackExact
