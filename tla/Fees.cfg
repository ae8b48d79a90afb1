\* Fees in an issued property, shared between two uneven owners of TL.
SPECIFICATION Spec
CONSTANTS
    Addr = {1, 2}
    Prop = {1, 3}
    TallyType = {"BALANCE"}
    MaxInt = 5
    TestEcoProperty1 = 11
    Endowment <- Uneven
    FeeProps = {3}
    FeeAmounts = {1, 2}
    TL_FEE_THRESHOLD = 2
    MAX_STATE_HISTORY = 1
    MaxBlock = 3

    
PROPERTIES
    FeesConserved
    RollbackExact
    HistoryBounded
