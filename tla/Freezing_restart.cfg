\* A waiting period from block 2 on; issuers hand over before they freeze in a block.
SPECIFICATION Spec
CONSTANTS
    Addr = {1, 2}
    Prop = {3, 4}
    TallyType = {"BALANCE"}
    MaxInt = 1
    Managed = {3, 4}
    FirstIssuer = 1
    FREEZENOTICE_FEATURE_BLOCK = 2
    TL_FREEZE_WAIT_PERIOD = 1
    ChangesAfterFreezes = FALSE
    MaxBlock = 3
    MaxTxs = 4
    MaxIssuers = 2
INVARIANTS
    FrozenOnlyWhileEnabled
PROPERTIES
    RestartRestores
CHECK_DEADLOCK FALSE
