\* Property 1 is TL, 2 TTL, 3 a managed property.
SPECIFICATION TSpec
CONSTANTS
    Addr = {1, 2, 3}
    Prop = {1, 2, 3}
    TallyType = {"BALANCE", "UNVESTED"}
    MaxInt = 2
    TestEcoProperty1 = 4
    Managed = {3}
    FirstIssuer = 1
    FREEZENOTICE_FEATURE_BLOCK = 100
    TL_FREEZE_WAIT_PERIOD = 1
    ChangesAfterFreezes = TRUE
    MaxBlock = 1
    MaxTxs = 2
    MaxIssuers = 2
    Endowment <- SmallEndowment
    TRANSFER_FEE_PER_OWNER = 1
    TRANSFER_FEE_PER_OWNER_V1 = 1
    MaxGranted = 3
    MaxUnvested = 1
INVARIANTS
    SupplyIsHistory
    SupplyLimit
    NeverAsserts
PROPERTIES
    FixedSupply
    FrozenStays
CHECK_DEADLOCK FALSE
