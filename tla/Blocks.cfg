\* Five transactions, of which any two are mined; four blocks, one of them
\* disconnected; one crash.  The chain may come to its end.
SPECIFICATION Spec
CONSTANTS
    Defaults <- OffAndOn
    MIN_ACTIVATION_BLOCKS = 1
    MAX_ACTIVATION_BLOCKS = 2
    TRADELAYER_VERSION = 1
    Disabled = 99
    Tx <- Some
    MaxTxs = 2
    MaxBlocks = 4
    MaxDisconnects = 1
    MaxCrashes = 1
    MAX_STATE_HISTORY = 1
    STORE_EVERY_N_BLOCK = 3
INVARIANTS
    MemoryIsChain
    ListIsChain
    FeaturesFromChain
    NoticeGiven

    
CHECK_DEADLOCK FALSE
