SPECIFICATION Spec
CONSTANTS
    alice = alice
    bob = bob
    Addr = {alice, bob}
    Traders = {alice, bob}
    Prop = {1, 3}
    TallyType = {"BALANCE", "METADEX_RESERVE"}
    MaxInt = 100
    Each = 1
    Endowment <- Everyone
    Pairs <- TwoWay
    Amounts = {1}
    Desired = {1}
    TestEcoProperty1 = 10
    Live = {"METADEX", "TRADEALLPAIRS"}
    Switchable = {"TRADEALLPAIRS"}
    Freezable = {}
    MaxOrders = 2
SYMMETRY Symmetry
INVARIANTS
    ShutdownEnds
