SPECIFICATION Spec
CONSTANTS
    alice = alice
    bob = bob
    Addr = {alice, bob}
    Traders = {alice, bob}
    Prop = {1, 3}
    TallyType = {"BALANCE", "METADEX_RESERVE"}
    MaxInt = 100
    Each = 3
    Endowment <- Everyone
    Pairs <- TwoWay
    Amounts = {1, 2, 3}
    Desired = {1, 2, 6}
    TestEcoProperty1 = 10
    Live = {"METADEX"}
    Switchable = {}
    Freezable = {}
    MaxOrders = 2
SYMMETRY Symmetry
INVARIANTS
    ReserveIsBook
    LimitRespected
    NeverAsserts
PROPERTIES
    ImplementsExchange
