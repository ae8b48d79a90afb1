\* Pairs without TL in both ecosystems; features are switched, addresses frozen.
SPECIFICATION Spec
CONSTANTS
    alice = alice
    bob = bob
    Addr = {alice, bob}
    Traders = {alice, bob}
    Prop = {3, 4, 12, 13}
    TallyType = {"BALANCE", "METADEX_RESERVE"}
    MaxInt = 100
    Each = 3
    Endowment <- Everyone
    Pairs <- AllPairs
    Amounts = {3}
    Desired = {2, 4}
    TestEcoProperty1 = 10
    Live = {"METADEX"}
    Switchable = {"METADEX", "TRADEALLPAIRS"}
    Freezable = {3}
    MaxOrders = 2
INVARIANTS
    NoOrderLockedIn
PROPERTIES
    MatchingEnds
