\* One seller and two buyers of TL; from block 2 on an issued token is sold too.
CONSTANTS
    s1 = s1  b1 = b1  b2 = b2
    h1 = h1  h2 = h2  h3 = h3
    Addr = {s1, b1, b2}
    Prop = {1, 3}
    TallyType = {"BALANCE", "SELLOFFER_RESERVE", "ACCEPT_RESERVE"}
    MaxInt = 50
    Sellers = {s1}
    Buyers = {b1, b2}
    Freezable = {s1}
    Txid = {h1, h2, h3}
    Endowment <- OneSeller
    Amounts = {0, 1, 3}
    Desired = {0, 2}
    Fees = {0}
    Windows = {0, 1}
    Payments = {1, 2}
    FreeDExBlock = 2
    MaxBlock = 3
SYMMETRY Symmetry
SPECIFICATION Spec
INVARIANTS
    TypeOK
    AcceptReserveBacked
    NoStrandedReserve
    OfferNotOversold
    SupplyConserved
    WindowRespected
    
    NeverAsserts
PROPERTIES
    PaidOfferIsSoldOut
CHECK_DEADLOCK FALSE
