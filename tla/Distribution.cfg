\* Four addresses, the sender among them, with up to 5 tokens each.
SPECIFICATION DSpec
CONSTANTS
    Addr = {1, 2, 3, 4}
    Prop = {3}
    TallyType = {"BALANCE"}
    MaxInt = 100
    Property = 3
    Holdings = {0, 1, 2, 3, 5}
    MaxAmount = 8
INVARIANTS
    WholeAmountSent
    SharesInOrder
CHECK_DEADLOCK FALSE
