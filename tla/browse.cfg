SPECIFICATION Spec
CONSTANTS
    Imps <- AllImps
    Content <- Accounts
    NewNames = {"n"}
    MaxChanges = 1
INVARIANTS
    TypeOK
    ListedItemsOpen
    ListingsAreComplete
    RootReachesWaterButler
    RequestsAreUnderstood
CHECK_DEADLOCK FALSE
