SPECIFICATION Spec
CONSTANTS
    Demands <- SomeDemands
    Orders <- SomeOrders
    Played <- Bets
    None = None
    MaxBet = 2
INVARIANTS
    TypeOK
    PassIsEarned
    RefusalIsJust
PROPERTIES
    PaidUpPasses
    ImplementsVerdict
