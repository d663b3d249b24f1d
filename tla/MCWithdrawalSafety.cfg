SPECIFICATION Spec
CONSTANTS
    Requests = {r1, r2}
    Offered = {"Withdraw", "CutCreditV2", "WheelBuy", "WithdrawAff"}
    Amounts = {2}
    Spellings = {"typed"}
    Balances = {0, 3}
    Limits = {1, 3}
    Satang = 1
    LeastWd = 1
    DayCredit = 3
    DayTimes = 2
    TimesOn = TRUE
    Counted = {"Withdraw"}
    Faults = TRUE
    MaxDay = 0
SYMMETRY Interchangeable
INVARIANTS
    TypeOK
    PayoutCovered
    RetryTakesNothing
    OkMeansPaid
PROPERTIES
    SyncGivesTurn
    ImplementsPromise
