SPECIFICATION FairSpec
CONSTANTS
    Requests = {r1, r2}
    Offered = {"Withdraw", "CutCreditV2", "WithdrawAff"}
    Amounts = {0, 2}
    Spellings = {"typed"}
    Balances = {3}
    Limits = {0, 1}
    Satang = 1
    LeastWd = 1
    DayCredit = 3
    DayTimes = 2
    TimesOn = TRUE
    Counted = {"Withdraw"}
    Faults = FALSE
    MaxDay = 0
INVARIANT TakenIsListed
PROPERTY EveryRequestEnds
