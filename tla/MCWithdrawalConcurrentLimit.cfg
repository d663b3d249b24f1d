SPECIFICATION Spec
CONSTANTS
    Requests = {r1, r2}
    Offered = {"Withdraw"}
    Amounts = {2, 4}
    Spellings = {"typed"}
    Balances = {6}
    Limits = {0}
    Satang = 1
    LeastWd = 1
    DayCredit = 5
    DayTimes = 2
    TimesOn = FALSE
    Counted = {"Withdraw"}
    Faults = FALSE
    MaxDay = 0
CHECK_DEADLOCK FALSE
INVARIANT DailyLimit
