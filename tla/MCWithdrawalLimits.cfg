SPECIFICATION Spec
CONSTANTS
    Requests = {r1, r2, r3}
    Offered = {"Withdraw"}
    Amounts = {2}
    Spellings = {"typed"}
    Balances = {6}
    Limits = {0}
    Satang = 1
    LeastWd = 1
    DayCredit = 5
    DayTimes = 1
    TimesOn = FALSE
    Counted = {"Withdraw"}
    Faults = FALSE
    MaxDay = 1
SYMMETRY Interchangeable
PROPERTY AloneKeepsLimits
