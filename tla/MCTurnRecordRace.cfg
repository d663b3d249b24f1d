SPECIFICATION Spec
CONSTANTS
    Requests = {r1, r2, r3, r4}
    Offered = {"WdCheck", "Put"}
    Inputs <- Bodies
    None = None
    Faults = FALSE
    MaxBet = 2
SYMMETRY Interchangeable
PROPERTY AnsweredMeansMet
