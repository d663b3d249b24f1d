SPECIFICATION Spec
CONSTANTS
    Requests = {r1, r2, r3}
    Offered = {"WdCheck", "Sync", "GetTurn", "WithTurn", "Auto", "SetMin", "Put"}
    Inputs <- Bodies
    None = None
    Faults = TRUE
    MaxBet = 1
SYMMETRY Interchangeable
INVARIANTS
    TypeOK
    ConfirmedTurnKept
PROPERTIES
    PassMeansMet
    AnswersAreConfirmed
