SPECIFICATION Spec
CONSTANTS
    Requests = {r1, r2, r3}
    Offered = {"Withdraw", "WithdrawAff", "CutCredit", "WheelBuy", "GetTurn", "PutPassword", "PatchPassword", "PatchStatus", "PutMember", "GetInfo", "GetCredit", "Login", "ClearCache", "PostMember", "Import"}
    None = None
    Faults = TRUE
SYMMETRY Interchangeable
INVARIANTS
    TypeOK
    ConfirmedKept
    ConfirmedSeen
PROPERTY CountNeverDrops
