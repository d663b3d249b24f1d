SPECIFICATION Spec
CONSTANTS
    Requests = {r1, r2}
    Offered = {"Withdraw", "PutPassword"}
    None = None
    Faults = FALSE
INVARIANT PutPasswordKept
