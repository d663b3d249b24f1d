SPECIFICATION Spec
CONSTANTS
    Requests = {r1, r2, r3}
    Offered = {"ByUsername", "ByDisplayname", "ByProvider", "ByPhone", "PutMember", "Patch", "ClearCache", "Reset", "RealUsername"}
    Users <- MCUsers
    Names <- MCNames
    Lower <- MCLower
    Tail <- MCTail
    Seamless <- MCSeamless
    None = None
    InFlight = 2
    MaxMoves = 1
    Faults = TRUE
SYMMETRY Interchangeable
INVARIANTS
    TypeOK
    SettledSeen
    FlushedSeen
    OneConfigRow
    FlagEarned
