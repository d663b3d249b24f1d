SPECIFICATION Spec
CONSTANTS
    Requests = {r1, r2, r3}
    Offered = {"Frontend", "Auto", "Agent"}
    Applications <- Overlapping
    Present <- Crowded
    Old = Old
    Faults = TRUE
SYMMETRY Interchangeable
INVARIANTS
    TypeOK
    ApartMeansDistinct
    SelfServedIsComplete
    TakenOnlyWhenFull
