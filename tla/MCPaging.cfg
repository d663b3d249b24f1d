SPECIFICATION Spec
CONSTANTS
    Members = {m1, m2, m3, m4, m5}
    Times = {1, 2, 3}
    Take = 2
    None = None
SYMMETRY Interchangeable
INVARIANTS
    TypeOK
    WalkComplete
    KeywordShowsNewest
