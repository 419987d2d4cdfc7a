SPECIFICATION Spec
CONSTANTS
    Syncs = {s1, s2}
    Objects = {u1, u2}
    SectionOf <- MCSectionOf
    MaxVersion = 2
SYMMETRY Symmetry
INVARIANTS
    CompletedIsComplete
    CompletedIsFresh
PROPERTIES
    RowsGoForward
CHECK_DEADLOCK FALSE
