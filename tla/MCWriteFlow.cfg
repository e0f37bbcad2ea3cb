\* Two pages of one browser and three calls: clicks on one page or two, a lost
\* call, reloads, refusals and reconciliations in every order.
SPECIFICATION Spec
CONSTANTS
    Pages = {p1, p2}
    Calls = {c1, c2, c3}
    None = None
    Storage = TRUE
    MaxFailures = 1
SYMMETRY Symmetry
INVARIANT OpenWriteIsRecorded
PROPERTY LossHasACause
CHECK_DEADLOCK FALSE
