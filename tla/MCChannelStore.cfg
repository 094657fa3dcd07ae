SPECIFICATION Spec
CONSTANTS
    NoOne = NoOne
    Callers = {c1, c2}
    Writers = {w1, w2}
    Accounts = {a, b}
    MaxChanges = 1
    MaxUUIDs = 2
    Faults = {"store", "restart"}
SYMMETRY MCSymmetry
INVARIANTS TypeOK UnsavedIsDirtyUnlessLost WriterIsComingUnlessMissed OneWriter
