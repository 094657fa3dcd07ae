SPECIFICATION Spec
CONSTANTS
    n1 = n1  n2 = n2  n3 = n3
    k1 = k1  k2 = k2
    NoOne = NoOne
    Goroutines = {g1, g2}
    Clients = {c1}
    Names = {n1, n3}
    Skeletons = {k1}
    Skeleton <- MCSkeleton
    Accounts = {a}
    MaxChannels = 2
    Registrable = {1}
    RenameRegistered = TRUE
SYMMETRY MCSymmetry
INVARIANTS TypeOK NoLeakedChannel
