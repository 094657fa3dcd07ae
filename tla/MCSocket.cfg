SPECIFICATION FairSpec
CONSTANTS
    c1 = c1  c2 = c2
    s1 = s1  s2 = s2
    Callers = {c1, c2}
    Owner = c1
    Senders = {s1, s2}
    Sizes = {1, 2}
    maxSendQBytes = 2
    MaxCalls = 2
INVARIANTS MutualExclusion NoLostWakeup WireOrder SendQBounded
PROPERTIES ImplementsOutputStream   
