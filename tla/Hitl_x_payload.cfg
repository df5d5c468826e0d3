\* Two retries beside each other, a mapping in between: the outcome of one, the payload of the other.
CONSTANTS
    s1 = s1  s2 = s2  i1 = i1  i2 = i2
    Recheck = Recheck  Step45 = Step45
    Spocs = {s1, s2}
    Invoices = {i1, i2}
    Operations <- ApproveMapRetry
    Callers <- VersionedOnly
    Answers <- Answered
    MaxRequests = 4
SYMMETRY BothSymmetry
SPECIFICATION Spec
INVARIANT ProcessedIsPosted
CHECK_DEADLOCK FALSE
