\* A SPOC approves a row that another has mapped anew meanwhile.
CONSTANTS
    s1 = s1  s2 = s2  i1 = i1  i2 = i2
    Recheck = Recheck  Step45 = Step45
    Spocs = {s1, s2}
    Invoices = {i1, i2}
    Operations <- ApproveAndMap
    Callers <- VersionedOnly
    Answers <- Reliable
    MaxRequests = 2
SPECIFICATION Spec
INVARIANT ApprovedAsSeen
CHECK_DEADLOCK FALSE
