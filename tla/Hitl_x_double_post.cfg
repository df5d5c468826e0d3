\* Two SPOCs approve the version of the row they both saw.
CONSTANTS
    s1 = s1  s2 = s2  i1 = i1  i2 = i2
    Recheck = Recheck  Step45 = Step45
    Spocs = {s1, s2}
    Invoices = {i1}
    Operations <- ApproveOnly
    Callers <- VersionedOnly
    Answers <- Reliable
    MaxRequests = 2
SPECIFICATION Spec
INVARIANT ReferencePostedOnce
CHECK_DEADLOCK FALSE
