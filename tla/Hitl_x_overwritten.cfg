\* A SPOC maps a row while the recheck works on it.
CONSTANTS
    s1 = s1  s2 = s2  i1 = i1  i2 = i2
    Recheck = Recheck  Step45 = Step45
    Spocs = {s1}
    Invoices = {i1, i2}
    Operations <- MapAndRecheck
    Callers <- VersionedOnly
    Answers <- Reliable
    MaxRequests = 2
SPECIFICATION Spec
PROPERTY RecheckLeavesDecided
CHECK_DEADLOCK FALSE
