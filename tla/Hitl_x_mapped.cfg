\* A rejected row is mapped by hand.
CONSTANTS
    s1 = s1  s2 = s2  i1 = i1  i2 = i2
    Recheck = Recheck  Step45 = Step45
    Spocs = {s1}
    Invoices = {i1}
    Operations <- MapAndReject
    Callers <- VersionedOnly
    Answers <- Reliable
    MaxRequests = 2
SPECIFICATION Spec
PROPERTY MappedIsReady
CHECK_DEADLOCK FALSE
