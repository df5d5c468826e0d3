\* A remittance without an invoice arrives for a waiting row.
CONSTANTS
    s1 = s1  s2 = s2  i1 = i1  i2 = i2
    Recheck = Recheck  Step45 = Step45
    Spocs = {s1}
    Invoices = {i1}
    Operations <- RecheckOnly
    Callers <- VersionedOnly
    Answers <- Reliable
    MaxRequests = 1
SPECIFICATION Spec
PROPERTY RecheckKeepsWaiting
CHECK_DEADLOCK FALSE
