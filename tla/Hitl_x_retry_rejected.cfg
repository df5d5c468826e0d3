\* A row whose posting failed is rejected, then retried.
CONSTANTS
    s1 = s1  s2 = s2  i1 = i1  i2 = i2
    Recheck = Recheck  Step45 = Step45
    Spocs = {s1}
    Invoices = {i1}
    Operations <- ApproveRejectRetry
    Callers <- VersionedOnly
    Answers <- AnyAnswer
    MaxRequests = 3
SPECIFICATION Spec
INVARIANT RejectedNotPosted
CHECK_DEADLOCK FALSE
