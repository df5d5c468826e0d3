\* A rejection is committed while an approval is talking to Oracle.
CONSTANTS
    s1 = s1  s2 = s2  i1 = i1  i2 = i2
    Recheck = Recheck  Step45 = Step45
    Spocs = {s1, s2}
    Invoices = {i1}
    Operations <- ApproveAndReject
    Callers <- VersionedOnly
    Answers <- Reliable
    MaxRequests = 2
SPECIFICATION Spec
PROPERTY RejectStands
CHECK_DEADLOCK FALSE
