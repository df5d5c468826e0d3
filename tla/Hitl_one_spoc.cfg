\* One SPOC request at a time beside the recheck worker and the run; Oracle may fail.
CONSTANTS
    s1 = s1  s2 = s2  i1 = i1  i2 = i2
    Recheck = Recheck  Step45 = Step45
    Spocs = {s1}
    Invoices = {i1, i2}
    Operations <- Everything
    Callers = {TRUE, FALSE}
    Answers <- AnyAnswer
    MaxRequests = 4
SPECIFICATION Spec
INVARIANTS TypeOK ProcessedIsPosted
PROPERTY RejectStands
SYMMETRY InvoiceSymmetry
CHECK_DEADLOCK FALSE
