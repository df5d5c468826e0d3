\* One SPOC request at a time, no retries and no crashes.
CONSTANTS
    s1 = s1  s2 = s2  i1 = i1  i2 = i2
    Recheck = Recheck  Step45 = Step45
    Spocs = {s1}
    Invoices = {i1, i2}
    Operations <- Decisions
    Callers = {TRUE, FALSE}
    Answers <- AnyAnswer
    MaxRequests = 4
SPECIFICATION Spec
INVARIANT ReferencePostedOnce
SYMMETRY InvoiceSymmetry
CHECK_DEADLOCK FALSE
