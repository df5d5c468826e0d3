\* Two SPOC requests at a time: what is kept whatever they overwrite.
CONSTANTS
    s1 = s1  s2 = s2  i1 = i1  i2 = i2
    Recheck = Recheck  Step45 = Step45
    Spocs = {s1, s2}
    Invoices = {i1}
    Operations <- Everything
    Callers = {TRUE, FALSE}
    Answers <- AnyAnswer
    MaxRequests = 3
SPECIFICATION Spec
INVARIANTS ReceiptFirst OutcomeOfDecision
SYMMETRY SpocSymmetry
CHECK_DEADLOCK FALSE
