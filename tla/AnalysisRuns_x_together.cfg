\* An exception between flush and stamp.
CONSTANTS
    r1 = r1  r2 = r2  f1 = f1  f2 = f2
    a1 = a1  a2 = a2  l1 = l1  l2 = l2
    NoAccount = NoAccount  NoRun = NoRun  Ledger = Ledger
    Runs = {r1}
    Files = {f1}
    Lines = {l1, l2}
    Accounts = {a1, a2}
    AccountOf <- OneFile
    LinesOf <- TwoLines
    Selections <- OneSet
    Workers = 1
    MaxExecutions = 2
    ChunkSize = 2
    FaultBudget <- OnlyRaise
SPECIFICATION Spec
INVARIANT ItemAndStampTogether
CHECK_DEADLOCK FALSE
