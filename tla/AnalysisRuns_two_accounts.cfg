\* Two workers on the statements of two accounts.
CONSTANTS
    r1 = r1  r2 = r2  f1 = f1  f2 = f2
    a1 = a1  a2 = a2  l1 = l1  l2 = l2
    NoAccount = NoAccount  NoRun = NoRun  Ledger = Ledger
    Runs = {r1, r2}
    Files = {f1, f2}
    Lines = {l1, l2}
    Accounts = {a1, a2}
    AccountOf <- OwnAccounts
    LinesOf <- OwnLines
    Selections <- EachFile
    Workers = 2
    MaxExecutions = 2
    ChunkSize = 1
    FaultBudget <- RaiseOrCrash
SPECIFICATION Spec
PROPERTIES ConsumedOnce ReceiptSentOnce
SYMMETRY RunSymmetry
CHECK_DEADLOCK FALSE
