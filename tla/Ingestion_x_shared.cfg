CONSTANTS
    c1 = c1  c2 = c2  c3 = c3  n1 = n1  n2 = n2  a1 = a1  a2 = a2
    r1 = r1  r2 = r2  b1 = b1  b2 = b2  p1 = p1  p2 = p2  u1 = u1  u2 = u2
    None = None
    NoNumber = NoNumber
    Names = {n1}
    Contents = {c1}
    Rows = {r1, r2}
    Numbers = {a1, a2}
    Banks = {b1}
    Units = {u1}
    Layouts = {"v1"}
    Located <- InBoth
    LinesOf <- TwoAccounts
    SavedBank <- OneBank
    ParsedBank <- OneBank
    Suffix <- OwnDigits
    Requests = {p1}
    MaxRequests = 2
    MaxChanges = 2
    MaxExecutions = 2
    Workers = 1
    MaxFaults = 0
SPECIFICATION Spec
INVARIANT RowsKeptApart
CHECK_DEADLOCK FALSE
