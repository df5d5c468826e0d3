\* One property at a time; each ends in a counterexample.
CONSTANTS
    n1 = n1  n2 = n2  c1 = c1  c2 = c2  bad = bad
    api = api  worker = worker  t1 = t1  t2 = t2  r1 = r1  r2 = r2
    None = None
    Names = {n1, n2}
    Contents = {c1, c2}
    Unreadable = {}
    Api = api
    Workers = {worker}
    Uploaded <- TwoRemoved
    Tasks = {t1}
    Readers = {r1, r2}
    ProcessOf <- BothRead
    MaxRequests = 2
    MaxReads = 1
    MaxRestarts = 1
    MaxFaults = 0
SPECIFICATION Spec
INVARIANT SameData
CHECK_DEADLOCK FALSE
\* INVARIANT ApiIsCurrent
