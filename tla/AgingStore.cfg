CONSTANTS
    n1 = n1  n2 = n2  c1 = c1  c2 = c2  bad = bad
    api = api  worker = worker  t1 = t1  t2 = t2  r1 = r1  r2 = r2
    None = None
    Names = {n1, n2}
    Contents = {c1, bad}
    Unreadable = {bad}
    Api = api
    Workers = {worker}
    Uploaded <- TwoRemoved
    Tasks = {t1, t2}
    Readers = {r1, r2}
    ProcessOf <- BothRead
    MaxRequests = 2
    MaxReads = 1
    MaxRestarts = 1
    MaxFaults = 1
SPECIFICATION FairSpec
INVARIANTS TypeOK SnapshotIsActive ApiHasSnapshot RunKeepsReport
PROPERTIES WatchedIsLoaded
CHECK_DEADLOCK FALSE
