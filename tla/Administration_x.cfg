\* One property at a time; each ends in a counterexample.
CONSTANTS
    p1 = p1  p2 = p2  e1 = e1  e2 = e2  e3 = e3  admin = admin  viewer = viewer
    None = None
    People = {p1, p2}
    Emails = {e1, e2, e3}
    ClaimedBy <- Reassigned
    Roles = {admin, viewer}
    AdminRoles = {admin}
    Founder = e1
    Requests = {1, 2}
    MaxRequests = 5
SPECIFICATION Spec
CHECK_DEADLOCK FALSE
PROPERTY AlwaysSomeAdmin
\* INVARIANT NeverLockedOut
\* PROPERTY NeverRebound
\* INVARIANT LastMeansTarget
