SPECIFICATION FairSpec
CONSTANTS
  p1 = p1  p2 = p2  p3 = p3  k1 = k1  k2 = k2  v1 = v1  v2 = v2
  Projects = {p1, p2}  Keys = {k1, k2}  Values = {v1}
  Gone = Gone  Kept = Kept  None = None  Detached = Detached
  Kinds = {"table"}  Exposed = {"table"}
  Page = 1  MaxReloads = 0  MayFail = FALSE
INVARIANT NoDrift
PROPERTY EventuallyInSync
