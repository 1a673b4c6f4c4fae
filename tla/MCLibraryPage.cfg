\* A page with one call at a time, visited twice, beside a client that deletes and
\* a worker that publishes.
SPECIFICATION MCSpec
CONSTANTS
  Jobs = {j1, j2}
  Files = {f1, f2}
  Implemented = {"hlg-cpu"}
  GpuProfiles = {}
  Folders = {a1}
  CreationTag <- MCNoTag
  None = None
  Absent = Absent
  Unread = Unread
  r1 = r1
  r2 = r2
  Handlers <- MCHandlers
  Mine <- MCMine
  Serves <- MCServes
  Selectable = {"done"}
  Previewed = {}
  MaxHandlerDeaths = 0
  v1 = v1
  v2 = v2
  Visits <- MCVisits
SYMMETRY MCSymmetry
CHECK_DEADLOCK FALSE
INVARIANTS
  PageTypeOK
  CopyIsTrue
  
PROPERTIES
  DocumentGoesLast
