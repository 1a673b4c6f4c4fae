\* A move beside the deletion of the folder it moves to.
SPECIFICATION Spec
CONSTANTS
  Jobs = {j1, j2}
  Files = {f1, f2}
  Implemented = {"hlg-cpu"}
  GpuProfiles = {}
  Folders = {a1, a2}
  CreationTag <- MCNoTag
  None = None
  r1 = r1
  r2 = r2
  Handlers <- MCHandlers
  Serves <- MCTwoTabs
  Selectable = {"done"}
  Previewed = {j1, j2}
  MaxHandlerDeaths = 0
SYMMETRY MCSymmetry
CHECK_DEADLOCK FALSE
INVARIANTS
  NoDanglingFolder
