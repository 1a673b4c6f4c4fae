\* A submission graded while its video is moved and deleted, twice at once.
SPECIFICATION SystemSpec
CONSTANTS
  Jobs = {j1}
  Files = {f1}
  Implemented = {"hlg-cpu"}
  GpuProfiles = {}
  Folders = {a1}
  CreationTag <- MCNoTag
  None = None
  Requests = {"hlg-cpu"}
  Qualities = {FALSE}
  Workers = {w1}
  Dismissers = {}
  MaxDisplayNameAttempts = 1
  MaxProgress = 0
  MaxCrashes = 1
  MaxAborts = 0
  MaxApiDeaths = 0
  MaxExpiries = 0
  r1 = r1
  r2 = r2
  Handlers <- MCHandlers
  Serves <- MCServes
  Selectable = {"in_progress", "done", "failed"}
  MaxHandlerDeaths = 1
CHECK_DEADLOCK FALSE
INVARIANTS
  ListedIsStored
PROPERTIES
  DeletedStaysDeleted
  SettlesWithoutVideo
