\* A file is processed through auto twice.
SPECIFICATION Spec
CONSTANTS
  Jobs = {j1, j2}
  Files = {f1}
  Implemented = {"hlg-gpu", "hlg-cpu"}
  GpuProfiles = {"hlg-gpu"}
  Folders = {}
  CreationTag <- MCCreationTag
  None = None
  Requests = {"auto"}
  Qualities = {FALSE}
  Workers = {w1}
  Dismissers = {}
  d1 = d1
  MaxDisplayNameAttempts = 2
  MaxProgress = 0
  MaxCrashes = 0
  MaxAborts = 0
  MaxApiDeaths = 0
  MaxExpiries = 0
CHECK_DEADLOCK FALSE
INVARIANTS
  OneRunPerRequest
