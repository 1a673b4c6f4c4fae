\* A redelivered message replaces or removes a published result.
SPECIFICATION Spec
CONSTANTS
  Jobs = {j1}
  Files = {f1}
  Implemented = {"hlg-gpu", "hlg-cpu"}
  GpuProfiles = {"hlg-gpu"}
  Folders = {}
  CreationTag <- MCCreationTag
  None = None
  Requests = {"hlg-cpu"}
  Qualities = {FALSE}
  Workers = {w1}
  Dismissers = {}
  d1 = d1
  MaxDisplayNameAttempts = 2
  MaxProgress = 0
  MaxCrashes = 1
  MaxAborts = 0
  MaxApiDeaths = 0
  MaxExpiries = 0
CHECK_DEADLOCK FALSE
PROPERTIES
  PublishedIsFinal
