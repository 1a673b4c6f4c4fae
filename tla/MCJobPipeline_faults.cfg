\* Two submissions of one file under every fault but an expiring hash, and what
\* settles when nothing was interrupted.
SPECIFICATION LiveSpec
CONSTANTS
  Jobs = {j1, j2}
  Files = {f1}
  Implemented = {"hlg-gpu", "hlg-cpu"}
  GpuProfiles = {"hlg-gpu"}
  Folders = {}
  CreationTag <- MCCreationTag
  None = None
  Requests = {"auto", "hlg-gpu"}
  Qualities = {TRUE}
  Workers = {w1}
  Dismissers = {}
  d1 = d1
  MaxDisplayNameAttempts = 2
  MaxProgress = 1
  MaxCrashes = 1
  MaxAborts = 1
  MaxApiDeaths = 1
  MaxExpiries = 0
CHECK_DEADLOCK FALSE
INVARIANTS
  SingleDelivery
  PublishedIsStored
  Indexed
  StrandedByFaults
PROPERTIES
  AcceptedSettles
  VideoSettles
