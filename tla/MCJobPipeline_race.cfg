\* Two submissions of one file, two workers, one dismisser, expiring hashes.
SPECIFICATION Spec
CONSTANTS
  Jobs = {j1, j2}
  Files = {f1}
  Implemented = {"hlg-gpu", "hlg-cpu"}
  GpuProfiles = {"hlg-gpu"}
  Folders = {}
  CreationTag <- MCCreationTag
  None = None
  Requests = {"auto", "hlg-cpu"}
  Qualities = {FALSE}
  Workers = {w1, w2}
  Dismissers = {r1}
  d1 = d1
  MaxDisplayNameAttempts = 2
  MaxProgress = 0
  MaxCrashes = 0
  MaxAborts = 0
  MaxApiDeaths = 0
  MaxExpiries = 1
SYMMETRY MCSymmetry
CHECK_DEADLOCK FALSE
INVARIANTS
  TypeOK
  NoLostUpdate
  DoneIsPublished
  FailedFreesFile
PROPERTIES
  TerminalIsFinal
  JobsAreLifecycles
