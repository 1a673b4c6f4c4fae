\* One file: parts of 3 bytes, samples of 2, clips of 2 ms, at most 3 of them,
\* three contrasts and a sampled window of 2 ms; four candidates, two scenes.
SPECIFICATION MCSpec
CONSTANTS
  PartSize = 3
  SampleBytes = 2
  ThumbnailMs = 5
  ClipMs = 2
  MaxClips = 3
  WindowMs = 2
  Sizes = {0, 1, 2, 3, 4, 5, 6, 7}
  Durations <- MCDurations
  OutTimes <- MCOutTimes
  Rank <- MCRank
  Implemented = {"hlg-gpu", "hlg-cpu"}
  GpuProfiles = {"hlg-gpu"}
  Requests <- MCRequests
  Contrasts = 3
  None = None
  TuningContrasts = {6, 12}
  TuningSaturations = {10, 20}
  Threshold = 3
  Scenes = 2
  Measures <- MCMeasures
  NaN <- MCNaN
CHECK_DEADLOCK FALSE
INVARIANTS
  GradingTypeOK
  PartsTile
  SamplesFit
  ClipsFit
  ProfileIsRight
  SteadyHostServes
  ContrastIsMeasured
  SampleFits
  TunedIsBest
PROPERTIES
  ProgressIsTrue
