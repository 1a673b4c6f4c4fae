\* Four candidates, two scenes, each clipped, fit or without a frame.
SPECIFICATION TuningSpec
CONSTANTS
  TuningContrasts = {6, 12}
  TuningSaturations = {10, 20}
  Threshold = 3
  Scenes = 2
  Measures <- MCMeasures
  NaN <- MCNaN
CHECK_DEADLOCK FALSE
INVARIANTS
  TunedIsBest
