CONSTANTS
  Jobs = {j1, j2}
  MaxLists = 0
  MaxFailures = 0
  None = None
SPECIFICATION Spec
PROPERTIES ClearedIsDismissed
CHECK_DEADLOCK FALSE
