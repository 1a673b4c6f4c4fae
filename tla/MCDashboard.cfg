CONSTANTS
  Jobs = {j1}
  MaxLists = 2
  MaxFailures = 1
  None = None
SPECIFICATION LiveSpec
INVARIANTS TypeOK ShownIsTracked ShownEndIsTrue ListedOnce
PROPERTIES RemovedIsOver ShownSettles
CHECK_DEADLOCK FALSE
