CONSTANTS
  Parts = {1, 2, 3}
  Concurrency = 2
  Calls = {c1, c2}
  Others = {o1, o2}
  MaxFailures = 1
  None = None
SPECIFICATION LiveSpec
INVARIANTS TypeOK PartsAccounted
PROPERTIES SourceIsAtomic CallEnds ResumedIsFinished
CHECK_DEADLOCK FALSE
