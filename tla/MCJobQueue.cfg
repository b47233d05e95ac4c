CONSTANTS
  w1 = w1
  w2 = w2
  w3 = w3
  c1 = c1
  o1 = o1
  NoType = NoType
  Types = {1, 2}
  Limit <- MCLimit
  Skip = {1}
  Threads = {w1, w2, w3}
  Others = {o1}
  Children = {c1}
  MaxJobs = 4
SPECIFICATION Spec
INVARIANTS RunnableExists StopRunsJobs
PROPERTIES JobsRun StopCompletes
CHECK_DEADLOCK FALSE
