SPECIFICATION Spec
CONSTANTS
  w1 = w1
  w2 = w2
  r1 = r1
  r2 = r2
  r3 = r3
  NoBatch = NoBatch
  Worker = {w1, w2}
  Request = {r1, r2, r3}
  Bulk = {r2, r3}
  MaxJob = 1
  Setting <- ResumedSetting
INVARIANTS CancelledOnlyOnRequest
CHECK_DEADLOCK FALSE
