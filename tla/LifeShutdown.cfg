SPECIFICATION Spec
CONSTANTS
  t1 = t1
  t2 = t2
  i1 = i1
  i2 = i2
  i3 = i3
  i4 = i4
  s1 = s1
  s2 = s2
  s3 = s3
  Threads = {t1, t2}
  Instances = {i1, i2, i3, i4}
  Enabled = {i1, i2, i4}
  Spans = {s1, s2, s3}
  InstanceOf <- MCInstanceOf
  MaxQueue = 1
  MaxCalls = 2
  TakingTurns = {i1, i4}
  Failing = {i2, i4}
CHECK_DEADLOCK FALSE
SYMMETRY LifecycleSymmetry
INVARIANTS ShutOnce ReturnedIsReleased
PROPERTY PendingIsFlushed
