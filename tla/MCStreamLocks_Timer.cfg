SPECIFICATION Spec
CONSTANTS
  Threads = {t1, t2, t3}
  Streams = {s1, s2}
  Handlers <- WithTimer
SYMMETRY Symmetry
CHECK_DEADLOCK FALSE
INVARIANT NoCircularWait
