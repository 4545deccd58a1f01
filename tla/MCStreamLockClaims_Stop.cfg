SPECIFICATION FairSpec
CONSTANTS
  Threads = {t1, t2}
  Streams = {s1}
  Handlers <- Control
CHECK_DEADLOCK FALSE
PROPERTY StopIsRelayed
