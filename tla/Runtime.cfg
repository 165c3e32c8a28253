\* Two connections, two orders and channels of one message; three keys, two
\* requests in a window of three units of time; two requests to the process.
CONSTANTS
  Streams = {s1, s2}
  Messages = {m1, m2}
  Cap = 1
  Keys = {k1, k2, k3}
  Max = 2
  Window = 3
  Requests = {q1, q2}
SPECIFICATION RuntimeSpec
INVARIANTS
  RuntimeTypeOK
  NoSendOnClosed
  LossIsExplained
  CleanExit
PROPERTIES
  NeverBlocked
  WindowKept
  Forgotten
  Stops
CHECK_DEADLOCK FALSE
