\* A tracker answers the first announce with an interval of zero: the
\* update loop's time.NewTicker panics and the client process aborts.
CONSTANTS
  c1 = c1  c2 = c2  w1 = w1  h1 = h1  h2 = h2
  NoTracker = NoTracker
  ZeroInterval = TRUE
  Callers = {c1, c2}
  Waiters = {w1}
  Hash <- MCHash
  WaitHash <- MCWaitHash
  Total = 2
SPECIFICATION Spec
INVARIANT NoCrash
CHECK_DEADLOCK FALSE
