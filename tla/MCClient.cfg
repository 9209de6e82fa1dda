\* The client with two torrents and a waiter: WaitGroup accounting, graceful
\* stop and completion under the goroutines' fairness.
CONSTANTS
  c1 = c1  c2 = c2  w1 = w1  h1 = h1  h2 = h2
  NoTracker = NoTracker
  ZeroInterval = FALSE
  Callers = {c1, c2}
  Waiters = {w1}
  Hash <- MCHash
  WaitHash <- MCWaitHash
  Total = 2
SPECIFICATION LiveSpec
INVARIANT TypeOK
INVARIANT WgCoversRunning
PROPERTY GracefulStop
PROPERTY CompletionAnnounced
\* After Close and every goroutine's return, watch blocks in wg.Wait and
\* a WorkOn that has not been received blocks on handler: the client stops.
CHECK_DEADLOCK FALSE
