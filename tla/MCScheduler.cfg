\* Honest peers and reliable storage; one fault of the environment
\* (a choke, a dropped connection, a duplicated answer, a failed handshake,
\* a failed SendRequest or a premature timeout).
CONSTANTS
  p1 = p1
  p2 = p2
  Nil = Nil
  Peers <- MCPeers
  Has <- MCHas
  Corrupt = {}
  FlushMayFail = FALSE
  NumSlots = 2
  PieceLength = 4
  TotalLength = 5
  RequestSize = 2
  MaxFaults = 1
  MaxChan = 2
SPECIFICATION Spec
INVARIANT TypeOK
INVARIANT NoAbort
INVARIANT BlockAccounting
INVARIANT CountedAheadOnlyWhileVerifying
