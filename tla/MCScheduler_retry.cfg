\* p2 sends corrupt blocks. After the hash mismatch recvPieces requeues the
\* piece without resetting piece.Downloaded; the process must not abort.
CONSTANTS
  p1 = p1
  p2 = p2
  Nil = Nil
  Peers <- MCPeers
  Has <- MCHas
  Corrupt <- MCCorruptP2
  FlushMayFail = FALSE
  NumSlots = 2
  PieceLength = 4
  TotalLength = 5
  RequestSize = 2
  MaxFaults = 1
  MaxChan = 2
SPECIFICATION Spec
INVARIANT NoAbort
