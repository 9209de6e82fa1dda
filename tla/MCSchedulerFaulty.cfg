\* p2 sends corrupt blocks and t.Flush may fail: no wrong or unflushed
\* piece ever reaches the bitfield, even though the retry path aborts.
\* The scheduler implements the abstract Download specification.
CONSTANTS
  p1 = p1
  p2 = p2
  Nil = Nil
  Peers <- MCPeers
  Has <- MCHas
  Corrupt <- MCCorruptP2
  FlushMayFail = TRUE
  NumSlots = 1
  PieceLength = 4
  TotalLength = 5
  RequestSize = 2
  MaxFaults = 1
  MaxChan = 2
SPECIFICATION Spec
INVARIANT PieceLifecycle
PROPERTY DownloadRefines
PROPERTY ProgressAsClientAssumes
