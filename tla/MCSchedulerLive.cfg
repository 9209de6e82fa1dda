\* Liveness of the download and of its shutdown: honest peers, reliable
\* storage, one environment fault, one slot.
CONSTANTS
  p1 = p1
  p2 = p2
  Nil = Nil
  Peers <- MCPeers
  Has <- MCHas
  Corrupt = {}
  FlushMayFail = FALSE
  NumSlots = 1
  PieceLength = 4
  TotalLength = 5
  RequestSize = 2
  MaxFaults = 1
  MaxChan = 1
SPECIFICATION Spec
PROPERTY DownloadCompletes
PROPERTY Quiescence
