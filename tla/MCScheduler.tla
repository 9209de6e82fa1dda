---------------------------- MODULE MCScheduler ----------------------------
(* Instantiates Scheduler for TLC: two peers, a 5-byte torrent of 4-byte   *)
(* pieces split into 2-byte blocks, so piece 0 has two blocks and the last *)
(* piece is one short block.                                               *)
EXTENDS Scheduler

CONSTANTS p1, p2

MCPeers == {p1, p2}
(* p1 is a seeder with every piece; p2 has only piece 0.                   *)
MCHas == [p \in MCPeers |-> IF p = p1 THEN {0, 1} ELSE {0}]
(* p2 sends wrong data.                                                    *)
MCCorruptP2 == {p2}
=============================================================================
