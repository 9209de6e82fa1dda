------------------------------ MODULE MCClient ------------------------------
(* Two WorkOn callers, one WaitFor, a torrent of two units of progress.     *)
EXTENDS Client

CONSTANTS c1, c2, w1, h1, h2

(* Distinct hashes; the waiter polls the first.                            *)
MCHash == [c \in {c1, c2} |-> IF c = c1 THEN h1 ELSE h2]
(* Both callers pass the same torrent.                                      *)
MCSameHash == [c \in {c1, c2} |-> h1]
MCWaitHash == [w \in {w1} |-> h1]
====
