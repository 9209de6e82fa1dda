------------------------------- MODULE Download -------------------------------
(***************************************************************************)
(* What a torrent download promises its owner (specification, sections 3  *)
(* and 4.F), with no peers, slots or blocks: each piece goes once from     *)
(* missing to stored with its true content and stays so; the download is  *)
(* declared complete only when every piece is stored, and at most once;    *)
(* stopping is a one-way signal. A piece in flight when the download is    *)
(* stopped may still be stored.                                            *)
(***************************************************************************)
CONSTANT Pieces

VARIABLES
  store,      \* piece -> "missing", "good" (true content) or "bad"
  completed,  \* the download was declared complete
  stopped     \* the download was told to stop

vars == <<store, completed, stopped>>

Init ==
  /\ store = [i \in Pieces |-> "missing"]
  /\ completed = FALSE
  /\ stopped = FALSE

(* A missing piece is stored, with its true content.                      *)
Verify(i) ==
  /\ store[i] = "missing"
  /\ store' = [store EXCEPT ![i] = "good"]
  /\ UNCHANGED <<completed, stopped>>

(* The download is declared complete once every piece is stored.          *)
Complete ==
  /\ ~completed
  /\ \A i \in Pieces : store[i] = "good"
  /\ completed' = TRUE
  /\ UNCHANGED <<store, stopped>>

Stop ==
  /\ ~stopped
  /\ stopped' = TRUE
  /\ UNCHANGED <<store, completed>>

Next == (\E i \in Pieces : Verify(i)) \/ Complete \/ Stop

Spec == Init /\ [][Next]_vars

=============================================================================
