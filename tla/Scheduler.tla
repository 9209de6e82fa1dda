------------------------------ MODULE Scheduler ------------------------------
(***************************************************************************)
(* The download engine of one torrent (package status, download.go, kept   *)
(* in src/bencoding/bencoding_test.go lines 299-755):                      *)
(*   - downloadScheduler: one goroutine polling the slot table, reaping    *)
(*     timed-out block requests, dispatching pending ones to peers and     *)
(*     admitting new pieces into free slots;                               *)
(*   - recvPieces: one goroutine per peer, applying received blocks to     *)
(*     the PendingPiece under its lock, verifying and flushing the piece;  *)
(*   - keepAliveSeeders: one goroutine per peer, (re)connecting it and     *)
(*     closing it on stop, cancel or completion;                           *)
(*   - UpdateSeeders: integration of the peers a tracker returned.         *)
(* The remote peers and the connection layer (package peer, not in the    *)
(* sources) are an environment: they unchoke, choke, answer requests,      *)
(* duplicate answers and drop connections.                                 *)
(***************************************************************************)
EXTENDS Integers, Sequences, FiniteSets, SequencesExt, FiniteSetsExt, TLC

CONSTANTS
  Peers,         \* addresses the tracker may return
  NumSlots,      \* len(t.download.requests)
  PieceLength,   \* t.Torrent.PieceLength
  TotalLength,   \* t.Torrent.BytesToDownload()
  RequestSize,   \* messagesv1.RequestSize
  Has,           \* remote bitfields: [Peers -> SUBSET piece indices]
  Corrupt,       \* peers that send wrong block data
  FlushMayFail,  \* whether t.Flush may return an error
  MaxFaults,     \* bound on environment faults and premature timeouts
  MaxChan,       \* bound on the pieces buffered in a peer's channel
  Nil

ASSUME NumSlots \in Nat \ {0}
ASSUME PieceLength \in Nat \ {0} /\ TotalLength \in Nat \ {0}
ASSUME RequestSize \in Nat \ {0}
ASSUME Corrupt \subseteq Peers /\ FlushMayFail \in BOOLEAN
ASSUME MaxFaults \in Nat /\ MaxChan \in Nat \ {0}

NumPieces == (TotalLength + PieceLength - 1) \div PieceLength
PieceIndices == 0 .. NumPieces - 1
Slots == 1 .. NumSlots

ASSUME Has \in [Peers -> SUBSET PieceIndices]

(* Size of piece i: the last piece may be shorter.                         *)
PieceSize(i) ==
  LET pieceStart == i * PieceLength
      pieceEnd   == IF pieceStart + PieceLength < TotalLength
                    THEN pieceStart + PieceLength ELSE TotalLength
  IN  pieceEnd - pieceStart

(* The block requests a piece of the given size is split into, from       *)
(* offset p on: blocks of RequestSize, the last one shorter.               *)
RECURSIVE SplitBlocks(_, _)
SplitBlocks(size, p) ==
  IF p >= size THEN << >>
  ELSE LET next == IF size < p + RequestSize THEN size - p ELSE RequestSize
       IN  << [begin |-> p, length |-> next] >> \o SplitBlocks(size, p + next)

Blocks(i) == SplitBlocks(PieceSize(i), 0)

Block == [begin : 0 .. PieceLength, length : 1 .. RequestSize]
(* A block request on the wire: messagesv1.Request.                        *)
Request == [index : PieceIndices, begin : 0 .. PieceLength, length : 1 .. RequestSize]
(* A piece message: messagesv1.Piece, with the block data abstracted to    *)
(* whether it is the true content.                                         *)
PieceMsg == [index : PieceIndices, begin : 0 .. PieceLength,
             length : 1 .. RequestSize, good : BOOLEAN]

ReqOf(i, b) == [index |-> i, begin |-> b.begin, length |-> b.length]

(* The sub-sequence of s at the indices in J, in order.                    *)
Pick(s, J) ==
  LET idx == SelectSeq([n \in DOMAIN s |-> n], LAMBDA n : n \in J)
  IN  [n \in DOMAIN idx |-> s[idx[n]]]

(* The scheduler's pc once downloadScheduler has returned.                *)
Exited == 0

EmptyPiece == [pending |-> << >>, inflight |-> << >>, received |-> << >>,
               downloaded |-> 0]

VARIABLES
  slots,       \* t.download.requests: slot -> piece index or Nil
  unverified,  \* the scheduler's local queue of missing pieces
  pieces,      \* the pendingPiece object of each admitted piece index
  bitfield,    \* t.BitField: the verified pieces
  downloaded,  \* t.Downloaded
  schedPc,     \* next slot the scheduler visits, NumSlots+1: admission
  freeSlots,   \* the scheduler's local freeSlots count
  completed,   \* t.download.completed is closed
  stop,        \* t.stop or t.download.cancel is closed
  seeders,     \* keys of t.peers.seeders
  conn,        \* p.ConnectionStatus
  unchoked,    \* p.Status.Remote == UnChoked
  ka,          \* keepAliveSeeders(p) is running
  recvs,       \* number of recvPieces(p) goroutines running
  recvAt,      \* recvPieces(p) past finding the slot: the message, the
               \* slot, and whether it has counted the piece's last
               \* block and holds the piece's lock to verify it
  reqs,        \* requests the remote peer holds and has not answered
  chan,        \* pieces buffered in p.SeederPieces()
  flushes,     \* history: successful t.Flush calls per piece
  panicked,    \* the process aborted on a panic
  faults,      \* environment faults so far
  dwg          \* the counter of t.download.wg

sched == <<slots, unverified, pieces, bitfield, downloaded, schedPc,
           freeSlots, completed>>
peer == <<conn, unchoked, ka, recvs, recvAt, reqs, chan>>
vars == <<sched, stop, seeders, peer, flushes, panicked, faults, dwg>>

Init ==
  /\ slots = [s \in Slots |-> Nil]
  /\ unverified \in SetToSeqs(PieceIndices)   \* rand.Shuffle of MissingPieces
  /\ pieces = [i \in PieceIndices |-> EmptyPiece]
  /\ bitfield = {}
  /\ downloaded = 0
  /\ schedPc = 1
  /\ freeSlots = 0
  /\ completed = FALSE
  /\ stop = FALSE
  /\ seeders = {}
  /\ conn = [p \in Peers |-> "pending"]
  /\ unchoked = [p \in Peers |-> FALSE]
  /\ ka = [p \in Peers |-> FALSE]
  /\ recvs = [p \in Peers |-> 0]
  /\ recvAt = [p \in Peers |-> Nil]
  /\ reqs = [p \in Peers |-> {}]
  /\ chan = [p \in Peers |-> << >>]
  /\ flushes = [i \in PieceIndices |-> 0]
  /\ panicked = FALSE
  /\ faults = 0
  /\ dwg = 1    \* the Add(1) for downloadScheduler, made where it is started

-----------------------------------------------------------------------------
(* downloadScheduler                                                       *)

(* Mutant: peer selection that forgets the remote bitfield check.         *)
EligibleAnyBitfield(i) == {q \in seeders : conn[q] = "established" /\ unchoked[q]}

(* Peers a request for piece i may be sent to, and peers a cancel is sent  *)
(* to: established, unchoking us, and (for a request) having the piece.    *)
CanCancel == {q \in seeders : conn[q] = "established" /\ unchoked[q]}
Eligible(i) == {q \in CanCancel : i \in Has[q]}

(* Request r of piece i is lost: no peer holds it, no buffered or          *)
(* half-processed piece message answers it. Only its timeout recovers it.  *)
Answers(m, r) == m.index = r.index /\ m.begin = r.begin /\ m.length = r.length
Lost(r) ==
  /\ \A q \in Peers : r \notin reqs[q]
  /\ \A q \in Peers : \A n \in DOMAIN chan[q] : ~Answers(chan[q][n], r)
  /\ \A q \in Peers : recvAt[q] # Nil => ~Answers(recvAt[q].msg, r)

(* piece.l of piece i is held by a receive loop verifying it.             *)
Locked(i) ==
  \E q \in Peers : recvAt[q] # Nil /\ recvAt[q].counted /\ recvAt[q].msg.index = i

(* On stop or cancel, the select at the top of the loop exits.             *)
SchedExit ==
  /\ ~panicked
  /\ schedPc = 1 /\ stop
  /\ schedPc' = Exited
  /\ dwg' = dwg - 1
  /\ UNCHANGED <<slots, unverified, pieces, bitfield, downloaded, freeSlots,
                 completed, stop, seeders, peer, flushes, panicked, faults>>

(* Visit slot k under its piece's lock: requeue the unreceived in-flight   *)
(* requests at the indices T whose 15 s timeout expired, cancelling them   *)
(* at every unchoking peer, then send every pending request to a peer      *)
(* chosen among the eligible ones (ch), or keep it pending if none is or   *)
(* if SendRequest fails (ch = Nil with a peer eligible, an environment     *)
(* fault of the connection).                                               *)
SchedSlotT(k, T, ch) ==
  LET i         == slots[k]
      pp        == pieces[i]
      requeued  == [n \in 1 .. Cardinality(T) |-> Pick(pp.inflight, T)[n].req]
      cancelled == {ReqOf(i, requeued[n]) : n \in DOMAIN requeued}
      pending1  == pp.pending \o requeued
      sent      == {n \in DOMAIN pending1 : ch[n] # Nil}
      kept      == Pick(pp.inflight, DOMAIN pp.inflight \ T)
      issued    == [n \in 1 .. Cardinality(sent) |->
                      [req |-> Pick(pending1, sent)[n], received |-> FALSE]]
      premature == {n \in T : ~Lost(ReqOf(i, pp.inflight[n].req))}
      failed    == IF Eligible(i) = {} THEN {} ELSE DOMAIN pending1 \ sent
  IN
  /\ faults + Cardinality(premature) + Cardinality(failed) <= MaxFaults
  /\ faults' = faults + Cardinality(premature) + Cardinality(failed)
  /\ pieces' = [pieces EXCEPT ![i] = [@ EXCEPT
                 !.pending  = Pick(pending1, DOMAIN pending1 \ sent),
                 !.inflight = kept \o issued]]
  /\ reqs' = [q \in Peers |->
               ((IF q \in CanCancel THEN reqs[q] \ cancelled ELSE reqs[q])
                \cup {ReqOf(i, pending1[n]) : n \in {m \in sent : ch[m] = q}})]

(* Mutant: the reaper requeues in-flight requests already received.       *)
TimeoutsAny(k) == SUBSET DOMAIN pieces[slots[k]].inflight

Timeouts(k) ==
  {T \in SUBSET DOMAIN pieces[slots[k]].inflight :
     \A n \in T : ~pieces[slots[k]].inflight[n].received}

DispatchChoices(k, T) ==
  LET i == slots[k]
      n == Len(pieces[i].pending) + Cardinality(T)
  IN  [1 .. n -> Eligible(i) \cup {Nil}]

(* One visit of slot k: a free slot is counted, an occupied one has its   *)
(* timed-out requests T requeued and its pending requests dispatched.      *)
SlotStep(k, T, ch) ==
  /\ ~panicked
  /\ schedPc = k
  /\ k = 1 => ~stop
  /\ IF slots[k] = Nil
     THEN /\ freeSlots' = freeSlots + 1
          /\ UNCHANGED <<dwg, pieces, reqs, faults>>
     ELSE /\ ~Locked(slots[k])
          /\ SchedSlotT(k, T, ch)
          /\ UNCHANGED freeSlots
  /\ schedPc' = k + 1
  /\ UNCHANGED <<dwg, slots, unverified, bitfield, downloaded, completed, stop,
                 seeders, conn, unchoked, ka, recvs, recvAt, chan, flushes,
                 panicked>>

SchedSlot(k) ==
  IF slots[k] = Nil THEN SlotStep(k, {}, << >>)
  ELSE \E T \in Timeouts(k) : \E ch \in DispatchChoices(k, T) : SlotStep(k, T, ch)

(* The in-flight requests of slot k that no peer will ever answer.         *)
LostAt(k) ==
  {n \in DOMAIN pieces[slots[k]].inflight :
     /\ ~pieces[slots[k]].inflight[n].received
     /\ Lost(ReqOf(slots[k], pieces[slots[k]].inflight[n].req))}

(* A visit of slot k that requeues every lost request: once 15 s have     *)
(* passed, the scan of the slot cannot miss it. Used only for fairness.    *)
ReapLost(k) ==
  /\ slots[k] # Nil
  /\ LostAt(k) # {}
  /\ \E T \in Timeouts(k) : \E ch \in DispatchChoices(k, T) :
       LostAt(k) \subseteq T /\ SlotStep(k, T, ch)

(* Mutant: completion declared as soon as the queue is empty, without      *)
(* waiting for the slots to drain.                                         *)
SchedCompleteEarly ==
  /\ ~panicked
  /\ schedPc = NumSlots + 1
  /\ unverified = << >>
  /\ completed' = TRUE
  /\ schedPc' = Exited
  /\ dwg' = dwg - 1
  /\ UNCHANGED <<slots, unverified, pieces, bitfield, downloaded, freeSlots,
                 stop, seeders, peer, flushes, panicked, faults>>

(* No piece is left to admit: finish when every slot was seen free,        *)
(* otherwise go around again.                                              *)
SchedComplete ==
  /\ ~panicked
  /\ schedPc = NumSlots + 1
  /\ unverified = << >>
  /\ freeSlots = NumSlots
  /\ completed' = TRUE
  /\ schedPc' = Exited
  /\ dwg' = dwg - 1
  /\ UNCHANGED <<slots, unverified, pieces, bitfield, downloaded, freeSlots,
                 stop, seeders, peer, flushes, panicked, faults>>

SchedWait ==
  /\ ~panicked
  /\ schedPc = NumSlots + 1
  /\ \/ unverified = << >> /\ freeSlots # NumSlots
     \/ unverified # << >> /\ \A s \in Slots : slots[s] # Nil
  /\ schedPc' = 1
  /\ freeSlots' = 0
  /\ UNCHANGED <<dwg, slots, unverified, pieces, bitfield, downloaded, completed,
                 stop, seeders, peer, flushes, panicked, faults>>

(* Mutant: admission that keeps the freeSlots count of the pass.          *)
SchedAdmitKeepCount ==
  /\ ~panicked
  /\ schedPc = NumSlots + 1
  /\ unverified # << >>
  /\ \E s \in Slots :
       /\ slots[s] = Nil
       /\ \A s2 \in Slots : s2 < s => slots[s2] # Nil
       /\ slots' = [slots EXCEPT ![s] = Head(unverified)]
  /\ pieces' = [pieces EXCEPT ![Head(unverified)] =
                  [EmptyPiece EXCEPT !.pending = Blocks(Head(unverified))]]
  /\ unverified' = Tail(unverified)
  /\ schedPc' = 1
  /\ UNCHANGED <<dwg, freeSlots, bitfield, downloaded, completed, stop, seeders, peer,
                 flushes, panicked, faults>>

(* Claim the first free slot for the next unverified piece with all its    *)
(* block requests pending.                                                 *)
SchedAdmit ==
  /\ ~panicked
  /\ schedPc = NumSlots + 1
  /\ unverified # << >>
  /\ \E s \in Slots :
       /\ slots[s] = Nil
       /\ \A s2 \in Slots : s2 < s => slots[s2] # Nil
       /\ slots' = [slots EXCEPT ![s] = Head(unverified)]
  /\ pieces' = [pieces EXCEPT ![Head(unverified)] =
                  [EmptyPiece EXCEPT !.pending = Blocks(Head(unverified))]]
  /\ unverified' = Tail(unverified)
  /\ schedPc' = 1
  /\ freeSlots' = 0
  /\ UNCHANGED <<dwg, bitfield, downloaded, completed, stop, seeders, peer,
                 flushes, panicked, faults>>

downloadScheduler ==
  \/ SchedExit
  \/ \E k \in Slots : SchedSlot(k)
  \/ SchedComplete
  \/ SchedWait
  \/ SchedAdmit

-----------------------------------------------------------------------------
(* recvPieces(p)                                                           *)

(* Take the next piece message and find, without any lock, the slot whose *)
(* piece it belongs to; a message for no slot is dropped.                  *)
RecvFind(p) ==
  /\ ~panicked
  /\ recvs[p] > 0 /\ recvAt[p] = Nil /\ chan[p] # << >>
  /\ LET m     == Head(chan[p])
         found == {s \in Slots : slots[s] # Nil /\ slots[s] = m.index}
     IN  recvAt' = [recvAt EXCEPT ![p] =
                      IF found = {} THEN Nil
                      ELSE [msg |-> m, slot |-> Min(found), counted |-> FALSE]]
  /\ chan' = [chan EXCEPT ![p] = Tail(@)]
  /\ UNCHANGED <<dwg, sched, stop, seeders, conn, unchoked, ka, recvs, reqs,
                 flushes, panicked, faults>>

(* The channel is closed and drained once the connection is gone.          *)
RecvExit(p) ==
  /\ ~panicked
  /\ recvs[p] > 0 /\ recvAt[p] = Nil /\ chan[p] = << >>
  /\ conn[p] # "established"
  /\ recvs' = [recvs EXCEPT ![p] = @ - 1]
  /\ dwg' = dwg - 1
  /\ UNCHANGED <<sched, stop, seeders, conn, unchoked, ka, recvAt, reqs, chan,
                 flushes, panicked, faults>>

(* What recvPieces(p) sees once it holds the lock of the piece it found.   *)
RMsg(p)   == recvAt[p].msg
RPiece(p) == pieces[RMsg(p).index]
RBlock(p) == [begin |-> RMsg(p).begin, length |-> RMsg(p).length]
RInFlight(p) == SelectInSeq(RPiece(p).inflight, LAMBDA e : e.req = RBlock(p))
(* Mutant: no duplicate check against the received blocks.               *)
RDuplicateNone(p) == FALSE
RDuplicate(p) ==
  \E n \in DOMAIN RPiece(p).received :
    RPiece(p).received[n].begin = RMsg(p).begin /\
    RPiece(p).received[n].length = RMsg(p).length
RDownloaded(p) == RPiece(p).downloaded + RMsg(p).length
(* recvPieces(p) has found a slot and takes piece.l, which no other        *)
(* receive loop holds.                                                     *)
RLock(p) == recvAt[p] # Nil /\ ~recvAt[p].counted /\ ~Locked(RMsg(p).index)
(* recvPieces(p) holds piece.l after counting the piece's last block.      *)
Verifying(p) == recvAt[p] # Nil /\ recvAt[p].counted
(* The piece after the block is accepted.                                  *)
RAccepted(p) ==
  [RPiece(p) EXCEPT
     !.downloaded = RDownloaded(p),
     !.received   = Append(@, [begin |-> RMsg(p).begin,
                               length |-> RMsg(p).length, good |-> RMsg(p).good]),
     !.inflight[RInFlight(p)].received = TRUE]

(* Mutant: the digest comparison is skipped.                              *)
HashMatchesSkipped(i, received) == TRUE

(* The SHA-1 of the received blocks sorted by begin and concatenated       *)
(* matches the piece hash iff they tile the piece with its true content.   *)
HashMatches(i, received) ==
  LET sorted == SortSeq(received, LAMBDA a, b : a.begin < b.begin)
  IN  /\ [n \in DOMAIN sorted |-> [begin |-> sorted[n].begin,
                                   length |-> sorted[n].length]] = Blocks(i)
      /\ \A n \in DOMAIN sorted : sorted[n].good

(* A block for no in-flight request, or one already received, is dropped.  *)
RecvDiscard(p) ==
  /\ ~panicked
  /\ RLock(p)
  /\ RInFlight(p) = 0 \/ RDuplicate(p)
  /\ recvAt' = [recvAt EXCEPT ![p] = Nil]
  /\ UNCHANGED <<dwg, sched, stop, seeders, conn, unchoked, ka, recvs, reqs, chan,
                 flushes, panicked, faults>>

(* Mutant: t.Downloaded added to before the size check.                  *)
RecvOverflowCounted(p) ==
  /\ ~panicked
  /\ RLock(p)
  /\ RInFlight(p) # 0 /\ ~RDuplicate(p)
  /\ RDownloaded(p) > PieceSize(RMsg(p).index)
  /\ panicked' = TRUE
  /\ downloaded' = downloaded + RMsg(p).length
  /\ UNCHANGED <<dwg, slots, unverified, pieces, bitfield, schedPc, freeSlots,
                 completed, stop, seeders, peer, flushes, faults>>

(* More data than the piece size: panic.                                   *)
RecvOverflow(p) ==
  /\ ~panicked
  /\ RLock(p)
  /\ RInFlight(p) # 0 /\ ~RDuplicate(p)
  /\ RDownloaded(p) > PieceSize(RMsg(p).index)
  /\ panicked' = TRUE
  /\ UNCHANGED <<dwg, sched, stop, seeders, peer, flushes, faults>>

(* The block is accepted: counted, appended, its request marked received.  *)
Accept(p) ==
  /\ ~panicked
  /\ RLock(p)
  /\ RInFlight(p) # 0 /\ ~RDuplicate(p)
  /\ RDownloaded(p) <= PieceSize(RMsg(p).index)
  /\ downloaded' = downloaded + RMsg(p).length

RecvAccept(p) ==
  /\ Accept(p)
  /\ RDownloaded(p) < PieceSize(RMsg(p).index)
  /\ pieces' = [pieces EXCEPT ![RMsg(p).index] = RAccepted(p)]
  /\ recvAt' = [recvAt EXCEPT ![p] = Nil]
  /\ UNCHANGED <<dwg, slots, unverified, bitfield, schedPc, freeSlots, completed,
                 stop, seeders, conn, unchoked, ka, recvs, reqs, chan, flushes,
                 panicked, faults>>

(* Retry the piece in its slot: every in-flight request becomes pending    *)
(* again and the received blocks are dropped; pending requests left over   *)
(* are a malformed state and panic. piece.Downloaded is left as it is.     *)
RetryPiece(i, pp) ==
  /\ panicked' = (pp.pending # << >>)
  /\ pieces' = [pieces EXCEPT ![i] =
                  IF pp.pending # << >> THEN pp
                  ELSE [pp EXCEPT !.pending  = [n \in DOMAIN pp.inflight |-> pp.inflight[n].req],
                                  !.inflight = << >>,
                                  !.received = << >>]]

(* The block completes the piece: it is counted in t.Downloaded (589),    *)
(* appended, and the blocks are sorted, concatenated and hashed, all under *)
(* piece.l, which recvPieces keeps until the outcome below. t.Downloaded   *)
(* is read without that lock by WaitFor, the announce loop and            *)
(* UpdateSeeders, so they see this count before the flush and the bit.     *)
RecvCount(p) ==
  /\ Accept(p)
  /\ RDownloaded(p) = PieceSize(RMsg(p).index)
  /\ pieces' = [pieces EXCEPT ![RMsg(p).index] = RAccepted(p)]
  /\ recvAt' = [recvAt EXCEPT ![p].counted = TRUE]
  /\ UNCHANGED <<dwg, slots, unverified, bitfield, schedPc, freeSlots, completed,
                 stop, seeders, conn, unchoked, ka, recvs, reqs, chan, flushes,
                 panicked, faults>>

(* The hash does not match: close the peer that sent the last block and    *)
(* retry the piece; release the lock.                                      *)
RecvHashMismatch(p) ==
  /\ ~panicked
  /\ Verifying(p)
  /\ ~HashMatches(RMsg(p).index, RPiece(p).received)
  /\ RetryPiece(RMsg(p).index, RPiece(p))
  /\ conn' = [conn EXCEPT ![p] = "killed"]
  /\ reqs' = [reqs EXCEPT ![p] = {}]
  /\ recvAt' = [recvAt EXCEPT ![p] = Nil]
  /\ UNCHANGED <<dwg, slots, unverified, bitfield, downloaded, schedPc, freeSlots,
                 completed, stop, seeders, unchoked, ka, recvs, chan, flushes,
                 faults>>

(* The hash matches but t.Flush fails: retry the piece; release the lock.  *)
RecvFlushFailed(p) ==
  /\ FlushMayFail
  /\ ~panicked
  /\ Verifying(p)
  /\ HashMatches(RMsg(p).index, RPiece(p).received)
  /\ RetryPiece(RMsg(p).index, RPiece(p))
  /\ recvAt' = [recvAt EXCEPT ![p] = Nil]
  /\ UNCHANGED <<dwg, slots, unverified, bitfield, downloaded, schedPc, freeSlots,
                 completed, stop, seeders, conn, unchoked, ka, recvs, reqs, chan,
                 flushes, faults>>

(* The hash matches and t.Flush succeeds: set the bit, broadcast HAVE,     *)
(* compare-and-swap the slot to free and release the lock. Between the     *)
(* bit and the CAS only lock-free readers of the slot table could look,    *)
(* and they then block on piece.l, so these are one step.                  *)
RecvVerified(p) ==
  LET i == RMsg(p).index
      s == recvAt[p].slot
  IN
  /\ ~panicked
  /\ Verifying(p)
  /\ HashMatches(i, RPiece(p).received)
  /\ bitfield' = bitfield \cup {i}
  /\ flushes' = [flushes EXCEPT ![i] = @ + 1]
  /\ slots' = IF slots[s] = i THEN [slots EXCEPT ![s] = Nil] ELSE slots
  /\ recvAt' = [recvAt EXCEPT ![p] = Nil]
  /\ UNCHANGED <<dwg, unverified, pieces, downloaded, schedPc, freeSlots,
                 completed, stop, seeders, conn, unchoked, ka, recvs, reqs, chan,
                 panicked, faults>>

recvPieces(p) ==
  \/ RecvFind(p) \/ RecvExit(p) \/ RecvDiscard(p) \/ RecvOverflow(p)
  \/ RecvAccept(p) \/ RecvCount(p) \/ RecvHashMismatch(p)
  \/ RecvFlushFailed(p) \/ RecvVerified(p)

-----------------------------------------------------------------------------
(* keepAliveSeeders(p) and UpdateSeeders                                   *)

(* Mutant: keepAliveSeeders returns on stop without closing the peer.     *)
KAStopNoClose(p) ==
  /\ ~panicked
  /\ ka[p] /\ (stop \/ completed)
  /\ ka' = [ka EXCEPT ![p] = FALSE]
  /\ dwg' = dwg - 1
  /\ UNCHANGED <<sched, stop, seeders, conn, unchoked, recvs, recvAt, reqs, chan,
                 flushes, panicked, faults>>

(* On stop, cancel or completion: close the peer and exit.                 *)
KAStop(p) ==
  /\ ~panicked
  /\ ka[p] /\ (stop \/ completed)
  /\ ka' = [ka EXCEPT ![p] = FALSE]
  /\ dwg' = dwg - 1
  /\ conn' = [conn EXCEPT ![p] = "killed"]
  /\ reqs' = [reqs EXCEPT ![p] = {}]
  /\ UNCHANGED <<sched, stop, seeders, unchoked, recvs, recvAt, chan,
                 flushes, panicked, faults>>

(* A refresh tick on a pending or killed peer: connect and handshake,      *)
(* send our bitfield and interested, and start recvPieces(p). The peer     *)
(* starts choking us.                                                      *)
KAConnect(p) ==
  /\ ~panicked
  /\ ka[p] /\ conn[p] \in {"pending", "killed"}
  /\ conn' = [conn EXCEPT ![p] = "established"]
  /\ unchoked' = [unchoked EXCEPT ![p] = FALSE]
  /\ recvs' = [recvs EXCEPT ![p] = @ + 1]
  /\ dwg' = dwg + 1
  /\ UNCHANGED <<sched, stop, seeders, ka, recvAt, reqs, chan, flushes,
                 panicked, faults>>

(* The handshake fails: the peer is closed.                                *)
KAHandshakeFail(p) ==
  /\ ~panicked
  /\ ka[p] /\ conn[p] = "pending"
  /\ faults < MaxFaults
  /\ faults' = faults + 1
  /\ conn' = [conn EXCEPT ![p] = "killed"]
  /\ UNCHANGED <<dwg, sched, stop, seeders, unchoked, ka, recvs, recvAt, reqs, chan,
                 flushes, panicked>>

keepAliveSeeders(p) == KAStop(p) \/ KAConnect(p) \/ KAHandshakeFail(p)

(* The peers R of a tracker response: unknown addresses get a seeder and   *)
(* a keepAliveSeeders goroutine, each with its wg.Add(1); nothing happens *)
(* once all is downloaded.                                                 *)
UpdateSeeders(R) ==
  /\ ~panicked
  /\ downloaded # TotalLength
  /\ R \ seeders # {}
  /\ seeders' = seeders \cup R
  /\ ka' = [q \in Peers |-> ka[q] \/ q \in R \ seeders]
  /\ dwg' = dwg + Cardinality(R \ seeders)
  /\ UNCHANGED <<sched, stop, conn, unchoked, recvs, recvAt, reqs, chan,
                 flushes, panicked, faults>>

-----------------------------------------------------------------------------
(* Environment: the remote peers, their connections and the host.          *)

(* t.stop or t.download.cancel is closed.                                  *)
Stop ==
  /\ ~panicked
  /\ ~stop
  /\ stop' = TRUE
  /\ UNCHANGED <<dwg, sched, seeders, peer, flushes, panicked, faults>>

PeerUnchoke(p) ==
  /\ ~panicked
  /\ conn[p] = "established" /\ ~unchoked[p]
  /\ unchoked' = [unchoked EXCEPT ![p] = TRUE]
  /\ UNCHANGED <<dwg, sched, stop, seeders, conn, ka, recvs, recvAt, reqs, chan,
                 flushes, panicked, faults>>

(* A choking peer discards the requests it holds.                          *)
PeerChoke(p) ==
  /\ ~panicked
  /\ conn[p] = "established" /\ unchoked[p]
  /\ faults < MaxFaults
  /\ faults' = faults + 1
  /\ unchoked' = [unchoked EXCEPT ![p] = FALSE]
  /\ reqs' = [reqs EXCEPT ![p] = {}]
  /\ UNCHANGED <<dwg, sched, stop, seeders, conn, ka, recvs, recvAt, chan,
                 flushes, panicked>>

(* The peer answers a request for a piece it has; a corrupt peer's data    *)
(* is wrong. With dup, it will answer the same request again.              *)
Serve(p, r, dup) ==
  /\ conn[p] = "established"
  /\ r \in reqs[p] /\ r.index \in Has[p]
  /\ Len(chan[p]) < MaxChan
  /\ chan' = [chan EXCEPT ![p] = Append(@, [index |-> r.index, begin |-> r.begin,
                                          length |-> r.length, good |-> p \notin Corrupt])]
  /\ reqs' = IF dup THEN reqs ELSE [reqs EXCEPT ![p] = @ \ {r}]

PeerServe(p) ==
  /\ ~panicked
  /\ \E r \in reqs[p] : Serve(p, r, FALSE)
  /\ UNCHANGED <<dwg, sched, stop, seeders, conn, unchoked, ka, recvs, recvAt,
                 flushes, panicked, faults>>

PeerServeTwice(p) ==
  /\ ~panicked
  /\ faults < MaxFaults
  /\ faults' = faults + 1
  /\ \E r \in reqs[p] : Serve(p, r, TRUE)
  /\ UNCHANGED <<dwg, sched, stop, seeders, conn, unchoked, ka, recvs, recvAt,
                 flushes, panicked>>

(* The connection breaks: the peer is killed, its requests are lost; the   *)
(* pieces already in its channel are still delivered.                      *)
PeerDrop(p) ==
  /\ ~panicked
  /\ conn[p] = "established"
  /\ faults < MaxFaults
  /\ faults' = faults + 1
  /\ conn' = [conn EXCEPT ![p] = "killed"]
  /\ reqs' = [reqs EXCEPT ![p] = {}]
  /\ UNCHANGED <<dwg, sched, stop, seeders, unchoked, ka, recvs, recvAt, chan,
                 flushes, panicked>>

-----------------------------------------------------------------------------

(* Every goroutine of the download has returned.                           *)
Terminated ==
  /\ schedPc = Exited
  /\ \A p \in Peers : ~ka[p] /\ recvs[p] = 0 /\ recvAt[p] = Nil

Done == Terminated /\ UNCHANGED vars

(* A panic aborts the process: nothing moves afterwards.                   *)
Aborted == panicked /\ UNCHANGED vars

Next ==
  \/ Aborted
  \/ Done
  \/ SchedExit \/ SchedComplete \/ SchedWait \/ SchedAdmit
  \/ \E k \in Slots : SchedSlot(k)
  \/ \E p \in Peers :
       \/ RecvFind(p) \/ RecvExit(p) \/ RecvDiscard(p)
       \/ RecvOverflow(p) \/ RecvAccept(p) \/ RecvCount(p)
       \/ RecvHashMismatch(p) \/ RecvFlushFailed(p)
       \/ RecvVerified(p)
       \/ KAStop(p) \/ KAConnect(p) \/ KAHandshakeFail(p)
       \/ PeerUnchoke(p) \/ PeerChoke(p) \/ PeerServe(p)
       \/ PeerServeTwice(p) \/ PeerDrop(p)
  \/ \E R \in SUBSET Peers : UpdateSeeders(R)
  \/ Stop

(* The goroutines are scheduled fairly; a request that is never answered   *)
(* is eventually requeued by its timeout; the tracker eventually returns   *)
(* the swarm; remote seeders answer requests and unchoke interested peers. *)
Fairness ==
  /\ WF_vars(downloadScheduler)
  /\ \A k \in Slots : SF_vars(ReapLost(k))
  /\ \A p \in Peers :
       /\ WF_vars(recvPieces(p))
       /\ WF_vars(KAStop(p) \/ KAConnect(p))
       /\ WF_vars(PeerServe(p))
       /\ WF_vars(PeerUnchoke(p))
  /\ WF_vars(UpdateSeeders(Peers))

Spec == Init /\ [][Next]_vars /\ Fairness

-----------------------------------------------------------------------------
(* Properties                                                              *)

TypeOK ==
  /\ slots \in [Slots -> PieceIndices \cup {Nil}]
  /\ unverified \in Seq(PieceIndices)
  /\ \A i \in PieceIndices :
       /\ pieces[i].pending \in Seq(Block)
       /\ pieces[i].inflight \in Seq([req : Block, received : BOOLEAN])
       /\ pieces[i].received \in Seq([begin : 0 .. PieceLength,
                                      length : 1 .. RequestSize, good : BOOLEAN])
       /\ pieces[i].downloaded \in Nat
  /\ bitfield \subseteq PieceIndices
  /\ downloaded \in Nat
  /\ schedPc \in Slots \cup {NumSlots + 1, Exited}
  /\ freeSlots \in 0 .. NumSlots
  /\ seeders \subseteq Peers
  /\ conn \in [Peers -> {"pending", "established", "killed"}]
  /\ recvAt \in [Peers -> {Nil} \cup [msg : PieceMsg, slot : Slots,
                                       counted : BOOLEAN]]
  /\ reqs \in [Peers -> SUBSET Request]
  /\ chan \in [Peers -> Seq(PieceMsg)]
  /\ faults \in 0 .. MaxFaults
  /\ recvs \in [Peers -> Nat]
  /\ dwg \in Nat      \* wg.Done below zero panics

(* The process never aborts: recvPieces never finds more data than the     *)
(* piece size, nor pending requests when it retries a piece.               *)
NoAbort == ~panicked

(* For every piece in a slot, under its lock: the pending and in-flight    *)
(* requests are its block split, each exactly once; the received blocks   *)
(* are the in-flight requests marked received; piece.Downloaded is the    *)
(* sum of their lengths; and t.Downloaded is the sum over all pieces.      *)
SumLengths(s) == FoldLeft(LAMBDA acc, r : acc + r.length, 0, s)
BlockAccounting ==
  /\ \A s \in Slots : slots[s] # Nil =>
       LET i  == slots[s]
           pp == pieces[i]
           fl == [n \in DOMAIN pp.inflight |-> pp.inflight[n].req]
       IN  /\ ToBag(pp.pending \o fl) = ToBag(Blocks(i))
           /\ {[begin |-> r.begin, length |-> r.length] : r \in ToSet(pp.received)}
                = {e.req : e \in {e \in ToSet(pp.inflight) : e.received}}
           /\ pp.downloaded = SumLengths(pp.received)
  /\ downloaded = SumFunction([i \in PieceIndices |-> pieces[i].downloaded])

(* Every piece is in exactly one place: the scheduler's unverified queue,  *)
(* one slot, or the bitfield; a verified piece was flushed exactly once,   *)
(* with blocks that tile it with their true content, whichever peers sent  *)
(* them.                                                                   *)
PieceLifecycle ==
  \A i \in PieceIndices :
    LET queued  == {n \in DOMAIN unverified : unverified[n] = i}
        inSlots == {s \in Slots : slots[s] = i}
    IN  /\ Cardinality(queued) + Cardinality(inSlots)
             + (IF i \in bitfield THEN 1 ELSE 0) = 1
        /\ flushes[i] = (IF i \in bitfield THEN 1 ELSE 0)
        /\ i \in bitfield =>
             /\ SumLengths(pieces[i].received) = PieceSize(i)
             /\ \A n \in DOMAIN pieces[i].received : pieces[i].received[n].good

(* t.Downloaded is added to under piece.l (589) but read without it by    *)
(* WaitFor (117), the announce loop (261) and UpdateSeeders (321), so they *)
(* can see the length reached before the last pieces are flushed (635)     *)
(* and set in t.BitField (655). The gap is only local work: whenever the   *)
(* counter equals the length, every piece missing from the bitfield is     *)
(* held by a receive loop that has counted its last block, and its blocks  *)
(* tile it with true content, so its hash check cannot fail and nothing    *)
(* more is needed from a peer. A duplicate counted twice, or a timed-out   *)
(* request answered twice, would instead let the counter reach the length  *)
(* with a piece that must be downloaded again.                             *)
CountedAheadOnlyWhileVerifying ==
  downloaded = TotalLength =>
    \A i \in PieceIndices \ bitfield :
      /\ \E p \in Peers : Verifying(p) /\ RMsg(p).index = i
      /\ HashMatches(i, pieces[i].received)

(* What Client assumes of t.Downloaded (its Progress action): it never    *)
(* decreases and never passes the torrent's length. WaitFor (line 117) and *)
(* the announce loop (line 261) compare it with == to BytesToDownload, so  *)
(* a counter that overshot would keep them waiting and announcing without  *)
(* event forever. Holds across retries and panics: the size check comes    *)
(* before t.Downloaded.Add.                                                *)
ProgressAsClientAssumes ==
  [][downloaded <= downloaded' /\ downloaded' <= TotalLength]_downloaded

(* The Scheduler implements the download of the specification: a piece   *)
(* is stored when its bit is set in t.BitField, with its true content when *)
(* its received blocks tile it and are all good; completion is closing     *)
(* t.download.completed and stopping is closing t.stop or cancel. Every    *)
(* step of recvPieces, the scheduler and the peers is then a step of       *)
(* Download or leaves all three unchanged: no bit is ever cleared, a       *)
(* stored piece's content never changes, and completion waits for every    *)
(* piece.                                                                  *)
StoredContent(i) ==
  IF i \notin bitfield THEN "missing"
  ELSE IF /\ SumLengths(pieces[i].received) = PieceSize(i)
          /\ \A n \in DOMAIN pieces[i].received : pieces[i].received[n].good
       THEN "good" ELSE "bad"
Abstract == INSTANCE Download WITH Pieces <- PieceIndices,
              store <- [i \in PieceIndices |-> StoredContent(i)],
              completed <- completed, stopped <- stop
DownloadRefines == Abstract!Spec

(* Liveness: with honest peers that eventually serve, the download is      *)
(* eventually completed, unless it is stopped first.                       *)
DownloadCompletes == <>(completed \/ stop)

(* Liveness: after stop, cancel or completion, every goroutine of the      *)
(* download (scheduler, keep-alive and receive loops) eventually returns,  *)
(* each with its wg.Done, so the wg.Wait of CancelDownload returns.        *)
Quiescence == (stop \/ completed) ~> (Terminated /\ dwg = 0)

=============================================================================
