------------------------------- MODULE Client -------------------------------
(***************************************************************************)
(* The Client of client.go (src/bencoding/bencoding_test.go, lines        *)
(* 17-298): WorkOn registers a torrent and hands its hash to the watch    *)
(* goroutine over the unbuffered channel handler; watch starts one        *)
(* downloadTorrent goroutine per hash, which runs the announce loop; each *)
(* WaitFor starts a goroutine polling the torrent's downloaded counter;   *)
(* Close closes done.                                                     *)
(*                                                                         *)
(* Goroutines are the callers of WorkOn (one call each), the downloaders  *)
(* they cause (indexed by the caller), the waiters and watch. wg is the   *)
(* value of the client's sync.WaitGroup counter. A tracker announce is a  *)
(* call whose outcome is chosen from the kinds CreateRequest returns. The *)
(* download itself (package status) is an environment that raises        *)
(* downloaded while a downloader has handed peers to it.                  *)
(***************************************************************************)
EXTENDS Naturals, FiniteSets

CONSTANTS
  Callers,    \* goroutines calling WorkOn, once each
  Waiters,    \* goroutines calling WaitFor, once each
  Hash,       \* Hash[c]: the info hash caller c passes to WorkOn
  WaitHash,   \* WaitHash[w]: the id waiter w passes to WaitFor
  Total,      \* BytesToDownload(), in units of downloaded progress
  NoTracker,  \* no status.Tracker stored under a hash
  ZeroInterval \* whether a tracker may answer an interval <= 0

Hashes == {Hash[c] : c \in Callers} \cup {WaitHash[w] : w \in Waiters}

(* The outcomes of the first CreateRequest (lines 165-185): a transport,  *)
(* status or decode error, a failure reason (also an error), or a         *)
(* response without an interval, with a positive one, or (a value the    *)
(* decoder accepts as any integer) with one of zero or less.              *)
StartOutcomes == {"transient", "failure", "nointerval", "ok"}
                   \cup (IF ZeroInterval THEN {"nonpositive"} ELSE {})

VARIABLES
  done,        \* p.done closed (Close)
  ctx,         \* watch's context cancelled
  stored,      \* stored[h]: whose status.Tracker p.torrentsDownloading holds for h
  wg,          \* p.wg counter
  watchPc,     \* "loop" selecting, or "wait" in p.wg.Wait()
  caller,      \* caller[c]: where WorkOn of c is
  dl,          \* dl[c]: the downloadTorrent started for c's hash
  downloaded,  \* downloaded[c]: t.Downloaded of the status.Tracker c created
  waiter       \* waiter[w]: where WaitFor's goroutine of w is

vars == <<done, ctx, stored, wg, watchPc, caller, dl, downloaded, waiter>>

(* The hashes p.torrentsDownloading has a key for.                         *)
Tracked == {h \in Hashes : stored[h] # NoTracker}

(* pc of a downloader: "none" (not started), "start" (first announce      *)
(* loop), "loop" (update loop), "exited", "panicked"; t is the creator of the status.  *)
(* Tracker watch loaded for it; ev is the event of the last announce it sent ("" before any), last the outcome of the last one,     *)
(* wgDone whether it called c.wg.Done().                                   *)
NoDownloader == [pc |-> "none", t |-> NoTracker, ev |-> "", last |-> "", wgDone |-> FALSE]

Init ==
  /\ done = FALSE
  /\ ctx = FALSE
  /\ stored = [h \in Hashes |-> NoTracker]
  /\ wg = 1                        \* New: p.wg.Add(1) for watch
  /\ watchPc = "loop"
  /\ caller = [c \in Callers |-> "idle"]
  /\ dl = [c \in Callers |-> NoDownloader]
  /\ downloaded = [c \in Callers |-> 0]
  /\ waiter = [w \in Waiters |-> "idle"]

-----------------------------------------------------------------------------
(* Close: close(p.done).                                                   *)
Close ==
  /\ ~done
  /\ done' = TRUE
  /\ UNCHANGED <<ctx, stored, wg, watchPc, caller, dl, downloaded, waiter>>

(* WorkOn, the Load check: an already tracked hash is an error.            *)
WorkOnLoad(c) ==
  /\ caller[c] = "idle"
  /\ caller' = [caller EXCEPT ![c] = IF Hash[c] \in Tracked THEN "error" ELSE "checked"]
  /\ UNCHANGED <<done, ctx, stored, wg, watchPc, dl, downloaded, waiter>>

(* WorkOn, the Store of a new status.Tracker (replacing one stored since   *)
(* the check), then blocking on handler.                                   *)
WorkOnStore(c) ==
  /\ caller[c] = "checked"
  /\ stored' = [stored EXCEPT ![Hash[c]] = c]
  /\ caller' = [caller EXCEPT ![c] = "sending"]
  /\ UNCHANGED <<done, ctx, wg, watchPc, dl, downloaded, waiter>>

(* Mutant: wg.Add(1) left out.                                            *)
WatchReceiveNoAdd(c) ==
  /\ watchPc = "loop"
  /\ caller[c] = "sending"
  /\ caller' = [caller EXCEPT ![c] = "returned"]
  /\ dl' = [dl EXCEPT ![c].pc = "start", ![c].t = stored[Hash[c]]]
  /\ UNCHANGED <<done, ctx, stored, wg, watchPc, downloaded, waiter>>

(* watch receives the hash from handler (WorkOn returns), loads the       *)
(* tracker stored under it, adds to wg and starts downloadTorrent.         *)
WatchReceive(c) ==
  /\ watchPc = "loop"
  /\ caller[c] = "sending"
  /\ caller' = [caller EXCEPT ![c] = "returned"]
  /\ wg' = wg + 1
  /\ dl' = [dl EXCEPT ![c].pc = "start", ![c].t = stored[Hash[c]]]
  /\ UNCHANGED <<done, ctx, stored, watchPc, downloaded, waiter>>

(* watch sees done: cancel() and block in p.wg.Wait(), which returns only *)
(* when wg is 0; watch's own count is released only by its deferred Done. *)
WatchDone ==
  /\ watchPc = "loop"
  /\ done
  /\ ctx' = TRUE
  /\ watchPc' = "wait"
  /\ UNCHANGED <<done, stored, wg, caller, dl, downloaded, waiter>>

-----------------------------------------------------------------------------
(* downloadTorrent.                                                        *)

(* The first announce loop sees ctx.Done(): c.wg.Done() and return.       *)
DlCancelledStart(c) ==
  /\ dl[c].pc = "start"
  /\ ctx
  /\ dl' = [dl EXCEPT ![c].pc = "exited", ![c].wgDone = TRUE]
  /\ wg' = wg - 1
  /\ UNCHANGED <<done, ctx, stored, watchPc, caller, downloaded, waiter>>

(* The first announce (event started) with outcome r: on an error sleep   *)
(* and retry; without an interval c.wg.Done() and return; otherwise       *)
(* UpdatePeers(start) and time.NewTicker(interval seconds), which panics   *)
(* on an interval of zero or less, and enter the update loop.              *)
DlAnnounceStart(c, r) ==
  /\ dl[c].pc = "start"
  /\ ~ctx
  /\ dl' = [dl EXCEPT
              ![c].ev = "started", ![c].last = r,
              ![c].pc = CASE r \in {"transient", "failure"} -> "start"
                          [] r = "nointerval"               -> "exited"
                          [] r = "ok"                       -> "loop"
                          [] r = "nonpositive"              -> "panicked",
              ![c].wgDone = (r = "nointerval")]
  /\ wg' = IF r = "nointerval" THEN wg - 1 ELSE wg
  /\ UNCHANGED <<done, ctx, stored, watchPc, caller, downloaded, waiter>>

(* Mutant: the stop branch ending in break (which leaves only the select) *)
(* instead of c.wg.Done() and return.                                       *)
DlStopNoReturn(c) ==
  /\ dl[c].pc = "loop"
  /\ ctx
  /\ dl' = [dl EXCEPT ![c].ev = "stopped"]
  /\ UNCHANGED <<done, ctx, stored, wg, watchPc, caller, downloaded, waiter>>

(* The update loop sees ctx.Done(): announce stopped (its error is only   *)
(* logged), t.Close(), c.wg.Done() and return.                             *)
DlStop(c) ==
  /\ dl[c].pc = "loop"
  /\ ctx
  /\ dl' = [dl EXCEPT ![c].pc = "exited", ![c].ev = "stopped", ![c].wgDone = TRUE]
  /\ wg' = wg - 1
  /\ UNCHANGED <<done, ctx, stored, watchPc, caller, downloaded, waiter>>

(* Mutant: completion tested as more than nothing left.                   *)
DlTickNeverComplete(c, r) ==
  /\ dl[c].pc = "loop"
  /\ LET completed == downloaded[dl[c].t] > Total IN
     dl' = [dl EXCEPT ![c].ev = IF completed THEN "completed" ELSE "none",
                      ![c].last = r,
                      ![c].pc = IF completed THEN "exited" ELSE "loop"]
  /\ UNCHANGED <<done, ctx, stored, wg, watchPc, caller, downloaded, waiter>>

(* A tick: announce with event completed when nothing is left, with no    *)
(* event otherwise. On completion return (without c.wg.Done()); otherwise *)
(* UpdatePeers(update), update being nil when the announce failed.        *)
DlTick(c, r) ==
  /\ dl[c].pc = "loop"
  /\ LET completed == downloaded[dl[c].t] = Total IN
     dl' = [dl EXCEPT ![c].ev = IF completed THEN "completed" ELSE "none",
                      ![c].last = r,
                      ![c].pc = IF completed THEN "exited" ELSE "loop"]
  /\ UNCHANGED <<done, ctx, stored, wg, watchPc, caller, downloaded, waiter>>

-----------------------------------------------------------------------------
(* WaitFor: p.wg.Add(1) and start the polling goroutine.                   *)
WaitForCall(w) ==
  /\ waiter[w] = "idle"
  /\ waiter' = [waiter EXCEPT ![w] = "polling"]
  /\ wg' = wg + 1
  /\ UNCHANGED <<done, ctx, stored, watchPc, caller, dl, downloaded>>

(* One poll: done closed sends the shutdown error; an unknown id the not- *)
(* found error; a complete torrent returns; otherwise it sleeps and polls *)
(* again (no state change). Each return calls p.wg.Done().                *)
WaitPoll(w) ==
  /\ waiter[w] = "polling"
  /\ LET h == WaitHash[w] IN
     \/ done /\ waiter' = [waiter EXCEPT ![w] = "shutdown"]
     \/ ~done /\ h \notin Tracked /\ waiter' = [waiter EXCEPT ![w] = "notfound"]
     \/ ~done /\ h \in Tracked /\ downloaded[stored[h]] = Total
        /\ waiter' = [waiter EXCEPT ![w] = "complete"]
  /\ wg' = wg - 1
  /\ UNCHANGED <<done, ctx, stored, watchPc, caller, dl, downloaded>>

(* Mutant: progress past the torrent's length.                           *)
ProgressUnbounded(t) ==
  /\ downloaded[t] < Total + 1
  /\ \E c \in Callers : dl[c].t = t /\ dl[c].pc = "loop"
  /\ downloaded' = [downloaded EXCEPT ![t] = @ + 1]
  /\ UNCHANGED <<done, ctx, stored, wg, watchPc, caller, dl, waiter>>

(* The download engine of the tracker t adds received bytes to            *)
(* t.Downloaded while a downloader has handed it peers and not closed it.  *)
Progress(t) ==
  /\ downloaded[t] < Total
  /\ \E c \in Callers : dl[c].t = t /\ dl[c].pc = "loop"
  /\ downloaded' = [downloaded EXCEPT ![t] = @ + 1]
  /\ UNCHANGED <<done, ctx, stored, wg, watchPc, caller, dl, waiter>>

(* A panic in any goroutine aborts the process: nothing moves afterwards. *)
Crashed == \E c \in Callers : dl[c].pc = "panicked"

Next ==
  /\ ~Crashed
  /\ \/ Close
     \/ WatchDone
     \/ \E c \in Callers :
          \/ WorkOnLoad(c) \/ WorkOnStore(c) \/ WatchReceive(c)
          \/ DlCancelledStart(c) \/ DlStop(c)
          \/ \E r \in StartOutcomes : DlAnnounceStart(c, r)
          \/ \E r \in {"err", "ok"} : DlTick(c, r)
     \/ \E w \in Waiters : WaitForCall(w) \/ WaitPoll(w)
     \/ \E t \in Callers : Progress(t)

Spec == Init /\ [][Next]_vars

(* Every goroutine keeps running: watch's select, the downloaders' loops  *)
(* (the ticker fires again and again), the waiters' polls and the WorkOn  *)
(* calls under way. Close, WaitFor calls, the tracker's answers and the   *)
(* download's progress get no fairness.                                   *)
Fairness ==
  /\ WF_vars(WatchDone)
  /\ \A c \in Callers :
       /\ WF_vars(WorkOnLoad(c)) /\ WF_vars(WorkOnStore(c)) /\ WF_vars(WatchReceive(c))
       /\ WF_vars(DlCancelledStart(c)) /\ WF_vars(DlStop(c))
       /\ WF_vars(\E r \in StartOutcomes : DlAnnounceStart(c, r))
       /\ WF_vars(\E r \in {"err", "ok"} : DlTick(c, r))
  /\ \A w \in Waiters : WF_vars(WaitPoll(w))

LiveSpec == Spec /\ Fairness

-----------------------------------------------------------------------------
(* Properties                                                              *)

(* The goroutines counted in p.wg that have not returned: watch, the       *)
(* downloaders and the waiters.                                             *)
Running ==
  1 + Cardinality({c \in Callers : dl[c].pc \in {"start", "loop"}})
    + Cardinality({w \in Waiters : waiter[w] = "polling"})

TypeOK ==
  /\ done \in BOOLEAN /\ ctx \in BOOLEAN
  /\ stored \in [Hashes -> Callers \cup {NoTracker}]
  /\ wg \in Nat
  /\ watchPc \in {"loop", "wait"}
  /\ caller \in [Callers -> {"idle", "checked", "sending", "returned", "error"}]
  /\ \A c \in Callers :
       /\ dl[c].pc \in {"none", "start", "loop", "exited", "panicked"}
       /\ dl[c].t \in Callers \cup {NoTracker}
       /\ dl[c].ev \in {"", "started", "none", "completed", "stopped"}
  /\ downloaded \in [Callers -> 0 .. Total]
  /\ waiter \in [Waiters -> {"idle", "polling", "shutdown", "notfound", "complete"}]

(* p.wg never counts fewer goroutines than are running: every wg.Add      *)
(* (New, watch, WaitFor) happens before its goroutine starts, and every    *)
(* return path calls Done at most once, so wg.Wait cannot return while a  *)
(* goroutine still runs and the counter never goes negative (which panics).*)
WgCoversRunning == wg >= Running

(* p.wg counts exactly the running goroutines: each one that has returned  *)
(* has called Done.                                                        *)
WgMatchesRunning == wg = Running

(* One downloadTorrent per info hash: WorkOn refuses a hash that is        *)
(* already tracked (line 88), so no two announce loops and downloads run   *)
(* for one torrent.                                                        *)
OneDownloaderPerHash ==
  \A c, d \in Callers :
    c # d /\ dl[c].pc \in {"start", "loop"} /\ dl[d].pc \in {"start", "loop"}
      => Hash[c] # Hash[d]

(* Graceful stop (specification, section 8, scenario 6): once Close is     *)
(* called, every announce loop ends (having sent stopped or completed if   *)
(* it got past the first announce) and every WaitFor returns.             *)
GracefulStop ==
  done ~> /\ \A c \in Callers : dl[c].pc \in {"none", "exited"}
         /\ \A w \in Waiters : waiter[w] # "polling"

(* A downloader in the update loop whose torrent is complete announces     *)
(* completed and ends its loop at the next tick, unless it is stopped      *)
(* first (specification, section 4.G, step 4).                             *)
CompletionAnnounced ==
  \A c \in Callers :
    (dl[c].pc = "loop" /\ downloaded[dl[c].t] = Total)
      ~> (dl[c].pc = "exited" /\ dl[c].ev \in {"completed", "stopped"})

(* Close eventually lets watch's p.wg.Wait() return: the counter reaches  *)
(* zero.                                                                   *)
WatchWaitReturns == done ~> wg = 0

(* No answer of a tracker crashes the client: the interval of the first   *)
(* announce either sets up the update loop's ticker or, when missing,      *)
(* ends the loop (specification, section 4.G, step 2).                     *)
NoCrash == \A c \in Callers : dl[c].pc # "panicked"

(* A failure reason is fatal to the announce loop (specification, error   *)
(* taxonomy, TrackerFatal): once the first announce got one, the           *)
(* downloader sends no further announce.                                   *)
FailureAbandonsLoop ==
  [][\A c \in Callers :
       dl[c].pc = "start" /\ dl[c].last = "failure"
         => ~\E r \in StartOutcomes : DlAnnounceStart(c, r)]_vars

=============================================================================
