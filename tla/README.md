# TLA+ models of tinytorrent

This directory holds TLA+ models of the tinytorrent BitTorrent client, the
TLC configurations that check them, and `PROJECT.json`. That file lists the
components, runs, mutants, the definition-to-source map, the findings and the
hazards.

## The system

The sources have three files:

- `src/bencoding/bencoding_test.go` is three Go files concatenated:
  - lines 1-16: a bencoding unit test;
  - lines 17-298: `client.go`, the `Client`. `WorkOn` registers a torrent
    and hands it to the `watch` goroutine. `watch` starts one
    `downloadTorrent` goroutine per torrent, which runs the announce loop
    against the tracker. `WaitFor` polls `t.Downloaded`. `Close` ends it all.
  - lines 299-755: the download engine of one torrent (package `status`),
    described below.
- `src/p2p/client/tracker.go` holds the exported tracker request parameters:
  `Validate` and `Encode`. It also decodes the tracker response: failure
  reason, interval, peers as a list or compact 6-byte entries.
- `src/p2p/client/internal/tracker/request.go` is a second, internal version
  of the request with its own `Validate` and `Encode`. It also has
  `CreateRequest`, which does the HTTP GET and decodes the response.

### The download engine

It has these goroutines and calls:

- **`downloadScheduler`** is a single goroutine. It shuffles the missing
  pieces into a local queue `unverified`, then loops over the slot table
  `t.download.requests`. For each occupied slot it takes the piece's lock,
  then:
  - it requeues in-flight block requests older than 15 s and sends a Cancel
    to every unchoking peer;
  - it sends every pending request to a random established, unchoking peer
    that has the piece.

  It counts free slots. When the queue is empty and every slot is free, it
  closes `completed`. Otherwise it admits the head of the queue into the
  first free slot with a CompareAndSwap, split into blocks of `RequestSize`.
- **`recvPieces(p)`** is one goroutine per connected peer. It reads a piece
  message, finds its slot without a lock, then locks the piece. Under the
  lock it:
  - drops blocks that match no in-flight request, and duplicates;
  - counts the block and panics if the piece would exceed its size;
  - when the piece is full, sorts the blocks and compares the SHA-1.

  On a mismatch it closes the peer and retries the piece. If `t.Flush`
  fails it also retries. Otherwise it sets the bitfield, broadcasts HAVE and
  frees the slot with a CompareAndSwap.
- **`keepAliveSeeders(p)`** is one goroutine per peer. It connects,
  handshakes and starts `recvPieces(p)` on a pending or killed peer, and
  sends keep-alives otherwise. On stop, cancel or completion it closes the
  peer and returns.
- **`UpdateSeeders`** turns the peers of a tracker response into seeders,
  each with a `keepAliveSeeders` goroutine.
- **`CancelDownload`** closes `cancel` and waits for the goroutines.

The goroutines share the slot table, each piece's state under its lock, the
peers' connection and choke status, and `t.Downloaded` and `t.BitField`.

## Modules

### `Scheduler.tla`: the download engine

The state maps onto the code as follows:

| Variable | Models |
|---|---|
| `slots` | `t.download.requests` |
| `unverified` | the scheduler's queue |
| `pieces[i]` | the `pendingPiece` of piece i: `pending`, `inflight` (with the `received` flag), `received`, `downloaded` |
| `bitfield`, `downloaded`, `completed` | `t.BitField`, `t.Downloaded`, the `completed` channel |
| `stop` | `t.stop` or `cancel` closed |
| `schedPc`, `freeSlots` | the scheduler's position in its pass and its local count |
| `seeders`, `conn`, `unchoked` | the peer map and each peer's status |
| `ka`, `recvs` | whether keepAliveSeeders runs, and how many recvPieces goroutines run (a reconnect starts a new one) |
| `dwg` | the `t.download.wg` counter: 1 for the scheduler, `Add(1)` per new seeder (line 336) and per reconnect (line 745), `Done` on every return |
| `recvAt[p]` | a message recvPieces has matched to a slot; `counted` once its last block is counted and the piece's lock is held for verification |

Blocks carry only `begin`, `length` and whether their data is the true
content. The SHA-1 comparison is `HashMatches`: the received blocks, sorted
by begin, tile the piece and are all good.

The actions are the code's steps, split at the points where another
goroutine can interleave:

| Goroutine | Actions |
|---|---|
| Scheduler | `SchedExit`; `SchedSlot(k)`, which is one slot's lock section, reap and dispatch; `SchedComplete`; `SchedWait`; `SchedAdmit` |
| Receive loop | `RecvFind`, which has no lock, then one locked step: `RecvDiscard`, `RecvOverflow` (the panic) or `RecvAccept`. Or, for a piece's last block, `RecvCount` (589-608, counting it in `t.Downloaded`), which keeps `piece.l` until one of `RecvHashMismatch`, `RecvFlushFailed` or `RecvVerified` releases it. `RecvExit` when the channel is closed |
| Keep-alive | `KAStop`, `KAConnect`, `KAHandshakeFail` |
| Tracker input | `UpdateSeeders(R)` |

The last block is split into two steps because `t.Downloaded` is read
without the piece lock, by `WaitFor` (117), the announce loop (261) and
`UpdateSeeders` (321). Those readers can see the count (589) before the
flush (635) and the bit (655). While `piece.l` is held, `Locked(i)` blocks
the scheduler's visit of that slot and the other receive loops. The bit and
the slot's compare-and-swap (679) remain one step: in between, only
lock-free readers of the slot table could look, and they then wait on the
lock.

The remote peers are an environment, since package `peer` is not in the
sources:

- `PeerUnchoke`;
- `PeerChoke`, which discards the requests the peer holds;
- `PeerServe`, which answers a request for a piece the peer has;
- `PeerServeTwice`, which duplicates an answer;
- `PeerDrop`, which breaks the connection;
- `Stop`.

A reap of a request nobody holds any more (`Lost`) is free. A reap of one
still held, i.e. a slow peer, costs one of `MaxFaults`, as do choke, drop,
duplicate and handshake failure. A panic sets `panicked`, and the process
then stutters (`Aborted`).

`MCScheduler.tla` instantiates it with two peers (`p1` has both pieces, `p2`
only piece 0) and a 5-byte torrent of 4-byte pieces (two pieces, the last
shorter) with 2-byte blocks. Piece 0 therefore has two blocks and piece 1 has
one block of length 1. That covers the short last piece and the short last
block.

### `Download.tla`: what a download promises

`Download.tla` is the abstract specification of a torrent download (spec
sections 3 and 4.F). It has no peers, slots or blocks and three variables:

- `store` maps each piece to "missing", "good" (its true content) or "bad";
- `completed`;
- `stopped`.

It has three actions:

- `Verify(i)` stores a missing piece with its true content;
- `Complete` fires once, when every piece is good;
- `Stop` is a one-way signal.

A piece in flight may still be stored after a stop.

`Scheduler.tla` implements it through `Abstract == INSTANCE Download WITH ...`,
with this refinement mapping:

- piece `i` is "missing" while it is not in `bitfield`;
- it is "good" once it is in `bitfield` and its received blocks tile it and
  are all true content, and "bad" if it is in `bitfield` otherwise;
- `completed` maps to `completed`;
- `stopped` maps to `stop`.

`DownloadRefines == Abstract!Spec` is checked in `sched_faulty`. It says that
every step of the engine either leaves those three unchanged or is a step of
`Download`:

- no bit is ever cleared;
- a stored piece's content never changes afterwards, whatever late or
  duplicate blocks arrive;
- completion waits for every piece and happens once.

### How `Client` and `Scheduler` compose

`Client` does not model the engine. Its `Progress(t)` action is the engine
seen from the client: `t.Downloaded` grows, never shrinks, and stops at the
torrent's length. `WaitFor` (line 117) and the announce loop (line 261)
depend on that last point, because they detect completion with `==`. A
counter that went past the length would keep both waiting forever.

`sched_faulty` checks the other side of that contract on the engine as the
action property `ProgressAsClientAssumes`. It holds even when a retried piece
overflows, because the panic at 585-588 comes before `t.Downloaded.Add` at
589. Its mutant adds the count before the size check, and TLC then finds the
overshoot.

The client model makes one further simplification: `Progress` fires only
while a loop runs. In the engine, blocks still in flight can be counted after
a stop. That changes none of the client's properties, because each of them
reads `t.Downloaded` only before `done` is set or from `WaitFor`.

### `TrackerResponse.tla`, `TrackerRequest.tla`, `Tracker.tla`: the tracker client

These modules are pure functions, so they are operators:

- `TrackerResponse` has `DecodeTrackerResponse` of `tracker.go`. It is built
  from RECURSIVE operators for the scalar keys (`DecodeScalars`), the peer
  list loop (`DecodeList`, `ListPeer`) and the compact loop
  (`DecodeCompact`, `BigEndianUint16`). A decoded bencoding value is a
  record `[t, v]` with tag `bytes`, `int`, `list`, `dict`, or `malformed` for
  a body `bencoding.Decode` rejects. Each operator returns the error the code
  returns, or `"none"`, together with the response as the code has filled it
  by then.
- `TrackerRequest` covers both parameter versions.
  - `ExportedValidate` and `InternalValidate` share the option checks of
    `ValidateOptions`. They return the name of the first failing check.
  - `ExportedEncode` and `InternalEncode` return the `url.Values` they
    build, as a function from key to value. Integers are converted to
    decimal digit sequences by `FormatInt`, i.e. `strconv`.
    `url.Values.Encode`, which only sorts and escapes, is not modelled.
  - `CreateRequest` is validation, then the HTTP outcome, then decoding,
    then the failure-reason check. The HTTP outcome is an input: sent or
    not, and a status.
  - `DecodeResponse`, which `CreateRequest` calls, is not in the sources.
    It is modelled from the specification's response format, as the exported
    decoder.
- `Tracker` makes each operation an action on one variable `call`.
  - The actions are `ExportedCall`, `InternalCall`, `Decode`, `Announce`
    and `Return`. A call records its inputs and results, and `Return`
    goes back to idle.
  - The module also states the specification's format (section 4.C) as
    reference definitions: `SpecAcceptable`, `QueryUsesSpecNames`,
    `QueryHasRequired`, `QueryCarries`, `SpecDecodeOk` and `SpecResponse`.
    They are written independently of the code's control flow; for example,
    `SpecPeers` slices the compact string arithmetically.

### `Client.tla`: the client and its announce loops

The state maps onto the code as follows:

| Variable | Models |
|---|---|
| `done`, `ctx` | `p.done` closed by `Close`, and watch's context cancelled |
| `stored[h]` | which `WorkOn` call's `status.Tracker` `torrentsDownloading` holds for hash `h` |
| `wg` | the `p.wg` counter |
| `watchPc` | watch in its select loop, or blocked in `p.wg.Wait()` |
| `caller[c]` | where caller c's `WorkOn` is: Load check, Store, blocked on `handler`, returned |
| `dl[c]` | the `downloadTorrent` started for c's hash: loop, tracker loaded, last event and outcome, whether it called Done |
| `downloaded[t]` | `t.Downloaded` of tracker t |
| `waiter[w]` | the `WaitFor` goroutine of w |

The actions are the code's blocks between channel operations:

| Goroutine | Actions |
|---|---|
| User | `Close`, `WaitForCall` |
| `WorkOn` | `WorkOnLoad`, then `WorkOnStore` |
| watch | `WatchReceive`, which is the handler rendezvous, `wg.Add` and `go downloadTorrent`; `WatchDone` |
| `downloadTorrent` | `DlCancelledStart`; `DlAnnounceStart(r)`, where r is a transient error, a failure reason, no interval, a positive interval, or (with `ZeroInterval`) one of zero or less, whose `time.NewTicker` panics; `DlStop`; `DlTick` |
| `WaitFor` | `WaitPoll` |
| Download engine | `Progress` |

`UpdatePeers` and `t.Close` are in package `status`, outside the sources.
They appear only as the start and end of a tracker's `Progress`. A panic
ends the process: `Next` requires that no downloader has `"panicked"`.

`MCClient.tla`:

- two callers, with the same hash or distinct ones;
- one waiter on the first hash;
- a torrent of two units of progress.

Two callers are enough for the check-then-act race and for two loops racing
`Close`. Two units of progress separate "some downloaded" from "complete".
The runs other than `client_zero_interval` set `ZeroInterval = FALSE`,
assuming a tracker that sends positive intervals; that one run drops the
assumption.
**Fairness**: weak fairness for each goroutine's steps; the ticker fires
again and again. No fairness for `Close`, `WaitFor` calls, the tracker's
answers, or progress.

`MCTracker.tla` enumerates the inputs:

- every outcome of every check of `Validate`;
- empty strings where the internal `Encode` skips them;
- response bodies with each key absent, well typed or mistyped;
- peer lists of up to two entries from six kinds of entry;
- every compact string of length 0 to 12 over two byte values;
- 16 announces: valid and invalid parameters, sent or not, status 200 or
  404, and four bodies.

A missing `interval` is accepted by the decoder. The client rejects it
(`bencoding_test.go:188`), and the specification classes it as
`TrackerFatal` at the caller, so the decoder is not required to reject it.

## Runs

| Run | Cfg | Checks |
|---|---|---|
| `sched_safety` | `MCScheduler.cfg` | 2 slots, honest peers, reliable flush, one fault. Checks `TypeOK` (including that `t.download.wg` never goes negative) and `NoAbort` (recvPieces never panics). Also `BlockAccounting`: per occupied slot, pending plus in-flight requests are exactly the piece's blocks; received blocks are exactly the in-flight entries marked received; `piece.Downloaded` is their total; `t.Downloaded` is the sum over pieces. And `CountedAheadOnlyWhileVerifying`: whenever `t.Downloaded` equals the length, which `WaitFor` and the announce loop take for done, every piece missing from the bitfield is held by a receive loop that has counted its last block, and its blocks are its true content. The lag behind the counter is only the hash check, the flush and the bit; nothing more is needed from a peer. About 618k states, about 90 s. |
| `sched_faulty` | `MCSchedulerFaulty.cfg` | `p2` corrupts its blocks, flushes may fail, 1 slot. Checks `PieceLifecycle`: every piece is in exactly one of queue, slot or bitfield, and a verified piece was flushed once with its full true content. Also checks `DownloadRefines`: the engine implements `Download`. And it checks `ProgressAsClientAssumes`: `t.Downloaded` never decreases and never passes the torrent length. About 283k states, about 50 s. |
| `sched_liveness` | `MCSchedulerLive.cfg` | Honest peers, 1 slot, channel of 1. Checks `DownloadCompletes` (eventually completed or stopped) and `Quiescence` (after stop or completion every goroutine returns and `t.download.wg` reaches zero, so the `Wait` of `CancelDownload` returns). About 88k states, about 2 min. |
| `sched_retry_abort` | `MCScheduler_retry.cfg` | Violation of `NoAbort` through a corrupt block (finding 1). |
| `tracker_request` | `MCTrackerRequest.cfg` | Both parameter versions, 13,123 states. `InternalValidateIsSpec`: `RequestParams.Validate` accepts exactly what the specified rules accept, whatever order it checks them in. `ExportedValidateIsSpec`: the same for `TrackerRequestParams.Validate` when a port is given. `InternalQueryConforms`: the query of an accepted internal request uses only specified names, has all required keys and every option given, and each value converts back to its field. `TypeOK`: results and key names in range. |
| `tracker_response` | `MCTrackerResponse.cfg` | 14,312 states, about 40 s. `DecodeMatchesSpec`: the decoder succeeds exactly on bodies of the specified shape and returns the specified response. That includes every compact string up to 12 bytes: the length check and big-endian ports. `AnnounceOutcome`: `CreateRequest` returns a response exactly for valid parameters, a 200 answer and an accepted body without failure reason. |
| `client` | `MCClient.cfg` | 5,553 states. `TypeOK`. `WgCoversRunning`: `p.wg` never counts fewer goroutines than are running, so no `Wait` returns early and the counter never goes negative. `GracefulStop`: after `Close` every announce loop and every `WaitFor` ends (specification section 8, scenario 6). `CompletionAnnounced`: a complete torrent in the update loop announces `completed`, or is stopped. |
| `client_race` | `MCClient_race.cfg` | Violation of `OneDownloaderPerHash` (finding 2). |
| `client_wg_leak` | `MCClient_wgleak.cfg` | Violation of `WgMatchesRunning` (finding 3). |
| `client_watch_hang` | `MCClient_watch.cfg` | Violation of `WatchWaitReturns` (finding 4). |
| `client_failure_retry` | `MCClient_failure.cfg` | Violation of `FailureAbandonsLoop` (finding 5). |
| `client_zero_interval` | `MCClient_interval.cfg` | The tracker may answer an interval of zero (`ZeroInterval`). Violation of `NoCrash` (finding 6). |

Each property of a passing run has a mutant in `PROJECT.json`, a plausible
bug in the mapped code that TLC finds:

| Mutant | Breaks |
|---|---|
| admission not resetting `freeSlots` | `TypeOK` |
| no duplicate check | `NoAbort` |
| reaper requeuing received requests | `BlockAccounting` |
| no duplicate check | `CountedAheadOnlyWhileVerifying` |
| digest comparison skipped | `PieceLifecycle` |
| completion without draining the slots | `DownloadRefines` |
| peer selection ignoring the remote bitfield | `DownloadCompletes` |
| keep-alive returning without closing the peer | `Quiescence` |
| `t.Downloaded` added to before the size check | `ProgressAsClientAssumes` |
| a misspelt internal query key | `TypeOK` (tracker) |
| `compact`/`no_peer_id` exclusivity check dropped | `InternalValidateIsSpec` |
| `left` left out of the internal query | `InternalQueryConforms` |
| exported port check dropped | `ExportedValidateIsSpec` |
| decoding continuing after a failure reason | `DecodeMatchesSpec` (decode) |
| port bytes read little-endian | `DecodeMatchesSpec` (compact) |
| failure reason not turned into an error | `AnnounceOutcome` |
| progress past the torrent length | `TypeOK` (client) |
| `wg.Add(1)` left out in watch | `WgCoversRunning` |
| stop branch ending in `break` instead of `return` | `GracefulStop` |
| completion tested with `>` | `CompletionAnnounced` |

### Findings

1. **Retry panics** (`bencoding_test.go:629`). On a hash mismatch the
   piece is requeued, but `piece.Downloaded` stays at the piece size. The
   first block of the retry makes `Downloaded > Size`, and recvPieces
   panics (line 587). The comment at lines 610-611 says the download should
   survive invalid hashes. TLC's trace:
   - p2 sends a corrupt block;
   - the mismatch closes p2;
   - the piece is re-requested from p1;
   - p1's first block panics.

   A failed `t.Flush` (line 649) is retried the same way and panics the
   same way.
2. **WorkOn check-then-act** (`bencoding_test.go:88`). `Load` and `Store`
   are separate. Two concurrent calls for one torrent both pass the check,
   and two `downloadTorrent` goroutines run. The second `Store` replaces the
   first tracker, so `WaitFor` polls a counter one of the loops is not
   downloading into.
3. **Missing `wg.Done` on completion** (line 287). The other three return
   paths call it.
4. **watch waits for itself** (line 141). `New` adds 1 for watch, and watch
   releases it only in its deferred `Done`. So its `p.wg.Wait()` after
   `Close` never returns, even without finding 3.
5. **Failure reason retried** (line 176). `CreateRequest` returns a failure
   reason as an ordinary error, and the first-announce loop retries it every
   10 s forever. The specification's error taxonomy makes it fatal to the
   loop.
6. **A zero interval crashes the client** (line 213). `downloadTorrent`
   checks only that the first announce carries an interval (line 188).
   `time.NewTicker` panics on a duration of zero or less, and the decoder
   accepts any integer. One such tracker answer aborts the whole process,
   with every torrent. The specification abandons the announce loop on a
   missing interval and keeps the download going.

`t.Downloaded` is not decremented on a retry either. To see what that
breaks, check `CountedAheadOnlyWhileVerifying` under `MCScheduler_retry.cfg`
instead of `NoAbort`. TLC then finds a run with no panic in which
`t.Downloaded` reaches the length with an empty bitfield: piece 0 was
retried after its hash mismatch while its bytes stayed counted. `WaitFor`
would report such a download as done with piece 0 never stored.

The exported `TrackerRequestParams.Encode` (`tracker.go:141`, `:147`) sends
`num_want` and `tracker_id` where the specification and the internal version
use `numwant` and `trackerid`, and omits port and the counters when they are
unset. The client uses only the internal request, so no run checks the
exported query.

## Bounds and fairness

**Bounds.** Two peers with different bitfields make peer selection matter.
Two pieces and two slots make completion, admission and freeing race, and
two blocks per piece make duplicates, partial reaps and out-of-order arrival
possible. `MaxFaults = 1` allows one environment fault (a choke, a drop, a
duplicated answer, a failed handshake, a failed `SendRequest`) or premature
timeout per behaviour; that is enough for the duplicate, stale-answer and retry
paths. `MaxChan` bounds a peer's buffered answers. The faulty and liveness
runs use one slot to stay within minutes; the two-slot interleavings are
covered by `sched_safety`.

**Fairness.** These are ordinary goroutines that keep running:

- weak fairness for the scheduler loop, each `recvPieces` and each
  keep-alive loop;
- strong fairness for reaping a lost request: the 15 s timeout fires
  whenever the slot is visited after it, and the visits recur but the
  request may be re-sent in between;
- weak fairness for the tracker delivering the peers at least once, and for
  peers answering the requests they hold and unchoking us.

No fairness is assumed for `Stop` or any fault.

## Not modelled, and the plan

The following are outside the current model:

- **Rate ticker** (lines 363-367). It only stores a rate nobody reads.
- **Keep-alives** on established peers. These do not change state.
- **Reconnect concurrency.** A second `recvPieces` started by a reconnect
  while the first still drains is counted, with its `wg.Add`, but the two
  share one sequence of steps on the peer's channel: whether a reconnect
  gets a new channel is up to package `peer`.
- **`CancelDownload` racing `UpdateSeeders`** (line 336). Its `wg.Wait` is
  `dwg` reaching zero, but nothing in the sources calls `CancelDownload`.
- **`UpdatePeers`, `t.Close`, `status.NewTracker`.** These are not in the
  sources. Whether `UpdatePeers(nil)` after a failed announce (line 289)
  is safe therefore cannot be read from the code.
- **`init()`**, which only creates the download directory.
- **`CreateTrackerRequest`** (`tracker.go:327-329`). It is a stub that
  panics.
- **HTTP, `url.Values.Encode` escaping and `bencoding.Decode`.** These are
  taken as given: an HTTP outcome, an unescaped query, a decoded value.
- **Package `peer`, the metainfo and storage.** These are not in the
  sources and appear only as the environment.

Possible extensions:

1. A larger engine instance, with 3 pieces and 2 slots, so that two pieces
   are in flight while one is retried. This needs more than the 5 minutes a
   run is given today.
2. Package `peer`, if its source becomes available, so that a reconnect's
   channel replaces the environment's assumption.
