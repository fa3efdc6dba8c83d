# TLA+ models of plampshade's stream buffers and dialer

This directory holds TLA+ specifications of the concurrent core of
`src/` (package `lampshade`). It also holds the TLC configurations that
model-check them, and TLAPS proofs of the safety of the send buffer,
the receive buffer, the dialer and ops, and of the send buffer's
refinement of `StreamSpec`.

## The system and its parts

| part | source | what it does | model |
|---|---|---|---|
| send buffer | `src/sendbuffer.go` 1-165 | `send` takes `muClosing.RLock`, checks `closing`, and puts the payload on `buf.in` (capacity windowSize). It does so blocking, or under a deadline using the shared `writeTimer`. `sendLoop` takes frames from `buf.in`, waits for window credit and writes them to the session's `out` channel. `close` asks the loop to stop, optionally with an RST. The loop then starts a goroutine that seals `buf.in` under `muClosing.Lock` and, after `closeTimeout`, closes `closeTimedOut`. | `SendBuffer` (checked through `MCSendBuffer`, proved in `SendBufferProofs`), refining `StreamSpec` (proved in `SendBufferRefinement`) |
| receive buffer | `src/sendbuffer.go` 176-316 | The session reader calls `submit` under `mx.RLock` to queue inbound frames. `read` copies from the current frame, takes further frames without blocking or waits until a deadline, and on return pushes an ACK every `ackInterval = ceil(windowSize/10)` frames. `close` seals `buf.in` under `mx.Lock`. | `ReceiveBuffer` (`MCReceiveBuffer`, proved in `ReceiveBufferProofs`) |
| dialer | `src/dialer.go` 41-143 | Concurrent `dial` calls share `d.mx`, `d.current` and `d.id`. Under the lock a call rotates to a new session when the ids are exhausted or there is no session. `startSession` may fail in the connector or in the handshake. Sessions call `sessionClosed` back when their connection fails. | `Dialer` (`MCDialer`, proved in `DialerProofs`) |
| window | not in `src/` | Signed credit: `sub(1)` per frame, `add(k)` per ACK; a frame may go once the credit is ≥ 0. | modelled from the spec inside `SendBuffer` (`credit`, `PeerAck`), and as the peer's guard `PeerMaySend` in `ReceiveBuffer` |
| session, stream, codec, ciphers, init message | not in `src/` | Framing, encryption, the stream table and the reader/writer tasks. | only the writer draining `out` (`SessionWrite`) and connection failure (`SessionFail`), from the spec |
| ops | `src/ops/ops.go` | Telemetry of operations. `RegisterReporter` appends to a global slice under `reportersMutex`. `FailIf` stores into an `atomic.Value`, and `Cancel` sets a plain bool. `End` checks the bool, copies the reporters under RLock, loads the failure once and calls each reporter. `ops.Go` starts the send loop's goroutine. | `Ops` (`MCOps`, proved in `OpsProofs`); the context map (package `context`, not in `src/`) is left out |

The parts interact through channels. A stream's send buffer feeds the
session's shared `out` channel, and the peer's receive buffer answers with
ACKs that become the send window's credit. The dialer starts sessions and
mints the stream ids that name both buffers.

## Modules

Every action models a whole step of one goroutine, between two points
where it can block or where another goroutine can observe it. Payload data
is abstracted:
- a sent payload is the number of the `send` call that carried it;
- a received byte is its position in the peer's stream.

### `SendBuffer`

The actors are the following.
- **Writers** are goroutines calling `send`. `Send` is the lock, the
  `closing` check and the choice of deadline:
  - a zero deadline leads to `Enqueue`;
  - a past deadline returns at once;
  - a future deadline leads to `SendStopTimer`, then `SendDrainTimer` if
    `Stop` returned false, then `SendResetTimer`, then
    `SendSelectEnqueue` or `SendSelectTimeout`.
- **Closers** run `Close`, `CloseStopTimer`, `CloseDrainTimer` and
  `CloseWait`.
- **The loop**:
  - `LoopRecvFrame` takes a frame and subtracts one credit; `LoopRecvClosed`
    sees the sealed, empty queue;
  - `LoopCloseRequested` takes the close request, in the outer select or
    while a frame waits for window;
  - `LoopTimedOut` handles `closeTimedOut`, and `LoopWindowAvailable` a
    window that has become available;
  - `LoopWriteOut` and `LoopWriteDropped` are the two cases of `write`;
  - `LoopExit` runs the deferred function.
- **The sealing goroutine** runs `Seal` (Lock, `closing`, `close(buf.in)`)
  and then `CloseTimeout`.
- **The environment**:
  - `SessionWrite` moves `out` to `wire`;
  - `PeerAck` returns credits for frames on the wire;
  - `TimerFire` fires the write timer.

The timer is a record `[active, fired]`. `Stop` returns whether it was
active, and `fired` is the buffered value in `timer.C`. The timer armed
with `largeTimeout` at construction never fires within a run. Go's
RWMutex blocks new readers while a writer waits, hence `Send`'s guard
`cgPc # "lock"`.

### `StreamSpec` and the refinement

`StreamSpec` states what the send side promises the session, without
goroutines, locks, timers or window:
- accepted payloads form a FIFO that is handed over in order;
- nothing is accepted once the stream is sealed;
- queued payloads may be dropped only after the close timeout (`Abort`);
- the RST is handed over at most once and last, once the FIFO is empty
  or the close timed out.

`SendBuffer` maps onto it with `Stream == INSTANCE StreamSpec WITH ...`:
- the FIFO is the frame the loop holds followed by `buf.in`;
- the emitted payloads are the data frames of `wire \o out`;
- `sealed` is `closing`, and `aborted` is `closeTimedOut`.

`StreamRefinement == Stream!Spec` is checked as a PROPERTY in sb_safety.
Every step must then be a step of `StreamSpec` or a stutter. A payload is
emitted by `LoopWriteOut`. It is dropped by `LoopTimedOut` or
`LoopWriteDropped`. The RST is emitted by `LoopWriteOut` in state
`writeRST`. All other steps are stutters.

### `ReceiveBuffer`

Inbound frames obey the peer's window (`PeerMaySend`): the peer has sent
fewer than `windowSize` frames beyond those `read` has ACKed. The ACKs
count as received as soon as `read` pushes them. That is the most a peer
can know, so every slower delivery is covered.

- `Submit` and `SubmitEnqueue` are `submit`; the second step is the
  possibly blocking `buf.in <- frame` made while holding RLock.
- `Close(c)` is `close`.
- `read` is split into several actions:
  - `ReadStart` chooses a buffer size and a deadline;
  - `ReadCopy` is one pass of the loop: the copy, then the non-blocking
    receive or its `default` branch;
  - `ReadWaitFrame`, `ReadWaitEOF` and `ReadWaitTimeout` are the timed
    select;
  - `ReadReturn` is the deferred ACK.
- `OnFrame` is `onFrame`.

### `Ops`

- `RegisterReporter(r)` appends under the write lock.
- Each op has two goroutines:
  - the owner, which runs `OwnerFailIf`, may run `OwnerCancel`, then runs
    `End`, `EndSnapshot`, `EndLoad`, `EndReport` (one iteration of the
    `range` loop over the copy), `EndReportsDone` (the loop ends) and
    `EndExit`;
  - a helper, which runs `HelperFailIf` and `HelperCancel` concurrently.
- The owner's Cancel is sequenced before End's read of `o.canceled`. The
  helper's is a data race, so `CanceledReads` lets the read return either
  value.
- `reports`, `ownerErr` and `regAtEnd` are history variables.

### `Dialer`

- `StartDial` and `Lock` are the entry into `dial`.
- One action covers each way out of the critical section: `DialReuse`,
  `DialNewSession`, `DialConnectFailed` (which unlocks) and
  `DialHandshakeFailed` (which does not).
- `CreateStream` is `getOrCreateStream`.
- `leaked` and `resetOn` are history variables. `leaked` holds the
  callers whose dial returned from a handshake error still holding
  `d.mx`. `resetOn` holds the sessions that stayed current after a failed
  `startSession` reset `d.id` (`RecordReset`).
- `SessionFail` and `SessionClosed` are the session's failure and its
  callback.
- `StartOutcomes` chooses which outcomes of `startSession` a run allows.

## Runs

| run | cfg | result | what it shows |
|---|---|---|---|
| sb_safety | `MCSendBuffer.cfg` | pass | `TypeOK`, `NoSendOnSealedQueue` (no send is blocked on the sealed queue, which would panic), `FlowControl` (data handed to the session never exceeds the window plus the ACKs), `StreamIntegrity` (unless the close timeout fired, the emitted data is a prefix of what was accepted, and the RST comes last, after all of it), `StreamRefinement` (the send buffer implements `StreamSpec`), and `RSTFinal` (once the RST is handed over, no step changes the frames handed over). |
| sb_delivery | `MCSendBufferLive.cfg` | pass | `AcceptedDelivered`: with an acking peer, every accepted payload reaches the wire, unless the close timeout fires. |
| sb_close_hang | `MCSendBufferCloseHang.cfg` | violation | `DrainBoundedByTimeout` under `SpecSilentPeer`: the close timeout fires, yet `sendLoop` never ends. The loop took the close request in the outer select and then a frame beyond the window, and the select at line 89 does not listen on `closeTimedOut`. The timer race of the next run cannot produce this trace, because there `Seal` never runs. |
| sb_close_timer_hang | `MCSendBufferTimerHang.cfg` | violation | `CloseReturns` even with an acking peer: close and a timed send race on the shared timer, and the send blocks forever on `<-writeTimer.C` while holding RLock. |
| dialer | `MCDialer.cfg` | pass | Sessions start successfully but fail at any time. `TypeOK`, `UniqueStreams`, `LockReleased` and `DialReturns` hold. |
| dialer_failures | `MCDialerFailures.cfg` | pass | All three `startSession` outcomes are allowed. `CurrentNotClosed`: `d.current` never names a session whose callback has run. `LockHeldOnlyByLeakers`: `d.mx` is held outside the critical section only by a caller whose dial returned from a handshake error. `DuplicatesOnlyAfterReset`: two dials get the same stream only on a session whose `d.id` a failed `startSession` reset. |
| dialer_id_reuse | `MCDialerIdReuse.cfg` | violation | `UniqueStreams`: a connector error after exhaustion leaves `d.id = 0` on the old session. |
| dialer_lock_leak | `MCDialerLockLeak.cfg` | violation | `LockReleased`: handshake errors return with `d.mx` held. |
| dialer_streams_per_session | `MCDialerStreamsPerSession.cfg` | violation | `StreamsPerSessionBound`: `d.id > max` allows max+1 streams. |
| dialer_ids_from_zero | `MCDialerIdsFromZero.cfg` | violation | `IdsFromZero`: a session started after a failure does not restart ids at 0. |
| rb_safety | `MCReceiveBuffer.cfg` | pass | `TypeOK` (the count `read` returns is within `len(b)`), `DeliveryIntegrity` (bytes in order, EOF only after all of them), `NoSubmitOnClosedQueue` (no `submit` is about to send on `buf.in` once `close` has closed it, which would panic), and `SubmitNeverBlocks` (with a peer that keeps to the window, `submit` never waits on a full `buf.in` while holding RLock). |
| ops | `MCOps.cfg` | pass | `ReportsAgree` (all reporters of an op get one failure, and never nil after the owner's FailIf with an error), and `ReportedToRegistered` (reporters are called in registration order, each at most once, and all those registered before End began are called). |

Each property of a passing run has a mutant in `PROJECT.json`. A mutant
is a plausible bug in the mapped code that TLC must catch, for example a
dropped `window.sub`, a missing `Unlock`, a read that forgets to advance
`b`, an off-by-one header offset, an ACK counting one frame too many, a
send that skips the `closing` check, a `close` that does not wait for
`submit`'s read lock, an `End` that reloads the failure for each
reporter, or a reporter loop that stops one short.

`Ops`' `TypeOK` is proved (`OpsTypeCorrect`) but not checked in a run.
`End`'s reporter loop is a `range` over the copy, and no plausible fault
of that code puts a state outside the type.

**The ACK of a half-read frame.** `onFrame` (line 306) counts a frame as
unacked when `read` takes it from `buf.in`, not when its last byte is
read. The deferred ACK can therefore credit the peer for a frame that is
still partly unread in `buf.current`. The comment at lines 176-179 and
spec 5 say the ACK comes once the frame is fully read. The model keeps
the code's order, and no property states the comment's rule, because
the early credit is safe. The window guards `buf.in`'s capacity, and a
frame stops occupying it exactly when it is taken. `SubmitNeverBlocks`
holds, and memory grows by at most the one frame in `buf.current`. The
mutant that ACKs one frame more than was taken does make `submit` block.
PROJECT.json lists this as a hazard without a property.

### Bounds

**Send buffer.**
- The runs use two writers, one closer, `Window = 2`, `MaxSends = 4`
  and `OutCap = 2`.
- Four sends exceed the window twice over. Two writers can race the
  sealing goroutine, and the loop can hold a frame while both the queue
  and `out` are full.
- Symmetry is used over writers and closers, whose identities the code
  never compares.
- The liveness run drops to `Window = 1`, three sends and no symmetry.
- The violation runs use one writer, which is the smallest instance that
  shows the hang.

**Dialer.**
- The runs use two callers, `MaxStreamsPerConn = 1` and five dials. That
  is enough for exhaustion, rotation, a failure between capture and use,
  and a callback for an old session.

**Receive buffer.**
- The run uses `Window = 2`, four frames of one or two bytes, reads of 0
  to 2 bytes, and five reads.
- Four frames against a window of two fill `buf.in`, so `submit` does
  reach a full queue unless the ACKs hold the peer back.
- Frames can be split across reads and reads can span frames.
- `Window = 2` gives `ackInterval = 1`. The branch that defers an ACK,
  with fewer than `ackInterval` frames unacked, is then taken only by a
  read that took no frame.

**Ops.**
- The run uses two ops, two reporters, two errors and two FailIf calls
  per op.
- That is enough for a registration between two ops' snapshots, a
  registration during a report loop, and a helper's FailIf between the
  load and the reports.
- Symmetry is used over ops, reporters and errors.

### Fairness

- `LocalFairness` puts weak fairness on every goroutine of the process,
  on the session writer and on time (`TimerFire`, `CloseTimeout`,
  `Seal`).
- The peer's ACKs are weakly fair only in `Spec`. `SpecSilentPeer`
  leaves them out, which is the case the close timeout exists for.
- `ReceiveBuffer` and `Ops` are checked for safety only, without
  fairness.
- In the dialer, `Lock` and `SessionClosed` are strongly fair, because
  Go's `sync.Mutex` switches to starvation mode and hands the lock to a
  waiter that keeps waiting.

## Proofs (checked by `tlapm`)

Five modules hold the proofs: `SendBufferProofs`, `SendBufferRefinement`,
`ReceiveBufferProofs`, `DialerProofs` and `OpsProofs`. Each EXTENDS the
module it proves things about. Every safety theorem has the same shape:
- an inductive invariant `IInv` with `Init => IInv`;
- `IInv /\ [Next]_vars => IInv'`, proved with one step per action and,
  under it, one step per conjunct the action can disturb;
- `IInv => Inv`;
- a last step `BY ..., PTL DEF Spec`.

Each strengthening was first checked with TLC as an invariant of the
instance of the matching run, before it was proved.

### Assumptions

The theorems hold for every value of the constants allowed by the
module's named `ASSUME`. TLC evaluates each of these on every run.
- `ConstAssumption` (send buffer): `Window >= 1`, `OutCap >= 1`,
  `MaxSends \in Nat`, and writers and closers are distinct goroutines.
- `RecvAssumption` (receive buffer): `Window >= 1`, frames carry at
  least one byte, and the bounds are naturals.
- `DialerAssumption`: a finite set of callers, `maxStreamPerConn >= 1`
  (as `StreamDialer` normalises it), and outcomes among the three
  `startSession` results, `"ok"` among them.
- `OpsAssumption`: `nil` is not one of the errors.

No theorem assumes anything about the outcomes of `startSession`. The
dialer's theorems hold with connector and handshake errors. They say how
far the two dialer bugs reach, and the violation runs dialer_lock_leak
and dialer_id_reuse show that the bugs do happen.

### Send buffer (`SendBufferProofs`, `SendBufferRefinement`)

- `TypeCorrect`: `Spec => []TypeOK`.
- `SealedQueueSafe`: `Spec => []NoSendOnSealedQueue`.
  - The invariant is not inductive: a `Seal` step could close the queue
    under a writer about to enqueue.
  - The strengthening `SealInv` says three things. Exactly the writers
    inside `send` hold `muClosing`'s read lock. Nobody holds it once
    `closing` is set. `buf.in` is closed only after `closing` is set.
- `WindowRespected`: `Spec => []FlowControl`.
  - The strengthening `FlowInv` bounds the credit: it is at least -1, and
    at least 0 when the loop is about to receive or write.
  - It says the loop holds a frame only between receiving and writing it.
  - It relates the data frames handed over, plus a frame held or dropped
    while the credit was negative, to `Window + acked - credit`.
- `RSTEndsStream`: `Spec => RSTFinal`, an action property. `RSTInv`: once
  an RST has been handed over, the loop is done.
- `StreamInOrder`: `Spec => []StreamIntegrity`.
- `SendBufferImplementsStream`: `Spec => StreamRefinement`, which is
  `StreamSpec`'s `Spec` under the mapping.
  - `RefinementInit`: initial states map to initial states.
  - `RefinementStep`: every step maps to a step of `StreamSpec` or to a
    stutter. `LoopWriteOut` is `Emit` or `EmitRST`. `LoopTimedOut` and
    `LoopWriteDropped` holding a frame are `Drop`. An enqueue is
    `Accept`. `Seal` is `Seal`, and `CloseTimeout` is `Abort`.
  - Both theorems rest on `RefInv`, the conjunction of `TypeOK`, `SealInv`,
    `FlowInv`, `RSTInv`, `LoopInv` and `FIFOInv`.
  - `LoopInv`: the sealing goroutine sets `closing` before it sleeps.
    The loop returns only from a sealed stream whose queue has drained,
    or after the close timeout.
  - `FIFOInv`: until the timeout, the data ids handed to the session,
    followed by the abstract queue, are exactly the accepted payloads.
    An RST is the last frame handed over.
- `DataIds` is written as a recursive function, `LET F[i \in 0..Len(s)]`.
  tlapm has no axioms for `SelectSeq`, so a filter written with it cannot
  be reasoned about.
  - The lemmas `IdsExist` and `IdsUnique` show that the recursive
    definition has exactly one solution. `DataIdsEmpty` and
    `DataIdsAppend` then give its value on `<<>>` and after an `Append`.
  - These lemmas argue by a least counterexample. `NatMin` (every
    non-empty set of naturals has a least element) is derived from
    `WellFoundedInduction`'s `WFMin`. The library's induction rules take
    an operator parameter, which the provers cannot instantiate.

### Receive buffer (`ReceiveBufferProofs`)

- `RecvTypeCorrect`: `Spec => []TypeOK`. The count `read` returns is
  within `len(b)` only because the loop advances `b`. The strengthening
  `ReadBound` says the bytes copied plus the room left in `b` never
  exceed `len(b)`.
- `SubmitSealedSafe`: `Spec => []NoSubmitOnClosedQueue`. `SubmitLockInv`
  says `submit` holds RLock exactly while it is about to enqueue, and
  `closed` is set with `buf.in` closed. `close`'s Lock waits for RLock.
- `SubmitNonBlocking`: `Spec => []SubmitNeverBlocks`.
- It rests on `CreditInv`, which says four things:
  - the frames `read` took are exactly those ACKed or still unacked;
  - the peer has sent at most the window plus the frames ACKed;
  - every frame sent is taken, queued, being submitted, or dropped on a
    closed buffer;
  - an idle reader leaves fewer than `ackInterval` frames unacked.
- `InOrderDelivery`: `Spec => []DeliveryIntegrity`. It rests on
  `ContigInv`, which has four parts:
  - `ReadRuns`: the bytes read has copied out, then `buf.current`, are
    consecutive runs from byte 1;
  - `QueueRuns`: `buf.in` holds the runs that follow, up to the last
    byte accepted;
  - `SubmitState`: `submit` holds RLock exactly while it is about to
    enqueue, so nothing is enqueued once closed;
  - `EOFState`: EOF only comes from the drained, closed buffer.

### Dialer (`DialerProofs`)

- `LockAlwaysReleased`: `Spec => []LockHeldOnlyByLeakers`. `LockInv`
  says a caller in the critical section holds `d.mx`, and that the
  holder is either in the critical section or in `leaked`.
- `StreamsUnique`: `Spec => []DuplicatesOnlyAfterReset`. `MintInv`
  covers the streams returned and those captured but not yet created.
  - `d.current` is nil or the newest session.
  - Every stream on the current session has an id below `d.id`, unless
    that session is in `resetOn`.
  - Two equal streams, returned or captured, lie on a session in
    `resetOn`.
  - `DialConnectFailed` and `DialHandshakeFailed` are the steps that can
    reset `d.id` under the current session. They add it to `resetOn`.
- `CurrentNeverClosed`: `Spec => []CurrentNotClosed`, for every outcome
  of `startSession`. The invariant is inductive on its own.
- `DialerTypeCorrect`: `Spec => []TypeOK`. The strengthening `BoundInv`
  counts the callers inside `dial`, so that session numbers stay among
  those started and ids stay within `maxStreamPerConn`.

### Ops (`OpsProofs`)

- `OpsTypeCorrect`: `Spec => []TypeOK`, which is inductive as it stands.
  End's index stays within the copy plus one.
- `ReportsConsistent`: `Spec => []ReportsAgree`. `AgreeInv` says every
  recorded call carries the value End loaded for its op, after the load.
  An error the owner stored stays in `o.failure` and is what End loads.
- `ReportsInOrder`: `Spec => []ReportedToRegistered`. `OrderInv` says
  End's copy is a prefix of the registered reporters, and the reporters
  called so far are a prefix of the copy that matches End's position.
  The history variable `called` records, for each op, the reporters End
  has called.

### What stays model-checked

- Liveness under fairness: `AcceptedDelivered`, `DialReturns`, and the
  violations of `CloseReturns`. TLAPS cannot reason about ENABLED and
  fairness. `DrainBoundedByTimeout` is such a property too.
- The violation runs: they exhibit behaviours of the code. The dialer's
  theorems bound how far those behaviours reach.
- What a recursive definition computes for every input, beyond the
  `Append` lemmas of `DataIds`. The `DeliveryIntegrity` proof states its
  byte runs as explicit functions (`Run`) instead of by recursion.

## Not modelled

- The session, stream table, framing codec, ciphers and client init
  message are not under `src/`. Only what the buffers and the dialer
  observe of them is modelled from the spec: the writer draining `out`,
  connection failure, and the peer's window.
- The context map behind `ops` (package `context`) is not under `src/`.
  That leaves out the `Set*` and `AsMap` calls, and the context that
  `End` leaves entered when an op is canceled.
- The buffer pool of the receive buffer holds no control state.

## Plan

1. Compose `SendBuffer` and `ReceiveBuffer` through the window, replacing
   `PeerAck` and `PeerMaySend` with each other's steps. Then prove that
   the composed window never lets `submit` block.
2. Add fairness to `ReceiveBuffer` and check that reads terminate.
3. State `Ops` against an abstract specification (one report per
   registered reporter, with one outcome) and prove the refinement.
