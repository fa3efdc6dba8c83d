----------------------------- MODULE SendBuffer -----------------------------
(***************************************************************************)
(* The per-stream send buffer of src/sendbuffer.go (lines 1-165).          *)
(*                                                                         *)
(* Actors, each a goroutine of the code:                                   *)
(*  - Writers: callers of sendBuffer.send (RLock, doSend, RUnlock);        *)
(*  - Closers: callers of sendBuffer.close(sendRST);                       *)
(*  - the sendLoop goroutine started by newSendBuffer;                     *)
(*  - the goroutine spawned once by signalClose (seal, sleep, time out);   *)
(*  - the environment: the session writer draining the shared out channel, *)
(*    the peer's ACKs adding window credit, and the Go runtime firing the  *)
(*    write timer.                                                         *)
(* Frame payloads are abstracted to the number of the send call that      *)
(* carried them; the RST frame is a record of its own.                     *)
(***************************************************************************)
EXTENDS Integers, Sequences, FiniteSets

CONSTANTS
    Writers,    \* goroutines calling send
    Closers,    \* goroutines calling close (each calls it once)
    Window,     \* windowSize: capacity of buf.in and the initial window credit
    MaxSends,   \* bound on the number of send calls, so that ids stay finite
    OutCap      \* capacity of the session's shared out channel

ASSUME ConstAssumption ==
    /\ Window \in Nat \ {0}
    /\ MaxSends \in Nat
    /\ OutCap \in Nat \ {0}
    /\ Writers \cap Closers = {}

VARIABLES
    in,         \* buf.in: queued payloads (ids), capacity Window
    inClosed,   \* close(buf.in) has happened
    closing,    \* buf.closing
    readers,    \* writers holding buf.muClosing.RLock
    closeReq,   \* buf.closeRequested: a channel of capacity 1, as <<>> or <<b>>
    sendRST,    \* the sendLoop local sendRST
    credit,     \* the window's signed credit
    loopPc,     \* where the sendLoop goroutine is
    pending,    \* the frame the sendLoop holds (0 when none)
    cgPc,       \* the signalClose goroutine: none, lock, sleep, timedOut
    timer,      \* buf.writeTimer: [active: none/large/short, fired: BOOLEAN]
    out,        \* the session's shared out channel
    wire,       \* frames the session writer has taken from out, in order
    acked,      \* credits the peer has returned by ACK
    accepted,   \* history: ids that send put into buf.in, in order
    calls,      \* number of send calls started
    wPc,        \* writer program counters
    wFrame,     \* id carried by each writer's current send call
    cPc         \* closer program counters

vars == <<in, inClosed, closing, readers, closeReq, sendRST, credit, loopPc,
          pending, cgPc, timer, out, wire, acked, accepted, calls, wPc,
          wFrame, cPc>>

DataFrame(i) == [type |-> "data", id |-> i]
RSTFrame == [type |-> "rst", id |-> 0]
Frames == {DataFrame(i) : i \in 1..MaxSends} \cup {RSTFrame}

\* Writer states in which the writer holds the read lock.
Busy == {"enqueue", "stop", "drain", "reset", "select"}
WriterStates == {"idle"} \cup Busy
CloserStates == {"idle", "stop", "drain", "wait", "returned"}
LoopStates == {"loop", "waitWindow", "waitWindowClosing", "write",
               "exit", "writeRST", "done"}
TimerActive == {"none", "large", "short"}

closeTimedOut == cgPc = "timedOut"

-----------------------------------------------------------------------------
(* newSendBuffer: empty queue, full window, a timer armed with largeTimeout *)
(* (which never fires within a run), the send loop started.                *)
Init ==
    /\ in = <<>>
    /\ inClosed = FALSE
    /\ closing = FALSE
    /\ readers = {}
    /\ closeReq = <<>>
    /\ sendRST = FALSE
    /\ credit = Window
    /\ loopPc = "loop"
    /\ pending = 0
    /\ cgPc = "none"
    /\ timer = [active |-> "large", fired |-> FALSE]
    /\ out = <<>>
    /\ wire = <<>>
    /\ acked = 0
    /\ accepted = <<>>
    /\ calls = 0
    /\ wPc = [w \in Writers |-> "idle"]
    /\ wFrame = [w \in Writers |-> 0]
    /\ cPc = [c \in Closers |-> "idle"]

-----------------------------------------------------------------------------
(* Writers: send = RLock; doSend; RUnlock.                                 *)

\* The goroutine leaves send: it releases the read lock.
WriterReturn(w) ==
    /\ wPc' = [wPc EXCEPT ![w] = "idle"]
    /\ readers' = readers \ {w}

\* Mutant: doSend does not check closing before the enqueue.
SendIgnoringClosing(w) ==
    /\ wPc[w] = "idle"
    /\ calls < MaxSends
    /\ cgPc # "lock"
    /\ calls' = calls + 1
    /\ wFrame' = [wFrame EXCEPT ![w] = calls + 1]
    /\ \E next \in {"enqueue", "idle", "stop"} :
          /\ wPc' = [wPc EXCEPT ![w] = next]
          /\ readers' = IF next = "idle" THEN readers ELSE readers \cup {w}
    /\ UNCHANGED <<in, inClosed, closing, closeReq, sendRST, credit, loopPc,
                   pending, cgPc, timer, out, wire, acked, accepted, cPc>>

\* send takes the read lock (not while the sealing goroutine waits for the
\* write lock: Go's RWMutex blocks new readers then) and doSend checks
\* closing; an EPIPE or a deadline already past returns at once, a zero
\* deadline goes to the blocking enqueue, a future one to the write timer.
Send(w) ==
    /\ wPc[w] = "idle"
    /\ calls < MaxSends
    /\ cgPc # "lock"
    /\ calls' = calls + 1
    /\ wFrame' = [wFrame EXCEPT ![w] = calls + 1]
    /\ IF closing
         THEN UNCHANGED <<wPc, readers>>
         ELSE \E next \in {"enqueue", "idle", "stop"} :
                 /\ wPc' = [wPc EXCEPT ![w] = next]
                 /\ readers' = IF next = "idle" THEN readers
                                                ELSE readers \cup {w}
    /\ UNCHANGED <<in, inClosed, closing, closeReq, sendRST, credit, loopPc,
                   pending, cgPc, timer, out, wire, acked, accepted, cPc>>

\* Mutant: the enqueue does not wait for room in buf.in.
EnqueueUnbounded(w) ==
    /\ wPc[w] = "enqueue"
    /\ in' = Append(in, wFrame[w])
    /\ accepted' = Append(accepted, wFrame[w])
    /\ WriterReturn(w)
    /\ UNCHANGED <<inClosed, closing, closeReq, sendRST, credit, loopPc,
                   pending, cgPc, timer, out, wire, acked, calls, wFrame, cPc>>

\* buf.in <- b, with no deadline: blocks while the queue is full.
Enqueue(w) ==
    /\ wPc[w] = "enqueue"
    /\ Len(in) < Window
    /\ in' = Append(in, wFrame[w])
    /\ accepted' = Append(accepted, wFrame[w])
    /\ WriterReturn(w)
    /\ UNCHANGED <<inClosed, closing, closeReq, sendRST, credit, loopPc,
                   pending, cgPc, timer, out, wire, acked, calls, wFrame, cPc>>

\* if !buf.writeTimer.Stop() { <-buf.writeTimer.C }: Stop returns whether
\* the timer was still active; when it was not, the receive that follows
\* blocks until a value is in the channel.
SendStopTimer(w) ==
    /\ wPc[w] = "stop"
    /\ timer' = [timer EXCEPT !.active = "none"]
    /\ wPc' = [wPc EXCEPT ![w] = IF timer.active # "none" THEN "reset"
                                                          ELSE "drain"]
    /\ UNCHANGED <<in, inClosed, closing, readers, closeReq, sendRST, credit,
                   loopPc, pending, cgPc, out, wire, acked, accepted, calls,
                   wFrame, cPc>>

SendDrainTimer(w) ==
    /\ wPc[w] = "drain"
    /\ timer.fired
    /\ timer' = [timer EXCEPT !.fired = FALSE]
    /\ wPc' = [wPc EXCEPT ![w] = "reset"]
    /\ UNCHANGED <<in, inClosed, closing, readers, closeReq, sendRST, credit,
                   loopPc, pending, cgPc, out, wire, acked, accepted, calls,
                   wFrame, cPc>>

\* buf.writeTimer.Reset(writeDeadline.Sub(now))
SendResetTimer(w) ==
    /\ wPc[w] = "reset"
    /\ timer' = [timer EXCEPT !.active = "short"]
    /\ wPc' = [wPc EXCEPT ![w] = "select"]
    /\ UNCHANGED <<in, inClosed, closing, readers, closeReq, sendRST, credit,
                   loopPc, pending, cgPc, out, wire, acked, accepted, calls,
                   wFrame, cPc>>

\* select { case buf.in <- b: ... case <-buf.writeTimer.C: ErrTimeout }
SendSelectEnqueue(w) ==
    /\ wPc[w] = "select"
    /\ Len(in) < Window
    /\ in' = Append(in, wFrame[w])
    /\ accepted' = Append(accepted, wFrame[w])
    /\ WriterReturn(w)
    /\ UNCHANGED <<inClosed, closing, closeReq, sendRST, credit, loopPc,
                   pending, cgPc, timer, out, wire, acked, calls, wFrame, cPc>>

SendSelectTimeout(w) ==
    /\ wPc[w] = "select"
    /\ timer.fired
    /\ timer' = [timer EXCEPT !.fired = FALSE]
    /\ WriterReturn(w)
    /\ UNCHANGED <<in, inClosed, closing, closeReq, sendRST, credit, loopPc,
                   pending, cgPc, out, wire, acked, accepted, calls, wFrame,
                   cPc>>

-----------------------------------------------------------------------------
(* Closers: close(sendRST).                                                *)

\* The non-blocking put into closeRequested; a full channel means close was
\* already requested and the value is dropped.
Close(c) ==
    /\ cPc[c] = "idle"
    /\ \E rst \in BOOLEAN :
          closeReq' = IF closeReq = <<>> THEN <<rst>> ELSE closeReq
    /\ cPc' = [cPc EXCEPT ![c] = "stop"]
    /\ UNCHANGED <<in, inClosed, closing, readers, sendRST, credit, loopPc,
                   pending, cgPc, timer, out, wire, acked, accepted, calls,
                   wPc, wFrame>>

CloseStopTimer(c) ==
    /\ cPc[c] = "stop"
    /\ timer' = [timer EXCEPT !.active = "none"]
    /\ cPc' = [cPc EXCEPT ![c] = IF timer.active # "none" THEN "wait"
                                                          ELSE "drain"]
    /\ UNCHANGED <<in, inClosed, closing, readers, closeReq, sendRST, credit,
                   loopPc, pending, cgPc, out, wire, acked, accepted, calls,
                   wPc, wFrame>>

CloseDrainTimer(c) ==
    /\ cPc[c] = "drain"
    /\ timer.fired
    /\ timer' = [timer EXCEPT !.fired = FALSE]
    /\ cPc' = [cPc EXCEPT ![c] = "wait"]
    /\ UNCHANGED <<in, inClosed, closing, readers, closeReq, sendRST, credit,
                   loopPc, pending, cgPc, out, wire, acked, accepted, calls,
                   wPc, wFrame>>

\* buf.closed.Wait(): returns once the send loop has run its deferred Done.
CloseWait(c) ==
    /\ cPc[c] = "wait"
    /\ loopPc = "done"
    /\ cPc' = [cPc EXCEPT ![c] = "returned"]
    /\ UNCHANGED <<in, inClosed, closing, readers, closeReq, sendRST, credit,
                   loopPc, pending, cgPc, timer, out, wire, acked, accepted,
                   calls, wPc, wFrame>>

-----------------------------------------------------------------------------
(* The sendLoop goroutine.                                                 *)

\* signalClose: closeOnce starts the sealing goroutine the first time.
SignalClose == cgPc' = IF cgPc = "none" THEN "lock" ELSE cgPc

\* Mutant: the loop forgets window.sub(1).
LoopRecvFrameNoSub ==
    /\ loopPc = "loop"
    /\ in # <<>>
    /\ pending' = Head(in)
    /\ in' = Tail(in)
    /\ loopPc' = "waitWindow"
    /\ UNCHANGED <<inClosed, closing, readers, closeReq, sendRST, credit,
                   cgPc, timer, out, wire, acked, accepted, calls, wPc,
                   wFrame, cPc>>

\* case frame, open := <-buf.in with a frame: window.sub(1).
LoopRecvFrame ==
    /\ loopPc = "loop"
    /\ in # <<>>
    /\ pending' = Head(in)
    /\ in' = Tail(in)
    /\ credit' = credit - 1
    /\ loopPc' = "waitWindow"
    /\ UNCHANGED <<inClosed, closing, readers, closeReq, sendRST, cgPc, timer,
                   out, wire, acked, accepted, calls, wPc, wFrame, cPc>>

\* case frame, open := <-buf.in on the closed, empty queue: return.
LoopRecvClosed ==
    /\ loopPc = "loop"
    /\ in = <<>>
    /\ inClosed
    /\ loopPc' = "exit"
    /\ UNCHANGED <<in, inClosed, closing, readers, closeReq, sendRST, credit,
                   pending, cgPc, timer, out, wire, acked, accepted, calls,
                   wPc, wFrame, cPc>>

\* Mutant: a close request makes the outer select return at once, leaving
\* the queued frames behind the RST.
LoopCloseRequestedExit ==
    /\ loopPc \in {"loop", "waitWindow"}
    /\ closeReq # <<>>
    /\ sendRST' = Head(closeReq)
    /\ closeReq' = <<>>
    /\ SignalClose
    /\ loopPc' = IF loopPc = "loop" THEN "exit" ELSE "waitWindowClosing"
    /\ UNCHANGED <<in, inClosed, closing, readers, credit, pending, timer, out,
                   wire, acked, accepted, calls, wPc, wFrame, cPc>>

\* case sendRST = <-buf.closeRequested (outer select, or while a frame
\* waits for window): signalClose.
LoopCloseRequested ==
    /\ loopPc \in {"loop", "waitWindow"}
    /\ closeReq # <<>>
    /\ sendRST' = Head(closeReq)
    /\ closeReq' = <<>>
    /\ SignalClose
    /\ loopPc' = IF loopPc = "loop" THEN "loop" ELSE "waitWindowClosing"
    /\ UNCHANGED <<in, inClosed, closing, readers, credit, pending, timer, out,
                   wire, acked, accepted, calls, wPc, wFrame, cPc>>

\* case <-closeTimedOut (outer select, or while a frame waits for window
\* after the close request): return, dropping any held frame.
LoopTimedOut ==
    /\ loopPc \in {"loop", "waitWindowClosing"}
    /\ closeTimedOut
    /\ loopPc' = "exit"
    /\ pending' = 0
    /\ UNCHANGED <<in, inClosed, closing, readers, closeReq, sendRST, credit,
                   cgPc, timer, out, wire, acked, accepted, calls, wPc,
                   wFrame, cPc>>

\* Mutant: the window is taken to be available only with a positive credit.
LoopWindowAvailableStrict ==
    /\ loopPc \in {"waitWindow", "waitWindowClosing"}
    /\ credit > 0
    /\ loopPc' = "write"
    /\ UNCHANGED <<in, inClosed, closing, readers, closeReq, sendRST, credit,
                   pending, cgPc, timer, out, wire, acked, accepted, calls,
                   wPc, wFrame, cPc>>

\* case <-windowAvailable: the window credit is non-negative again.
LoopWindowAvailable ==
    /\ loopPc \in {"waitWindow", "waitWindowClosing"}
    /\ credit >= 0
    /\ loopPc' = "write"
    /\ UNCHANGED <<in, inClosed, closing, readers, closeReq, sendRST, credit,
                   pending, cgPc, timer, out, wire, acked, accepted, calls,
                   wPc, wFrame, cPc>>

\* write(b): select { case out <- b: case <-closeTimedOut: }. Data frames
\* go back to the loop; the RST frame is the deferred last write.
FrameToWrite == IF loopPc = "write" THEN DataFrame(pending) ELSE RSTFrame
\* Mutant: the RST write goes back to the loop instead of ending it.
AfterWriteToLoop == "loop"
AfterWrite == IF loopPc = "write" THEN "loop" ELSE "done"

LoopWriteOut ==
    /\ loopPc \in {"write", "writeRST"}
    /\ Len(out) < OutCap
    /\ out' = Append(out, FrameToWrite)
    /\ loopPc' = AfterWrite
    /\ pending' = 0
    /\ UNCHANGED <<in, inClosed, closing, readers, closeReq, sendRST, credit,
                   cgPc, timer, wire, acked, accepted, calls, wPc, wFrame, cPc>>

LoopWriteDropped ==
    /\ loopPc \in {"write", "writeRST"}
    /\ closeTimedOut
    /\ loopPc' = AfterWrite
    /\ pending' = 0
    /\ UNCHANGED <<in, inClosed, closing, readers, closeReq, sendRST, credit,
                   cgPc, timer, out, wire, acked, accepted, calls, wPc,
                   wFrame, cPc>>

\* The deferred function: write the RST if requested, then closed.Done().
LoopExit ==
    /\ loopPc = "exit"
    /\ loopPc' = IF sendRST THEN "writeRST" ELSE "done"
    /\ UNCHANGED <<in, inClosed, closing, readers, closeReq, sendRST, credit,
                   pending, cgPc, timer, out, wire, acked, accepted, calls,
                   wPc, wFrame, cPc>>

-----------------------------------------------------------------------------
(* The goroutine started by signalClose.                                   *)

\* Mutant: the sealing goroutine does not wait for the readers of muClosing.
SealIgnoringReaders ==
    /\ cgPc = "lock"
    /\ closing' = TRUE
    /\ inClosed' = TRUE
    /\ cgPc' = "sleep"
    /\ UNCHANGED <<in, readers, closeReq, sendRST, credit, loopPc, pending,
                   timer, out, wire, acked, accepted, calls, wPc, wFrame, cPc>>

\* muClosing.Lock(); closing = true; close(buf.in); muClosing.Unlock()
Seal ==
    /\ cgPc = "lock"
    /\ readers = {}
    /\ closing' = TRUE
    /\ inClosed' = TRUE
    /\ cgPc' = "sleep"
    /\ UNCHANGED <<in, readers, closeReq, sendRST, credit, loopPc, pending,
                   timer, out, wire, acked, accepted, calls, wPc, wFrame, cPc>>

\* time.Sleep(closeTimeout); close(closeTimedOut)
CloseTimeout ==
    /\ cgPc = "sleep"
    /\ cgPc' = "timedOut"
    /\ UNCHANGED <<in, inClosed, closing, readers, closeReq, sendRST, credit,
                   loopPc, pending, timer, out, wire, acked, accepted, calls,
                   wPc, wFrame, cPc>>

-----------------------------------------------------------------------------
(* Environment.                                                            *)

\* The ids of the data frames of a sequence of frames, in order: F[i] is
\* the list for the first i frames.
DataIds(s) ==
    LET F[i \in 0..Len(s)] ==
            IF i = 0 THEN <<>>
            ELSE IF s[i].type = "data" THEN Append(F[i - 1], s[i].id)
            ELSE F[i - 1]
    IN  F[Len(s)]

\* The number of data frames in a sequence of frames.
DataCount(s) == Cardinality({i \in DOMAIN s : s[i].type = "data"})

\* The session writer takes the next frame from out onto the wire.
SessionWrite ==
    /\ out # <<>>
    /\ wire' = Append(wire, Head(out))
    /\ out' = Tail(out)
    /\ UNCHANGED <<in, inClosed, closing, readers, closeReq, sendRST, credit,
                   loopPc, pending, cgPc, timer, acked, accepted, calls, wPc,
                   wFrame, cPc>>

\* The peer acknowledges k data frames it has received: window.add(k).
PeerAck ==
    \E k \in 1..(DataCount(wire) - acked) :
        /\ acked' = acked + k
        /\ credit' = credit + k
        /\ UNCHANGED <<in, inClosed, closing, readers, closeReq, sendRST,
                       loopPc, pending, cgPc, timer, out, wire, accepted,
                       calls, wPc, wFrame, cPc>>

\* The runtime fires an armed write timer: the value lands in timer.C.
TimerFire ==
    /\ timer.active = "short"
    /\ timer' = [active |-> "none", fired |-> TRUE]
    /\ UNCHANGED <<in, inClosed, closing, readers, closeReq, sendRST, credit,
                   loopPc, pending, cgPc, out, wire, acked, accepted, calls,
                   wPc, wFrame, cPc>>

-----------------------------------------------------------------------------
\* The steps of a send call after it has started.
SendInProgress(w) ==
    \/ Enqueue(w) \/ SendStopTimer(w) \/ SendDrainTimer(w)
    \/ SendResetTimer(w) \/ SendSelectEnqueue(w) \/ SendSelectTimeout(w)

WriterStep(w) == Send(w) \/ SendInProgress(w)

\* The steps of a close call after the request was put.
CloseInProgress(c) ==
    CloseStopTimer(c) \/ CloseDrainTimer(c) \/ CloseWait(c)

CloserStep(c) == Close(c) \/ CloseInProgress(c)

LoopStep ==
    \/ LoopRecvFrame \/ LoopRecvClosed \/ LoopCloseRequested \/ LoopTimedOut
    \/ LoopWindowAvailable \/ LoopWriteOut \/ LoopWriteDropped \/ LoopExit

Next ==
    \/ \E w \in Writers : WriterStep(w)
    \/ \E c \in Closers : CloserStep(c)
    \/ LoopStep
    \/ Seal \/ CloseTimeout
    \/ SessionWrite \/ PeerAck \/ TimerFire

(* Every goroutine of the process is scheduled, the session writer keeps   *)
(* draining out, and time passes; the peer's ACKs are not assumed.         *)
LocalFairness ==
    /\ \A w \in Writers : WF_vars(SendInProgress(w))
    /\ \A c \in Closers : WF_vars(CloseInProgress(c))
    /\ WF_vars(LoopStep)
    /\ WF_vars(Seal) /\ WF_vars(CloseTimeout)
    /\ WF_vars(SessionWrite) /\ WF_vars(TimerFire)

\* The peer keeps reading, so every frame it receives is acknowledged.
SpecSilentPeer == Init /\ [][Next]_vars /\ LocalFairness
Spec == SpecSilentPeer /\ WF_vars(PeerAck)

(* Properties.                                                             *)

TypeOK ==
    /\ in \in Seq(1..MaxSends) /\ Len(in) <= Window
    /\ inClosed \in BOOLEAN /\ closing \in BOOLEAN
    /\ readers \in SUBSET Writers
    /\ closeReq \in {<<>>} \cup {<<b>> : b \in BOOLEAN}
    /\ sendRST \in BOOLEAN
    /\ credit \in Int
    /\ loopPc \in LoopStates
    /\ pending \in 0..MaxSends
    /\ loopPc \in {"waitWindow", "waitWindowClosing", "write"} =>
          pending \in 1..MaxSends
    /\ cgPc \in {"none", "lock", "sleep", "timedOut"}
    /\ timer \in [active : TimerActive, fired : BOOLEAN]
    /\ out \in Seq(Frames) /\ Len(out) <= OutCap
    /\ wire \in Seq(Frames)
    /\ acked \in Nat
    /\ accepted \in Seq(1..MaxSends)
    /\ calls \in 0..MaxSends
    /\ wPc \in [Writers -> WriterStates]
    /\ wFrame \in [Writers -> 0..MaxSends]
    /\ \A w \in Writers : wPc[w] # "idle" => wFrame[w] \in 1..MaxSends
    /\ cPc \in [Closers -> CloserStates]

\* Everything this stream has handed to the session, oldest first.
Emitted == wire \o out

IsPrefixOf(s, t) == Len(s) <= Len(t) /\ SubSeq(t, 1, Len(s)) = s

(* No send ever enqueues onto the sealed buf.in: a goroutine blocked in    *)
(* "buf.in <- b" when close(buf.in) runs would panic. The RWMutex          *)
(* discipline (send holds RLock across the closing check and the enqueue, *)
(* the sealing goroutine takes Lock) is what must prevent it.              *)
NoSendOnSealedQueue ==
    inClosed => \A w \in Writers : wPc[w] \notin {"enqueue", "select"}

\* The inductive strengthening of NoSendOnSealedQueue: exactly the writers
\* inside send hold the read lock, nobody holds it once closing is set, and
\* buf.in is closed only after closing is set.
SealInv ==
    /\ \A w \in Writers : w \in readers <=> wPc[w] \in Busy
    /\ readers # {} => ~closing
    /\ inClosed => closing

(* Flow control: the data frames this stream has handed to the session     *)
(* never exceed the initial window plus the credits the peer returned, so *)
(* the peer's receive buffer (capacity windowSize) cannot overflow.        *)
FlowControl == DataCount(Emitted) <= Window + acked

(* Unless the 30-second close timeout fired, the data frames handed to the *)
(* session are, in order, a prefix of the payloads send accepted, and once *)
(* the RST is handed over it is the last frame and every accepted payload  *)
(* went before it (spec: RST is ordered after all prior accepted bytes).   *)
StreamIntegrity ==
    ~closeTimedOut =>
        /\ IsPrefixOf(DataIds(Emitted), accepted)
        /\ \A i \in DOMAIN Emitted :
              Emitted[i] = RSTFrame =>
                 /\ i = Len(Emitted)
                 /\ DataIds(Emitted) = accepted

\* The refinement mapping to StreamSpec: the abstract FIFO is the frame the
\* loop holds followed by buf.in; the sealed stream is closing; the abort
\* is closeTimedOut.
StreamQueue == IF pending # 0 THEN <<pending>> \o in ELSE in
RSTEmitted == \E i \in DOMAIN Emitted : Emitted[i] = RSTFrame

Stream == INSTANCE StreamSpec
              WITH Payloads <- 1..MaxSends, queue <- StreamQueue,
                   emitted <- DataIds(Emitted), rstSent <- RSTEmitted,
                   sealed <- closing, aborted <- closeTimedOut

(* The send buffer implements StreamSpec: every step of send, close, the   *)
(* send loop, the sealing goroutine and the session writer is a step of a *)
(* FIFO that accepts only until closing is set, hands payloads over in     *)
(* order, drops them only after closeTimedOut, and writes the deferred RST *)
(* once, last, after the queue drained or the timeout fired.               *)
StreamRefinement == Stream!Spec

(* The RST frame, written by the deferred function after the loop has     *)
(* returned, is the end of the stream: once it is handed to the session,  *)
(* no step adds, drops or reorders a frame of the stream, whether the     *)
(* loop ended on the close request or on the close timeout.               *)
RSTFinal == [][RSTEmitted => UNCHANGED Emitted]_vars

(* Every payload send accepted eventually reaches the wire, unless the     *)
(* close timeout fired first (liveness of the send loop and the window,    *)
(* given a peer that keeps acknowledging).                                 *)
AcceptedDelivered ==
    \A i \in 1..MaxSends :
        (\E k \in DOMAIN accepted : accepted[k] = i)
            ~> (closeTimedOut \/ \E k \in 1..Len(DataIds(wire)) : DataIds(wire)[k] = i)

(* A close call returns: the spec bounds the drain by closeTimeout even    *)
(* when the peer has stopped acknowledging, and calls close idempotent.    *)
CloseReturns ==
    \A c \in Closers : cPc[c] = "stop" ~> cPc[c] = "returned"


(* Once the close timeout has fired the send loop ends: spec 5 bounds the  *)
(* drain of admitted frames by closeTimeout and drops whatever is still    *)
(* undeliverable then, so no wait of sendLoop may outlast closeTimedOut.   *)
DrainBoundedByTimeout == closeTimedOut ~> loopPc = "done"

=============================================================================
