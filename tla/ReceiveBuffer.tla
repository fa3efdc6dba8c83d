---------------------------- MODULE ReceiveBuffer ----------------------------
(***************************************************************************)
(* The per-stream receive buffer of src/sendbuffer.go (lines 176-316).     *)
(*                                                                         *)
(* Actors: the session's reader goroutine calling submit for each inbound  *)
(* data frame; one goroutine calling read (reads of one stream are not     *)
(* concurrent); goroutines calling close (an RST from the peer, the        *)
(* stream's own Close, the session's teardown).                            *)
(* Payload bytes are numbered 1, 2, 3, ... in the order the peer sent      *)
(* them; a frame is the sequence of the byte numbers it carries.           *)
(***************************************************************************)
EXTENDS Integers, Sequences, FiniteSets

CONSTANTS
    Closers,        \* goroutines calling close (each calls it once)
    Window,         \* windowSize: capacity of buf.in
    MaxFrames,      \* bound on the number of frames the peer sends
    MaxFrameLen,    \* largest payload of a frame in this model
    MaxReadLen,     \* largest destination buffer passed to read
    MaxReads        \* bound on the number of read calls

ASSUME RecvAssumption ==
    /\ Window \in Nat \ {0}
    /\ MaxFrames \in Nat
    /\ MaxFrameLen \in Nat \ {0}
    /\ MaxReadLen \in Nat
    /\ MaxReads \in Nat

\* ackInterval := int(math.Ceil(float64(windowSize) / 10))
AckInterval == (Window + 9) \div 10

VARIABLES
    in,         \* buf.in: queued frames
    inClosed,   \* close(buf.in) has happened
    closed,     \* buf.closed
    subPc,      \* the session reader: idle, or blocked in "buf.in <- frame"
    subFrame,   \* the frame it is submitting
    rlocked,    \* the session reader holds buf.mx.RLock
    sent,       \* bytes the peer has sent so far
    frames,     \* number of frames the peer has sent
    accepted,   \* bytes submit put into buf.in
    current,    \* buf.current
    unacked,    \* buf.unacked
    acked,      \* the frames acknowledged by the ACKs read pushed, in total
    taken,      \* number of frames read took from buf.in (onFrame calls)
    delivered,  \* the bytes read has copied out, in order
    rPc,        \* the read goroutine: idle, copy, wait, waitTimed, ret
    room,       \* free space left in the destination of the current read
    deadline,   \* the current read's deadline: zero, past or future
    totalN,     \* bytes the current read has copied
    result,     \* the last read's result [n, err]
    reads,      \* number of read calls started
    cPc         \* closers: idle or returned

vars == <<in, inClosed, closed, subPc, subFrame, rlocked, sent, frames,
          accepted, current, unacked, acked, taken, delivered, rPc, room,
          deadline, totalN, result, reads, cPc>>

Errors == {"nil", "EOF", "timeout"}

Init ==
    /\ in = <<>>
    /\ inClosed = FALSE
    /\ closed = FALSE
    /\ subPc = "idle"
    /\ subFrame = <<>>
    /\ rlocked = FALSE
    /\ sent = 0
    /\ frames = 0
    /\ accepted = 0
    /\ current = <<>>
    /\ unacked = 0
    /\ acked = 0
    /\ taken = 0
    /\ delivered = <<>>
    /\ rPc = "idle"
    /\ room = 0
    /\ deadline = "zero"
    /\ totalN = 0
    /\ result = [n |-> 0, err |-> "nil"]
    /\ reads = 0
    /\ cPc = [c \in Closers |-> "idle"]

-----------------------------------------------------------------------------
(* submit, called by the session reader for an inbound data frame.         *)

ReaderVars == <<current, unacked, acked, taken, delivered, rPc, room, deadline,
                totalN, result, reads>>

\* The peer's send buffer keeps to the window: it has sent a frame only
\* with a non-negative credit, windowSize minus its frames plus the frames
\* ACKed. The ACKs are taken as received the moment read pushes them, the
\* most the peer can know, so every slower delivery is covered.
PeerMaySend == frames < Window + acked

\* A frame of len bytes arrives; submit takes RLock (not while close waits
\* for the write lock) and drops it on a closed buffer, else sends it on
\* buf.in, blocking with RLock held while the queue is full.
Submit ==
    /\ subPc = "idle"
    /\ frames < MaxFrames
    /\ PeerMaySend
    /\ ~rlocked
    /\ \E len \in 1..MaxFrameLen :
          LET f == [k \in 1..len |-> sent + k] IN
          /\ sent' = sent + len
          /\ frames' = frames + 1
          /\ IF closed
               THEN UNCHANGED <<subPc, subFrame, rlocked>>
               ELSE /\ subPc' = "enqueue"
                    /\ subFrame' = f
                    /\ rlocked' = TRUE
    /\ UNCHANGED <<in, inClosed, closed, accepted, cPc>>
    /\ UNCHANGED ReaderVars

SubmitEnqueue ==
    /\ subPc = "enqueue"
    /\ Len(in) < Window
    /\ in' = Append(in, subFrame)
    /\ accepted' = accepted + Len(subFrame)
    /\ subPc' = "idle"
    /\ subFrame' = <<>>
    /\ rlocked' = FALSE
    /\ UNCHANGED <<inClosed, closed, sent, frames, cPc>>
    /\ UNCHANGED ReaderVars

-----------------------------------------------------------------------------
(* close: under the write lock, mark closed and close buf.in once.         *)

\* Mutant: close does not wait for the read lock submit holds.
CloseIgnoringReaders(c) ==
    /\ cPc[c] = "idle"
    /\ closed' = TRUE
    /\ inClosed' = TRUE
    /\ cPc' = [cPc EXCEPT ![c] = "returned"]
    /\ UNCHANGED <<in, subPc, subFrame, rlocked, sent, frames, accepted>>
    /\ UNCHANGED ReaderVars

Close(c) ==
    /\ cPc[c] = "idle"
    /\ ~rlocked
    /\ closed' = TRUE
    /\ inClosed' = TRUE
    /\ cPc' = [cPc EXCEPT ![c] = "returned"]
    /\ UNCHANGED <<in, subPc, subFrame, rlocked, sent, frames, accepted>>
    /\ UNCHANGED ReaderVars

-----------------------------------------------------------------------------
(* read(b, deadline).                                                      *)

SubmitVars == <<inClosed, closed, subPc, subFrame, rlocked, sent, frames,
                accepted, cPc>>

ReadStart ==
    /\ rPc = "idle"
    /\ reads < MaxReads
    /\ reads' = reads + 1
    /\ \E len \in 0..MaxReadLen, d \in {"zero", "past", "future"} :
          /\ room' = len
          /\ deadline' = d
    /\ totalN' = 0
    /\ rPc' = "copy"
    /\ UNCHANGED <<in, current, unacked, acked, taken, delivered, result>>
    /\ UNCHANGED SubmitVars

\* Mutant: the data header offset is one byte too far.
OnFrameSkipHeader ==
    /\ current' = Tail(Head(in))
    /\ in' = Tail(in)
    /\ unacked' = unacked + 1
    /\ taken' = taken + 1

\* onFrame: the new frame becomes current and counts as unacked.
OnFrame ==
    /\ current' = Head(in)
    /\ in' = Tail(in)
    /\ unacked' = unacked + 1
    /\ taken' = taken + 1

\* Mutant: the loop forgets b = b[n:], so the next copy starts again at the
\* beginning of b.
ReadCopyNoAdvance ==
    /\ rPc = "copy"
    /\ LET n == IF room < Len(current) THEN room ELSE Len(current) IN
       /\ delivered' = delivered \o SubSeq(current, 1, n)
       /\ totalN' = totalN + n
       /\ UNCHANGED room
       /\ IF n = room
            THEN /\ current' = SubSeq(current, n + 1, Len(current))
                 /\ rPc' = "ret"
                 /\ result' = [n |-> totalN + n, err |-> "nil"]
                 /\ UNCHANGED <<in, unacked, taken>>
          ELSE IF in # <<>>
            THEN /\ OnFrame
                 /\ UNCHANGED <<rPc, result>>
          ELSE /\ current' = <<>>
               /\ UNCHANGED <<in, unacked, taken>>
               /\ \/ /\ inClosed
                     /\ rPc' = "ret"
                     /\ result' = [n |-> totalN + n, err |-> "EOF"]
                  \/ /\ ~inClosed
                     /\ totalN + n > 0 \/ deadline = "past"
                     /\ rPc' = "ret"
                     /\ result' = [n |-> totalN + n, err |-> "nil"]
                  \/ /\ ~inClosed
                     /\ totalN + n = 0 /\ deadline # "past"
                     /\ rPc' = IF deadline = "zero" THEN "wait" ELSE "waitTimed"
                     /\ UNCHANGED result
    /\ UNCHANGED <<acked, deadline, reads>>
    /\ UNCHANGED SubmitVars

\* One pass of the read loop: copy from current, then, if b has room left,
\* a non-blocking receive on buf.in (a frame: loop again; the closed,
\* empty queue: EOF) or, with nothing available, return what was read, or
\* return at once for a deadline already past, or go and wait.
ReadCopy ==
    /\ rPc = "copy"
    /\ LET n == IF room < Len(current) THEN room ELSE Len(current) IN
       /\ delivered' = delivered \o SubSeq(current, 1, n)
       /\ totalN' = totalN + n
       /\ room' = room - n
       /\ IF n = room
            THEN /\ current' = SubSeq(current, n + 1, Len(current))
                 /\ rPc' = "ret"
                 /\ result' = [n |-> totalN + n, err |-> "nil"]
                 /\ UNCHANGED <<in, unacked, taken>>
          ELSE IF in # <<>>
            THEN /\ OnFrame
                 /\ UNCHANGED <<rPc, result>>
          ELSE /\ current' = <<>>
               /\ UNCHANGED <<in, unacked, taken>>
               /\ \/ /\ inClosed
                     /\ rPc' = "ret"
                     /\ result' = [n |-> totalN + n, err |-> "EOF"]
                  \/ /\ ~inClosed
                     /\ totalN + n > 0 \/ deadline = "past"
                     /\ rPc' = "ret"
                     /\ result' = [n |-> totalN + n, err |-> "nil"]
                  \/ /\ ~inClosed
                     /\ totalN + n = 0 /\ deadline # "past"
                     /\ rPc' = IF deadline = "zero" THEN "wait" ELSE "waitTimed"
                     /\ UNCHANGED result
    /\ UNCHANGED <<acked, deadline, reads>>
    /\ UNCHANGED SubmitVars

\* select { case <-timer.C: ErrTimeout  case frame, open := <-buf.in: ... }
ReadWaitFrame ==
    /\ rPc \in {"wait", "waitTimed"}
    /\ in # <<>>
    /\ OnFrame
    /\ rPc' = "copy"
    /\ UNCHANGED <<acked, delivered, room, deadline, totalN, result, reads>>
    /\ UNCHANGED SubmitVars

ReadWaitEOF ==
    /\ rPc \in {"wait", "waitTimed"}
    /\ in = <<>>
    /\ inClosed
    /\ rPc' = "ret"
    /\ result' = [n |-> totalN, err |-> "EOF"]
    /\ UNCHANGED <<in, current, unacked, acked, taken, delivered, room,
                   deadline, totalN, reads>>
    /\ UNCHANGED SubmitVars

ReadWaitTimeout ==
    /\ rPc = "waitTimed"
    /\ rPc' = "ret"
    /\ result' = [n |-> totalN, err |-> "timeout"]
    /\ UNCHANGED <<in, current, unacked, acked, taken, delivered, room,
                   deadline, totalN, reads>>
    /\ UNCHANGED SubmitVars

\* Mutant: the ACK counts one frame more than read has taken.
ReadReturnOverAck ==
    /\ rPc = "ret"
    /\ IF unacked >= AckInterval
         THEN /\ acked' = acked + unacked + 1
              /\ unacked' = 0
         ELSE UNCHANGED <<acked, unacked>>
    /\ rPc' = "idle"
    /\ UNCHANGED <<in, current, taken, delivered, room, deadline, totalN,
                   result, reads>>
    /\ UNCHANGED SubmitVars

\* The deferred function: once unacked reaches ackInterval, push an ACK
\* carrying int16(unacked) onto the ack channel and reset the count. Only
\* the total the ACKs carry is kept: the peer adds each to its credit.
ReadReturn ==
    /\ rPc = "ret"
    /\ IF unacked >= AckInterval
         THEN /\ acked' = acked + unacked
              /\ unacked' = 0
         ELSE UNCHANGED <<acked, unacked>>
    /\ rPc' = "idle"
    /\ UNCHANGED <<in, current, taken, delivered, room, deadline, totalN,
                   result, reads>>
    /\ UNCHANGED SubmitVars

-----------------------------------------------------------------------------
ReadStep ==
    \/ ReadStart \/ ReadCopy \/ ReadWaitFrame \/ ReadWaitEOF
    \/ ReadWaitTimeout \/ ReadReturn

Next ==
    \/ Submit \/ SubmitEnqueue
    \/ \E c \in Closers : Close(c)
    \/ ReadStep

Spec == Init /\ [][Next]_vars

-----------------------------------------------------------------------------
(* Properties.                                                             *)

\* The type invariant; the count a read returns is within the length of its
\* destination b, as io.Reader requires.
TypeOK ==
    /\ in \in Seq(Seq(Nat \ {0})) /\ Len(in) <= Window
    /\ inClosed \in BOOLEAN /\ closed \in BOOLEAN /\ rlocked \in BOOLEAN
    /\ subPc \in {"idle", "enqueue"}
    /\ subFrame \in Seq(Nat \ {0})
    /\ sent \in Nat /\ frames \in 0..MaxFrames /\ accepted \in Nat
    /\ current \in Seq(Nat \ {0})
    /\ unacked \in Nat /\ taken \in Nat
    /\ acked \in Nat
    /\ delivered \in Seq(Nat \ {0})
    /\ rPc \in {"idle", "copy", "wait", "waitTimed", "ret"}
    /\ room \in 0..MaxReadLen
    /\ deadline \in {"zero", "past", "future"}
    /\ totalN \in 0..MaxReadLen
    /\ result \in [n : 0..MaxReadLen, err : Errors]
    /\ reads \in 0..MaxReads
    /\ cPc \in [Closers -> {"idle", "returned"}]


(* Reads return the bytes the peer sent in order, without loss or          *)
(* duplication (spec 8: the concatenation of the bytes returned by reads   *)
(* equals that of the bytes accepted, up to close), and a read reports EOF *)
(* only once every byte submit accepted has been returned.                 *)
DeliveryIntegrity ==
    /\ delivered = [i \in 1..Len(delivered) |-> i]
    /\ rPc = "idle" /\ result.err = "EOF" => Len(delivered) = accepted

(* submit never sends on a closed buf.in: close(buf.in) while the session *)
(* reader is blocked in "buf.in <- frame" (sendbuffer.go:220) would panic. *)
(* submit holds buf.mx.RLock across its closed check and the send, close   *)
(* takes mx.Lock; that lock discipline is what must keep them apart.       *)
NoSubmitOnClosedQueue ==
    inClosed => subPc # "enqueue"

(* submit never blocks: whenever the session reader is about to put a     *)
(* frame on buf.in, the queue has room. submit holds buf.mx.RLock across   *)
(* "buf.in <- frame" (sendbuffer.go:220); were it to block there, the      *)
(* session's single reader would stall every stream, and close, which      *)
(* needs mx.Lock, would wait for a reader that waits for read. This holds  *)
(* only if the ACKs read pushes never credit the peer with frames read has *)
(* not taken from buf.in.                                                  *)
SubmitNeverBlocks ==
    subPc = "enqueue" => Len(in) < Window

=============================================================================
