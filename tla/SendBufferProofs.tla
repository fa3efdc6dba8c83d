-------------------------- MODULE SendBufferProofs --------------------------
(***************************************************************************)
(* Proofs about the send buffer of src/sendbuffer.go, for every value of   *)
(* the constants: the type invariant, and that no send call can be blocked *)
(* in "buf.in <- b" once the sealing goroutine has closed buf.in.          *)
(***************************************************************************)
EXTENDS SendBuffer, FiniteSetTheorems, TLAPS

USE ConstAssumption

\* The actions, grouped for the proofs.
WriterActions(w) ==
    Send(w) \/ Enqueue(w) \/ SendStopTimer(w) \/ SendDrainTimer(w)
    \/ SendResetTimer(w) \/ SendSelectEnqueue(w) \/ SendSelectTimeout(w)

CloserActions(c) ==
    Close(c) \/ CloseStopTimer(c) \/ CloseDrainTimer(c) \/ CloseWait(c)

(* Next, unfolded into its actions.                                        *)
LEMMA NextCases ==
    ASSUME [Next]_vars
    PROVE  \/ \E w \in Writers : WriterActions(w)
           \/ \E c \in Closers : CloserActions(c)
           \/ LoopStep \/ Seal \/ CloseTimeout
           \/ SessionWrite \/ PeerAck \/ TimerFire
           \/ UNCHANGED vars
BY DEF Next, WriterStep, SendInProgress, WriterActions, CloserStep,
       CloseInProgress, CloserActions

-----------------------------------------------------------------------------
(* The initial state built by newSendBuffer is well typed. The type       *)
(* invariant says, beyond the kinds of the values, that buf.in never holds *)
(* more than windowSize payloads, out never more than its capacity, and    *)
(* the loop holds a frame exactly while it waits for window or writes it.  *)
LEMMA TypeOKInit == Init => TypeOK
<1> SUFFICES ASSUME Init PROVE TypeOK
  OBVIOUS
<1>1. closeReq \in {<<>>} \cup {<<b>> : b \in BOOLEAN}
  BY DEF Init
<1>2. timer \in [active : TimerActive, fired : BOOLEAN]
  BY DEF Init, TimerActive
<1>3. /\ wPc \in [Writers -> WriterStates]
      /\ wFrame \in [Writers -> 0..MaxSends]
      /\ \A w \in Writers : wPc[w] # "idle" => wFrame[w] \in 1..MaxSends
      /\ cPc \in [Closers -> CloserStates]
  BY DEF Init, WriterStates, CloserStates
<1>4. /\ in \in Seq(1..MaxSends) /\ Len(in) <= Window
      /\ out \in Seq(Frames) /\ Len(out) <= OutCap /\ wire \in Seq(Frames)
      /\ accepted \in Seq(1..MaxSends)
  BY DEF Init
<1>5. /\ acked \in Nat /\ calls \in 0..MaxSends /\ credit \in Int
      /\ loopPc \in LoopStates /\ pending \in 0..MaxSends
      /\ loopPc \in {"waitWindow", "waitWindowClosing", "write"} =>
            pending \in 1..MaxSends
  BY DEF Init, LoopStates
<1>6. /\ readers \in SUBSET Writers /\ inClosed \in BOOLEAN
      /\ closing \in BOOLEAN /\ sendRST \in BOOLEAN
      /\ cgPc \in {"none", "lock", "sleep", "timedOut"}
  BY DEF Init
<1> QED BY <1>1, <1>2, <1>3, <1>4, <1>5, <1>6 DEF TypeOK

(* Every step of the send buffer, its callers, its loop, the sealing       *)
(* goroutine and the environment preserves the type invariant.            *)
LEMMA TypeOKStep == TypeOK /\ [Next]_vars => TypeOK'
<1> SUFFICES ASSUME TypeOK, [Next]_vars PROVE TypeOK'
  OBVIOUS
<1>1. ASSUME NEW w \in Writers, WriterActions(w) PROVE TypeOK'
  <2>1. CASE Send(w)
    <3>1. calls + 1 \in 1..MaxSends
      BY <2>1 DEF Send, TypeOK
    <3>2. CASE closing
      BY <2>1, <3>1, <3>2 DEF Send, TypeOK
    <3>3. CASE ~closing
      <4>1. PICK next \in {"enqueue", "idle", "stop"} :
               /\ wPc' = [wPc EXCEPT ![w] = next]
               /\ readers' = IF next = "idle" THEN readers
                                              ELSE readers \cup {w}
        BY <2>1, <3>3 DEF Send
      <4> QED BY <2>1, <3>1, <4>1 DEF Send, TypeOK, WriterStates, Busy
    <3> QED BY <3>2, <3>3
  <2>2. CASE Enqueue(w)
    BY <2>2 DEF Enqueue, WriterReturn, TypeOK, WriterStates, Busy
  <2>3. CASE SendStopTimer(w)
    BY <2>3 DEF SendStopTimer, TypeOK, WriterStates, Busy, TimerActive
  <2>4. CASE SendDrainTimer(w)
    BY <2>4 DEF SendDrainTimer, TypeOK, WriterStates, Busy
  <2>5. CASE SendResetTimer(w)
    BY <2>5 DEF SendResetTimer, TypeOK, WriterStates, Busy, TimerActive
  <2>6. CASE SendSelectEnqueue(w)
    BY <2>6 DEF SendSelectEnqueue, WriterReturn, TypeOK, WriterStates, Busy
  <2>7. CASE SendSelectTimeout(w)
    BY <2>7 DEF SendSelectTimeout, WriterReturn, TypeOK, WriterStates, Busy
  <2> QED BY <1>1, <2>1, <2>2, <2>3, <2>4, <2>5, <2>6, <2>7 DEF WriterActions
<1>2. ASSUME NEW c \in Closers, CloserActions(c) PROVE TypeOK'
  BY <1>2 DEF CloserActions, Close, CloseStopTimer, CloseDrainTimer,
              CloseWait, TypeOK, CloserStates, TimerActive
<1>3. CASE LoopStep
  <2>1. CASE LoopRecvFrame
    BY <2>1 DEF LoopRecvFrame, TypeOK, LoopStates
  <2>2. CASE LoopRecvClosed
    BY <2>2 DEF LoopRecvClosed, TypeOK, LoopStates
  <2>3. CASE LoopCloseRequested
    BY <2>3 DEF LoopCloseRequested, SignalClose, TypeOK, LoopStates
  <2>4. CASE LoopTimedOut
    BY <2>4 DEF LoopTimedOut, TypeOK, LoopStates
  <2>5. CASE LoopWindowAvailable
    BY <2>5 DEF LoopWindowAvailable, TypeOK, LoopStates
  <2>6. CASE LoopWriteOut
    <3>1. FrameToWrite \in Frames
      BY <2>6 DEF LoopWriteOut, FrameToWrite, Frames, DataFrame, RSTFrame,
                  TypeOK
    <3> QED BY <2>6, <3>1 DEF LoopWriteOut, AfterWrite, TypeOK, LoopStates
  <2>7. CASE LoopWriteDropped
    BY <2>7 DEF LoopWriteDropped, AfterWrite, TypeOK, LoopStates
  <2>8. CASE LoopExit
    BY <2>8 DEF LoopExit, TypeOK, LoopStates
  <2> QED BY <1>3, <2>1, <2>2, <2>3, <2>4, <2>5, <2>6, <2>7, <2>8
          DEF LoopStep
<1>4. CASE Seal
  BY <1>4 DEF Seal, TypeOK
<1>5. CASE CloseTimeout
  BY <1>5 DEF CloseTimeout, TypeOK
<1>6. CASE SessionWrite
  BY <1>6 DEF SessionWrite, TypeOK
<1>7. CASE PeerAck
  BY <1>7 DEF PeerAck, TypeOK
<1>8. CASE TimerFire
  BY <1>8 DEF TimerFire, TypeOK, TimerActive
<1>9. CASE UNCHANGED vars
  BY <1>9 DEF vars, TypeOK
<1> QED BY NextCases, <1>1, <1>2, <1>3, <1>4, <1>5, <1>6, <1>7, <1>8, <1>9

(* Type correctness holds in every reachable state of the send buffer.     *)
LEMMA TypeCorrect == Spec => []TypeOK
BY TypeOKInit, TypeOKStep, PTL DEF Spec, SpecSilentPeer

-----------------------------------------------------------------------------
\* The type invariant and the lock discipline of muClosing together.
IInv == TypeOK /\ SealInv

(* The RWMutex discipline of send and the sealing goroutine is inductive:  *)
(* exactly the goroutines inside send hold muClosing's read lock, none     *)
(* holds it once closing is set, and buf.in is closed only after that.     *)
LEMMA SealInvInductive == IInv /\ [Next]_vars => SealInv'
<1> SUFFICES ASSUME TypeOK, SealInv, [Next]_vars PROVE SealInv'
  BY DEF IInv
<1>1. ASSUME NEW w \in Writers, WriterActions(w) PROVE SealInv'
  <2>1. CASE Send(w)
    <3>1. w \notin readers
      BY <2>1 DEF Send, SealInv, Busy
    <3>2. CASE closing
      BY <2>1, <3>2 DEF Send, SealInv
    <3>3. CASE ~closing
      <4>1. PICK next \in {"enqueue", "idle", "stop"} :
               /\ wPc' = [wPc EXCEPT ![w] = next]
               /\ readers' = IF next = "idle" THEN readers
                                              ELSE readers \cup {w}
        BY <2>1, <3>3 DEF Send
      <4> QED BY <2>1, <3>1, <3>3, <4>1 DEF Send, SealInv, Busy, TypeOK
    <3> QED BY <3>2, <3>3
  \* Leaving send: the goroutine is idle again and drops the read lock.
  <2>2. ASSUME wPc' = [wPc EXCEPT ![w] = "idle"], readers' = readers \ {w},
               closing' = closing, inClosed' = inClosed
        PROVE  SealInv'
    BY <2>2 DEF SealInv, Busy, TypeOK
  <2>3. CASE Enqueue(w)
    BY <2>3, <2>2 DEF Enqueue, WriterReturn
  <2>4. CASE SendSelectEnqueue(w)
    BY <2>4, <2>2 DEF SendSelectEnqueue, WriterReturn
  <2>5. CASE SendSelectTimeout(w)
    BY <2>5, <2>2 DEF SendSelectTimeout, WriterReturn
  \* The steps on the write timer move between busy states.
  <2>6. ASSUME wPc[w] \in Busy, wPc'[w] \in Busy,
               \A v \in Writers \ {w} : wPc'[v] = wPc[v],
               UNCHANGED <<readers, closing, inClosed>>
        PROVE  SealInv'
    BY <2>6 DEF SealInv
  <2>7. CASE SendStopTimer(w)
    BY <2>7, <2>6 DEF SendStopTimer, Busy, TypeOK
  <2>8. CASE SendDrainTimer(w)
    BY <2>8, <2>6 DEF SendDrainTimer, Busy, TypeOK
  <2>9. CASE SendResetTimer(w)
    BY <2>9, <2>6 DEF SendResetTimer, Busy, TypeOK
  <2> QED BY <1>1, <2>1, <2>3, <2>4, <2>5, <2>7, <2>8, <2>9 DEF WriterActions
<1>2. ASSUME NEW c \in Closers, CloserActions(c) PROVE SealInv'
  BY <1>2 DEF CloserActions, Close, CloseStopTimer, CloseDrainTimer,
              CloseWait, SealInv
<1>3. CASE LoopStep
  BY <1>3 DEF LoopStep, LoopRecvFrame, LoopRecvClosed, LoopCloseRequested,
              LoopTimedOut, LoopWindowAvailable, LoopWriteOut,
              LoopWriteDropped, LoopExit, SealInv
<1>4. CASE Seal
  BY <1>4 DEF Seal, SealInv
<1>5. CASE CloseTimeout \/ SessionWrite \/ PeerAck \/ TimerFire
  BY <1>5 DEF CloseTimeout, SessionWrite, PeerAck, TimerFire, SealInv
<1>6. CASE UNCHANGED vars
  BY <1>6 DEF vars, SealInv
<1> QED BY NextCases, <1>1, <1>2, <1>3, <1>4, <1>5, <1>6

(* No send call is ever blocked in "buf.in <- b", or in the select that    *)
(* offers b to buf.in, once the sealing goroutine has run close(buf.in):   *)
(* the code would panic with a send on a closed channel. It holds because *)
(* send keeps muClosing.RLock from the check of buf.closing to the         *)
(* enqueue, and the sealing goroutine sets closing under Lock.             *)
THEOREM SealedQueueSafe == Spec => []NoSendOnSealedQueue
<1>1. Init => IInv
  <2>1. Init => SealInv
    BY DEF Init, SealInv, Busy
  <2> QED BY <2>1, TypeOKInit DEF IInv
<1>2. IInv /\ [Next]_vars => IInv'
  BY TypeOKStep, SealInvInductive DEF IInv
<1>3. IInv => NoSendOnSealedQueue
  BY DEF IInv, SealInv, NoSendOnSealedQueue, Busy, TypeOK
<1> QED BY <1>1, <1>2, <1>3, PTL DEF Spec, SpecSilentPeer

-----------------------------------------------------------------------------
(* Counting the data frames handed to the session.                         *)

\* The positions of the data frames in a sequence of frames.
DataPositions(s) == {i \in DOMAIN s : s[i].type = "data"}

(* The number of data frames in a sequence of frames is a natural number. *)
LEMMA DataCountType ==
    ASSUME NEW s \in Seq(Frames)
    PROVE  /\ IsFiniteSet(DataPositions(s))
           /\ DataCount(s) \in Nat
<1>1. DataPositions(s) \in SUBSET (1..Len(s))
  BY DEF DataPositions
<1>2. IsFiniteSet(DataPositions(s))
  BY <1>1, FS_Interval, FS_Subset
<1> QED BY <1>2, FS_CardinalityType DEF DataCount, DataPositions

(* Appending a frame adds one to the count exactly when it is a data      *)
(* frame.                                                                  *)
LEMMA DataCountAppend ==
    ASSUME NEW s \in Seq(Frames), NEW f \in Frames
    PROVE  DataCount(Append(s, f)) =
              DataCount(s) + (IF f.type = "data" THEN 1 ELSE 0)
<1>1. CASE f.type = "data"
  <2>1. DataPositions(Append(s, f)) = DataPositions(s) \cup {Len(s) + 1}
    BY <1>1 DEF DataPositions
  <2>2. Len(s) + 1 \notin DataPositions(s)
    BY DEF DataPositions
  <2> QED BY <1>1, <2>1, <2>2, DataCountType, FS_AddElement
          DEF DataCount, DataPositions
<1>2. CASE f.type # "data"
  <2>1. DataPositions(Append(s, f)) = DataPositions(s)
    BY <1>2 DEF DataPositions
  <2>2. DataCount(Append(s, f)) = DataCount(s)
    BY <2>1 DEF DataCount, DataPositions
  <2>3. DataCount(s) \in Nat
    BY DataCountType
  <2> QED BY <1>2, <2>2, <2>3
<1> QED BY <1>1, <1>2

\* The inductive strengthening of FlowControl: the credit never drops below
\* -1 and is non-negative whenever the loop is about to receive or write;
\* the loop holds a frame only between receiving and writing it; and the
\* data frames handed over, plus the frame held or dropped while the credit
\* was negative, are covered by the frames window.sub(1) has counted.
FlowInv ==
    /\ credit >= -1
    /\ loopPc \in {"loop", "write"} => credit >= 0
    /\ loopPc \notin {"waitWindow", "waitWindowClosing", "write"} => pending = 0
    /\ DataCount(Emitted) + (IF credit < 0 \/ pending # 0 THEN 1 ELSE 0)
          <= Window + acked - credit

\* The variables FlowInv reads.
FlowVars == <<credit, loopPc, pending, out, wire, acked>>

(* The session writer moves the head of out onto the wire: the frames     *)
(* handed to the session are the same.                                     *)
LEMMA EmittedSessionWrite ==
    ASSUME NEW w0 \in Seq(Frames), NEW o0 \in Seq(Frames), o0 # <<>>
    PROVE  Append(w0, Head(o0)) \o Tail(o0) = w0 \o o0
OBVIOUS

(* A frame written into out is the last frame handed to the session.      *)
LEMMA EmittedAppend ==
    ASSUME NEW w0 \in Seq(Frames), NEW o0 \in Seq(Frames), NEW f \in Frames
    PROVE  w0 \o Append(o0, f) = Append(w0 \o o0, f)
OBVIOUS

(* FlowInv holds initially: nothing emitted, the credit is the window.    *)
LEMMA FlowInvInit == Init => FlowInv
<1> SUFFICES ASSUME Init PROVE FlowInv
  OBVIOUS
<1>1. DataCount(Emitted) = 0
  <2>1. DataPositions(Emitted) = {}
    BY DEF Init, Emitted, DataPositions
  <2> QED BY <2>1, FS_EmptySet DEF DataCount, DataPositions
<1> QED BY <1>1 DEF Init, FlowInv

(* A step that leaves the loop, the credit, out, the wire and the ACKs    *)
(* alone preserves FlowInv.                                                *)
LEMMA FlowInvFrame ==
    ASSUME FlowInv, UNCHANGED FlowVars PROVE FlowInv'
BY DEF FlowInv, FlowVars, Emitted

(* Every step preserves FlowInv. Only the send loop, the session writer   *)
(* and the peer's ACKs touch what it reads: window.sub(1) on receiving a   *)
(* frame, the wait for a non-negative credit before writing it, the write *)
(* into out or its drop, and window.add(k) on an ACK.                      *)
LEMMA FlowInvStep == TypeOK /\ FlowInv /\ [Next]_vars => FlowInv'
<1> SUFFICES ASSUME TypeOK, FlowInv, [Next]_vars PROVE FlowInv'
  OBVIOUS
<1>0. Emitted \in Seq(Frames)
  BY DEF TypeOK, Emitted
<1>00. DataCount(Emitted) \in Nat
  BY <1>0, DataCountType
<1>1. ASSUME NEW w \in Writers, WriterActions(w) PROVE FlowInv'
  <2>1. UNCHANGED FlowVars
    BY <1>1 DEF WriterActions, Send, Enqueue, SendStopTimer, SendDrainTimer,
                SendResetTimer, SendSelectEnqueue, SendSelectTimeout,
                WriterReturn, FlowVars
  <2> QED BY <2>1, FlowInvFrame
<1>2. ASSUME NEW c \in Closers, CloserActions(c) PROVE FlowInv'
  <2>1. UNCHANGED FlowVars
    BY <1>2 DEF CloserActions, Close, CloseStopTimer, CloseDrainTimer,
                CloseWait, FlowVars
  <2> QED BY <2>1, FlowInvFrame
<1>3. CASE Seal \/ CloseTimeout \/ TimerFire \/ UNCHANGED vars
  <2>1. UNCHANGED FlowVars
    BY <1>3 DEF Seal, CloseTimeout, TimerFire, vars, FlowVars
  <2> QED BY <2>1, FlowInvFrame
<1>4. CASE SessionWrite
  <2>1. Emitted' = Emitted
    BY <1>4, EmittedSessionWrite DEF SessionWrite, Emitted, TypeOK
  <2> QED BY <1>4, <2>1 DEF SessionWrite, FlowInv
<1>5. CASE PeerAck
  <2>1. PICK k \in 1..(DataCount(wire) - acked) :
           /\ acked' = acked + k
           /\ credit' = credit + k
           /\ UNCHANGED <<loopPc, pending, out, wire>>
    BY <1>5 DEF PeerAck
  <2>2. Emitted' = Emitted
    BY <2>1 DEF Emitted
  <2>3. DataCount(wire) \in Nat
    BY DataCountType DEF TypeOK
  <2>4. /\ credit' >= -1
        /\ loopPc' \in {"loop", "write"} => credit' >= 0
        /\ loopPc' \notin {"waitWindow", "waitWindowClosing", "write"}
              => pending' = 0
    BY <2>1 DEF FlowInv, TypeOK
  <2>5. DataCount(Emitted') + (IF credit' < 0 \/ pending' # 0 THEN 1 ELSE 0)
          <= Window + acked' - credit'
    <3>1. k \in Nat /\ credit \in Int /\ acked \in Nat
      BY <2>1, <2>3 DEF TypeOK
    <3>2. Window + acked' - credit' = Window + acked - credit
      BY <2>1, <3>1
    <3>3. (IF credit' < 0 \/ pending' # 0 THEN 1 ELSE 0)
            <= (IF credit < 0 \/ pending # 0 THEN 1 ELSE 0)
      BY <2>1, <3>1
    <3>4. DataCount(Emitted') = DataCount(Emitted)
      BY <2>2
    <3>5. DataCount(Emitted) + (IF credit < 0 \/ pending # 0 THEN 1 ELSE 0)
            <= Window + acked - credit
      BY DEF FlowInv
    <3> QED BY <3>1, <3>2, <3>3, <3>4, <3>5, <1>00
  <2> QED BY <2>4, <2>5 DEF FlowInv
<1>6. CASE LoopRecvFrame
  <2>1. Head(in) \in 1..MaxSends
    BY <1>6 DEF LoopRecvFrame, TypeOK
  <2>2. Emitted' = Emitted
    BY <1>6 DEF LoopRecvFrame, Emitted
  <2> QED BY <1>6, <1>0, <2>1, <2>2, DataCountType
          DEF LoopRecvFrame, FlowInv, TypeOK
<1>7. CASE LoopRecvClosed \/ LoopCloseRequested \/ LoopTimedOut
           \/ LoopWindowAvailable \/ LoopExit
  <2>1. Emitted' = Emitted /\ acked' = acked
    BY <1>7 DEF LoopRecvClosed, LoopCloseRequested, LoopTimedOut,
                LoopWindowAvailable, LoopExit, Emitted
  <2>2. CASE LoopRecvClosed
    BY <2>1, <2>2, <1>0, DataCountType DEF LoopRecvClosed, FlowInv
  <2>3. CASE LoopCloseRequested
    BY <2>1, <2>3, <1>0, DataCountType DEF LoopCloseRequested, FlowInv
  <2>4. CASE LoopTimedOut
    BY <2>1, <2>4, <1>0, DataCountType DEF LoopTimedOut, FlowInv, TypeOK
  <2>5. CASE LoopWindowAvailable
    BY <2>1, <2>5, <1>0, DataCountType DEF LoopWindowAvailable, FlowInv
  <2>6. CASE LoopExit
    BY <2>1, <2>6, <1>0, DataCountType DEF LoopExit, FlowInv
  <2> QED BY <1>7, <2>2, <2>3, <2>4, <2>5, <2>6
<1>8. CASE LoopWriteOut
  <2>1. FrameToWrite \in Frames
    BY <1>8 DEF LoopWriteOut, FrameToWrite, Frames, DataFrame, RSTFrame,
                TypeOK
  <2>2. Emitted' = Append(Emitted, FrameToWrite)
    BY <1>8, <2>1, EmittedAppend DEF LoopWriteOut, Emitted, TypeOK
  <2>3. DataCount(Emitted') =
           DataCount(Emitted) + (IF FrameToWrite.type = "data" THEN 1 ELSE 0)
    BY <2>1, <2>2, <1>0, DataCountAppend
  <2>4. CASE loopPc = "write"
    <3>1. FrameToWrite.type = "data" /\ pending # 0 /\ credit >= 0
      BY <2>4 DEF FrameToWrite, DataFrame, FlowInv, TypeOK
    <3> QED BY <1>8, <2>3, <2>4, <3>1, <1>00
            DEF LoopWriteOut, AfterWrite, FlowInv, TypeOK
  <2>5. CASE loopPc = "writeRST"
    <3>1. FrameToWrite.type # "data" /\ pending = 0
      BY <2>5 DEF FrameToWrite, RSTFrame, FlowInv
    <3> QED BY <1>8, <2>3, <2>5, <3>1, <1>0, DataCountType
            DEF LoopWriteOut, AfterWrite, FlowInv
  <2> QED BY <1>8, <2>4, <2>5 DEF LoopWriteOut
<1>9. CASE LoopWriteDropped
  <2>1. Emitted' = Emitted
    BY <1>9 DEF LoopWriteDropped, Emitted
  <2> QED BY <1>9, <2>1, <1>0, DataCountType
          DEF LoopWriteDropped, AfterWrite, FlowInv, TypeOK
<1> QED BY NextCases, <1>1, <1>2, <1>3, <1>4, <1>5, <1>6, <1>7, <1>8, <1>9
        DEF LoopStep

(* Flow control holds for every window size, writer and closer count and *)
(* out capacity: the send loop hands the session no more data frames than  *)
(* the initial window plus the frames the peer has ACKed. It rests on the  *)
(* loop's window.sub(1) before each write and its wait on windowAvailable  *)
(* for a non-negative credit (sendbuffer.go:82-120).                       *)
THEOREM WindowRespected == Spec => []FlowControl
<1>1. Init => TypeOK /\ FlowInv
  BY TypeOKInit, FlowInvInit
<1>2. TypeOK /\ FlowInv /\ [Next]_vars => TypeOK' /\ FlowInv'
  BY TypeOKStep, FlowInvStep
<1>3. TypeOK /\ FlowInv => FlowControl
  <2> SUFFICES ASSUME TypeOK, FlowInv PROVE FlowControl
    OBVIOUS
  <2>1. Emitted \in Seq(Frames)
    BY DEF TypeOK, Emitted
  <2>2. DataCount(Emitted) \in Nat
    BY <2>1, DataCountType
  <2> QED BY <2>2 DEF FlowInv, FlowControl, TypeOK
<1> QED BY <1>1, <1>2, <1>3, PTL DEF Spec, SpecSilentPeer

-----------------------------------------------------------------------------
(***************************************************************************)
(* RSTFinal. The RST frame is written only by the deferred function, from *)
(* writeRST, after which the loop is done and nothing writes into out     *)
(* again. RSTInv says an RST among the frames handed to the session means *)
(* the loop is done; the session writer only moves frames from out onto   *)
(* the wire, which leaves the stream of handed-over frames as it is.      *)
(***************************************************************************)
RSTInv == RSTEmitted => loopPc = "done"

LEMMA RSTInvInit == Init => RSTInv
BY DEF Init, RSTInv, RSTEmitted, Emitted

(* A step that leaves out, the wire and the loop alone keeps RSTInv and   *)
(* the handed-over frames.                                                 *)
LEMMA RSTUntouched ==
    ASSUME RSTInv, UNCHANGED <<out, wire, loopPc>>
    PROVE  RSTInv' /\ Emitted' = Emitted
BY DEF RSTInv, RSTEmitted, Emitted

(* Every step of the send loop starts from a state other than done.        *)
LEMMA LoopNotDone == LoopStep => loopPc # "done"
BY DEF LoopStep, LoopRecvFrame, LoopRecvClosed, LoopCloseRequested,
       LoopTimedOut, LoopWindowAvailable, LoopWriteOut, LoopWriteDropped,
       LoopExit

(* Every step keeps RSTInv, and once the RST has been handed over it      *)
(* leaves the handed-over frames unchanged.                                *)
LEMMA RSTInvStep ==
    TypeOK /\ RSTInv /\ [Next]_vars =>
        RSTInv' /\ (RSTEmitted => Emitted' = Emitted)
<1> SUFFICES ASSUME TypeOK, RSTInv, [Next]_vars
             PROVE  RSTInv' /\ (RSTEmitted => Emitted' = Emitted)
  OBVIOUS
<1>1. ASSUME NEW w \in Writers, WriterActions(w)
      PROVE  UNCHANGED <<out, wire, loopPc>>
  BY <1>1 DEF WriterActions, Send, Enqueue, SendStopTimer, SendDrainTimer,
              SendResetTimer, SendSelectEnqueue, SendSelectTimeout,
              WriterReturn
<1>2. ASSUME NEW c \in Closers, CloserActions(c)
      PROVE  UNCHANGED <<out, wire, loopPc>>
  BY <1>2 DEF CloserActions, Close, CloseStopTimer, CloseDrainTimer,
              CloseWait
<1>3. ASSUME Seal \/ CloseTimeout \/ PeerAck \/ TimerFire \/ UNCHANGED vars
      PROVE  UNCHANGED <<out, wire, loopPc>>
  BY <1>3 DEF Seal, CloseTimeout, PeerAck, TimerFire, vars
<1>4. CASE SessionWrite
  <2>1. Emitted' = Emitted
    BY <1>4, EmittedSessionWrite DEF SessionWrite, Emitted, TypeOK
  <2> QED BY <1>4, <2>1 DEF SessionWrite, RSTInv, RSTEmitted
<1>5. CASE LoopStep
  <2>1. ~RSTEmitted
    BY <1>5, LoopNotDone DEF RSTInv
  <2>2. CASE LoopWriteOut
    <3>1. FrameToWrite \in Frames
      BY <2>2 DEF LoopWriteOut, FrameToWrite, Frames, DataFrame, RSTFrame,
                  TypeOK
    <3>2. Emitted' = Append(Emitted, FrameToWrite)
      BY <2>2, <3>1, EmittedAppend DEF LoopWriteOut, Emitted, TypeOK
    <3>3. CASE loopPc = "write"
      <4>1. FrameToWrite # RSTFrame
        BY <3>3 DEF FrameToWrite, DataFrame, RSTFrame
      <4>2. ~RSTEmitted'
        BY <2>1, <3>2, <4>1 DEF RSTEmitted, Emitted, TypeOK
      <4> QED BY <2>1, <4>2 DEF RSTInv
    <3>4. CASE loopPc = "writeRST"
      BY <2>1, <2>2, <3>4 DEF LoopWriteOut, AfterWrite, RSTInv
    <3> QED BY <2>2, <3>3, <3>4 DEF LoopWriteOut
  <2>3. CASE ~LoopWriteOut
    <3>1. UNCHANGED <<out, wire>>
      BY <1>5, <2>3 DEF LoopStep, LoopRecvFrame, LoopRecvClosed,
                        LoopCloseRequested, LoopTimedOut,
                        LoopWindowAvailable, LoopWriteDropped, LoopExit
    <3> QED BY <2>1, <3>1 DEF RSTInv, RSTEmitted, Emitted
  <2> QED BY <2>2, <2>3
<1>6. ASSUME UNCHANGED <<out, wire, loopPc>>
      PROVE  RSTInv' /\ (RSTEmitted => Emitted' = Emitted)
  BY <1>6, RSTUntouched
<1> QED BY NextCases, <1>1, <1>2, <1>3, <1>4, <1>5, <1>6

(* The deferred RST ends the stream, for every value of the constants:    *)
(* once the RST frame is handed to the session no step changes the frames *)
(* handed over, whether the loop returned on the close request or on the  *)
(* close timeout (sendbuffer.go:62-68, the loop's returns at 102-115).    *)
THEOREM RSTEndsStream == Spec => RSTFinal
<1>1. Init => TypeOK /\ RSTInv
  BY TypeOKInit, RSTInvInit
<1>2. TypeOK /\ RSTInv /\ [Next]_vars => TypeOK' /\ RSTInv'
  BY TypeOKStep, RSTInvStep
<1>3. TypeOK /\ RSTInv /\ [Next]_vars => [RSTEmitted => UNCHANGED Emitted]_vars
  BY RSTInvStep
<1> QED BY <1>1, <1>2, <1>3, PTL DEF Spec, SpecSilentPeer, RSTFinal

=============================================================================
