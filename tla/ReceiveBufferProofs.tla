------------------------- MODULE ReceiveBufferProofs -------------------------
(***************************************************************************)
(* Proofs about the receive buffer of src/sendbuffer.go, for every window  *)
(* size and every bound: the type invariant, that submit never sends on   *)
(* the closed buf.in, that submit, which holds buf.mx.RLock while it puts *)
(* a frame on buf.in, never finds the queue full when the peer keeps to   *)
(* the window, and that reads deliver the peer's bytes in order.          *)
(***************************************************************************)
EXTENDS ReceiveBuffer, SequenceTheorems, TLAPS

USE RecvAssumption

\* The steps of the read goroutine.
ReadActions ==
    \/ ReadStart \/ ReadCopy \/ ReadWaitFrame \/ ReadWaitEOF
    \/ ReadWaitTimeout \/ ReadReturn

(* Next, unfolded into its actions.                                        *)
LEMMA NextCases ==
    ASSUME [Next]_vars
    PROVE  \/ Submit \/ SubmitEnqueue
           \/ \E c \in Closers : Close(c)
           \/ ReadActions
           \/ UNCHANGED vars
BY DEF Next, ReadStep, ReadActions

-----------------------------------------------------------------------------
\* The bytes a read has copied plus the room left in b never exceed the
\* length of b: what bounds the count read returns.
ReadBound == totalN + room <= MaxReadLen

\* The type invariant with that bound: the inductive form of TypeOK.
TypeInv == TypeOK /\ ReadBound

(* newReceiveBuffer starts empty and well typed.                           *)
LEMMA TypeOKInit == Init => TypeInv
<1> SUFFICES ASSUME Init PROVE TypeInv
  OBVIOUS
<1>1. /\ in \in Seq(Seq(Nat \ {0})) /\ Len(in) <= Window
      /\ subFrame \in Seq(Nat \ {0}) /\ current \in Seq(Nat \ {0})
      /\ delivered \in Seq(Nat \ {0})
  BY DEF Init
<1>2. /\ sent \in Nat /\ frames \in 0..MaxFrames /\ accepted \in Nat
      /\ unacked \in Nat /\ taken \in Nat /\ acked \in Nat
      /\ room \in 0..MaxReadLen /\ totalN \in 0..MaxReadLen
      /\ reads \in 0..MaxReads
  BY DEF Init
<1>3. /\ inClosed \in BOOLEAN /\ closed \in BOOLEAN /\ rlocked \in BOOLEAN
      /\ subPc \in {"idle", "enqueue"}
      /\ rPc \in {"idle", "copy", "wait", "waitTimed", "ret"}
      /\ deadline \in {"zero", "past", "future"}
  BY DEF Init
<1>4. result \in [n : 0..MaxReadLen, err : Errors]
  BY DEF Init, Errors
<1>5. cPc \in [Closers -> {"idle", "returned"}]
  BY DEF Init
<1>6. ReadBound
  BY DEF Init, ReadBound
<1> QED BY <1>1, <1>2, <1>3, <1>4, <1>5, <1>6 DEF TypeOK, TypeInv

(* read's copy loop keeps every counter and sequence well typed: the bytes *)
(* copied out are the first n of current, n at most the room left in b,   *)
(* and what is left of current is the rest of it.                          *)
LEMMA ReadCopyType == TypeInv /\ ReadCopy => TypeInv'
<1> SUFFICES ASSUME TypeOK, ReadBound, ReadCopy PROVE TypeOK' /\ ReadBound'
  BY DEF TypeInv
<1> DEFINE n == IF room < Len(current) THEN room ELSE Len(current)
<1>1. /\ n \in 0..room
      /\ n \in 0..Len(current)
  BY DEF TypeOK
<1>2. /\ delivered' = delivered \o SubSeq(current, 1, n)
      /\ totalN' = totalN + n
      /\ room' = room - n
      /\ UNCHANGED <<acked, deadline, reads>>
      /\ UNCHANGED SubmitVars
  BY DEF ReadCopy
<1>3. /\ SubSeq(current, 1, n) \in Seq(Nat \ {0})
      /\ SubSeq(current, n + 1, Len(current)) \in Seq(Nat \ {0})
  BY <1>1 DEF TypeOK
<1>4. /\ delivered' \in Seq(Nat \ {0})
      /\ totalN' \in 0..MaxReadLen
      /\ room' \in 0..MaxReadLen
      /\ totalN + n \in 0..MaxReadLen
      /\ ReadBound'
  BY <1>1, <1>2, <1>3 DEF TypeOK, ReadBound
\* What the three branches have to establish, beyond <1>2 and <1>4.
<1> DEFINE Rest ==
      /\ in' \in Seq(Seq(Nat \ {0})) /\ Len(in') <= Window
      /\ current' \in Seq(Nat \ {0})
      /\ unacked' \in Nat /\ taken' \in Nat
      /\ rPc' \in {"idle", "copy", "wait", "waitTimed", "ret"}
      /\ result' \in [n : 0..MaxReadLen, err : Errors]
<1>5. ASSUME n = room PROVE Rest
  <2>1. /\ current' = SubSeq(current, n + 1, Len(current))
        /\ rPc' = "ret"
        /\ result' = [n |-> totalN + n, err |-> "nil"]
        /\ UNCHANGED <<in, unacked, taken>>
    BY <1>5 DEF ReadCopy
  <2> QED BY <1>3, <1>4, <2>1 DEF TypeOK, Errors
<1>6. ASSUME n # room, in # <<>> PROVE Rest
  <2>1. /\ OnFrame
        /\ UNCHANGED <<rPc, result>>
    BY <1>6 DEF ReadCopy
  <2> QED BY <1>6, <2>1 DEF OnFrame, TypeOK
<1>7. ASSUME n # room, in = <<>> PROVE Rest
  <2>1. /\ current' = <<>>
        /\ UNCHANGED <<in, unacked, taken>>
        /\ rPc' \in {"ret", "wait", "waitTimed"}
        /\ result' \in {result, [n |-> totalN + n, err |-> "EOF"],
                         [n |-> totalN + n, err |-> "nil"]}
    BY <1>7 DEF ReadCopy
  <2> QED BY <1>4, <2>1 DEF TypeOK, Errors
<1>8. Rest
  BY <1>5, <1>6, <1>7
<1> QED BY <1>2, <1>4, <1>8 DEF TypeOK, SubmitVars

(* Every step of submit, close and read preserves the type invariant; in  *)
(* particular buf.in never holds more than windowSize frames.             *)
LEMMA TypeOKStep == TypeInv /\ [Next]_vars => TypeInv'
<1> SUFFICES ASSUME TypeOK, ReadBound, [Next]_vars PROVE TypeInv'
  BY DEF TypeInv
<1>1. CASE Submit
  <2>1. PICK len \in 1..MaxFrameLen :
           LET f == [k \in 1..len |-> sent + k] IN
           /\ sent' = sent + len
           /\ frames' = frames + 1
           /\ IF closed
                THEN UNCHANGED <<subPc, subFrame, rlocked>>
                ELSE /\ subPc' = "enqueue"
                     /\ subFrame' = f
                     /\ rlocked' = TRUE
    BY <1>1 DEF Submit
  <2>2. [k \in 1..len |-> sent + k] \in Seq(Nat \ {0})
    BY DEF TypeOK
  <2>3. sent' \in Nat /\ frames' \in 0..MaxFrames
    BY <1>1, <2>1 DEF Submit, TypeOK
  <2>4. /\ subPc' \in {"idle", "enqueue"} /\ rlocked' \in BOOLEAN
        /\ subFrame' \in Seq(Nat \ {0})
    BY <2>1, <2>2 DEF TypeOK
  <2>5. UNCHANGED <<in, inClosed, closed, accepted, cPc>>
    BY <1>1 DEF Submit
  <2>6. UNCHANGED ReaderVars
    BY <1>1 DEF Submit
  <2> QED BY <2>3, <2>4, <2>5, <2>6 DEF TypeOK, TypeInv, ReadBound, ReaderVars
<1>2. CASE SubmitEnqueue
  <2>1. in' \in Seq(Seq(Nat \ {0})) /\ Len(in') <= Window
    BY <1>2 DEF SubmitEnqueue, TypeOK
  <2>2. accepted' \in Nat /\ subFrame' \in Seq(Nat \ {0})
    BY <1>2 DEF SubmitEnqueue, TypeOK
  <2>3. subPc' \in {"idle", "enqueue"} /\ rlocked' \in BOOLEAN
    BY <1>2 DEF SubmitEnqueue
  <2>4. UNCHANGED <<inClosed, closed, sent, frames, cPc>>
    BY <1>2 DEF SubmitEnqueue
  <2>5. UNCHANGED ReaderVars
    BY <1>2 DEF SubmitEnqueue
  <2> QED BY <2>1, <2>2, <2>3, <2>4, <2>5 DEF TypeOK, TypeInv, ReadBound,
                                              ReaderVars
<1>3. ASSUME NEW c \in Closers, Close(c) PROVE TypeInv'
  BY <1>3 DEF Close, TypeOK, TypeInv, ReadBound, ReaderVars
<1>4. CASE ReadStart
  BY <1>4 DEF ReadStart, TypeOK, TypeInv, ReadBound, SubmitVars
<1>5. CASE ReadCopy
  BY <1>5, ReadCopyType DEF TypeInv
<1>6. CASE ReadWaitFrame
  BY <1>6 DEF ReadWaitFrame, OnFrame, TypeOK, TypeInv, ReadBound, SubmitVars
<1>7. CASE ReadWaitEOF \/ ReadWaitTimeout
  <2>1. /\ result' \in [n : 0..MaxReadLen, err : Errors]
        /\ rPc' \in {"idle", "copy", "wait", "waitTimed", "ret"}
    BY <1>7 DEF ReadWaitEOF, ReadWaitTimeout, TypeOK, ReadBound, Errors
  <2>2. UNCHANGED <<in, current, unacked, acked, taken, delivered, room,
                    deadline, totalN, reads>>
    BY <1>7 DEF ReadWaitEOF, ReadWaitTimeout
  <2>3. UNCHANGED SubmitVars
    BY <1>7 DEF ReadWaitEOF, ReadWaitTimeout
  <2> QED BY <2>1, <2>2, <2>3 DEF TypeOK, TypeInv, ReadBound, SubmitVars
<1>8. CASE ReadReturn
  BY <1>8 DEF ReadReturn, TypeOK, TypeInv, ReadBound, SubmitVars
<1>9. CASE UNCHANGED vars
  BY <1>9 DEF vars, TypeOK, TypeInv, ReadBound
<1> QED BY NextCases, <1>1, <1>2, <1>3, <1>4, <1>5, <1>6, <1>7, <1>8, <1>9
        DEF ReadActions

(* Type correctness holds in every reachable state of the receive buffer.  *)
THEOREM RecvTypeCorrect == Spec => []TypeOK
<1>1. TypeInv => TypeOK
  BY DEF TypeInv
<1> QED BY <1>1, TypeOKInit, TypeOKStep, PTL DEF Spec

-----------------------------------------------------------------------------
(* The lock discipline of submit and close.                                *)

\* The strengthening of NoSubmitOnClosedQueue: the session reader holds the
\* read lock exactly while it is inside "buf.in <- frame", and buf.in is
\* closed exactly when buf.closed is set (both under the write lock).
SubmitLockInv ==
    /\ rlocked <=> subPc = "enqueue"
    /\ inClosed <=> closed
    /\ inClosed => subPc # "enqueue"

LEMMA SubmitLockInit == Init => SubmitLockInv
BY DEF Init, SubmitLockInv

LEMMA SubmitLockStep ==
    SubmitLockInv /\ [Next]_vars => SubmitLockInv'
<1> SUFFICES ASSUME SubmitLockInv, [Next]_vars PROVE SubmitLockInv'
  OBVIOUS
<1>1. CASE Submit
  \* submit checks buf.closed under RLock: on a closed buffer it drops the
  \* frame, otherwise buf.in is still open when it starts the send.
  <2>1. /\ subPc = "idle" /\ ~rlocked
        /\ IF closed THEN UNCHANGED <<subPc, rlocked>>
                     ELSE subPc' = "enqueue" /\ rlocked' = TRUE
        /\ UNCHANGED <<inClosed, closed>>
    BY <1>1 DEF Submit
  <2> QED BY <2>1 DEF SubmitLockInv
<1>2. CASE SubmitEnqueue
  BY <1>2 DEF SubmitEnqueue, SubmitLockInv
<1>3. ASSUME NEW c \in Closers, Close(c) PROVE SubmitLockInv'
  \* close takes the write lock: no submit holds the read lock then.
  <2>1. /\ ~rlocked /\ closed' /\ inClosed'
        /\ UNCHANGED <<subPc, rlocked>>
    BY <1>3 DEF Close
  <2> QED BY <2>1 DEF SubmitLockInv
<1>4. CASE ReadActions
  <2>1. UNCHANGED SubmitVars
    BY <1>4 DEF ReadActions, ReadStart, ReadCopy, ReadWaitFrame, ReadWaitEOF,
                ReadWaitTimeout, ReadReturn
  <2> QED BY <2>1 DEF SubmitVars, SubmitLockInv
<1>5. CASE UNCHANGED vars
  BY <1>5 DEF vars, SubmitLockInv
<1> QED BY NextCases, <1>1, <1>2, <1>3, <1>4, <1>5

(* submit never sends on a closed buf.in, for every window and number of  *)
(* closers: it holds buf.mx.RLock from its check of buf.closed to the end *)
(* of "buf.in <- frame" (sendbuffer.go:213-222), and close seals under     *)
(* mx.Lock, so close(buf.in) cannot run while the send is in progress.    *)
THEOREM SubmitSealedSafe == Spec => []NoSubmitOnClosedQueue
<1>1. SubmitLockInv => NoSubmitOnClosedQueue
  BY DEF SubmitLockInv, NoSubmitOnClosedQueue
<1> QED BY <1>1, SubmitLockInit, SubmitLockStep, PTL DEF Spec

-----------------------------------------------------------------------------
(* The window and the ACKs.                                                *)

\* The frame submit is about to put on buf.in, if any.
Pending == IF subPc = "enqueue" THEN 1 ELSE 0

\* The inductive strengthening of SubmitNeverBlocks: the frames read took
\* are exactly those ACKed or still unacked; the peer has
\* sent no more than the window plus the frames ACKed; and every frame it
\* sent was taken by read, is queued, is being submitted, or was dropped on
\* a closed buffer.
CreditInv ==
    /\ acked + unacked = taken
    /\ frames <= Window + acked
    /\ taken + Len(in) + Pending <= frames
    /\ rPc = "idle" => unacked < AckInterval

\* The variables CreditInv reads.
CreditVars == <<acked, unacked, taken, frames, in, subPc, rPc>>

LEMMA CreditInvInit == Init => CreditInv
BY DEF Init, CreditInv, Pending, AckInterval

LEMMA CreditInvFrame ==
    ASSUME CreditInv, UNCHANGED CreditVars PROVE CreditInv'
BY DEF CreditInv, CreditVars, Pending

(* onFrame takes the head of buf.in and counts it unacked.                 *)
LEMMA OnFrameCredit ==
    ASSUME TypeOK, CreditInv, in # <<>>, OnFrame,
           UNCHANGED <<acked, frames, subPc>>, rPc' # "idle"
    PROVE  CreditInv'
BY DEF OnFrame, CreditInv, Pending, TypeOK

(* Every step keeps the credit accounting: submit only within the window, *)
(* the enqueue moves the pending frame into buf.in, onFrame moves a frame *)
(* from buf.in to the unacked count, and read's deferred function moves   *)
(* the unacked count into an ACK once it reaches ackInterval.             *)
LEMMA CreditInvStep == TypeOK /\ CreditInv /\ [Next]_vars => CreditInv'
<1> SUFFICES ASSUME TypeOK, CreditInv, [Next]_vars PROVE CreditInv'
  OBVIOUS
<1>1. CASE Submit
  <2>1. PICK len \in 1..MaxFrameLen :
           /\ frames' = frames + 1
           /\ IF closed THEN UNCHANGED subPc ELSE subPc' = "enqueue"
    BY <1>1 DEF Submit
  <2>2. /\ subPc = "idle" /\ frames < Window + acked
        /\ UNCHANGED <<in, acked, unacked, taken, rPc>>
    BY <1>1 DEF Submit, PeerMaySend, ReaderVars
  <2> QED BY <2>1, <2>2 DEF CreditInv, Pending, TypeOK
<1>2. CASE SubmitEnqueue
  BY <1>2 DEF SubmitEnqueue, ReaderVars, CreditInv, Pending, TypeOK
<1>3. ASSUME NEW c \in Closers, Close(c) PROVE CreditInv'
  <2>1. UNCHANGED CreditVars
    BY <1>3 DEF Close, ReaderVars, CreditVars
  <2> QED BY <2>1, CreditInvFrame
<1>4. CASE ReadStart
  BY <1>4 DEF ReadStart, SubmitVars, CreditInv, Pending
<1>5. CASE ReadCopy
  <2> DEFINE n == IF room < Len(current) THEN room ELSE Len(current)
  <2>1. UNCHANGED <<acked, frames, subPc>>
    BY <1>5 DEF ReadCopy, SubmitVars
  <2>2. CASE n = room
    BY <1>5, <2>1, <2>2 DEF ReadCopy, CreditInv, Pending
  <2>3. CASE n # room /\ in # <<>>
    <3>1. OnFrame /\ rPc' = rPc /\ rPc = "copy"
      BY <1>5, <2>3 DEF ReadCopy
    <3> QED BY <2>1, <2>3, <3>1, OnFrameCredit
  <2>4. CASE n # room /\ in = <<>>
    <3>1. UNCHANGED <<in, unacked, taken>> /\ rPc' # "idle"
      BY <1>5, <2>4 DEF ReadCopy
    <3> QED BY <2>1, <3>1 DEF CreditInv, Pending
  <2> QED BY <2>2, <2>3, <2>4
<1>6. CASE ReadWaitFrame
  <2>1. /\ OnFrame /\ in # <<>> /\ rPc' = "copy"
        /\ UNCHANGED <<acked, frames, subPc>>
    BY <1>6 DEF ReadWaitFrame, SubmitVars
  <2> QED BY <2>1, OnFrameCredit
<1>7. CASE ReadWaitEOF \/ ReadWaitTimeout
  BY <1>7 DEF ReadWaitEOF, ReadWaitTimeout, SubmitVars, CreditInv, Pending
<1>8. CASE ReadReturn
  <2>1. UNCHANGED <<in, taken, frames, subPc>> /\ rPc' = "idle"
    BY <1>8 DEF ReadReturn, SubmitVars
  <2>2. CASE unacked >= AckInterval
    BY <1>8, <2>1, <2>2 DEF ReadReturn, CreditInv, Pending, TypeOK,
                            AckInterval
  <2>3. CASE unacked < AckInterval
    <3>1. UNCHANGED <<acked, unacked>>
      BY <1>8, <2>3 DEF ReadReturn, TypeOK, AckInterval
    <3> QED BY <2>1, <2>3, <3>1 DEF CreditInv, Pending
  <2> QED BY <2>2, <2>3 DEF TypeOK, AckInterval
<1>9. CASE UNCHANGED vars
  <2>1. UNCHANGED CreditVars
    BY <1>9 DEF vars, CreditVars
  <2> QED BY <2>1, CreditInvFrame
<1> QED BY NextCases, <1>1, <1>2, <1>3, <1>4, <1>5, <1>6, <1>7, <1>8, <1>9
        DEF ReadActions

\* The type invariant and the credit accounting together.
RecvInv == TypeInv /\ CreditInv

LEMMA RecvInvInductive ==
    /\ Init => RecvInv
    /\ RecvInv /\ [Next]_vars => RecvInv'
BY TypeOKInit, TypeOKStep, CreditInvInit, CreditInvStep DEF RecvInv, TypeInv

(* submit never blocks on "buf.in <- frame" while it holds buf.mx.RLock   *)
(* (sendbuffer.go:220), for every window size, as long as the peer sends  *)
(* within its credit: read ACKs a frame only once it has taken it from    *)
(* buf.in, so the peer's credit never exceeds the free slots.             *)
THEOREM SubmitNonBlocking == Spec => []SubmitNeverBlocks
<1>1. RecvInv => SubmitNeverBlocks
  BY DEF RecvInv, TypeInv, CreditInv, Pending, TypeOK, SubmitNeverBlocks
<1> QED BY <1>1, RecvInvInductive, PTL DEF Spec

-----------------------------------------------------------------------------
(***************************************************************************)
(* DeliveryIntegrity. The peer numbers its bytes 1, 2, 3, ...; submit     *)
(* builds each frame from the next len numbers. The strengthening says    *)
(* that delivered, current and every frame queued on buf.in are runs of    *)
(* consecutive numbers, each beginning where the one before it ends, and  *)
(* that the last of them ends at accepted: the bytes read has copied out,  *)
(* the rest of the current frame and the queue hold exactly 1..accepted.   *)
(***************************************************************************)

\* s is the run of numbers b + 1, b + 2, ..., b + Len(s).
Run(s, b) == s = [k \in 1..Len(s) |-> b + k]

LEMMA RunConcat ==
    ASSUME NEW s \in Seq(Nat \ {0}), NEW t \in Seq(Nat \ {0}), NEW b \in Nat,
           Run(s, b), Run(t, b + Len(s))
    PROVE  Run(s \o t, b)
<1>1. s \o t \in Seq(Nat \ {0}) /\ Len(s \o t) = Len(s) + Len(t)
  OBVIOUS
<1>2. \A k \in 1..Len(s) : (s \o t)[k] = b + k
  BY DEF Run
<1>3. \A k \in (Len(s) + 1)..(Len(s) + Len(t)) : (s \o t)[k] = b + k
  <2> SUFFICES ASSUME NEW k \in (Len(s) + 1)..(Len(s) + Len(t))
               PROVE  (s \o t)[k] = b + k
    OBVIOUS
  <2>1. (s \o t)[k] = t[k - Len(s)]
    OBVIOUS
  <2>2. t[k - Len(s)] = b + Len(s) + (k - Len(s))
    BY DEF Run
  <2> QED BY <2>1, <2>2
<1>4. \A k \in 1..Len(s \o t) : (s \o t)[k] = b + k
  BY <1>1, <1>2, <1>3
<1>5. DOMAIN (s \o t) = 1..Len(s \o t)
  BY <1>1
<1>6. [k \in 1..Len(s \o t) |-> b + k] \in Seq(Nat \ {0})
  BY <1>1
<1>7. Len([k \in 1..Len(s \o t) |-> b + k]) = Len(s \o t)
  BY <1>1
<1>8. s \o t = [k \in 1..Len(s \o t) |-> b + k]
  BY <1>1, <1>4, <1>6, <1>7, SeqEqual, Zenon
<1> QED BY <1>8 DEF Run

LEMMA RunPrefix ==
    ASSUME NEW s \in Seq(Nat \ {0}), NEW b \in Nat, NEW n \in 0..Len(s), Run(s, b)
    PROVE  Run(SubSeq(s, 1, n), b)
BY DEF Run

LEMMA RunSuffix ==
    ASSUME NEW s \in Seq(Nat \ {0}), NEW b \in Nat, NEW n \in 0..Len(s), Run(s, b)
    PROVE  Run(SubSeq(s, n + 1, Len(s)), b + n)
BY DEF Run

\* The frames of q are non-empty runs, the first beginning after base and
\* each beginning where the one before it ends.
QueueOK(q, base) ==
    /\ \A j \in 1..Len(q) : Len(q[j]) >= 1 /\ Run(q[j], q[j][1] - 1)
    /\ \A j \in 1..(Len(q) - 1) : q[j + 1][1] = q[j][1] + Len(q[j])
    /\ q # <<>> => q[1][1] = base + 1

\* The last number the frames of q carry, base when there are none.
QEnd(q, base) == IF q = <<>> THEN base ELSE q[Len(q)][1] + Len(q[Len(q)]) - 1

(* A frame of a well-formed queue is a non-empty run of byte numbers.    *)
LEMMA QueueFrame ==
    ASSUME NEW q \in Seq(Seq(Nat \ {0})), NEW base \in Nat, QueueOK(q, base),
           NEW j \in 1..Len(q)
    PROVE  /\ q[j] \in Seq(Nat \ {0}) /\ Len(q[j]) >= 1 /\ q[j][1] \in Nat \ {0}
           /\ Run(q[j], q[j][1] - 1)
<1>1. q[j] \in Seq(Nat \ {0}) /\ Len(q[j]) >= 1 /\ Run(q[j], q[j][1] - 1)
  BY DEF QueueOK
<1>2. q[j][1] \in Nat \ {0}
  BY <1>1
<1> QED BY <1>1, <1>2

(* submit's "buf.in <- frame" with the run that follows the queue's end.  *)
LEMMA QueueAppend ==
    ASSUME NEW q \in Seq(Seq(Nat \ {0})), NEW base \in Nat,
           NEW f \in Seq(Nat \ {0}), QueueOK(q, base), Len(f) >= 1,
           Run(f, QEnd(q, base))
    PROVE  /\ QueueOK(Append(q, f), base)
           /\ QEnd(Append(q, f), base) = QEnd(q, base) + Len(f)
<1> DEFINE e == QEnd(q, base)
<1> DEFINE q2 == Append(q, f)
<1>0. e \in Nat
  <2>1. CASE q = <<>>
    BY <2>1 DEF QEnd
  <2>2. CASE q # <<>>
    <3>1. Len(q) \in 1..Len(q)
      BY <2>2
    <3>2. q[Len(q)] \in Seq(Nat \ {0}) /\ Len(q[Len(q)]) >= 1
      <4>1. q[Len(q)] \in Seq(Nat \ {0})
        BY <3>1
      <4>2. Len(q[Len(q)]) >= 1
        BY <3>1 DEF QueueOK
      <4> QED BY <4>1, <4>2
    <3>3. q[Len(q)][1] \in Nat \ {0}
      BY <3>2
    <3> QED BY <2>2, <3>2, <3>3 DEF QEnd
  <2> QED BY <2>1, <2>2
<1>1. f[1] = e + 1
  <2>1. f = [k \in 1..Len(f) |-> e + k]
    BY DEF Run
  <2> QED BY <2>1
<1>2. Run(f, f[1] - 1)
  BY <1>1, <1>0
<1>3. q2 \in Seq(Seq(Nat \ {0})) /\ Len(q2) = Len(q) + 1 /\ q2[Len(q) + 1] = f
      /\ \A j \in 1..Len(q) : q2[j] = q[j]
  OBVIOUS
<1>4. \A j \in 1..Len(q2) : Len(q2[j]) >= 1 /\ Run(q2[j], q2[j][1] - 1)
  <2> SUFFICES ASSUME NEW j \in 1..Len(q2)
               PROVE  Len(q2[j]) >= 1 /\ Run(q2[j], q2[j][1] - 1)
    OBVIOUS
  <2>1. CASE j = Len(q) + 1
    BY <2>1, <1>2, <1>3
  <2>2. CASE j \in 1..Len(q)
    BY <2>2, <1>3, QueueFrame
  <2> QED BY <2>1, <2>2, <1>3
<1>5. \A j \in 1..(Len(q2) - 1) : q2[j + 1][1] = q2[j][1] + Len(q2[j])
  <2> SUFFICES ASSUME NEW j \in 1..(Len(q2) - 1)
               PROVE  q2[j + 1][1] = q2[j][1] + Len(q2[j])
    OBVIOUS
  <2>1. CASE j = Len(q)
    <3>1. q # <<>> /\ e = q[j][1] + Len(q[j]) - 1
      BY <2>1, <1>3 DEF QEnd
    <3>2. q[j] \in Seq(Nat \ {0}) /\ Len(q[j]) >= 1
      BY <2>1, <3>1 DEF QueueOK
    <3>3. q[j][1] \in Nat
      BY <3>2
    <3>4. q2[j] = q[j] /\ q2[j + 1] = f
      BY <2>1, <1>3, <3>1
    <3>5. q2[j + 1][1] = e + 1
      BY <3>4, <1>1
    <3>6. q2[j][1] + Len(q2[j]) = q[j][1] + Len(q[j])
      BY <3>4
    <3>7. e \in Int /\ q[j][1] \in Int /\ Len(q[j]) \in Int
      BY <1>0, <3>3
    <3> HIDE DEF e, q2
    <3> QED BY <3>1, <3>5, <3>6, <3>7, SMTT(30)
  <2>2. CASE j \in 1..(Len(q) - 1)
    BY <2>2, <1>3 DEF QueueOK
  <2>3. j = Len(q) \/ j \in 1..(Len(q) - 1)
    BY <1>3
  <2> QED BY <2>1, <2>2, <2>3
<1>6. q2 # <<>> => q2[1][1] = base + 1
  <2>1. CASE q = <<>>
    BY <2>1, <1>1, <1>3 DEF QEnd
  <2>2. CASE q # <<>>
    BY <2>2, <1>3 DEF QueueOK
  <2> QED BY <2>1, <2>2
<1>7. QEnd(q2, base) = e + Len(f)
  BY <1>1, <1>3, <1>0 DEF QEnd
<1> QED BY <1>4, <1>5, <1>6, <1>7 DEF QueueOK

(* onFrame's "buf.current = <-buf.in": the head is the run after base,    *)
(* and the rest of the queue follows it.                                   *)
LEMMA QueueTail ==
    ASSUME NEW q \in Seq(Seq(Nat \ {0})), NEW base \in Nat, QueueOK(q, base),
           q # <<>>
    PROVE  /\ Run(Head(q), base) /\ Len(Head(q)) >= 1
           /\ QueueOK(Tail(q), base + Len(Head(q)))
           /\ QEnd(Tail(q), base + Len(Head(q))) = QEnd(q, base)
<1> DEFINE h == Head(q)
<1> DEFINE r == Tail(q)
<1>0. 1 \in 1..Len(q) /\ h = q[1] /\ r \in Seq(Seq(Nat \ {0}))
      /\ Len(r) = Len(q) - 1 /\ \A j \in 1..Len(r) : r[j] = q[j + 1]
  OBVIOUS
<1>1. Len(h) >= 1 /\ Run(h, h[1] - 1) /\ h[1] = base + 1
  BY <1>0, QueueFrame DEF QueueOK
<1>2. Run(h, base)
  BY <1>1
<1>3. \A j \in 1..Len(r) : Len(r[j]) >= 1 /\ Run(r[j], r[j][1] - 1)
  BY <1>0 DEF QueueOK
<1>4. \A j \in 1..(Len(r) - 1) : r[j + 1][1] = r[j][1] + Len(r[j])
  BY <1>0 DEF QueueOK
<1>5. r # <<>> => r[1][1] = base + Len(h) + 1
  <2> SUFFICES ASSUME r # <<>> PROVE r[1][1] = base + Len(h) + 1
    OBVIOUS
  <2>1. Len(q) > 1 /\ r[1] = q[2]
    BY <1>0
  <2>2. q[2][1] = q[1][1] + Len(q[1])
    BY <2>1 DEF QueueOK
  <2>3. r[1][1] = q[2][1]
    BY <2>1
  <2>4. q[1][1] = base + 1 /\ Len(q[1]) \in Nat
    BY <1>0, <1>1
  <2> QED BY <1>0, <2>2, <2>3, <2>4
<1> HIDE DEF h, r
<1>6. QEnd(r, base + Len(h)) = QEnd(q, base)
  <2>1. CASE Len(q) = 1
    <3>0. Len(r) = 0
      BY <2>1, <1>0
    <3>1. r = <<>>
      BY <3>0, <1>0
    <3>2. QEnd(r, base + Len(h)) = base + Len(h)
      BY <3>1 DEF QEnd
    <3>3. QEnd(q, base) = q[1][1] + Len(q[1]) - 1
      BY <2>1 DEF QEnd
    <3> QED BY <1>0, <1>1, <3>2, <3>3
  <2>2. CASE Len(q) > 1
    <3>0. Len(r) = Len(q) - 1 /\ Len(r) >= 1
      BY <2>2, <1>0
    <3>1. r # <<>> /\ r[Len(r)] = q[Len(q)] /\ q # <<>>
      BY <3>0, <1>0
    <3> QED BY <3>1 DEF QEnd
  <2> QED BY <1>0, <2>1, <2>2
<1> QED BY <1>1, <1>2, <1>3, <1>4, <1>5, <1>6 DEF QueueOK, h, r

\* The bytes read has copied out or holds in buf.current.
Queued == Len(delivered) + Len(current)

\* The bytes read has copied out, then buf.current, are runs from 1 on;
\* read waits only with buf.current drained.
ReadRuns ==
    /\ Run(delivered, 0)
    /\ Run(current, Len(delivered))
    /\ rPc \in {"wait", "waitTimed"} => current = <<>>

\* buf.in holds the runs that follow, up to the last byte submit accepted.
QueueRuns ==
    /\ QueueOK(in, Queued)
    /\ accepted = QEnd(in, Queued)

\* submit holds RLock exactly while it is about to enqueue, which close
\* (Lock) waits for, so nothing is enqueued once closed; while open, the
\* peer's bytes are all accepted or in the frame being submitted.
SubmitState ==
    /\ subPc = "enqueue" => Len(subFrame) >= 1 /\ Run(subFrame, accepted) /\ ~closed
    /\ ~closed => sent = accepted + (IF subPc = "enqueue" THEN Len(subFrame) ELSE 0)
    /\ inClosed = closed
    /\ rlocked <=> subPc = "enqueue"

\* EOF is returned only from the drained, closed buffer.
EOFState ==
    result.err = "EOF" =>
        /\ Len(delivered) = accepted /\ current = <<>> /\ in = <<>> /\ inClosed

\* The strengthening of DeliveryIntegrity.
ContigInv == ReadRuns /\ QueueRuns /\ SubmitState /\ EOFState

LEMMA RunEmpty == ASSUME NEW b \in Nat PROVE Run(<<>>, b)
<1>1. /\ [k \in 1..0 |-> b + k] \in Seq(Nat \ {0})
      /\ Len([k \in 1..0 |-> b + k]) = 0
      /\ <<>> \in Seq(Nat \ {0}) /\ Len(<<>>) = 0
  BY EmptySeq
<1>2. \A i \in 1..Len(<<>>) : <<>>[i] = [k \in 1..0 |-> b + k][i]
  BY <1>1
<1>3. <<>> = [k \in 1..0 |-> b + k]
  BY <1>1, <1>2, SeqEqual, Zenon
<1> QED BY <1>3, <1>1 DEF Run

LEMMA ContigInvInit == Init => ContigInv
<1> SUFFICES ASSUME Init PROVE ContigInv
  OBVIOUS
<1>1. ReadRuns
  BY RunEmpty DEF Init, ReadRuns
<1>2. QueueRuns
  BY DEF Init, QueueRuns, QueueOK, QEnd, Queued
<1>3. SubmitState
  <2>1. subPc = "idle" /\ rlocked = FALSE /\ closed = FALSE /\ inClosed = FALSE
    BY DEF Init
  <2>2. sent = accepted + 0
    BY DEF Init
  <2> QED BY <2>1, <2>2 DEF SubmitState
<1>4. EOFState
  BY DEF Init, EOFState
<1> QED BY <1>1, <1>2, <1>3, <1>4 DEF ContigInv

(* onFrame with every byte before buf.in delivered: the head of the queue *)
(* becomes buf.current and the runs stay in line.                          *)
LEMMA OnFrameContig ==
    ASSUME TypeOK, NEW B \in Nat, QueueOK(in, B), accepted = QEnd(in, B),
           in # <<>>, OnFrame, Len(delivered') = B, accepted' = accepted
    PROVE  /\ Run(current', Len(delivered'))
           /\ QueueOK(in', Queued')
           /\ accepted' = QEnd(in', Queued')
<1>1. /\ Run(Head(in), B) /\ Len(Head(in)) >= 1
      /\ QueueOK(Tail(in), B + Len(Head(in)))
      /\ QEnd(Tail(in), B + Len(Head(in))) = QEnd(in, B)
  BY QueueTail DEF TypeOK
<1>2. current' = Head(in) /\ in' = Tail(in)
  BY DEF OnFrame
<1>3. Queued' = B + Len(Head(in))
  BY <1>2 DEF Queued
<1> QED BY <1>1, <1>2, <1>3

(* Every step keeps ContigInv.                                             *)
LEMMA ContigInvStep == TypeOK /\ ContigInv /\ [Next]_vars => ContigInv'
<1> SUFFICES ASSUME TypeOK, ContigInv, [Next]_vars PROVE ContigInv'
  OBVIOUS
<1>0. ReadRuns /\ QueueRuns /\ SubmitState /\ EOFState
  BY DEF ContigInv
<1> HIDE DEF ContigInv
<1>1. CASE Submit
  <2>1. PICK len \in 1..MaxFrameLen :
           /\ sent' = sent + len
           /\ IF closed THEN UNCHANGED <<subPc, subFrame, rlocked>>
                ELSE /\ subPc' = "enqueue"
                     /\ subFrame' = [k \in 1..len |-> sent + k]
                     /\ rlocked' = TRUE
    BY <1>1 DEF Submit
  <2>2. /\ UNCHANGED <<in, inClosed, closed, accepted, delivered, current, rPc,
                       result>>
        /\ subPc = "idle"
    BY <1>1 DEF Submit, ReaderVars
  <2>3. ReadRuns' /\ QueueRuns' /\ EOFState'
    BY <1>0, <2>2 DEF ReadRuns, QueueRuns, Queued, EOFState
  <2>4. CASE closed
    BY <1>0, <2>1, <2>2, <2>3, <2>4 DEF ContigInv, SubmitState
  <2>5. CASE ~closed
    <3>1. sent = accepted
      BY <1>0, <2>2, <2>5 DEF SubmitState, TypeOK
    <3>2. subFrame' = [k \in 1..len |-> accepted + k]
      BY <2>1, <2>5, <3>1
    <3>3. Len(subFrame') = len /\ Run(subFrame', accepted)
      BY <3>2 DEF Run
    <3>4. sent' = accepted + Len(subFrame')
      BY <2>1, <3>1, <3>3 DEF TypeOK
    <3>5. subPc' = "enqueue" /\ rlocked' = TRUE
      BY <2>1, <2>5
    <3>6. SubmitState'
      BY <1>0, <2>1, <2>2, <2>5, <3>3, <3>4, <3>5 DEF SubmitState
    <3> QED BY <2>3, <3>6 DEF ContigInv
  <2> QED BY <2>4, <2>5
<1>2. CASE SubmitEnqueue
  <2>1. /\ Len(subFrame) >= 1 /\ Run(subFrame, accepted) /\ ~closed
        /\ sent = accepted + Len(subFrame) /\ inClosed = closed
    BY <1>0, <1>2 DEF SubmitEnqueue, SubmitState
  <2>2. /\ UNCHANGED <<delivered, current, rPc, result, closed, inClosed, sent>>
        /\ subPc' = "idle" /\ rlocked' = FALSE
        /\ accepted' = accepted + Len(subFrame) /\ in' = Append(in, subFrame)
        /\ Len(in) < Window
    BY <1>2 DEF SubmitEnqueue, ReaderVars
  <2>3. Queued' = Queued /\ Queued \in Nat
    BY <2>2 DEF Queued
  <2>4. /\ QueueOK(Append(in, subFrame), Queued)
        /\ QEnd(Append(in, subFrame), Queued) = accepted + Len(subFrame)
    BY <1>0, <2>1, <2>3, QueueAppend DEF QueueRuns, TypeOK
  <2>5. QueueRuns'
    BY <2>2, <2>3, <2>4 DEF QueueRuns
  <2>6. ReadRuns'
    BY <1>0, <2>2 DEF ReadRuns
  <2>7. SubmitState'
    BY <2>1, <2>2 DEF SubmitState, TypeOK
  <2>8. EOFState'
    BY <1>0, <2>1, <2>2 DEF EOFState
  <2> QED BY <2>5, <2>6, <2>7, <2>8 DEF ContigInv
<1>3. ASSUME NEW c \in Closers, Close(c) PROVE ContigInv'
  <2>1. subPc = "idle" /\ ~rlocked
    BY <1>0, <1>3 DEF Close, SubmitState, TypeOK
  <2>2. /\ UNCHANGED <<in, subPc, subFrame, rlocked, sent, accepted, delivered,
                       current, rPc, result>>
        /\ closed' /\ inClosed'
    BY <1>3 DEF Close, ReaderVars
  <2>3. ReadRuns' /\ QueueRuns' /\ EOFState'
    BY <1>0, <2>2 DEF ReadRuns, QueueRuns, Queued, EOFState
  <2>4. SubmitState'
    BY <2>1, <2>2 DEF SubmitState, TypeOK
  <2> QED BY <2>3, <2>4 DEF ContigInv
<1>4. ASSUME ReadStart \/ ReadWaitTimeout \/ ReadReturn PROVE ContigInv'
  <2>1. /\ UNCHANGED <<in, current, delivered>>
        /\ UNCHANGED SubmitVars
        /\ rPc' \notin {"wait", "waitTimed"}
        /\ result'.err = "EOF" => UNCHANGED result
    <3>1. CASE ReadWaitTimeout
      BY <3>1 DEF ReadWaitTimeout
    <3>2. CASE ReadStart
      BY <3>2 DEF ReadStart
    <3>3. CASE ReadReturn
      BY <3>3 DEF ReadReturn
    <3> QED BY <1>4, <3>1, <3>2, <3>3
  <2>2. UNCHANGED <<inClosed, closed, subPc, subFrame, rlocked, sent, accepted>>
    BY <2>1 DEF SubmitVars
  <2>3. ReadRuns' /\ QueueRuns' /\ SubmitState'
    BY <1>0, <2>1, <2>2 DEF ReadRuns, QueueRuns, Queued, SubmitState
  <2>4. EOFState'
    BY <1>0, <2>1, <2>2 DEF EOFState
  <2> QED BY <2>3, <2>4 DEF ContigInv
<1>5. CASE ReadCopy
  <2> DEFINE n == IF room < Len(current) THEN room ELSE Len(current)
  <2> DEFINE pre == SubSeq(current, 1, n)
  <2>0. /\ delivered \in Seq(Nat \ {0}) /\ current \in Seq(Nat \ {0})
        /\ Run(delivered, 0) /\ Run(current, Len(delivered))
        /\ QueueOK(in, Queued) /\ accepted = QEnd(in, Queued)
        /\ Len(delivered) \in Nat /\ Len(current) \in Nat
    BY <1>0 DEF ReadRuns, QueueRuns, TypeOK
  <2>9. rPc = "copy"
    BY <1>5 DEF ReadCopy
  <2>1. /\ n \in 0..Len(current)
        /\ delivered' = delivered \o pre
        /\ UNCHANGED <<inClosed, closed, subPc, subFrame, rlocked, sent,
                       accepted>>
    BY <1>5 DEF ReadCopy, SubmitVars, TypeOK
  <2>2. pre \in Seq(Nat \ {0}) /\ Len(pre) = n
    BY <2>0, <2>1, SubSeqProperties
  <2>3. Run(pre, 0 + Len(delivered))
    BY <2>0, <2>1, RunPrefix
  <2>4. Run(delivered', 0) /\ Len(delivered') = Len(delivered) + n
    <3>1. Run(delivered \o pre, 0)
      BY <2>0, <2>2, <2>3, RunConcat
    <3> QED BY <3>1, <2>1, <2>2, <2>0
  <2>5. SubmitState'
    BY <1>0, <2>1 DEF SubmitState
  <2>6. CASE n = room
    <3>1. /\ current' = SubSeq(current, n + 1, Len(current))
          /\ in' = in /\ result'.err = "nil" /\ rPc' = "ret"
      BY <1>5, <2>6 DEF ReadCopy
    <3>2. Run(current', Len(delivered) + n)
      BY <2>0, <2>1, <3>1, RunSuffix
    <3>3. Len(current') = Len(current) - n
      <4>1. \A m \in 0..Len(current) :
               Len(SubSeq(current, m + 1, Len(current))) = Len(current) - m
        BY <2>0
      <4> QED BY <4>1, <2>1, <3>1
    <3>4. Queued' = Queued
      BY <2>0, <2>1, <2>4, <3>3 DEF Queued
    <3>5. ReadRuns'
      BY <2>4, <3>1, <3>2 DEF ReadRuns
    <3>6. QueueRuns' /\ EOFState'
      BY <2>0, <2>1, <3>1, <3>4 DEF QueueRuns, EOFState
    <3> QED BY <2>5, <3>5, <3>6 DEF ContigInv
  <2>7. CASE n # room /\ in # <<>>
    <3>1. n = Len(current) /\ OnFrame /\ UNCHANGED <<rPc, result>>
      BY <1>5, <2>7 DEF ReadCopy
    <3>2. Len(delivered') = Queued /\ Queued \in Nat
      BY <2>0, <2>4, <3>1 DEF Queued
    <3>3. /\ Run(current', Len(delivered'))
          /\ QueueOK(in', Queued')
          /\ accepted' = QEnd(in', Queued')
      BY <2>0, <2>1, <2>7, <3>1, <3>2, OnFrameContig
    <3>4. result.err # "EOF"
      BY <1>0, <2>7 DEF EOFState
    <3>5. ReadRuns' /\ QueueRuns'
      BY <2>4, <2>9, <3>1, <3>3 DEF ReadRuns, QueueRuns
    <3>6. EOFState'
      BY <3>1, <3>4 DEF EOFState
    <3> QED BY <2>5, <3>5, <3>6 DEF ContigInv
  <2>8. CASE n # room /\ in = <<>>
    <3>1. /\ n = Len(current) /\ current' = <<>> /\ in' = in
          /\ result'.err = "EOF" => inClosed
      BY <1>0, <1>5, <2>8 DEF ReadCopy, EOFState
    <3>2. accepted = Queued
      BY <2>0, <2>8 DEF QEnd
    <3>3. Len(delivered') = Queued
      BY <2>4, <3>1 DEF Queued
    <3>4. Queued' = Queued
      BY <3>1, <3>3 DEF Queued
    <3>5. ReadRuns'
      BY <3>1, <2>4, <3>3, RunEmpty DEF ReadRuns, Queued
    <3>6. QueueRuns'
      BY <2>0, <2>1, <3>1, <3>4 DEF QueueRuns
    <3>7. EOFState'
      BY <2>1, <2>8, <3>1, <3>2, <3>3 DEF EOFState
    <3> QED BY <2>5, <3>5, <3>6, <3>7 DEF ContigInv
  <2> QED BY <2>6, <2>7, <2>8
<1>6. CASE ReadWaitFrame
  <2>1. /\ current = <<>> /\ in # <<>> /\ OnFrame /\ rPc' = "copy"
        /\ UNCHANGED <<delivered, result>>
        /\ UNCHANGED <<inClosed, closed, subPc, subFrame, rlocked, sent,
                       accepted>>
    BY <1>0, <1>6 DEF ReadWaitFrame, ReadRuns, SubmitVars
  <2>2. Queued = Len(delivered) /\ Queued \in Nat
    BY <2>1 DEF Queued, TypeOK
  <2>3. /\ Run(current', Len(delivered'))
        /\ QueueOK(in', Queued')
        /\ accepted' = QEnd(in', Queued')
    BY <1>0, <2>1, <2>2, OnFrameContig DEF QueueRuns
  <2>4. result.err # "EOF"
    BY <1>0, <2>1 DEF EOFState
  <2>5. ReadRuns' /\ QueueRuns'
    BY <1>0, <2>1, <2>3 DEF ReadRuns, QueueRuns
  <2>6. SubmitState' /\ EOFState'
    BY <1>0, <2>1, <2>4 DEF SubmitState, EOFState
  <2> QED BY <2>5, <2>6 DEF ContigInv
<1>7. CASE ReadWaitEOF
  <2>1. /\ current = <<>> /\ in = <<>> /\ inClosed /\ rPc' = "ret"
        /\ UNCHANGED <<in, current, delivered>>
        /\ UNCHANGED <<inClosed, closed, subPc, subFrame, rlocked, sent,
                       accepted>>
    BY <1>0, <1>7 DEF ReadWaitEOF, ReadRuns, SubmitVars
  <2>2. Len(delivered) = accepted
    BY <1>0, <2>1 DEF QueueRuns, QEnd, Queued
  <2>3. ReadRuns' /\ QueueRuns' /\ SubmitState'
    BY <1>0, <2>1 DEF ReadRuns, QueueRuns, Queued, SubmitState
  <2>4. EOFState'
    BY <2>1, <2>2 DEF EOFState
  <2> QED BY <2>3, <2>4 DEF ContigInv
<1>8. CASE UNCHANGED vars
  BY <1>0, <1>8 DEF vars, ContigInv, ReadRuns, QueueRuns, Queued, SubmitState,
                    EOFState
<1> QED BY NextCases, <1>1, <1>2, <1>3, <1>4, <1>5, <1>6, <1>7, <1>8
        DEF ReadActions

(* Reads return the peer's bytes in order, without loss or duplication,   *)
(* and EOF only once every accepted byte was returned, for every window,   *)
(* frame and buffer size: submit appends whole frames to buf.in, and read *)
(* copies from buf.current and takes the next frame only once it is       *)
(* drained (sendbuffer.go read, onFrame, submit).                          *)
THEOREM InOrderDelivery == Spec => []DeliveryIntegrity
<1>1. Init => TypeInv /\ ContigInv
  BY TypeOKInit, ContigInvInit
<1>2. TypeInv /\ ContigInv /\ [Next]_vars => TypeInv' /\ ContigInv'
  BY TypeOKStep, ContigInvStep DEF TypeInv
<1>3. TypeInv /\ ContigInv => DeliveryIntegrity
  BY DEF TypeInv, ContigInv, ReadRuns, EOFState, Run, DeliveryIntegrity
<1> QED BY <1>1, <1>2, <1>3, PTL DEF Spec

=============================================================================
