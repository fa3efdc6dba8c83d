------------------------ MODULE SendBufferRefinement ------------------------
(***************************************************************************)
(* The send buffer of src/sendbuffer.go implements StreamSpec, for every   *)
(* value of the constants, under the refinement mapping of SendBuffer.     *)
(* The mapping reads the data frames handed to the session through         *)
(* DataIds, a recursive function; the first part proves what it computes   *)
(* on the empty sequence and after an Append.                              *)
(***************************************************************************)
EXTENDS SendBufferProofs, SequenceTheorems

-----------------------------------------------------------------------------
(* The ids of data frames, as DataIds defines them.                        *)

\* One step of DataIds's recursive function F.
IdStep(F, s, i) ==
    IF i = 0 THEN <<>>
    ELSE IF s[i].type = "data" THEN Append(F[i - 1], s[i].id)
    ELSE F[i - 1]

\* F is a function on 0..n that satisfies the recursive definition.
IsIds(F, s, n) == F = [i \in 0..n |-> IdStep(F, s, i)]

(* Every non-empty set of naturals has a least element.                    *)
LEMMA NatMin ==
    ASSUME NEW S \in SUBSET Nat, S # {}
    PROVE  \E m \in S : \A k \in S : m <= k
<1> DEFINE Less == {ss \in Nat \X Nat : ss[1] < ss[2]}
<1>0. IsWellFoundedOn(Less, Nat)
  BY NatLessThanWellFounded DEF OpToRel
<1>1. \E x \in S : \A y \in S : ~(<<y, x>> \in Less)
  BY <1>0, WFMin, Zenon
<1>2. PICK x \in S : \A y \in S : ~(<<y, x>> \in Less)
  BY <1>1
<1>3. ASSUME NEW k \in S PROVE x <= k
  <2>1. <<k, x>> \in Nat \X Nat /\ <<k, x>>[1] = k /\ <<k, x>>[2] = x
    OBVIOUS
  <2>2. ~(k < x)
    BY <1>2, <2>1
  <2> QED BY <2>2
<1> QED BY <1>2, <1>3

(* The recursive definition has a solution on 0..n, for every n.           *)
LEMMA IdsExist ==
    ASSUME NEW s, NEW n \in Nat
    PROVE  \E F : IsIds(F, s, n)
<1> SUFFICES ASSUME ~\E F : IsIds(F, s, n) PROVE FALSE
  OBVIOUS
<1> DEFINE Bad == {m \in Nat : ~\E F : IsIds(F, s, m)}
<1>0. Bad \in SUBSET Nat /\ Bad # {}
  BY Zenon
<1>1. PICK m \in Bad : \A k \in Bad : m <= k
  BY <1>0, NatMin, Zenon
<1>2. CASE m = 0
  <2> DEFINE G == [i \in 0..0 |-> <<>>]
  <2>1. IsIds(G, s, 0)
    BY DEF IsIds, IdStep
  <2> QED BY <1>1, <1>2, <2>1
<1>3. CASE m # 0
  <2>1. m - 1 \in Nat /\ m - 1 \notin Bad
    BY <1>1, <1>3
  <2>2. PICK G : IsIds(G, s, m - 1)
    BY <2>1
  <2> DEFINE H == [i \in 0..m |-> IF i < m THEN G[i] ELSE IdStep(G, s, m)]
  <2>3. \A i \in 0..m : H[i] = IdStep(H, s, i)
    <3> SUFFICES ASSUME NEW i \in 0..m PROVE H[i] = IdStep(H, s, i)
      OBVIOUS
    <3>1. i # 0 => H[i - 1] = G[i - 1]
      BY <1>3
    <3>2. IdStep(H, s, i) = IdStep(G, s, i)
      BY <3>1 DEF IdStep
    <3>3. CASE i < m
      <4>1. G[i] = IdStep(G, s, i)
        BY <2>2, <3>3 DEF IsIds
      <4> QED BY <3>2, <3>3, <4>1
    <3>4. CASE i = m
      BY <3>2, <3>4
    <3> QED BY <3>3, <3>4
  <2>4. IsIds(H, s, m)
    BY <2>3 DEF IsIds
  <2> QED BY <1>1, <2>4
<1> QED BY <1>2, <1>3

(* The solution is unique.                                                  *)
LEMMA IdsUnique ==
    ASSUME NEW s, NEW n \in Nat, NEW F, NEW G, IsIds(F, s, n), IsIds(G, s, n)
    PROVE  F = G
<1> DEFINE Bad == {m \in 0..n : F[m] # G[m]}
<1>1. \A m \in 0..n : F[m] = G[m]
  <2> SUFFICES ASSUME Bad # {} PROVE FALSE
    OBVIOUS
  <2>0. Bad \in SUBSET Nat /\ Bad # {}
    OBVIOUS
  <2>1. PICK m \in Bad : \A k \in Bad : m <= k
    BY <2>0, NatMin, Zenon
  <2>2. m # 0 => m - 1 \notin Bad /\ m - 1 \in 0..n
    BY <2>1
  <2>3. F[m] = IdStep(F, s, m) /\ G[m] = IdStep(G, s, m)
    <3>1. m \in 0..n
      BY <2>1
    <3>2. F[m] = IdStep(F, s, m)
      BY <3>1, Zenon DEF IsIds
    <3>3. G[m] = IdStep(G, s, m)
      BY <3>1, Zenon DEF IsIds
    <3> QED BY <3>2, <3>3
  <2>4. IdStep(F, s, m) = IdStep(G, s, m)
    BY <2>2 DEF IdStep
  <2> QED BY <2>1, <2>3, <2>4
<1> QED BY <1>1 DEF IsIds

\* The function DataIds(s) reads its result from.
IdsOf(s) ==
    CHOOSE F : F = [i \in 0..Len(s) |->
                      IF i = 0 THEN <<>>
                      ELSE IF s[i].type = "data" THEN Append(F[i - 1], s[i].id)
                      ELSE F[i - 1]]

LEMMA IdsOfDef ==
    ASSUME NEW s, Len(s) \in Nat
    PROVE  /\ IsIds(IdsOf(s), s, Len(s))
           /\ DataIds(s) = IdsOf(s)[Len(s)]
<1>1. \E F : IsIds(F, s, Len(s))
  BY IdsExist
<1>2. IsIds(IdsOf(s), s, Len(s))
  BY <1>1, Zenon DEF IsIds, IdStep, IdsOf
<1>3. DataIds(s) = IdsOf(s)[Len(s)]
  BY DEF DataIds, IdsOf
<1> QED BY <1>2, <1>3

(* No frame, no data id.                                                   *)
LEMMA DataIdsEmpty == DataIds(<<>>) = <<>>
<1>1. IsIds(IdsOf(<<>>), <<>>, 0) /\ DataIds(<<>>) = IdsOf(<<>>)[0]
  BY IdsOfDef
<1> QED BY <1>1 DEF IsIds, IdStep

(* Appending a frame appends its id when it is a data frame, and leaves    *)
(* the ids alone otherwise.                                                *)
LEMMA DataIdsAppend ==
    ASSUME NEW s \in Seq(Frames), NEW x \in Frames
    PROVE  DataIds(Append(s, x)) =
              IF x.type = "data" THEN Append(DataIds(s), x.id) ELSE DataIds(s)
<1> DEFINE t == Append(s, x)
<1> DEFINE n == Len(s)
<1> DEFINE G == IdsOf(t)
<1> DEFINE H == [i \in 0..n |-> G[i]]
<1>0. n \in Nat /\ Len(t) = n + 1 /\ t[n + 1] = x
      /\ \A i \in 1..n : t[i] = s[i]
  OBVIOUS
<1>1. IsIds(G, t, n + 1) /\ DataIds(t) = G[n + 1]
  <2>1. Len(t) \in Nat
    BY <1>0
  <2>2. IsIds(G, t, Len(t)) /\ DataIds(t) = G[Len(t)]
    BY <2>1, IdsOfDef, Zenon
  <2> QED BY <1>0, <2>2
<1>2. IsIds(IdsOf(s), s, n) /\ DataIds(s) = IdsOf(s)[n]
  BY <1>0, IdsOfDef
<1>3. IsIds(H, s, n)
  <2>1. \A i \in 0..n : G[i] = IdStep(G, t, i)
    BY <1>0, <1>1 DEF IsIds
  <2>2. \A i \in 0..n : IdStep(G, t, i) = IdStep(H, s, i)
    BY <1>0 DEF IdStep
  <2> QED BY <2>1, <2>2 DEF IsIds
<1>4. IdsOf(s) = H
  BY <1>0, <1>2, <1>3, IdsUnique
<1>5. G[n + 1] = IdStep(G, t, n + 1)
  BY <1>0, <1>1 DEF IsIds
<1>6. IdStep(G, t, n + 1) =
         IF x.type = "data" THEN Append(G[n], x.id) ELSE G[n]
  BY <1>0 DEF IdStep
<1> QED BY <1>1, <1>2, <1>4, <1>5, <1>6

(* The data ids of frames are send call numbers.                            *)
LEMMA DataIdsType ==
    ASSUME NEW s \in Seq(Frames)
    PROVE  DataIds(s) \in Seq(1..MaxSends)
<1> DEFINE G == IdsOf(s)
<1> DEFINE n == Len(s)
<1>1. n \in Nat /\ IsIds(G, s, n) /\ DataIds(s) = G[n]
  BY IdsOfDef
<1>2. \A i \in 0..n : G[i] \in Seq(1..MaxSends)
  <2> DEFINE Bad == {i \in 0..n : G[i] \notin Seq(1..MaxSends)}
  <2> SUFFICES ASSUME Bad # {} PROVE FALSE
    OBVIOUS
  <2>0. Bad \in SUBSET Nat /\ Bad # {}
    BY <1>1
  <2>1. PICK m \in Bad : \A k \in Bad : m <= k
    BY <2>0, NatMin, Zenon
  <2>5. G[m] \notin Seq(1..MaxSends)
    BY <2>1
  <2>2. G[m] = IdStep(G, s, m)
    BY <1>1, <2>1 DEF IsIds
  <2>3. CASE m = 0
    <3>1. G[m] = <<>>
      BY <2>2, <2>3 DEF IdStep
    <3>2. <<>> \in Seq(1..MaxSends)
      BY EmptySeq
    <3> QED BY <2>5, <3>1, <3>2, Zenon
  <2>4. CASE m # 0
    <3>1. G[m - 1] \in Seq(1..MaxSends) /\ s[m] \in Frames
      BY <1>1, <2>1, <2>4
    <3>2. s[m].type = "data" => s[m].id \in 1..MaxSends
      BY <3>1 DEF Frames, DataFrame, RSTFrame
    <3>3. CASE s[m].type = "data"
      <4>1. G[m] = Append(G[m - 1], s[m].id)
        BY <2>2, <2>4, <3>3 DEF IdStep
      <4>2. Append(G[m - 1], s[m].id) \in Seq(1..MaxSends)
        BY <3>1, <3>2, <3>3, AppendProperties
      <4> QED BY <2>5, <4>1, <4>2, Zenon
    <3>4. CASE s[m].type # "data"
      <4>1. G[m] = G[m - 1]
        BY <2>2, <2>4, <3>4 DEF IdStep
      <4> QED BY <2>5, <3>1, <4>1, Zenon
    <3> QED BY <3>3, <3>4
  <2> QED BY <2>3, <2>4
<1> QED BY <1>1, <1>2

-----------------------------------------------------------------------------
(***************************************************************************)
(* The invariants the refinement rests on.                                 *)
(*                                                                         *)
(* LoopInv: the sealing goroutine sets closing before it sleeps, and the  *)
(* loop only returns from a sealed stream whose frames were all taken out *)
(* of buf.in and written (the queue closed and empty) or from a timed-out *)
(* close; after that no send can enqueue, since closing is set.            *)
(*                                                                         *)
(* FIFOInv: until the close timeout, the ids of the data frames handed to *)
(* the session followed by the abstract queue are exactly the payloads    *)
(* send accepted; and an RST is the last frame handed over.                *)
(***************************************************************************)
LoopInv ==
    /\ cgPc \in {"sleep", "timedOut"} => closing
    /\ loopPc \in {"exit", "writeRST", "done"} =>
          closing /\ (StreamQueue = <<>> \/ closeTimedOut)

FIFOInv ==
    /\ ~closeTimedOut => DataIds(Emitted) \o StreamQueue = accepted
    /\ \A i \in DOMAIN Emitted : Emitted[i] = RSTFrame => i = Len(Emitted)

\* The variables the mapping and the two invariants read.
RefVars == <<cgPc, closing, loopPc, in, pending, out, wire, accepted>>

\* A send call that puts its payload into buf.in.
EnqueueStep(w) == Enqueue(w) \/ SendSelectEnqueue(w)

(* The steps of Next that touch RefVars.                                   *)
LEMMA StepCases ==
    ASSUME [Next]_vars
    PROVE  \/ UNCHANGED RefVars
           \/ \E w \in Writers : EnqueueStep(w)
           \/ LoopRecvFrame \/ LoopRecvClosed \/ LoopCloseRequested
           \/ LoopTimedOut \/ LoopWindowAvailable \/ LoopWriteOut
           \/ LoopWriteDropped \/ LoopExit
           \/ Seal \/ CloseTimeout \/ SessionWrite
<1>1. ASSUME NEW w \in Writers, WriterActions(w)
      PROVE  UNCHANGED RefVars \/ EnqueueStep(w)
  BY <1>1 DEF WriterActions, Send, SendStopTimer, SendDrainTimer,
              SendResetTimer, SendSelectTimeout, WriterReturn, RefVars,
              EnqueueStep
<1>2. ASSUME NEW c \in Closers, CloserActions(c) PROVE UNCHANGED RefVars
  BY <1>2 DEF CloserActions, Close, CloseStopTimer, CloseDrainTimer,
              CloseWait, RefVars
<1>3. ASSUME PeerAck \/ TimerFire \/ UNCHANGED vars PROVE UNCHANGED RefVars
  BY <1>3 DEF PeerAck, TimerFire, vars, RefVars
<1> QED BY NextCases, <1>1, <1>2, <1>3 DEF LoopStep

(* What an enqueue does: the payload goes to the end of buf.in and of the *)
(* accepted history, by a goroutine that holds muClosing's read lock.      *)
LEMMA EnqueueFacts ==
    ASSUME NEW w \in Writers, EnqueueStep(w)
    PROVE  /\ wPc[w] \in Busy
           /\ in' = Append(in, wFrame[w])
           /\ accepted' = Append(accepted, wFrame[w])
           /\ UNCHANGED <<cgPc, closing, loopPc, pending, out, wire>>
BY DEF EnqueueStep, Enqueue, SendSelectEnqueue, WriterReturn, Busy

LEMMA LoopInvInit == Init => LoopInv
BY DEF Init, LoopInv

(* Every step keeps LoopInv.                                               *)
LEMMA LoopInvStep ==
    TypeOK /\ SealInv /\ FlowInv /\ LoopInv /\ [Next]_vars => LoopInv'
<1> SUFFICES ASSUME TypeOK, SealInv, FlowInv, LoopInv, [Next]_vars
             PROVE  LoopInv'
  OBVIOUS
<1>0. loopPc \notin {"waitWindow", "waitWindowClosing", "write"} => pending = 0
  BY DEF FlowInv
<1>1. CASE UNCHANGED RefVars
  BY <1>1 DEF LoopInv, RefVars, StreamQueue, closeTimedOut
<1>2. ASSUME NEW w \in Writers, EnqueueStep(w) PROVE LoopInv'
  <2>1. ~closing
    BY <1>2, EnqueueFacts DEF SealInv
  <2> QED BY <1>2, <2>1, EnqueueFacts DEF LoopInv, closeTimedOut
<1>3. CASE LoopRecvClosed
  <2>1. closing /\ pending = 0 /\ in = <<>>
    BY <1>0, <1>3 DEF LoopRecvClosed, SealInv
  <2> QED BY <1>3, <2>1 DEF LoopRecvClosed, LoopInv, StreamQueue, closeTimedOut
<1>4. CASE LoopTimedOut
  BY <1>4 DEF LoopTimedOut, LoopInv, closeTimedOut
<1>5. ASSUME LoopRecvFrame \/ LoopCloseRequested \/ LoopWindowAvailable
      PROVE  LoopInv'
  BY <1>5 DEF LoopRecvFrame, LoopCloseRequested, LoopWindowAvailable,
              SignalClose, LoopInv, closeTimedOut
<1>6. ASSUME LoopWriteOut \/ LoopWriteDropped PROVE LoopInv'
  <2>1. UNCHANGED <<cgPc, closing, in>> /\ pending' = 0
    BY <1>6 DEF LoopWriteOut, LoopWriteDropped
  <2>2. CASE loopPc = "write"
    BY <1>6, <2>1, <2>2 DEF LoopWriteOut, LoopWriteDropped, AfterWrite,
                            LoopInv, closeTimedOut
  <2>3. CASE loopPc = "writeRST"
    <3>1. pending = 0
      BY <1>0, <2>3
    <3> QED BY <2>1, <2>3, <3>1 DEF LoopInv, StreamQueue, closeTimedOut
  <2> QED BY <1>6, <2>2, <2>3 DEF LoopWriteOut, LoopWriteDropped
<1>7. CASE LoopExit
  BY <1>7 DEF LoopExit, LoopInv, StreamQueue, closeTimedOut
<1>8. ASSUME Seal \/ CloseTimeout \/ SessionWrite PROVE LoopInv'
  BY <1>8 DEF Seal, CloseTimeout, SessionWrite, LoopInv, StreamQueue,
              closeTimedOut
<1> QED BY StepCases, <1>1, <1>2, <1>3, <1>4, <1>5, <1>6, <1>7, <1>8

(* The abstract queue is a sequence of send call numbers.                   *)
LEMMA StreamQueueType ==
    ASSUME TypeOK PROVE StreamQueue \in Seq(1..MaxSends)
<1>1. in \in Seq(1..MaxSends) /\ pending \in 0..MaxSends
  BY DEF TypeOK
<1>2. CASE pending # 0
  <2>1. <<pending>> \in Seq(1..MaxSends)
    BY <1>1, <1>2
  <2> QED BY <1>1, <1>2, <2>1, ConcatProperties DEF StreamQueue
<1> QED BY <1>1, <1>2 DEF StreamQueue

(* A sequence is its head followed by its tail.                           *)
LEMMA HeadTailConcat ==
    ASSUME NEW S, NEW q \in Seq(S), q # <<>>
    PROVE  <<Head(q)>> \o Tail(q) = q
<1>1. Head(q) \in S /\ Tail(q) \in Seq(S) /\ Len(Tail(q)) = Len(q) - 1
      /\ \A i \in 1..Len(Tail(q)) : Tail(q)[i] = q[i + 1]
  BY HeadTailProperties
<1>2. <<Head(q)>> \in Seq(S)
  BY <1>1
<1>3. <<Head(q)>> \o Tail(q) \in Seq(S)
      /\ Len(<<Head(q)>> \o Tail(q)) = Len(q)
  BY <1>1, <1>2, ConcatProperties
<1>4. \A i \in 1..Len(q) : (<<Head(q)>> \o Tail(q))[i] = q[i]
  BY <1>1, <1>2, ConcatProperties
<1> QED BY <1>3, <1>4, SeqEqual

(* The loop taking a frame out of buf.in moves it to the head of the      *)
(* abstract queue, which stays the same.                                   *)
LEMMA RecvFrameQueue ==
    ASSUME TypeOK, LoopRecvFrame,
           loopPc \notin {"waitWindow", "waitWindowClosing", "write"} => pending = 0
    PROVE  StreamQueue' = StreamQueue
<1>1. pending = 0 /\ in # <<>> /\ in \in Seq(1..MaxSends)
  BY DEF LoopRecvFrame, TypeOK
<1>2. Head(in) \in 1..MaxSends
  BY <1>1, HeadTailProperties, ConstAssumption
<1>3. pending' = Head(in) /\ in' = Tail(in)
  BY DEF LoopRecvFrame
<1>4. StreamQueue' = <<Head(in)>> \o Tail(in)
  BY <1>2, <1>3 DEF StreamQueue
<1>5. StreamQueue = in
  BY <1>1 DEF StreamQueue
<1> QED BY <1>1, <1>4, <1>5, HeadTailConcat

(* Appending to the second of two concatenated sequences appends to the  *)
(* concatenation.                                                          *)
LEMMA ConcatAppend ==
    ASSUME NEW S, NEW s \in Seq(S), NEW t \in Seq(S), NEW e \in S
    PROVE  s \o Append(t, e) = Append(s \o t, e)
<1>1. Append(t, e) = t \o <<e>> /\ Append(s \o t, e) = (s \o t) \o <<e>>
  BY ConcatProperties, AppendIsConcat
<1>2. <<e>> \in Seq(S)
  OBVIOUS
<1> QED BY <1>1, <1>2, ConcatAssociative

(* A send that enqueues its payload appends it to the abstract queue.     *)
LEMMA EnqueueQueue ==
    ASSUME TypeOK, NEW f \in 1..MaxSends,
           in' = Append(in, f), pending' = pending
    PROVE  StreamQueue' = Append(StreamQueue, f)
<1>1. in \in Seq(1..MaxSends) /\ pending \in 0..MaxSends
  BY DEF TypeOK
<1>2. CASE pending # 0
  <2>1. <<pending>> \in Seq(1..MaxSends)
    BY <1>1, <1>2
  <2> QED BY <1>1, <1>2, <2>1, ConcatAppend DEF StreamQueue
<1>3. CASE pending = 0
  BY <1>3 DEF StreamQueue
<1> QED BY <1>2, <1>3

(* The frames handed to the session, and their data ids, are well typed. *)
LEMMA EmittedType ==
    ASSUME TypeOK
    PROVE  /\ Emitted \in Seq(Frames)
           /\ DataIds(Emitted) \in Seq(1..MaxSends)
<1>1. Emitted \in Seq(Frames)
  BY ConcatProperties DEF TypeOK, Emitted
<1> QED BY <1>1, DataIdsType

(* The session writer leaves the frames handed to the session unchanged.  *)
LEMMA SessionWriteEmitted ==
    ASSUME TypeOK, SessionWrite
    PROVE  Emitted' = Emitted
<1>1. /\ wire \in Seq(Frames) /\ out \in Seq(Frames) /\ out # <<>>
      /\ wire' = Append(wire, Head(out)) /\ out' = Tail(out)
  BY DEF TypeOK, SessionWrite
<1> QED BY <1>1, EmittedSessionWrite DEF Emitted

LEMMA FIFOInvInit == Init => FIFOInv
<1> SUFFICES ASSUME Init PROVE FIFOInv
  OBVIOUS
<1>1. Emitted = <<>> /\ StreamQueue = <<>> /\ accepted = <<>>
  BY DEF Init, Emitted, StreamQueue
<1> QED BY <1>1, DataIdsEmpty DEF FIFOInv

(* Every step keeps FIFOInv.                                               *)
LEMMA FIFOInvStep ==
    TypeOK /\ FlowInv /\ RSTInv /\ SealInv /\ FIFOInv /\ [Next]_vars => FIFOInv'
<1> SUFFICES ASSUME TypeOK, FlowInv, RSTInv, SealInv, FIFOInv, [Next]_vars
             PROVE  FIFOInv'
  OBVIOUS
<1>0. /\ loopPc \notin {"waitWindow", "waitWindowClosing", "write"} => pending = 0
      /\ Emitted \in Seq(Frames)
      /\ DataIds(Emitted) \in Seq(1..MaxSends)
      /\ StreamQueue \in Seq(1..MaxSends)
  BY EmittedType, StreamQueueType DEF FlowInv
<1>1. ASSUME UNCHANGED <<cgPc, in, pending, out, wire, accepted>>
      PROVE  FIFOInv'
  BY <1>1 DEF FIFOInv, StreamQueue, Emitted, closeTimedOut
<1>2. ASSUME NEW w \in Writers, EnqueueStep(w) PROVE FIFOInv'
  <2> DEFINE f == wFrame[w]
  <2>1. /\ in' = Append(in, f) /\ accepted' = Append(accepted, f)
        /\ UNCHANGED <<cgPc, pending, out, wire>> /\ f \in 1..MaxSends
    <3>1. /\ wPc[w] \in Busy
          /\ in' = Append(in, f) /\ accepted' = Append(accepted, f)
          /\ UNCHANGED <<cgPc, closing, loopPc, pending, out, wire>>
      BY <1>2, EnqueueFacts
    <3>2. f \in 1..MaxSends
      BY <3>1 DEF TypeOK, Busy
    <3> QED BY <3>1, <3>2
  <2>2. StreamQueue' = Append(StreamQueue, f)
    BY <2>1, EnqueueQueue
  <2>3. DataIds(Emitted) \o Append(StreamQueue, f)
          = Append(DataIds(Emitted) \o StreamQueue, f)
    BY <1>0, <2>1, ConcatAppend
  <2> QED BY <2>1, <2>2, <2>3 DEF FIFOInv, Emitted, closeTimedOut
<1>3. CASE LoopRecvFrame
  <2>2. StreamQueue' = StreamQueue
    BY <1>0, <1>3, RecvFrameQueue
  <2> QED BY <1>3, <2>2 DEF LoopRecvFrame, FIFOInv, Emitted, closeTimedOut
<1>4. ASSUME LoopRecvClosed \/ LoopCloseRequested \/ LoopWindowAvailable
             \/ LoopExit \/ Seal
      PROVE  FIFOInv'
  <2>1. UNCHANGED <<in, pending, out, wire, accepted>>
        /\ closeTimedOut' = closeTimedOut
    BY <1>4 DEF LoopRecvClosed, LoopCloseRequested, LoopWindowAvailable,
                LoopExit, Seal, SignalClose, closeTimedOut
  <2> QED BY <2>1 DEF FIFOInv, StreamQueue, Emitted
<1>5. ASSUME LoopTimedOut \/ LoopWriteDropped \/ CloseTimeout PROVE FIFOInv'
  <2>1. closeTimedOut' /\ UNCHANGED <<out, wire>>
    BY <1>5 DEF LoopTimedOut, LoopWriteDropped, CloseTimeout, closeTimedOut
  <2> QED BY <2>1 DEF FIFOInv, Emitted
<1>6. CASE LoopWriteOut
  <2>1. /\ out' = Append(out, FrameToWrite) /\ pending' = 0
        /\ UNCHANGED <<cgPc, in, wire, accepted>>
        /\ FrameToWrite \in Frames
    BY <1>6 DEF LoopWriteOut, FrameToWrite, Frames, DataFrame, RSTFrame,
                TypeOK
  <2>2. Emitted' = Append(Emitted, FrameToWrite)
    BY <2>1, EmittedAppend DEF Emitted, TypeOK
  <2>3. \A i \in DOMAIN Emitted : Emitted[i] # RSTFrame
    BY <1>6 DEF LoopWriteOut, RSTInv, RSTEmitted
  <2>4. \A i \in DOMAIN Emitted' : Emitted'[i] = RSTFrame => i = Len(Emitted')
    <3>1. CASE loopPc = "write"
      <4>1. FrameToWrite # RSTFrame
        BY <3>1 DEF FrameToWrite, DataFrame, RSTFrame
      <4> QED BY <1>0, <2>2, <2>3, <4>1
    <3>2. CASE loopPc # "write"
      BY <1>0, <2>2, <2>3
    <3> QED BY <3>1, <3>2
  <2>5. CASE loopPc = "write"
    <3>1. pending \in 1..MaxSends /\ FrameToWrite = DataFrame(pending)
      BY <2>5 DEF TypeOK, FrameToWrite
    <3>2. DataIds(Emitted') = Append(DataIds(Emitted), pending)
      BY <1>0, <2>1, <2>2, <3>1, DataIdsAppend DEF DataFrame
    <3>3. StreamQueue = <<pending>> \o in /\ StreamQueue' = in
      BY <2>1, <3>1 DEF StreamQueue
    <3>4. Append(DataIds(Emitted), pending) \o in
            = DataIds(Emitted) \o (<<pending>> \o in)
      BY <1>0, <3>1 DEF TypeOK
    <3> QED BY <2>1, <2>4, <3>2, <3>3, <3>4 DEF FIFOInv, closeTimedOut
  <2>6. CASE loopPc # "write"
    <3>1. pending = 0 /\ FrameToWrite = RSTFrame
      BY <1>0, <1>6, <2>6 DEF LoopWriteOut, FrameToWrite
    <3>2. DataIds(Emitted') = DataIds(Emitted)
      BY <1>0, <2>1, <2>2, <3>1, DataIdsAppend DEF RSTFrame
    <3>3. StreamQueue' = StreamQueue
      BY <2>1, <3>1 DEF StreamQueue
    <3> QED BY <2>1, <2>4, <3>2, <3>3 DEF FIFOInv, closeTimedOut
  <2> QED BY <2>5, <2>6
<1>7. CASE SessionWrite
  <2>1. Emitted' = Emitted
    BY <1>7, SessionWriteEmitted
  <2> QED BY <1>7, <2>1 DEF SessionWrite, FIFOInv, StreamQueue, closeTimedOut
<1>8. CASE UNCHANGED RefVars
  BY <1>1, <1>8 DEF RefVars
<1> QED BY StepCases, <1>2, <1>3, <1>4, <1>5, <1>6, <1>7, <1>8

\* Everything the refinement and StreamIntegrity rest on.
RefInv == TypeOK /\ SealInv /\ FlowInv /\ RSTInv /\ LoopInv /\ FIFOInv

LEMMA RefInvInit == Init => RefInv
<1>1. Init => SealInv
  BY DEF Init, SealInv, Busy
<1> QED BY <1>1, TypeOKInit, FlowInvInit, RSTInvInit, LoopInvInit,
           FIFOInvInit DEF RefInv

LEMMA RefInvStep == RefInv /\ [Next]_vars => RefInv'
<1> SUFFICES ASSUME RefInv, [Next]_vars PROVE RefInv'
  OBVIOUS
<1>1. TypeOK' /\ SealInv' /\ FlowInv' /\ RSTInv'
  BY TypeOKStep, SealInvInductive, FlowInvStep, RSTInvStep DEF RefInv, IInv
<1>2. LoopInv' /\ FIFOInv'
  BY LoopInvStep, FIFOInvStep DEF RefInv
<1> QED BY <1>1, <1>2 DEF RefInv

LEMMA RefInvAlways == Spec => []RefInv
BY RefInvInit, RefInvStep, PTL DEF Spec, SpecSilentPeer

(* Until the 30-second close timeout fires, the data frames the send loop *)
(* hands to the session carry, in order, a prefix of the payloads send    *)
(* accepted, and the deferred RST is the last frame and follows every     *)
(* accepted payload, for every window, capacity and number of goroutines *)
(* (sendbuffer.go: send's enqueue, the loop's "case frame, open :=        *)
(* <-buf.in" and write, the deferred RST write).                           *)
THEOREM StreamInOrder == Spec => []StreamIntegrity
<1>1. RefInv => StreamIntegrity
  <2> SUFFICES ASSUME RefInv, ~closeTimedOut PROVE
               /\ IsPrefixOf(DataIds(Emitted), accepted)
               /\ \A i \in DOMAIN Emitted :
                     Emitted[i] = RSTFrame =>
                        /\ i = Len(Emitted)
                        /\ DataIds(Emitted) = accepted
    BY DEF StreamIntegrity
  <2>1. /\ DataIds(Emitted) \in Seq(1..MaxSends)
        /\ StreamQueue \in Seq(1..MaxSends)
        /\ DataIds(Emitted) \o StreamQueue = accepted
    BY EmittedType, StreamQueueType DEF RefInv, FIFOInv
  <2>2. IsPrefixOf(DataIds(Emitted), accepted)
    BY <2>1 DEF IsPrefixOf
  <2>3. ASSUME NEW i \in DOMAIN Emitted, Emitted[i] = RSTFrame
        PROVE  i = Len(Emitted) /\ DataIds(Emitted) = accepted
    <3>1. i = Len(Emitted)
      BY <2>3 DEF RefInv, FIFOInv
    <3>2. loopPc = "done"
      BY <2>3 DEF RefInv, RSTInv, RSTEmitted
    <3>3. StreamQueue = <<>>
      BY <3>2 DEF RefInv, LoopInv
    <3> QED BY <2>1, <3>1, <3>3
  <2> QED BY <2>2, <2>3
<1> QED BY <1>1, RefInvAlways, PTL

-----------------------------------------------------------------------------
(***************************************************************************)
(* The refinement. Under the mapping of SendBuffer (queue: the frame the  *)
(* loop holds, then buf.in; emitted: the data ids handed to the session;   *)
(* rstSent: an RST handed over; sealed: closing; aborted: the close timed *)
(* out), send's enqueue is Accept, the loop's write of a data frame is    *)
(* Emit, dropping the held frame after the timeout is Drop, the sealing   *)
(* goroutine is Seal then Abort, the deferred RST write is EmitRST, and   *)
(* every other step leaves the mapped state alone.                         *)
(***************************************************************************)

\* The mapped state.
AbsVars == <<StreamQueue, DataIds(Emitted), RSTEmitted, closing, closeTimedOut>>

LEMMA RefinementInit == Init => Stream!Init
<1> SUFFICES ASSUME Init PROVE Stream!Init
  OBVIOUS
<1>1. Emitted = <<>> /\ StreamQueue = <<>>
  BY DEF Init, Emitted, StreamQueue
<1> QED BY <1>1, DataIdsEmpty DEF Stream!Init, Init, RSTEmitted, closeTimedOut

(* A step that leaves the mapped state alone is a stuttering step.        *)
LEMMA AbsStutter ==
    ASSUME UNCHANGED AbsVars PROVE [Stream!Next]_(Stream!vars)
BY DEF AbsVars, Stream!vars

(* The data frame or RST the loop writes does not disturb the other half  *)
(* of the mapped state.                                                    *)
LEMMA WriteEffect ==
    ASSUME TypeOK, RSTInv, LoopWriteOut
    PROVE  /\ Emitted' = Append(Emitted, FrameToWrite)
           /\ ~RSTEmitted
           /\ RSTEmitted' <=> (FrameToWrite = RSTFrame)
           /\ Emitted \in Seq(Frames) /\ FrameToWrite \in Frames
<1>1. /\ out' = Append(out, FrameToWrite) /\ UNCHANGED wire
      /\ FrameToWrite \in Frames /\ loopPc # "done"
  BY DEF LoopWriteOut, FrameToWrite, Frames, DataFrame, RSTFrame, TypeOK
<1>2. Emitted' = Append(Emitted, FrameToWrite) /\ Emitted \in Seq(Frames)
  BY <1>1, EmittedAppend DEF Emitted, TypeOK
<1>3. ~RSTEmitted
  BY <1>1 DEF RSTInv
<1>4. RSTEmitted' <=> (FrameToWrite = RSTFrame)
  <2>1. /\ Len(Emitted') = Len(Emitted) + 1
        /\ DOMAIN Emitted' = 1..Len(Emitted) + 1
        /\ DOMAIN Emitted = 1..Len(Emitted)
        /\ \A i \in 1..Len(Emitted) : Emitted'[i] = Emitted[i]
        /\ Emitted'[Len(Emitted) + 1] = FrameToWrite
    BY <1>1, <1>2, AppendProperties
  <2>2. RSTEmitted' => FrameToWrite = RSTFrame
    BY <1>3, <2>1 DEF RSTEmitted
  <2>3. FrameToWrite = RSTFrame => RSTEmitted'
    BY <2>1 DEF RSTEmitted
  <2> QED BY <2>2, <2>3
<1> QED BY <1>1, <1>2, <1>3, <1>4

(* Every step of the send buffer is a step of StreamSpec or leaves the    *)
(* mapped state unchanged.                                                 *)
LEMMA RefinementStep == RefInv /\ [Next]_vars => [Stream!Next]_(Stream!vars)
<1> SUFFICES ASSUME RefInv, [Next]_vars PROVE [Stream!Next]_(Stream!vars)
  OBVIOUS
<1>0. /\ TypeOK /\ RSTInv /\ LoopInv
      /\ loopPc \notin {"waitWindow", "waitWindowClosing", "write"} => pending = 0
      /\ Emitted \in Seq(Frames)
  BY DEF RefInv, FlowInv, TypeOK, Emitted
<1>1. CASE UNCHANGED RefVars
  BY <1>1, AbsStutter DEF RefVars, AbsVars, StreamQueue, Emitted, RSTEmitted,
                          closeTimedOut
<1>2. ASSUME NEW w \in Writers, EnqueueStep(w) PROVE Stream!Next
  <2> DEFINE f == wFrame[w]
  <2>1. /\ in' = Append(in, f) /\ UNCHANGED <<cgPc, closing, pending, out, wire>>
        /\ f \in 1..MaxSends /\ ~closing
    <3>1. /\ wPc[w] \in Busy
          /\ in' = Append(in, f)
          /\ UNCHANGED <<cgPc, closing, loopPc, pending, out, wire>>
      BY <1>2, EnqueueFacts
    <3>2. f \in 1..MaxSends
      BY <1>0, <3>1 DEF TypeOK, Busy
    <3>3. ~closing
      BY <3>1 DEF RefInv, SealInv
    <3> QED BY <3>1, <3>2, <3>3
  <2>2. StreamQueue' = Append(StreamQueue, f)
    BY <1>0, <2>1, EnqueueQueue
  <2>3. Stream!Accept(f)
    BY <2>1, <2>2 DEF Stream!Accept, Emitted, RSTEmitted, closeTimedOut
  <2> QED BY <2>1, <2>3 DEF Stream!Next
<1>3. CASE LoopRecvFrame
  <2>2. StreamQueue' = StreamQueue
    BY <1>0, <1>3, RecvFrameQueue
  <2> QED BY <1>3, <2>2, AbsStutter DEF LoopRecvFrame, AbsVars, Emitted,
                                        RSTEmitted, closeTimedOut
<1>4. ASSUME LoopRecvClosed \/ LoopCloseRequested \/ LoopWindowAvailable
             \/ LoopExit
      PROVE  [Stream!Next]_(Stream!vars)
  <2>1. UNCHANGED <<in, pending, out, wire, closing>>
        /\ closeTimedOut' = closeTimedOut
    BY <1>4 DEF LoopRecvClosed, LoopCloseRequested, LoopWindowAvailable,
                LoopExit, SignalClose, closeTimedOut
  <2> QED BY <2>1, AbsStutter DEF AbsVars, StreamQueue, Emitted, RSTEmitted
<1>5. ASSUME LoopTimedOut \/ LoopWriteDropped
      PROVE  [Stream!Next]_(Stream!vars)
  <2>1. /\ closeTimedOut /\ pending' = 0
        /\ UNCHANGED <<cgPc, in, out, wire, closing>>
    BY <1>5 DEF LoopTimedOut, LoopWriteDropped, closeTimedOut
  <2>2. Emitted' = Emitted /\ RSTEmitted' = RSTEmitted
        /\ closeTimedOut' = closeTimedOut
    BY <2>1 DEF Emitted, RSTEmitted, closeTimedOut
  <2>3. CASE pending = 0
    BY <2>1, <2>2, <2>3, AbsStutter DEF AbsVars, StreamQueue
  <2>4. CASE pending # 0
    <3>1. StreamQueue = <<pending>> \o in /\ StreamQueue' = in
      BY <2>1, <2>4 DEF StreamQueue
    <3>2. StreamQueue # <<>> /\ Tail(StreamQueue) = in
      BY <1>0, <3>1 DEF TypeOK
    <3>3. Stream!Drop
      BY <2>1, <2>2, <3>1, <3>2 DEF Stream!Drop
    <3> QED BY <3>3 DEF Stream!Next
  <2> QED BY <2>3, <2>4
<1>6. CASE LoopWriteOut
  <2>1. /\ Emitted' = Append(Emitted, FrameToWrite)
        /\ ~RSTEmitted /\ (RSTEmitted' <=> (FrameToWrite = RSTFrame))
        /\ FrameToWrite \in Frames
    BY <1>0, <1>6, WriteEffect
  <2>2. UNCHANGED <<cgPc, in, closing>> /\ pending' = 0
        /\ loopPc \in {"write", "writeRST"}
    BY <1>6 DEF LoopWriteOut
  <2>3. CASE loopPc = "write"
    <3>1. pending \in 1..MaxSends /\ FrameToWrite = DataFrame(pending)
      BY <1>0, <2>3 DEF TypeOK, FrameToWrite
    <3>2. DataIds(Emitted') = Append(DataIds(Emitted), pending)
      BY <1>0, <2>1, <3>1, DataIdsAppend DEF DataFrame
    <3>3. StreamQueue = <<pending>> \o in /\ StreamQueue' = in
      BY <2>2, <3>1 DEF StreamQueue
    <3>4. StreamQueue # <<>> /\ Head(StreamQueue) = pending
          /\ Tail(StreamQueue) = in
      BY <1>0, <3>1, <3>3 DEF TypeOK
    <3>5. RSTEmitted' = RSTEmitted
      <4>1. FrameToWrite # RSTFrame
        BY <3>1 DEF DataFrame, RSTFrame
      <4>2. ~RSTEmitted /\ ~RSTEmitted'
        BY <2>1, <4>1, Zenon
      <4> QED BY <4>2 DEF RSTEmitted
    <3>6. Stream!Emit
      BY <2>1, <2>2, <3>2, <3>3, <3>4, <3>5 DEF Stream!Emit, closeTimedOut
    <3> QED BY <3>6 DEF Stream!Next
  <2>4. CASE loopPc = "writeRST"
    <3>1. pending = 0 /\ FrameToWrite = RSTFrame
      BY <1>0, <2>4 DEF FrameToWrite
    <3>2. DataIds(Emitted') = DataIds(Emitted)
      BY <1>0, <2>1, <3>1, DataIdsAppend DEF RSTFrame
    <3>3. StreamQueue' = StreamQueue
      BY <2>2, <3>1 DEF StreamQueue
    <3>4. closing /\ (StreamQueue = <<>> \/ closeTimedOut)
      BY <1>0, <2>4 DEF LoopInv
    <3>5. RSTEmitted' = TRUE /\ ~RSTEmitted
      BY <2>1, <3>1, Zenon
    <3>6. Stream!EmitRST
      BY <2>2, <3>2, <3>3, <3>4, <3>5 DEF Stream!EmitRST, closeTimedOut
    <3> QED BY <3>6 DEF Stream!Next
  <2> QED BY <2>2, <2>3, <2>4
<1>7. CASE Seal
  <2>1. Stream!Seal
    BY <1>7 DEF Seal, Stream!Seal, StreamQueue, Emitted, RSTEmitted,
                closeTimedOut
  <2> QED BY <2>1 DEF Stream!Next
<1>8. CASE CloseTimeout
  <2>1. closing
    BY <1>0, <1>8 DEF CloseTimeout, LoopInv
  <2>2. Stream!Abort
    BY <1>8, <2>1 DEF CloseTimeout, Stream!Abort, StreamQueue, Emitted,
                      RSTEmitted, closeTimedOut
  <2> QED BY <2>2 DEF Stream!Next
<1>9. CASE SessionWrite
  <2>1. Emitted' = Emitted
    BY <1>0, <1>9, SessionWriteEmitted
  <2> QED BY <1>9, <2>1, AbsStutter DEF SessionWrite, AbsVars, StreamQueue,
                                        RSTEmitted, closeTimedOut
<1> QED BY StepCases, <1>1, <1>2, <1>3, <1>4, <1>5, <1>6, <1>7, <1>8, <1>9

(* The send buffer implements StreamSpec, for every window, capacity and  *)
(* number of goroutines: what send, close, the send loop, the sealing     *)
(* goroutine and the session writer of sendbuffer.go do together is a    *)
(* FIFO that accepts payloads only until closing is set, hands them to    *)
(* the session in order, drops them only after the close timeout, and    *)
(* ends with at most one RST that follows every payload not dropped.      *)
THEOREM SendBufferImplementsStream == Spec => StreamRefinement
<1>1. Init => Stream!Init
  BY RefinementInit
<1>2. RefInv /\ [Next]_vars => [Stream!Next]_(Stream!vars)
  BY RefinementStep
<1>3. Spec => []RefInv
  BY RefInvAlways
<1>4. Spec => Init /\ [][Next]_vars
  BY PTL DEF Spec, SpecSilentPeer
<1> QED BY <1>1, <1>2, <1>3, <1>4, PTL DEF StreamRefinement, Stream!Spec

=============================================================================
