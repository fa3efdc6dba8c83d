---------------------------- MODULE DialerProofs ----------------------------
(***************************************************************************)
(* Proofs about the dialer (Dialer.tla, src/dialer.go 41-143) for every    *)
(* number of callers, dials and streams per session.                       *)
(***************************************************************************)
EXTENDS Dialer, FiniteSetTheorems, TLAPS

USE DialerAssumption

\* The records dial returns, as the proofs see them.
StreamRec == [s : Nat, id : Nat]

\* The types the proofs need; Dialer's TypeOK also bounds the counters by
\* MaxDials, which takes a count of the callers inside dial to prove.
TypeInv ==
    /\ current \in Nat /\ id \in Nat /\ started \in Nat /\ dials \in Nat
    /\ holder \in Callers \cup {NoCaller}
    /\ pc \in [Callers -> {"idle", "lockWait", "locked", "create"}]
    /\ capSess \in [Callers -> Nat] /\ capId \in [Callers -> Nat]
    /\ issued \in Seq(StreamRec)
    /\ alive \subseteq Nat /\ cbPending \subseteq Nat
    /\ leaked \subseteq Callers /\ resetOn \subseteq Nat

\* The mutex is free, held by the caller in the critical section, or held
\* by a caller whose dial returned from a handshake error; and a caller in
\* the critical section holds it.
LockInv ==
    /\ holder # NoCaller => pc[holder] = "locked" \/ holder \in leaked
    /\ \A c \in Callers : pc[c] = "locked" => holder = c

\* The steps of one caller, unfolded.
CallerActions(c) ==
    \/ StartDial(c) \/ Lock(c) \/ DialReuse(c) \/ DialNewSession(c)
    \/ DialConnectFailed(c) \/ DialHandshakeFailed(c) \/ CreateStream(c)

(* Next, unfolded into the steps of the callers and of the sessions.      *)
LEMMA NextCases ==
    ASSUME [Next]_vars
    PROVE  \/ \E c \in Callers : CallerActions(c)
           \/ \E s \in Sessions : SessionFail(s) \/ SessionClosed(s)
           \/ UNCHANGED vars
BY DEF Next, CallerStep, CallerActions

(* The state dial and sessionClosed share keeps its types.                 *)
LEMMA TypeInvInductive == TypeInv /\ [Next]_vars => TypeInv'
<1> SUFFICES ASSUME TypeInv, [Next]_vars PROVE TypeInv'
  OBVIOUS
<1>1. ASSUME NEW c \in Callers, CallerActions(c) PROVE TypeInv'
  <2>1. CASE StartDial(c)
    BY <2>1 DEF StartDial, TypeInv
  <2>2. CASE Lock(c)
    BY <2>2 DEF Lock, TypeInv
  <2>3. CASE CreateStream(c)
    BY <2>3 DEF CreateStream, TypeInv, StreamRec
  <2>4. CASE DialReuse(c)
    BY <2>4 DEF DialReuse, TypeInv
  <2>5. CASE DialNewSession(c)
    BY <2>5 DEF DialNewSession, idAfterCheck, idsExhausted, TypeInv
  <2>6. CASE DialConnectFailed(c)
    BY <2>6 DEF DialConnectFailed, RecordReset, idAfterCheck, idsExhausted,
                TypeInv
  <2>7. CASE DialHandshakeFailed(c)
    BY <2>7 DEF DialHandshakeFailed, RecordReset, idAfterCheck, idsExhausted,
                TypeInv
  <2> QED BY <1>1, <2>1, <2>2, <2>3, <2>4, <2>5, <2>6, <2>7
          DEF CallerActions
<1>2. ASSUME NEW s \in Sessions, SessionFail(s) PROVE TypeInv'
  BY <1>2 DEF SessionFail, TypeInv
<1>3. ASSUME NEW s \in Sessions, SessionClosed(s) PROVE TypeInv'
  BY <1>3 DEF SessionClosed, TypeInv
<1>4. CASE UNCHANGED vars
  BY <1>4 DEF vars, TypeInv
<1> QED BY NextCases, <1>1, <1>2, <1>3, <1>4

(* For every outcome of startSession, every way out of the critical      *)
(* section but the handshake errors unlocks d.mx, and only a free mutex   *)
(* is taken.                                                               *)
LEMMA LockInvInductive ==
    TypeInv /\ LockInv /\ [Next]_vars => LockInv'
<1> SUFFICES ASSUME TypeInv, LockInv, [Next]_vars PROVE LockInv'
  OBVIOUS
<1>1. ASSUME NEW c \in Callers, CallerActions(c) PROVE LockInv'
  <2>1. CASE StartDial(c) \/ CreateStream(c)
    BY <2>1 DEF StartDial, CreateStream, LockInv, TypeInv
  <2>2. CASE Lock(c)
    BY <2>2, DialerAssumption DEF Lock, LockInv, TypeInv
  <2>3. CASE DialReuse(c) \/ DialNewSession(c) \/ DialConnectFailed(c)
    BY <2>3 DEF DialReuse, DialNewSession, DialConnectFailed, LockInv,
                TypeInv
  <2>4. CASE DialHandshakeFailed(c)
    \* startSession returns the error still holding d.mx: c leaked it.
    <3>1. /\ holder = c /\ UNCHANGED holder
          /\ pc' = [pc EXCEPT ![c] = "idle"] /\ leaked' = leaked \cup {c}
      BY <2>4 DEF DialHandshakeFailed, LockInv
    <3> QED BY <3>1 DEF LockInv, TypeInv
  <2> QED BY <1>1, <2>1, <2>2, <2>3, <2>4 DEF CallerActions
<1>2. ASSUME NEW s \in Sessions, SessionFail(s) \/ SessionClosed(s)
      PROVE LockInv'
  BY <1>2 DEF SessionFail, SessionClosed, LockInv
<1>3. CASE UNCHANGED vars
  BY <1>3 DEF vars, LockInv
<1> QED BY NextCases, <1>1, <1>2, <1>3

(* For every number of callers and dials and every outcome of             *)
(* startSession, a caller outside dial holds d.mx only if its dial         *)
(* returned from a handshake error: reuse, a new session and a connector  *)
(* error all unlock (dialer.go:65-106), and the handshake error paths     *)
(* (dialer.go:108-130) are the only leak, which the run dialer_lock_leak  *)
(* shows.                                                                  *)
THEOREM LockAlwaysReleased == Spec => []LockHeldOnlyByLeakers
<1>1. Init => TypeInv /\ LockInv
  BY DEF Init, TypeInv, LockInv, StreamRec
<1>2. TypeInv /\ LockInv /\ [Next]_vars => TypeInv' /\ LockInv'
  BY TypeInvInductive, LockInvInductive
<1>3. TypeInv /\ LockInv => LockHeldOnlyByLeakers
  BY DialerAssumption DEF TypeInv, LockInv, LockHeldOnlyByLeakers
<1> QED BY <1>1, <1>2, <1>3, PTL DEF Spec

(* An element of a sequence over S is in S.                               *)
LEMMA SeqElem ==
    ASSUME NEW S, NEW sq \in Seq(S), NEW i \in DOMAIN sq
    PROVE  sq[i] \in S
OBVIOUS

(* The elements of Append(sq, x) are those of sq and x.                   *)
LEMMA AppendElems ==
    ASSUME NEW S, NEW sq \in Seq(S), NEW x
    PROVE  {Append(sq, x)[i] : i \in DOMAIN Append(sq, x)}
             = {sq[i] : i \in DOMAIN sq} \cup {x}
<1>1. DOMAIN Append(sq, x) = DOMAIN sq \cup {Len(sq) + 1}
  OBVIOUS
<1>2. \A i \in DOMAIN sq : Append(sq, x)[i] = sq[i]
  OBVIOUS
<1>3. Append(sq, x)[Len(sq) + 1] = x
  OBVIOUS
<1> QED BY <1>1, <1>2, <1>3

\* The stream a caller captured under the lock and has not created yet.
Cap(c) == [s |-> capSess[c], id |-> capId[c]]
Creating == {c \in Callers : pc[c] = "create"}
MintedPairs == {issued[i] : i \in DOMAIN issued} \cup {Cap(c) : c \in Creating}

\* The strengthening of DuplicatesOnlyAfterReset: d.current is nil or the
\* newest session; every session reset is a started one; every stream
\* minted so far names a started session and, on a current session that
\* was never reset, an id below d.id; and two minted streams are equal only
\* on a reset session.
MintInv ==
    /\ current \in {0, started}
    /\ resetOn \subseteq 1..started
    /\ \A p \in MintedPairs :
          /\ p.s \in 1..started
          /\ p.s = current /\ current \notin resetOn => p.id < id
    /\ \A i, j \in DOMAIN issued :
          i # j /\ issued[i] = issued[j] => issued[i].s \in resetOn
    /\ \A c \in Creating, i \in DOMAIN issued :
          issued[i] = Cap(c) => Cap(c).s \in resetOn
    /\ \A c, d \in Creating : c # d /\ Cap(c) = Cap(d) => Cap(c).s \in resetOn

(* A step that leaves the session, the ids, the captures and the returned *)
(* streams alone, and moves no caller into or out of getOrCreateStream,    *)
(* keeps the minted streams as they were.                                  *)
LEMMA MintInvFrame ==
    ASSUME MintInv,
           UNCHANGED <<current, id, started, capSess, capId, issued, resetOn>>,
           Creating' = Creating
    PROVE  MintInv'
BY DEF MintInv, MintedPairs, Cap

(* A caller entering getOrCreateStream with a stream that equals no other *)
(* minted stream, unless its session was reset, keeps every duplicate on  *)
(* a reset session.                                                        *)
LEMMA MintNew ==
    ASSUME TypeInv, MintInv, NEW c \in Callers, c \notin Creating,
           Creating' = Creating \cup {c},
           \A d \in Creating : Cap(d)' = Cap(d),
           issued' = issued, resetOn' = resetOn,
           \A p \in MintedPairs : p = Cap(c)' => Cap(c)'.s \in resetOn
    PROVE  /\ \A i, j \in DOMAIN issued' :
                 i # j /\ issued'[i] = issued'[j] => issued'[i].s \in resetOn'
           /\ \A d \in Creating', i \in DOMAIN issued' :
                 issued'[i] = Cap(d)' => Cap(d)'.s \in resetOn'
           /\ \A d, e \in Creating' :
                 d # e /\ Cap(d)' = Cap(e)' => Cap(d)'.s \in resetOn'
           /\ MintedPairs' = MintedPairs \cup {Cap(c)'}
<1>1. \A i \in DOMAIN issued : issued[i] \in MintedPairs
  BY DEF MintedPairs
<1>2. \A d \in Creating : Cap(d) \in MintedPairs
  BY DEF MintedPairs
<1>3. \A d, e \in Creating' :
         d # e /\ Cap(d)' = Cap(e)' => Cap(d)'.s \in resetOn'
  <2> SUFFICES ASSUME NEW d \in Creating', NEW e \in Creating', d # e,
                      Cap(d)' = Cap(e)'
               PROVE  Cap(d)'.s \in resetOn'
    OBVIOUS
  <2>1. CASE d = c
    BY <1>2, <2>1 DEF MintInv
  <2>2. CASE e = c
    BY <1>2, <2>2 DEF MintInv
  <2>3. CASE d # c /\ e # c
    BY <2>3 DEF MintInv
  <2> QED BY <2>1, <2>2, <2>3
<1>4. \A d \in Creating', i \in DOMAIN issued' :
         issued'[i] = Cap(d)' => Cap(d)'.s \in resetOn'
  BY <1>1 DEF MintInv
<1>5. MintedPairs' = MintedPairs \cup {Cap(c)'}
  BY DEF MintedPairs
<1> QED BY <1>3, <1>4, <1>5 DEF MintInv

(* Every step keeps MintInv, whatever startSession does: a reused session *)
(* hands out d.id and increments it, a new session is numbered above every *)
(* session a stream names, a failed startSession that reset d.id records  *)
(* the current session as reset, and getOrCreateStream only moves a       *)
(* captured stream into the returned ones.                                 *)
LEMMA MintInvInductive ==
    TypeInv /\ MintInv /\ [Next]_vars => MintInv'
<1> SUFFICES ASSUME TypeInv, MintInv, [Next]_vars PROVE MintInv'
  OBVIOUS
<1>0. \A p \in MintedPairs : p.id \in Nat
  <2>1. \A i \in DOMAIN issued : issued[i].id \in Nat
    <3>1. \A i \in DOMAIN issued : issued[i] \in StreamRec
      BY SeqElem DEF TypeInv
    <3> QED BY <3>1 DEF StreamRec
  <2>2. \A d \in Creating : Cap(d).id \in Nat
    BY DEF TypeInv, Creating, Cap
  <2> QED BY <2>1, <2>2 DEF MintedPairs
<1>1. ASSUME NEW c \in Callers, CallerActions(c) PROVE MintInv'
  <2>1. CASE StartDial(c) \/ Lock(c)
    <3>1. Creating' = Creating
      BY <2>1 DEF StartDial, Lock, Creating, TypeInv
    <3> QED BY <2>1, <3>1, MintInvFrame DEF StartDial, Lock
  <2>2. CASE DialReuse(c)
    <3>1. Creating' = Creating \cup {c} /\ c \notin Creating
      BY <2>2 DEF DialReuse, Creating, TypeInv
    <3>2. Cap(c)' = [s |-> current, id |-> id]
      BY <2>2 DEF DialReuse, Cap, TypeInv
    <3>3. \A d \in Creating : Cap(d)' = Cap(d)
      BY <2>2, <3>1 DEF DialReuse, Cap, Creating, TypeInv
    <3>4. current # 0 /\ current = started /\ started \in Nat \ {0}
      BY <2>2 DEF DialReuse, MintInv, TypeInv
    <3>5. \A p \in MintedPairs : p = Cap(c)' => Cap(c)'.s \in resetOn
      BY <3>2, <3>4 DEF MintInv, TypeInv
    <3>6. /\ \A i, j \in DOMAIN issued' :
                i # j /\ issued'[i] = issued'[j] => issued'[i].s \in resetOn'
          /\ \A d \in Creating', i \in DOMAIN issued' :
                issued'[i] = Cap(d)' => Cap(d)'.s \in resetOn'
          /\ \A d, e \in Creating' :
                d # e /\ Cap(d)' = Cap(e)' => Cap(d)'.s \in resetOn'
          /\ MintedPairs' = MintedPairs \cup {Cap(c)'}
      BY <2>2, <3>1, <3>3, <3>5, MintNew DEF DialReuse
    <3>7. \A p \in MintedPairs' :
             /\ p.s \in 1..started'
             /\ p.s = current' /\ current' \notin resetOn' => p.id < id'
      BY <1>0, <2>2, <3>2, <3>4, <3>6 DEF DialReuse, MintInv, TypeInv
    <3> QED BY <2>2, <3>4, <3>6, <3>7 DEF DialReuse, MintInv
  <2>3. CASE DialNewSession(c)
    <3>1. Creating' = Creating \cup {c} /\ c \notin Creating
      BY <2>3 DEF DialNewSession, Creating, TypeInv
    <3>2. Cap(c)' = [s |-> started + 1, id |-> idAfterCheck]
      BY <2>3 DEF DialNewSession, Cap, TypeInv
    <3>3. \A d \in Creating : Cap(d)' = Cap(d)
      BY <2>3, <3>1 DEF DialNewSession, Cap, Creating, TypeInv
    <3>4. \A p \in MintedPairs : p.s \in 1..started
      BY DEF MintInv
    <3>5. \A p \in MintedPairs : p = Cap(c)' => Cap(c)'.s \in resetOn
      BY <3>2, <3>4 DEF TypeInv
    <3>6. /\ \A i, j \in DOMAIN issued' :
                i # j /\ issued'[i] = issued'[j] => issued'[i].s \in resetOn'
          /\ \A d \in Creating', i \in DOMAIN issued' :
                issued'[i] = Cap(d)' => Cap(d)'.s \in resetOn'
          /\ \A d, e \in Creating' :
                d # e /\ Cap(d)' = Cap(e)' => Cap(d)'.s \in resetOn'
          /\ MintedPairs' = MintedPairs \cup {Cap(c)'}
      BY <2>3, <3>1, <3>3, <3>5, MintNew DEF DialNewSession
    <3>7. idAfterCheck \in Nat
      BY DEF idAfterCheck, TypeInv
    <3>8. \A p \in MintedPairs' :
             /\ p.s \in 1..started'
             /\ p.s = current' /\ current' \notin resetOn' => p.id < id'
      BY <2>3, <3>2, <3>4, <3>6, <3>7 DEF DialNewSession, TypeInv
    <3>9. resetOn' \subseteq 1..started'
      BY <2>3 DEF DialNewSession, MintInv, TypeInv
    <3> QED BY <2>3, <3>6, <3>8, <3>9 DEF DialNewSession, MintInv
  <2>4. CASE DialConnectFailed(c) \/ DialHandshakeFailed(c)
    <3>1. /\ current' = current /\ capSess' = capSess /\ capId' = capId
          /\ started' = started /\ issued' = issued
          /\ id' = idAfterCheck /\ RecordReset
          /\ pc[c] = "locked" /\ pc' = [pc EXCEPT ![c] = "idle"]
      BY <2>4 DEF DialConnectFailed, DialHandshakeFailed
    <3>2. Creating' = Creating /\ MintedPairs' = MintedPairs
      BY <3>1 DEF Creating, MintedPairs, Cap, TypeInv
    <3>3. resetOn \subseteq resetOn' /\ resetOn' \subseteq 1..started
      <4>1. CASE idsExhausted /\ current # 0
        <5>1. resetOn' = resetOn \cup {current}
          BY <3>1, <4>1 DEF RecordReset
        <5>2. current \in 1..started
          BY <4>1 DEF MintInv, TypeInv
        <5> QED BY <5>1, <5>2 DEF MintInv
      <4>2. CASE ~(idsExhausted /\ current # 0)
        BY <3>1, <4>2 DEF RecordReset, MintInv
      <4> QED BY <4>1, <4>2
    <3>4. \A p \in MintedPairs :
             p.s = current /\ current \notin resetOn' => p.id < id'
      <4>1. CASE idsExhausted
        BY <3>1, <4>1 DEF RecordReset, MintInv
      <4>2. CASE ~idsExhausted
        BY <3>1, <4>2 DEF RecordReset, idAfterCheck, MintInv
      <4> QED BY <4>1, <4>2
    <3>5. \A p \in MintedPairs' :
             /\ p.s \in 1..started'
             /\ p.s = current' /\ current' \notin resetOn' => p.id < id'
      BY <3>1, <3>2, <3>4 DEF MintInv
    <3>6. \A i, j \in DOMAIN issued' :
             i # j /\ issued'[i] = issued'[j] => issued'[i].s \in resetOn'
      BY <3>1, <3>3 DEF MintInv
    <3>7. \A d \in Callers : Cap(d)' = Cap(d)
      BY <3>1 DEF Cap
    <3>8. \A d \in Creating', i \in DOMAIN issued' :
             issued'[i] = Cap(d)' => Cap(d)'.s \in resetOn'
      BY <3>1, <3>2, <3>3, <3>7 DEF MintInv, Creating
    <3>9. \A d, e \in Creating' :
             d # e /\ Cap(d)' = Cap(e)' => Cap(d)'.s \in resetOn'
      BY <3>2, <3>3, <3>7 DEF MintInv, Creating
    <3> QED BY <3>1, <3>3, <3>5, <3>6, <3>8, <3>9 DEF MintInv
  <2>5. CASE CreateStream(c)
    <3>1. Creating' = Creating \ {c} /\ c \in Creating
      BY <2>5 DEF CreateStream, Creating, TypeInv
    <3>2. \A d \in Creating : Cap(d)' = Cap(d)
      BY <2>5 DEF CreateStream, Cap
    <3>3. issued' = Append(issued, Cap(c)) /\ issued \in Seq(StreamRec)
      BY <2>5 DEF CreateStream, Cap, TypeInv
    <3>4. {issued'[i] : i \in DOMAIN issued'}
            = {issued[i] : i \in DOMAIN issued} \cup {Cap(c)}
      <4>1. {Append(issued, Cap(c))[i] : i \in DOMAIN Append(issued, Cap(c))}
              = {issued[i] : i \in DOMAIN issued} \cup {Cap(c)}
        BY <3>3, AppendElems
      <4> QED BY <3>3, <4>1
    <3>5. MintedPairs' = MintedPairs
      BY <3>1, <3>2, <3>4 DEF MintedPairs
    <3>6. /\ DOMAIN issued' = DOMAIN issued \cup {Len(issued) + 1}
          /\ Len(issued) + 1 \notin DOMAIN issued
          /\ \A i \in DOMAIN issued : issued'[i] = issued[i]
          /\ issued'[Len(issued) + 1] = Cap(c)
      BY <3>3
    <3>7. UNCHANGED resetOn
      BY <2>5 DEF CreateStream
    <3>8. \A i, j \in DOMAIN issued' :
             i # j /\ issued'[i] = issued'[j] => issued'[i].s \in resetOn'
      <4> SUFFICES ASSUME NEW i \in DOMAIN issued', NEW j \in DOMAIN issued',
                          i # j, issued'[i] = issued'[j]
                   PROVE  issued'[i].s \in resetOn
        BY <3>7
      <4>1. CASE i \in DOMAIN issued /\ j \in DOMAIN issued
        BY <3>6, <4>1 DEF MintInv
      <4>2. CASE i = Len(issued) + 1
        <5>1. j \in DOMAIN issued /\ issued[j] = Cap(c)
          BY <3>6, <4>2
        <5> QED BY <3>1, <3>6, <4>2, <5>1 DEF MintInv
      <4>3. CASE j = Len(issued) + 1
        <5>1. i \in DOMAIN issued /\ issued[i] = Cap(c)
          BY <3>6, <4>3
        <5> QED BY <3>1, <3>6, <5>1 DEF MintInv
      <4> QED BY <3>6, <4>1, <4>2, <4>3
    <3>9. \A d \in Creating', i \in DOMAIN issued' :
             issued'[i] = Cap(d)' => Cap(d)'.s \in resetOn'
      <4> SUFFICES ASSUME NEW d \in Creating', NEW i \in DOMAIN issued',
                          issued'[i] = Cap(d)'
                   PROVE  Cap(d).s \in resetOn
        BY <3>1, <3>2, <3>7
      <4>1. d \in Creating /\ d # c /\ Cap(d)' = Cap(d)
        BY <3>1, <3>2
      <4>2. CASE i \in DOMAIN issued
        BY <3>6, <4>1, <4>2 DEF MintInv
      <4>3. CASE i = Len(issued) + 1
        BY <3>1, <3>6, <4>1, <4>3 DEF MintInv
      <4> QED BY <3>6, <4>2, <4>3
    <3>10. \A d, e \in Creating' :
              d # e /\ Cap(d)' = Cap(e)' => Cap(d)'.s \in resetOn'
      BY <3>1, <3>2, <3>7 DEF MintInv
    <3> QED BY <2>5, <3>5, <3>7, <3>8, <3>9, <3>10 DEF CreateStream, MintInv
  <2> QED BY <1>1, <2>1, <2>2, <2>3, <2>4, <2>5 DEF CallerActions
<1>2. ASSUME NEW s \in Sessions, SessionFail(s) PROVE MintInv'
  <2>1. Creating' = Creating
    BY <1>2 DEF SessionFail, Creating
  <2> QED BY <1>2, <2>1, MintInvFrame DEF SessionFail
<1>3. ASSUME NEW s \in Sessions, SessionClosed(s) PROVE MintInv'
  <2>1. MintedPairs' = MintedPairs /\ Creating' = Creating
    BY <1>3 DEF SessionClosed, MintedPairs, Creating, Cap
  <2>2. \A p \in MintedPairs : p.s # 0
    BY DEF MintInv
  <2> QED BY <1>3, <2>1, <2>2 DEF SessionClosed, MintInv, Cap
<1>4. CASE UNCHANGED vars
  BY <1>4 DEF vars, MintInv, MintedPairs, Creating, Cap
<1> QED BY NextCases, <1>1, <1>2, <1>3, <1>4

(* For every number of callers, dials and streams per session and every   *)
(* outcome of startSession, two dial calls return the same stream only on *)
(* a session whose d.id a failed startSession reset while it stayed       *)
(* current; the run dialer_id_reuse shows that this happens.              *)
THEOREM StreamsUnique == Spec => []DuplicatesOnlyAfterReset
<1>1. Init => TypeInv /\ MintInv
  BY DEF Init, TypeInv, MintInv, MintedPairs, Creating, StreamRec
<1>2. TypeInv /\ MintInv /\ [Next]_vars => TypeInv' /\ MintInv'
  BY TypeInvInductive, MintInvInductive
<1>3. MintInv => DuplicatesOnlyAfterReset
  BY DEF MintInv, DuplicatesOnlyAfterReset
<1> QED BY <1>1, <1>2, <1>3, PTL DEF Spec

-----------------------------------------------------------------------------
(* d.current never names a session whose sessionClosed callback has run,  *)
(* for every outcome of startSession: a new session is alive when dial    *)
(* stores it, a failing session stays pending until its callback, and the *)
(* callback clears d.current under d.mx when it still names that session   *)
(* (dialer.go:136-142), so no later step can bring it back.               *)
THEOREM CurrentNeverClosed == Spec => []CurrentNotClosed
<1>1. Init => CurrentNotClosed
  BY DEF Init, CurrentNotClosed
<1>2. CurrentNotClosed /\ [Next]_vars => CurrentNotClosed'
  <2> SUFFICES ASSUME CurrentNotClosed, [Next]_vars PROVE CurrentNotClosed'
    OBVIOUS
  <2>1. ASSUME NEW c \in Callers, CallerActions(c) PROVE CurrentNotClosed'
    <3>1. CASE DialNewSession(c)
      BY <3>1 DEF DialNewSession, CurrentNotClosed
    <3>2. CASE ~DialNewSession(c)
      <4>1. UNCHANGED <<current, alive, cbPending>>
        BY <2>1, <3>2 DEF CallerActions, StartDial, Lock, DialReuse,
                          DialConnectFailed, DialHandshakeFailed, CreateStream
      <4> QED BY <4>1 DEF CurrentNotClosed
    <3> QED BY <3>1, <3>2
  <2>2. ASSUME NEW s \in Sessions, SessionFail(s) PROVE CurrentNotClosed'
    BY <2>2 DEF SessionFail, CurrentNotClosed
  <2>3. ASSUME NEW s \in Sessions, SessionClosed(s) PROVE CurrentNotClosed'
    BY <2>3 DEF SessionClosed, CurrentNotClosed
  <2>4. CASE UNCHANGED vars
    BY <2>4 DEF vars, CurrentNotClosed
  <2> QED BY NextCases, <2>1, <2>2, <2>3, <2>4
<1> QED BY <1>1, <1>2, PTL DEF Spec

-----------------------------------------------------------------------------
(* The bounds of the type invariant.                                       *)

CallerStates == {"idle", "lockWait", "locked", "create"}

\* The callers inside dial that have not yet passed the critical section.
InDial == {c \in Callers : pc[c] \in {"lockWait", "locked"}}

\* Each dial call starts at most one session: the sessions started plus the
\* calls that still may start one are at most the dial calls; every session
\* number in use is one started; stream ids stay within the normalised
\* maxStreamPerConn, d.id at most one above it.
BoundInv ==
    /\ dials <= MaxDials
    /\ started + Cardinality(InDial) <= dials
    /\ current <= started
    /\ id <= MaxStreamsPerConn + 1
    /\ \A c \in Callers :
          /\ capSess[c] <= started
          /\ pc[c] = "create" => capSess[c] >= 1
          /\ capId[c] <= MaxStreamsPerConn
    /\ \A i \in DOMAIN issued :
          /\ issued[i].s \in 1..started
          /\ issued[i].id <= MaxStreamsPerConn
    /\ alive \subseteq 1..started /\ cbPending \subseteq 1..started
    /\ resetOn \subseteq 1..started

LEMMA InDialFinite ==
    /\ IsFiniteSet(InDial)
    /\ Cardinality(InDial) \in Nat
<1>1. IsFiniteSet(InDial)
  BY FS_Subset DEF InDial
<1> QED BY <1>1, FS_CardinalityType

(* A caller entering dial joins InDial; one leaving the critical section  *)
(* leaves it; the other steps keep it.                                     *)
LEMMA InDialAdd ==
    ASSUME NEW c \in Callers, pc[c] = "idle",
           pc' = [pc EXCEPT ![c] = "lockWait"], pc \in [Callers -> CallerStates]
    PROVE  /\ IsFiniteSet(InDial')
           /\ Cardinality(InDial') = Cardinality(InDial) + 1
<1>1. InDial' = InDial \cup {c} /\ c \notin InDial
  BY DEF InDial
<1> QED BY <1>1, InDialFinite, FS_AddElement

LEMMA InDialRemove ==
    ASSUME NEW c \in Callers, pc[c] = "locked", NEW v,
           v \notin {"lockWait", "locked"},
           pc' = [pc EXCEPT ![c] = v], pc \in [Callers -> CallerStates]
    PROVE  /\ IsFiniteSet(InDial')
           /\ Cardinality(InDial') = Cardinality(InDial) - 1
<1>1. InDial' = InDial \ {c} /\ c \in InDial
  BY DEF InDial
<1> QED BY <1>1, InDialFinite, FS_RemoveElement

LEMMA InDialMove ==
    ASSUME NEW c \in Callers, NEW v, pc' = [pc EXCEPT ![c] = v],
           pc \in [Callers -> CallerStates],
           pc[c] \in {"lockWait", "locked"} <=> v \in {"lockWait", "locked"}
    PROVE  Cardinality(InDial') = Cardinality(InDial)
<1>1. InDial' = InDial
  BY DEF InDial
<1> QED BY <1>1

LEMMA BoundInvInit == Init => BoundInv
<1> SUFFICES ASSUME Init PROVE BoundInv
  OBVIOUS
<1>1. InDial = {}
  BY DEF Init, InDial
<1> QED BY <1>1, FS_EmptySet DEF Init, BoundInv

(* Every step keeps the bounds: StartDial counts the call before it joins *)
(* InDial, a new session is started only by a caller leaving InDial, and  *)
(* the ids captured are within maxStreamPerConn once exhausted sessions   *)
(* are replaced (dialer.go:65-99).                                         *)
LEMMA BoundInvStep == TypeInv /\ BoundInv /\ [Next]_vars => BoundInv'
<1> SUFFICES ASSUME TypeInv, BoundInv, [Next]_vars PROVE BoundInv'
  OBVIOUS
<1>0. /\ pc \in [Callers -> CallerStates]
      /\ Cardinality(InDial) \in Nat
  BY InDialFinite DEF TypeInv, CallerStates
<1>1. ASSUME NEW c \in Callers, CallerActions(c) PROVE BoundInv'
  <2>1. CASE StartDial(c)
    <3>1. Cardinality(InDial') = Cardinality(InDial) + 1
      BY <2>1, <1>0, InDialAdd DEF StartDial
    <3> QED BY <2>1, <3>1, <1>0 DEF StartDial, BoundInv, TypeInv
  <2>2. CASE Lock(c)
    <3>1. Cardinality(InDial') = Cardinality(InDial)
      BY <2>2, <1>0, InDialMove DEF Lock
    <3> QED BY <2>2, <3>1 DEF Lock, BoundInv
  <2>3. CASE CreateStream(c)
    <3>1. Cardinality(InDial') = Cardinality(InDial)
      BY <2>3, <1>0, InDialMove DEF CreateStream
    <3>2. /\ capSess[c] \in 1..started
          /\ capId[c] <= MaxStreamsPerConn
      BY <2>3 DEF CreateStream, BoundInv, TypeInv
    <3> QED BY <2>3, <3>1, <3>2 DEF CreateStream, BoundInv, TypeInv
  <2>4. CASE DialReuse(c)
    <3>1. Cardinality(InDial') = Cardinality(InDial) - 1
      BY <2>4, <1>0, InDialRemove DEF DialReuse
    <3> QED BY <2>4, <3>1, <1>0 DEF DialReuse, idsExhausted, BoundInv,
                                    TypeInv
  <2>5. CASE DialNewSession(c)
    <3>1. Cardinality(InDial') = Cardinality(InDial) - 1
      BY <2>5, <1>0, InDialRemove DEF DialNewSession
    <3>2. idAfterCheck <= MaxStreamsPerConn
      BY DEF idAfterCheck, idsExhausted, BoundInv, TypeInv
    <3>3. /\ dials' <= MaxDials
          /\ started' + Cardinality(InDial') <= dials'
          /\ current' <= started'
          /\ id' <= MaxStreamsPerConn + 1
      BY <2>5, <3>1, <3>2, <1>0 DEF DialNewSession, BoundInv, TypeInv,
                                    idAfterCheck
    <3>4. ASSUME NEW d \in Callers
          PROVE  /\ capSess'[d] <= started'
                 /\ pc'[d] = "create" => capSess'[d] >= 1
                 /\ capId'[d] <= MaxStreamsPerConn
      BY <2>5, <3>2 DEF DialNewSession, BoundInv, TypeInv
    <3>5. \A i \in DOMAIN issued' :
             /\ issued'[i].s \in 1..started'
             /\ issued'[i].id <= MaxStreamsPerConn
      BY <2>5 DEF DialNewSession, BoundInv, TypeInv
    <3>6. /\ alive' \subseteq 1..started' /\ cbPending' \subseteq 1..started'
          /\ resetOn' \subseteq 1..started'
      BY <2>5 DEF DialNewSession, BoundInv, TypeInv
    <3> QED BY <3>3, <3>4, <3>5, <3>6 DEF BoundInv
  <2>6. CASE DialConnectFailed(c) \/ DialHandshakeFailed(c)
    <3>1. Cardinality(InDial') = Cardinality(InDial) - 1
      BY <2>6, <1>0, InDialRemove DEF DialConnectFailed, DialHandshakeFailed
    <3>2. idAfterCheck <= MaxStreamsPerConn + 1
      BY DEF idAfterCheck, idsExhausted, BoundInv, TypeInv
    <3>3. /\ UNCHANGED <<current, capSess, capId, started, alive, cbPending,
                         issued, dials>>
          /\ id' = idAfterCheck /\ RecordReset
          /\ pc' = [pc EXCEPT ![c] = "idle"]
      BY <2>6 DEF DialConnectFailed, DialHandshakeFailed
    <3>4. ASSUME NEW d \in Callers
          PROVE  /\ capSess'[d] <= started'
                 /\ pc'[d] = "create" => capSess'[d] >= 1
                 /\ capId'[d] <= MaxStreamsPerConn
      BY <3>3, <1>0 DEF BoundInv
    <3>5. /\ dials' <= MaxDials
          /\ started' + Cardinality(InDial') <= dials'
          /\ current' <= started'
          /\ id' <= MaxStreamsPerConn + 1
      BY <3>1, <3>2, <3>3, <1>0 DEF BoundInv, TypeInv
    <3>6. resetOn' \subseteq 1..started'
      <4>1. CASE idsExhausted /\ current # 0
        <5>1. resetOn' = resetOn \cup {current}
          BY <3>3, <4>1 DEF RecordReset
        <5>2. current \in 1..started
          BY <4>1 DEF BoundInv, TypeInv
        <5> QED BY <3>3, <5>1, <5>2 DEF BoundInv
      <4>2. CASE ~(idsExhausted /\ current # 0)
        BY <3>3, <4>2 DEF RecordReset, BoundInv
      <4> QED BY <4>1, <4>2
    <3> QED BY <3>3, <3>4, <3>5, <3>6 DEF BoundInv
  <2> QED BY <1>1, <2>1, <2>2, <2>3, <2>4, <2>5, <2>6 DEF CallerActions
<1>2. ASSUME NEW s \in Sessions, SessionFail(s) \/ SessionClosed(s)
      PROVE BoundInv'
  <2>1. Cardinality(InDial') = Cardinality(InDial)
    BY <1>2 DEF SessionFail, SessionClosed, InDial
  <2>2. /\ UNCHANGED <<id, capSess, capId, started, issued, dials, pc, resetOn>>
        /\ current' \in {0, current}
        /\ alive' \cup cbPending' \subseteq alive \cup cbPending \cup {s}
        /\ s \in alive \cup cbPending
    BY <1>2 DEF SessionFail, SessionClosed
  <2>3. s \in 1..started /\ current' <= started
    BY <2>2 DEF BoundInv, TypeInv
  <2> QED BY <2>1, <2>2, <2>3 DEF BoundInv
<1>3. CASE UNCHANGED vars
  BY <1>3 DEF vars, BoundInv, InDial
<1> QED BY NextCases, <1>1, <1>2, <1>3

(* A sequence whose elements all lie in T is a sequence over T.          *)
LEMMA SeqNarrow ==
    ASSUME NEW S, NEW T, NEW sq \in Seq(S),
           \A i \in DOMAIN sq : sq[i] \in T
    PROVE  sq \in Seq(T)
OBVIOUS

(* The dialer's type invariant holds in every reachable state, for every *)
(* number of callers, dials and streams per session: session numbers stay *)
(* among the sessions dial has started, and the ids dial captures stay    *)
(* within maxStreamPerConn, d.id at most one past it (dialer.go:65-99).   *)
THEOREM DialerTypeCorrect == Spec => []TypeOK
<1>1. Init => TypeInv /\ BoundInv
  BY BoundInvInit DEF Init, TypeInv, StreamRec
<1>2. TypeInv /\ BoundInv /\ [Next]_vars => TypeInv' /\ BoundInv'
  BY TypeInvInductive, BoundInvStep
<1>3. TypeInv /\ BoundInv => TypeOK
  <2> SUFFICES ASSUME TypeInv, BoundInv PROVE TypeOK
    OBVIOUS
  <2>1. started <= dials /\ dials <= MaxDials
    BY InDialFinite DEF BoundInv, TypeInv
  <2>2. ASSUME NEW i \in DOMAIN issued
        PROVE  issued[i] \in [s : Sessions, id : 0..MaxStreamsPerConn]
    <3>1. issued[i] \in StreamRec
      BY SeqElem DEF TypeInv
    <3>2. issued[i].s \in 1..started /\ issued[i].id <= MaxStreamsPerConn
      BY DEF BoundInv
    <3>3. issued[i].s \in Sessions /\ issued[i].id \in 0..MaxStreamsPerConn
      BY <2>1, <3>1, <3>2 DEF StreamRec, Sessions, TypeInv
    <3>4. issued[i] = [s |-> issued[i].s, id |-> issued[i].id]
      BY <3>1 DEF StreamRec
    <3> QED BY <3>3, <3>4
  <2>3. issued \in Seq([s : Sessions, id : 0..MaxStreamsPerConn])
    BY <2>2, SeqNarrow DEF TypeInv
  <2>4. /\ current \in 0..MaxDials /\ started \in 0..MaxDials
        /\ id \in 0..(MaxStreamsPerConn + 1) /\ dials \in 0..MaxDials
        /\ capSess \in [Callers -> 0..MaxDials]
        /\ capId \in [Callers -> 0..MaxStreamsPerConn]
        /\ alive \subseteq Sessions /\ cbPending \subseteq Sessions
        /\ leaked \subseteq Callers /\ resetOn \subseteq Sessions
    BY <2>1 DEF BoundInv, TypeInv, Sessions
  <2> QED BY <2>3, <2>4 DEF TypeInv, TypeOK
<1> QED BY <1>1, <1>2, <1>3, PTL DEF Spec

=============================================================================
