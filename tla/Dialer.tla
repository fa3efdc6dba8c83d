------------------------------- MODULE Dialer -------------------------------
(***************************************************************************)
(* The stream dialer of src/dialer.go (lines 41-143): concurrent callers   *)
(* of dial() share one mutex, the current session and the next stream id; *)
(* sessions fail on their own and call back sessionClosed, which takes the *)
(* same mutex. Sessions are numbered 1, 2, ... in the order they start; 0  *)
(* stands for a nil current session. The outcome of startSession is a     *)
(* choice among StartOutcomes: the connector fails (doDial), the handshake *)
(* fails (secret, IVs, init message or ciphers), or the session starts.    *)
(***************************************************************************)
EXTENDS Integers, Sequences, FiniteSets

CONSTANTS
    Callers,            \* goroutines calling dial
    NoCaller,           \* the mutex is free
    MaxStreamsPerConn,  \* d.maxStreamPerConn after StreamDialer normalised it
    MaxDials,           \* bound on the number of dial calls
    StartOutcomes       \* outcomes startSession may have in this model

ASSUME DialerAssumption ==
    /\ IsFiniteSet(Callers)
    /\ NoCaller \notin Callers
    /\ MaxStreamsPerConn \in Nat \ {0}
    /\ MaxDials \in Nat
    /\ StartOutcomes \subseteq {"ok", "dialErr", "handshakeErr"}
    /\ "ok" \in StartOutcomes

\* Every dial starts at most one session.
Sessions == 1..MaxDials

VARIABLES
    current,    \* d.current (0 = nil)
    id,         \* d.id, the next stream id
    holder,     \* the goroutine holding d.mx, or NoCaller
    pc,         \* per caller: idle, lockWait, locked, create
    capSess,    \* per caller: the session captured under the lock
    capId,      \* per caller: the id captured under the lock
    started,    \* number of sessions started so far
    alive,      \* sessions whose connection has not failed
    cbPending,  \* failed sessions whose sessionClosed callback has not run
    issued,     \* history: the streams dial returned, as [s, id] records
    dials,      \* number of dial calls started
    leaked,     \* history: callers whose dial returned from a failed
                \* startSession still holding d.mx
    resetOn     \* history: sessions left current after a failed
                \* startSession had reset d.id to 0

vars == <<current, id, holder, pc, capSess, capId, started, alive, cbPending,
          issued, dials, leaked, resetOn>>

Init ==
    /\ current = 0
    /\ id = 0
    /\ holder = NoCaller
    /\ pc = [c \in Callers |-> "idle"]
    /\ capSess = [c \in Callers |-> 0]
    /\ capId = [c \in Callers |-> 0]
    /\ started = 0
    /\ alive = {}
    /\ cbPending = {}
    /\ issued = <<>>
    /\ dials = 0
    /\ leaked = {}
    /\ resetOn = {}

-----------------------------------------------------------------------------
\* A caller enters dial() and blocks on d.mx.Lock().
StartDial(c) ==
    /\ pc[c] = "idle"
    /\ dials < MaxDials
    /\ dials' = dials + 1
    /\ pc' = [pc EXCEPT ![c] = "lockWait"]
    /\ UNCHANGED <<current, id, holder, capSess, capId, started, alive,
                   cbPending, issued>>
    /\ UNCHANGED <<leaked, resetOn>>

Lock(c) ==
    /\ pc[c] = "lockWait"
    /\ holder = NoCaller
    /\ holder' = c
    /\ pc' = [pc EXCEPT ![c] = "locked"]
    /\ UNCHANGED <<current, id, capSess, capId, started, alive, cbPending,
                   issued, dials>>
    /\ UNCHANGED <<leaked, resetOn>>

\* The critical section of dial(): the exhaustion check resets d.id, and a
\* nil or exhausted session makes startSession run under the lock.
idsExhausted == id > MaxStreamsPerConn
idAfterCheck == IF idsExhausted THEN 0 ELSE id

\* Mutant: the session is reused without the exhaustion check.
DialReuseNoCheck(c) ==
    /\ pc[c] = "locked"
    /\ current # 0
    /\ capSess' = [capSess EXCEPT ![c] = current]
    /\ capId' = [capId EXCEPT ![c] = id]
    /\ id' = id + 1
    /\ holder' = NoCaller
    /\ pc' = [pc EXCEPT ![c] = "create"]
    /\ UNCHANGED <<current, started, alive, cbPending, issued, dials>>
    /\ UNCHANGED <<leaked, resetOn>>

\* Mutant: the id is captured but d.id++ is missing.
DialReuseNoIncrement(c) ==
    /\ pc[c] = "locked"
    /\ current # 0 /\ ~idsExhausted
    /\ capSess' = [capSess EXCEPT ![c] = current]
    /\ capId' = [capId EXCEPT ![c] = id]
    /\ holder' = NoCaller
    /\ pc' = [pc EXCEPT ![c] = "create"]
    /\ UNCHANGED <<current, id, started, alive, cbPending, issued, dials>>
    /\ UNCHANGED <<leaked, resetOn>>

\* The session is reused: capture it and the id, increment, unlock.
DialReuse(c) ==
    /\ pc[c] = "locked"
    /\ current # 0 /\ ~idsExhausted
    /\ capSess' = [capSess EXCEPT ![c] = current]
    /\ capId' = [capId EXCEPT ![c] = id]
    /\ id' = id + 1
    /\ holder' = NoCaller
    /\ pc' = [pc EXCEPT ![c] = "create"]
    /\ UNCHANGED <<current, started, alive, cbPending, issued, dials>>
    /\ UNCHANGED <<leaked, resetOn>>

\* Mutant: after a new session, dial returns without d.mx.Unlock().
DialNewSessionLocked(c) ==
    /\ pc[c] = "locked"
    /\ current = 0 \/ idsExhausted
    /\ "ok" \in StartOutcomes
    /\ started' = started + 1
    /\ current' = started + 1
    /\ alive' = alive \cup {started + 1}
    /\ capSess' = [capSess EXCEPT ![c] = started + 1]
    /\ capId' = [capId EXCEPT ![c] = idAfterCheck]
    /\ id' = idAfterCheck + 1
    /\ pc' = [pc EXCEPT ![c] = "create"]
    /\ UNCHANGED <<holder, cbPending, issued, dials>>
    /\ UNCHANGED <<leaked, resetOn>>

\* startSession succeeds: d.current is the new session; dial goes on.
DialNewSession(c) ==
    /\ pc[c] = "locked"
    /\ current = 0 \/ idsExhausted
    /\ "ok" \in StartOutcomes
    /\ started' = started + 1
    /\ current' = started + 1
    /\ alive' = alive \cup {started + 1}
    /\ capSess' = [capSess EXCEPT ![c] = started + 1]
    /\ capId' = [capId EXCEPT ![c] = idAfterCheck]
    /\ id' = idAfterCheck + 1
    /\ holder' = NoCaller
    /\ pc' = [pc EXCEPT ![c] = "create"]
    /\ UNCHANGED <<cbPending, issued, dials>>
    /\ UNCHANGED <<leaked, resetOn>>

\* A failed startSession after the exhaustion check reset d.id leaves the
\* old session current: record it in the history resetOn.
RecordReset ==
    resetOn' = IF idsExhausted /\ current # 0 THEN resetOn \cup {current}
                                            ELSE resetOn

\* Mutant: the connector error path returns without d.mx.Unlock().
DialConnectFailedLocked(c) ==
    /\ pc[c] = "locked"
    /\ current = 0 \/ idsExhausted
    /\ "dialErr" \in StartOutcomes
    /\ id' = idAfterCheck
    /\ pc' = [pc EXCEPT ![c] = "idle"]
    /\ RecordReset
    /\ UNCHANGED <<current, holder, capSess, capId, started, alive, cbPending,
                   issued, dials, leaked>>

\* doDial fails: startSession unlocks d.mx itself and dial returns the
\* error; the reset of d.id has already happened.
DialConnectFailed(c) ==
    /\ pc[c] = "locked"
    /\ current = 0 \/ idsExhausted
    /\ "dialErr" \in StartOutcomes
    /\ id' = idAfterCheck
    /\ holder' = NoCaller
    /\ pc' = [pc EXCEPT ![c] = "idle"]
    /\ RecordReset
    /\ UNCHANGED <<current, capSess, capId, started, alive, cbPending, issued,
                   dials, leaked>>

\* A later step of startSession fails: it returns the error without
\* unlocking, and dial returns it at once.
DialHandshakeFailed(c) ==
    /\ pc[c] = "locked"
    /\ current = 0 \/ idsExhausted
    /\ "handshakeErr" \in StartOutcomes
    /\ id' = idAfterCheck
    /\ pc' = [pc EXCEPT ![c] = "idle"]
    /\ leaked' = leaked \cup {c}
    /\ RecordReset
    /\ UNCHANGED <<current, holder, capSess, capId, started, alive, cbPending,
                   issued, dials>>

\* Mutant: creating a stream waits for the session to be alive, so a dial
\* that picked a session which then fails never returns.
CreateStreamOnAlive(c) ==
    /\ pc[c] = "create"
    /\ capSess[c] \in alive
    /\ issued' = Append(issued, [s |-> capSess[c], id |-> capId[c]])
    /\ pc' = [pc EXCEPT ![c] = "idle"]
    /\ UNCHANGED <<current, id, holder, capSess, capId, started, alive,
                   cbPending, dials>>
    /\ UNCHANGED <<leaked, resetOn>>

\* current.getOrCreateStream(id), outside the lock; dial returns the stream.
CreateStream(c) ==
    /\ pc[c] = "create"
    /\ issued' = Append(issued, [s |-> capSess[c], id |-> capId[c]])
    /\ pc' = [pc EXCEPT ![c] = "idle"]
    /\ UNCHANGED <<current, id, holder, capSess, capId, started, alive,
                   cbPending, dials>>
    /\ UNCHANGED <<leaked, resetOn>>

-----------------------------------------------------------------------------
\* The connection of a live session fails; the session will call back.
SessionFail(s) ==
    /\ s \in alive
    /\ alive' = alive \ {s}
    /\ cbPending' = cbPending \cup {s}
    /\ UNCHANGED <<current, id, holder, pc, capSess, capId, started, issued,
                   dials>>
    /\ UNCHANGED <<leaked, resetOn>>

\* Mutant: sessionClosed forgets to clear d.current.
SessionClosedKeepsCurrent(s) ==
    /\ s \in cbPending
    /\ holder = NoCaller
    /\ cbPending' = cbPending \ {s}
    /\ UNCHANGED <<current, id, holder, pc, capSess, capId, started, alive,
                   issued, dials>>
    /\ UNCHANGED <<leaked, resetOn>>

\* sessionClosed(s): under d.mx, clear d.current if it is still s.
SessionClosed(s) ==
    /\ s \in cbPending
    /\ holder = NoCaller
    /\ current' = IF current = s THEN 0 ELSE current
    /\ cbPending' = cbPending \ {s}
    /\ UNCHANGED <<id, holder, pc, capSess, capId, started, alive, issued,
                   dials>>
    /\ UNCHANGED <<leaked, resetOn>>

-----------------------------------------------------------------------------
CallerStep(c) ==
    \/ StartDial(c) \/ Lock(c) \/ DialReuse(c) \/ DialNewSession(c)
    \/ DialConnectFailed(c) \/ DialHandshakeFailed(c) \/ CreateStream(c)

Next ==
    \/ \E c \in Callers : CallerStep(c)
    \/ \E s \in Sessions : SessionFail(s) \/ SessionClosed(s)

(* Go's sync.Mutex hands the lock to a waiter that keeps waiting (it       *)
(* switches to starvation mode), hence strong fairness on Lock; the other  *)
(* steps of a dial and the session's callback goroutine are scheduled.     *)
Fairness ==
    /\ \A c \in Callers :
          /\ SF_vars(Lock(c))
          /\ WF_vars(DialReuse(c) \/ DialNewSession(c) \/ DialConnectFailed(c)
                     \/ DialHandshakeFailed(c) \/ CreateStream(c))
    /\ \A s \in Sessions : SF_vars(SessionClosed(s))

Spec == Init /\ [][Next]_vars /\ Fairness

-----------------------------------------------------------------------------
(* Properties.                                                             *)

TypeOK ==
    /\ current \in 0..MaxDials
    /\ id \in 0..(MaxStreamsPerConn + 1)
    /\ holder \in Callers \cup {NoCaller}
    /\ pc \in [Callers -> {"idle", "lockWait", "locked", "create"}]
    /\ capSess \in [Callers -> 0..MaxDials]
    /\ capId \in [Callers -> 0..MaxStreamsPerConn]
    /\ started \in 0..MaxDials
    /\ alive \subseteq Sessions /\ cbPending \subseteq Sessions
    /\ issued \in Seq([s : Sessions, id : 0..MaxStreamsPerConn])
    /\ dials \in 0..MaxDials
    /\ leaked \subseteq Callers /\ resetOn \subseteq Sessions

\* The ids dial has returned on session s.
IdsOn(s) == {issued[i].id : i \in {j \in DOMAIN issued : issued[j].s = s}}

(* No two dial calls return the same stream: the ids minted on one session *)
(* are unique (spec 8: "stream ids within a single session are strictly    *)
(* increasing and unique"), whatever the sessions and callers do.          *)
UniqueStreams ==
    \A i, j \in DOMAIN issued : i # j => issued[i] # issued[j]

(* When dial returns, the caller no longer holds d.mx; otherwise every     *)
(* later dial and the sessions' close callbacks block forever.             *)
LockReleased ==
    \A c \in Callers : pc[c] \in {"idle", "lockWait"} => holder # c

(* A session carries at most MaxStreamsPerConn streams (spec 8, scenario   *)
(* 4: with max-streams-per-session 2 the third stream opens a new          *)
(* connection).                                                            *)
StreamsPerSessionBound ==
    \A s \in Sessions : Cardinality(IdsOn(s)) <= MaxStreamsPerConn

\* The ids minted on session s: returned by dial, or captured by a caller
\* that has not created its stream yet.
Minted(s) ==
    IdsOn(s) \cup {capId[c] : c \in {d \in Callers : pc[d] = "create" /\ capSess[d] = s}}

(* The ids of every session are 0, 1, 2, ... with no gap (spec 3:          *)
(* "assigned sequentially by the dialer starting at 0 within a session";   *)
(* 4.7: a new session resets the id counter to 0).                         *)
IdsFromZero ==
    \A s \in Sessions : Minted(s) = 0..(Cardinality(Minted(s)) - 1)

(* d.current never refers to a session whose close callback has already   *)
(* run: sessionClosed clears it under d.mx, and a dial that starts a new  *)
(* session, or fails to, never brings back an old one. A dial can still   *)
(* pick a failed session whose callback is pending (the session's own     *)
(* error paths cover that window).                                        *)
CurrentNotClosed ==
    current # 0 => current \in alive \cup cbPending

(* Whatever startSession does, d.mx is held outside dial's critical        *)
(* section only by a caller whose dial returned from a handshake error     *)
(* (dialer.go:100-130 return without Unlock): the reuse path, a new        *)
(* session and a connector error all unlock, and no second caller gets     *)
(* the lock while one is inside.                                           *)
LockHeldOnlyByLeakers ==
    \A c \in Callers : pc[c] \in {"idle", "lockWait"} /\ holder = c => c \in leaked

(* Whatever startSession does, two dial calls return the same stream only *)
(* on a session whose d.id a failed startSession reset to 0 while it       *)
(* stayed current (dialer.go:73): every other session hands out each id   *)
(* once, and a new session is numbered above every session a stream names.*)
DuplicatesOnlyAfterReset ==
    \A i, j \in DOMAIN issued :
        i # j /\ issued[i] = issued[j] => issued[i].s \in resetOn

(* Every dial call returns.                                                *)
DialReturns ==
    \A c \in Callers : pc[c] = "lockWait" ~> pc[c] = "idle"

=============================================================================
