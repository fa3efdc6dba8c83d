----------------------------- MODULE StreamSpec -----------------------------
(***************************************************************************)
(* What a stream's send side promises the session, with no goroutines,     *)
(* locks, timers or window: payloads accepted by send form a FIFO that is  *)
(* handed to the session in order; nothing is accepted once the stream is  *)
(* sealed; after the close timeout queued payloads may be dropped; an RST, *)
(* if any, is handed over once, last, and only when every accepted payload *)
(* went before it or the close timed out.                                  *)
(***************************************************************************)
EXTENDS Sequences

CONSTANT Payloads

VARIABLES
    queue,      \* accepted payloads not yet handed over or dropped
    emitted,    \* payloads handed to the session, in order
    rstSent,    \* the RST has been handed to the session
    sealed,     \* the stream accepts no more payloads
    aborted     \* the close timeout fired

vars == <<queue, emitted, rstSent, sealed, aborted>>

Init ==
    /\ queue = <<>>
    /\ emitted = <<>>
    /\ rstSent = FALSE
    /\ sealed = FALSE
    /\ aborted = FALSE

Accept(p) ==
    /\ ~sealed
    /\ queue' = Append(queue, p)
    /\ UNCHANGED <<emitted, rstSent, sealed, aborted>>

Emit ==
    /\ queue # <<>>
    /\ ~rstSent
    /\ emitted' = Append(emitted, Head(queue))
    /\ queue' = Tail(queue)
    /\ UNCHANGED <<rstSent, sealed, aborted>>

Drop ==
    /\ aborted
    /\ queue # <<>>
    /\ queue' = Tail(queue)
    /\ UNCHANGED <<emitted, rstSent, sealed, aborted>>

Seal ==
    /\ sealed' = TRUE
    /\ UNCHANGED <<queue, emitted, rstSent, aborted>>

Abort ==
    /\ sealed
    /\ aborted' = TRUE
    /\ UNCHANGED <<queue, emitted, rstSent, sealed>>

EmitRST ==
    /\ sealed
    /\ ~rstSent
    /\ queue = <<>> \/ aborted
    /\ rstSent' = TRUE
    /\ UNCHANGED <<queue, emitted, sealed, aborted>>

Next ==
    \/ \E p \in Payloads : Accept(p)
    \/ Emit \/ Drop \/ Seal \/ Abort \/ EmitRST

Spec == Init /\ [][Next]_vars

TypeOK ==
    /\ queue \in Seq(Payloads)
    /\ emitted \in Seq(Payloads)
    /\ rstSent \in BOOLEAN
    /\ sealed \in BOOLEAN
    /\ aborted \in BOOLEAN

=============================================================================
