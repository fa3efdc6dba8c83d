--------------------------------- MODULE Ops ---------------------------------
(***************************************************************************)
(* Operation reporting of src/ops/ops.go: a global registry of reporters   *)
(* guarded by reportersMutex, and ops whose End reports their outcome to   *)
(* every registered reporter.                                              *)
(*                                                                         *)
(* Actors: goroutines calling RegisterReporter (one per reporter); for     *)
(* each op, its owner goroutine, which calls FailIf, may Cancel, and ends  *)
(* with End; and for each op, a helper goroutine the owner started that    *)
(* calls FailIf and Cancel on the same op concurrently. The context map    *)
(* (package context, outside src/) is reduced to whether End exited it.   *)
(***************************************************************************)
EXTENDS Integers, Sequences, SequencesExt

CONSTANTS
    Reporters,  \* reporter functions, each registered once
    Ops,        \* operations
    Errs,       \* non-nil errors passed to FailIf
    MaxFails    \* bound on the FailIf calls on each op

Nil == "nil"

ASSUME OpsAssumption ==
    /\ Nil \notin Errs
    /\ MaxFails \in Nat

VARIABLES
    reporters,  \* the global reporters slice, in registration order
    canceled,   \* op.canceled, and who wrote it: none, owner or helper
    failure,    \* op.failure: the last error stored, or Nil
    pc,         \* the owner: run, snapshot, load, report, exit, done
    snap,       \* End's reportersCopy
    loaded,     \* End's _failure, the value it loaded
    next,       \* the index of the reporter End calls next
    exited,     \* End ran o.ctx.Exit()
    fails,      \* FailIf calls made on each op
    reports,    \* history: every reporter call, as [op, rep, failure]
    ownerErr,   \* history: the owner called FailIf with an error
    regAtEnd,   \* history: how many reporters were registered when End began
    called      \* history: the reporters End has called for each op, in order

vars == <<reporters, canceled, failure, pc, snap, loaded, next, exited, fails,
          reports, ownerErr, regAtEnd, called>>

Init ==
    /\ reporters = <<>>
    /\ canceled = [o \in Ops |-> "none"]
    /\ failure = [o \in Ops |-> Nil]
    /\ pc = [o \in Ops |-> "run"]
    /\ snap = [o \in Ops |-> <<>>]
    /\ loaded = [o \in Ops |-> Nil]
    /\ next = [o \in Ops |-> 1]
    /\ exited = [o \in Ops |-> FALSE]
    /\ fails = [o \in Ops |-> 0]
    /\ reports = <<>>
    /\ ownerErr = [o \in Ops |-> FALSE]
    /\ regAtEnd = [o \in Ops |-> 0]
    /\ called = [o \in Ops |-> <<>>]

EndVars == <<pc, snap, loaded, next, exited, regAtEnd, called>>

-----------------------------------------------------------------------------
\* RegisterReporter: append under reportersMutex.Lock.
RegisterReporter(r) ==
    /\ r \notin ToSet(reporters)
    /\ reporters' = Append(reporters, r)
    /\ UNCHANGED <<canceled, failure, fails, reports, ownerErr>>
    /\ UNCHANGED EndVars

\* FailIf(err): a non-nil error is stored in the atomic.Value.
FailIf(o, e) ==
    /\ fails[o] < MaxFails
    /\ fails' = [fails EXCEPT ![o] = @ + 1]
    /\ failure' = IF e # Nil THEN [failure EXCEPT ![o] = e] ELSE failure

OwnerFailIf(o) ==
    /\ pc[o] = "run"
    /\ \E e \in Errs \cup {Nil} :
          /\ FailIf(o, e)
          /\ ownerErr' = IF e # Nil THEN [ownerErr EXCEPT ![o] = TRUE]
                                    ELSE ownerErr
    /\ UNCHANGED <<reporters, canceled, reports>>
    /\ UNCHANGED EndVars

HelperFailIf(o) ==
    /\ \E e \in Errs \cup {Nil} : FailIf(o, e)
    /\ UNCHANGED <<reporters, canceled, reports, ownerErr>>
    /\ UNCHANGED EndVars

\* Cancel: o.canceled = true, a plain write.
OwnerCancel(o) ==
    /\ pc[o] = "run"
    /\ canceled' = [canceled EXCEPT ![o] = "owner"]
    /\ UNCHANGED <<reporters, failure, fails, reports, ownerErr>>
    /\ UNCHANGED EndVars

HelperCancel(o) ==
    /\ canceled[o] = "none"
    /\ canceled' = [canceled EXCEPT ![o] = "helper"]
    /\ UNCHANGED <<reporters, failure, fails, reports, ownerErr>>
    /\ UNCHANGED EndVars

-----------------------------------------------------------------------------
(* End, run by the owner.                                                  *)

\* The values End's read of o.canceled can return. The owner's own write
\* is sequenced before the read; the helper's is not synchronised with it
\* at all (a data race), so the read may see either value.
CanceledReads(o) ==
    CASE canceled[o] = "owner"  -> {TRUE}
      [] canceled[o] = "helper" -> {TRUE, FALSE}
      [] OTHER                  -> {FALSE}

\* if o.canceled { return }: a canceled op returns without reporting and
\* without o.ctx.Exit().
End(o) ==
    /\ pc[o] = "run"
    /\ \E c \in CanceledReads(o) :
          pc' = [pc EXCEPT ![o] = IF c THEN "done" ELSE "snapshot"]
    /\ regAtEnd' = [regAtEnd EXCEPT ![o] = Len(reporters)]
    /\ UNCHANGED <<reporters, canceled, failure, snap, loaded, next, exited,
                   fails, reports, ownerErr, called>>

\* RLock; copy the reporters slice; RUnlock; then if len(reportersCopy) > 0
\* load and report, else go straight to o.ctx.Exit().
EndSnapshot(o) ==
    /\ pc[o] = "snapshot"
    /\ snap' = [snap EXCEPT ![o] = reporters]
    /\ pc' = [pc EXCEPT ![o] = IF reporters # <<>> THEN "load" ELSE "exit"]
    /\ UNCHANGED <<reporters, canceled, failure, loaded, next, exited, fails,
                   reports, ownerErr, regAtEnd, called>>

\* _failure := o.failure.Load(), once, before the reporters are called.
EndLoad(o) ==
    /\ pc[o] = "load"
    /\ loaded' = [loaded EXCEPT ![o] = failure[o]]
    /\ next' = [next EXCEPT ![o] = 1]
    /\ pc' = [pc EXCEPT ![o] = "report"]
    /\ UNCHANGED <<reporters, canceled, failure, snap, exited, fails, reports,
                   ownerErr, regAtEnd, called>>

\* Mutant: each reporter call loads o.failure afresh.
EndReportReloading(o) ==
    /\ pc[o] = "report"
    /\ next[o] <= Len(snap[o])
    /\ reports' = Append(reports, [op |-> o, rep |-> snap[o][next[o]],
                                   failure |-> failure[o]])
    /\ called' = [called EXCEPT ![o] = Append(@, snap[o][next[o]])]
    /\ next' = [next EXCEPT ![o] = @ + 1]
    /\ UNCHANGED <<reporters, canceled, failure, pc, snap, loaded, exited,
                   fails, ownerErr, regAtEnd>>

\* for _, reporter := range reportersCopy { reporter(failure, ctx) }: one
\* iteration, calling the next reporter of the copy.
EndReport(o) ==
    /\ pc[o] = "report"
    /\ next[o] <= Len(snap[o])
    /\ reports' = Append(reports, [op |-> o, rep |-> snap[o][next[o]],
                                   failure |-> loaded[o]])
    /\ called' = [called EXCEPT ![o] = Append(@, snap[o][next[o]])]
    /\ next' = [next EXCEPT ![o] = @ + 1]
    /\ UNCHANGED <<reporters, canceled, failure, pc, snap, loaded, exited,
                   fails, ownerErr, regAtEnd>>

\* Mutant: the loop ends one reporter before the end of the copy.
EndReportsDoneEarly(o) ==
    /\ pc[o] = "report"
    /\ next[o] >= Len(snap[o])
    /\ pc' = [pc EXCEPT ![o] = "exit"]
    /\ UNCHANGED <<reporters, canceled, failure, snap, loaded, next, exited,
                   fails, reports, ownerErr, regAtEnd, called>>

\* The range loop ends once every reporter of the copy was called.
EndReportsDone(o) ==
    /\ pc[o] = "report"
    /\ next[o] > Len(snap[o])
    /\ pc' = [pc EXCEPT ![o] = "exit"]
    /\ UNCHANGED <<reporters, canceled, failure, snap, loaded, next, exited,
                   fails, reports, ownerErr, regAtEnd, called>>

\* o.ctx.Exit()
EndExit(o) ==
    /\ pc[o] = "exit"
    /\ exited' = [exited EXCEPT ![o] = TRUE]
    /\ pc' = [pc EXCEPT ![o] = "done"]
    /\ UNCHANGED <<reporters, canceled, failure, snap, loaded, next, fails,
                   reports, ownerErr, regAtEnd, called>>

-----------------------------------------------------------------------------
OwnerStep(o) ==
    \/ OwnerFailIf(o) \/ OwnerCancel(o) \/ End(o) \/ EndSnapshot(o)
    \/ EndLoad(o) \/ EndReport(o) \/ EndReportsDone(o) \/ EndExit(o)

Next ==
    \/ \E r \in Reporters : RegisterReporter(r)
    \/ \E o \in Ops : OwnerStep(o) \/ HelperFailIf(o) \/ HelperCancel(o)

Spec == Init /\ [][Next]_vars

-----------------------------------------------------------------------------
(* Properties.                                                             *)

TypeOK ==
    /\ reporters \in Seq(Reporters)
    /\ canceled \in [Ops -> {"none", "owner", "helper"}]
    /\ failure \in [Ops -> Errs \cup {Nil}]
    /\ pc \in [Ops -> {"run", "snapshot", "load", "report", "exit", "done"}]
    /\ snap \in [Ops -> Seq(Reporters)]
    /\ loaded \in [Ops -> Errs \cup {Nil}]
    /\ next \in [Ops -> Nat \ {0}]
    /\ \A o \in Ops : pc[o] = "report" => next[o] \in 1..(Len(snap[o]) + 1)
    /\ exited \in [Ops -> BOOLEAN]
    /\ fails \in [Ops -> 0..MaxFails]
    /\ reports \in Seq([op : Ops, rep : Reporters, failure : Errs \cup {Nil}])
    /\ ownerErr \in [Ops -> BOOLEAN]
    /\ regAtEnd \in [Ops -> Nat]
    /\ called \in [Ops -> Seq(Reporters)]

\* The reporters End has called for op o, in call order.
ReportsOf(o) == called[o]

\* The failures End has passed to the reporters of op o.
FailuresOf(o) == {reports[i].failure : i \in {j \in DOMAIN reports : reports[j].op = o}}

(* Every reporter sees the same outcome of an op: all calls made by one   *)
(* End carry one failure, even while a helper goroutine keeps calling      *)
(* FailIf, and it is nil only if the owner never called FailIf with an     *)
(* error before End (End loads o.failure once, after the owner's stores).  *)
ReportsAgree ==
    \A o \in Ops :
        /\ \A f, g \in FailuresOf(o) : f = g
        /\ ownerErr[o] => Nil \notin FailuresOf(o)

(* Each op is reported to the registered reporters in registration order, *)
(* each at most once, even while RegisterReporter runs concurrently; and   *)
(* once End has returned without being canceled, every reporter that was  *)
(* registered before End began has been called.                            *)
ReportedToRegistered ==
    \A o \in Ops :
        /\ IsPrefix(ReportsOf(o), reporters)
        /\ pc[o] = "done" /\ exited[o] => Len(ReportsOf(o)) >= regAtEnd[o]

=============================================================================
