------------------------------ MODULE OpsProofs ------------------------------
(***************************************************************************)
(* Proofs about operation reporting (Ops.tla, src/ops/ops.go) for every    *)
(* set of reporters, ops and errors and every bound on FailIf calls: the   *)
(* type invariant, and that every reporter sees one and the same outcome   *)
(* of an op, however the helper goroutine's FailIf calls interleave with   *)
(* End.                                                                    *)
(***************************************************************************)
EXTENDS Ops, TLAPS

USE OpsAssumption

(* Next, unfolded into its actions.                                        *)
LEMMA NextCases ==
    ASSUME [Next]_vars
    PROVE  \/ \E r \in Reporters : RegisterReporter(r)
           \/ \E o \in Ops : OwnerStep(o)
           \/ \E o \in Ops : HelperFailIf(o) \/ HelperCancel(o)
           \/ UNCHANGED vars
BY DEF Next

\* The records End passes to the reporters.
Report == [op : Ops, rep : Reporters, failure : Errs \cup {Nil}]

\* The program counters of End.
EndStates == {"run", "snapshot", "load", "report", "exit", "done"}

-----------------------------------------------------------------------------
LEMMA TypeOKInit == Init => TypeOK
BY DEF Init, TypeOK

(* FailIf, on the owner's or the helper's side, stores only nil or an     *)
(* error of Errs and counts the call within MaxFails.                     *)
LEMMA FailIfType ==
    ASSUME TypeOK, NEW o \in Ops, NEW e \in Errs \cup {Nil}, FailIf(o, e)
    PROVE  /\ failure' \in [Ops -> Errs \cup {Nil}]
           /\ fails' \in [Ops -> 0..MaxFails]
BY DEF FailIf, TypeOK

(* End calls the reporters of its copy one at a time: next stays within   *)
(* the copy or one past its end, and each call is recorded with a         *)
(* registered reporter.                                                    *)
LEMMA EndReportType ==
    ASSUME TypeOK, NEW o \in Ops, EndReport(o) PROVE TypeOK'
<1>1. next[o] \in 1..Len(snap[o]) /\ snap[o] \in Seq(Reporters)
  BY DEF EndReport, TypeOK
<1>2. snap[o][next[o]] \in Reporters
  BY <1>1
<1>3. [op |-> o, rep |-> snap[o][next[o]], failure |-> loaded[o]] \in Report
  BY <1>2 DEF TypeOK, Report
<1>4. reports' \in Seq(Report)
  BY <1>3 DEF EndReport, TypeOK, Report
<1>5. next' \in [Ops -> Nat \ {0}]
  BY <1>1 DEF EndReport, TypeOK
<1>6. next'[o] \in 1..(Len(snap'[o]) + 1)
  BY <1>1 DEF EndReport, TypeOK
<1>7. ASSUME NEW p \in Ops, pc'[p] = "report"
      PROVE  next'[p] \in 1..(Len(snap'[p]) + 1)
  <2>1. CASE p = o
    BY <1>6, <2>1
  <2>2. CASE p # o
    BY <1>7, <2>2 DEF EndReport, TypeOK
  <2> QED BY <2>1, <2>2
<1>8. called' \in [Ops -> Seq(Reporters)]
  BY <1>2 DEF EndReport, TypeOK
<1>9. /\ reporters' \in Seq(Reporters)
      /\ canceled' \in [Ops -> {"none", "owner", "helper"}]
      /\ failure' \in [Ops -> Errs \cup {Nil}]
      /\ pc' \in [Ops -> {"run", "snapshot", "load", "report", "exit", "done"}]
      /\ snap' \in [Ops -> Seq(Reporters)]
      /\ loaded' \in [Ops -> Errs \cup {Nil}]
      /\ exited' \in [Ops -> BOOLEAN]
      /\ fails' \in [Ops -> 0..MaxFails]
      /\ ownerErr' \in [Ops -> BOOLEAN]
      /\ regAtEnd' \in [Ops -> Nat]
  BY DEF EndReport, TypeOK
<1> QED BY <1>4, <1>5, <1>7, <1>8, <1>9 DEF TypeOK, Report

(* Every step of RegisterReporter, an op's owner and its helper preserves *)
(* the type invariant.                                                     *)
LEMMA TypeOKStep == TypeOK /\ [Next]_vars => TypeOK'
<1> SUFFICES ASSUME TypeOK, [Next]_vars PROVE TypeOK'
  OBVIOUS
<1>1. ASSUME NEW r \in Reporters, RegisterReporter(r) PROVE TypeOK'
  BY <1>1 DEF RegisterReporter, EndVars, TypeOK
<1>2. ASSUME NEW o \in Ops, OwnerStep(o) PROVE TypeOK'
  <2>1. CASE OwnerFailIf(o)
    <3>1. PICK e \in Errs \cup {Nil} :
             /\ FailIf(o, e)
             /\ ownerErr' = IF e # Nil THEN [ownerErr EXCEPT ![o] = TRUE]
                                       ELSE ownerErr
      BY <2>1 DEF OwnerFailIf
    <3> QED BY <2>1, <3>1, FailIfType DEF OwnerFailIf, EndVars, TypeOK
  <2>2. CASE OwnerCancel(o)
    BY <2>2 DEF OwnerCancel, EndVars, TypeOK
  <2>3. CASE End(o)
    BY <2>3 DEF End, TypeOK
  <2>4. CASE EndSnapshot(o)
    BY <2>4 DEF EndSnapshot, TypeOK
  <2>5. CASE EndLoad(o)
    <3>1. snap[o] \in Seq(Reporters)
      BY DEF TypeOK
    <3>2. 1 \in 1..(Len(snap[o]) + 1)
      BY <3>1
    <3>3. ASSUME NEW p \in Ops, pc'[p] = "report"
          PROVE  next'[p] \in 1..(Len(snap'[p]) + 1)
      <4>1. CASE p = o
        BY <2>5, <3>2, <4>1 DEF EndLoad, TypeOK
      <4>2. CASE p # o
        BY <2>5, <3>3, <4>2 DEF EndLoad, TypeOK
      <4> QED BY <4>1, <4>2
    <3>4. next' \in [Ops -> Nat \ {0}] /\ pc' \in [Ops -> EndStates]
      BY <2>5 DEF EndLoad, TypeOK, EndStates
    <3> QED BY <2>5, <3>3, <3>4 DEF EndLoad, TypeOK, EndStates
  <2>6. CASE EndReport(o)
    BY <2>6, EndReportType
  <2>7. CASE EndReportsDone(o)
    BY <2>7 DEF EndReportsDone, TypeOK
  <2>8. CASE EndExit(o)
    BY <2>8 DEF EndExit, TypeOK
  <2> QED BY <1>2, <2>1, <2>2, <2>3, <2>4, <2>5, <2>6, <2>7, <2>8
          DEF OwnerStep
<1>3. ASSUME NEW o \in Ops, HelperFailIf(o) PROVE TypeOK'
  <2>1. PICK e \in Errs \cup {Nil} : FailIf(o, e)
    BY <1>3 DEF HelperFailIf
  <2> QED BY <1>3, <2>1, FailIfType DEF HelperFailIf, EndVars, TypeOK
<1>4. ASSUME NEW o \in Ops, HelperCancel(o) PROVE TypeOK'
  BY <1>4 DEF HelperCancel, EndVars, TypeOK
<1>5. CASE UNCHANGED vars
  BY <1>5 DEF vars, TypeOK
<1> QED BY NextCases, <1>1, <1>2, <1>3, <1>4, <1>5

(* Type correctness holds in every reachable state of operation reporting, *)
(* for every set of reporters, ops and errors and every bound MaxFails.    *)
THEOREM OpsTypeCorrect == Spec => []TypeOK
BY TypeOKInit, TypeOKStep, PTL DEF Spec

-----------------------------------------------------------------------------
(***************************************************************************)
(* ReportsAgree. End loads o.failure once (EndLoad) and passes that value *)
(* to every reporter; the owner's FailIf calls all precede End. The       *)
(* invariant below says each recorded call carries the value End loaded   *)
(* for its op, was made after the load, and is an error if the owner      *)
(* stored one; an error the owner stored stays in o.failure, since         *)
(* FailIf(nil) stores nothing; and End loads such an error.                *)
(***************************************************************************)
AgreeInv ==
    /\ \A i \in DOMAIN reports :
          /\ reports[i].failure = loaded[reports[i].op]
          /\ pc[reports[i].op] \in {"report", "exit", "done"}
          /\ ownerErr[reports[i].op] => reports[i].failure # Nil
    /\ \A o \in Ops : ownerErr[o] => failure[o] # Nil
    /\ \A o \in Ops : pc[o] = "report" /\ ownerErr[o] => loaded[o] # Nil

(* Each recorded call names an op, a reporter and a failure value.        *)
LEMMA ReportTyped ==
    ASSUME TypeOK, NEW i \in DOMAIN reports
    PROVE  reports[i] \in Report /\ reports[i].op \in Ops
<1>1. reports \in Seq(Report)
  BY DEF TypeOK, Report
<1>2. i \in 1..Len(reports)
  BY <1>1
<1>3. reports[i] \in Report
  BY <1>1, <1>2
<1> QED BY <1>3 DEF Report

LEMMA AgreeInvInit == Init => AgreeInv
BY DEF Init, AgreeInv

(* FailIf never clears a stored error.                                     *)
LEMMA FailIfKeepsError ==
    ASSUME TypeOK, NEW o \in Ops, NEW e \in Errs \cup {Nil}, FailIf(o, e),
           NEW p \in Ops, failure[p] # Nil
    PROVE  failure'[p] # Nil
BY DEF FailIf, TypeOK

(* A step of End that moves its program counter without loading or       *)
(* reporting: it never leaves the states in which calls were recorded,    *)
(* and never enters report.                                                *)
LEMMA EndMove ==
    ASSUME TypeOK, AgreeInv, NEW o \in Ops, NEW v,
           pc' = [pc EXCEPT ![o] = v], v # "report",
           pc[o] \in {"report", "exit", "done"} => v \in {"exit", "done"},
           UNCHANGED <<reports, loaded, ownerErr, failure>>
    PROVE  AgreeInv'
<1>1. ASSUME NEW i \in DOMAIN reports
      PROVE  pc'[reports[i].op] \in {"report", "exit", "done"}
  <2>1. reports[i].op \in Ops /\ pc[reports[i].op] \in {"report", "exit", "done"}
    BY ReportTyped DEF AgreeInv
  <2>2. CASE reports[i].op = o
    <3>1. pc'[o] = v
      BY DEF TypeOK
    <3> QED BY <2>1, <2>2, <3>1
  <2>3. CASE reports[i].op # o
    BY <2>1, <2>3 DEF TypeOK
  <2> QED BY <2>2, <2>3
<1>2. \A p \in Ops : pc'[p] = "report" => pc[p] = "report"
  BY DEF TypeOK
<1> QED BY <1>1, <1>2 DEF AgreeInv

(* Every step keeps the recorded calls in agreement with End's load.       *)
LEMMA AgreeInvStep == TypeOK /\ AgreeInv /\ [Next]_vars => AgreeInv'
<1> SUFFICES ASSUME TypeOK, AgreeInv, [Next]_vars PROVE AgreeInv'
  OBVIOUS
<1>1. ASSUME NEW r \in Reporters, RegisterReporter(r) PROVE AgreeInv'
  BY <1>1 DEF RegisterReporter, EndVars, AgreeInv
<1>2. ASSUME NEW o \in Ops, OwnerFailIf(o) PROVE AgreeInv'
  <2>1. PICK e \in Errs \cup {Nil} :
           /\ FailIf(o, e)
           /\ ownerErr' = IF e # Nil THEN [ownerErr EXCEPT ![o] = TRUE]
                                     ELSE ownerErr
    BY <1>2 DEF OwnerFailIf
  <2>2. \A i \in DOMAIN reports : reports[i].op # o
    BY <1>2 DEF OwnerFailIf, AgreeInv
  <2>3. \A p \in Ops : ownerErr'[p] => failure'[p] # Nil
    BY <2>1, FailIfKeepsError DEF FailIf, AgreeInv, TypeOK
  <2>4. \A p \in Ops \ {o} : ownerErr'[p] = ownerErr[p]
    BY <2>1 DEF TypeOK
  <2>5. UNCHANGED <<reports, loaded, pc>>
    BY <1>2 DEF OwnerFailIf, EndVars
  <2>6. \A i \in DOMAIN reports :
           /\ reports[i].op \in Ops \ {o}
           /\ ownerErr'[reports[i].op] = ownerErr[reports[i].op]
    BY <2>2, <2>4, ReportTyped
  <2>7. \A p \in Ops : pc[p] = "report" => ownerErr'[p] = ownerErr[p]
    BY <1>2, <2>4 DEF OwnerFailIf
  <2> QED BY <2>3, <2>5, <2>6, <2>7 DEF AgreeInv
<1>3. ASSUME NEW o \in Ops, HelperFailIf(o) PROVE AgreeInv'
  <2>1. PICK e \in Errs \cup {Nil} : FailIf(o, e)
    BY <1>3 DEF HelperFailIf
  <2>2. \A p \in Ops : ownerErr'[p] => failure'[p] # Nil
    BY <1>3, <2>1, FailIfKeepsError DEF HelperFailIf, AgreeInv
  <2> QED BY <1>3, <2>2 DEF HelperFailIf, EndVars, AgreeInv
<1>4. ASSUME NEW o \in Ops, OwnerCancel(o) \/ HelperCancel(o) PROVE AgreeInv'
  BY <1>4 DEF OwnerCancel, HelperCancel, EndVars, AgreeInv
<1>5. ASSUME NEW o \in Ops, End(o) PROVE AgreeInv'
  <2>1. PICK c \in BOOLEAN : pc' = [pc EXCEPT ![o] = IF c THEN "done" ELSE "snapshot"]
    BY <1>5 DEF End, CanceledReads
  <2> QED BY <1>5, <2>1, EndMove DEF End
<1>6. ASSUME NEW o \in Ops, EndSnapshot(o) PROVE AgreeInv'
  BY <1>6, EndMove DEF EndSnapshot
<1>7. ASSUME NEW o \in Ops, EndLoad(o) PROVE AgreeInv'
  <2>1. \A i \in DOMAIN reports : reports[i].op # o
    BY <1>7 DEF EndLoad, AgreeInv
  <2>2. \A p \in Ops \ {o} : loaded'[p] = loaded[p] /\ pc'[p] = pc[p]
    BY <1>7 DEF EndLoad, TypeOK
  <2>3. loaded'[o] = failure[o] /\ pc'[o] = "report"
    BY <1>7 DEF EndLoad, TypeOK
  <2>4. \A i \in DOMAIN reports' :
           /\ reports'[i].failure = loaded'[reports'[i].op]
           /\ pc'[reports'[i].op] \in {"report", "exit", "done"}
           /\ ownerErr'[reports'[i].op] => reports'[i].failure # Nil
    <3>1. SUFFICES ASSUME NEW i \in DOMAIN reports
                  PROVE  /\ reports[i].failure = loaded'[reports[i].op]
                         /\ pc'[reports[i].op] \in {"report", "exit", "done"}
                         /\ ownerErr[reports[i].op] => reports[i].failure # Nil
      BY <1>7 DEF EndLoad
    <3>2. reports[i].op \in Ops \ {o}
      <4>1. reports[i].op \in Ops
        BY ReportTyped
      <4> QED BY <4>1, <2>1
    <3> QED BY <3>2, <2>2 DEF AgreeInv
  <2>5. \A p \in Ops : pc'[p] = "report" /\ ownerErr'[p] => loaded'[p] # Nil
    BY <1>7, <2>2, <2>3 DEF EndLoad, AgreeInv
  <2> QED BY <1>7, <2>4, <2>5 DEF EndLoad, AgreeInv
<1>8. ASSUME NEW o \in Ops, EndReport(o) PROVE AgreeInv'
  <2> DEFINE rec == [op |-> o, rep |-> snap[o][next[o]], failure |-> loaded[o]]
  <2>1. reports' = Append(reports, rec) /\ reports \in Seq(Report)
    BY <1>8 DEF EndReport, TypeOK, Report
  <2>2. DOMAIN reports' = DOMAIN reports \cup {Len(reports) + 1}
    BY <2>1
  <2>3. \A i \in DOMAIN reports : reports'[i] = reports[i]
    BY <2>1
  <2>4. reports'[Len(reports) + 1] = rec
    BY <2>1
  <2>5. pc'[o] = "report"
    BY <1>8 DEF EndReport, TypeOK
  <2>6. ownerErr[o] => loaded[o] # Nil
    BY <1>8 DEF EndReport, AgreeInv
  <2>7. \A p \in Ops \ {o} : pc'[p] = pc[p]
    BY <1>8 DEF EndReport, TypeOK
  <2>8. \A i \in DOMAIN reports' :
           /\ reports'[i].failure = loaded'[reports'[i].op]
           /\ pc'[reports'[i].op] \in {"report", "exit", "done"}
           /\ ownerErr'[reports'[i].op] => reports'[i].failure # Nil
    <3>1. SUFFICES ASSUME NEW i \in DOMAIN reports'
                  PROVE  /\ reports'[i].failure = loaded[reports'[i].op]
                         /\ pc'[reports'[i].op] \in {"report", "exit", "done"}
                         /\ ownerErr[reports'[i].op] => reports'[i].failure # Nil
      BY <1>8 DEF EndReport
    <3>2. CASE i = Len(reports) + 1
      <4>1. reports'[i].op = o /\ reports'[i].failure = loaded[o]
        BY <3>2, <2>4
      <4> QED BY <4>1, <2>5, <2>6
    <3>3. CASE i \in DOMAIN reports
      <4>1. reports'[i] = reports[i] /\ reports[i].op \in Ops
        BY <3>3, <2>3, ReportTyped
      <4>2. reports[i].op = o \/ reports[i].op \in Ops \ {o}
        BY <4>1
      <4> QED BY <3>3, <4>1, <4>2, <2>5, <2>7 DEF AgreeInv
    <3> QED BY <2>2, <3>2, <3>3
  <2>9. \A p \in Ops : pc'[p] = "report" /\ ownerErr'[p] => loaded'[p] # Nil
    BY <1>8, <2>6, <2>7 DEF EndReport, AgreeInv
  <2> QED BY <1>8, <2>8, <2>9 DEF EndReport, AgreeInv
<1>9. ASSUME NEW o \in Ops, EndExit(o) PROVE AgreeInv'
  BY <1>9, EndMove DEF EndExit
<1>10. ASSUME NEW o \in Ops, EndReportsDone(o) PROVE AgreeInv'
  BY <1>10, EndMove DEF EndReportsDone
<1>11. CASE UNCHANGED vars
  BY <1>11 DEF vars, AgreeInv
<1> QED BY NextCases, <1>1, <1>2, <1>3, <1>4, <1>5, <1>6, <1>7, <1>8, <1>9,
           <1>10, <1>11 DEF OwnerStep

(* AgreeInv gives ReportsAgree: every failure passed for op o is loaded[o]. *)
LEMMA AgreeInvImplies == AgreeInv => ReportsAgree
<1> SUFFICES ASSUME AgreeInv, NEW o \in Ops PROVE
           /\ \A f, g \in FailuresOf(o) : f = g
           /\ ownerErr[o] => Nil \notin FailuresOf(o)
  BY DEF ReportsAgree
<1>1. \A f \in FailuresOf(o) : f = loaded[o] /\ (ownerErr[o] => f # Nil)
  BY DEF FailuresOf, AgreeInv
<1> QED BY <1>1

(* Every reporter End calls for an op sees one and the same failure, and  *)
(* an error if the op's owner called FailIf with one, for every set of     *)
(* reporters, ops and errors, whatever the helper goroutines' concurrent   *)
(* FailIf calls and RegisterReporter calls do (ops.go End, FailIf).        *)
THEOREM ReportsConsistent == Spec => []ReportsAgree
<1>1. Init => TypeOK /\ AgreeInv
  BY TypeOKInit, AgreeInvInit
<1>2. TypeOK /\ AgreeInv /\ [Next]_vars => (TypeOK /\ AgreeInv)'
  BY TypeOKStep, AgreeInvStep
<1>3. TypeOK /\ AgreeInv => ReportsAgree
  BY AgreeInvImplies
<1> QED BY <1>1, <1>2, <1>3, PTL DEF Spec

-----------------------------------------------------------------------------
(***************************************************************************)
(* ReportedToRegistered. reporters only grows (RegisterReporter appends  *)
(* under the write lock), and End's copy is taken from it under the read *)
(* lock, so the copy is a prefix of reporters for good; End calls the     *)
(* copy's reporters in order, so the reporters called are a prefix of the *)
(* copy; and the copy is taken after End began, so it is at least as long *)
(* as reporters was then.                                                  *)
(***************************************************************************)

\* Facts about prefixes and SubSeq that the steps of End need.
LEMMA PrefixRefl ==
    ASSUME NEW S, NEW s \in Seq(S) PROVE IsPrefix(s, s)
BY DEF IsPrefix

LEMMA EmptyPrefix ==
    ASSUME NEW S, NEW t \in Seq(S) PROVE IsPrefix(<<>>, t)
BY DEF IsPrefix

LEMMA PrefixAppend ==
    ASSUME NEW S, NEW s \in Seq(S), NEW t \in Seq(S), NEW x \in S,
           IsPrefix(s, t)
    PROVE  IsPrefix(s, Append(t, x))
BY DEF IsPrefix

LEMMA PrefixSubSeq ==
    ASSUME NEW S, NEW s \in Seq(S), NEW t \in Seq(S), NEW k \in 0..Len(s),
           IsPrefix(s, t)
    PROVE  IsPrefix(SubSeq(s, 1, k), t)
BY DEF IsPrefix

LEMMA SubSeqExtend ==
    ASSUME NEW S, NEW s \in Seq(S), NEW n \in 1..Len(s)
    PROVE  Append(SubSeq(s, 1, n - 1), s[n]) = SubSeq(s, 1, n)
OBVIOUS

LEMMA SubSeqFull ==
    ASSUME NEW S, NEW s \in Seq(S) PROVE SubSeq(s, 1, Len(s)) = s
OBVIOUS

\* The strengthening of ReportedToRegistered, for one op.
OrderOf(o) ==
    /\ IsPrefix(snap[o], reporters)
    /\ pc[o] \in {"run", "snapshot"} => snap[o] = <<>> /\ called[o] = <<>>
    /\ pc[o] = "load" => called[o] = <<>>
    /\ pc[o] = "report" => called[o] = SubSeq(snap[o], 1, next[o] - 1)
    /\ pc[o] \in {"exit", "done"} => called[o] = snap[o]
    /\ pc[o] = "snapshot" => regAtEnd[o] <= Len(reporters)
    /\ pc[o] \in {"load", "report", "exit"} \/ exited[o] =>
          regAtEnd[o] <= Len(snap[o])
    /\ exited[o] => pc[o] = "done"

OrderInv == \A o \in Ops : OrderOf(o)

\* The part of End's state that belongs to op o.
EndVarsAt(o) == <<pc[o], snap[o], called[o], next[o], regAtEnd[o], exited[o]>>

LEMMA OrderInvInit == Init => OrderInv
BY DEF Init, OrderInv, OrderOf, IsPrefix

(* A step that leaves reporters and op p's part of End alone keeps        *)
(* OrderOf(p).                                                             *)
LEMMA OrderOfFrame ==
    ASSUME NEW p, OrderOf(p), UNCHANGED reporters, UNCHANGED EndVarsAt(p)
    PROVE  OrderOf(p)'
BY DEF OrderOf, EndVarsAt

(* Every step keeps OrderInv.                                              *)
LEMMA OrderInvStep == TypeOK /\ OrderInv /\ [Next]_vars => OrderInv'
<1> SUFFICES ASSUME TypeOK, OrderInv, [Next]_vars, NEW p \in Ops
             PROVE  OrderOf(p)'
  BY DEF OrderInv
<1>0. OrderOf(p)
  BY DEF OrderInv
<1>1. ASSUME NEW r \in Reporters, RegisterReporter(r) PROVE OrderOf(p)'
  <2>1. snap[p] \in Seq(Reporters) /\ reporters \in Seq(Reporters)
    BY DEF TypeOK
  <2>2. IsPrefix(snap[p], reporters')
    BY <1>0, <1>1, <2>1, PrefixAppend DEF RegisterReporter, OrderOf
  <2>3. Len(reporters') = Len(reporters) + 1
    BY <1>1, <2>1 DEF RegisterReporter
  <2>4. UNCHANGED EndVarsAt(p)
    BY <1>1 DEF RegisterReporter, EndVars, EndVarsAt
  <2>5. regAtEnd[p] \in Nat
    BY DEF TypeOK
  <2> QED BY <1>0, <2>2, <2>3, <2>4, <2>5 DEF OrderOf, EndVarsAt
<1>2. ASSUME NEW o \in Ops, HelperFailIf(o) \/ HelperCancel(o)
             \/ OwnerFailIf(o) \/ OwnerCancel(o)
      PROVE  OrderOf(p)'
  BY <1>0, <1>2, OrderOfFrame DEF HelperFailIf, HelperCancel, OwnerFailIf,
                                  OwnerCancel, EndVars, EndVarsAt
<1>3. ASSUME NEW o \in Ops \ {p},
             End(o) \/ EndSnapshot(o) \/ EndLoad(o) \/ EndReport(o)
             \/ EndReportsDone(o) \/ EndExit(o)
      PROVE  OrderOf(p)'
  <2>1. UNCHANGED reporters /\ UNCHANGED EndVarsAt(p)
    BY <1>3 DEF End, EndSnapshot, EndLoad, EndReport, EndReportsDone, EndExit,
                EndVarsAt, TypeOK
  <2> QED BY <1>0, <2>1, OrderOfFrame
<1>4. CASE End(p)
  <2>1. PICK c \in BOOLEAN :
           pc' = [pc EXCEPT ![p] = IF c THEN "done" ELSE "snapshot"]
    BY <1>4 DEF End, CanceledReads
  <2>2. pc[p] = "run" /\ snap[p] = <<>> /\ called[p] = <<>> /\ ~exited[p]
    BY <1>0, <1>4 DEF End, OrderOf
  <2> QED BY <1>0, <1>4, <2>1, <2>2 DEF End, OrderOf, TypeOK
<1>5. CASE EndSnapshot(p)
  <2>1. reporters \in Seq(Reporters)
    BY DEF TypeOK
  <2>2. IsPrefix(reporters, reporters)
    BY <2>1, PrefixRefl
  <2>3. called[p] = <<>> /\ ~exited[p] /\ regAtEnd[p] <= Len(reporters)
    BY <1>0, <1>5 DEF EndSnapshot, OrderOf
  <2> QED BY <1>5, <2>2, <2>3 DEF EndSnapshot, OrderOf, TypeOK
<1>6. CASE EndLoad(p)
  <2>1. snap[p] \in Seq(Reporters)
    BY DEF TypeOK
  <2>2. SubSeq(snap[p], 1, 0) = <<>>
    BY <2>1
  <2>3. called[p] = <<>> /\ ~exited[p] /\ regAtEnd[p] <= Len(snap[p])
    BY <1>0, <1>6 DEF EndLoad, OrderOf
  <2> QED BY <1>0, <1>6, <2>2, <2>3 DEF EndLoad, OrderOf, TypeOK
<1>7. CASE EndReport(p)
  <2>1. snap[p] \in Seq(Reporters) /\ next[p] \in 1..Len(snap[p])
    BY <1>7 DEF EndReport, TypeOK
  <2>2. called[p] = SubSeq(snap[p], 1, next[p] - 1)
    BY <1>0, <1>7 DEF EndReport, OrderOf
  <2>3. called'[p] = SubSeq(snap[p], 1, next[p])
    BY <1>7, <2>1, <2>2, SubSeqExtend DEF EndReport, TypeOK
  <2>4. ~exited[p] /\ regAtEnd[p] <= Len(snap[p])
    BY <1>0, <1>7 DEF EndReport, OrderOf
  <2> QED BY <1>0, <1>7, <2>3, <2>4 DEF EndReport, OrderOf, TypeOK
<1>10. CASE EndReportsDone(p)
  \* The loop ends with next one past the copy: every reporter was called.
  <2>0. pc[p] = "report" /\ next[p] > Len(snap[p])
    BY <1>10 DEF EndReportsDone
  <2>1. snap[p] \in Seq(Reporters) /\ next[p] = Len(snap[p]) + 1
    <3>1. snap[p] \in Seq(Reporters) /\ next[p] \in 1..(Len(snap[p]) + 1)
      BY <2>0 DEF TypeOK
    <3> QED BY <2>0, <3>1
  <2>2. called[p] = SubSeq(snap[p], 1, Len(snap[p]))
    BY <1>0, <1>10, <2>1 DEF EndReportsDone, OrderOf
  <2>3. called[p] = snap[p]
    BY <2>1, <2>2, SubSeqFull
  <2> QED BY <1>0, <1>10, <2>3 DEF EndReportsDone, OrderOf, TypeOK
<1>8. CASE EndExit(p)
  BY <1>0, <1>8 DEF EndExit, OrderOf, TypeOK
<1>9. CASE UNCHANGED vars
  BY <1>0, <1>9 DEF vars, OrderOf
<1> QED BY NextCases, <1>1, <1>2, <1>3, <1>4, <1>5, <1>6, <1>7, <1>8, <1>9,
           <1>10 DEF OwnerStep

(* OrderInv gives ReportedToRegistered.                                    *)
LEMMA OrderInvImplies == TypeOK /\ OrderInv => ReportedToRegistered
<1> SUFFICES ASSUME TypeOK, OrderInv, NEW o \in Ops
             PROVE  /\ IsPrefix(called[o], reporters)
                    /\ pc[o] = "done" /\ exited[o] =>
                          Len(called[o]) >= regAtEnd[o]
  BY DEF ReportedToRegistered, ReportsOf
<1>1. OrderOf(o) /\ snap[o] \in Seq(Reporters) /\ reporters \in Seq(Reporters)
  BY DEF OrderInv, TypeOK
<1>2. CASE pc[o] \in {"run", "snapshot", "load"}
  <2>1. called[o] = <<>>
    BY <1>1, <1>2 DEF OrderOf
  <2> QED BY <1>1, <1>2, <2>1, EmptyPrefix
<1>3. CASE pc[o] = "report"
  <2>1. next[o] - 1 \in 0..Len(snap[o])
    BY <1>3 DEF TypeOK
  <2>2. IsPrefix(SubSeq(snap[o], 1, next[o] - 1), reporters)
    BY <1>1, <2>1, PrefixSubSeq DEF OrderOf
  <2> QED BY <1>1, <1>3, <2>2 DEF OrderOf
<1>4. CASE pc[o] \in {"exit", "done"}
  BY <1>1, <1>4 DEF OrderOf
<1> QED BY <1>2, <1>3, <1>4 DEF TypeOK

(* Each op is reported to the registered reporters in registration order, *)
(* each at most once, however RegisterReporter races with End; and an End *)
(* that returns through o.ctx.Exit() has called every reporter registered *)
(* before it began. It rests on RegisterReporter appending under Lock and *)
(* End copying the slice under RLock (ops.go RegisterReporter, End).       *)
THEOREM ReportsInOrder == Spec => []ReportedToRegistered
<1>1. Init => TypeOK /\ OrderInv
  BY TypeOKInit, OrderInvInit
<1>2. TypeOK /\ OrderInv /\ [Next]_vars => (TypeOK /\ OrderInv)'
  BY TypeOKStep, OrderInvStep
<1>3. TypeOK /\ OrderInv => ReportedToRegistered
  BY OrderInvImplies
<1> QED BY <1>1, <1>2, <1>3, PTL DEF Spec

=============================================================================
