-------------------------- MODULE RunLifecycleProofs --------------------------
(***************************************************************************)
(* RunService implements RunLifecycle, for every value of the constants.   *)
(*                                                                         *)
(* The status column is written without a guard by mark_run_failed and     *)
(* finalize_run, so what keeps the lifecycle legal is the control of the   *)
(* handler and the task.  ControlInv says what the row and the trace are   *)
(* at each control state; ScopeInv adds the transactions still open to the *)
(* committed rows, which makes IdempotentScope inductive.                  *)
(***************************************************************************)
EXTENDS RunServiceProofs

EarlyPc   == {"idle", "insert", "conflict", "commit"}
PendingPc == {"created", "schedule", "tenant", "rejectMark", "begin"}
RunningPc == {"accepted", "started", "load", "decide", "llm", "authorize", "bindings",
              "exec", "succeed", "fail"}
FailedPc  == {"rejectDecision", "rejectEnd", "endFailed"}
SettledPc == {"rejectReply", "exit"}

\* No run_end in trace s; s ends in the run_end of the row r's status.
Unpublished(s) == \A i \in DOMAIN s : s[i].type # "run_end"

Settled(r, s) ==
  /\ r.status \in Terminal
  /\ s # <<>> /\ s[Len(s)] = [type |-> "run_end", data |-> r.status]

\* What the row r and the trace s are while the control is at p.
ControlAt(p, r, s) ==
  /\ p \in EarlyPc => r.status = "absent" /\ s = <<>>
  /\ p \in PendingPc => r.status = "pending" /\ Unpublished(s)
  /\ p \in RunningPc => r.status = "running" /\ Unpublished(s)
  /\ p \in FailedPc => r.status = "failed" /\ Unpublished(s)
  /\ p = "endSuccess" => r.status = "success" /\ Unpublished(s)
  /\ p \in SettledPc => Settled(r, s)
  /\ p = "done" => r.status = "absent" \/ Settled(r, s)

ControlInv == \A q \in Requests : ControlAt(pc[q], row[q], trace[q])

-------------------------------------------------------------------------------
(* ControlInv is inductive. *)

LEMMA AppendUnpublished ==
  ASSUME NEW s \in Seq(EventType), Unpublished(s), NEW e \in EventType,
         e.type # "run_end"
  PROVE  Unpublished(Append(s, e))
<1>1. /\ DOMAIN Append(s, e) = 1..(Len(s) + 1)
      /\ \A i \in 1..Len(s) : Append(s, e)[i] = s[i]
      /\ Append(s, e)[Len(s) + 1] = e
  OBVIOUS
<1>2. DOMAIN s = 1..Len(s) /\ Len(s) \in Nat
  OBVIOUS
<1> QED
  BY <1>1, <1>2 DEF Unpublished

LEMMA AppendSettles ==
  ASSUME NEW s \in Seq(EventType), NEW r, r.status \in Terminal
  PROVE  Settled(r, Append(s, [type |-> "run_end", data |-> r.status]))
<1> DEFINE e == [type |-> "run_end", data |-> r.status]
<1>1. e \in EventType
  BY DEF EventType, Terminal
<1> HIDE DEF e
<1>2. Append(s, e) # <<>> /\ Append(s, e)[Len(Append(s, e))] = e
  BY <1>1
<1> QED
  BY <1>2 DEF Settled, e

\* A step of q only: the rest keeps what ControlInv says of it.
LEMMA ControlFrame ==
  ASSUME TypeOK, ControlInv, NEW q \in Requests, NEW p, NEW r, NEW s,
         pc' = [pc EXCEPT ![q] = p], row' = [row EXCEPT ![q] = r],
         trace' = [trace EXCEPT ![q] = s], ControlAt(p, r, s)
  PROVE  ControlInv'
BY DEF TypeOK, ControlInv

LEMMA SameUpdate ==
  ASSUME TypeOK, NEW q \in Requests
  PROVE  row = [row EXCEPT ![q] = row[q]] /\ trace = [trace EXCEPT ![q] = trace[q]]
BY DEF TypeOK

LEMMA ProceedControl ==
  ASSUME TypeOK, ControlInv, NEW q \in Requests, NEW to,
         pc' = [pc EXCEPT ![q] = to], UNCHANGED database,
         ControlAt(pc[q], row[q], trace[q]) => ControlAt(to, row[q], trace[q])
  PROVE  ControlInv'
<1>1. ControlAt(to, row[q], trace[q])
  BY DEF ControlInv
<1>2. row' = [row EXCEPT ![q] = row[q]] /\ trace' = [trace EXCEPT ![q] = trace[q]]
  BY SameUpdate DEF database
<1> QED
  BY <1>1, <1>2, ControlFrame

LEMMA StoreControl ==
  ASSUME TypeOK, ControlInv, NEW q \in Requests, NEW from, NEW to, NEW r,
         Store(q, from, to, r), ControlAt(to, r, trace[q])
  PROVE  ControlInv'
<1>1. trace' = [trace EXCEPT ![q] = trace[q]]
  BY SameUpdate DEF Store
<1> QED
  BY <1>1, ControlFrame DEF Store, Goto

LEMMA AppendControl ==
  ASSUME TypeOK, ControlInv, NEW q \in Requests, NEW to, NEW e,
         pc' = [pc EXCEPT ![q] = to], row' = row,
         trace' = [trace EXCEPT ![q] = Append(trace[q], e)],
         ControlAt(to, row[q], Append(trace[q], e))
  PROVE  ControlInv'
<1>1. row' = [row EXCEPT ![q] = row[q]]
  BY SameUpdate
<1> QED
  BY <1>1, ControlFrame

\* An event other than run_end, within the control states of one status.
LEMMA EventControl ==
  ASSUME TypeOK, ControlInv, NEW q \in Requests, NEW to, NEW e \in EventType,
         e.type # "run_end",
         pc' = [pc EXCEPT ![q] = to], row' = row,
         trace' = [trace EXCEPT ![q] = Append(trace[q], e)],
         \/ pc[q] \in PendingPc /\ to \in PendingPc
         \/ pc[q] \in RunningPc /\ to \in RunningPc
         \/ pc[q] \in FailedPc /\ to \in FailedPc
  PROVE  ControlInv'
<1>1. trace[q] \in Seq(EventType)
  BY DEF TypeOK
<1>2. ControlAt(pc[q], row[q], trace[q])
  BY DEF ControlInv
<1>3. Unpublished(trace[q])
  BY <1>2 DEF ControlAt
<1>4. Unpublished(Append(trace[q], e))
  BY <1>1, <1>3, AppendUnpublished
<1>5. ControlAt(to, row[q], Append(trace[q], e))
  BY <1>2, <1>4 DEF ControlAt, EarlyPc, PendingPc, RunningPc, FailedPc, SettledPc
<1> QED
  BY <1>5, AppendControl

\* The run_end.
LEMMA EndControl ==
  ASSUME TypeOK, ControlInv, NEW q \in Requests, NEW from, NEW to \in SettledPc, NEW status,
         AppendEvent(q, from, to, "run_end", status),
         row[q].status = status, status \in Terminal
  PROVE  ControlInv'
<1> DEFINE e == [type |-> "run_end", data |-> status]
<1>1. trace[q] \in Seq(EventType)
  BY DEF TypeOK
<1>2. Settled(row[q], Append(trace[q], e))
  BY <1>1, AppendSettles
<1>3. ControlAt(to, row[q], Append(trace[q], e))
  BY <1>2 DEF ControlAt, EarlyPc, PendingPc, RunningPc, FailedPc, SettledPc
<1> QED
  BY <1>3, AppendControl DEF AppendEvent, Goto

\* The end of a handler or task: "done" is entered settled or without a row.
LEMMA ReturnControl ==
  ASSUME TypeOK, ControlInv, NEW q \in Requests, NEW to \in OverPc, NEW code,
         Finish(q, to, code),
         to = "done" => pc[q] \in EarlyPc \cup SettledPc
  PROVE  ControlInv'
<1>1. ControlAt(pc[q], row[q], trace[q]) => ControlAt(to, row[q], trace[q])
  BY DEF ControlAt, OverPc, EarlyPc, PendingPc, RunningPc, FailedPc, SettledPc
<1> QED
  BY <1>1, ProceedControl DEF Finish

LEMMA HandlerControl ==
  ASSUME TypeOK, ControlInv, NEW q \in Requests, Receive(q) \/ HandlerStep(q)
  PROVE  ControlInv'
<1> USE DEF EarlyPc, PendingPc, RunningPc, FailedPc, SettledPc
<1>0. ControlAt(pc[q], row[q], trace[q])
  BY DEF ControlInv
<1>1. CASE RefuseAgent(q) \/ RefuseEmpty(q) \/ SelectExisting(q) \/ RejectReply(q)
  <2>1. PICK code : Finish(q, "done", code) /\ pc[q] \in EarlyPc \cup SettledPc
    BY <1>1 DEF RefuseAgent, RefuseEmpty, SelectExisting, RejectReply, Return
  <2> QED
    BY <2>1, ReturnControl DEF OverPc
<1>2. CASE Accept(q) \/ InsertRun(q)
  <2>1. PICK to \in EarlyPc : pc' = [pc EXCEPT ![q] = to] /\ pc[q] \in EarlyPc
    BY <1>2 DEF Accept, InsertRun, Proceed, Goto
  <2>2. UNCHANGED database
    BY <1>2 DEF Accept, InsertRun, Proceed
  <2>3. ControlAt(pc[q], row[q], trace[q]) => ControlAt(to, row[q], trace[q])
    BY <2>1 DEF ControlAt
  <2> QED
    BY <2>1, <2>2, <2>3, ProceedControl
<1>3. CASE CommitRun(q)
  <2>1. ControlAt("created", NewRow, trace[q])
    BY <1>0, <1>3 DEF CommitRun, Store, Goto, ControlAt, NewRow, NoRow, Unpublished
  <2> QED
    BY <1>3, <2>1, StoreControl DEF CommitRun
<1>4. CASE AppendRunCreated(q)
  <2> DEFINE e == [type |-> "run_created", data |-> "pending"]
  <2>1. e \in EventType /\ e.type # "run_end"
    BY DEF EventType
  <2> QED
    BY <1>4, <2>1, EventControl DEF AppendRunCreated, AppendEvent, Goto
<1>5. CASE AcquireGlobal(q) \/ RefuseGlobal(q) \/ AcquireTenant(q) \/ RefuseTenant(q)
  <2>1. PICK to \in PendingPc : pc' = [pc EXCEPT ![q] = to] /\ pc[q] \in PendingPc
    BY <1>5 DEF AcquireGlobal, RefuseGlobal, AcquireTenant, RefuseTenant, FailWith, Goto
  <2>2. UNCHANGED database
    BY <1>5 DEF AcquireGlobal, RefuseGlobal, AcquireTenant, RefuseTenant, FailWith
  <2>3. ControlAt(pc[q], row[q], trace[q]) => ControlAt(to, row[q], trace[q])
    BY <2>1 DEF ControlAt
  <2> QED
    BY <2>1, <2>2, <2>3, ProceedControl
<1>6. CASE MarkRejected(q)
  <2> DEFINE r == MarkRunFailed(row[q], cause[q])
  <2>1. r.status = "failed"
    BY DEF TypeOK, RowType, MarkRunFailed
  <2>2. Unpublished(trace[q])
    BY <1>0, <1>6 DEF MarkRejected, Store, Goto, ControlAt
  <2> HIDE DEF r
  <2>3. ControlAt("rejectDecision", r, trace[q])
    BY <2>1, <2>2 DEF ControlAt
  <2> QED
    BY <1>6, <2>3, StoreControl DEF MarkRejected, r
<1>7. CASE AppendRejected(q)
  <2> DEFINE e == [type |-> "scheduler_decision", data |-> cause[q]]
  <2>1. e \in EventType /\ e.type # "run_end"
    BY DEF TypeOK, EventType
  <2> QED
    BY <1>7, <2>1, EventControl DEF AppendRejected, AppendEvent, Goto
<1>8. CASE AppendRejectedEnd(q)
  <2>1. row[q].status = "failed"
    BY <1>0, <1>8 DEF AppendRejectedEnd, AppendEvent, Goto, ControlAt
  <2> QED
    BY <1>8, <2>1, EndControl DEF AppendRejectedEnd, Terminal
<1> QED
  BY <1>1, <1>2, <1>3, <1>4, <1>5, <1>6, <1>7, <1>8 DEF Receive, HandlerStep

LEMMA TaskControl ==
  ASSUME TypeOK, ControlInv, NEW q \in Requests, TaskStep(q)
  PROVE  ControlInv'
<1> USE DEF EarlyPc, PendingPc, RunningPc, FailedPc, SettledPc
<1>0. ControlAt(pc[q], row[q], trace[q]) /\ row[q] \in RowType /\ loop[q] \in LoopType
  BY DEF ControlInv, TypeOK
<1>1. CASE BeginExecution(q)
  <2> DEFINE r == BeginRunExecution(row[q])
  <2>1. row[q].status = "pending" /\ Unpublished(trace[q])
    BY <1>0, <1>1 DEF BeginExecution, Store, Goto, ControlAt
  <2>2. r.status = "running"
    BY <1>0, <2>1 DEF RowType, BeginRunExecution
  <2>3. Store(q, "begin", "accepted", r)
    BY <1>1, <2>1 DEF BeginExecution
  <2> HIDE DEF r
  <2>4. ControlAt("accepted", r, trace[q])
    BY <2>1, <2>2 DEF ControlAt
  <2> QED
    BY <2>3, <2>4, StoreControl
<1>2. CASE AppendAccepted(q)
  <2> DEFINE e == [type |-> "scheduler_decision", data |-> "accepted"]
  <2>1. e \in EventType /\ e.type # "run_end"
    BY DEF EventType
  <2> QED
    BY <1>2, <2>1, EventControl DEF AppendAccepted, AppendEvent, Goto
<1>3. CASE AppendRunStarted(q)
  <2> DEFINE e == [type |-> "run_started", data |-> "running"]
  <2>1. e \in EventType /\ e.type # "run_end"
    BY DEF EventType
  <2> QED
    BY <1>3, <2>1, EventControl DEF AppendRunStarted, AppendEvent, Goto
<1>4. CASE \/ Load(q) \/ DecideForced(q) \/ DecideTool(q) \/ DecideFinal(q)
           \/ ToolNotFound(q) \/ ToolIsDeleted(q) \/ ToolIsActive(q)
           \/ ToolNotBound(q) \/ SchemaRefuses(q) \/ ExecuteTool(q)
  <2>1. PICK to \in RunningPc :
          pc' = [pc EXCEPT ![q] = to] /\ pc[q] \in RunningPc /\ UNCHANGED database
    <3>1. CASE Load(q)
      BY <3>1 DEF Load, Goto
    <3>2. CASE DecideForced(q) \/ DecideTool(q) \/ DecideFinal(q)
      BY <3>2 DEF DecideForced, DecideTool, DecideFinal, Decide, Goto
    <3>3. CASE ToolNotFound(q) \/ ToolIsDeleted(q) \/ ToolNotBound(q) \/ SchemaRefuses(q)
      BY <3>3 DEF ToolNotFound, ToolIsDeleted, ToolNotBound, SchemaRefuses, FailWith, Goto
    <3>4. CASE ToolIsActive(q) \/ ExecuteTool(q)
      BY <3>4 DEF ToolIsActive, ExecuteTool, Proceed, Goto
    <3> QED
      BY <1>4, <3>1, <3>2, <3>3, <3>4
  <2>2. ControlAt(pc[q], row[q], trace[q]) => ControlAt(to, row[q], trace[q])
    BY <2>1 DEF ControlAt
  <2> QED
    BY <2>1, <2>2, ProceedControl
<1>5. CASE NoToolToCall(q) \/ HandlerRefuses(q)
  BY <1>5, ReturnControl DEF NoToolToCall, HandlerRefuses, Return, OverPc
<1>6. CASE AppendLlmCall(q)
  <2> DEFINE e == [type |-> "llm_call", data |-> loop[q].tool]
  <2>1. e \in EventType /\ e.type # "run_end"
    BY <1>0 DEF LoopType, EventType
  <2> QED
    BY <1>6, <2>1, EventControl DEF AppendLlmCall, AppendEvent, Goto
<1>7. CASE AppendToolExec(q)
  <2> DEFINE e == [type |-> "tool_exec", data |-> loop[q].tool]
  <2>1. e \in EventType /\ e.type # "run_end"
    BY <1>0 DEF LoopType, EventType
  <2> QED
    BY <1>7, <2>1, EventControl DEF AppendToolExec, Goto
<1>8. CASE FinalizeSuccess(q)
  <2> DEFINE r == FinalizeRun(row[q], "success", TRUE, "none")
  <2>1. r.status = "success"
    BY <1>0 DEF RowType, FinalizeRun
  <2>2. Unpublished(trace[q])
    BY <1>0, <1>8 DEF FinalizeSuccess, Store, Goto, ControlAt
  <2> HIDE DEF r
  <2>3. ControlAt("endSuccess", r, trace[q])
    BY <2>1, <2>2 DEF ControlAt
  <2> QED
    BY <1>8, <2>3, StoreControl DEF FinalizeSuccess, r
<1>9. CASE FinalizeFailed(q)
  <2> DEFINE r == FinalizeRun(row[q], "failed", FALSE, cause[q])
  <2>1. r.status = "failed"
    BY <1>0 DEF RowType, FinalizeRun
  <2>2. Unpublished(trace[q])
    BY <1>0, <1>9 DEF FinalizeFailed, Store, Goto, ControlAt
  <2> HIDE DEF r
  <2>3. ControlAt("endFailed", r, trace[q])
    BY <2>1, <2>2 DEF ControlAt
  <2> QED
    BY <1>9, <2>3, StoreControl DEF FinalizeFailed, r
<1>10. CASE AppendSuccessEnd(q)
  <2>1. row[q].status = "success"
    BY <1>0, <1>10 DEF AppendSuccessEnd, AppendEvent, Goto, ControlAt
  <2> QED
    BY <1>10, <2>1, EndControl DEF AppendSuccessEnd, Terminal
<1>11. CASE AppendFailedEnd(q)
  <2>1. row[q].status = "failed"
    BY <1>0, <1>11 DEF AppendFailedEnd, AppendEvent, Goto, ControlAt
  <2> QED
    BY <1>11, <2>1, EndControl DEF AppendFailedEnd, Terminal
<1>12. CASE Exit(q)
  BY <1>12, ReturnControl DEF Exit, Return, OverPc
<1> QED
  BY <1>1, <1>2, <1>3, <1>4, <1>5, <1>6, <1>7, <1>8, <1>9, <1>10, <1>11, <1>12 DEF TaskStep

LEMMA ControlInit == Init => ControlInv
BY DEF Init, ControlInv, ControlAt, EarlyPc, PendingPc, RunningPc, FailedPc, SettledPc, NoRow

LEMMA ControlNext == TypeOK /\ ControlInv /\ [Next]_vars => ControlInv'
<1> SUFFICES ASSUME TypeOK, ControlInv, [Next]_vars PROVE ControlInv'
  OBVIOUS
<1>1. CASE \E q \in Requests : Receive(q) \/ HandlerStep(q)
  BY <1>1, HandlerControl
<1>2. CASE \E q \in Requests : TaskStep(q)
  BY <1>2, TaskControl
<1>3. CASE \E q \in Requests : DbError(q) \/ Disconnect(q)
  <2>1. PICK q \in Requests : \E to \in OverPc \ {"done"} : \E code : Finish(q, to, code)
    BY <1>3 DEF DbError, Disconnect, OverPc
  <2> QED
    BY <2>1, ReturnControl
<1>4. CASE \E t \in Tools : CreateTool(t) \/ DeleteTool(t)
  BY <1>4 DEF CreateTool, DeleteTool, SetTool, database, ControlInv
<1>5. CASE Crash
  <2>1. ASSUME NEW q \in Requests PROVE ControlAt(pc'[q], row[q], trace[q])
    <3>1. pc'[q] = "killed" \/ pc'[q] = pc[q]
      BY <1>5 DEF Crash
    <3> QED
      BY <3>1
      DEF ControlInv, ControlAt, EarlyPc, PendingPc, RunningPc, FailedPc, SettledPc
  <2> QED
    BY <1>5, <2>1 DEF Crash, database, ControlInv
<1>6. CASE UNCHANGED vars
  BY <1>6 DEF vars, ControlInv
<1>7. CASE \E q \in Requests : AuthorizeError(q)
  <2>1. PICK q \in Requests : AuthorizeError(q)
    BY <1>7
  <2>2. ControlAt(pc[q], row[q], trace[q]) => ControlAt("fail", row[q], trace[q])
    BY <2>1
    DEF AuthorizeError, ControlAt, EarlyPc, PendingPc, RunningPc, FailedPc, SettledPc
  <2> QED
    BY <2>1, <2>2, ProceedControl DEF AuthorizeError
<1> QED
  BY <1>1, <1>2, <1>3, <1>4, <1>5, <1>6, <1>7 DEF Next, Terminating

LEMMA ControlAlways == Spec => [](TypeOK /\ ControlInv)
<1>1. Init => TypeOK /\ ControlInv
  BY InitType, ControlInit
<1>2. TypeOK /\ ControlInv /\ [Next]_vars => (TypeOK /\ ControlInv)'
  BY NextType, ControlNext
<1> QED
  BY <1>1, <1>2, PTL DEF Spec

\* A handler or task that returns leaves its run terminal, with the run_end of
\* that status, or leaves no run.
THEOREM DoneSettled == Spec => []DoneIsSettled
<1>1. ControlInv => DoneIsSettled
  BY DEF ControlInv, ControlAt, Settled, DoneIsSettled
<1> QED
  BY <1>1, ControlAlways, PTL

-------------------------------------------------------------------------------
(* What a step may do to the rows and the traces. *)

\* The row of q is written with status `to` when it had status `from`.
Writes(q, from, to) ==
  /\ row[q].status = from
  /\ \E r \in RowType : r.status = to /\ row' = [row EXCEPT ![q] = r]
  /\ UNCHANGED <<input, trace>>

\* Events other than run_end are appended to the trace of q, which has none.
Narrates(q) ==
  /\ Unpublished(trace[q]) /\ Unpublished(trace'[q])
  /\ trace' = [trace EXCEPT ![q] = trace'[q]]
  /\ UNCHANGED <<input, row>>

\* The run_end of q is appended: the first one, with the status of the row.
Publishes(q) ==
  /\ Unpublished(trace[q]) /\ row[q].status \in Terminal
  /\ trace' = [trace EXCEPT ![q] =
                 Append(trace[q], [type |-> "run_end", data |-> row[q].status])]
  /\ UNCHANGED <<input, row>>

LEMMA EventNarrates ==
  ASSUME TypeOK, NEW q \in Requests, Unpublished(trace[q]),
         NEW e \in EventType, e.type # "run_end",
         trace' = [trace EXCEPT ![q] = Append(trace[q], e)], UNCHANGED <<input, row>>
  PROVE  Narrates(q)
<1>1. trace[q] \in Seq(EventType)
  BY DEF TypeOK
<1>2. trace'[q] = Append(trace[q], e)
  BY DEF TypeOK
<1>3. Unpublished(trace'[q])
  BY <1>1, <1>2, AppendUnpublished
<1> QED
  BY <1>2, <1>3 DEF Narrates

\* Every step of a request leaves the rows and traces alone, or does one of the
\* three; a row is inserted by CommitRun only.
Effect(q) ==
  \/ UNCHANGED <<input, row, trace>>
  \/ Narrates(q) \/ Publishes(q)
  \/ CommitRun(q) /\ Writes(q, "absent", "pending")
  \/ Writes(q, "pending", "running") \/ Writes(q, "running", "success")
  \/ Writes(q, "running", "failed") \/ Writes(q, "pending", "failed")

LEMMA HandlerEffect ==
  ASSUME TypeOK, ControlInv, NEW q \in Requests, Receive(q) \/ HandlerStep(q)
  PROVE  Effect(q)
<1> USE DEF EarlyPc, PendingPc, RunningPc, FailedPc, SettledPc
<1>0. ControlAt(pc[q], row[q], trace[q]) /\ row[q] \in RowType
  BY DEF ControlInv, TypeOK
<1>1. CASE RefuseAgent(q) \/ RefuseEmpty(q) \/ SelectExisting(q) \/ RejectReply(q)
  BY <1>1
  DEF RefuseAgent, RefuseEmpty, SelectExisting, RejectReply, Return, Finish, database, Effect
<1>2. CASE Accept(q) \/ InsertRun(q)
  BY <1>2 DEF Accept, InsertRun, Proceed, database, Effect
<1>3. CASE CommitRun(q)
  <2>1. NewRow \in RowType /\ NewRow.status = "pending"
    BY DEF NewRow, NoRow, RowType, Reasons
  <2>2. Writes(q, "absent", "pending")
    BY <1>0, <1>3, <2>1 DEF CommitRun, Store, Goto, ControlAt, Writes
  <2> QED
    BY <1>3, <2>2 DEF Effect
<1>4. CASE AppendRunCreated(q)
  <2> DEFINE e == [type |-> "run_created", data |-> "pending"]
  <2>1. e \in EventType /\ e.type # "run_end"
    BY DEF EventType
  <2>2. Unpublished(trace[q])
    BY <1>0, <1>4 DEF AppendRunCreated, AppendEvent, Goto, ControlAt
  <2> QED
    BY <1>4, <2>1, <2>2, EventNarrates DEF AppendRunCreated, AppendEvent, Effect
<1>5. CASE AcquireGlobal(q) \/ RefuseGlobal(q) \/ AcquireTenant(q) \/ RefuseTenant(q)
  BY <1>5
  DEF AcquireGlobal, RefuseGlobal, AcquireTenant, RefuseTenant, FailWith, database, Effect
<1>6. CASE MarkRejected(q)
  <2> DEFINE r == MarkRunFailed(row[q], cause[q])
  <2>1. r \in RowType /\ r.status = "failed"
    <3>1. cause[q] \in Reasons
      BY DEF TypeOK
    <3> QED
      BY <1>0, <3>1 DEF RowType, MarkRunFailed, Terminal
  <2>2. row[q].status = "pending"
    BY <1>0, <1>6 DEF MarkRejected, Store, Goto, ControlAt
  <2>3. Store(q, "rejectMark", "rejectDecision", r)
    BY <1>6 DEF MarkRejected
  <2> HIDE DEF r
  <2>4. Writes(q, "pending", "failed")
    BY <2>1, <2>2, <2>3 DEF Store, Writes
  <2> QED
    BY <2>4 DEF Effect
<1>7. CASE AppendRejected(q)
  <2> DEFINE e == [type |-> "scheduler_decision", data |-> cause[q]]
  <2>1. e \in EventType /\ e.type # "run_end"
    BY DEF TypeOK, EventType
  <2>2. Unpublished(trace[q])
    BY <1>0, <1>7 DEF AppendRejected, AppendEvent, Goto, ControlAt
  <2> QED
    BY <1>7, <2>1, <2>2, EventNarrates DEF AppendRejected, AppendEvent, Effect
<1>8. CASE AppendRejectedEnd(q)
  <2>1. row[q].status = "failed" /\ Unpublished(trace[q])
    BY <1>0, <1>8 DEF AppendRejectedEnd, AppendEvent, Goto, ControlAt
  <2>2. Publishes(q)
    BY <1>8, <2>1 DEF AppendRejectedEnd, AppendEvent, Publishes, Terminal
  <2> QED
    BY <2>2 DEF Effect
<1> QED
  BY <1>1, <1>2, <1>3, <1>4, <1>5, <1>6, <1>7, <1>8 DEF Receive, HandlerStep

LEMMA TaskEffect ==
  ASSUME TypeOK, ControlInv, NEW q \in Requests, TaskStep(q)
  PROVE  Effect(q)
<1> USE DEF EarlyPc, PendingPc, RunningPc, FailedPc, SettledPc
<1>0. ControlAt(pc[q], row[q], trace[q]) /\ row[q] \in RowType /\ loop[q] \in LoopType
  BY DEF ControlInv, TypeOK
<1>1. CASE BeginExecution(q)
  <2> DEFINE r == BeginRunExecution(row[q])
  <2>1. row[q].status = "pending"
    BY <1>0, <1>1 DEF BeginExecution, Store, Goto, ControlAt
  <2>2. r \in RowType /\ r.status = "running"
    BY <1>0, <2>1 DEF RowType, BeginRunExecution
  <2>3. row' = [row EXCEPT ![q] = r] /\ UNCHANGED <<input, trace>>
    BY <1>1 DEF BeginExecution, Store
  <2> HIDE DEF r
  <2>4. Writes(q, "pending", "running")
    BY <2>1, <2>2, <2>3 DEF Writes
  <2> QED
    BY <2>4 DEF Effect
<1>2. CASE AppendAccepted(q)
  <2> DEFINE e == [type |-> "scheduler_decision", data |-> "accepted"]
  <2>1. e \in EventType /\ e.type # "run_end"
    BY DEF EventType
  <2>2. Unpublished(trace[q])
    BY <1>0, <1>2 DEF AppendAccepted, AppendEvent, Goto, ControlAt
  <2> QED
    BY <1>2, <2>1, <2>2, EventNarrates DEF AppendAccepted, AppendEvent, Effect
<1>3. CASE AppendRunStarted(q)
  <2> DEFINE e == [type |-> "run_started", data |-> "running"]
  <2>1. e \in EventType /\ e.type # "run_end"
    BY DEF EventType
  <2>2. Unpublished(trace[q])
    BY <1>0, <1>3 DEF AppendRunStarted, AppendEvent, Goto, ControlAt
  <2> QED
    BY <1>3, <2>1, <2>2, EventNarrates DEF AppendRunStarted, AppendEvent, Effect
<1>4. CASE \/ Load(q) \/ DecideForced(q) \/ DecideTool(q) \/ DecideFinal(q)
           \/ ToolNotFound(q) \/ ToolIsDeleted(q) \/ ToolIsActive(q)
           \/ ToolNotBound(q) \/ SchemaRefuses(q) \/ ExecuteTool(q)
           \/ NoToolToCall(q) \/ HandlerRefuses(q) \/ Exit(q)
  <2>1. UNCHANGED <<input, row, trace>>
    BY <1>4
    DEF Load, DecideForced, DecideTool, DecideFinal, Decide, ToolNotFound, ToolIsDeleted,
        ToolIsActive, ToolNotBound, SchemaRefuses, ExecuteTool, NoToolToCall, HandlerRefuses,
        Exit, FailWith, Proceed, Return, Finish, database
  <2> QED
    BY <2>1 DEF Effect
<1>5. CASE AppendLlmCall(q)
  <2> DEFINE e == [type |-> "llm_call", data |-> loop[q].tool]
  <2>1. e \in EventType /\ e.type # "run_end"
    BY <1>0 DEF LoopType, EventType
  <2>2. Unpublished(trace[q])
    BY <1>0, <1>5 DEF AppendLlmCall, AppendEvent, Goto, ControlAt
  <2> QED
    BY <1>5, <2>1, <2>2, EventNarrates DEF AppendLlmCall, AppendEvent, Effect
<1>6. CASE AppendToolExec(q)
  <2> DEFINE e == [type |-> "tool_exec", data |-> loop[q].tool]
  <2>1. e \in EventType /\ e.type # "run_end"
    BY <1>0 DEF LoopType, EventType
  <2>2. Unpublished(trace[q])
    BY <1>0, <1>6 DEF AppendToolExec, Goto, ControlAt
  <2> QED
    BY <1>6, <2>1, <2>2, EventNarrates DEF AppendToolExec, Effect
<1>7. CASE FinalizeSuccess(q)
  <2> DEFINE r == FinalizeRun(row[q], "success", TRUE, "none")
  <2>1. r \in RowType /\ r.status = "success"
    BY <1>0 DEF RowType, FinalizeRun, Reasons, Terminal
  <2>2. row[q].status = "running"
    BY <1>0, <1>7 DEF FinalizeSuccess, Store, Goto, ControlAt
  <2>3. row' = [row EXCEPT ![q] = r] /\ UNCHANGED <<input, trace>>
    BY <1>7 DEF FinalizeSuccess, Store
  <2> HIDE DEF r
  <2>4. Writes(q, "running", "success")
    BY <2>1, <2>2, <2>3 DEF Writes
  <2> QED
    BY <2>4 DEF Effect
<1>8. CASE FinalizeFailed(q)
  <2> DEFINE r == FinalizeRun(row[q], "failed", FALSE, cause[q])
  <2>1. r \in RowType /\ r.status = "failed"
    <3>1. cause[q] \in Reasons
      BY DEF TypeOK
    <3> QED
      BY <1>0, <3>1 DEF RowType, FinalizeRun, Terminal
  <2>2. row[q].status = "running"
    BY <1>0, <1>8 DEF FinalizeFailed, Store, Goto, ControlAt
  <2>3. row' = [row EXCEPT ![q] = r] /\ UNCHANGED <<input, trace>>
    BY <1>8 DEF FinalizeFailed, Store
  <2> HIDE DEF r
  <2>4. Writes(q, "running", "failed")
    BY <2>1, <2>2, <2>3 DEF Writes
  <2> QED
    BY <2>4 DEF Effect
<1>9. CASE AppendSuccessEnd(q)
  <2>1. row[q].status = "success" /\ Unpublished(trace[q])
    BY <1>0, <1>9 DEF AppendSuccessEnd, AppendEvent, Goto, ControlAt
  <2>2. Publishes(q)
    BY <1>9, <2>1 DEF AppendSuccessEnd, AppendEvent, Publishes, Terminal
  <2> QED
    BY <2>2 DEF Effect
<1>10. CASE AppendFailedEnd(q)
  <2>1. row[q].status = "failed" /\ Unpublished(trace[q])
    BY <1>0, <1>10 DEF AppendFailedEnd, AppendEvent, Goto, ControlAt
  <2>2. Publishes(q)
    BY <1>10, <2>1 DEF AppendFailedEnd, AppendEvent, Publishes, Terminal
  <2> QED
    BY <2>2 DEF Effect
<1> QED
  BY <1>1, <1>2, <1>3, <1>4, <1>5, <1>6, <1>7, <1>8, <1>9, <1>10 DEF TaskStep

LEMMA NextEffect ==
  ASSUME TypeOK, ControlInv, [Next]_vars
  PROVE  UNCHANGED <<input, row, trace>> \/ \E q \in Requests : Effect(q)
<1>1. CASE \E q \in Requests : Receive(q) \/ HandlerStep(q)
  BY <1>1, HandlerEffect
<1>2. CASE \E q \in Requests : TaskStep(q)
  BY <1>2, TaskEffect
<1>3. CASE \E q \in Requests : DbError(q) \/ Disconnect(q)
  BY <1>3 DEF DbError, Disconnect, Finish, database
<1>4. CASE \E t \in Tools : CreateTool(t) \/ DeleteTool(t)
  BY <1>4 DEF CreateTool, DeleteTool, SetTool, database
<1>5. CASE Crash
  BY <1>5 DEF Crash, database
<1>6. CASE UNCHANGED vars
  BY <1>6 DEF vars
<1>7. CASE \E q \in Requests : AuthorizeError(q)
  BY <1>7 DEF AuthorizeError, database
<1> QED
  BY <1>1, <1>2, <1>3, <1>4, <1>5, <1>6, <1>7 DEF Next, Terminating

\* No statement ever reaches a finished row, although neither finalize_run nor
\* mark_run_failed looks at the status it overwrites.
THEOREM FinishedRowsImmutable == Spec => FinishedRowImmutable
<1>1. TypeOK /\ ControlInv /\ [Next]_vars
        => [\A q \in Requests : row[q].status \in Terminal => row'[q] = row[q]]_row
  <2> SUFFICES ASSUME TypeOK, ControlInv, [Next]_vars, NEW p \in Requests,
                      row[p].status \in Terminal
               PROVE  row'[p] = row[p]
    OBVIOUS
  <2>1. CASE UNCHANGED <<input, row, trace>>
    BY <2>1
  <2>2. CASE \E q \in Requests : Effect(q)
    <3>1. PICK q \in Requests : Effect(q)
      BY <2>2
    <3>2. CASE row' = row
      BY <3>2
    <3>3. CASE \E from \in {"absent", "pending", "running"} : \E to : Writes(q, from, to)
      <4>1. p # q
        BY <3>3 DEF Writes, Terminal
      <4> QED
        BY <3>3, <4>1 DEF Writes, TypeOK
    <3> QED
      BY <3>1, <3>2, <3>3 DEF Effect, Narrates, Publishes
  <2> QED
    BY <2>1, <2>2, NextEffect
<1> QED
  BY <1>1, ControlAlways, PTL DEF Spec, FinishedRowImmutable

-------------------------------------------------------------------------------
(* One run per scope. *)

\* The scope of p is taken: by a row, or by an INSERT not yet committed.
Occupies(p) == row[p].status # "absent" \/ pc[p] = "commit"

ScopeInv ==
  \A p, q \in Requests : p # q /\ SameScope(p, q) => ~(Occupies(p) /\ Occupies(q))

\* Only an INSERT that found the scope free enters "commit".
LEMMA EntersCommit ==
  ASSUME TypeOK, [Next]_vars, NEW p \in Requests, pc'[p] = "commit", pc[p] # "commit"
  PROVE  InsertRun(p) /\ ~Clashes(p)
<1>1. CASE \E q \in Requests : Receive(q) \/ HandlerStep(q)
  <2>1. PICK q \in Requests : Receive(q) \/ HandlerStep(q)
    BY <1>1
  <2>2. CASE InsertRun(q)
    <3>1. p = q /\ ~Clashes(q)
      BY <2>2 DEF TypeOK, InsertRun, Proceed, Goto
    <3> QED
      BY <2>2, <3>1
  <2>3. CASE ~InsertRun(q)
    <3>1. \E to : to # "commit" /\ pc' = [pc EXCEPT ![q] = to]
      BY <2>1, <2>3
      DEF Receive, HandlerStep, RefuseAgent, RefuseEmpty, Accept, SelectExisting, CommitRun,
          AppendRunCreated, AcquireGlobal, RefuseGlobal, AcquireTenant, RefuseTenant,
          MarkRejected, AppendRejected, AppendRejectedEnd, RejectReply, Return, Finish,
          Proceed, Store, AppendEvent, FailWith, Goto
    <3> QED
      BY <3>1 DEF TypeOK
  <2> QED
    BY <2>2, <2>3
<1>2. CASE \E q \in Requests : TaskStep(q)
  <2>1. PICK q \in Requests : TaskStep(q)
    BY <1>2
  <2>2. \E to : to # "commit" /\ pc' = [pc EXCEPT ![q] = to]
    BY <2>1
    DEF TaskStep, BeginExecution, AppendAccepted, AppendRunStarted, Load, DecideForced,
        DecideTool, DecideFinal, Decide, NoToolToCall, AppendLlmCall, ToolNotFound,
        ToolIsDeleted, ToolIsActive, ToolNotBound, SchemaRefuses, HandlerRefuses,
        ExecuteTool, AppendToolExec, FinalizeSuccess, AppendSuccessEnd, FinalizeFailed,
        AppendFailedEnd, Exit, Return, Finish, Proceed, Store, AppendEvent, FailWith, Goto
  <2> QED
    BY <2>2 DEF TypeOK
<1>3. CASE \E q \in Requests : DbError(q) \/ Disconnect(q)
  BY <1>3 DEF TypeOK, DbError, Disconnect, Finish
<1>4. CASE \E t \in Tools : CreateTool(t) \/ DeleteTool(t)
  BY <1>4 DEF CreateTool, DeleteTool, SetTool
<1>5. CASE Crash
  BY <1>5 DEF Crash, ActivePc, HandlerPc
<1>6. CASE UNCHANGED vars
  BY <1>6 DEF vars
<1>7. CASE \E q \in Requests : AuthorizeError(q)
  BY <1>7 DEF TypeOK, AuthorizeError
<1> QED
  BY <1>1, <1>2, <1>3, <1>4, <1>5, <1>6, <1>7 DEF Next, Terminating

\* A row appears in "commit" only, so a scope is taken by INSERT alone.
LEMMA OccupiesGrows ==
  ASSUME TypeOK, ControlInv, [Next]_vars, NEW p \in Requests, Occupies(p)', ~Occupies(p)
  PROVE  InsertRun(p) /\ ~Clashes(p)
<1>1. row[p].status = "absent" /\ pc[p] # "commit"
  BY DEF Occupies
<1>2. row'[p].status = "absent"
  <2>1. CASE UNCHANGED <<input, row, trace>>
    BY <1>1, <2>1
  <2>2. CASE \E q \in Requests : Effect(q)
    <3>1. PICK q \in Requests : Effect(q)
      BY <2>2
    <3>2. CASE row' = row
      BY <1>1, <3>2
    <3>3. CASE CommitRun(q)
      BY <1>1, <3>3 DEF TypeOK, CommitRun, Store, Goto
    <3>4. CASE \E from \in {"pending", "running"} : \E to : Writes(q, from, to)
      <4>1. p # q
        BY <1>1, <3>4 DEF Writes
      <4> QED
        BY <1>1, <3>4, <4>1 DEF Writes, TypeOK
    <3> QED
      BY <3>1, <3>2, <3>3, <3>4 DEF Effect, Narrates, Publishes
  <2> QED
    BY <2>1, <2>2, NextEffect
<1>3. pc'[p] = "commit"
  BY <1>2 DEF Occupies
<1> QED
  BY <1>1, <1>3, EntersCommit

LEMMA InputConstant == TypeOK /\ ControlInv /\ [Next]_vars => input' = input
<1> SUFFICES ASSUME TypeOK, ControlInv, [Next]_vars PROVE input' = input
  OBVIOUS
<1>1. CASE UNCHANGED <<input, row, trace>>
  BY <1>1
<1>2. CASE \E q \in Requests : Effect(q)
  BY <1>2 DEF Effect, Narrates, Publishes, Writes
<1> QED
  BY <1>1, <1>2, NextEffect

LEMMA ScopeNext == TypeOK /\ ControlInv /\ ScopeInv /\ [Next]_vars => ScopeInv'
<1> SUFFICES ASSUME TypeOK, ControlInv, ScopeInv, [Next]_vars,
                    NEW p \in Requests, NEW q \in Requests, p # q, SameScope(p, q)',
                    Occupies(p)', Occupies(q)'
             PROVE  FALSE
  BY DEF ScopeInv
<1>1. SameScope(p, q) /\ SameScope(q, p)
  BY InputConstant DEF SameScope, ScopeOf
<1>2. ~(Occupies(p) /\ Occupies(q))
  BY <1>1 DEF ScopeInv
\* A free scope is taken by one request at a time: q's INSERT saw no taker p.
<1>3. ASSUME NEW x \in Requests, NEW y \in Requests, x # y, SameScope(x, y),
             Occupies(x)', Occupies(y)', ~Occupies(y)
      PROVE  FALSE
  <2>1. InsertRun(y) /\ ~Clashes(y)
    BY <1>3, OccupiesGrows
  <2>2. ~Occupies(x)
    BY <1>3, <2>1 DEF InsertRun, Inserting, Clashes, Occupies
  <2>3. pc'[x] = pc[x] /\ row' = row
    BY <1>3, <2>1 DEF TypeOK, InsertRun, Proceed, Goto, database
  <2> QED
    BY <1>3, <2>2, <2>3 DEF Occupies
<1> QED
  BY <1>1, <1>2, <1>3

LEMMA ScopeInit == Init => ScopeInv
BY DEF Init, ScopeInv, Occupies, NoRow

LEMMA ScopeAlways == Spec => [](TypeOK /\ ControlInv /\ ScopeInv)
<1>1. Init => TypeOK /\ ControlInv /\ ScopeInv
  BY InitType, ControlInit, ScopeInit
<1>2. TypeOK /\ ControlInv /\ ScopeInv /\ [Next]_vars => (TypeOK /\ ControlInv /\ ScopeInv)'
  BY NextType, ControlNext, ScopeNext
<1> QED
  BY <1>1, <1>2, PTL DEF Spec

\* Requests with one (tenant, agent, Idempotency-Key) leave one run at most.
THEOREM OneRunPerScope == Spec => []IdempotentScope
<1>1. ScopeInv => IdempotentScope
  BY DEF ScopeInv, Occupies, IdempotentScope
<1> QED
  BY <1>1, ScopeAlways, PTL

-------------------------------------------------------------------------------
(* The refinement. *)

scopeBar  == [q \in Requests |-> IF input[q].key = NoKey THEN <<>> ELSE ScopeOf(q)]
statusBar == [q \in Requests |-> row[q].status]
runEndBar == [q \in Requests |-> Published(q)]

LEMMA UnpublishedIsNone ==
  ASSUME NEW q \in Requests, Unpublished(trace[q])
  PROVE  Published(q) = "none"
BY DEF Unpublished, Published, HasEnd, Events

\* A write of the row is a move of the abstract status.
LEMMA WritesMove ==
  ASSUME TypeOK, NEW q \in Requests, NEW from, NEW to, Writes(q, from, to)
  PROVE  Lifecycle!Move(q, from, to)
<1>1. statusBar' = [statusBar EXCEPT ![q] = to]
  BY DEF statusBar, Writes, TypeOK
<1>2. statusBar[q] = from
  BY DEF statusBar, Writes
<1>3. scopeBar' = scopeBar
  BY DEF scopeBar, ScopeOf, Writes
<1>4. runEndBar' = runEndBar
  BY DEF runEndBar, Published, HasEnd, Events, Writes
<1> QED
  BY <1>1, <1>2, <1>3, <1>4 DEF Lifecycle!Move, scopeBar, statusBar, runEndBar

LEMMA NarratesStutters ==
  ASSUME TypeOK, NEW q \in Requests, Narrates(q)
  PROVE  UNCHANGED <<scopeBar, statusBar, runEndBar>>
<1>1. UNCHANGED <<scopeBar, statusBar>>
  BY DEF Narrates, scopeBar, statusBar, ScopeOf
<1>2. ASSUME NEW p \in Requests PROVE Published(p)' = Published(p)
  <2>1. CASE p = q
    BY <2>1 DEF Narrates, Unpublished, Published, HasEnd, Events
  <2>2. CASE p # q
    <3>1. trace'[p] = trace[p]
      BY <2>2 DEF Narrates, TypeOK
    <3> QED
      BY <3>1 DEF Published, HasEnd, Events
  <2> QED
    BY <2>1, <2>2
<1>3. UNCHANGED runEndBar
  BY <1>2 DEF runEndBar
<1> QED
  BY <1>1, <1>3

LEMMA PublishesPublish ==
  ASSUME TypeOK, NEW q \in Requests, Publishes(q)
  PROVE  Lifecycle!Publish(q)
<1> DEFINE e == [type |-> "run_end", data |-> row[q].status]
<1>1. UNCHANGED <<scopeBar, statusBar>>
  BY DEF Publishes, scopeBar, statusBar, ScopeOf
<1>2. statusBar[q] \in Terminal /\ runEndBar[q] = "none"
  BY UnpublishedIsNone DEF Publishes, statusBar, runEndBar
<1>3. Published(q)' = row[q].status
  <2>1. trace[q] \in Seq(EventType) /\ trace'[q] = Append(trace[q], e)
    BY DEF TypeOK, Publishes
  <2>2. Len(trace'[q]) \in DOMAIN trace'[q] /\ trace'[q][Len(trace'[q])] = e
    <3> HIDE DEF e
    <3>1. /\ Len(Append(trace[q], e)) = Len(trace[q]) + 1 /\ Len(trace[q]) \in Nat
          /\ DOMAIN Append(trace[q], e) = 1..(Len(trace[q]) + 1)
          /\ Append(trace[q], e)[Len(trace[q]) + 1] = e
      BY <2>1
    <3> QED
      BY <2>1, <3>1
  <2>3. e.type = "run_end" /\ e.data = row[q].status
    OBVIOUS
  <2> QED
    BY <2>2, <2>3 DEF Published, HasEnd, Events
<1>4. ASSUME NEW p \in Requests, p # q PROVE Published(p)' = Published(p)
  <2>1. trace'[p] = trace[p]
    BY <1>4 DEF Publishes, TypeOK
  <2> QED
    BY <2>1 DEF Published, HasEnd, Events
<1>5. runEndBar' = [runEndBar EXCEPT ![q] = statusBar[q]]
  BY <1>3, <1>4 DEF runEndBar, statusBar
<1> QED
  BY <1>1, <1>2, <1>5
  DEF Lifecycle!Publish, Lifecycle!Terminal, Terminal, scopeBar, statusBar, runEndBar

\* When an INSERT commits, no other run of its scope exists.
LEMMA CommitFree ==
  ASSUME ScopeInv, NEW q \in Requests, pc[q] = "commit", row[q].status = "absent"
  PROVE  Lifecycle!ScopeFree(q)
<1>1. CASE input[q].key = NoKey
  BY <1>1 DEF Lifecycle!ScopeFree
<1>2. CASE input[q].key # NoKey
  <2>1. ASSUME NEW p \in Requests, scopeBar[p] = scopeBar[q]
        PROVE  row[p].status = "absent"
    <3>1. ScopeOf(p) = ScopeOf(q)
      BY <1>2, <2>1 DEF scopeBar, ScopeOf
    <3>2. CASE p = q
      BY <3>2
    <3>3. CASE p # q
      <4>1. SameScope(p, q)
        BY <1>2, <3>1 DEF SameScope
      <4> QED
        BY <3>3, <4>1 DEF ScopeInv, Occupies
    <3> QED
      BY <3>2, <3>3
  <2> QED
    BY <2>1 DEF Lifecycle!ScopeFree, scopeBar
<1> QED
  BY <1>1, <1>2

LEMMA RefinementInit == Init => Lifecycle!Init
BY DEF Init, NoRow, Lifecycle!Init, Published, HasEnd, Events

LEMMA RefinementNext ==
  TypeOK /\ ControlInv /\ ScopeInv /\ [Next]_vars => [Lifecycle!Next]_(Lifecycle!vars)
<1> SUFFICES ASSUME TypeOK, ControlInv, ScopeInv, [Next]_vars
             PROVE  Lifecycle!Next \/ UNCHANGED Lifecycle!vars
  OBVIOUS
<1>1. CASE UNCHANGED <<input, row, trace>>
  BY <1>1 DEF Lifecycle!vars, ScopeOf, Published, HasEnd, Events
<1>2. CASE \E q \in Requests : Effect(q)
  <2>1. PICK q \in Requests : Effect(q)
    BY <1>2
  <2>2. CASE UNCHANGED <<input, row, trace>>
    BY <1>1, <2>2
  <2>3. CASE Narrates(q)
    BY <2>3, NarratesStutters DEF Lifecycle!vars, scopeBar, statusBar, runEndBar
  <2>4. CASE Publishes(q)
    BY <2>4, PublishesPublish DEF Lifecycle!Next
  <2>5. CASE CommitRun(q) /\ Writes(q, "absent", "pending")
    <3>1. Lifecycle!ScopeFree(q)
      BY <2>5, CommitFree DEF CommitRun, Store, Goto, Writes
    <3> QED
      BY <2>5, <3>1, WritesMove DEF Lifecycle!Next, Lifecycle!Create
  <2>6. CASE Writes(q, "pending", "running")
    BY <2>6, WritesMove DEF Lifecycle!Next, Lifecycle!Start
  <2>7. CASE Writes(q, "running", "success")
    BY <2>7, WritesMove DEF Lifecycle!Next, Lifecycle!Succeed
  <2>8. CASE Writes(q, "running", "failed")
    BY <2>8, WritesMove DEF Lifecycle!Next, Lifecycle!Fail
  <2>9. CASE Writes(q, "pending", "failed")
    BY <2>9, WritesMove DEF Lifecycle!Next, Lifecycle!Reject
  <2> QED
    BY <2>1, <2>2, <2>3, <2>4, <2>5, <2>6, <2>7, <2>8, <2>9 DEF Effect
<1> QED
  BY <1>1, <1>2, NextEffect

\* A client that reads a run and its trace observes RunLifecycle: legal status
\* moves, one run per scope, one run_end, after the final status and equal to it.
THEOREM LifecycleImplemented == Spec => ImplementsLifecycle
<1>1. Init => Lifecycle!Init
  BY RefinementInit
<1>2. TypeOK /\ ControlInv /\ ScopeInv /\ [Next]_vars => [Lifecycle!Next]_(Lifecycle!vars)
  BY RefinementNext
<1> QED
  BY <1>1, <1>2, ScopeAlways, PTL DEF Spec, ImplementsLifecycle, Lifecycle!Spec
===============================================================================
