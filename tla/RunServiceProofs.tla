-------------------------- MODULE RunServiceProofs --------------------------
(***************************************************************************)
(* Proofs about RunService, for every value of its constants: any number   *)
(* of requests, tenants, agents and tools, any limits, any fault budget.   *)
(***************************************************************************)
EXTENDS RunService, FiniteSetTheorems, TLAPS

-------------------------------------------------------------------------------
(* Type correctness: one lemma per shape of action. *)

LEMMA ProceedType ==
  ASSUME TypeOK, NEW q \in Requests, NEW from, NEW to \in PcType, Proceed(q, from, to)
  PROVE  TypeOK'
BY DEF TypeOK, Proceed, Goto, database, semaphores

LEMMA StoreType ==
  ASSUME TypeOK, NEW q \in Requests, NEW from, NEW to \in PcType, NEW r \in RowType,
         Store(q, from, to, r)
  PROVE  TypeOK'
BY DEF TypeOK, Store, Goto, semaphores

LEMMA AppendType ==
  ASSUME NEW s \in Seq(EventType), NEW e \in EventType
  PROVE  Append(s, e) \in Seq(EventType)
OBVIOUS

LEMMA AppendEventType ==
  ASSUME TypeOK, NEW q \in Requests, NEW from, NEW to \in PcType, NEW type, NEW data,
         [type |-> type, data |-> data] \in EventType,
         AppendEvent(q, from, to, type, data)
  PROVE  TypeOK'
<1> DEFINE e == [type |-> type, data |-> data]
<1>1. trace' = [trace EXCEPT ![q] = Append(trace[q], e)]
  BY DEF AppendEvent
<1>2. trace[q] \in Seq(EventType) /\ e \in EventType
  BY DEF TypeOK
<1>3. Append(trace[q], e) \in Seq(EventType)
  BY <1>2, AppendType
<1> HIDE DEF e
<1>4. trace' \in [Requests -> Seq(EventType)]
  BY <1>1, <1>3 DEF TypeOK
<1> QED
  BY <1>4 DEF TypeOK, AppendEvent, Goto, semaphores

LEMMA FailWithType ==
  ASSUME TypeOK, NEW q \in Requests, NEW from, NEW to \in PcType, NEW reason \in Reasons,
         FailWith(q, from, to, reason)
  PROVE  TypeOK'
BY DEF TypeOK, FailWith, Goto, database, semaphores

LEMMA TenantType ==
  ASSUME TypeOK, NEW q \in Requests
  PROVE  TenantOf(q) \in Tenants
<1>1. input[q] \in InputType
  BY InputAssumption DEF TypeOK
<1> QED
  BY <1>1 DEF TenantOf, InputType

LEMMA ReleaseType ==
  ASSUME TypeOK, NEW q \in Requests, ReleasePermits(q)
  PROVE  /\ permits' \in [Requests -> SUBSET {"global", "tenant"}]
         /\ globalFree' \in Nat
         /\ tenantFree' \in [Tenants -> Nat]
<1>1. Owns(q, "global") \in Nat /\ Owns(q, "tenant") \in Nat
  BY DEF Owns
<1>2. globalFree' \in Nat
  BY <1>1 DEF TypeOK, ReleasePermits
<1>3. tenantFree' \in [Tenants -> Nat]
  <2>1. tenantFree[TenantOf(q)] + Owns(q, "tenant") \in Nat
    BY <1>1, TenantType DEF TypeOK
  <2> QED
    BY <2>1 DEF TypeOK, ReleasePermits
<1> QED
  BY <1>2, <1>3 DEF TypeOK, ReleasePermits

\* All but faults', which the callers settle.
LEMMA FinishType ==
  ASSUME TypeOK, NEW q \in Requests, NEW to \in PcType, NEW code \in RespType,
         faults' \in 0..MaxFaults, Finish(q, to, code)
  PROVE  TypeOK'
<1>1. ReleasePermits(q)
  BY DEF Finish
<1> QED
  BY <1>1, ReleaseType DEF TypeOK, Finish, database

LEMMA ReturnType ==
  ASSUME TypeOK, NEW q \in Requests, NEW from, NEW to \in PcType, NEW code \in RespType,
         Return(q, from, to, code)
  PROVE  TypeOK'
<1>1. faults' \in 0..MaxFaults
  BY DEF TypeOK, Return
<1> QED
  BY <1>1, FinishType DEF Return

LEMMA FaultType ==
  ASSUME TypeOK, NEW kind, Fault(kind)
  PROVE  faults' \in 0..MaxFaults
BY FaultAssumption DEF TypeOK, Fault

LEMMA InitType == Init => TypeOK
BY LimitsAssumption, FaultAssumption
DEF Init, TypeOK, PcType, RowType, NoRow, LoopType, NoLoop, Reasons, RespType

USE DEF PcType, ActivePc, HandlerPc, TaskPc, OverPc

LEMMA ReceiveType ==
  ASSUME TypeOK, NEW q \in Requests, Receive(q)
  PROVE  TypeOK'
<1>1. CASE RefuseAgent(q)
  BY <1>1, ReturnType DEF RefuseAgent, RespType
<1>2. CASE RefuseEmpty(q)
  BY <1>2, ReturnType DEF RefuseEmpty, RespType
<1>3. CASE Accept(q)
  BY <1>3, ProceedType DEF Accept
<1> QED
  BY <1>1, <1>2, <1>3 DEF Receive

LEMMA AcquireGlobalType ==
  ASSUME TypeOK, NEW q \in Requests, AcquireGlobal(q)
  PROVE  TypeOK'
<1>1. globalFree' \in Nat
  BY DEF TypeOK, AcquireGlobal
<1> QED
  BY <1>1 DEF TypeOK, AcquireGlobal, Goto, database

LEMMA AcquireTenantType ==
  ASSUME TypeOK, NEW q \in Requests, AcquireTenant(q)
  PROVE  TypeOK'
<1>1. tenantFree[TenantOf(q)] - 1 \in Nat
  BY TenantType DEF TypeOK, AcquireTenant
<1>2. tenantFree' \in [Tenants -> Nat]
  BY <1>1 DEF TypeOK, AcquireTenant
<1> QED
  BY <1>2 DEF TypeOK, AcquireTenant, Goto, database, RespType

LEMMA HandlerType ==
  ASSUME TypeOK, NEW q \in Requests, HandlerStep(q)
  PROVE  TypeOK'
<1>1. CASE InsertRun(q)
  BY <1>1, ProceedType DEF InsertRun
<1>2. CASE SelectExisting(q)
  BY <1>2, ReturnType DEF SelectExisting, RespType, Reasons
<1>3. CASE CommitRun(q)
  BY <1>3, StoreType DEF CommitRun, NewRow, NoRow, RowType, Reasons
<1>4. CASE AppendRunCreated(q)
  BY <1>4, AppendEventType DEF AppendRunCreated, EventType
<1>5. CASE AcquireGlobal(q)
  BY <1>5, AcquireGlobalType
<1>6. CASE RefuseGlobal(q)
  BY <1>6, FailWithType DEF RefuseGlobal, Reasons
<1>7. CASE AcquireTenant(q)
  BY <1>7, AcquireTenantType
<1>8. CASE RefuseTenant(q)
  BY <1>8, FailWithType DEF RefuseTenant, Reasons
<1>9. CASE MarkRejected(q)
  <2>1. MarkRunFailed(row[q], cause[q]) \in RowType
    <3>1. row[q] \in RowType /\ cause[q] \in Reasons
      BY DEF TypeOK
    <3> QED
      BY <3>1 DEF MarkRunFailed, RowType, Terminal
  <2> QED
    BY <1>9, <2>1, StoreType DEF MarkRejected
<1>10. CASE AppendRejected(q)
  <2>1. [type |-> "scheduler_decision", data |-> cause[q]] \in EventType
    BY DEF TypeOK, EventType
  <2> QED
    BY <1>10, <2>1, AppendEventType DEF AppendRejected
<1>11. CASE AppendRejectedEnd(q)
  BY <1>11, AppendEventType DEF AppendRejectedEnd, EventType
<1>12. CASE RejectReply(q)
  <2>1. cause[q] \in RespType
    BY DEF TypeOK, RespType
  <2> QED
    BY <1>12, <2>1, ReturnType DEF RejectReply
<1> QED
  BY <1>1, <1>2, <1>3, <1>4, <1>5, <1>6, <1>7, <1>8, <1>9, <1>10, <1>11, <1>12
  DEF HandlerStep

\* The two updates of the loop locals, on the record alone.
LEMMA DecisionType ==
  ASSUME NEW l \in LoopType, NEW t \in Tools \cup {NilTool, FinalAnswer}, NEW b \in BOOLEAN
  PROVE  Decided(l, t, b) \in LoopType
<1>1. (l.consumed \/ b) \in BOOLEAN
  OBVIOUS
<1> DEFINE c == l.consumed \/ b
<1>2. c \in BOOLEAN
  BY <1>1
<1> HIDE DEF c
<1>3. [l EXCEPT !.tool = t, !.consumed = c] \in LoopType
  BY <1>2 DEF LoopType
<1> QED
  BY <1>3 DEF c, Decided

LEMMA CountType ==
  ASSUME NEW l \in LoopType
  PROVE  Counted(l) \in LoopType
<1>1. l.results + 1 \in Nat /\ l.iteration + 1 \in Nat
  BY DEF LoopType
<1> DEFINE r == l.results + 1
           i == l.iteration + 1
<1>2. r \in Nat /\ i \in Nat
  BY <1>1
<1> HIDE DEF r, i
<1>3. [l EXCEPT !.results = r, !.iteration = i] \in LoopType
  BY <1>2 DEF LoopType
<1> QED
  BY <1>3 DEF r, i, Counted

LEMMA LoadType ==
  ASSUME TypeOK, NEW q \in Requests, Load(q)
  PROVE  TypeOK'
<1>1. PICK t \in IF BoundTools(q) = {} THEN {NilTool} ELSE BoundTools(q) :
        loop' = [loop EXCEPT ![q] = [@ EXCEPT !.first = t]]
  BY DEF Load
<1>2. t \in Tools \cup {NilTool}
  <2>1. input[q].agent \in Agents
    BY InputAssumption DEF TypeOK, InputType
  <2> QED
    BY <2>1, CatalogueAssumption DEF BoundTools
<1>3. loop' \in [Requests -> LoopType]
  <2>1. [loop[q] EXCEPT !.first = t] \in LoopType
    BY <1>2 DEF TypeOK, LoopType
  <2> QED
    BY <1>1, <2>1 DEF TypeOK
<1> QED
  BY <1>3 DEF TypeOK, Load, Goto, database, semaphores

LEMMA DecideType ==
  ASSUME TypeOK, NEW q \in Requests, NEW t \in Tools \cup {NilTool, FinalAnswer},
         Decide(q, t)
  PROVE  TypeOK'
<1>1. input[q].force \in BOOLEAN
  BY InputAssumption DEF TypeOK, InputType
<1>2. loop' \in [Requests -> LoopType]
  <2>1. Decided(loop[q], t, input[q].force) \in LoopType
    BY <1>1, DecisionType DEF TypeOK
  <2> QED
    BY <2>1 DEF TypeOK, Decide
<1> QED
  BY <1>2 DEF TypeOK, Decide, Goto, database, semaphores

LEMMA AppendToolExecType ==
  ASSUME TypeOK, NEW q \in Requests, AppendToolExec(q)
  PROVE  TypeOK'
<1> DEFINE e == [type |-> "tool_exec", data |-> loop[q].tool]
<1>1. e \in EventType
  BY DEF TypeOK, EventType, LoopType
<1>2. trace' = [trace EXCEPT ![q] = Append(trace[q], e)]
  BY DEF AppendToolExec
<1> HIDE DEF e
<1>3. trace' \in [Requests -> Seq(EventType)]
  BY <1>1, <1>2, AppendType DEF TypeOK
<1>4. loop' \in [Requests -> LoopType]
  <2>1. Counted(loop[q]) \in LoopType
    BY CountType DEF TypeOK
  <2> QED
    BY <2>1 DEF TypeOK, AppendToolExec
<1>5. cause' \in [Requests -> Reasons]
  BY DEF TypeOK, AppendToolExec, Reasons
<1> QED
  BY <1>3, <1>4, <1>5 DEF TypeOK, AppendToolExec, Goto, semaphores

LEMMA TaskType ==
  ASSUME TypeOK, NEW q \in Requests, TaskStep(q)
  PROVE  TypeOK'
<1> USE DEF TaskStep
<1>0. resp[q] \in RespType /\ row[q] \in RowType /\ loop[q] \in LoopType
  BY DEF TypeOK
<1>1. CASE BeginExecution(q)
  BY <1>0, <1>1, StoreType DEF BeginExecution, BeginRunExecution, RowType
<1>2. CASE AppendAccepted(q)
  BY <1>2, AppendEventType DEF AppendAccepted, EventType
<1>3. CASE AppendRunStarted(q)
  BY <1>3, AppendEventType DEF AppendRunStarted, EventType
<1>4. CASE Load(q)
  BY <1>4, LoadType
<1>5. CASE DecideForced(q)
  BY <1>5, DecideType DEF DecideForced, UnboundActive
<1>6. CASE DecideTool(q)
  BY <1>0, <1>6, DecideType DEF DecideTool, LoopType
<1>7. CASE DecideFinal(q)
  BY <1>7, DecideType DEF DecideFinal
<1>8. CASE NoToolToCall(q)
  BY <1>0, <1>8, ReturnType DEF NoToolToCall
<1>9. CASE AppendLlmCall(q)
  <2>1. [type |-> "llm_call", data |-> loop[q].tool] \in EventType
    BY <1>0 DEF LoopType, EventType
  <2> QED
    BY <1>9, <2>1, AppendEventType DEF AppendLlmCall
<1>10. CASE ToolNotFound(q)
  BY <1>10, FailWithType DEF ToolNotFound, Reasons
<1>11. CASE ToolIsDeleted(q)
  BY <1>11, FailWithType DEF ToolIsDeleted, Reasons
<1>12. CASE ToolIsActive(q)
  BY <1>12, ProceedType DEF ToolIsActive
<1>13. CASE ToolNotBound(q)
  BY <1>13, FailWithType DEF ToolNotBound, Reasons
<1>14. CASE SchemaRefuses(q)
  BY <1>14, FailWithType DEF SchemaRefuses, Reasons
<1>15. CASE HandlerRefuses(q)
  BY <1>0, <1>15, ReturnType DEF HandlerRefuses
<1>16. CASE ExecuteTool(q)
  BY <1>16, ProceedType DEF ExecuteTool
<1>17. CASE AppendToolExec(q)
  BY <1>17, AppendToolExecType
<1>18. CASE FinalizeSuccess(q)
  BY <1>0, <1>18, StoreType DEF FinalizeSuccess, FinalizeRun, RowType, Reasons, Terminal
<1>19. CASE AppendSuccessEnd(q)
  BY <1>19, AppendEventType DEF AppendSuccessEnd, EventType
<1>20. CASE FinalizeFailed(q)
  <2>1. FinalizeRun(row[q], "failed", FALSE, cause[q]) \in RowType
    BY <1>0 DEF TypeOK, FinalizeRun, RowType, Terminal
  <2> QED
    BY <1>20, <2>1, StoreType DEF FinalizeFailed
<1>21. CASE AppendFailedEnd(q)
  BY <1>21, AppendEventType DEF AppendFailedEnd, EventType
<1>22. CASE Exit(q)
  BY <1>0, <1>22, ReturnType DEF Exit
<1> QED
  BY <1>1, <1>2, <1>3, <1>4, <1>5, <1>6, <1>7, <1>8, <1>9, <1>10, <1>11, <1>12,
     <1>13, <1>14, <1>15, <1>16, <1>17, <1>18, <1>19, <1>20, <1>21, <1>22

LEMMA DbErrorType ==
  ASSUME TypeOK, NEW q \in Requests, DbError(q)
  PROVE  TypeOK'
<1>1. faults' \in 0..MaxFaults
  BY FaultType DEF DbError
<1>2. (IF pc[q] \in HandlerPc THEN "internal_error" ELSE resp[q]) \in RespType
  BY DEF TypeOK, RespType, Reasons
<1> QED
  BY <1>1, <1>2, FinishType DEF DbError

LEMMA AuthorizeErrorType ==
  ASSUME TypeOK, NEW q \in Requests, AuthorizeError(q)
  PROVE  TypeOK'
<1>1. faults' \in 0..MaxFaults
  BY FaultType DEF AuthorizeError
<1> QED
  BY <1>1 DEF TypeOK, AuthorizeError, Reasons, database, semaphores

LEMMA DisconnectType ==
  ASSUME TypeOK, NEW q \in Requests, Disconnect(q)
  PROVE  TypeOK'
<1>1. faults' \in 0..MaxFaults
  BY FaultType DEF Disconnect
<1>2. resp[q] \in RespType
  BY DEF TypeOK
<1> QED
  BY <1>1, <1>2, FinishType DEF Disconnect

LEMMA CrashType == TypeOK /\ Crash => TypeOK'
<1> SUFFICES ASSUME TypeOK, Crash PROVE TypeOK'
  OBVIOUS
<1>1. faults' \in 0..MaxFaults
  BY FaultType DEF Crash
<1> QED
  BY <1>1, LimitsAssumption DEF TypeOK, Crash, database

LEMMA ToolType ==
  ASSUME TypeOK, NEW t \in Tools, CreateTool(t) \/ DeleteTool(t)
  PROVE  TypeOK'
BY DEF TypeOK, CreateTool, DeleteTool, SetTool, database, semaphores

LEMMA StutterType == TypeOK /\ UNCHANGED vars => TypeOK'
BY DEF TypeOK, vars

LEMMA NextType == TypeOK /\ [Next]_vars => TypeOK'
BY ReceiveType, HandlerType, TaskType, DbErrorType, AuthorizeErrorType,
   DisconnectType, CrashType, ToolType, StutterType
DEF Next, Terminating

\* Every variable keeps its type: no semaphore is ever over-drawn, no row ever
\* has a status or an error_reason the code does not know.
THEOREM TypeCorrect == Spec => []TypeOK
<1>1. Init => TypeOK
  BY InitType
<1>2. TypeOK /\ [Next]_vars => TypeOK'
  BY NextType
<1> QED
  BY <1>1, <1>2, PTL DEF Spec
===============================================================================
