------------------------------ MODULE RunService ------------------------------
(***************************************************************************)
(* The life of a run inside one platform-server process: the handler of    *)
(* POST /agents/{id}/run (http.rs: start_run), the admission of the run    *)
(* (runtime.rs: schedule_run) and the task that executes it (execute_run), *)
(* over the rows of runs, run_traces and tools.                            *)
(*                                                                         *)
(* A request is the whole chain handler -> spawned task, because the task  *)
(* starts exactly where the handler stops touching the run; pc[q] is where *)
(* the chain is suspended.  Each action runs from one .await to the next,  *)
(* so it holds at most one database statement, and the statement's effect  *)
(* is atomic (PostgreSQL, READ COMMITTED, one statement per transaction    *)
(* except in create_or_get_run).  A run is named after the request that    *)
(* inserted it.                                                            *)
(*                                                                         *)
(* Simplifications.  Authentication has succeeded; tenants, agents and     *)
(* bindings never change once created (no operation of the API updates     *)
(* them), so they are constants.  Timestamps are "set or not set".  Only   *)
(* the trace of the run itself is kept, in seq order.                      *)
(***************************************************************************)
EXTENDS Integers, Sequences, FiniteSets

CONSTANTS
  Requests,        \* the POST /agents/{id}/run requests ever received
  Tenants, Agents, Tools,
  Keys,            \* idempotency keys
  NoKey,           \* the request has no (or a blank) Idempotency-Key header
  NilTool,         \* Uuid::nil(), the tool id of a forced call with no candidate
  FinalAnswer,     \* LlmDecisionKind::FinalAnswer, as opposed to a tool to call
  AgentTenant,     \* AgentTenant[a]: agents.tenant_id
  ToolTenant,      \* ToolTenant[t]: tools.tenant_id
  Bindings,        \* Bindings[a]: the tools of a in agent_tools
  MaxIterations,   \* MaxIterations[a]: agents.max_iterations
  ToolKind,        \* ToolKind[t]: what t's schema and handler do, see ToolKinds
  Inputs,          \* the requests a client may send
  GlobalMax,       \* config.global_max_concurrency
  TenantMax,       \* config.per_tenant_max_concurrency
  FaultKinds,      \* which of "crash", "disconnect", "dberror" may happen
  MaxFaults        \* bound: how many of them may happen

\* How the tool treats the mock LLM's arguments, {"query": "iteration-<n>"} in
\* the n-th call of a run: accepts them and answers; its schema accepts those
\* of the first call only; its schema rejects them; its schema does not compile;
\* its mock_handler is not {"type": "static", "response": ...}.
ToolKinds == {"ok", "once", "rejects", "malformed", "nonstatic"}

\* tenant and agent: of the API key and of the path.  force: a user message
\* contains INVALID_TOOL_CALL_SENTINEL.  empty: the message list is empty.
InputType ==
  [tenant : Tenants, agent : Agents, key : Keys \cup {NoKey},
   force : BOOLEAN, empty : BOOLEAN]

ASSUME CatalogueAssumption ==
  /\ AgentTenant \in [Agents -> Tenants]
  /\ ToolTenant \in [Tools -> Tenants]
  /\ Bindings \in [Agents -> SUBSET Tools]
  /\ \A a \in Agents : \A t \in Bindings[a] : ToolTenant[t] = AgentTenant[a]
  /\ ToolKind \in [Tools -> ToolKinds]

\* CHECK (max_iterations BETWEEN 1 AND 50)
ASSUME IterationsAssumption == MaxIterations \in [Agents -> 1..50]

ASSUME InputAssumption == Inputs \subseteq InputType

\* from_env calls the limits positive, but accepts 0.
ASSUME LimitsAssumption == GlobalMax \in Nat /\ TenantMax \in Nat

ASSUME FaultAssumption ==
  FaultKinds \subseteq {"crash", "disconnect", "dberror"} /\ MaxFaults \in Nat

ASSUME NamesAssumption ==
  NilTool \notin Tools /\ FinalAnswer \notin Tools /\ NilTool # FinalAnswer

ASSUME FiniteAssumption == IsFiniteSet(Requests)

VARIABLES
  input,       \* input[q]: the request, one of Inputs
  pc,          \* pc[q]: where the handler or the task of q is suspended
  row,         \* row[q]: the row of runs that q inserted
  trace,       \* trace[q]: the rows of run_traces of that run, by seq
  loop,        \* loop[q]: the locals of execute_run
  cause,       \* cause[q]: the error_reason the chain is about to record
  permits,     \* permits[q]: the semaphore permits q owns
  resp,        \* resp[q]: what the client was answered, "none" before
  catalog,     \* catalog[t]: "absent", "active" or "deleted" (deleted_at)
  globalFree,  \* available permits of global_semaphore
  tenantFree,  \* tenantFree[n]: available permits of tenant_semaphores[n]
  faults       \* how many faults happened

vars == <<input, pc, row, trace, loop, cause, permits, resp, catalog,
          globalFree, tenantFree, faults>>

database  == <<row, trace>>
semaphores == <<permits, globalFree, tenantFree>>

HandlerPc ==
  {"insert", "conflict", "commit", "created", "schedule", "tenant",
   "rejectMark", "rejectDecision", "rejectEnd", "rejectReply"}

TaskPc ==
  {"begin", "accepted", "started", "load", "decide", "llm", "authorize",
   "bindings", "exec", "succeed", "fail", "endSuccess", "endFailed", "exit"}

ActivePc == HandlerPc \cup TaskPc

\* Nothing runs for the request any more: it returned, an error took the `?`
\* exit of execute_run before the run was finalized, a database error ended
\* it, the client went away, the process died.
OverPc == {"done", "gaveUp", "dbError", "dropped", "killed"}

Terminal == {"success", "failed"}

\* Local to one request: the tenant, and the (tenant, agent, key) of the index.
TenantOf(q) == input[q].tenant
ScopeOf(q)  == <<input[q].tenant, input[q].agent, input[q].key>>
SameScope(p, q) == input[q].key # NoKey /\ ScopeOf(p) = ScopeOf(q)

NoRow ==
  [status |-> "absent", answer |-> FALSE, reason |-> "none",
   started |-> FALSE, finished |-> FALSE]

NewRow == [NoRow EXCEPT !.status = "pending"]

NoLoop ==
  [first |-> NilTool, tool |-> NilTool, iteration |-> 1, results |-> 0,
   consumed |-> FALSE]

Init ==
  /\ input \in [Requests -> Inputs]
  /\ pc = [q \in Requests |-> "idle"]
  /\ row = [q \in Requests |-> NoRow]
  /\ trace = [q \in Requests |-> <<>>]
  /\ loop = [q \in Requests |-> NoLoop]
  /\ cause = [q \in Requests |-> "none"]
  /\ permits = [q \in Requests |-> {}]
  /\ resp = [q \in Requests |-> "none"]
  /\ catalog = [t \in Tools |->
                  IF \E a \in Agents : t \in Bindings[a] THEN "active" ELSE "absent"]
  /\ globalFree = GlobalMax
  /\ tenantFree = [n \in Tenants |-> TenantMax]
  /\ faults = 0

-------------------------------------------------------------------------------
(* The statements, the semaphores, and the shapes an action can have. *)

\* Seeded defect: AND status = 'running' in the WHERE clause.
MarkRunFailedIfRunning(r, reason) ==
  IF r.status = "running"
  THEN [r EXCEPT !.status = "failed", !.reason = reason, !.finished = TRUE] ELSE r

MarkRunFailed(r, reason) ==
  [r EXCEPT !.status = "failed", !.reason = reason, !.finished = TRUE]

BeginRunExecution(r) ==
  IF r.status = "pending" THEN [r EXCEPT !.status = "running", !.started = TRUE] ELSE r

\* Seeded defect: error_reason is not in the SET list.
FinalizeRunNoReason(r, status, answer, reason) ==
  [r EXCEPT !.status = status, !.answer = answer, !.finished = TRUE]

FinalizeRun(r, status, answer, reason) ==
  [r EXCEPT !.status = status, !.answer = answer, !.reason = reason, !.finished = TRUE]

Owns(q, kind) == IF kind \in permits[q] THEN 1 ELSE 0

\* Seeded defect: the global permit of a request refused for its tenant's limit
\* is forgotten instead of dropped.
ReleaseBothOrNone(q) ==
  /\ permits' = [permits EXCEPT ![q] = {}]
  /\ globalFree' = globalFree + Owns(q, "tenant")
  /\ tenantFree' = [tenantFree EXCEPT ![TenantOf(q)] = @ + Owns(q, "tenant")]

\* Dropping the OwnedSemaphorePermits q holds.
ReleasePermits(q) ==
  /\ permits' = [permits EXCEPT ![q] = {}]
  /\ globalFree' = globalFree + Owns(q, "global")
  /\ tenantFree' = [tenantFree EXCEPT ![TenantOf(q)] = @ + Owns(q, "tenant")]

Goto(q, from, to) == pc[q] = from /\ pc' = [pc EXCEPT ![q] = to]

\* Only the control moves.
Proceed(q, from, to) ==
  /\ Goto(q, from, to)
  /\ UNCHANGED <<input, database, loop, cause, semaphores, resp, catalog, faults>>

\* A statement on the row of the run.
Store(q, from, to, r) ==
  /\ Goto(q, from, to)
  /\ row' = [row EXCEPT ![q] = r]
  /\ UNCHANGED <<input, trace, loop, cause, semaphores, resp, catalog, faults>>

\* append_event: INSERT INTO run_traces with seq = MAX(seq) + 1.
AppendEvent(q, from, to, type, data) ==
  /\ Goto(q, from, to)
  /\ trace' = [trace EXCEPT ![q] = Append(@, [type |-> type, data |-> data])]
  /\ UNCHANGED <<input, row, loop, cause, semaphores, resp, catalog, faults>>

\* A branch that is going to record this error_reason.
FailWith(q, from, to, reason) ==
  /\ Goto(q, from, to)
  /\ cause' = [cause EXCEPT ![q] = reason]
  /\ UNCHANGED <<input, database, loop, semaphores, resp, catalog, faults>>

\* The handler or the task ends, its permits are dropped; code is the answer
\* of a handler, resp[q] for a task.
Finish(q, to, code) ==
  /\ pc' = [pc EXCEPT ![q] = to]
  /\ resp' = [resp EXCEPT ![q] = code]
  /\ ReleasePermits(q)
  /\ UNCHANGED <<input, database, loop, cause, catalog>>

Return(q, from, to, code) == pc[q] = from /\ Finish(q, to, code) /\ UNCHANGED faults

-------------------------------------------------------------------------------
(* The handler: start_run, create_or_get_run, schedule_run. *)

OwnAgent(q) == AgentTenant[input[q].agent] = TenantOf(q)

\* The agent is not one of the tenant's: 404 before anything is written.
RefuseAgent(q) == ~OwnAgent(q) /\ Return(q, "idle", "done", "not_found")

RefuseEmpty(q) ==
  OwnAgent(q) /\ input[q].empty /\ Return(q, "idle", "done", "bad_request")

Accept(q) == OwnAgent(q) /\ ~input[q].empty /\ Proceed(q, "idle", "insert")

\* Seeded defect: no unique index, an earlier SELECT looks for the scope.
InsertingUnseen(p) == FALSE

\* Seeded defect: the transaction of a handler that ended by an error or was
\* dropped is never rolled back.
InsertingForgotten(p) == pc[p] \in {"commit", "dbError", "dropped"}

\* uq_runs_idempotency.  An INSERT waits for a transaction that has inserted
\* the same scope and not ended; it fails on one that committed.
Inserting(p) == pc[p] = "commit"

Clashes(q) == \E p \in Requests : SameScope(p, q) /\ row[p].status # "absent"

InsertRun(q) ==
  /\ ~\E p \in Requests : SameScope(p, q) /\ Inserting(p)
  /\ Proceed(q, "insert", IF Clashes(q) THEN "conflict" ELSE "commit")

\* The SELECT of the existing run is sent in the transaction whose INSERT has
\* just failed: PostgreSQL refuses every statement of an aborted transaction,
\* the error becomes AppError::Db, and the client is answered 500.
SelectExisting(q) == Return(q, "conflict", "done", "internal_error")

CommitRun(q) == Store(q, "commit", "created", NewRow)

AppendRunCreated(q) == AppendEvent(q, "created", "schedule", "run_created", "pending")

\* try_acquire_owned never waits.
AcquireGlobal(q) ==
  /\ globalFree > 0
  /\ Goto(q, "schedule", "tenant")
  /\ globalFree' = globalFree - 1
  /\ permits' = [permits EXCEPT ![q] = {"global"}]
  /\ UNCHANGED <<input, database, loop, cause, tenantFree, resp, catalog, faults>>

\* Seeded defect: the rejection is traced and the row left alone.
RefuseGlobalUnmarked(q) ==
  globalFree = 0 /\ FailWith(q, "schedule", "rejectDecision", "scheduler_capacity_exceeded")

RefuseGlobal(q) ==
  globalFree = 0 /\ FailWith(q, "schedule", "rejectMark", "scheduler_capacity_exceeded")

\* Seeded defect: the tenant's semaphore is decremented, not tried.
AcquireTenantUntried(q) ==
  /\ Goto(q, "tenant", "begin")
  /\ tenantFree' = [tenantFree EXCEPT ![TenantOf(q)] = @ - 1]
  /\ permits' = [permits EXCEPT ![q] = @ \cup {"tenant"}]
  /\ resp' = [resp EXCEPT ![q] = "pending"]
  /\ UNCHANGED <<input, database, loop, cause, globalFree, catalog, faults>>

\* Seeded defect: the tenant permit is not moved into the task.
AcquireTenantDropped(q) ==
  /\ tenantFree[TenantOf(q)] > 0
  /\ Proceed(q, "tenant", "begin")

\* The second permit, tokio::spawn and the 200 follow without an .await.
AcquireTenant(q) ==
  /\ tenantFree[TenantOf(q)] > 0
  /\ Goto(q, "tenant", "begin")
  /\ tenantFree' = [tenantFree EXCEPT ![TenantOf(q)] = @ - 1]
  /\ permits' = [permits EXCEPT ![q] = @ \cup {"tenant"}]
  /\ resp' = [resp EXCEPT ![q] = "pending"]
  /\ UNCHANGED <<input, database, loop, cause, globalFree, catalog, faults>>

\* Seeded defect: the rejection is answered and not recorded.
RefuseTenantUnrecorded(q) ==
  /\ tenantFree[TenantOf(q)] = 0
  /\ FailWith(q, "tenant", "rejectReply", "tenant_concurrency_limit_exceeded")

\* The global permit stays in scope until schedule_run returns.
RefuseTenant(q) ==
  /\ tenantFree[TenantOf(q)] = 0
  /\ FailWith(q, "tenant", "rejectMark", "tenant_concurrency_limit_exceeded")

\* fail_run_before_start, and the 503 or 429.
MarkRejected(q) ==
  Store(q, "rejectMark", "rejectDecision", MarkRunFailed(row[q], cause[q]))

AppendRejected(q) ==
  AppendEvent(q, "rejectDecision", "rejectEnd", "scheduler_decision", cause[q])

AppendRejectedEnd(q) == AppendEvent(q, "rejectEnd", "rejectReply", "run_end", "failed")

RejectReply(q) == Return(q, "rejectReply", "done", cause[q])

-------------------------------------------------------------------------------
(* The task: execute_run.  Run, agent, bindings and messages are immutable, *)
(* so one action reads them all, and only the first tool matters.           *)

BeginExecution(q) ==
  Store(q, "begin", IF row[q].status = "pending" THEN "accepted" ELSE "exit",
        BeginRunExecution(row[q]))

AppendAccepted(q) == AppendEvent(q, "accepted", "started", "scheduler_decision", "accepted")

AppendRunStarted(q) == AppendEvent(q, "started", "load", "run_started", "running")

BoundTools(q) == Bindings[input[q].agent]

\* list_agent_tools orders by agent_tools.created_at, the same for all the
\* tools of an agent: any of them may come first.
Load(q) ==
  /\ Goto(q, "load", "decide")
  /\ \E t \in IF BoundTools(q) = {} THEN {NilTool} ELSE BoundTools(q) :
       loop' = [loop EXCEPT ![q] = [@ EXCEPT !.first = t]]
  /\ UNCHANGED <<input, database, cause, semaphores, resp, catalog, faults>>

-------------------------------------------------------------------------------
(* One iteration: the mock LLM decides, the decision is traced, and a tool *)
(* call is authorised, executed and traced.                                *)

\* The loop locals after the decision to call t, or to answer.
Decided(l, t, force) == [l EXCEPT !.tool = t, !.consumed = @ \/ force]

Decide(q, t) ==
  /\ Goto(q, "decide", "llm")
  /\ loop' = [loop EXCEPT ![q] = Decided(@, t, input[q].force)]
  /\ UNCHANGED <<input, database, cause, semaphores, resp, catalog, faults>>

Forced(q) == input[q].force /\ ~loop[q].consumed

UnboundActive(q) ==
  {t \in Tools \ BoundTools(q) : ToolTenant[t] = TenantOf(q) /\ catalog[t] = "active"}

DecideForced(q) ==
  /\ Forced(q)
  /\ \E t \in IF UnboundActive(q) = {} THEN {NilTool} ELSE UnboundActive(q) :
       Decide(q, t)

DecideTool(q) ==
  ~Forced(q) /\ loop[q].results < 2 /\ BoundTools(q) # {} /\ Decide(q, loop[q].first)

DecideFinal(q) == ~Forced(q) /\ loop[q].results >= 2 /\ Decide(q, FinalAnswer)

\* bound_tools.first() is None, and the error leaves execute_run by `?`:
\* nothing is recorded.
NoToolToCall(q) ==
  /\ ~Forced(q) /\ loop[q].results < 2 /\ BoundTools(q) = {}
  /\ Return(q, "decide", "gaveUp", resp[q])

\* Seeded defect: the decision is traced in the tool branch only.
AppendLlmCallForTools(q) ==
  IF loop[q].tool = FinalAnswer
  THEN Proceed(q, "llm", "succeed")
  ELSE AppendEvent(q, "llm", "authorize", "llm_call", loop[q].tool)

AppendLlmCall(q) ==
  AppendEvent(q, "llm", IF loop[q].tool = FinalAnswer THEN "succeed" ELSE "authorize",
              "llm_call", loop[q].tool)

\* authorize_tool_call, first await: get_tool.
Found(q, t) ==
  t \in Tools /\ ToolTenant[t] = TenantOf(q) /\ catalog[t] # "absent"

ToolNotFound(q) ==
  /\ ~Found(q, loop[q].tool)
  /\ FailWith(q, "authorize", "fail", "tool_not_allowed_for_agent")

ToolIsDeleted(q) ==
  /\ Found(q, loop[q].tool) /\ catalog[loop[q].tool] = "deleted"
  /\ FailWith(q, "authorize", "fail", "tool_deleted")

\* Seeded defect: deleted_at is not looked at.
ToolIsThere(q) == Found(q, loop[q].tool) /\ Proceed(q, "authorize", "bindings")

ToolIsActive(q) ==
  /\ Found(q, loop[q].tool) /\ catalog[loop[q].tool] = "active"
  /\ Proceed(q, "authorize", "bindings")

\* Second await: get_agent_tool_ids, then validation and handler run at once.
ToolNotBound(q) ==
  /\ loop[q].tool \notin BoundTools(q)
  /\ FailWith(q, "bindings", "fail", "tool_not_allowed_for_agent")

\* The loop's tool is bound and its schema and handler behave like kind.
BoundOfKind(q, kind) == loop[q].tool \in BoundTools(q) /\ ToolKind[loop[q].tool] = kind

\* The kinds whose schema accepts, or rejects, the call that is being made.
Accepting(q) == {"ok"} \cup IF loop[q].results = 0 THEN {"once"} ELSE {}
Rejecting(q) == {"rejects", "once"} \ Accepting(q)

SchemaRefuses(q) ==
  \/ /\ \E kind \in Rejecting(q) : BoundOfKind(q, kind)
     /\ FailWith(q, "bindings", "fail", "invalid_tool_arguments")
  \/ BoundOfKind(q, "malformed") /\ FailWith(q, "bindings", "fail", "invalid input schema")

\* execute_mock_handler fails, and its error takes the `?` exit.
HandlerRefuses(q) ==
  BoundOfKind(q, "nonstatic") /\ Return(q, "bindings", "gaveUp", resp[q])

\* Seeded defect: the bindings are read and not consulted.
ExecuteToolUnbound(q) == Proceed(q, "bindings", "exec") /\ ToolKind[loop[q].tool] = "ok"

ExecuteTool(q) ==
  /\ \E kind \in Accepting(q) : BoundOfKind(q, kind)
  /\ Proceed(q, "bindings", "exec")

\* Seeded defect: the loop runs once more than max_iterations.
LastIterationPassed(q) == loop[q].iteration > MaxIterations[input[q].agent]

LastIteration(q) == loop[q].iteration = MaxIterations[input[q].agent]

Counted(l) == [l EXCEPT !.results = @ + 1, !.iteration = @ + 1]

AppendToolExec(q) ==
  /\ Goto(q, "exec", IF LastIteration(q) THEN "fail" ELSE "decide")
  /\ trace' = [trace EXCEPT ![q] = Append(@, [type |-> "tool_exec", data |-> loop[q].tool])]
  /\ loop' = [loop EXCEPT ![q] = Counted(@)]
  /\ cause' = [cause EXCEPT ![q] = IF LastIteration(q) THEN "max_iterations_exceeded" ELSE @]
  /\ UNCHANGED <<input, row, semaphores, resp, catalog, faults>>

FinalizeSuccess(q) ==
  Store(q, "succeed", "endSuccess", FinalizeRun(row[q], "success", TRUE, "none"))

AppendSuccessEnd(q) == AppendEvent(q, "endSuccess", "exit", "run_end", "success")

FinalizeFailed(q) ==
  Store(q, "fail", "endFailed", FinalizeRun(row[q], "failed", FALSE, cause[q]))

\* Seeded defect: no return after the run_end of a refused call.
AppendFailedEndFallsThrough(q) == AppendEvent(q, "endFailed", "exec", "run_end", "failed")

AppendFailedEnd(q) == AppendEvent(q, "endFailed", "exit", "run_end", "failed")

Exit(q) == Return(q, "exit", "done", resp[q])

-------------------------------------------------------------------------------
(* Tools come and go while runs execute; faults. *)

SetTool(t, from, to) ==
  /\ catalog[t] = from
  /\ catalog' = [catalog EXCEPT ![t] = to]
  /\ UNCHANGED <<input, pc, database, loop, cause, semaphores, resp, faults>>

CreateTool(t) == SetTool(t, "absent", "active")

DeleteTool(t) == SetTool(t, "active", "deleted")

Fault(kind) ==
  /\ kind \in FaultKinds
  /\ faults < MaxFaults
  /\ faults' = faults + 1

\* A database call returns an error (pool timeout, lost connection, ...): the
\* `?` ends the handler, which answers 500, or the task, which only logs.
\* Taken where q is suspended before a statement it stands for one that was
\* not applied, and after a statement for one that was, its answer lost.  At
\* "tenant" and "bindings" no statement is pending whose error `?` propagates.
DbError(q) ==
  /\ Fault("dberror")
  /\ pc[q] \in ActivePc \ {"tenant", "bindings"}
  /\ Finish(q, "dbError", IF pc[q] \in HandlerPc THEN "internal_error" ELSE resp[q])

\* The statement that fails is in authorize_tool_call: its error is caught like
\* a refusal, and the run is going to be finalized for it.
AuthorizeError(q) ==
  /\ Fault("dberror")
  /\ pc[q] \in {"authorize", "bindings"}
  /\ pc' = [pc EXCEPT ![q] = "fail"]
  /\ cause' = [cause EXCEPT ![q] = "internal_error"]
  /\ UNCHANGED <<input, database, loop, semaphores, resp, catalog>>

\* Seeded defect: the handler returns its permits itself, by a last statement
\* that a dropped future never reaches.
DisconnectKeeps(q) ==
  /\ Fault("disconnect")
  /\ pc[q] \in HandlerPc
  /\ pc' = [pc EXCEPT ![q] = "dropped"]
  /\ UNCHANGED <<input, database, semaphores, loop, cause, resp, catalog>>

\* The client closes the connection: the handler's future is dropped where it
\* is suspended, with its permits and its open transaction.  A spawned task
\* does not notice.
Disconnect(q) ==
  /\ Fault("disconnect")
  /\ pc[q] \in HandlerPc
  /\ Finish(q, "dropped", resp[q])

\* The process dies and is started again: committed rows are all that is left,
\* main creates fresh semaphores and looks at no run.
Crash ==
  /\ Fault("crash")
  /\ \E q \in Requests : pc[q] \in ActivePc
  /\ pc' = [q \in Requests |-> IF pc[q] \in ActivePc THEN "killed" ELSE pc[q]]
  /\ permits' = [q \in Requests |-> {}]
  /\ globalFree' = GlobalMax
  /\ tenantFree' = [n \in Tenants |-> TenantMax]
  /\ UNCHANGED <<input, database, loop, cause, resp, catalog>>

-------------------------------------------------------------------------------
Receive(q) == RefuseAgent(q) \/ RefuseEmpty(q) \/ Accept(q)

HandlerStep(q) ==
  \/ InsertRun(q) \/ SelectExisting(q) \/ CommitRun(q) \/ AppendRunCreated(q)
  \/ AcquireGlobal(q) \/ RefuseGlobal(q) \/ AcquireTenant(q) \/ RefuseTenant(q)
  \/ MarkRejected(q) \/ AppendRejected(q) \/ AppendRejectedEnd(q) \/ RejectReply(q)

TaskStep(q) ==
  \/ BeginExecution(q) \/ AppendAccepted(q) \/ AppendRunStarted(q) \/ Load(q)
  \/ DecideForced(q) \/ DecideTool(q) \/ DecideFinal(q) \/ NoToolToCall(q)
  \/ AppendLlmCall(q)
  \/ ToolNotFound(q) \/ ToolIsDeleted(q) \/ ToolIsActive(q)
  \/ ToolNotBound(q) \/ SchemaRefuses(q) \/ HandlerRefuses(q) \/ ExecuteTool(q)
  \/ AppendToolExec(q)
  \/ FinalizeSuccess(q) \/ AppendSuccessEnd(q)
  \/ FinalizeFailed(q) \/ AppendFailedEnd(q) \/ Exit(q)

\* Every request is over: nothing is left to do.
Terminating == (\A q \in Requests : pc[q] \in OverPc) /\ UNCHANGED vars

Next ==
  \/ \E q \in Requests :
       \/ Receive(q) \/ HandlerStep(q) \/ TaskStep(q)
       \/ DbError(q) \/ AuthorizeError(q) \/ Disconnect(q)
  \/ \E t \in Tools : CreateTool(t) \/ DeleteTool(t)
  \/ Crash
  \/ Terminating

Spec == Init /\ [][Next]_vars

\* A future that is ready is polled, and a database call returns: each chain
\* that can take a step eventually does.  Nothing obliges clients to send
\* requests, tools to change or faults to happen.
Fairness == \A q \in Requests : WF_vars(HandlerStep(q) \/ TaskStep(q))

FairSpec == Spec /\ Fairness

-------------------------------------------------------------------------------
(* Properties. *)

Reasons ==
  {"none", "scheduler_capacity_exceeded", "tenant_concurrency_limit_exceeded",
   "tool_not_allowed_for_agent", "tool_deleted", "invalid_tool_arguments",
   "invalid input schema", "max_iterations_exceeded", "internal_error"}

EventType ==
  [type : {"run_created", "scheduler_decision", "run_started", "llm_call",
           "tool_exec", "run_end"},
   data : {"pending", "accepted", "running", "success", "failed", NilTool, FinalAnswer}
            \cup Reasons \cup Tools]

PcType == {"idle"} \cup ActivePc \cup OverPc

RespType ==
  Reasons \cup {"pending", "bad_request", "not_found"}

RowType ==
  [status : {"absent", "pending", "running"} \cup Terminal, answer : BOOLEAN,
   reason : Reasons, started : BOOLEAN, finished : BOOLEAN]

LoopType ==
  [first : Tools \cup {NilTool}, tool : Tools \cup {NilTool, FinalAnswer},
   iteration : Nat, results : Nat, consumed : BOOLEAN]

\* Every variable stays in its type; in particular no semaphore ever has a
\* negative number of permits.
TypeOK ==
  /\ input \in [Requests -> Inputs]
  /\ pc \in [Requests -> PcType]
  /\ row \in [Requests -> RowType]
  /\ trace \in [Requests -> Seq(EventType)]
  /\ loop \in [Requests -> LoopType]
  /\ cause \in [Requests -> Reasons]
  /\ permits \in [Requests -> SUBSET {"global", "tenant"}]
  /\ resp \in [Requests -> RespType]
  /\ catalog \in [Tools -> {"absent", "active", "deleted"}]
  /\ globalFree \in Nat
  /\ tenantFree \in [Tenants -> Nat]
  /\ faults \in 0..MaxFaults

Holders(kind) == {q \in Requests : kind \in permits[q]}
TenantHolders(n) == {q \in Holders("tenant") : TenantOf(q) = n}

\* No permit is leaked or returned twice, whichever way the handler or the
\* task ends (reply, `?`, dropped future, restart): what is free and what is
\* held add up to the configured limits.
PermitAccounting ==
  /\ globalFree + Cardinality(Holders("global")) = GlobalMax
  /\ \A n \in Tenants : tenantFree[n] + Cardinality(TenantHolders(n)) = TenantMax

Executing == {q \in Requests : pc[q] \in TaskPc}

\* At most GlobalMax runs execute, and at most TenantMax of one tenant.
ConcurrencyBound ==
  /\ Cardinality(Executing) <= GlobalMax
  /\ \A n \in Tenants :
       Cardinality({q \in Executing : TenantOf(q) = n}) <= TenantMax

Types(q) == [i \in DOMAIN trace[q] |-> trace[q][i].type]
Events(q, type) == {i \in DOMAIN trace[q] : trace[q][i].type = type}
HasEnd(q) == Events(q, "run_end") # {}

\* What the client was told stays true of the database: a 503 or 429 means
\* the run is recorded as failed for that reason, with its decision and its
\* run_end, and nothing of it was executed; a 200 means the run exists and was
\* admitted; a 400 or 404 left nothing behind.
ResponseTruth ==
  \A q \in Requests :
    /\ resp[q] \in {"scheduler_capacity_exceeded", "tenant_concurrency_limit_exceeded"} =>
         /\ row[q].status = "failed" /\ row[q].reason = resp[q] /\ ~row[q].started
         /\ Types(q) = <<"run_created", "scheduler_decision", "run_end">>
         /\ trace[q][2].data = resp[q]
    /\ resp[q] = "pending" =>
         /\ row[q].status # "absent" /\ row[q].reason # "scheduler_capacity_exceeded"
         /\ row[q].reason # "tenant_concurrency_limit_exceeded"
    /\ resp[q] \in {"bad_request", "not_found"} => row[q].status = "absent"

\* Where event i of an executed run may stand: llm_call and tool_exec
\* alternate from the fourth event on, a tool_exec is of the tool the llm_call
\* before it named, and run_end closes the trace, with success exactly after
\* the final answer.
LegalStep(s, i) ==
  \/ i % 2 = 0 /\ s[i].type = "llm_call"
  \/ i % 2 = 1 /\ s[i].type = "tool_exec" /\ s[i].data = s[i - 1].data
  \/ /\ s[i].type = "run_end" /\ i = Len(s)
     /\ s[i].data = "success" <=> s[i - 1].data = FinalAnswer

\* The order of a run's trace is legal in every state, so a reader polling
\* GET /runs/{id}/trace always sees a prefix of a legal history.
LegalTrace ==
  \A q \in Requests : LET s == trace[q] IN
    /\ Len(s) >= 1 => s[1].type = "run_created"
    /\ Len(s) >= 2 => s[2].type = "scheduler_decision"
    /\ Len(s) >= 3 => s[3].type = IF s[2].data = "accepted" THEN "run_started" ELSE "run_end"
    /\ Len(s) >= 4 => s[2].data = "accepted"
    /\ \A i \in 4..Len(s) : LegalStep(s, i)

\* An executed tool is bound to the run's agent, belongs to its tenant and has
\* a schema that accepts that very call, the first of the run or a later one; a
\* run that asked for the invalid call never executes any tool and never succeeds.
ToolExecAuthorised ==
  \A q \in Requests :
    /\ \A i \in Events(q, "tool_exec") : LET t == trace[q][i].data IN
         /\ t \in BoundTools(q) /\ ToolTenant[t] = TenantOf(q)
         /\ \/ ToolKind[t] = "ok"
            \/ /\ ToolKind[t] = "once"
               /\ \A j \in Events(q, "tool_exec") : i <= j
    /\ input[q].force => Events(q, "tool_exec") = {} /\ row[q].status # "success"

\* Once a tool is deleted, a run that is not already past the check of
\* deleted_at never executes it, however long the run goes on.
DeletedToolUnused ==
  \A q \in Requests : \A t \in Tools :
    [](catalog[t] = "deleted" /\ pc[q] \notin {"bindings", "exec"}
         => [](pc[q] = "exec" => loop[q].tool # t))

\* The mock is deterministic: a run succeeds after exactly two tool calls and
\* the answer, which takes three iterations, and it runs out of iterations
\* exactly when it made as many tool calls as the agent allows, fewer than 3.
MockOutcome ==
  \A q \in Requests :
    LET calls == Cardinality(Events(q, "llm_call"))
        execs == Cardinality(Events(q, "tool_exec"))
        limit == MaxIterations[input[q].agent]
    IN /\ calls <= limit /\ execs <= 2
       /\ row[q].status = "success" => execs = 2 /\ calls = 3
       /\ row[q].reason = "max_iterations_exceeded" => execs = limit /\ limit < 3

\* The columns of a row fit together: an answer with success only, a reason
\* with failed only, finished_at with the terminal states, started_at with
\* every run that was executed and no run the scheduler refused.
RowCoherent ==
  \A q \in Requests : LET r == row[q] IN
    /\ r.answer <=> r.status = "success"
    /\ r.reason # "none" <=> r.status = "failed"
    /\ r.finished <=> r.status \in Terminal
    /\ r.status \in {"running", "success"} => r.started
    /\ r.started => r.reason \notin {"scheduler_capacity_exceeded",
                                     "tenant_concurrency_limit_exceeded"}

\* Two requests with the same tenant, agent and Idempotency-Key never leave two
\* runs behind, even when they race, fail or are retried.
IdempotentScope ==
  \A p, q \in Requests :
    p # q /\ SameScope(p, q) => row[p].status = "absent" \/ row[q].status = "absent"

\* A chain that returns normally leaves no run half way: the row is terminal
\* and the trace ends in run_end with that status (or there is no run at all).
DoneIsSettled ==
  \A q \in Requests :
    pc[q] = "done" /\ row[q].status # "absent" =>
      /\ row[q].status \in Terminal
      /\ trace[q][Len(trace[q])] = [type |-> "run_end", data |-> row[q].status]

\* A finished row is never written again: no second finalize, no rejection
\* after an execution, no execution after a rejection.
FinishedRowImmutable ==
  [][\A q \in Requests : row[q].status \in Terminal => row'[q] = row[q]]_row

\* With the permits of a run come their return, whatever fails meanwhile.
PermitsReturned ==
  \A q \in Requests : (permits[q] # {}) ~> (permits[q] = {})

\* A fault hit the chain of q itself.
Interrupted(q) == pc[q] \in {"dbError", "dropped", "killed"}

\* Every request that was accepted comes to an end, its own or by a fault:
\* none waits for ever on another's open transaction or for a permit.
RequestEnds == \A q \in Requests : (pc[q] \in ActivePc) ~> (pc[q] \in OverPc)

\* Every run that is created reaches a terminal status and its run_end is
\* published, unless a fault hit its own chain: what is left half way by a
\* disconnect, an error or a restart is that run and never another one.
RunSettles ==
  \A q \in Requests :
    (row[q].status # "absent") ~>
      \/ row[q].status \in Terminal /\ HasEnd(q)
      \/ Interrupted(q)

\* How far a chain is from its end, an iteration of the loop being five steps.
Looping ==
  {"idle", "insert", "commit", "created", "schedule", "tenant", "begin", "accepted",
   "started", "load", "decide", "llm", "authorize", "bindings", "exec"}

StepsFrom(p) ==
  CASE p = "idle" -> 18
    [] p = "insert" -> 17
    [] p = "commit" -> 16
    [] p = "created" -> 15
    [] p = "schedule" -> 14
    [] p = "tenant" -> 13
    [] p = "begin" -> 12
    [] p = "accepted" -> 11
    [] p = "started" -> 10
    [] p = "load" -> 9
    [] p = "decide" -> 8
    [] p = "llm" -> 7
    [] p = "authorize" -> 6
    [] p = "bindings" -> 5
    [] p \in {"exec", "rejectMark"} -> 4
    [] p \in {"succeed", "fail", "rejectDecision"} -> 3
    [] p \in {"endSuccess", "endFailed", "rejectEnd"} -> 2
    [] p \in {"exit", "rejectReply", "conflict"} -> 1
    [] OTHER -> 0

StepsLeft(q) ==
  StepsFrom(pc[q]) + IF pc[q] \in Looping
                     THEN 5 * (MaxIterations[input[q].agent] - loop[q].iteration) ELSE 0

\* start_run and execute_run end: whatever a chain does to its run brings it
\* closer to its end, in every iteration, on every refusal and after every
\* fault, so it sends a bounded number of statements.
BoundedChain ==
  [][\A q \in Requests :
       <<pc[q], row[q], trace[q]>>' # <<pc[q], row[q], trace[q]>> =>
         StepsLeft(q)' \in 0..(StepsLeft(q) - 1)]_vars

\* RunService implements RunLifecycle.
Published(q) == IF HasEnd(q) THEN trace[q][Len(trace[q])].data ELSE "none"

Lifecycle == INSTANCE RunLifecycle WITH
  Runs <- Requests,
  Unscoped <- <<>>,
  scope <- [q \in Requests |-> IF input[q].key = NoKey THEN <<>> ELSE ScopeOf(q)],
  status <- [q \in Requests |-> row[q].status],
  runEnd <- [q \in Requests |-> Published(q)]

\* A client observes of each run only what RunLifecycle allows.
ImplementsLifecycle == Lifecycle!Spec

===============================================================================
