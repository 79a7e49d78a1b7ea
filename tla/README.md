# Verification of the multi-tenant agent platform

TLA+ models, TLC runs and TLAPS proofs about `platform-server` (`server/src/`),
the HTTP service that runs tenants' agents against a deterministic mock LLM, and
about `platform-demo` (`demo/src/`), its command-line client. Paths below are
relative to the repository root.

Contents: [the system](#1-the-system) · [modules](#2-modules-and-how-they-correspond-to-the-code) ·
[runs](#3-what-the-runs-show) · [findings](#4-findings) · [proofs](#5-what-is-proved) ·
[limits](#6-what-is-only-model-checked-and-what-is-not-modelled) · [plan](#7-plan)

## 1. The system

One process serves HTTP with axum over one PostgreSQL database. A tenant registers
tools (a JSON schema and a canned answer), creates agents bound to some of its
tools, and starts runs. A run is created and admitted inside the request that
starts it, then executed by a spawned task that outlives the request. Nothing else
runs in the background: no queue, no retry worker, no recovery at start-up.

| Component | Source | State | Operations |
|---|---|---|---|
| Run intake | `server/src/http.rs` `start_run`, `db.rs` `create_or_get_run` | `runs` rows, unique index `uq_runs_idempotency` | insert or find the run of an idempotency key, append `run_created`, schedule, answer |
| Scheduler | `runtime.rs` `schedule_run`, `fail_run_before_start`, `get_tenant_semaphore`; `app.rs` `AppState` | a global semaphore and a map of per-tenant semaphores, in memory | try both without waiting; spawn, or record the rejection |
| Execution loop | `runtime.rs` `execute_run`; `db.rs` `begin_run_execution`, `finalize_run` | loop locals, the run's row | claim the run, iterate, finalize |
| Mock LLM | `runtime.rs` `mock_llm_decision`; `db.rs` `find_unbound_active_tool` | none | call the first bound tool twice, then answer; one forced invalid call on demand |
| Tool authorisation and execution | `runtime.rs` `authorize_tool_call`, `validate_tool_arguments`, `execute_mock_handler` | none (reads `tools`, `agent_tools`) | accept, refuse with a reason, answer |
| Trace log | `trace.rs` `append_event`; `http.rs` `get_trace` | `run_traces` rows | append with `seq = MAX(seq) + 1`; list |
| Tool catalogue | `http.rs` `create_tool`, `list_tools`, `delete_tool` | `tools` rows, soft deletion | create, list, delete |
| Agents | `http.rs` `create_agent`, `get_agent`; `db.rs` | `agents`, `agent_tools` rows | create with bindings in one transaction, read |
| Tenants and API keys | `http.rs`, `auth.rs` | `tenants`, `api_keys` rows | create; authenticate by prefix and Argon2 hash |
| Run queries | `http.rs` `get_run`, `get_trace` | none | read by tenant |
| Errors, configuration, start-up, DTOs | `error.rs`, `config.rs`, `main.rs`, `crates/platform-core` | none | mapping to HTTP, environment, router |
| Demo client | `demo/src/` | none | create everything, start a run, poll until it ends |

**How they interact.** A handler authenticates (one query and one hash), then calls
`db::*` and `trace::append_event`, each a statement of its own on a pooled
connection; only `create_agent` and `create_or_get_run` open a transaction. The
handler of a run and the task it spawns share nothing but the database and the two
permits, which the scheduler moves into the task. Requests meet each other in few
places: the unique indexes (idempotency scope, names, key prefixes, `seq`), the
semaphores, and the `tools` rows that a deletion changes while a run or the creation
of an agent is between two reads of them. The demo client sends one request after the
other and sees of the server only the answers.

**What is hard here.** Every `.await` in `start_run` and `execute_run` is a point
where the other requests run, where a statement can fail, where the client's
disconnect drops the handler, or where the process dies. A run's status and its
trace are separate statements, so each of these leaves something half written.
Status changes in `mark_run_failed` and `finalize_run` carry no
`WHERE status = ...`: only the control flow keeps the lifecycle legal. Permits are
returned by dropping values, on a dozen exits.

**What makes each component correct.**

- Intake: one run per (tenant, agent, key), whatever races or fails; the answer
  given to the client agrees with the database.
- Scheduler: limits are never exceeded, no permit leaks or is returned twice, a
  rejected run is recorded and never executed.
- Execution loop: the row follows `pending -> running -> success | failed`; a
  finished row is never rewritten; the columns fit together; the run ends.
- Tools: an executed tool is bound, of the same tenant, accepted by its schema, and
  not deleted as far as the check that precedes it can tell.
- Trace: a legal history at every moment, closed by exactly one `run_end` that
  agrees with the row.
- Catalogue, agents, tenants, keys: isolation between tenants; an agent has all of
  its tools or does not exist; no binding of a foreign tool, nor of one deleted
  before the agent was asked for; names unique whatever overlaps.
- Demo client: what `runs wait` prints is final; it gives up only in time and never
  on a run that had ended; it ends although the run may not.

## 2. Modules, and how they correspond to the code

| Module | What it is |
|---|---|
| `RunLifecycle` | abstract: what a client polling a run may observe |
| `RunService` | intake, scheduler, execution loop, mock LLM, tool authorisation, deletions and faults; its properties; implements `RunLifecycle` |
| `AppendLog` | abstract: an append-only log per run and its readers |
| `TraceLog` | `append_event` as PostgreSQL executes it, with several writers and lost connections; implements `AppendLog` |
| `TenantStores` | abstract: each tenant has a store of its own, changed by whole operations |
| `Catalogue` | tenants, keys, authentication, tools, agents, the queries by tenant, over shared tables; implements `TenantStores` |
| `DemoClient` | `runs start`, `runs wait` and `runs trace` of the demo program, composed with `RunLifecycle` as the server |
| `RunClaims`, `CatalogueClaims` | statements of the repository's documents that the code does not satisfy |
| `MCRunService`, `MCTraceLog`, `MCCatalogue`, `MCDemoClient` | instances for the `.cfg` files |
| `RunServiceProofs`, `RunCapacityProofs`, `RunLifecycleProofs`, `RunOutcomeProofs` | proofs about `RunService`: types; permits and limits; immutability, scope, settled runs and refinement; rows, answers, traces, executed tools and bounded length |
| `TraceLogProofs`, `CatalogueProofs`, `CatalogueStoresProofs`, `DemoClientProofs` | proofs about these modules: types, invariants and refinements |

The modules meet where the components do. `RunService` takes over where `Catalogue`'s
`start_run` has inserted its run, and appends to a trace in one step, which `TraceLog`
justifies: a run has one writer at a time, and `SoleWriterNeverConflicts`. `DemoClient`
uses of the server only `RunLifecycle`, which `RunService` is proved to implement.

### RunService

A *request* is the whole chain from the handler to the task it spawns; the task
starts exactly where the handler stops touching the run, so one control variable
`pc[q]` serves both. It names the point where the chain is suspended, and an action
runs from one `.await` to the next, so it contains at most one statement:

| `pc` | suspended before | source |
|---|---|---|
| `idle` | authentication, `get_agent`, the checks on the body | `http.rs:178-194` |
| `insert`, `commit`, `conflict` | INSERT, COMMIT, the SELECT after a conflict | `db.rs:311-353` |
| `created` | append `run_created` | `http.rs:206-214` |
| `schedule`, `tenant` | the two `try_acquire_owned` (a mutex lock between them) | `runtime.rs:15-43` |
| `rejectMark` .. `rejectReply` | `fail_run_before_start`, then the 503 or 429 | `runtime.rs:56-74` |
| `begin`, `accepted`, `started`, `load` | claim, two events, three reads | `runtime.rs:83-113` |
| `decide`, `llm` | `mock_llm_decision`, append `llm_call` | `runtime.rs:119-140` |
| `authorize`, `bindings` | `get_tool`, `get_agent_tool_ids` | `runtime.rs:303-318` |
| `exec` | append `tool_exec` (the handler itself does not wait) | `runtime.rs:189-207` |
| `succeed`, `fail`, `endSuccess`, `endFailed` | `finalize_run`, append `run_end` | `runtime.rs:143-187, 212-228` |
| `exit` | dropping the permits | `runtime.rs:229` |

`row[q]` is the row of `runs` that `q` inserted, `trace[q]` its `run_traces` rows in
`seq` order, `permits[q]` the `OwnedSemaphorePermit`s it holds, `resp[q]` what the
client was answered, `cause[q]` the `error_reason` of the branch being taken and
`loop[q]` the locals of `execute_run`. `catalog` holds `tools.deleted_at`, the two
`*Free` variables the semaphores.

Points of translation that a reader may want to check:

- The INSERT waits for an open transaction that has inserted the same scope, and
  fails if one committed (`InsertRun`). The code then sends the SELECT *in the
  transaction that has just failed*, which PostgreSQL refuses (25P02), so the
  branch that returns the existing run is never completed (`SelectExisting`,
  finding 1).
- Errors in `execute_run` leave by `?` without touching the row, except those of
  `authorize_tool_call` and `validate_tool_arguments`, which are caught and finalize
  the run. A database error *inside* `authorize_tool_call` is therefore recorded as
  `internal_error` (`AuthorizeError`), while one anywhere else is not (`DbError`).
- `list_agent_tools` sorts by `agent_tools.created_at`, which is `now()` of one
  transaction and so the same for all bindings of an agent; the order, and thus the
  first tool, is not determined (`Load`). `find_unbound_active_tool` takes the oldest
  candidate; the model does not keep ages and takes any.
- `ToolKind` says what a tool's schema and handler do with the mock's calls. The
  arguments differ from call to call (`iteration-0`, `iteration-1`) and the schema is
  tried anew each time, so one kind, `once`, accepts the first call of a run only.
- A database error before a statement means it was not applied, after one means that
  it was and the answer was lost. `Crash` keeps the committed rows only;
  `Disconnect` drops the handler and its open transaction, and does not reach a
  spawned task.
- Tenants, agents and bindings are constants: no operation changes them after
  creation. Only deletions and creations of tools happen during the runs.

### TraceLog

`append_event` is one statement but not one step. `Snapshot` evaluates
`COALESCE(MAX(seq), 0) + 1` on the committed rows, `Insert` enters the row in the
unique index, waiting for an open INSERT of the same `(run_id, seq)` (`Waits`),
`Conflict` is the error if that one committed, `Commit` makes the row visible, `Reply`
returns Ok. `pc[w]` names the next of these: `ready`, `insert`, `commit`, `reply`; a
writer that met an error stops in `conflict` or `lost`, since every caller leaves by
`?`. `Lose` is the connection failing at any point: after the commit only the answer
is lost. `view[c]` is the last answer of `get_trace` to a polling client. `ORDER BY seq`
puts a row where the number of rows up to it says (`Position`, `OrderedTrace`): a
definition without recursion, so that it can be proved about.

### Catalogue

A request `q` is a client's call and the handler that serves it; rows are named after
the request that inserted them. `input[q]` is what it asks, with the key it presents
and whether the token is genuine; `session[q]` the tenant `authenticate` found;
`told[q]` the ids in the answer. `pc[q]` is the statement the handler sends next:

| `pc` | statement | source |
|---|---|---|
| `idle` | the key by its prefix, then the hash; or a handler without credentials | `auth.rs:16-36`, `http.rs:27-50` |
| `handle` | the first statement of the handler | `http.rs:52-279` |
| `check`, `bind`, `commit` | `SELECT EXISTS` of the next tool, INSERT of its binding, COMMIT | `db.rs:220-255` |
| `bindings` | `get_agent_tool_ids` for the answer | `db.rs:282-302` |
| `run` | INSERT of the run, after `get_agent` and the checks of `start_run` | `db.rs:304-333` |

`create_agent` holds its transaction open from the INSERT of the agent to the COMMIT.
Its rows are not in the tables until `CommitAgent`; until then they are visible to
nobody but the unique index on names, which makes another INSERT wait (`AwaitsName`).
What a statement does to the tables (`ToolInserted`, `AgentCommitted`, ...) is an
operator apart from what the client is told, because the two may part. A fault ends the
handler where it is suspended and rolls its transaction back, in one of three ways:
`DbError` is a statement that fails and is not done, answered 500 `internal_error` by
`?`; `Interrupt` is a disconnect or a lost process, and nobody is answered; `LostAnswer`
is a COMMIT, or an INSERT or UPDATE without a transaction, that takes effect while the
handler gets an error instead of its result, or is gone. So a 500 says nothing of what
exists: after `db.rs:254`, or when `get_agent_tool_ids` (`http.rs:139`) fails, the agent
is there. That it is there whole, with the tools asked for, is `WholeAgents`.
What happens to a run after its INSERT is `RunService`'s; here a run is
only a row that must refer to its tenant's agent.

### DemoClient

A user types a command, again when it failed. `pc[c]` is `prompt`, `sent` (the request
is with the server), `answered` (the response is on its way) or `asleep`. `wait_for_run`
(`demo/src/main.rs:270-290`) asks, returns if the status is neither pending nor running,
gives up if the deadline has passed, else sleeps and asks again, in that order
(`ReturnRun`, `GiveUp`, `Sleep`, `Wake`). Time is counted down (`left`, `nap`) by `Tick`;
-1 is every time after the deadline. `AnswerStart` creates a run, `RefuseStart` is any
other answer, after which the run may exist all the same. `RequestFails` loses the
request or its answer. A start request that the server had not handled by then is
`adrift`: `StartAdrift` handles it at any later time, also after the user typed the
command again and was answered. `made[c]` collects the runs that requests of `c` have
created; it, `stale` and `late` are history variables. `Execute` is any step
`RunLifecycle` allows, and is not fair: a run need not end (finding 2).
A key that is taken is refused (finding 1), so of two users with one key one is never
told of the run. `SameKeySameRun` says that all their requests create one run together,
the lost ones included, and that a user who is told of a run is told of that one.

### Operators named after a seeded defect

Some actions are preceded by a variant commented *Seeded defect*. It is not part of
`Next`. Each is a plausible bug at that line; replacing the action by the variant
makes TLC refute the property listed with it under `mutants` in `PROJECT.json`, which
shows that the property depends on the code and is not true by construction.

## 3. What the runs show

| Run | Instance | Checked | States |
|---|---|---|---|
| `admission` | 3 requests of 2 tenants with the same key and without, one agent of one iteration and one without tools, global limit 2, tenant limits 1, a crash, a disconnect or a database error | `TypeOK`, `PermitAccounting`, `ConcurrencyBound`, `ResponseTruth`, `RowCoherent`, `DoneIsSettled`, `IdempotentScope`, `FinishedRowImmutable`, `ImplementsLifecycle` | 346 k |
| `loop` | 1 request; agents of 1, 2 and 3 iterations, whose tools are refused in each way the code has, or that have none; an unbound tool; forced, empty and foreign requests; a schema that accepts only the first call; tools deleted or created at any time; one database error | `LegalTrace`, `ToolExecAuthorised`, `MockOutcome`, `DeletedToolUnused`, `BoundedChain` | 211 k |
| `faults` | 2 requests of 2 tenants, any two faults, fair | `PermitsReturned`, `RequestEnds`, `RunSettles` | 94 k |
| `trace_writers` | 2 writers of one run, 1 of another, 2 appends each, 2 lost connections, a poller, fair | `TypeOK`, `GapFree`, `SoleWriterNeverConflicts`, `AppendedOnceInOrder`, `AppendAnswered`, `ImplementsAppendLog` | 20 k |
| `catalogue` | a platform of 2 tenants in use; 3 requests of both, of a new tenant and of a forged key; one fault (error, lost answer, interruption), fair | `TypeOK`, `TenantIsolation`, `NoForeignReference`, `UniqueNames`, `WholeAgents`, `DeletedToolNotBound`, `EveryRequestAnswered`, `ImplementsTenantStores` | 169 k |
| `demo` | 2 users of one key, one polling without pause, one sleeping beyond its deadline; 2 runs of the key and 2 without; 4 commands each, two failing requests, fair | `TypeOK`, `SameKeySameRun`, `WaitedIsFinal`, `NoFalseTimeout`, `OneLateRequest`, `WaitEnds` | 430 k |
| `claim_*` | 1 to 3 requests | one claim of the documents each, refuted | |

**Why these bounds suffice.**

- `RunService`: requests only interact through the semaphores, the index and the tool
  rows. Three requests over limits 2 and 1 reach each refusal both with the other limit
  free and with it exhausted; three on one scope give an open transaction, a waiter and
  a late comer. The execution of one run is deterministic up to tool choice, deletions
  and faults and meets other runs nowhere but at the permits, so `loop` needs one
  request; agents of 1, 2 and 3 iterations exercise it, since the mock needs exactly
  three (`MockOutcome`). `MaxFaults` bounds crashes, disconnects and database errors
  together; two of them cover a fault during the recovery from another.
- `TraceLog`: two writers of one run are what a conflict takes, two appends are what
  order takes, the third writer shows what a sole writer may rely on. Two losses allow
  one before and one after a commit. `Quota` and `MaxFaults` bound the rest.
- `Catalogue`: `MCInputs` gives the first request the writes, the second what collides
  with them or uses what the first made, the third a read, a deletion or a request it is refused;
  any conflict the code can meet is between two of them with a deletion between. Four
  names, three key prefixes (two of them taken) and lists of at most two tools include
  each constraint failing.
- `DemoClient`: intervals below, at and above the deadline; four commands are a start,
  its repetition, a wait and a trace. Two lost requests are a start and its repetition,
  or one of each user; two runs that the key may create are what a second one takes, and
  the two without a key are there for a client that would not send it.

The theorems of section 5 lift the bounds for the properties they cover.

**Fairness.** tokio polls a future that is ready, a database executes the statement it
was sent, and nothing else is assumed: `WF(HandlerStep(q) \/ TaskStep(q))` in
`RunService`, `WF(Handle(q))` in `Catalogue`, `WF(Statement(w))` in `TraceLog`. It is
enough, because the semaphores are tried and never waited for, and the only waits
between requests are INSERTs on an open transaction, whose owner is itself fair.
Clients, deletions and faults are not fair. In `DemoClient` time passes, the program
goes on, and a request is answered (`WF(Respond(c))`), which is what `RequestEnds` says
of the server's handlers; the run itself need not end. With faults, `RunSettles` holds
of every run whose own chain was not hit: nothing recovers an interrupted run, and
nothing promises to, but an interrupted run never takes another one down with it. Its
instance uses agents the loop can take to an end (finding 2 is the other case).

**Deadlock** is checked in every run; `Terminating` is the only stuttering step
allowed, when every request is over (in `TraceLog` the poller never stops).

## 4. Findings

Each is a run that TLC refutes; `PROJECT.json` quotes the line of the document.

1. `claim_repeat`. Reusing an idempotency key should return the same `run_id`. The
   lookup runs inside the aborted transaction and the client gets a 500. The scope
   itself is safe (`IdempotentScope`).
2. `claim_ends`. A tool whose handler is not static leaves the run `running` for ever:
   the error takes the `?` exit. (The error of `mock_llm_decision`, `runtime.rs:127`,
   takes the same exit, `NoToolToCall`; the run is about the handler.)
3. `claim_deleted`. A tool deleted between `get_tool` and `get_agent_tool_ids` is
   executed. What the code does guarantee is `DeletedToolUnused`: a run not yet past
   the check never executes it.
4. `claim_share`. A request refused for its tenant's limit keeps a global permit
   during three statements, so a tenant at its limit makes another tenant's request
   fail for global capacity: one of its runs executes, one is being refused, and of a
   global limit of 2 nothing is left. Permits held by the refused requests of the victim's
   own tenant are no reason to complain, and the claim does not count them.
5. `claim_run_end`. A database error between `finalize_run` and the append leaves a
   finished run without `run_end`.
6. `claim_foreign_trace`. The documented check that reading another tenant's trace
   fails does not hold: `get_trace` never looks for the run and answers 200 with an
   empty list, as it does for a run that does not exist. Nothing is revealed
   (`TenantIsolation`).

Two more disagreements have no run because there is no behaviour to refute: the
documented retry of transient database errors is not implemented (`max_retries` and
`retry_count` are never read), and `README.md:238` describes a successful trace as "LLM
call, tool execution, LLM call, final answer" where the mock executes two tool calls
(`MockOutcome`).

## 5. What is proved

For every value of the constants that satisfies the named assumptions, which TLC
evaluates in the runs. In `RunService`: any finite number of requests, any tenants,
agents, tools, limits (0 included, as the configuration does) and fault budget;
`CatalogueAssumption` is what `create_agent` and the foreign keys enforce,
`IterationsAssumption` the CHECK on `max_iterations`, `LimitsAssumption` the type of
the configuration, `FiniteAssumption` is needed to count permits. In `TraceLog`: any
runs, writers, pollers, quota and number of losses, finite or not. In `Catalogue`: any
requests with any inputs over any initial tables that obey the foreign keys
(`InitialAssumption`), primary keys and unique indexes (`InitialUniqueAssumption`) of
the schema. In `DemoClient`: any users, runs, scopes, deadlines and intervals.

| Theorem | Module | States |
|---|---|---|
| `TypeCorrect` | `RunServiceProofs` | `TypeOK`; in particular no semaphore is overdrawn |
| `PermitsAccounted` | `RunCapacityProofs` | free + held = limit, globally and per tenant |
| `ConcurrencyBounded` | `RunCapacityProofs` | never more executing runs than the limits |
| `DoneSettled` | `RunLifecycleProofs` | a chain that returns leaves its run terminal and published |
| `FinishedRowsImmutable` | `RunLifecycleProofs` | a terminal row is never written again |
| `OneRunPerScope` | `RunLifecycleProofs` | at most one run per idempotency scope |
| `LifecycleImplemented` | `RunLifecycleProofs` | `RunService` implements `RunLifecycle` |
| `ColumnsFit` | `RunOutcomeProofs` | `RowCoherent`: the columns of a run fit together |
| `AnswersTrue` | `RunOutcomeProofs` | `ResponseTruth`: what the client was answered stays true of the database |
| `TracesLegal` | `RunOutcomeProofs` | `LegalTrace`: a trace is a legal history at every moment |
| `ExecutionsAuthorised` | `RunOutcomeProofs` | `ToolExecAuthorised`: what is executed was bound, of the tenant and fit for the call |
| `OutcomeOfMock` | `RunOutcomeProofs` | `MockOutcome`: how many calls a finished run made |
| `DeletedToolsUnused` | `RunOutcomeProofs` | a run not yet past the check never executes a deleted tool |
| `ChainsBounded` | `RunOutcomeProofs` | `BoundedChain`: whatever a chain does brings it closer to its end |
| `TraceGapFree` | `TraceLogProofs` | the `seq` of a run are 1..n, whoever races and fails |
| `SoleWritersSucceed` | `TraceLogProofs` | a writer that has its run for itself never meets the unique constraint |
| `AppendsOnceInOrder` | `TraceLogProofs` | an acknowledged append is there once, a failed one at most once, in order |
| `TraceTypes` | `TraceLogProofs` | `TypeOK`, the answers of `get_trace` included |
| `AppendLogImplemented` | `TraceLogProofs` | `TraceLog` implements `AppendLog` |
| `CatalogueTyped` | `CatalogueProofs` | `TypeOK`, and an id names one tool |
| `TenantsIsolated` | `CatalogueProofs` | a request acts for, writes for and is told of only a tenant whose key it holds |
| `ReferencesStay` | `CatalogueProofs` | no binding and no run refers to another tenant's row |
| `NamesUnique` | `CatalogueProofs` | names of live tools and of agents are unique within a tenant |
| `AgentsWhole` | `CatalogueProofs` | an agent has exactly the tools asked for or does not exist, whatever fails; a refusal leaves none |
| `DeletedNotBound` | `CatalogueStoresProofs` | `DeletedToolNotBound`: deleted before the first look, never bound |
| `StoresImplemented` | `CatalogueStoresProofs` | `Catalogue` implements `TenantStores` |
| `ClientTyped` | `DemoClientProofs` | `TypeOK` |
| `OneRunPerKey` | `DemoClientProofs` | the requests of one key create one run together, the lost ones included |
| `PrintedIsFinal` | `DemoClientProofs` | what `runs wait` printed stays true, and a later trace agrees |
| `NoWaitInVain` | `DemoClientProofs` | it gives up only in time, and not on a run that had ended |
| `LateOnce` | `DemoClientProofs` | at most one request is sent after the deadline |

**Types** go by shape: most actions are `Proceed`, `Store`, `AppendEvent`, `FailWith`,
`Finish` or `Return` with arguments, so one lemma per shape and one line per action.

**Capacity.** `ConcurrencyBound` is not inductive: it does not say that a task holds
permits. `CapacityInv` adds `PermitsFollowControl`, the permits owned at each `pc`
(none up to `schedule`, the global one at `tenant`, none or the global one during a
rejection, both in a task), and `PermitAccounting`. Executing requests are then a
subset of the holders, and the cardinalities give the bound. The set arithmetic
(adding or removing one holder) is in lemmas about `FiniteSetTheorems`.

**Lifecycle.** Since the UPDATEs are unguarded, the invariant must tie the row and the
trace to the control: `ControlInv` gives, for each class of `pc`, the status, and
whether `run_end` has been written. `NextEffect` then classifies every step as one of: nothing
visible, an event, the `run_end`, or one legal status change; immutability and the
refinement follow from that classification. `ScopeInv` counts an open transaction at
`commit` as occupying its scope, without which `IdempotentScope` is not inductive: two
open INSERTs of one scope would be two committed rows a step later.

**Outcome.** What a run leaves behind is the business of its own chain: no step touches
the row, the trace or the locals of another request. So `OutcomeInv` has five parts, each
a predicate of one request's values at each control state, and the proof goes by how a
step *turns* these values. None of the five properties is inductive.
`ColumnsInv` adds to `RowCoherent` that the reason in the row is the `cause` of the branch
taken, and that a capacity reason is taken only on the scheduler's refusal, before
`started_at` is set. `StoryInv` gives the length of the trace at each `pc`, its parity in
the loop, and its last event: that a `tool_exec` only ever follows an `llm_call`, and
nothing `run_end`, is in the control alone. `ToldInv` says what a client that was
answered has in the database, and that one who was not is still owed what the row and
trace of a refused run already say. `ChoiceInv` carries what `authorize_tool_call` found
from the check to the execution, which is in a later statement, and keeps a forced
invalid call off the path to an execution or an answer; as a schema may accept the first
call only, it also says that a run with no result yet has no `tool_exec` in its trace. `CountInv` ties the events of either type to
`tool_results` and the iteration: two tool calls come from the mock, the stop at
`max_iterations` from the loop.
`DeletedToolUnused` is about pairs of moments; `Shunned(q, t)` holds from the first on:
`t` stays deleted, and `q` has not passed the check with it.
`BoundedChain` is the half of `RequestEnds` that needs no fairness. `StepsLeft(q)` counts
the steps ahead of a chain on its longest way, five for each iteration it has left, and
is a natural number because `CountInv` keeps the iteration within `max_iterations`
wherever the loop is going on; every step that touches the chain decreases it, by one
where the loop goes round. So a chain takes at most 18 + 5 * (`max_iterations` - 1) steps;
that it takes the next one is what fairness adds.

**Trace.** `GapFree` is not inductive: nothing in it keeps an open statement from
committing a stale number. `GapInv` adds that what a statement computed is at most one
more than what is there (`Recent`, true because rows are only added), and that open
transactions hold different free numbers (`Exclusive`, which is the unique index). The
one number that can be committed is then the next. For a sole writer, what it computed
is still free (`Alone`). `LogInv` adds where the rows of each writer stand. For the
refinement, rows numbered 1..n without repetition have their number as `Position`, so
the listing of a run is the function from number to event; a commit, whose number is
n + 1, appends to it, and every other step leaves it alone.

**Catalogue.** Every statement that names a row names its tenant, and the tenant is that
of a verified key (`Sessions`); so what is inserted, found or told is the tenant's
(`RowsOfRequests`, `Found`, `Told`). What a handler looked up stays there while it goes
on to the next statement, because rows are only added or marked deleted. `Counts` ties
the loop of `create_agent` to the tools already found, `OpenNames` says that the index
guards a name that is not committed, and `OneRow` that ids are not reused. The proof
classifies the steps by what they do to the tables (`Kinds`): most change none.

The refinement uses the same classification. The four steps that write rows are one
operation of the store of the session's tenant each, and lemmas about given tables
say that adding or marking one row leaves the stores of the others as they are
(`ToolAdded`, `ToolReplaced`, `AgentAdded`, `RunAdded`). Bindings enter the store with
their agent, whole: no binding of an agent exists before its commit. That an answer names
ids of the store is `Told` after the step. It takes one more invariant, that a request
which has not authenticated itself has no session (`Unidentified`). For
`DeletedToolNotBound`, `Avoids(q, t)` holds from the deletion on: `t` stays deleted, so
`SELECT EXISTS` does not find it, and neither the tool in hand nor one already inserted
is `t`.

**Demo client.** An answer is about the past, but what `RunLifecycle` says of a run that
exists, or has ended, stays true (`ServerGrows`). The invariant therefore speaks of one
client and the run it knows (`Knows`, `Loops`), and is kept by the server and by every
other client. For `SameKeySameRun`, `Knows` adds that every run made by a request of `c`
exists and has the scope of `c`'s key, and that a run told or on its way to `c` is one of
these; that no two runs of a scope exist is the server's (`ServerInv`). That a request may
be handled long after its user gave it up then makes no difference.

## 6. What is only model-checked, and what is not modelled

Only model-checked:

- the liveness properties `PermitsReturned`, `RequestEnds`, `RunSettles`,
  `AppendAnswered`, `EveryRequestAnswered` and `WaitEnds`: they need fairness and
  ENABLED, which are beyond the prover (the variant behind `RequestEnds` is proved,
  `ChainsBounded`);
- the absence of deadlock, for the same reason;
- the findings: a counterexample needs one instance only.

Every type invariant, safety invariant, action property and refinement that a passing
run checks is proved.

Not modelled:

- Argon2, the random generator and serialisation: a presented token is the stored key
  or is not, a drawn prefix is free or taken, a body is accepted or refused.
- The commands of the demo program that send one request and print its answer, its
  reading of files, its output format.
- In `RunService`, a database error while the request is `idle`: it ends the handler
  before anything is written, and the client is answered 500 (`Catalogue` has it).
- The wait for a pooled connection (no code holds one while asking for another), and
  the mutex of the semaphore map (never held across an await).
- `messages`, which `execute_run` extends and never reads; the content of answers,
  payloads and logs; `max_retries`, `retry_count` and the `retry` event type, which no
  code uses; reading the environment and setting up logging; ON DELETE clauses, since
  no code deletes a row.
- Concurrent processes on one database: the semaphores are per process and the
  documentation describes one.

## 7. Plan

The components are modelled, and what the runs check beyond liveness is proved. What is
left, in order of importance:

1. The other half of what `RequestEnds` rests on besides fairness, as far as it is a
   state predicate: that while a request is not done, the guard of one of its statements
   holds or it waits for a transaction whose owner's does. (That it has only finitely
   many statements to send is `ChainsBounded`.) A variant for the loop of
   `create_agent` and for `runs wait` in the same way.
2. That `DemoClient`'s theorems hold over `RunService` itself: they use of the server
   only `RunLifecycle`, which `LifecycleImplemented` provides, but the composition is not
   stated as one theorem.
