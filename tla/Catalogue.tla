------------------------------ MODULE Catalogue ------------------------------
(***************************************************************************)
(* Tenants, API keys, tools, agents and the queries by tenant: the         *)
(* handlers of http.rs over the tables that all tenants share.  RunService *)
(* takes over where start_run has inserted its run.                        *)
(*                                                                         *)
(* A handler is a sequence of statements with an .await at each, and an    *)
(* action is one statement with the code up to the next.  Only             *)
(* create_agent keeps a transaction open over several of them: what it has *)
(* inserted is in its own variables (inserted[q]) until CommitAgent, seen  *)
(* by nobody but the unique index, which makes others wait.                *)
(*                                                                         *)
(* A row is named after the request that inserted it.  Some rows are there *)
(* from the start.  Contents that no statement looks at (schemas, prompts, *)
(* messages, timestamps) are left out, and a request body is one that the  *)
(* handler accepts, one it refuses, or one that only the CHECK of the      *)
(* table refuses.                                                          *)
(***************************************************************************)
EXTENDS Integers, Sequences, FiniteSets

CONSTANTS
  Requests,
  Seeds,                   \* the names of the rows there are at the start
  InitialTenants, InitialKeys, InitialTools, InitialAgents, InitialBindings,
  InitialRuns,
  Names,                   \* of tools and agents
  NoName,                  \* agents.name IS NULL
  Prefixes,                \* what generate_api_key may draw
  None,                    \* no tenant, key or path parameter
  Inputs,                  \* Inputs[q]: what the request q may be
  MaxFaults                \* bound: how many handlers are hit by a fault

Ids == Requests \cup Seeds

KeyRow   == [id : Ids, prefix : Prefixes, tenant : Ids]
ToolRow  == [id : Ids, tenant : Ids, name : Names, deleted : BOOLEAN]
AgentRow == [id : Ids, tenant : Ids, name : Names \cup {NoName}]
Binding  == [tenant : Ids, agent : Ids, tool : Ids]
RunRow   == [id : Ids, tenant : Ids, agent : Ids]

OpenOps == {"create_tenant", "create_api_key"}

TenantOps ==
  {"create_tool", "list_tools", "delete_tool", "create_agent", "get_agent",
   "start_run", "get_run", "get_trace"}

\* key and genuine: the bearer token has the prefix of this key, and is it.
\* target: the id in the path.  name, tools, body: of the JSON body.
InputType ==
  [op : OpenOps \cup TenantOps, key : Ids \cup {None}, genuine : BOOLEAN,
   target : Ids \cup {None}, name : Names \cup {NoName}, tools : Seq(Ids),
   body : {"ok", "blank", "out_of_range"}]

ASSUME NamesAssumption ==
  Requests \cap Seeds = {} /\ None \notin Ids /\ NoName \notin Names

ASSUME InputAssumption ==
  \A q \in Requests : \A i \in Inputs[q] :
    i \in InputType /\ (i.op = "create_tool" => i.name \in Names)

\* The foreign keys of the initial rows.
ASSUME InitialAssumption ==
  /\ InitialTenants \subseteq Seeds
  /\ InitialKeys \subseteq KeyRow
  /\ InitialTools \subseteq ToolRow /\ InitialAgents \subseteq AgentRow
  /\ InitialBindings \subseteq Binding /\ InitialRuns \subseteq RunRow
  /\ \A x \in InitialKeys \cup InitialTools \cup InitialAgents \cup InitialRuns :
       x.id \in Seeds
  /\ \A b \in InitialBindings :
       /\ \E x \in InitialAgents : x.id = b.agent /\ x.tenant = b.tenant
       /\ \E t \in InitialTools : t.id = b.tool /\ t.tenant = b.tenant
  /\ \A r \in InitialRuns : \E x \in InitialAgents : x.id = r.agent /\ x.tenant = r.tenant

\* The primary keys and the unique indexes of the initial rows.
ASSUME InitialUniqueAssumption ==
  /\ \A x, y \in InitialKeys : x.id = y.id \/ x.prefix = y.prefix => x = y
  /\ \A x, y \in InitialTools :
       \/ x.id = y.id
       \/ x.tenant = y.tenant /\ x.name = y.name /\ ~x.deleted /\ ~y.deleted
       => x = y
  /\ \A x, y \in InitialAgents :
       \/ x.id = y.id
       \/ x.tenant = y.tenant /\ x.name = y.name /\ x.name # NoName
       => x = y
  /\ \A x \in InitialTools, y \in InitialAgents : x.id # y.id
  /\ \A x \in InitialTools \cup InitialAgents, y \in InitialRuns : x.id # y.id
  /\ \A x, y \in InitialRuns : x.id = y.id => x = y

ASSUME FaultAssumption == MaxFaults \in Nat

VARIABLES
  input,
  tenants, keys, tools, agents, bindings, runs,   \* committed rows
  pc,         \* pc[q]: the statement the handler of q is about to send
  session,    \* session[q]: TenantContext.tenant_id
  inserted,   \* inserted[q]: how many tool_ids the transaction of q has bound
  resp,       \* resp[q]: the answer
  told,       \* told[q]: the ids of tools, agents and runs in the answer
  faults

tables == <<tenants, keys, tools, agents, bindings, runs>>
vars   == <<input, tables, pc, session, inserted, resp, told, faults>>

Init ==
  /\ input \in [Requests -> UNION {Inputs[q] : q \in Requests}]
  /\ \A q \in Requests : input[q] \in Inputs[q]
  /\ tenants = InitialTenants
  /\ keys = InitialKeys
  /\ tools = InitialTools
  /\ agents = InitialAgents
  /\ bindings = InitialBindings
  /\ runs = InitialRuns
  /\ pc = [q \in Requests |-> "idle"]
  /\ session = [q \in Requests |-> None]
  /\ inserted = [q \in Requests |-> 0]
  /\ resp = [q \in Requests |-> "none"]
  /\ told = [q \in Requests |-> {}]
  /\ faults = 0

-------------------------------------------------------------------------------
(* The shapes of an action. *)

At(q, place, ops) == pc[q] = place /\ input[q].op \in ops

Continue(q, to) ==
  /\ pc' = [pc EXCEPT ![q] = to]
  /\ UNCHANGED <<input, session, resp, told, faults>>

\* The handler ends.
End(q, code, ids) ==
  /\ pc' = [pc EXCEPT ![q] = "done"]
  /\ resp' = [resp EXCEPT ![q] = code]
  /\ told' = [told EXCEPT ![q] = ids]
  /\ UNCHANGED <<input, session, inserted>>

Reply(q, code, ids) == End(q, code, ids) /\ UNCHANGED faults

Refuse(q, code) == Reply(q, code, {}) /\ UNCHANGED tables

Inform(q, ids) == Reply(q, "ok", ids) /\ UNCHANGED tables

Blank(q) == input[q].body = "blank"

-------------------------------------------------------------------------------
(* auth.rs *)

\* SELECT ... WHERE key_prefix = $1: the prefix is that of the presented key.
FoundByPrefix(q) ==
  {k \in keys : \E h \in keys : h.id = input[q].key /\ h.prefix = k.prefix}

\* The Argon2 hash of the presented token is the stored one.
Verified(q, k) == k.id = input[q].key /\ input[q].genuine

Authenticate(q) ==
  /\ At(q, "idle", TenantOps)
  /\ \E k \in FoundByPrefix(q) :
       Verified(q, k) /\ session' = [session EXCEPT ![q] = k.tenant]
  /\ pc' = [pc EXCEPT ![q] = "handle"]
  /\ UNCHANGED <<input, tables, inserted, resp, told, faults>>

InvalidKey(q) ==
  /\ At(q, "idle", TenantOps)
  /\ \A k \in FoundByPrefix(q) : ~Verified(q, k)
  /\ Refuse(q, "invalid_api_key")

Own(q, x) == x.tenant = session[q]

\* Seeded defect: WHERE id = $1, without the tenant.
AnyTarget(q, rows) == {x \in rows : x.id = input[q].target}

\* WHERE tenant_id = $1 AND id = $2
Target(q, rows) == {x \in rows : Own(q, x) /\ x.id = input[q].target}

-------------------------------------------------------------------------------
(* Tenants and keys: no credential is asked for.  Here and below, what a     *)
(* statement does to the tables stands apart from what the client is told,   *)
(* because the two may part (LostAnswer).                                    *)

TenantInserted(q) ==
  /\ At(q, "idle", {"create_tenant"}) /\ ~Blank(q)
  /\ tenants' = tenants \cup {q}
  /\ UNCHANGED <<keys, tools, agents, bindings, runs>>

CreateTenant(q) == TenantInserted(q) /\ Reply(q, "ok", {})

RefuseTenant(q) ==
  At(q, "idle", {"create_tenant"}) /\ Blank(q) /\ Refuse(q, "bad_request")

\* The key is drawn, then inserted: uq_api_keys_key_prefix, and the foreign key
\* to tenants.
PrefixTaken(p) == \E k \in keys : k.prefix = p

KeyInserted(q) ==
  /\ At(q, "idle", {"create_api_key"}) /\ input[q].target \in tenants
  /\ \E p \in Prefixes :
       ~PrefixTaken(p)
         /\ keys' = keys \cup {[id |-> q, prefix |-> p, tenant |-> input[q].target]}
  /\ UNCHANGED <<tenants, tools, agents, bindings, runs>>

CreateApiKey(q) == KeyInserted(q) /\ Reply(q, "ok", {})

\* A constraint of api_keys fails: not one of the errors that are mapped.
ApiKeyNotInserted(q) ==
  /\ At(q, "idle", {"create_api_key"})
  /\ input[q].target \notin tenants \/ \E p \in Prefixes : PrefixTaken(p)
  /\ Refuse(q, "internal_error")

-------------------------------------------------------------------------------
(* Tools *)

\* uq_tools_tenant_name_active
ToolNameTaken(q) ==
  \E x \in tools : Own(q, x) /\ x.name = input[q].name /\ ~x.deleted

\* Seeded defect: the row's tenant is the one in the body or path.
ToolInsertedForAnyone(q) ==
  /\ At(q, "handle", {"create_tool"}) /\ ~Blank(q) /\ ~ToolNameTaken(q)
  /\ \E n \in tenants :
       tools' = tools \cup {[id |-> q, tenant |-> n, name |-> input[q].name,
                             deleted |-> FALSE]}
  /\ UNCHANGED <<tenants, keys, agents, bindings, runs>>

ToolInserted(q) ==
  /\ At(q, "handle", {"create_tool"}) /\ ~Blank(q) /\ ~ToolNameTaken(q)
  /\ tools' = tools \cup {[id |-> q, tenant |-> session[q], name |-> input[q].name,
                           deleted |-> FALSE]}
  /\ UNCHANGED <<tenants, keys, agents, bindings, runs>>

CreateTool(q) == ToolInserted(q) /\ Reply(q, "ok", {q})

RefuseTool(q) ==
  /\ At(q, "handle", {"create_tool"})
  /\ \/ Blank(q) /\ Refuse(q, "bad_request")
     \/ ~Blank(q) /\ ToolNameTaken(q) /\ Refuse(q, "duplicate_name")

ListTools(q) ==
  /\ At(q, "handle", {"list_tools"})
  /\ Inform(q, {x.id : x \in {y \in tools : Own(q, y) /\ ~y.deleted}})

Deletable(q) == {x \in Target(q, tools) : ~x.deleted}

\* Seeded defect: the deletion is recorded in a row of its own.
ToolCopied(q) ==
  /\ At(q, "handle", {"delete_tool"}) /\ Deletable(q) # {}
  /\ tools' = tools \cup {[x EXCEPT !.deleted = TRUE] : x \in Deletable(q)}
  /\ UNCHANGED <<tenants, keys, agents, bindings, runs>>

ToolMarked(q) ==
  /\ At(q, "handle", {"delete_tool"}) /\ Deletable(q) # {}
  /\ tools' = (tools \ Deletable(q)) \cup {[x EXCEPT !.deleted = TRUE] : x \in Deletable(q)}
  /\ UNCHANGED <<tenants, keys, agents, bindings, runs>>

DeleteTool(q) == ToolMarked(q) /\ Reply(q, "ok", {})

ToolNotDeleted(q) ==
  At(q, "handle", {"delete_tool"}) /\ Deletable(q) = {} /\ Refuse(q, "not_found")

-------------------------------------------------------------------------------
(* create_agent: one transaction, then a read for the answer.               *)

Wanted(q) == input[q].tools

\* The statement after k tool_ids.
AfterBinding(q, k) == IF k = Len(Wanted(q)) THEN "commit" ELSE "check"

\* Seeded defect: a handler that is interrupted leaves its transaction open.
OpenForGood(p) == pc[p] \in {"check", "bind", "commit"} \/ resp[p] = "interrupted"

\* p has inserted its agent and not ended its transaction.
Open(p) == pc[p] \in {"check", "bind", "commit"}

\* Seeded defect: no unique index, an earlier SELECT looks for the name.
OpenUnseen(q) == FALSE

\* uq_agents_tenant_name_active, on what is not committed ...
AwaitsName(q) ==
  \E p \in Requests :
    /\ Open(p) /\ session[p] = session[q]
    /\ input[p].name = input[q].name /\ input[q].name # NoName

\* ... and on what is.
AgentNameTaken(q) ==
  \E x \in agents : Own(q, x) /\ x.name = input[q].name /\ x.name # NoName

InsertAgent(q) ==
  /\ At(q, "handle", {"create_agent"}) /\ input[q].body = "ok"
  /\ ~AwaitsName(q) /\ ~AgentNameTaken(q)
  /\ Continue(q, AfterBinding(q, 0))
  /\ UNCHANGED <<tables, inserted>>

RefuseAgent(q) ==
  /\ At(q, "handle", {"create_agent"})
  /\ \/ Blank(q) /\ Refuse(q, "bad_request")
     \/ input[q].body = "out_of_range" /\ Refuse(q, "internal_error")
     \/ /\ input[q].body = "ok" /\ ~AwaitsName(q) /\ AgentNameTaken(q)
        /\ Refuse(q, "duplicate_name")

NextTool(q) == Wanted(q)[inserted[q] + 1]

\* Seeded defect: AND deleted_at IS NULL is missing.
ExistsEver(q) == \E x \in tools : Own(q, x) /\ x.id = NextTool(q)

\* Seeded defect: WHERE id = $2, without the tenant.
ExistsAnywhere(q) == \E x \in tools : x.id = NextTool(q) /\ ~x.deleted

\* SELECT EXISTS(... AND deleted_at IS NULL)
Exists(q) == \E x \in tools : Own(q, x) /\ x.id = NextTool(q) /\ ~x.deleted

CheckTool(q) ==
  /\ pc[q] = "check" /\ Exists(q)
  /\ Continue(q, "bind")
  /\ UNCHANGED <<tables, inserted>>

\* `?` drops the transaction, which rolls it back.
RefuseForeignTool(q) == pc[q] = "check" /\ ~Exists(q) /\ Refuse(q, "not_found")

BoundBefore(q) == \E k \in 1..inserted[q] : Wanted(q)[k] = NextTool(q)

\* Seeded defect: the bindings are inserted through the pool, not the transaction.
BindToolAtOnce(q) ==
  /\ pc[q] = "bind" /\ ~BoundBefore(q)
  /\ bindings' = bindings \cup {[tenant |-> session[q], agent |-> q, tool |-> NextTool(q)]}
  /\ inserted' = [inserted EXCEPT ![q] = @ + 1]
  /\ Continue(q, AfterBinding(q, inserted[q] + 1))
  /\ UNCHANGED <<tenants, keys, tools, agents, runs>>

\* INSERT INTO agent_tools.  The row of a deleted tool is still there for the
\* foreign key.
BindTool(q) ==
  /\ pc[q] = "bind" /\ ~BoundBefore(q)
  /\ inserted' = [inserted EXCEPT ![q] = @ + 1]
  /\ Continue(q, AfterBinding(q, inserted[q] + 1))
  /\ UNCHANGED tables

\* The primary key of agent_tools refuses a tool_id that was given twice.
RefuseRepeatedTool(q) ==
  pc[q] = "bind" /\ BoundBefore(q) /\ Refuse(q, "internal_error")

BindingsOf(q) ==
  {[tenant |-> session[q], agent |-> q, tool |-> Wanted(q)[k]] : k \in 1..inserted[q]}

AgentCommitted(q) ==
  /\ pc[q] = "commit"
  /\ agents' = agents \cup {[id |-> q, tenant |-> session[q], name |-> input[q].name]}
  /\ bindings' = bindings \cup BindingsOf(q)
  /\ UNCHANGED <<tenants, keys, tools, runs>>

CommitAgent(q) == AgentCommitted(q) /\ Continue(q, "bindings") /\ UNCHANGED inserted

\* get_agent_tool_ids, for create_agent and get_agent.
AnsweredAgent(q) == IF input[q].op = "create_agent" THEN q ELSE input[q].target

ReadBindings(q) ==
  /\ pc[q] = "bindings"
  /\ Inform(q, {AnsweredAgent(q)} \cup
               {b.tool : b \in {y \in bindings : Own(q, y) /\ y.agent = AnsweredAgent(q)}})

-------------------------------------------------------------------------------
(* The queries, and start_run up to the INSERT. *)

GetAgent(q) ==
  /\ At(q, "handle", {"get_agent"}) /\ Target(q, agents) # {}
  /\ Continue(q, "bindings")
  /\ UNCHANGED <<tables, inserted>>

AgentNotFound(q) ==
  /\ At(q, "handle", {"get_agent", "start_run"}) /\ Target(q, agents) = {}
  /\ Refuse(q, "not_found")

GetAgentOfRun(q) ==
  /\ At(q, "handle", {"start_run"}) /\ Target(q, agents) # {}
  /\ \/ Blank(q) /\ Refuse(q, "bad_request")
     \/ ~Blank(q) /\ Continue(q, "run") /\ UNCHANGED <<tables, inserted>>

RunInserted(q) ==
  /\ pc[q] = "run"
  /\ runs' = runs \cup {[id |-> q, tenant |-> session[q], agent |-> input[q].target]}
  /\ UNCHANGED <<tenants, keys, tools, agents, bindings>>

InsertRun(q) == RunInserted(q) /\ Reply(q, "ok", {q})

GetRun(q) ==
  /\ At(q, "handle", {"get_run"}) /\ Target(q, runs) # {}
  /\ Inform(q, {r.id : r \in Target(q, runs)} \cup {r.agent : r \in Target(q, runs)})

RunNotFound(q) ==
  At(q, "handle", {"get_run"}) /\ Target(q, runs) = {} /\ Refuse(q, "not_found")

\* The events of the run if it is the tenant's; there is no look at runs, and
\* no events is an answer like any other.
GetTrace(q) ==
  /\ At(q, "handle", {"get_trace"})
  /\ Inform(q, {r.id : r \in Target(q, runs)})

-------------------------------------------------------------------------------
(* Faults.  (There is nothing in memory that a restart would lose.)          *)

\* The handler ends early: its open transaction is rolled back.
Fault(q, code) ==
  /\ faults < MaxFaults
  /\ faults' = faults + 1
  /\ End(q, code, {})

\* The body is refused before any statement is sent.
NoStatement(q) ==
  /\ Blank(q)
  /\ At(q, "idle", {"create_tenant"}) \/ At(q, "handle", {"create_tool", "create_agent"})

\* A statement fails and is not done: `?` answers 500.  At "bindings" that is
\* after the COMMIT of create_agent.
DbError(q) ==
  pc[q] # "done" /\ ~NoStatement(q) /\ Fault(q, "internal_error") /\ UNCHANGED tables

\* The client goes away or the process is lost, and nobody is answered.
Interrupt(q) == pc[q] # "done" /\ Fault(q, "interrupted") /\ UNCHANGED tables

\* What takes effect once the database has done it: one INSERT or UPDATE without
\* a transaction, or a COMMIT.
Written(q) ==
  \/ TenantInserted(q) \/ KeyInserted(q) \/ ToolInserted(q) \/ ToolMarked(q)
  \/ AgentCommitted(q) \/ RunInserted(q)

\* It is done, but the handler gets an error instead of the result, or is gone.
LostAnswer(q) ==
  Written(q) /\ \E code \in {"internal_error", "interrupted"} : Fault(q, code)

Arrive(q) ==
  \/ Authenticate(q) \/ InvalidKey(q) \/ CreateTenant(q) \/ RefuseTenant(q)
  \/ CreateApiKey(q) \/ ApiKeyNotInserted(q)

Handle(q) ==
  \/ CreateTool(q) \/ RefuseTool(q) \/ ListTools(q) \/ DeleteTool(q) \/ ToolNotDeleted(q)
  \/ InsertAgent(q) \/ RefuseAgent(q) \/ CheckTool(q) \/ RefuseForeignTool(q)
  \/ BindTool(q) \/ RefuseRepeatedTool(q) \/ CommitAgent(q) \/ ReadBindings(q)
  \/ GetAgent(q) \/ AgentNotFound(q) \/ GetAgentOfRun(q) \/ InsertRun(q)
  \/ GetRun(q) \/ RunNotFound(q) \/ GetTrace(q)

Terminating == (\A q \in Requests : pc[q] = "done") /\ UNCHANGED vars

Next ==
  \/ \E q \in Requests :
       Arrive(q) \/ Handle(q) \/ DbError(q) \/ Interrupt(q) \/ LostAnswer(q)
  \/ Terminating

Spec == Init /\ [][Next]_vars

\* A handler that is ready is polled, and a statement that need not wait returns.
FairSpec == Spec /\ \A q \in Requests : WF_vars(Handle(q))

-------------------------------------------------------------------------------
(* Properties. *)

PcType == {"idle", "handle", "check", "bind", "commit", "bindings", "run", "done"}

RespType ==
  {"none", "ok", "interrupted", "bad_request", "invalid_api_key", "not_found",
   "duplicate_name", "internal_error"}

\* Types, and the primary keys: an id names one row.
TypeOK ==
  /\ DOMAIN input = Requests /\ \A q \in Requests : input[q] \in Inputs[q]
  /\ tenants \subseteq Ids
  /\ keys \subseteq KeyRow /\ bindings \subseteq Binding
  /\ tools \subseteq ToolRow /\ agents \subseteq AgentRow /\ runs \subseteq RunRow
  /\ pc \in [Requests -> PcType]
  /\ session \in [Requests -> Ids \cup {None}]
  /\ inserted \in [Requests -> Nat]
  /\ \A q \in Requests : inserted[q] <= Len(Wanted(q))
  /\ resp \in [Requests -> RespType]
  /\ told \in [Requests -> SUBSET Ids]
  /\ faults \in 0..MaxFaults
  /\ \A x, y \in tools : x.id = y.id => x = y

\* The client of q proved that it holds a key issued for tenant n.
HoldsKeyOf(q, n) ==
  input[q].genuine /\ \E k \in keys : k.id = input[q].key /\ k.tenant = n

\* Whoever sends what and guesses which id: a request creates rows only for, is
\* identified only as, and is told of tools, agents and runs only of, a tenant
\* whose key it presented.
TenantIsolation ==
  \A q \in Requests :
    /\ session[q] # None => HoldsKeyOf(q, session[q])
    /\ \A x \in tools \cup agents \cup runs :
         x.id \in told[q] \cup {q} => HoldsKeyOf(q, x.tenant)

\* No row refers to another tenant's row: the composite foreign keys of
\* agent_tools and runs would never have had to refuse an INSERT.
NoForeignReference ==
  /\ \A b \in bindings :
       /\ \E x \in agents : x.id = b.agent /\ x.tenant = b.tenant
       /\ \E t \in tools : t.id = b.tool /\ t.tenant = b.tenant
  /\ \A r \in runs : \E x \in agents : x.id = r.agent /\ x.tenant = r.tenant

\* Of the tools of a tenant that are not deleted, and of its named agents, no
\* two have the same name, whichever transactions overlap.
UniqueNames ==
  /\ \A x, y \in tools :
       x.tenant = y.tenant /\ x.name = y.name /\ ~x.deleted /\ ~y.deleted => x = y
  /\ \A x, y \in agents :
       x.tenant = y.tenant /\ x.name = y.name /\ x.name # NoName => x = y

WantedTools(q) == {Wanted(q)[k] : k \in 1..Len(Wanted(q))}

\* The answers by which a handler refuses.  (A fault answers neither of these.)
Refused == {"bad_request", "invalid_api_key", "not_found", "duplicate_name"}

\* An agent comes into being with exactly the tools that were asked for or not at
\* all, wherever its creation fails.  Its creator is told of exactly these; told
\* of a refusal, it has no agent; and without a fault it has one if and only if
\* the answer is ok.  (A fault may answer 500, or nothing, of a whole agent.)
WholeAgents ==
  \A q \in Requests :
    LET bound   == {b.tool : b \in {y \in bindings : y.agent = q}}
        exists  == \E x \in agents : x.id = q
        created == input[q].op = "create_agent" /\ resp[q] = "ok"
    IN /\ bound = IF exists THEN WantedTools(q) ELSE {}
       /\ created => exists /\ told[q] = {q} \cup WantedTools(q)
       /\ resp[q] \in Refused => ~exists
       /\ faults = 0 /\ pc[q] = "done" => (exists <=> created)

Deleted(t) == \E x \in tools : x.id = t /\ x.deleted

\* A tool that was deleted before a create_agent looked for its first tool is
\* never bound by it, however the two race otherwise.
DeletedToolNotBound ==
  \A q \in Requests, t \in {x.id : x \in InitialTools} :
    [](Deleted(t) /\ pc[q] \in {"idle", "handle"}
         => [](\A b \in bindings : b.agent = q => b.tool # t))

\* No handler waits for ever on another's open transaction.
EveryRequestAnswered == \A q \in Requests : (pc[q] = "handle") ~> (pc[q] = "done")

-------------------------------------------------------------------------------
\* The shared tables, restricted to tenant n.
ToolsOf(n) ==
  {[id |-> x.id, name |-> x.name, deleted |-> x.deleted] : x \in {y \in tools : y.tenant = n}}

AgentsOf(n) ==
  {[id |-> x.id, name |-> x.name,
    tools |-> {b.tool : b \in {y \in bindings : y.tenant = n /\ y.agent = x.id}}]
     : x \in {y \in agents : y.tenant = n}}

RunsOf(n) == {[id |-> x.id, agent |-> x.agent] : x \in {y \in runs : y.tenant = n}}

Stores == INSTANCE TenantStores WITH
  Tenants <- Ids,
  NoTenant <- None,
  tools <- [n \in Ids |-> ToolsOf(n)],
  agents <- [n \in Ids |-> AgentsOf(n)],
  runs <- [n \in Ids |-> RunsOf(n)],
  holder <- session,
  known <- told

\* Behind the API every tenant has a store of its own.
ImplementsTenantStores == Stores!Spec

===============================================================================
