--------------------------- MODULE CatalogueProofs ---------------------------
(***************************************************************************)
(* For any tenants, requests, inputs and faults: the tables stay well      *)
(* typed, no tenant sees or touches what is another's, references stay     *)
(* within a tenant, names stay unique, and agents are created whole.       *)
(*                                                                         *)
(* The argument: every statement that names a row names its tenant too,    *)
(* and the tenant is that of the verified key.  What a handler has found   *)
(* stays found, because rows are only added, or marked deleted.            *)
(***************************************************************************)
EXTENDS Catalogue, TLAPS

FaultAnswers == {"internal_error", "interrupted"}

\* The rows that were inserted by a request are its own, of the kind it asked
\* for, and it has not been refused, unless by a fault.
RowsOfRequests ==
  /\ \A x \in tools : x.id \in Requests =>
       /\ input[x.id].op = "create_tool" /\ x.tenant = session[x.id]
       /\ pc[x.id] = "done"
  /\ \A x \in agents : x.id \in Requests =>
       /\ input[x.id].op = "create_agent" /\ x.tenant = session[x.id]
       /\ \/ pc[x.id] = "bindings" /\ resp[x.id] = "none"
          \/ pc[x.id] = "done" /\ resp[x.id] = "ok"
          \/ pc[x.id] = "done" /\ resp[x.id] \in FaultAnswers /\ faults # 0
  /\ \A x \in runs : x.id \in Requests =>
       /\ input[x.id].op = "start_run" /\ x.tenant = session[x.id]
       /\ pc[x.id] = "done"

\* Primary keys; and ids are not used for rows of two kinds.
OneRow ==
  /\ \A x, y \in tools : x.id = y.id => x = y
  /\ \A x, y \in agents : x.id = y.id => x = y
  /\ \A x, y \in runs : x.id = y.id => x = y
  /\ \A x \in tools, y \in agents : x.id # y.id
  /\ \A x \in tools \cup agents, y \in runs : x.id # y.id

\* Where a handler may be, by its operation.
Places ==
  \A q \in Requests :
    /\ pc[q] \in {"check", "bind", "commit"} => input[q].op = "create_agent"
    /\ pc[q] = "bindings" => input[q].op \in {"create_agent", "get_agent"}
    /\ pc[q] = "run" => input[q].op = "start_run"
    /\ pc[q] # "done" => told[q] = {} /\ resp[q] = "none"
    /\ pc[q] \notin {"idle", "done"} => session[q] \in Ids

HasTool(n, t)  == \E x \in tools : x.id = t /\ x.tenant = n
HasAgent(n, a) == \E x \in agents : x.id = a /\ x.tenant = n

\* The count of the loop of create_agent.
Counts ==
  \A q \in Requests :
    /\ pc[q] \in {"idle", "handle"} => inserted[q] = 0
    /\ pc[q] \in {"check", "bind"} => inserted[q] < Len(Wanted(q))
    /\ pc[q] = "commit" => inserted[q] = Len(Wanted(q))

\* What a handler has looked up is still there.
Found ==
  \A q \in Requests :
    /\ pc[q] \in {"check", "bind", "commit"} =>
         \A k \in 1..inserted[q] : HasTool(session[q], Wanted(q)[k])
    /\ pc[q] = "bind" => HasTool(session[q], NextTool(q))
    /\ pc[q] = "bindings" => HasAgent(session[q], AnsweredAgent(q))
    /\ pc[q] = "run" => HasAgent(session[q], input[q].target)

Sessions == \A q \in Requests : session[q] # None => HoldsKeyOf(q, session[q])

\* An answer names rows of the tenant, and only such.
Told ==
  \A q \in Requests : \A i \in told[q] :
    \E x \in tools \cup agents \cup runs : x.id = i /\ x.tenant = session[q]

\* The unique index guards a name that is not committed yet.
OpenNames ==
  \A q \in Requests : Open(q) /\ input[q].name # NoName =>
    /\ \A x \in agents : x.tenant = session[q] => x.name # input[q].name
    /\ \A p \in Requests \ {q} :
         Open(p) /\ session[p] = session[q] => input[p].name # input[q].name

ToolsBoundTo(q) == {b.tool : b \in {y \in bindings : y.agent = q}}

Whole ==
  \A q \in Requests :
    /\ (\E x \in agents : x.id = q) => ToolsBoundTo(q) = WantedTools(q)
    /\ input[q].op = "create_agent" /\ resp[q] = "ok" =>
         (\E x \in agents : x.id = q) /\ told[q] = {q} \cup WantedTools(q)

Rest ==
  /\ RowsOfRequests /\ OneRow /\ Places /\ Counts /\ Found
  /\ Sessions /\ Told /\ NoForeignReference /\ UniqueNames /\ OpenNames /\ Whole

IInv == TypeOK /\ Rest

-------------------------------------------------------------------------------
(* The steps, by what they do to the tables. *)

Others(q) ==
  \A p \in Requests \ {q} :
    /\ pc'[p] = pc[p] /\ session'[p] = session[p] /\ inserted'[p] = inserted[p]
    /\ resp'[p] = resp[p] /\ told'[p] = told[p]

FaultsKept == faults # 0 => faults' # 0

RowsKept == UNCHANGED <<input, tools, agents, bindings, runs>>

\* The handler ends without a row, or on its way to the answer.
Ended(q) ==
  /\ RowsKept /\ Others(q) /\ FaultsKept /\ keys \subseteq keys'
  /\ pc[q] # "done" /\ pc'[q] = "done"
  /\ session'[q] = session[q] /\ inserted'[q] = inserted[q]
  /\ told'[q] = {}
  /\ resp'[q] # "none"
  /\ resp'[q] = "ok" => input[q].op \in OpenOps
  /\ pc[q] = "bindings" => resp'[q] \in FaultAnswers /\ faults' # 0

\* The handler answers with ids.
Informed(q) ==
  /\ RowsKept /\ Others(q) /\ FaultsKept /\ keys' = keys
  /\ pc[q] \in {"handle", "bindings"} /\ pc'[q] = "done"
  /\ session'[q] = session[q] /\ inserted'[q] = inserted[q]
  /\ resp'[q] = "ok"
  /\ \/ /\ pc[q] = "handle" /\ input[q].op # "create_agent"
        /\ \A i \in told'[q] :
             \E x \in tools \cup agents \cup runs : x.id = i /\ x.tenant = session[q]
     \/ /\ pc[q] = "bindings"
        /\ told'[q] = {AnsweredAgent(q)} \cup
                        {b.tool : b \in {y \in bindings : Own(q, y) /\ y.agent = AnsweredAgent(q)}}

\* The handler goes on to its next statement.
Moved(q) ==
  /\ RowsKept /\ Others(q) /\ FaultsKept /\ keys' = keys
  /\ pc[q] \in {"handle", "check", "bind"}
  /\ session'[q] = session[q] /\ resp'[q] = resp[q] /\ told'[q] = told[q]

Moves(q) == InsertAgent(q) \/ CheckTool(q) \/ BindTool(q) \/ GetAgent(q)

Lost(q) == \E code \in FaultAnswers : Fault(q, code)

\* The row is there, whether the client is told or not.
Concludes(q, ids) == Reply(q, "ok", ids) \/ Lost(q)

WritesAgent(q) ==
  AgentCommitted(q) /\ ((Continue(q, "bindings") /\ UNCHANGED inserted) \/ Lost(q))

Writes(q) ==
  \/ ToolInserted(q) /\ Concludes(q, {q})
  \/ ToolMarked(q) /\ Concludes(q, {})
  \/ RunInserted(q) /\ Concludes(q, {q})
  \/ WritesAgent(q)

Still == UNCHANGED <<input, tables, pc, session, inserted, resp, told, faults>>

Types(q) ==
  /\ input[q] \in InputType
  /\ pc[q] \in PcType /\ session[q] \in Ids \cup {None}
  /\ inserted[q] \in Nat /\ resp[q] \in RespType /\ told[q] \subseteq Ids

LEMMA TypesOfRequest ==
  ASSUME TypeOK, NEW q \in Requests
  PROVE  Types(q)
BY InputAssumption DEF TypeOK, Types

LEMMA EndedSteps ==
  ASSUME TypeOK, Places, NEW q \in Requests,
         \/ InvalidKey(q) \/ CreateTenant(q) \/ RefuseTenant(q) \/ CreateApiKey(q)
         \/ ApiKeyNotInserted(q) \/ RefuseTool(q) \/ ToolNotDeleted(q) \/ RefuseAgent(q)
         \/ RefuseForeignTool(q) \/ RefuseRepeatedTool(q) \/ AgentNotFound(q)
         \/ RunNotFound(q) \/ DbError(q) \/ Interrupt(q)
         \/ TenantInserted(q) /\ Lost(q)
         \/ KeyInserted(q) /\ Lost(q)
         \/ GetAgentOfRun(q) /\ Blank(q)
  PROVE  Ended(q)
<1> USE DEF Ended, RowsKept, Others, FaultsKept, Refuse, Reply, End, At, tables, TypeOK, OpenOps, TenantOps
<1>1. CASE InvalidKey(q) \/ RefuseTenant(q) \/ ApiKeyNotInserted(q)
  BY <1>1 DEF InvalidKey, RefuseTenant, ApiKeyNotInserted
<1>2. CASE CreateTenant(q) \/ CreateApiKey(q)
  BY <1>2 DEF CreateTenant, CreateApiKey, TenantInserted, KeyInserted
<1>3. CASE RefuseTool(q) \/ ToolNotDeleted(q) \/ RefuseAgent(q)
  BY <1>3 DEF RefuseTool, ToolNotDeleted, RefuseAgent
<1>4. CASE RefuseForeignTool(q) \/ RefuseRepeatedTool(q) \/ AgentNotFound(q) \/ RunNotFound(q)
  BY <1>4 DEF RefuseForeignTool, RefuseRepeatedTool, AgentNotFound, RunNotFound
<1>5. CASE DbError(q) \/ Interrupt(q)
  BY <1>5 DEF DbError, Interrupt, Fault, FaultAnswers
<1>7. CASE (TenantInserted(q) \/ KeyInserted(q)) /\ Lost(q)
  BY <1>7 DEF TenantInserted, KeyInserted, Lost, Fault, FaultAnswers
<1>6. CASE GetAgentOfRun(q) /\ Blank(q)
  BY <1>6 DEF GetAgentOfRun
<1> QED BY <1>1, <1>2, <1>3, <1>4, <1>5, <1>6, <1>7

LEMMA InformedSteps ==
  ASSUME TypeOK, Places, NoForeignReference, NEW q \in Requests,
         ListTools(q) \/ ReadBindings(q) \/ GetRun(q) \/ GetTrace(q)
  PROVE  Informed(q)
<1> USE DEF Informed, RowsKept, Others, FaultsKept, Inform, Reply, End, At, tables, TypeOK
<1>1. CASE ListTools(q)
  BY <1>1 DEF ListTools, Own
<1>2. CASE ReadBindings(q)
  BY <1>2 DEF ReadBindings
<1>3. CASE GetRun(q)
  BY <1>3 DEF GetRun, Target, Own, NoForeignReference
<1>4. CASE GetTrace(q)
  BY <1>4 DEF GetTrace, Target, Own
<1> QED BY <1>1, <1>2, <1>3, <1>4

LEMMA MovedSteps ==
  ASSUME TypeOK, NEW q \in Requests,
         \/ InsertAgent(q) \/ CheckTool(q) \/ BindTool(q) \/ GetAgent(q)
         \/ GetAgentOfRun(q) /\ ~Blank(q)
  PROVE  Moved(q)
<1> USE DEF Moved, RowsKept, Others, FaultsKept, Continue, At, tables, TypeOK
<1>1. CASE InsertAgent(q) \/ GetAgent(q)
  BY <1>1 DEF InsertAgent, GetAgent
<1>2. CASE CheckTool(q) \/ BindTool(q)
  BY <1>2 DEF CheckTool, BindTool
<1>3. CASE GetAgentOfRun(q) /\ ~Blank(q)
  BY <1>3 DEF GetAgentOfRun
<1> QED BY <1>1, <1>2, <1>3

\* Every step is of one of these kinds.
LEMMA Kinds ==
  ASSUME TypeOK, Places, NoForeignReference, [Next]_vars
  PROVE  \/ Still
         \/ \E q \in Requests :
              \/ Ended(q) \/ Informed(q) \/ Authenticate(q) \/ Writes(q)
              \/ Moves(q) /\ Moved(q)
              \/ GetAgentOfRun(q) /\ ~Blank(q) /\ Moved(q)
<1>1. CASE UNCHANGED vars
  BY <1>1 DEF vars, Still
<1>2. ASSUME NEW q \in Requests, Arrive(q) \/ DbError(q) \/ Interrupt(q)
      PROVE  Ended(q) \/ Authenticate(q)
  BY <1>2, EndedSteps DEF Arrive
<1>4. ASSUME NEW q \in Requests, LostAnswer(q)
      PROVE  Ended(q) \/ Writes(q)
  <2>1. Written(q) /\ Lost(q)
    BY <1>4 DEF LostAnswer, Lost, FaultAnswers
  <2> QED BY <2>1, EndedSteps DEF Written, Writes, Concludes, WritesAgent
<1>3. ASSUME NEW q \in Requests, Handle(q)
      PROVE  \/ Ended(q) \/ Informed(q) \/ Writes(q)
             \/ Moves(q) /\ Moved(q)
             \/ GetAgentOfRun(q) /\ ~Blank(q) /\ Moved(q)
  <2>1. CASE ListTools(q) \/ ReadBindings(q) \/ GetRun(q) \/ GetTrace(q)
    BY <2>1, InformedSteps
  <2>2. CASE Moves(q)
    BY <2>2, MovedSteps DEF Moves
  <2>4. CASE GetAgentOfRun(q)
    <3>1. CASE Blank(q)
      BY <2>4, <3>1, EndedSteps
    <3>2. CASE ~Blank(q)
      BY <2>4, <3>2, MovedSteps
    <3> QED BY <3>1, <3>2
  <2>3. CASE \/ RefuseTool(q) \/ ToolNotDeleted(q) \/ RefuseAgent(q) \/ RefuseForeignTool(q)
             \/ RefuseRepeatedTool(q) \/ AgentNotFound(q) \/ RunNotFound(q)
    BY <2>3, EndedSteps
  <2>5. CASE CreateTool(q) \/ DeleteTool(q) \/ CommitAgent(q) \/ InsertRun(q)
    BY <2>5 DEF CreateTool, DeleteTool, CommitAgent, InsertRun, Writes, Concludes, WritesAgent
  <2> QED BY <1>3, <2>1, <2>2, <2>3, <2>4, <2>5 DEF Handle, Moves
<1> QED BY <1>1, <1>2, <1>3, <1>4 DEF Next, Terminating

\* Only the four writers touch the rows of the store.
LEMMA WritersKeep ==
  ASSUME TypeOK, NEW q \in Requests, Writes(q)
  PROVE  /\ Others(q) /\ FaultsKept /\ input' = input /\ keys' = keys /\ pc[q] # "done"
         /\ session' = session /\ inserted' = inserted
<1> USE DEF Others, FaultsKept, Concludes, Lost, Fault, Reply, End, Continue, At, TypeOK
<1>1. CASE (ToolInserted(q) /\ Concludes(q, {q})) \/ (ToolMarked(q) /\ Concludes(q, {}))
  BY <1>1 DEF ToolInserted, ToolMarked
<1>2. CASE WritesAgent(q) \/ (RunInserted(q) /\ Concludes(q, {q}))
  BY <1>2 DEF WritesAgent, AgentCommitted, RunInserted
<1> QED BY <1>1, <1>2 DEF Writes

\* How a handler ends that has written.
LEMMA Concluded ==
  ASSUME TypeOK, NEW q \in Requests, NEW ids, Concludes(q, ids)
  PROVE  /\ pc'[q] = "done" /\ resp'[q] # "none"
         /\ told'[q] = ids \/ told'[q] = {}
BY DEF Concludes, Reply, Lost, Fault, End, TypeOK, FaultAnswers

-------------------------------------------------------------------------------
(* Types *)

LEMMA WantedTyped ==
  ASSUME TypeOK, NEW q \in Requests
  PROVE  /\ Wanted(q) \in Seq(Ids) /\ Len(Wanted(q)) \in Nat
         /\ \A k \in 1..Len(Wanted(q)) : Wanted(q)[k] \in Ids
<1>1. Wanted(q) \in Seq(Ids)
  BY TypesOfRequest DEF Types, InputType, Wanted
<1> QED BY <1>1

\* Everything of TypeOK but the rows.
Control ==
  /\ DOMAIN input = Requests /\ \A q \in Requests : input[q] \in Inputs[q]
  /\ pc \in [Requests -> PcType]
  /\ session \in [Requests -> Ids \cup {None}]
  /\ inserted \in [Requests -> Nat]
  /\ \A q \in Requests : inserted[q] <= Len(Wanted(q))
  /\ resp \in [Requests -> RespType]
  /\ told \in [Requests -> SUBSET Ids]
  /\ faults \in 0..MaxFaults

Rows ==
  /\ tenants \subseteq Ids
  /\ keys \subseteq KeyRow /\ bindings \subseteq Binding
  /\ tools \subseteq ToolRow /\ agents \subseteq AgentRow /\ runs \subseteq RunRow
  /\ \A x, y \in tools : x.id = y.id => x = y

LEMMA TypeParts == TypeOK <=> Control /\ Rows
BY DEF TypeOK, Control, Rows

LEMMA ReplyTyped ==
  ASSUME Control, NEW q \in Requests, NEW code \in RespType, NEW ids \in SUBSET Ids,
         Reply(q, code, ids)
  PROVE  Control'
BY DEF Control, Reply, End, PcType, Wanted

LEMMA FaultTyped ==
  ASSUME Control, NEW q \in Requests, NEW code \in RespType, Fault(q, code)
  PROVE  Control'
BY FaultAssumption DEF Control, Fault, End, PcType, Wanted

LEMMA LostTyped ==
  ASSUME Control, NEW q \in Requests, Lost(q)
  PROVE  Control'
BY FaultTyped DEF Lost, FaultAnswers, RespType

LEMMA ConcludesTyped ==
  ASSUME Control, NEW q \in Requests, NEW ids \in SUBSET Ids, Concludes(q, ids)
  PROVE  Control'
BY ReplyTyped, LostTyped DEF Concludes, RespType

LEMMA RefuseTyped ==
  ASSUME Control, Rows, NEW q \in Requests, NEW code \in RespType, Refuse(q, code)
  PROVE  Control' /\ Rows'
<1>1. Control'
  BY ReplyTyped DEF Refuse
<1> QED BY <1>1 DEF Refuse, Rows, tables

LEMMA InformTyped ==
  ASSUME Control, Rows, NEW q \in Requests, NEW ids \in SUBSET Ids, Inform(q, ids)
  PROVE  Control' /\ Rows'
<1>1. Control'
  BY ReplyTyped DEF Inform, RespType
<1> QED BY <1>1 DEF Inform, Rows, tables

LEMMA ContinueTyped ==
  ASSUME Control, NEW q \in Requests, NEW to \in PcType, Continue(q, to),
         inserted' \in [Requests -> Nat],
         \A p \in Requests : inserted'[p] <= Len(Wanted(p))
  PROVE  Control'
BY DEF Control, Continue, Wanted

LEMMA RowsOfTenants ==
  ASSUME Rows, NEW q \in Requests, TenantInserted(q) \/ KeyInserted(q)
  PROVE  Rows'
<1>1. CASE TenantInserted(q)
  BY <1>1 DEF TenantInserted, Rows, Ids
<1>2. CASE KeyInserted(q)
  <2>1. input[q].target \in Ids
    BY <1>2 DEF KeyInserted, Rows
  <2> QED BY <1>2, <2>1 DEF KeyInserted, Rows, KeyRow, Ids
<1> QED BY <1>1, <1>2

LEMMA RowsOfTools ==
  ASSUME IInv, NEW q \in Requests, ToolInserted(q) \/ ToolMarked(q)
  PROVE  Rows'
<1>0. Control /\ Rows
  BY TypeParts DEF IInv
<1>3. CASE ToolInserted(q)
  <2>2. session[q] \in Ids /\ input[q].name \in Names
    BY <1>0, <1>3, InputAssumption DEF ToolInserted, At, IInv, Rest, Places, Control
  <2>3. \A x \in tools : x.id # q
    BY <1>3 DEF ToolInserted, At, IInv, Rest, RowsOfRequests
  <2> DEFINE new == [id |-> q, tenant |-> session[q], name |-> input[q].name,
                     deleted |-> FALSE]
  <2>4. new \in ToolRow /\ new.id = q
    BY <2>2 DEF ToolRow, Ids
  <2>5. tools' = tools \cup {new}
    BY <1>3 DEF ToolInserted
  <2> HIDE DEF new
  <2> QED BY <1>0, <1>3, <2>3, <2>4, <2>5 DEF ToolInserted, Rows
<1>4. CASE ToolMarked(q)
  <2>2. \A x \in tools : [x EXCEPT !.deleted = TRUE] \in ToolRow
                         /\ [x EXCEPT !.deleted = TRUE].id = x.id
    BY <1>0 DEF Rows, ToolRow
  <2>3. Deletable(q) \subseteq tools
    BY DEF Deletable, Target
  <2>4. \A x, y \in Deletable(q) : x = y
    BY <1>0 DEF Rows, Deletable, Target
  <2>5. PICK x \in Deletable(q) :
          tools' = (tools \ {x}) \cup {[x EXCEPT !.deleted = TRUE]}
    BY <1>4, <2>4 DEF ToolMarked
  <2> QED BY <1>0, <1>4, <2>2, <2>3, <2>5 DEF ToolMarked, Rows
<1> QED BY <1>3, <1>4

LEMMA RowsOfRuns ==
  ASSUME IInv, NEW q \in Requests, RunInserted(q)
  PROVE  Rows'
<1>0. Control /\ Rows
  BY TypeParts DEF IInv
<1>1. session[q] \in Ids /\ input[q].target \in Ids
  BY <1>0 DEF RunInserted, IInv, Rest, Places, Found, HasAgent, Rows, AgentRow
<1> QED BY <1>0, <1>1 DEF RunInserted, Rows, RunRow, Ids

LEMMA TypeArrive ==
  ASSUME IInv, NEW q \in Requests, Arrive(q) \/ DbError(q) \/ Interrupt(q)
  PROVE  TypeOK'
<1> SUFFICES Control' /\ Rows'
  BY DEF TypeOK, Control, Rows
<1>0. Control /\ Rows
  BY TypeParts DEF IInv
<1>1. CASE Authenticate(q)
  BY <1>0, <1>1 DEF Authenticate, FoundByPrefix, Control, Rows, KeyRow, PcType, tables, Wanted
<1>2. CASE InvalidKey(q) \/ RefuseTenant(q) \/ ApiKeyNotInserted(q)
  BY <1>0, <1>2, RefuseTyped DEF InvalidKey, RefuseTenant, ApiKeyNotInserted, RespType
<1>3. CASE CreateTenant(q) \/ CreateApiKey(q)
  <2>1. Control'
    BY <1>0, <1>3, ReplyTyped DEF CreateTenant, CreateApiKey, RespType
  <2> QED BY <1>0, <1>3, <2>1, RowsOfTenants DEF CreateTenant, CreateApiKey
<1>5. CASE DbError(q) \/ Interrupt(q)
  <2>1. Control'
    BY <1>0, <1>5, FaultTyped DEF DbError, Interrupt, RespType
  <2> QED BY <1>0, <1>5, <2>1 DEF DbError, Interrupt, Rows, tables
<1> QED BY <1>1, <1>2, <1>3, <1>5 DEF Arrive

LEMMA TypeTools ==
  ASSUME IInv, NEW q \in Requests,
         CreateTool(q) \/ RefuseTool(q) \/ ListTools(q) \/ DeleteTool(q) \/ ToolNotDeleted(q)
  PROVE  TypeOK'
<1> SUFFICES Control' /\ Rows'
  BY DEF TypeOK, Control, Rows
<1>0. Control /\ Rows
  BY TypeParts DEF IInv
<1>1. CASE RefuseTool(q) \/ ToolNotDeleted(q)
  BY <1>0, <1>1, RefuseTyped DEF RefuseTool, ToolNotDeleted, RespType
<1>2. CASE ListTools(q)
  <2>1. {x.id : x \in {y \in tools : Own(q, y) /\ ~y.deleted}} \in SUBSET Ids
    BY <1>0 DEF Rows, ToolRow
  <2> QED BY <1>0, <1>2, <2>1, InformTyped DEF ListTools
<1>3. CASE CreateTool(q) \/ DeleteTool(q)
  <2>1. Control'
    BY <1>0, <1>3, ReplyTyped DEF CreateTool, DeleteTool, RespType, Ids
  <2> QED BY <1>3, <2>1, RowsOfTools DEF CreateTool, DeleteTool
<1> QED BY <1>1, <1>2, <1>3

LEMMA BindingsTyped ==
  ASSUME IInv, NEW q \in Requests, pc[q] = "commit"
  PROVE  BindingsOf(q) \subseteq Binding
<1>1. session[q] \in Ids /\ inserted[q] = Len(Wanted(q))
  BY DEF IInv, Rest, Places, Counts
<1>2. \A k \in 1..inserted[q] : Wanted(q)[k] \in Ids
  BY <1>1, WantedTyped DEF IInv
<1> QED BY <1>1, <1>2 DEF BindingsOf, Binding, Ids

LEMMA RowsOfAgents ==
  ASSUME IInv, NEW q \in Requests, AgentCommitted(q)
  PROVE  Rows'
<1>0. Control /\ Rows
  BY TypeParts DEF IInv
<1>1. session[q] \in Ids /\ input[q].name \in Names \cup {NoName}
  BY TypesOfRequest DEF AgentCommitted, IInv, Rest, Places, Types, InputType
<1> QED BY <1>0, <1>1, BindingsTyped DEF AgentCommitted, Rows, AgentRow, Ids

LEMMA TypeLost ==
  ASSUME IInv, NEW q \in Requests, LostAnswer(q)
  PROVE  TypeOK'
<1>0. Control /\ Rows
  BY TypeParts DEF IInv
<1>1. Lost(q) /\ Written(q)
  BY DEF LostAnswer, Lost, FaultAnswers
<1>2. Control'
  BY <1>0, <1>1, LostTyped
<1>3. Rows'
  BY <1>0, <1>1, RowsOfTenants, RowsOfTools, RowsOfAgents, RowsOfRuns DEF Written
<1> QED BY <1>2, <1>3 DEF TypeOK, Control, Rows

LEMMA AnswerTyped ==
  ASSUME IInv, NEW q \in Requests, pc[q] = "bindings"
  PROVE  {AnsweredAgent(q)} \cup
           {b.tool : b \in {y \in bindings : Own(q, y) /\ y.agent = AnsweredAgent(q)}}
         \in SUBSET Ids
<1>1. AnsweredAgent(q) \in Ids
  BY DEF IInv, Rest, Found, HasAgent, TypeOK, AgentRow
<1>2. \A b \in bindings : b.tool \in Ids
  BY DEF IInv, TypeOK, Binding
<1> QED BY <1>1, <1>2

LEMMA TypeAgents ==
  ASSUME IInv, NEW q \in Requests,
         \/ InsertAgent(q) \/ RefuseAgent(q) \/ CheckTool(q) \/ RefuseForeignTool(q)
         \/ BindTool(q) \/ RefuseRepeatedTool(q) \/ CommitAgent(q) \/ ReadBindings(q)
  PROVE  TypeOK'
<1> SUFFICES Control' /\ Rows'
  BY DEF TypeOK, Control, Rows
<1>0. Control /\ Rows
  BY TypeParts DEF IInv
<1>1. CASE RefuseAgent(q) \/ RefuseForeignTool(q) \/ RefuseRepeatedTool(q)
  BY <1>0, <1>1, RefuseTyped DEF RefuseAgent, RefuseForeignTool, RefuseRepeatedTool, RespType
<1>2. CASE InsertAgent(q) \/ CheckTool(q)
  <2>1. UNCHANGED inserted /\ UNCHANGED tables /\ \E to \in PcType : Continue(q, to)
    BY <1>2 DEF InsertAgent, CheckTool, AfterBinding, PcType
  <2> QED BY <1>0, <2>1, ContinueTyped DEF Control, Rows, tables
<1>3. CASE BindTool(q)
  <2>1. UNCHANGED tables /\ \E to \in PcType : Continue(q, to)
    BY <1>3 DEF BindTool, AfterBinding, PcType
  <2>2. inserted' = [inserted EXCEPT ![q] = @ + 1] /\ inserted[q] < Len(Wanted(q))
    BY <1>3 DEF BindTool, IInv, Rest, Counts
  <2>3. /\ inserted' \in [Requests -> Nat]
        /\ \A p \in Requests : inserted'[p] <= Len(Wanted(p))
    BY <1>0, <2>2, WantedTyped DEF Control, IInv
  <2> QED BY <1>0, <2>1, <2>3, ContinueTyped DEF Rows, tables
<1>4. CASE CommitAgent(q)
  <2>1. Control'
    BY <1>0, <1>4, ContinueTyped DEF CommitAgent, Control, PcType
  <2> QED BY <1>4, <2>1, RowsOfAgents DEF CommitAgent
<1>5. CASE ReadBindings(q)
  BY <1>0, <1>5, AnswerTyped, InformTyped DEF ReadBindings
<1> QED BY <1>1, <1>2, <1>3, <1>4, <1>5

LEMMA TypeQueries ==
  ASSUME IInv, NEW q \in Requests,
         \/ GetAgent(q) \/ AgentNotFound(q) \/ GetAgentOfRun(q) \/ InsertRun(q)
         \/ GetRun(q) \/ RunNotFound(q) \/ GetTrace(q)
  PROVE  TypeOK'
<1> SUFFICES Control' /\ Rows'
  BY DEF TypeOK, Control, Rows
<1>0. Control /\ Rows
  BY TypeParts DEF IInv
<1>1. CASE AgentNotFound(q) \/ RunNotFound(q)
  BY <1>0, <1>1, RefuseTyped DEF AgentNotFound, RunNotFound, RespType
<1>2. CASE GetAgent(q)
  BY <1>0, <1>2, ContinueTyped DEF GetAgent, Control, Rows, tables, PcType
<1>5. CASE GetAgentOfRun(q)
  <2>1. CASE Blank(q)
    BY <1>0, <1>5, <2>1, RefuseTyped DEF GetAgentOfRun, RespType
  <2>2. CASE ~Blank(q)
    BY <1>0, <1>5, <2>2, ContinueTyped DEF GetAgentOfRun, Control, Rows, tables, PcType
  <2> QED BY <2>1, <2>2
<1>3. CASE InsertRun(q)
  <2>1. Control'
    BY <1>0, <1>3, ReplyTyped DEF InsertRun, RespType, Ids
  <2> QED BY <1>3, <2>1, RowsOfRuns DEF InsertRun
<1>4. CASE GetRun(q) \/ GetTrace(q)
  <2>1. \A r \in Target(q, runs) : r.id \in Ids /\ r.agent \in Ids
    BY <1>0 DEF Target, Rows, RunRow
  <2> QED BY <1>0, <1>4, <2>1, InformTyped DEF GetRun, GetTrace
<1> QED BY <1>1, <1>2, <1>3, <1>4, <1>5

LEMMA TypeStep == IInv /\ [Next]_vars => TypeOK'
<1> SUFFICES ASSUME IInv, [Next]_vars PROVE TypeOK'
  OBVIOUS
<1>1. CASE UNCHANGED vars
  BY <1>1 DEF vars, tables, IInv, TypeOK, Wanted
<1>2. ASSUME NEW q \in Requests,
             Arrive(q) \/ Handle(q) \/ DbError(q) \/ Interrupt(q) \/ LostAnswer(q)
      PROVE  TypeOK'
  <2>1. CASE Arrive(q) \/ DbError(q) \/ Interrupt(q)
    BY <2>1, TypeArrive
  <2>5. CASE LostAnswer(q)
    BY <2>5, TypeLost
  <2>2. CASE CreateTool(q) \/ RefuseTool(q) \/ ListTools(q) \/ DeleteTool(q) \/ ToolNotDeleted(q)
    BY <2>2, TypeTools
  <2>3. CASE \/ InsertAgent(q) \/ RefuseAgent(q) \/ CheckTool(q) \/ RefuseForeignTool(q)
             \/ BindTool(q) \/ RefuseRepeatedTool(q) \/ CommitAgent(q) \/ ReadBindings(q)
    BY <2>3, TypeAgents
  <2>4. CASE \/ GetAgent(q) \/ AgentNotFound(q) \/ GetAgentOfRun(q) \/ InsertRun(q)
             \/ GetRun(q) \/ RunNotFound(q) \/ GetTrace(q)
    BY <2>4, TypeQueries
  <2> QED BY <1>2, <2>1, <2>2, <2>3, <2>4, <2>5 DEF Handle
<1> QED BY <1>1, <1>2 DEF Next, Terminating

-------------------------------------------------------------------------------
(* Steps that keep the rows *)

\* What q is told, and what is said of its place, is about q only.
LEMMA StoreKept ==
  ASSUME IInv, RowsKept
  PROVE  OneRow' /\ NoForeignReference' /\ UniqueNames'
BY DEF IInv, Rest, RowsKept, OneRow, NoForeignReference, UniqueNames

LEMMA EndedKeeps ==
  ASSUME IInv, NEW q \in Requests, Ended(q)
  PROVE  Rest'
<1> USE DEF IInv, Rest, Ended, RowsKept, Others, FaultsKept
<1>1. OneRow' /\ NoForeignReference' /\ UniqueNames'
  BY StoreKept
<1>2. RowsOfRequests'
  BY DEF RowsOfRequests, OpenOps
<1>3. Places' /\ Counts'
  BY DEF Places, Counts, Wanted
<1>4. Found'
  BY DEF Found, HasTool, HasAgent, Wanted, NextTool, AnsweredAgent
<1>5. Sessions'
  BY DEF Sessions, HoldsKeyOf
<1>6. Told'
  BY DEF Told
<1>7. OpenNames'
  BY DEF OpenNames, Open
<1>8. Whole'
  <2>1. \A p : ToolsBoundTo(p)' = ToolsBoundTo(p) /\ WantedTools(p)' = WantedTools(p)
    BY DEF ToolsBoundTo, WantedTools, Wanted
  <2>2. input[q].op = "create_agent" => resp'[q] # "ok"
    BY DEF OpenOps
  <2> QED BY <2>1, <2>2 DEF Whole
<1> QED BY <1>1, <1>2, <1>3, <1>4, <1>5, <1>6, <1>7, <1>8

LEMMA OwnBindings ==
  ASSUME IInv, NEW q \in Requests, pc[q] = "bindings"
  PROVE  /\ \A b \in bindings : Own(q, b) =>
              \E x \in tools : x.id = b.tool /\ x.tenant = session[q]
         /\ input[q].op = "create_agent" =>
              /\ {b.tool : b \in {y \in bindings : Own(q, y) /\ y.agent = q}} = WantedTools(q)
              /\ \E x \in agents : x.id = q
<1> USE DEF IInv, Rest
<1>1. \A b \in bindings : Own(q, b) =>
        \E x \in tools : x.id = b.tool /\ x.tenant = session[q]
  BY DEF NoForeignReference, Own
<1>2. ASSUME input[q].op = "create_agent"
      PROVE  /\ {b.tool : b \in {y \in bindings : Own(q, y) /\ y.agent = q}} = WantedTools(q)
             /\ \E x \in agents : x.id = q
  <2>1. PICK x \in agents : x.id = q /\ x.tenant = session[q]
    BY <1>2 DEF Found, HasAgent, AnsweredAgent
  <2>2. \A b \in bindings : b.agent = q => Own(q, b)
    BY <2>1 DEF NoForeignReference, OneRow, Own
  <2>3. ToolsBoundTo(q) = WantedTools(q)
    BY <2>1 DEF Whole
  <2>4. {b.tool : b \in {y \in bindings : Own(q, y) /\ y.agent = q}} = ToolsBoundTo(q)
    BY <2>2 DEF ToolsBoundTo
  <2> QED BY <2>1, <2>3, <2>4
<1> QED BY <1>1, <1>2

LEMMA InformedKeeps ==
  ASSUME IInv, NEW q \in Requests, Informed(q)
  PROVE  Rest'
<1> USE DEF IInv, Rest, Informed, RowsKept, Others, FaultsKept
<1>1. OneRow' /\ NoForeignReference' /\ UniqueNames'
  BY StoreKept
<1>2. RowsOfRequests'
  BY DEF RowsOfRequests
<1>3. Places' /\ Counts'
  BY DEF Places, Counts, Wanted
<1>4. Found'
  BY DEF Found, HasTool, HasAgent, Wanted, NextTool, AnsweredAgent
<1>5. Sessions'
  BY DEF Sessions, HoldsKeyOf
<1>6. Told'
  <2>1. ASSUME NEW i \in told'[q]
        PROVE  \E x \in tools \cup agents \cup runs : x.id = i /\ x.tenant = session[q]
    <3>1. CASE pc[q] = "bindings"
      BY <3>1, OwnBindings DEF Found, HasAgent
    <3>2. CASE pc[q] = "handle"
      BY <3>2
    <3> QED BY <3>1, <3>2
  <2>2. \A p \in Requests \ {q} : \A i \in told'[p] :
          \E x \in tools \cup agents \cup runs : x.id = i /\ x.tenant = session'[p]
    BY DEF Told
  <2> QED BY <2>1, <2>2 DEF Told
<1>7. OpenNames'
  BY DEF OpenNames, Open
<1>8. Whole'
  <2>1. \A p : ToolsBoundTo(p)' = ToolsBoundTo(p) /\ WantedTools(p)' = WantedTools(p)
    BY DEF ToolsBoundTo, WantedTools, Wanted
  <2>2. input[q].op = "create_agent" =>
          (\E x \in agents : x.id = q) /\ told'[q] = {q} \cup WantedTools(q)
    BY OwnBindings DEF AnsweredAgent
  <2> QED BY <2>1, <2>2 DEF Whole
<1> QED BY <1>1, <1>2, <1>3, <1>4, <1>5, <1>6, <1>7, <1>8

LEMMA MovedStore ==
  ASSUME IInv, NEW q \in Requests, Moved(q)
  PROVE  /\ OneRow' /\ NoForeignReference' /\ UniqueNames' /\ RowsOfRequests'
         /\ Sessions' /\ Told' /\ Whole'
<1> USE DEF IInv, Rest, Moved, RowsKept, Others, FaultsKept
<1>1. OneRow' /\ NoForeignReference' /\ UniqueNames'
  BY StoreKept
<1>2. RowsOfRequests'
  BY DEF RowsOfRequests
<1>3. Sessions'
  BY DEF Sessions, HoldsKeyOf
<1>4. Told'
  BY DEF Told
<1>5. Whole'
  <2>1. \A p : ToolsBoundTo(p)' = ToolsBoundTo(p) /\ WantedTools(p)' = WantedTools(p)
    BY DEF ToolsBoundTo, WantedTools, Wanted
  <2>2. \A p \in Requests : resp'[p] = resp[p] /\ told'[p] = told[p]
    OBVIOUS
  <2> QED BY <2>1, <2>2 DEF Whole
<1> QED BY <1>1, <1>2, <1>3, <1>4, <1>5

\* Where a move may lead.
LEMMA MovedControl ==
  ASSUME IInv, NEW q \in Requests, Moved(q),
         (pc'[q] \in {"check", "bind", "commit"} => input[q].op = "create_agent"),
         (pc'[q] = "bindings" => input[q].op \in {"create_agent", "get_agent"}),
         (pc'[q] = "run" => input[q].op = "start_run"),
         pc'[q] \notin {"idle", "handle", "done"},
         (pc'[q] \in {"check", "bind"} => inserted'[q] < Len(Wanted(q))),
         (pc'[q] = "commit" => inserted'[q] = Len(Wanted(q)))
  PROVE  Places' /\ Counts'
<1> USE DEF IInv, Rest, Moved, RowsKept, Others
<1>1. Places'
  BY DEF Places
<1>2. Counts'
  BY DEF Counts, Wanted
<1> QED BY <1>1, <1>2

LEMMA MovedFound ==
  ASSUME IInv, NEW q \in Requests, Moved(q),
         (pc'[q] \in {"check", "bind", "commit"} =>
            \A k \in 1..inserted'[q] : HasTool(session[q], Wanted(q)[k])),
         (pc'[q] = "bind" => HasTool(session[q], Wanted(q)[inserted'[q] + 1])),
         (pc'[q] = "bindings" => HasAgent(session[q], AnsweredAgent(q))),
         (pc'[q] = "run" => HasAgent(session[q], input[q].target))
  PROVE  Found'
BY DEF IInv, Rest, Moved, RowsKept, Others, Found, HasTool, HasAgent, Wanted, NextTool,
       AnsweredAgent

LEMMA MovedOpen ==
  ASSUME IInv, NEW q \in Requests, Moved(q), Open(q)' => Open(q)
  PROVE  OpenNames'
BY DEF IInv, Rest, Moved, RowsKept, Others, OpenNames, Open

LEMMA InsertAgentKeeps ==
  ASSUME IInv, NEW q \in Requests, InsertAgent(q), Moved(q)
  PROVE  Rest'
<1> USE DEF IInv, Rest
<1>1. /\ pc[q] = "handle" /\ input[q].op = "create_agent"
      /\ pc'[q] = AfterBinding(q, 0) /\ inserted' = inserted /\ inserted[q] = 0
  BY DEF InsertAgent, At, Continue, Counts, TypeOK
<1>2. Len(Wanted(q)) \in Nat
  BY WantedTyped
<1>3. Places' /\ Counts'
  BY <1>1, <1>2, MovedControl DEF AfterBinding
<1>4. Found'
  BY <1>1, MovedFound DEF AfterBinding
<1>5. OpenNames'
  <2>1. \A x \in agents :
          x.tenant = session[q] /\ x.name # NoName => x.name # input[q].name
    BY DEF InsertAgent, AgentNameTaken, Own
  <2>2. \A p \in Requests :
          Open(p) /\ session[p] = session[q] /\ input[q].name # NoName
            => input[p].name # input[q].name
    BY DEF InsertAgent, AwaitsName
  <2>3. \A p \in Requests \ {q} : Open(p)' = Open(p)
    BY DEF Moved, Others, Open
  <2> QED BY <2>1, <2>2, <2>3 DEF OpenNames, Moved, RowsKept, Others
<1> QED BY <1>3, <1>4, <1>5, MovedStore

LEMMA CheckToolKeeps ==
  ASSUME IInv, NEW q \in Requests, CheckTool(q), Moved(q)
  PROVE  Rest'
<1> USE DEF IInv, Rest
<1>1. pc[q] = "check" /\ pc'[q] = "bind" /\ inserted' = inserted
  BY DEF CheckTool, Continue, TypeOK
<1>2. Places' /\ Counts'
  BY <1>1, MovedControl DEF Places, Counts
<1>3. HasTool(session[q], NextTool(q))
  BY DEF CheckTool, Exists, HasTool, Own
<1>4. Found'
  BY <1>1, <1>3, MovedFound DEF Found, NextTool
<1>5. OpenNames'
  BY <1>1, MovedOpen DEF Open
<1> QED BY <1>2, <1>4, <1>5, MovedStore

LEMMA BindToolKeeps ==
  ASSUME IInv, NEW q \in Requests, BindTool(q), Moved(q)
  PROVE  Rest'
<1> USE DEF IInv, Rest
<1>1. /\ pc[q] = "bind" /\ pc'[q] = AfterBinding(q, inserted[q] + 1)
      /\ inserted'[q] = inserted[q] + 1 /\ inserted[q] \in Nat
  BY DEF BindTool, Continue, TypeOK
<1>2. Len(Wanted(q)) \in Nat /\ inserted[q] < Len(Wanted(q))
  BY <1>1, WantedTyped DEF Counts
<1>3. Places' /\ Counts'
  BY <1>1, <1>2, MovedControl DEF AfterBinding, Places
<1>4. \A k \in 1..(inserted[q] + 1) : HasTool(session[q], Wanted(q)[k])
  <2> TAKE k \in 1..(inserted[q] + 1)
  <2>1. CASE k = inserted[q] + 1
    BY <1>1, <2>1 DEF Found, NextTool
  <2>2. CASE k \in 1..inserted[q]
    BY <1>1, <2>2 DEF Found
  <2> QED BY <1>1, <2>1, <2>2
<1>5. Found'
  BY <1>1, <1>4, MovedFound DEF AfterBinding
<1>6. OpenNames'
  BY <1>1, MovedOpen DEF Open
<1> QED BY <1>3, <1>5, <1>6, MovedStore

LEMMA GetAgentKeeps ==
  ASSUME IInv, NEW q \in Requests, Moved(q),
         GetAgent(q) \/ (GetAgentOfRun(q) /\ pc'[q] = "run")
  PROVE  Rest'
<1> USE DEF IInv, Rest
<1>1. \E x \in Target(q, agents) : x.tenant = session[q] /\ x.id = input[q].target
  BY DEF GetAgent, GetAgentOfRun, Target, Own
<1>2. HasAgent(session[q], input[q].target)
  BY <1>1 DEF HasAgent, Target
<1>3. \/ pc'[q] = "bindings" /\ input[q].op = "get_agent"
      \/ pc'[q] = "run" /\ input[q].op = "start_run"
  BY DEF GetAgent, GetAgentOfRun, At, Continue, TypeOK
<1>4. Places' /\ Counts'
  BY <1>3, MovedControl
<1>5. Found'
  BY <1>2, <1>3, MovedFound DEF AnsweredAgent
<1>6. OpenNames'
  BY <1>3, MovedOpen DEF Open
<1> QED BY <1>4, <1>5, <1>6, MovedStore

LEMMA AuthenticateKeeps ==
  ASSUME IInv, NEW q \in Requests, Authenticate(q)
  PROVE  Rest'
<1> USE DEF IInv, Rest
<1>1. /\ RowsKept /\ keys' = keys /\ inserted' = inserted /\ resp' = resp /\ told' = told
      /\ faults' = faults /\ pc[q] = "idle" /\ pc'[q] = "handle"
      /\ \A p \in Requests \ {q} : pc'[p] = pc[p] /\ session'[p] = session[p]
  BY DEF Authenticate, RowsKept, tables, At, TypeOK
<1>2. PICK k \in keys : /\ k.id = input[q].key /\ input[q].genuine
                        /\ session'[q] = k.tenant
  BY DEF Authenticate, FoundByPrefix, Verified, TypeOK
<1>3. session'[q] \in Ids
  BY <1>2 DEF TypeOK, KeyRow
<1> USE <1>1 DEF RowsKept
<1>4. OneRow' /\ NoForeignReference' /\ UniqueNames'
  BY StoreKept
<1>5. RowsOfRequests'
  BY DEF RowsOfRequests
<1>6. Places' /\ Counts'
  BY <1>3 DEF Places, Counts, Wanted
<1>7. Found'
  BY DEF Found, HasTool, HasAgent, Wanted, NextTool, AnsweredAgent
<1>8. Sessions'
  BY <1>2 DEF Sessions, HoldsKeyOf
<1>9. Told'
  <2>1. told'[q] = {}
    BY DEF Places
  <2> QED BY <2>1 DEF Told
<1>10. OpenNames'
  BY DEF OpenNames, Open
<1>11. Whole'
  <2>1. \A p : ToolsBoundTo(p)' = ToolsBoundTo(p) /\ WantedTools(p)' = WantedTools(p)
    BY DEF ToolsBoundTo, WantedTools, Wanted
  <2> QED BY <2>1 DEF Whole
<1> QED BY <1>4, <1>5, <1>6, <1>7, <1>8, <1>9, <1>10, <1>11

-------------------------------------------------------------------------------
(* Steps that write rows *)

\* No row is named after a request that has not come so far.
LEMMA Fresh ==
  ASSUME IInv, NEW q \in Requests, pc[q] \notin {"bindings", "done"}
  PROVE  \A x \in tools \cup agents \cup runs : x.id # q
BY DEF IInv, Rest, RowsOfRequests

\* q has written a row and is done.
Answered(q) ==
  /\ pc[q] = "handle" \/ pc[q] = "run"
  /\ pc'[q] = "done" /\ resp'[q] # "none"
  /\ Others(q) /\ FaultsKept /\ input' = input /\ keys' = keys
  /\ session' = session /\ inserted' = inserted

LEMMA AnsweredKeeps ==
  ASSUME IInv, NEW q \in Requests, Answered(q)
  PROVE  Places' /\ Counts' /\ Sessions'
<1> USE DEF IInv, Rest, Answered, Others
<1>1. Places'
  BY DEF Places
<1>2. Counts'
  BY DEF Counts, Wanted
<1>3. Sessions'
  BY DEF Sessions, HoldsKeyOf
<1> QED BY <1>1, <1>2, <1>3

LEMMA CreateToolKeeps ==
  ASSUME IInv, NEW q \in Requests, ToolInserted(q), Concludes(q, {q})
  PROVE  Rest'
<1> DEFINE new == [id |-> q, tenant |-> session[q], name |-> input[q].name,
                   deleted |-> FALSE]
<1> USE DEF IInv, Rest
<1>1. /\ pc[q] = "handle" /\ input[q].op = "create_tool"
      /\ Answered(q) /\ told'[q] \subseteq {q}
      /\ tools' = tools \cup {new} /\ agents' = agents /\ runs' = runs
      /\ bindings' = bindings
  BY WritersKeep, Concluded DEF ToolInserted, Writes, Answered, At
<1>2. new.id = q /\ new.tenant = session[q] /\ new.name = input[q].name
  OBVIOUS
<1>3. \A x \in tools \cup agents \cup runs : x.id # q
  BY <1>1, Fresh
<1>4. \A x \in tools : Own(q, x) /\ x.name = input[q].name => x.deleted
  BY DEF ToolInserted, ToolNameTaken
<1> HIDE DEF new
<1> USE <1>1, <1>2, <1>3 DEF Answered, Others, FaultsKept
<1>5. Places' /\ Counts' /\ Sessions'
  BY AnsweredKeeps
<1>6. RowsOfRequests'
  BY DEF RowsOfRequests
<1>7. OneRow'
  BY DEF OneRow
<1>8. Found'
  BY DEF Found, HasTool, HasAgent, Wanted, NextTool, AnsweredAgent
<1>9. Told'
  BY DEF Told
<1>10. NoForeignReference'
  BY DEF NoForeignReference
<1>11. UniqueNames'
  BY <1>4 DEF UniqueNames, Own
<1>12. OpenNames'
  BY DEF OpenNames, Open
<1>13. Whole'
  <2>1. \A p : ToolsBoundTo(p)' = ToolsBoundTo(p) /\ WantedTools(p)' = WantedTools(p)
    BY DEF ToolsBoundTo, WantedTools, Wanted
  <2> QED BY <2>1 DEF Whole
<1> QED BY <1>5, <1>6, <1>7, <1>8, <1>9, <1>10, <1>11, <1>12, <1>13

LEMMA DeleteToolKeeps ==
  ASSUME IInv, NEW q \in Requests, ToolMarked(q), Concludes(q, {})
  PROVE  Rest'
<1> USE DEF IInv, Rest
<1>1. /\ pc[q] = "handle" /\ input[q].op = "delete_tool"
      /\ Answered(q) /\ told'[q] = {}
      /\ agents' = agents /\ runs' = runs /\ bindings' = bindings
  BY WritersKeep, Concluded DEF ToolMarked, Writes, Answered, At
<1>2. PICK x \in Deletable(q) : tools' = (tools \ {x}) \cup {[x EXCEPT !.deleted = TRUE]}
  BY DEF ToolMarked, Deletable, Target, OneRow
<1> DEFINE y == [x EXCEPT !.deleted = TRUE]
<1>3. /\ x \in tools /\ y.id = x.id /\ y.tenant = x.tenant /\ y.name = x.name /\ y.deleted
      /\ tools' = (tools \ {x}) \cup {y}
  BY <1>2 DEF Deletable, Target, TypeOK, ToolRow
<1> HIDE DEF y
<1>4. \A n, t : HasTool(n, t) => HasTool(n, t)'
  BY <1>3 DEF HasTool
<1> USE <1>1 DEF Answered, Others, FaultsKept
<1>5. Places' /\ Counts' /\ Sessions'
  BY AnsweredKeeps
<1>6. RowsOfRequests'
  BY <1>3 DEF RowsOfRequests
<1>7. OneRow'
  BY <1>3 DEF OneRow
<1>8. Found'
  BY <1>4 DEF Found, HasAgent, Wanted, NextTool, AnsweredAgent
<1>9. Told'
  BY <1>3 DEF Told
<1>10. NoForeignReference'
  BY <1>3 DEF NoForeignReference
<1>11. UniqueNames'
  BY <1>3 DEF UniqueNames
<1>12. OpenNames'
  BY DEF OpenNames, Open
<1>13. Whole'
  <2>1. \A p : ToolsBoundTo(p)' = ToolsBoundTo(p) /\ WantedTools(p)' = WantedTools(p)
    BY DEF ToolsBoundTo, WantedTools, Wanted
  <2> QED BY <2>1 DEF Whole
<1> QED BY <1>5, <1>6, <1>7, <1>8, <1>9, <1>10, <1>11, <1>12, <1>13

LEMMA InsertRunKeeps ==
  ASSUME IInv, NEW q \in Requests, RunInserted(q), Concludes(q, {q})
  PROVE  Rest'
<1> DEFINE new == [id |-> q, tenant |-> session[q], agent |-> input[q].target]
<1> USE DEF IInv, Rest
<1>1. /\ pc[q] = "run" /\ input[q].op = "start_run"
      /\ Answered(q) /\ told'[q] \subseteq {q}
      /\ runs' = runs \cup {new} /\ tools' = tools /\ agents' = agents
      /\ bindings' = bindings
  BY WritersKeep, Concluded DEF RunInserted, Writes, Answered, Places
<1>2. new.id = q /\ new.tenant = session[q] /\ new.agent = input[q].target
  OBVIOUS
<1>3. \A x \in tools \cup agents \cup runs : x.id # q
  BY <1>1, Fresh
<1>4. HasAgent(session[q], input[q].target)
  BY <1>1 DEF Found
<1> HIDE DEF new
<1> USE <1>1, <1>2, <1>3 DEF Answered, Others, FaultsKept
<1>5. Places' /\ Counts' /\ Sessions'
  BY AnsweredKeeps
<1>6. RowsOfRequests'
  BY DEF RowsOfRequests
<1>7. OneRow'
  BY DEF OneRow
<1>8. Found'
  BY DEF Found, HasTool, HasAgent, Wanted, NextTool, AnsweredAgent
<1>9. Told'
  BY DEF Told
<1>10. NoForeignReference'
  BY <1>4 DEF NoForeignReference, HasAgent
<1>11. UniqueNames'
  BY DEF UniqueNames
<1>12. OpenNames'
  BY DEF OpenNames, Open
<1>13. Whole'
  <2>1. \A p : ToolsBoundTo(p)' = ToolsBoundTo(p) /\ WantedTools(p)' = WantedTools(p)
    BY DEF ToolsBoundTo, WantedTools, Wanted
  <2> QED BY <2>1 DEF Whole
<1> QED BY <1>5, <1>6, <1>7, <1>8, <1>9, <1>10, <1>11, <1>12, <1>13

LEMMA CommitAgentKeeps ==
  ASSUME IInv, NEW q \in Requests, WritesAgent(q)
  PROVE  Rest'
<1> DEFINE new == [id |-> q, tenant |-> session[q], name |-> input[q].name]
<1> USE DEF IInv, Rest
<1>1. /\ pc[q] = "commit" /\ input[q].op = "create_agent"
      /\ Others(q) /\ FaultsKept /\ input' = input /\ keys' = keys
      /\ session' = session /\ inserted' = inserted
      /\ agents' = agents \cup {new} /\ bindings' = bindings \cup BindingsOf(q)
      /\ tools' = tools /\ runs' = runs
  BY WritersKeep DEF WritesAgent, AgentCommitted, Writes, Places
<1>0. /\ told'[q] = {}
      /\ \/ pc'[q] = "bindings" /\ resp'[q] = "none"
         \/ pc'[q] = "done" /\ resp'[q] \in FaultAnswers /\ faults' # 0
  BY <1>1 DEF WritesAgent, Continue, Lost, Fault, End, TypeOK, Places
<1>2. new.id = q /\ new.tenant = session[q] /\ new.name = input[q].name
  OBVIOUS
<1>3. \A x \in tools \cup agents \cup runs : x.id # q
  BY <1>1, Fresh
<1>4. inserted[q] = Len(Wanted(q))
  BY <1>1 DEF Counts
<1>5. \A b \in BindingsOf(q) :
        b.agent = q /\ b.tenant = session[q] /\ HasTool(session[q], b.tool)
  BY <1>1 DEF Found, BindingsOf
<1>6. {b.tool : b \in BindingsOf(q)} = WantedTools(q)
  <2> DEFINE row(k) == [tenant |-> session[q], agent |-> q, tool |-> Wanted(q)[k]]
  <2>1. \A k : row(k).tool = Wanted(q)[k]
    OBVIOUS
  <2>2. BindingsOf(q) = {row(k) : k \in 1..Len(Wanted(q))}
    BY <1>4 DEF BindingsOf
  <2> HIDE DEF row
  <2> QED BY <2>1, <2>2 DEF WantedTools
<1>7. \A b \in bindings : b.agent # q
  BY <1>3 DEF NoForeignReference
<1> HIDE DEF new
<1> USE <1>0, <1>1, <1>2, <1>3 DEF Others, FaultsKept, FaultAnswers
<1>8. Places' /\ Counts'
  BY DEF Places, Counts, Wanted
<1>9. Sessions'
  BY DEF Sessions, HoldsKeyOf
<1>10. RowsOfRequests'
  BY DEF RowsOfRequests
<1>11. OneRow'
  BY DEF OneRow
<1>12. Found'
  <2>1. HasAgent(session[q], q)'
    BY DEF HasAgent
  <2>2. \A n, t : HasTool(n, t)' = HasTool(n, t) /\ (HasAgent(n, t) => HasAgent(n, t)')
    BY DEF HasTool, HasAgent
  <2> QED BY <2>1, <2>2 DEF Found, Wanted, NextTool, AnsweredAgent
<1>13. Told'
  BY DEF Told
<1>14. NoForeignReference'
  <2>1. \A b \in bindings' :
          /\ \E x \in agents' : x.id = b.agent /\ x.tenant = b.tenant
          /\ \E t \in tools' : t.id = b.tool /\ t.tenant = b.tenant
    BY <1>5 DEF NoForeignReference, HasTool
  <2> QED BY <2>1 DEF NoForeignReference
<1>15. UniqueNames'
  <2>1. \A x \in agents : x.tenant = session[q] /\ x.name # NoName => x.name # input[q].name
    BY DEF OpenNames, Open
  <2> QED BY <2>1 DEF UniqueNames
<1>16. OpenNames'
  <2>1. ASSUME NEW p \in Requests, Open(p)', input[p].name # NoName
        PROVE  /\ \A x \in agents' : x.tenant = session[p] => x.name # input[p].name
               /\ \A r \in Requests \ {p} :
                    Open(r)' /\ session[r] = session[p] => input[r].name # input[p].name
    <3>1. p # q /\ Open(p) /\ Open(q) /\ \A r \in Requests : Open(r)' => Open(r)
      BY <2>1 DEF Open
    <3> QED BY <2>1, <3>1 DEF OpenNames
  <2> QED BY <2>1 DEF OpenNames
<1>17. Whole'
  <2>1. ToolsBoundTo(q)' = WantedTools(q)
    BY <1>5, <1>6, <1>7 DEF ToolsBoundTo
  <2>2. \A p \in Requests \ {q} : ToolsBoundTo(p)' = ToolsBoundTo(p)
    BY <1>5 DEF ToolsBoundTo
  <2>3. \A p : WantedTools(p)' = WantedTools(p)
    BY DEF WantedTools, Wanted
  <2> QED BY <2>1, <2>2, <2>3 DEF Whole
<1> QED
  BY <1>8, <1>9, <1>10, <1>11, <1>12, <1>13, <1>14, <1>15, <1>16, <1>17

-------------------------------------------------------------------------------
LEMMA StillKeeps ==
  ASSUME IInv, Still
  PROVE  Rest'
<1> USE DEF IInv, Rest, Still, tables
<1>1. OneRow' /\ NoForeignReference' /\ UniqueNames'
  BY StoreKept DEF RowsKept
<1>2. RowsOfRequests' /\ Places' /\ Counts' /\ Sessions' /\ Told'
  BY DEF RowsOfRequests, Places, Counts, Sessions, Told, Wanted, HoldsKeyOf
<1>3. Found'
  BY DEF Found, HasTool, HasAgent, Wanted, NextTool, AnsweredAgent
<1>4. OpenNames'
  BY DEF OpenNames, Open
<1>5. Whole'
  <2>1. \A p : ToolsBoundTo(p)' = ToolsBoundTo(p) /\ WantedTools(p)' = WantedTools(p)
    BY DEF ToolsBoundTo, WantedTools, Wanted
  <2> QED BY <2>1 DEF Whole
<1> QED BY <1>1, <1>2, <1>3, <1>4, <1>5

LEMMA Inductive == IInv /\ [Next]_vars => IInv'
<1> SUFFICES ASSUME IInv, [Next]_vars PROVE Rest'
  BY TypeStep DEF IInv
<1>1. CASE Still
  BY <1>1, StillKeeps
<1>2. ASSUME NEW q \in Requests, Ended(q) \/ Informed(q) \/ Authenticate(q) PROVE Rest'
  BY <1>2, EndedKeeps, InformedKeeps, AuthenticateKeeps
<1>3. ASSUME NEW q \in Requests, Writes(q) PROVE Rest'
  BY <1>3, CreateToolKeeps, DeleteToolKeeps, CommitAgentKeeps, InsertRunKeeps DEF Writes
<1>4. ASSUME NEW q \in Requests, Moves(q), Moved(q) PROVE Rest'
  BY <1>4, InsertAgentKeeps, CheckToolKeeps, BindToolKeeps, GetAgentKeeps DEF Moves
<1>5. ASSUME NEW q \in Requests, GetAgentOfRun(q), ~Blank(q), Moved(q) PROVE Rest'
  <2>1. pc'[q] = "run"
    BY <1>5 DEF GetAgentOfRun, Continue, IInv, TypeOK
  <2> QED BY <1>5, <2>1, GetAgentKeeps
<1> QED BY <1>1, <1>2, <1>3, <1>4, <1>5, Kinds DEF IInv, Rest

LEMMA Initial == Init => IInv
<1> SUFFICES ASSUME Init PROVE IInv
  OBVIOUS
<1> USE NamesAssumption, InitialAssumption, InitialUniqueAssumption DEF Init
<1>1. \A x \in tools \cup agents \cup runs : x.id \notin Requests
  OBVIOUS
<1>2. \A q \in Requests : input[q] \in InputType
  BY InputAssumption
<1>3. \A q \in Requests : Len(Wanted(q)) \in Nat
  BY <1>2 DEF InputType, Wanted
<1>4. TypeOK
  <2>1. Control
    BY <1>3, FaultAssumption DEF Control, PcType, RespType
  <2>2. Rows
    BY DEF Rows, Ids
  <2> QED BY <2>1, <2>2, TypeParts
<1>5. RowsOfRequests /\ OneRow
  BY <1>1 DEF RowsOfRequests, OneRow
<1>6. Places /\ Counts /\ Found /\ Sessions /\ Told /\ OpenNames
  BY DEF Places, Counts, Found, Sessions, Told, OpenNames, Open
<1>7. NoForeignReference
  BY DEF NoForeignReference
<1>8. UniqueNames
  BY DEF UniqueNames
<1>9. Whole
  BY <1>1 DEF Whole
<1> QED BY <1>4, <1>5, <1>6, <1>7, <1>8, <1>9 DEF IInv, Rest

LEMMA Invariant == Spec => []IInv
BY Initial, Inductive, PTL DEF Spec

\* Every variable keeps its type, and an id names one tool.
THEOREM CatalogueTyped == Spec => []TypeOK
<1>1. IInv => TypeOK
  BY DEF IInv
<1> QED BY <1>1, Invariant, PTL

\* A request acts as, adds rows to and is told of rows of a tenant only if it
\* presented a genuine key of that tenant.
THEOREM TenantsIsolated == Spec => []TenantIsolation
<1>1. IInv => TenantIsolation
  <2> SUFFICES ASSUME IInv, NEW q \in Requests
               PROVE  /\ session[q] # None => HoldsKeyOf(q, session[q])
                      /\ \A x \in tools \cup agents \cup runs :
                           x.id \in told[q] \cup {q} => HoldsKeyOf(q, x.tenant)
    BY DEF TenantIsolation
  <2> USE DEF IInv, Rest
  <2>1. session[q] # None => HoldsKeyOf(q, session[q])
    BY DEF Sessions
  <2>2. ASSUME NEW x \in tools \cup agents \cup runs, x.id \in told[q] \cup {q}
        PROVE  x.tenant = session[q]
    <3>1. CASE x.id = q
      BY <3>1 DEF RowsOfRequests
    <3>2. CASE x.id \in told[q]
      <4>1. PICK y \in tools \cup agents \cup runs : y.id = x.id /\ y.tenant = session[q]
        BY <3>2 DEF Told
      <4> QED BY <4>1 DEF OneRow
    <3> QED BY <2>2, <3>1, <3>2
  <2>3. \A x \in tools \cup agents \cup runs : x.tenant # None
    BY NamesAssumption DEF TypeOK, ToolRow, AgentRow, RunRow
  <2> QED BY <2>1, <2>2, <2>3
<1> QED BY <1>1, Invariant, PTL

\* No binding and no run ever refers to a row of another tenant, whatever ids
\* the requests name.
THEOREM ReferencesStay == Spec => []NoForeignReference
<1>1. IInv => NoForeignReference
  BY DEF IInv, Rest
<1> QED BY <1>1, Invariant, PTL

\* No two live tools and no two named agents of a tenant share a name, whichever
\* transactions overlap.
THEOREM NamesUnique == Spec => []UniqueNames
<1>1. IInv => UniqueNames
  BY DEF IInv, Rest
<1> QED BY <1>1, Invariant, PTL

\* Wherever its creation fails, an agent has exactly the tools that were asked
\* for, or does not exist.  Its creator is told of these; a refusal that the
\* handler decided leaves no agent; and as long as nothing has failed, there is
\* an agent exactly where the answer says so.  After a fault, a 500 or no answer
\* may stand for a whole agent, never for a part of one.
THEOREM AgentsWhole == Spec => []WholeAgents
<1>1. IInv => WholeAgents
  <2> SUFFICES ASSUME IInv, NEW q \in Requests
               PROVE  LET exists  == \E x \in agents : x.id = q
                          created == input[q].op = "create_agent" /\ resp[q] = "ok"
                      IN /\ ToolsBoundTo(q) = IF exists THEN WantedTools(q) ELSE {}
                         /\ created => exists /\ told[q] = {q} \cup WantedTools(q)
                         /\ resp[q] \in Refused => ~exists
                         /\ faults = 0 /\ pc[q] = "done" => (exists <=> created)
    BY DEF WholeAgents, ToolsBoundTo
  <2> USE DEF IInv, Rest
  <2>1. (\E b \in bindings : b.agent = q) => \E x \in agents : x.id = q
    BY DEF NoForeignReference
  <2>2. ToolsBoundTo(q) = IF \E x \in agents : x.id = q THEN WantedTools(q) ELSE {}
    BY <2>1 DEF Whole, ToolsBoundTo
  <2>3. ASSUME NEW x \in agents, x.id = q
        PROVE  /\ resp[q] \notin Refused
               /\ faults = 0 /\ pc[q] = "done" =>
                    input[q].op = "create_agent" /\ resp[q] = "ok"
    BY <2>3 DEF RowsOfRequests, Refused, FaultAnswers
  <2> QED BY <2>2, <2>3 DEF Whole
<1> QED BY <1>1, Invariant, PTL
===============================================================================
