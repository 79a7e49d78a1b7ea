---------------------------- MODULE TenantStores -----------------------------
(***************************************************************************)
(* What the catalogue of the platform promises its tenants: each has a     *)
(* store of tools, agents and runs of its own, as if there were no other   *)
(* tenant.  A request acts for one tenant, changes the store of that one   *)
(* by one whole operation, and learns of nothing outside it.  Catalogue,   *)
(* where all tenants share the tables and an operation takes several       *)
(* statements, is shown to implement this specification.                   *)
(***************************************************************************)
EXTENDS FiniteSets

CONSTANTS
  Requests,
  Tenants,     \* every tenant there may ever be
  Ids,         \* the names of tools, agents and runs
  Names,
  NoTenant,    \* the request is not, or not yet, identified
  NoName       \* an agent may have no name

VARIABLES
  tools,       \* tools[n]: [id, name, deleted] of the tools of n
  agents,      \* agents[n]: [id, name, tools] of the agents of n
  runs,        \* runs[n]: [id, agent] of the runs of n
  holder,      \* holder[q]: the tenant the request q acts for
  known        \* known[q]: the ids the answer to q reveals

store == <<tools, agents, runs>>
vars == <<store, holder, known>>

Init ==
  /\ holder = [q \in Requests |-> NoTenant]
  /\ known = [q \in Requests |-> {}]

IdsOf(n) == {x.id : x \in tools[n] \cup agents[n] \cup runs[n]}

Identify(q, n) ==
  /\ holder[q] = NoTenant
  /\ holder' = [holder EXCEPT ![q] = n]
  /\ UNCHANGED <<store, known>>

\* The answer to q reveals some of what its tenant has.
Answer(q, n) ==
  /\ known'[q] \subseteq IdsOf(n)'
  /\ known' = [known EXCEPT ![q] = known'[q]]

Unnamed(set, name) == \A x \in set : x.name # name

AddTool(n, t, name) ==
  /\ Unnamed({x \in tools[n] : ~x.deleted}, name)
  /\ tools' = [tools EXCEPT ![n] = @ \cup {[id |-> t, name |-> name, deleted |-> FALSE]}]
  /\ UNCHANGED <<agents, runs>>

RemoveTool(n, x) ==
  /\ x \in tools[n] /\ ~x.deleted
  /\ tools' = [tools EXCEPT ![n] = (@ \ {x}) \cup {[x EXCEPT !.deleted = TRUE]}]
  /\ UNCHANGED <<agents, runs>>

\* The agent appears with all of its tools, or not at all.  They are the
\* tenant's; one may have been deleted meanwhile.
AddAgent(n, a, name, bound) ==
  /\ name # NoName => Unnamed(agents[n], name)
  /\ bound \subseteq {x.id : x \in tools[n]}
  /\ agents' = [agents EXCEPT ![n] = @ \cup {[id |-> a, name |-> name, tools |-> bound]}]
  /\ UNCHANGED <<tools, runs>>

AddRun(n, r, a) ==
  /\ a \in {x.id : x \in agents[n]}
  /\ runs' = [runs EXCEPT ![n] = @ \cup {[id |-> r, agent |-> a]}]
  /\ UNCHANGED <<tools, agents>>

Operate(q, n) ==
  \/ \E name \in Names : AddTool(n, q, name)
  \/ \E x \in tools[n] : RemoveTool(n, x)
  \/ \E name \in Names \cup {NoName}, bound \in SUBSET {x.id : x \in tools[n]} :
       AddAgent(n, q, name, bound)
  \/ \E x \in agents[n] : AddRun(n, q, x.id)
  \/ UNCHANGED store

Act(q, n) ==
  /\ holder[q] = n
  /\ Operate(q, n)
  /\ Answer(q, n)
  /\ UNCHANGED holder

Next == \E q \in Requests, n \in Tenants : Identify(q, n) \/ Act(q, n)

Spec == Init /\ [][Next]_vars

===============================================================================
