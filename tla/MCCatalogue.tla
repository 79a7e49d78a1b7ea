----------------------------- MODULE MCCatalogue -----------------------------
(***************************************************************************)
(* A small platform that has been in use: two tenants with a key each, two *)
(* tools, an agent with a run, and what three clients may ask of it.       *)
(***************************************************************************)
EXTENDS CatalogueClaims

CONSTANTS q1, q2

MCTenants == {"acme", "bravo"}

MCKeys ==
  {[id |-> "acme_key", prefix |-> "p1", tenant |-> "acme"],
   [id |-> "bravo_key", prefix |-> "p2", tenant |-> "bravo"]}

ToolOf(tenant, id) == [id |-> id, tenant |-> tenant, name |-> id, deleted |-> FALSE]

MCTools == {ToolOf("acme", "lookup"), ToolOf("bravo", "theirs")}

MCAgents == {[id |-> "clerk", tenant |-> "acme", name |-> "clerk"]}

MCBindings == {[tenant |-> "acme", agent |-> "clerk", tool |-> "lookup"]}

MCRuns == {[id |-> "past_run", tenant |-> "acme", agent |-> "clerk"]}

MCSeeds ==
  MCTenants \cup {x.id : x \in MCKeys \cup MCTools \cup MCAgents \cup MCRuns}

Ask(key, op, target) ==
  [op |-> op, key |-> key, genuine |-> TRUE, target |-> target, name |-> NoName,
   tools |-> <<>>, body |-> "ok"]

\* A tool of this name.
NewTool(key, name) == [Ask(key, "create_tool", None) EXCEPT !.name = name]

NewAgent(key, name, list) ==
  [Ask(key, "create_agent", None) EXCEPT !.name = name, !.tools = list]

Forged(i) == [i EXCEPT !.genuine = FALSE]
With(i, body) == [i EXCEPT !.body = body]

\* Agents of the same name, of a tool twice, of foreign and of deleted tools;
\* tools of the same name, deleted by their tenant and by another.
Writes ==
  {NewAgent("acme_key", "x", <<"lookup", q1>>), NewAgent("acme_key", "x", <<"lookup">>),
   NewAgent("acme_key", NoName, <<"lookup", "lookup">>),
   NewAgent("acme_key", NoName, <<"theirs">>),
   NewTool("acme_key", "lookup"), NewTool("bravo_key", "lookup"),
   Ask("acme_key", "delete_tool", "lookup"), Ask("bravo_key", "delete_tool", "lookup")}

\* Reads and runs of what is one's own, another's, or created meanwhile.
Reads ==
  {Ask("acme_key", "get_agent", q1), Ask("bravo_key", "get_agent", "clerk"),
   Ask("bravo_key", "start_run", "clerk"), With(Ask("acme_key", "start_run", "clerk"), "blank"),
   Ask("acme_key", "get_run", q2), Ask("bravo_key", "get_run", "past_run"),
   Ask("bravo_key", "get_trace", "past_run"),
   Forged(Ask("acme_key", "list_tools", None))}

\* q1 writes, or is a new tenant; q2 writes too, runs an agent of q1's, or gets
\* a key; q3 reads, deletes, is refused an agent, or uses the key of q2.
MCInputs ==
  [q \in Requests |->
     CASE q = q1 -> Writes \cup
            {Ask(None, "create_tenant", None), With(Ask(None, "create_tenant", None), "blank")}
       [] q = q2 ->
            {NewAgent("acme_key", "x", <<"lookup">>), NewAgent("bravo_key", "x", <<"theirs">>),
             NewTool("acme_key", "lookup"), Ask("acme_key", "delete_tool", "lookup"),
             Ask("acme_key", "start_run", q1),
             Ask(None, "create_api_key", q1)}
       [] OTHER  -> Reads \cup
            {Ask("acme_key", "delete_tool", "lookup"),
             With(NewAgent("acme_key", "x", <<>>), "out_of_range"),
             Ask(q2, "list_tools", None), With(NewTool(q2, "lookup"), "blank"),
             With(NewAgent(q2, "x", <<>>), "blank")}]

ForeignInputs == [q \in Requests |-> {Ask("bravo_key", "get_trace", "past_run")}]
===============================================================================
