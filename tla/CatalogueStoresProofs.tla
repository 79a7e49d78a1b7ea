------------------------ MODULE CatalogueStoresProofs ------------------------
(***************************************************************************)
(* For any tenants, requests, inputs and faults: behind the shared tables  *)
(* every tenant has a store of its own (TenantStores), and a tool that was *)
(* deleted before create_agent looked for its tools is never bound.        *)
(*                                                                         *)
(* The argument: a statement that writes adds or marks one row, the row is *)
(* of the session's tenant, so only the store of that tenant differs, and  *)
(* by one operation.  The bindings become part of the store with their     *)
(* agent.  What the answer names is of that store, by the invariant of     *)
(* CatalogueProofs, whose lemmas also sort the steps.                      *)
(***************************************************************************)
EXTENDS CatalogueProofs

-------------------------------------------------------------------------------
(* Deleted tools *)

\* A request that has not bound t, and is not about to.
Avoids(q, t) ==
  /\ Deleted(t)
  /\ \A b \in bindings : b.agent = q => b.tool # t
  /\ pc[q] = "bind" => NextTool(q) # t
  /\ pc[q] \in {"check", "bind", "commit"} => \A k \in 1..inserted[q] : Wanted(q)[k] # t

LEMMA AvoidsStart ==
  ASSUME IInv, NEW q \in Requests, NEW t, Deleted(t), pc[q] \in {"idle", "handle"}
  PROVE  Avoids(q, t)
<1>1. \A x \in agents : x.id # q
  BY Fresh
<1>2. \A b \in bindings : b.agent # q
  BY <1>1 DEF IInv, Rest, NoForeignReference
<1> QED BY <1>2 DEF Avoids

\* A tool row is never removed, and its deletion is never undone.
LEMMA DeletedStays ==
  ASSUME IInv, [Next]_vars, NEW t, Deleted(t)
  PROVE  Deleted(t)'
<1> USE DEF IInv, Rest
<1>1. CASE Still
  BY <1>1 DEF Still, tables, Deleted
<1>2. ASSUME NEW q \in Requests, RowsKept PROVE Deleted(t)'
  BY <1>2 DEF RowsKept, Deleted
<1>3. ASSUME NEW q \in Requests, Authenticate(q) PROVE Deleted(t)'
  BY <1>3 DEF Authenticate, tables, Deleted
<1>4. ASSUME NEW q \in Requests, ToolInserted(q) \/ AgentCommitted(q) \/ RunInserted(q)
      PROVE  Deleted(t)'
  BY <1>4 DEF ToolInserted, AgentCommitted, RunInserted, Deleted
<1>5. ASSUME NEW q \in Requests, ToolMarked(q) PROVE Deleted(t)'
  BY <1>5 DEF ToolMarked, Deletable, Deleted
<1> QED
  BY <1>1, <1>2, <1>3, <1>4, <1>5, Kinds DEF Ended, Informed, Moved, Writes, WritesAgent

\* SELECT EXISTS does not find a deleted tool: its id has no other row.
LEMMA DeletedNotFound ==
  ASSUME IInv, NEW q \in Requests, NEW t, Deleted(t), Exists(q)
  PROVE  NextTool(q) # t
BY DEF IInv, Rest, OneRow, Deleted, Exists

\* What Avoids says beyond Deleted is about the bindings and q alone.
LEMMA AvoidsKept ==
  ASSUME NEW q \in Requests, NEW t, Avoids(q, t), Deleted(t)',
         input' = input, bindings' = bindings,
         \/ pc'[q] \notin {"check", "bind", "commit"}
         \/ pc'[q] = pc[q] /\ inserted'[q] = inserted[q]
  PROVE  Avoids(q, t)'
BY DEF Avoids, Wanted, NextTool

LEMMA AvoidsMove ==
  ASSUME IInv, NEW q \in Requests, NEW t, Avoids(q, t), Deleted(t)', Moves(q), Moved(q)
  PROVE  Avoids(q, t)'
<1> USE DEF IInv, Rest
<1>1. input' = input /\ bindings' = bindings
  BY DEF Moved, RowsKept
<1>2. CASE InsertAgent(q)
  <2>1. /\ inserted'[q] = 0 /\ pc'[q] # "bind"
    BY <1>2 DEF InsertAgent, At, Continue, AfterBinding, Counts, TypeOK
  <2> QED BY <1>1, <2>1 DEF Avoids
<1>3. CASE CheckTool(q)
  <2>1. pc[q] = "check" /\ inserted' = inserted /\ Exists(q)
    BY <1>3 DEF CheckTool
  <2>2. NextTool(q) # t
    BY <2>1, DeletedNotFound DEF Avoids
  <2> QED BY <1>1, <2>1, <2>2 DEF Avoids, Wanted, NextTool
<1>4. CASE BindTool(q)
  <2>1. /\ pc[q] = "bind" /\ inserted[q] \in Nat /\ inserted'[q] = inserted[q] + 1
        /\ pc'[q] # "bind"
    BY <1>4 DEF BindTool, Continue, AfterBinding, TypeOK
  <2>2. ASSUME NEW k \in 1..(inserted[q] + 1) PROVE Wanted(q)[k] # t
    <3>1. CASE k = inserted[q] + 1
      BY <2>1, <3>1 DEF Avoids, NextTool
    <3>2. CASE k \in 1..inserted[q]
      BY <2>1, <3>2 DEF Avoids
    <3> QED BY <2>1, <3>1, <3>2
  <2> QED BY <1>1, <2>1, <2>2 DEF Avoids, Wanted
<1>5. CASE GetAgent(q)
  <2>1. pc'[q] = "bindings"
    BY <1>5 DEF GetAgent, Continue, TypeOK
  <2> QED BY <1>1, <2>1, AvoidsKept
<1> QED BY <1>2, <1>3, <1>4, <1>5 DEF Moves

LEMMA AvoidsCommit ==
  ASSUME IInv, NEW q \in Requests, NEW t, Avoids(q, t), Deleted(t)',
         NEW p \in Requests, WritesAgent(p)
  PROVE  Avoids(q, t)'
<1> USE DEF IInv, Rest
<1>1. /\ pc[p] = "commit" /\ pc'[p] \in {"bindings", "done"} /\ Others(p)
      /\ input' = input /\ inserted' = inserted
      /\ bindings' = bindings \cup BindingsOf(p)
  BY WritersKeep DEF WritesAgent, AgentCommitted, Writes, Continue, Lost, Fault, End, TypeOK
<1>2. \A b \in BindingsOf(p) : b.agent = p /\ (p = q => b.tool # t)
  BY <1>1 DEF BindingsOf, Avoids
<1>3. \A b \in bindings' : b.agent = q => b.tool # t
  BY <1>1, <1>2 DEF Avoids
<1>4. pc'[q] = pc[q] \/ pc'[q] \in {"bindings", "done"}
  BY <1>1 DEF Others
<1> QED BY <1>1, <1>3, <1>4 DEF Avoids, Wanted, NextTool

LEMMA AvoidsNext ==
  ASSUME IInv, [Next]_vars, NEW q \in Requests, NEW t, Avoids(q, t)
  PROVE  Avoids(q, t)'
<1> USE DEF IInv, Rest
<1>0. Deleted(t)'
  BY DeletedStays DEF Avoids
<1>1. CASE Still
  BY <1>0, <1>1, AvoidsKept DEF Still, tables
<1>2. ASSUME NEW p \in Requests, Ended(p) \/ Informed(p) PROVE Avoids(q, t)'
  BY <1>0, <1>2, AvoidsKept DEF Ended, Informed, RowsKept, Others
<1>3. ASSUME NEW p \in Requests, Authenticate(p) PROVE Avoids(q, t)'
  <2>1. /\ input' = input /\ bindings' = bindings /\ inserted' = inserted
        /\ pc'[q] = pc[q] \/ pc'[q] = "handle"
    BY <1>3 DEF Authenticate, tables, TypeOK
  <2> QED BY <1>0, <2>1, AvoidsKept
<1>4. ASSUME NEW p \in Requests, Writes(p), ~WritesAgent(p)
      PROVE  Avoids(q, t)'
  <2>1. /\ input' = input /\ bindings' = bindings /\ inserted' = inserted
        /\ pc'[q] = pc[q] \/ pc'[q] = "done"
    BY <1>4, WritersKeep, Concluded
       DEF Writes, ToolInserted, ToolMarked, RunInserted, Others
  <2> QED BY <1>0, <2>1, AvoidsKept
<1>5. ASSUME NEW p \in Requests, WritesAgent(p) PROVE Avoids(q, t)'
  BY <1>0, <1>5, AvoidsCommit
<1>6. ASSUME NEW p \in Requests, Moved(p), p # q PROVE Avoids(q, t)'
  BY <1>0, <1>6, AvoidsKept DEF Moved, RowsKept, Others
<1>7. CASE Moves(q) /\ Moved(q)
  BY <1>0, <1>7, AvoidsMove
<1>8. CASE GetAgentOfRun(q) /\ ~Blank(q) /\ Moved(q)
  <2>1. pc'[q] = "run"
    BY <1>8 DEF GetAgentOfRun, Continue, TypeOK
  <2> QED BY <1>0, <1>8, <2>1, AvoidsKept DEF Moved, RowsKept
<1> QED
  BY <1>1, <1>2, <1>3, <1>4, <1>5, <1>6, <1>7, <1>8, Kinds DEF Writes

\* A tool that was deleted before a create_agent looked for its first tool is
\* never bound by it, however the requests interleave.
THEOREM DeletedNotBound == Spec => DeletedToolNotBound
<1> SUFFICES ASSUME NEW q \in Requests, NEW t \in {x.id : x \in InitialTools}
             PROVE  Spec => [](Deleted(t) /\ pc[q] \in {"idle", "handle"}
                                 => [](\A b \in bindings : b.agent = q => b.tool # t))
  BY DEF DeletedToolNotBound
<1>1. IInv /\ Deleted(t) /\ pc[q] \in {"idle", "handle"} => Avoids(q, t)
  BY AvoidsStart
<1>2. IInv /\ Avoids(q, t) /\ [Next]_vars => Avoids(q, t)'
  BY AvoidsNext
<1>3. Avoids(q, t) => \A b \in bindings : b.agent = q => b.tool # t
  BY DEF Avoids
<1> QED
  BY <1>1, <1>2, <1>3, Invariant, PTL DEF Spec

-------------------------------------------------------------------------------
(* The stores, of given tables *)

ToolRecord(x) == [id |-> x.id, name |-> x.name, deleted |-> x.deleted]

ToolStore(T, n) == {ToolRecord(x) : x \in {y \in T : y.tenant = n}}

BoundTo(B, n, a) == {b.tool : b \in {y \in B : y.tenant = n /\ y.agent = a}}

AgentRecord(x, bound) == [id |-> x.id, name |-> x.name, tools |-> bound]

AgentStore(A, B, n) ==
  {AgentRecord(x, BoundTo(B, n, x.id)) : x \in {y \in A : y.tenant = n}}

RunRecord(x) == [id |-> x.id, agent |-> x.agent]

RunStore(R, n) == {RunRecord(x) : x \in {y \in R : y.tenant = n}}

LEMMA StoreOfTables ==
  /\ \A n : ToolsOf(n) = ToolStore(tools, n)
  /\ \A n : AgentsOf(n) = AgentStore(agents, bindings, n)
  /\ \A n : RunsOf(n) = RunStore(runs, n)
  /\ \A n : ToolsOf(n)' = ToolStore(tools', n)
  /\ \A n : AgentsOf(n)' = AgentStore(agents', bindings', n)
  /\ \A n : RunsOf(n)' = RunStore(runs', n)
BY DEF ToolsOf, AgentsOf, RunsOf, ToolStore, AgentStore, RunStore, BoundTo,
       ToolRecord, AgentRecord, RunRecord

\* The ids in the store of n are those of the rows of n.
LEMMA StoreIds ==
  ASSUME NEW T, NEW A, NEW B, NEW R, NEW n, NEW i,
         \E x \in T \cup A \cup R : x.id = i /\ x.tenant = n
  PROVE  i \in {x.id : x \in ToolStore(T, n) \cup AgentStore(A, B, n) \cup RunStore(R, n)}
<1> PICK x \in T \cup A \cup R : x.id = i /\ x.tenant = n
  OBVIOUS
<1>1. ASSUME x \in T PROVE \E y \in ToolStore(T, n) : y.id = i
  <2>1. ToolRecord(x) \in ToolStore(T, n)
    BY <1>1 DEF ToolStore
  <2> QED BY <2>1 DEF ToolRecord
<1>2. ASSUME x \in A PROVE \E y \in AgentStore(A, B, n) : y.id = i
  <2>1. AgentRecord(x, BoundTo(B, n, x.id)) \in AgentStore(A, B, n)
    BY <1>2 DEF AgentStore
  <2> QED BY <2>1 DEF AgentRecord
<1>3. ASSUME x \in R PROVE \E y \in RunStore(R, n) : y.id = i
  <2>1. RunRecord(x) \in RunStore(R, n)
    BY <1>3 DEF RunStore
  <2> QED BY <2>1 DEF RunRecord
<1> QED BY <1>1, <1>2, <1>3

\* One more tool, agent or run changes the store of its tenant only.
LEMMA ToolAdded ==
  ASSUME NEW T, NEW U, NEW x, NEW n, U = T \cup {x}
  PROVE  ToolStore(U, n) =
           IF x.tenant = n
           THEN ToolStore(T, n) \cup {ToolRecord(x)}
           ELSE ToolStore(T, n)
BY DEF ToolStore

LEMMA RunAdded ==
  ASSUME NEW R, NEW U, NEW x, NEW n, U = R \cup {x}
  PROVE  RunStore(U, n) =
           IF x.tenant = n THEN RunStore(R, n) \cup {RunRecord(x)}
                           ELSE RunStore(R, n)
BY DEF RunStore

\* The agent x appears, with the bindings C of its own.
Appears(A, U, B, C, D, x) ==
  /\ U = A \cup {x} /\ D = B \cup C
  /\ \A c \in C : c.agent = x.id /\ c.tenant = x.tenant
  /\ \A b \in B : b.agent # x.id
  /\ \A y \in A : y.id # x.id

LEMMA AgentAdded ==
  ASSUME NEW A, NEW U, NEW B, NEW C, NEW D, NEW x, NEW n, Appears(A, U, B, C, D, x)
  PROVE  AgentStore(U, D, n) =
           IF x.tenant = n
           THEN AgentStore(A, B, n) \cup {AgentRecord(x, {c.tool : c \in C})}
           ELSE AgentStore(A, B, n)
<1> USE DEF Appears
<1>1. \A y \in A : BoundTo(D, n, y.id) = BoundTo(B, n, y.id)
  BY DEF BoundTo
<1>2. x.tenant = n => BoundTo(D, n, x.id) = {c.tool : c \in C}
  BY DEF BoundTo
<1> DEFINE rec(y, E) == AgentRecord(y, BoundTo(E, n, y.id))
<1>3. \A y \in A : rec(y, D) = rec(y, B)
  BY <1>1
<1>4. x.tenant = n => rec(x, D) = AgentRecord(x, {c.tool : c \in C})
  BY <1>2
<1>5. /\ AgentStore(A, B, n) = {rec(y, B) : y \in {z \in A : z.tenant = n}}
      /\ AgentStore(U, D, n) =
           {rec(y, D) : y \in {z \in U : z.tenant = n}}
  BY DEF AgentStore
<1> HIDE DEF rec
<1>6. {rec(y, D) : y \in {z \in A : z.tenant = n}} = AgentStore(A, B, n)
  BY <1>3, <1>5
<1>7. CASE x.tenant = n
  <2>1. {z \in U : z.tenant = n} = {z \in A : z.tenant = n} \cup {x}
    BY <1>7
  <2>2. AgentStore(U, D, n) = AgentStore(A, B, n) \cup {rec(x, D)}
    BY <1>5, <1>6, <2>1
  <2> QED BY <1>4, <1>7, <2>2
<1>8. CASE x.tenant # n
  <2>1. {z \in U : z.tenant = n} = {z \in A : z.tenant = n}
    BY <1>8
  <2> QED BY <1>5, <1>6, <1>8, <2>1
<1> QED BY <1>7, <1>8

\* The tool x is replaced by y, the only one with its id.
Replaces(T, U, x, y) ==
  /\ x \in T /\ U = (T \ {x}) \cup {y}
  /\ \A z \in T : z.id = x.id => z = x
  /\ y.id = x.id /\ y.tenant = x.tenant

LEMMA ToolReplaced ==
  ASSUME NEW T, NEW U, NEW x, NEW y, NEW n, Replaces(T, U, x, y)
  PROVE  ToolStore(U, n) =
           IF x.tenant = n
           THEN (ToolStore(T, n) \ {ToolRecord(x)}) \cup {ToolRecord(y)}
           ELSE ToolStore(T, n)
<1> USE DEF Replaces
<1>1. \A z \in T : ToolRecord(z) = ToolRecord(x) => z = x
  BY DEF ToolRecord
<1>2. CASE x.tenant = n
  <2>1. {ToolRecord(z) : z \in {w \in T \ {x} : w.tenant = n}} = ToolStore(T, n) \ {ToolRecord(x)}
    BY <1>1 DEF ToolStore
  <2> QED BY <1>2, <2>1 DEF ToolStore
<1>3. CASE x.tenant # n
  <2>1. {w \in U : w.tenant = n} = {w \in T : w.tenant = n}
    BY <1>3
  <2> QED BY <1>3, <2>1 DEF ToolStore
<1> QED BY <1>2, <1>3

LEMMA RecordMarked ==
  ASSUME NEW x, NEW y, y.id = x.id, y.name = x.name
  PROVE  [ToolRecord(x) EXCEPT !.deleted = y.deleted] = ToolRecord(y)
<1> USE DEF ToolRecord
<1> DEFINE r == [ToolRecord(x) EXCEPT !.deleted = y.deleted]
<1>1. r.id = y.id /\ r.name = y.name /\ r.deleted = y.deleted
  OBVIOUS
<1>2. DOMAIN r = {"id", "name", "deleted"}
  OBVIOUS
<1> QED BY <1>1, <1>2

-------------------------------------------------------------------------------
(* The steps of the stores *)

\* A table that a statement leaves alone is the same in every store.
LEMMA StoresKept ==
  /\ tools' = tools => [n \in Ids |-> ToolsOf(n)]' = [n \in Ids |-> ToolsOf(n)]
  /\ agents' = agents /\ bindings' = bindings =>
       [n \in Ids |-> AgentsOf(n)]' = [n \in Ids |-> AgentsOf(n)]
  /\ runs' = runs => [n \in Ids |-> RunsOf(n)]' = [n \in Ids |-> RunsOf(n)]
BY StoreOfTables

LEMMA CreateToolMaps ==
  ASSUME IInv, NEW q \in Requests, ToolInserted(q)
  PROVE  session[q] \in Ids /\ Stores!Operate(q, session[q])
<1> DEFINE n == session[q]
           name == input[q].name
           new == [id |-> q, tenant |-> n, name |-> name, deleted |-> FALSE]
           made == [id |-> q, name |-> name, deleted |-> FALSE]
<1>1. /\ input[q].op = "create_tool" /\ tools' = tools \cup {new} /\ ~ToolNameTaken(q)
      /\ pc[q] = "handle" /\ agents' = agents /\ bindings' = bindings /\ runs' = runs
  BY DEF ToolInserted, At
<1>2. n \in Ids /\ name \in Names
  BY <1>1, InputAssumption DEF IInv, Rest, Places, TypeOK
<1>3. \A m : ToolsOf(m)' = IF n = m THEN ToolsOf(m) \cup {made} ELSE ToolsOf(m)
  <2> TAKE m
  <2>1. new.tenant = n /\ ToolRecord(new) = made /\ tools' = tools \cup {new}
    BY <1>1 DEF ToolRecord
  <2> HIDE DEF new, made
  <2>2. ToolStore(tools', m) =
          IF n = m THEN ToolStore(tools, m) \cup {made} ELSE ToolStore(tools, m)
    BY <2>1, ToolAdded
  <2>3. ToolsOf(m) = ToolStore(tools, m) /\ ToolsOf(m)' = ToolStore(tools', m)
    BY StoreOfTables
  <2> QED BY <1>1, <2>2, <2>3
<1>4. \A x \in {y \in ToolsOf(n) : ~y.deleted} : x.name # name
  BY <1>1 DEF ToolsOf, ToolNameTaken, Own
<1>5. Stores!AddTool(n, q, name)
  <2>1. Stores!Unnamed({x \in [m \in Ids |-> ToolsOf(m)][n] : ~x.deleted}, name)
    BY <1>2, <1>4 DEF Stores!Unnamed
  <2>2. [m \in Ids |-> ToolsOf(m)]' =
          [[m \in Ids |-> ToolsOf(m)] EXCEPT ![n] = @ \cup {made}]
    BY <1>2, <1>3
  <2> QED BY <1>1, <2>1, <2>2, StoresKept DEF Stores!AddTool
<1> QED BY <1>2, <1>5 DEF Stores!Operate

LEMMA DeleteToolMaps ==
  ASSUME IInv, NEW q \in Requests, ToolMarked(q)
  PROVE  session[q] \in Ids /\ Stores!Operate(q, session[q])
<1> DEFINE n == session[q]
<1>1. /\ pc[q] = "handle" /\ agents' = agents /\ bindings' = bindings /\ runs' = runs
  BY DEF ToolMarked, At
<1>2. n \in Ids
  BY <1>1 DEF IInv, Rest, Places
<1>3. PICK x \in Deletable(q) : tools' = (tools \ {x}) \cup {[x EXCEPT !.deleted = TRUE]}
  BY DEF ToolMarked, Deletable, Target, IInv, Rest, OneRow
<1> DEFINE y == [x EXCEPT !.deleted = TRUE]
           had  == ToolRecord(x)
           have == ToolRecord(y)
<1>4. /\ x \in tools /\ x.tenant = n /\ x.deleted = FALSE
      /\ y.id = x.id /\ y.tenant = x.tenant /\ y.name = x.name /\ y.deleted = TRUE
      /\ tools' = (tools \ {x}) \cup {y}
      /\ \A z \in tools : z.id = x.id => z = x
  BY <1>3 DEF Deletable, Target, Own, IInv, Rest, TypeOK, ToolRow, OneRow
<1> HIDE DEF y
<1>5. \A m : ToolsOf(m)' = IF n = m THEN (ToolsOf(m) \ {had}) \cup {have} ELSE ToolsOf(m)
  <2> TAKE m
  <2>1. Replaces(tools, tools', x, y)
    BY <1>4 DEF Replaces
  <2>2. ToolStore(tools', m) =
          IF x.tenant = m THEN (ToolStore(tools, m) \ {had}) \cup {have}
                          ELSE ToolStore(tools, m)
    BY <2>1, ToolReplaced
  <2>3. ToolsOf(m) = ToolStore(tools, m) /\ ToolsOf(m)' = ToolStore(tools', m)
    BY StoreOfTables
  <2> QED BY <1>4, <2>2, <2>3
<1>6. had \in ToolsOf(n) /\ ~had.deleted /\ [had EXCEPT !.deleted = TRUE] = have
  <2>1. had \in ToolsOf(n)
    BY <1>4, StoreOfTables DEF ToolStore
  <2>2. ~had.deleted
    BY <1>4 DEF ToolRecord
  <2>3. [had EXCEPT !.deleted = TRUE] = have
    BY <1>4, RecordMarked
  <2> QED BY <2>1, <2>2, <2>3
<1> HIDE DEF had, have
<1>7. Stores!RemoveTool(n, had)
  <2>1. [m \in Ids |-> ToolsOf(m)]' =
          [[m \in Ids |-> ToolsOf(m)] EXCEPT
             ![n] = (@ \ {had}) \cup {[had EXCEPT !.deleted = TRUE]}]
    BY <1>2, <1>5, <1>6
  <2> QED BY <1>1, <1>2, <1>6, <2>1, StoresKept DEF Stores!RemoveTool
<1> QED BY <1>2, <1>6, <1>7 DEF Stores!Operate

LEMMA InsertRunMaps ==
  ASSUME IInv, NEW q \in Requests, RunInserted(q)
  PROVE  session[q] \in Ids /\ Stores!Operate(q, session[q])
<1> DEFINE n == session[q]
           a == input[q].target
           new == [id |-> q, tenant |-> n, agent |-> a]
           made == [id |-> q, agent |-> a]
<1>1. /\ pc[q] = "run" /\ runs' = runs \cup {new}
      /\ tools' = tools /\ agents' = agents /\ bindings' = bindings
  BY DEF RunInserted
<1>2. n \in Ids
  BY <1>1 DEF IInv, Rest, Places
<1>3. PICK x \in AgentsOf(n) : x.id = a
  <2>1. PICK x \in agents : x.id = a /\ x.tenant = n
    BY <1>1 DEF IInv, Rest, Found, HasAgent
  <2> DEFINE y == [id |-> x.id, name |-> x.name,
                   tools |-> {b.tool : b \in {w \in bindings : w.tenant = n /\ w.agent = x.id}}]
  <2>2. y \in AgentsOf(n) /\ y.id = a
    BY <2>1 DEF AgentsOf
  <2> QED BY <2>2
<1>4. \A m : RunsOf(m)' = IF n = m THEN RunsOf(m) \cup {made} ELSE RunsOf(m)
  <2> TAKE m
  <2>1. new.tenant = n /\ RunRecord(new) = made /\ runs' = runs \cup {new}
    BY <1>1 DEF RunRecord
  <2> HIDE DEF new, made
  <2>2. RunStore(runs', m) =
          IF n = m THEN RunStore(runs, m) \cup {made} ELSE RunStore(runs, m)
    BY <2>1, RunAdded
  <2>3. RunsOf(m) = RunStore(runs, m) /\ RunsOf(m)' = RunStore(runs', m)
    BY StoreOfTables
  <2> QED BY <1>1, <2>2, <2>3
<1>5. Stores!AddRun(n, q, x.id)
  <2>1. [m \in Ids |-> RunsOf(m)]' =
          [[m \in Ids |-> RunsOf(m)] EXCEPT ![n] = @ \cup {made}]
    BY <1>2, <1>4
  <2> QED BY <1>1, <1>2, <1>3, <2>1, StoresKept DEF Stores!AddRun
<1> QED BY <1>2, <1>3, <1>5 DEF Stores!Operate

LEMMA CommitAgentMaps ==
  ASSUME IInv, NEW q \in Requests, AgentCommitted(q)
  PROVE  session[q] \in Ids /\ Stores!Operate(q, session[q])
<1> DEFINE n == session[q]
           name == input[q].name
           bound == WantedTools(q)
           new == [id |-> q, tenant |-> n, name |-> name]
           made == [id |-> q, name |-> name, tools |-> bound]
<1>1. /\ pc[q] = "commit" /\ tools' = tools /\ runs' = runs
      /\ agents' = agents \cup {new} /\ bindings' = bindings \cup BindingsOf(q)
      /\ inserted[q] = Len(Wanted(q))
  BY DEF AgentCommitted, IInv, Rest, Counts
<1>2. n \in Ids /\ name \in Names \cup {NoName}
  BY <1>1, TypesOfRequest DEF IInv, Rest, Places, Types, InputType
<1>3. \A y \in agents : y.id # q
  BY <1>1, Fresh
<1>4. \A b \in bindings : b.agent # q
  BY <1>3 DEF IInv, Rest, NoForeignReference
<1>5. \A c \in BindingsOf(q) : c.agent = q /\ c.tenant = n
  BY DEF BindingsOf
<1>6. {c.tool : c \in BindingsOf(q)} = bound
  <2> DEFINE row(k) == [tenant |-> n, agent |-> q, tool |-> Wanted(q)[k]]
  <2>1. \A k : row(k).tool = Wanted(q)[k]
    OBVIOUS
  <2>2. BindingsOf(q) = {row(k) : k \in 1..Len(Wanted(q))}
    BY <1>1 DEF BindingsOf
  <2> HIDE DEF row
  <2> QED BY <2>1, <2>2 DEF WantedTools
<1>7. \A m : AgentsOf(m)' = IF n = m THEN AgentsOf(m) \cup {made} ELSE AgentsOf(m)
  <2> TAKE m
  <2>1. /\ new.id = q /\ new.tenant = n
        /\ AgentRecord(new, {c.tool : c \in BindingsOf(q)}) = made
    BY <1>6 DEF AgentRecord
  <2> HIDE DEF new, made
  <2>2. Appears(agents, agents', bindings, BindingsOf(q), bindings', new)
    BY <1>1, <1>3, <1>4, <1>5, <2>1 DEF Appears
  <2>3. AgentStore(agents', bindings', m) =
          IF n = m THEN AgentStore(agents, bindings, m) \cup {made}
                   ELSE AgentStore(agents, bindings, m)
    BY <2>1, <2>2, AgentAdded
  <2>4. /\ AgentsOf(m) = AgentStore(agents, bindings, m)
        /\ AgentsOf(m)' = AgentStore(agents', bindings', m)
    BY StoreOfTables
  <2> QED BY <2>3, <2>4
<1>8. bound \subseteq {x.id : x \in ToolsOf(n)}
  <2> SUFFICES ASSUME NEW k \in 1..Len(Wanted(q))
               PROVE  Wanted(q)[k] \in {x.id : x \in ToolsOf(n)}
    BY DEF WantedTools
  <2>1. PICK x \in tools : x.id = Wanted(q)[k] /\ x.tenant = n
    BY <1>1 DEF IInv, Rest, Found, HasTool
  <2> DEFINE y == [id |-> x.id, name |-> x.name, deleted |-> x.deleted]
  <2>2. y \in ToolsOf(n) /\ y.id = Wanted(q)[k]
    BY <2>1 DEF ToolsOf
  <2> QED BY <2>2
<1>9. name # NoName => \A x \in AgentsOf(n) : x.name # name
  BY <1>1 DEF IInv, Rest, OpenNames, Open, AgentsOf
<1> HIDE DEF bound
<1>10. Stores!AddAgent(n, q, name, bound)
  <2>1. name # NoName => Stores!Unnamed([m \in Ids |-> AgentsOf(m)][n], name)
    BY <1>2, <1>9 DEF Stores!Unnamed
  <2>2. [m \in Ids |-> AgentsOf(m)]' =
          [[m \in Ids |-> AgentsOf(m)] EXCEPT ![n] = @ \cup {made}]
    BY <1>2, <1>7
  <2> QED BY <1>1, <1>2, <1>8, <2>1, <2>2, StoresKept DEF Stores!AddAgent
<1> QED BY <1>2, <1>8, <1>10 DEF Stores!Operate

-------------------------------------------------------------------------------
(* The refinement *)

\* A request that has not authenticated itself acts for nobody.
Unidentified == \A q \in Requests : pc[q] = "idle" => session[q] = None

LEMMA UnidentifiedNext ==
  ASSUME IInv, Unidentified, [Next]_vars
  PROVE  Unidentified'
<1> USE DEF Unidentified
<1>1. CASE Still
  BY <1>1 DEF Still
<1>2. ASSUME NEW q \in Requests, Ended(q) \/ Informed(q) PROVE Unidentified'
  BY <1>2 DEF Ended, Informed, Others
<1>3. ASSUME NEW q \in Requests, Authenticate(q) PROVE Unidentified'
  BY <1>3 DEF Authenticate, IInv, TypeOK
<1>4. ASSUME NEW q \in Requests, Writes(q) PROVE Unidentified'
  <2>1. pc'[q] # "idle"
    BY <1>4, Concluded DEF Writes, WritesAgent, Continue, Lost, Fault, End, IInv, TypeOK
  <2> QED BY <1>4, <2>1, WritersKeep DEF IInv, Others
<1>5. ASSUME NEW q \in Requests, Moved(q),
             Moves(q) \/ (GetAgentOfRun(q) /\ ~Blank(q))
      PROVE  Unidentified'
  <2>1. pc'[q] # "idle"
    BY <1>5 DEF Moves, InsertAgent, CheckTool, BindTool, GetAgent, GetAgentOfRun, Continue,
                AfterBinding, IInv, TypeOK
  <2> QED BY <1>5, <2>1 DEF Moved, Others
<1> QED BY <1>1, <1>2, <1>3, <1>4, <1>5, Kinds DEF IInv, Rest

\* What an answer names is in the store of its tenant when it is given.
LEMMA AnswerMaps ==
  ASSUME IInv, IInv', NEW q \in Requests, Others(q), session' = session, session[q] \in Ids
  PROVE  Stores!Answer(q, session[q])
<1> DEFINE n == session[q]
<1>1. told \in [Requests -> SUBSET Ids] /\ told' \in [Requests -> SUBSET Ids]
  BY DEF IInv, TypeOK
<1>2. told' = [told EXCEPT ![q] = told'[q]]
  BY <1>1 DEF Others
<1>3. ASSUME NEW i \in told'[q]
      PROVE  \E x \in tools' \cup agents' \cup runs' : x.id = i /\ x.tenant = n
  BY <1>3 DEF IInv, Rest, Told
<1>4. ASSUME NEW i \in told'[q] PROVE i \in Stores!IdsOf(n)'
  <2>1. i \in {x.id : x \in ToolStore(tools', n) \cup AgentStore(agents', bindings', n)
                              \cup RunStore(runs', n)}
    BY <1>3, <1>4, StoreIds
  <2>2. i \in {x.id : x \in ToolsOf(n)' \cup AgentsOf(n)' \cup RunsOf(n)'}
    BY <2>1, StoreOfTables
  <2> QED BY <2>2 DEF Stores!IdsOf
<1> QED BY <1>2, <1>4 DEF Stores!Answer

LEMMA ActMaps ==
  ASSUME IInv, IInv', NEW q \in Requests, Others(q), session' = session, session[q] \in Ids,
         Stores!Operate(q, session[q])
  PROVE  Stores!Next
BY AnswerMaps DEF Stores!Next, Stores!Act

\* A step that changes no table of the stores, no session and no answer.
LEMMA NothingMaps ==
  ASSUME RowsKept, session' = session, told' = told
  PROVE  UNCHANGED Stores!vars
BY StoresKept DEF RowsKept, Stores!vars, Stores!store

LEMMA WritesMap ==
  ASSUME IInv, IInv', NEW q \in Requests, Writes(q)
  PROVE  Stores!Next
<1>1. Others(q) /\ session' = session
  BY WritersKeep DEF IInv
<1>2. session[q] \in Ids /\ Stores!Operate(q, session[q])
  BY CreateToolMaps, DeleteToolMaps, CommitAgentMaps, InsertRunMaps DEF Writes, WritesAgent
<1> QED BY <1>1, <1>2, ActMaps

LEMMA AuthenticateMaps ==
  ASSUME IInv, Unidentified, NEW q \in Requests, Authenticate(q)
  PROVE  Stores!Next
<1>1. /\ pc[q] = "idle" /\ UNCHANGED tables /\ told' = told
      /\ \E k \in keys : session' = [session EXCEPT ![q] = k.tenant]
  BY DEF Authenticate, At, FoundByPrefix
<1>2. PICK n \in Ids : session' = [session EXCEPT ![q] = n]
  BY <1>1 DEF IInv, TypeOK, KeyRow
<1>3. session[q] = None
  BY <1>1 DEF Unidentified
<1>4. Stores!Identify(q, n)
  BY <1>1, <1>2, <1>3, StoresKept DEF Stores!Identify, Stores!store, tables
<1> QED BY <1>4 DEF Stores!Next

LEMMA SessionsKept ==
  ASSUME TypeOK, TypeOK', NEW q \in Requests, Others(q), session'[q] = session[q]
  PROVE  session' = session
BY DEF TypeOK, Others

LEMMA AnswersKept ==
  ASSUME TypeOK, TypeOK', NEW q \in Requests, Others(q), told'[q] = told[q]
  PROVE  told' = told
BY DEF TypeOK, Others

LEMMA StoresStep ==
  ASSUME IInv, Unidentified, [Next]_vars
  PROVE  Stores!Next \/ UNCHANGED Stores!vars
<1>0. IInv'
  BY Inductive
<1>1. CASE Still
  BY <1>1, NothingMaps DEF Still, RowsKept, tables
<1>2. ASSUME NEW q \in Requests, Ended(q) PROVE UNCHANGED Stores!vars
  <2>1. told'[q] = told[q]
    BY <1>2 DEF Ended, IInv, Rest, Places
  <2>2. session' = session /\ told' = told
    BY <1>0, <1>2, <2>1, SessionsKept, AnswersKept DEF Ended, IInv
  <2> QED BY <1>2, <2>2, NothingMaps DEF Ended
<1>3. ASSUME NEW q \in Requests, Informed(q) PROVE Stores!Next
  <2>1. session[q] \in Ids
    BY <1>3 DEF Informed, IInv, Rest, Places
  <2>2. session' = session
    BY <1>0, <1>3, SessionsKept DEF Informed, IInv
  <2>3. UNCHANGED Stores!store
    BY <1>3, StoresKept DEF Informed, RowsKept, Stores!store
  <2>4. Stores!Operate(q, session[q])
    BY <2>3 DEF Stores!Operate
  <2> QED BY <1>0, <1>3, <2>1, <2>2, <2>4, ActMaps DEF Informed
<1>4. ASSUME NEW q \in Requests, Moved(q) PROVE UNCHANGED Stores!vars
  <2>1. session' = session /\ told' = told
    BY <1>0, <1>4, SessionsKept, AnswersKept DEF Moved, IInv
  <2> QED BY <1>4, <2>1, NothingMaps DEF Moved
<1>5. ASSUME NEW q \in Requests, Writes(q) PROVE Stores!Next
  BY <1>0, <1>5, WritesMap
<1>6. ASSUME NEW q \in Requests, Authenticate(q) PROVE Stores!Next
  BY <1>6, AuthenticateMaps
<1> QED BY <1>1, <1>2, <1>3, <1>4, <1>5, <1>6, Kinds DEF IInv, Rest

\* Whatever the requests of the tenants do to the shared tables, each tenant
\* sees a store that only its own requests change, by whole operations, and of
\* which alone they are told.
THEOREM StoresImplemented == Spec => ImplementsTenantStores
<1>1. Init => Unidentified /\ Stores!Init
  BY DEF Init, Unidentified, Stores!Init
<1>2. IInv /\ Unidentified /\ [Next]_vars => Unidentified'
  BY UnidentifiedNext
<1>3. IInv /\ Unidentified /\ [Next]_vars => [Stores!Next]_(Stores!vars)
  BY StoresStep
<1> QED
  BY <1>1, <1>2, <1>3, Invariant, PTL DEF Spec, ImplementsTenantStores, Stores!Spec

===============================================================================
