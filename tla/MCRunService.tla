----------------------------- MODULE MCRunService -----------------------------
(***************************************************************************)
(* Small instances of RunService for TLC.  One table of agents and tools;  *)
(* each .cfg picks the part of it that its question needs.                 *)
(***************************************************************************)
EXTENDS RunClaims, TLC

MCTenants == {"acme", "bravo"}

\* Agents, by what they make the loop do:
\*   search  three iterations: two calls and the answer; two tools to choose
\*   brief   one iteration: runs out of iterations after one call
\*   rival   another tenant's agent, two iterations
\*   picky   its tools refuse the call in the ways a schema can
\*   broken  its tool's handler cannot be executed
\*   bare    no tools at all
MCAgentTenant ==
  [a \in Agents |-> IF a = "rival" THEN "bravo" ELSE "acme"]

MCMaxIterations ==
  [a \in Agents |-> CASE a = "brief" -> 1 [] a = "rival" -> 2 [] OTHER -> 3]

MCToolTenant == [t \in Tools |-> IF t = "theirs" THEN "bravo" ELSE "acme"]

MCToolKind ==
  [t \in Tools |-> IF t \in ToolKinds THEN t ELSE "ok"]

\* "loose" is a tool of acme that no agent is bound to.
MCBindings ==
  [a \in Agents |->
     Tools \cap CASE a = "search" -> {"lookup", "spare"}
                  [] a = "brief"  -> {"lookup"}
                  [] a = "rival"  -> {"theirs"}
                  [] a = "picky"  -> {"rejects", "malformed", "once"}
                  [] a = "broken" -> {"nonstatic"}
                  [] a = "bare"   -> {}]

Request(tenant, agent, key) ==
  [tenant |-> tenant, agent |-> agent, key |-> key, force |-> FALSE, empty |-> FALSE]

Keyless(tenant, agent) == Request(tenant, agent, NoKey)

Symmetry == Permutations(Requests)

\* Every way through the loop, every way an iteration can end a run, and the
\* requests refused at the door.
LoopInputs ==
  LET plain  == {Keyless("acme", a) : a \in {"search", "brief", "picky", "broken", "bare"}}
      forced == [Keyless("acme", "search") EXCEPT !.force = TRUE]
      blank  == [Keyless("acme", "search") EXCEPT !.empty = TRUE]
      alien  == Keyless("bravo", "search")
  IN plain \cup {Keyless("bravo", "rival"), forced, blank, alien}

\* Two tenants compete for admission, with the same key and with none.
AdmissionInputs ==
  {Request("acme", "brief", "k1"), Request("bravo", "rival", "k1"),
   Keyless("acme", "brief")}

\* The same key twice, a run that succeeds and one that fails.
FaultInputs == {Request("acme", "search", "k1"), Keyless("bravo", "rival")}

\* One scope, with and without a key.
KeyInputs == {Request("acme", "brief", "k1"), Keyless("acme", "brief")}

\* Two tenants, each run a scope of its own.
ShareInputs == {Keyless("acme", "brief"), Keyless("bravo", "rival")}

BriefInputs  == {Keyless("acme", "brief")}
BrokenInputs == {Keyless("acme", "broken")}
===============================================================================
