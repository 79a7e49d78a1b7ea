----------------------------- MODULE RunLifecycle -----------------------------
(***************************************************************************)
(* What the platform promises of a run, as a client of GET /runs/{id} and  *)
(* GET /runs/{id}/trace can observe it, and nothing of how the server      *)
(* keeps the promise:                                                      *)
(*                                                                         *)
(*   - one run at most for a (tenant, agent, idempotency key) scope;       *)
(*   - the status column moves pending -> running -> success | failed, or  *)
(*     pending -> failed, and a terminal status is never left;             *)
(*   - the run_end event is written at most once, last, after the status   *)
(*     became terminal, and reports that status.                           *)
(*                                                                         *)
(* RunService is shown to implement this specification.                    *)
(***************************************************************************)

CONSTANTS
  Runs,       \* the runs that may ever be created
  Unscoped    \* the scope of a run created without an idempotency key

VARIABLES
  scope,      \* scope[r]: (tenant_id, agent_id, idempotency_key), or Unscoped
  status,     \* status[r]: the status column, "absent" before the row exists
  runEnd      \* runEnd[r]: the status the run_end event reports, or "none"

vars == <<scope, status, runEnd>>

Terminal == {"success", "failed"}

Init ==
  /\ status = [r \in Runs |-> "absent"]
  /\ runEnd = [r \in Runs |-> "none"]

Move(r, from, to) ==
  /\ status[r] = from
  /\ status' = [status EXCEPT ![r] = to]
  /\ UNCHANGED <<scope, runEnd>>

\* The unique index uq_runs_idempotency: the scope of r is still free.
ScopeFree(r) ==
  scope[r] = Unscoped \/ \A p \in Runs : scope[p] = scope[r] => status[p] = "absent"

Create(r)  == ScopeFree(r) /\ Move(r, "absent", "pending")
Start(r)   == Move(r, "pending", "running")
Succeed(r) == Move(r, "running", "success")
Fail(r)    == Move(r, "running", "failed")
Reject(r)  == Move(r, "pending", "failed")

Publish(r) ==
  /\ status[r] \in Terminal
  /\ runEnd[r] = "none"
  /\ runEnd' = [runEnd EXCEPT ![r] = status[r]]
  /\ UNCHANGED <<scope, status>>

Next ==
  \E r \in Runs :
    \/ Create(r) \/ Start(r) \/ Succeed(r) \/ Fail(r) \/ Reject(r) \/ Publish(r)

Spec == Init /\ [][Next]_vars

===============================================================================
