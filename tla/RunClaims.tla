------------------------------ MODULE RunClaims ------------------------------
(***************************************************************************)
(* What the repository's documents say of a run and the code does not do.  *)
(* Each claim is checked by a run of its own, on an instance where only    *)
(* the circumstance it is about can happen, and TLC refutes it.            *)
(***************************************************************************)
EXTENDS RunService

RunStatuses == {"pending", "running"} \cup Terminal

\* "Reusing the same key for the same agent returns the same run_id"
\* (README.md, Start a run): once the run of a scope exists, a further request
\* for the scope is answered with a run, not with an error.
RepeatIsAnswered ==
  \A p, q \in Requests :
    /\ p # q /\ SameScope(p, q)
    /\ row[p].status # "absent"
    /\ pc[q] = "done"
    => resp[q] \in RunStatuses

\* "mock_handler_failed", "llm_failed", "internal_error" are reasons a run
\* fails for (SERVER_SPEC, Error Reasons): without any outside fault, a run
\* whose execution is over has ended, whatever its tools and agent are like.
EveryRunEnds ==
  \A q \in Requests :
    pc[q] \in OverPc /\ row[q].status # "absent" => row[q].status \in Terminal

\* "Deleted tools cannot be executed." (SERVER_SPEC, Agent Capability)
DeletedNotExecuted ==
  [][\A q \in Requests :
       pc[q] # "exec" /\ pc'[q] = "exec" => catalog[loop[q].tool] = "active"]_pc

\* The limit per tenant is there "to prevent one tenant from monopolizing
\* resources" (architecture_decision_record.md): a request is refused for global
\* capacity only when that capacity is used by runs that execute or are being
\* admitted, or by its own tenant, and not by another tenant's requests that were
\* already refused because that tenant is at its limit.
RefusedTakesNoCapacity ==
  [][\A q \in Requests :
       pc[q] = "schedule" /\ pc'[q] = "rejectMark" =>
         Cardinality({p \in Holders("global") :
                        pc[p] \in TaskPc \cup {"tenant"} \/ TenantOf(p) = TenantOf(q)})
           >= GlobalMax]_pc

\* "Final run status and final run_end trace must agree." (SERVER_SPEC, Trace):
\* when nothing runs for a finished run any more, its trace has the run_end.
FinalStatusAgrees ==
  \A q \in Requests :
    pc[q] \in OverPc /\ row[q].status \in Terminal => HasEnd(q)
===============================================================================
