--------------------------- MODULE RunOutcomeProofs ---------------------------
(***************************************************************************)
(* What a run leaves behind, for every value of the constants: the columns *)
(* of its row, what its client was told, the order of its trace, which     *)
(* tools it executed and how often.                                        *)
(*                                                                         *)
(* None of these five invariants of RunService is inductive.  Each one is  *)
(* strengthened by what it has to be at every control state of one request *)
(* (Columns, Story, Told, Choice, Count): a predicate of the values that   *)
(* belong to that request, because no step touches those of another.       *)
(***************************************************************************)
EXTENDS RunLifecycleProofs

\* Positions of the events of one type in trace s.
Of(s, type) == {i \in DOMAIN s : s[i].type = type}

Capacity == {"scheduler_capacity_exceeded", "tenant_concurrency_limit_exceeded"}
Refusals == {"bad_request", "not_found"}

Event(type, data) == [type |-> type, data |-> data]

\* Control states: before the first decision, before the mock LLM's answer is
\* traced, while its call is carried out, on the scheduler's refusal.
FreshPc  == {"idle", "begin", "accepted", "started", "load"} \cup HandlerPc
AskPc    == {"decide", "llm"}
CallPc   == {"authorize", "bindings", "exec"}
RejectPc == {"rejectMark", "rejectDecision", "rejectEnd", "rejectReply"}

-------------------------------------------------------------------------------
(* One request's step, and what it makes of the request's own values. *)

Same(q) ==
  /\ pc'[q] = pc[q] /\ row'[q] = row[q] /\ trace'[q] = trace[q]
  /\ loop'[q] = loop[q] /\ cause'[q] = cause[q] /\ resp'[q] = resp[q]

Own(q) ==
  \/ Receive(q) \/ HandlerStep(q) \/ TaskStep(q)
  \/ DbError(q) \/ AuthorizeError(q) \/ Disconnect(q)

Turns(q, to, r, s, l, c, a) ==
  /\ pc'[q] = to /\ row'[q] = r /\ trace'[q] = s
  /\ loop'[q] = l /\ cause'[q] = c /\ resp'[q] = a

Killed(q) ==
  /\ pc[q] \in ActivePc
  /\ Turns(q, "killed", row[q], trace[q], loop[q], cause[q], resp[q])

LEMMA ProceedTurns ==
  ASSUME TypeOK, NEW q \in Requests, NEW from, NEW to, Proceed(q, from, to)
  PROVE  /\ pc[q] = from
         /\ Turns(q, to, row[q], trace[q], loop[q], cause[q], resp[q])
BY DEF TypeOK, Proceed, Goto, Turns, database

LEMMA StoreTurns ==
  ASSUME TypeOK, NEW q \in Requests, NEW from, NEW to, NEW r, Store(q, from, to, r)
  PROVE  /\ pc[q] = from
         /\ Turns(q, to, r, trace[q], loop[q], cause[q], resp[q])
BY DEF TypeOK, Store, Goto, Turns

LEMMA AppendTurns ==
  ASSUME TypeOK, NEW q \in Requests, NEW from, NEW to, NEW type, NEW data,
         AppendEvent(q, from, to, type, data)
  PROVE  /\ pc[q] = from
         /\ Turns(q, to, row[q], Append(trace[q], Event(type, data)), loop[q], cause[q], resp[q])
BY DEF TypeOK, AppendEvent, Goto, Turns, Event

LEMMA FailTurns ==
  ASSUME TypeOK, NEW q \in Requests, NEW from, NEW to, NEW reason, FailWith(q, from, to, reason)
  PROVE  /\ pc[q] = from
         /\ Turns(q, to, row[q], trace[q], loop[q], reason, resp[q])
BY DEF TypeOK, FailWith, Goto, Turns, database

LEMMA FinishTurns ==
  ASSUME TypeOK, NEW q \in Requests, NEW to, NEW code, Finish(q, to, code)
  PROVE  Turns(q, to, row[q], trace[q], loop[q], cause[q], code)
BY DEF TypeOK, Finish, Turns, database

LEMMA ReturnTurns ==
  ASSUME TypeOK, NEW q \in Requests, NEW from, NEW to, NEW code, Return(q, from, to, code)
  PROVE  /\ pc[q] = from
         /\ Turns(q, to, row[q], trace[q], loop[q], cause[q], code)
BY FinishTurns DEF Return

\* The shapes of their own: the two permits, the loop's locals, a tool's event.
LEMMA AcquireTurns ==
  ASSUME TypeOK, NEW q \in Requests
  PROVE  /\ AcquireGlobal(q) =>
              /\ pc[q] = "schedule"
              /\ Turns(q, "tenant", row[q], trace[q], loop[q], cause[q], resp[q])
         /\ AcquireTenant(q) =>
              /\ pc[q] = "tenant"
              /\ Turns(q, "begin", row[q], trace[q], loop[q], cause[q], "pending")
BY DEF TypeOK, AcquireGlobal, AcquireTenant, Goto, Turns, database

LEMMA LoadTurns ==
  ASSUME TypeOK, NEW q \in Requests, Load(q)
  PROVE  /\ pc[q] = "load"
         /\ \E t \in Tools \cup {NilTool} :
              Turns(q, "decide", row[q], trace[q], [loop[q] EXCEPT !.first = t],
                    cause[q], resp[q])
<1>1. PICK t \in IF BoundTools(q) = {} THEN {NilTool} ELSE BoundTools(q) :
        loop' = [loop EXCEPT ![q] = [@ EXCEPT !.first = t]]
  BY DEF Load
<1>2. t \in Tools \cup {NilTool}
  <2>1. input[q].agent \in Agents
    BY InputAssumption DEF TypeOK, InputType
  <2> QED
    BY <1>1, <2>1, CatalogueAssumption DEF BoundTools
<1>3. loop'[q] = [loop[q] EXCEPT !.first = t]
  BY <1>1 DEF TypeOK
<1> QED
  BY <1>2, <1>3 DEF TypeOK, Load, Goto, Turns, database

LEMMA DecideTurns ==
  ASSUME TypeOK, NEW q \in Requests, NEW t, Decide(q, t)
  PROVE  /\ pc[q] = "decide"
         /\ Turns(q, "llm", row[q], trace[q], Decided(loop[q], t, input[q].force),
                  cause[q], resp[q])
BY DEF TypeOK, Decide, Goto, Turns, database

LEMMA ToolExecTurns ==
  ASSUME TypeOK, NEW q \in Requests, AppendToolExec(q)
  PROVE  /\ pc[q] = "exec"
         /\ Turns(q, IF LastIteration(q) THEN "fail" ELSE "decide", row[q],
                  Append(trace[q], Event("tool_exec", loop[q].tool)), Counted(loop[q]),
                  IF LastIteration(q) THEN "max_iterations_exceeded" ELSE cause[q], resp[q])
BY DEF TypeOK, AppendToolExec, Goto, Turns, Event

\* A step of x leaves every other request as it is.
LEMMA OwnFrame ==
  ASSUME TypeOK, NEW x \in Requests, NEW q \in Requests, q # x, Own(x)
  PROVE  Same(q)
<1> USE DEF Same
<1>1. CASE \E from, to : Proceed(x, from, to)
  BY <1>1 DEF TypeOK, Proceed, Goto, database
<1>2. CASE \E from, to, r : Store(x, from, to, r)
  BY <1>2 DEF TypeOK, Store, Goto
<1>3. CASE \E from, to, type, data : AppendEvent(x, from, to, type, data)
  BY <1>3 DEF TypeOK, AppendEvent, Goto
<1>4. CASE \E from, to, reason : FailWith(x, from, to, reason)
  BY <1>4 DEF TypeOK, FailWith, Goto, database
<1>5. CASE \E to, code : Finish(x, to, code)
  BY <1>5 DEF TypeOK, Finish, database
<1>6. CASE AcquireGlobal(x) \/ AcquireTenant(x)
  BY <1>6 DEF TypeOK, AcquireGlobal, AcquireTenant, Goto, database
<1>7. CASE Load(x) \/ \E t : Decide(x, t)
  BY <1>7 DEF TypeOK, Load, Decide, Goto, database
<1>8. CASE AppendToolExec(x) \/ AuthorizeError(x)
  BY <1>8 DEF TypeOK, AppendToolExec, AuthorizeError, Goto, database
<1>9. CASE Receive(x) \/ HandlerStep(x)
  BY <1>1, <1>2, <1>3, <1>4, <1>5, <1>6, <1>9
  DEF Receive, RefuseAgent, RefuseEmpty, Accept, HandlerStep, InsertRun, SelectExisting,
      CommitRun, AppendRunCreated, RefuseGlobal, RefuseTenant, MarkRejected,
      AppendRejected, AppendRejectedEnd, RejectReply, Return
<1>10. CASE TaskStep(x)
  BY <1>1, <1>2, <1>3, <1>4, <1>5, <1>7, <1>8, <1>10
  DEF TaskStep, BeginExecution, AppendAccepted, AppendRunStarted, DecideForced,
      DecideTool, DecideFinal, NoToolToCall, AppendLlmCall, ToolNotFound, ToolIsDeleted,
      ToolIsActive, ToolNotBound, SchemaRefuses, HandlerRefuses, ExecuteTool,
      FinalizeSuccess, AppendSuccessEnd, FinalizeFailed, AppendFailedEnd, Exit, Return
<1> QED
  BY <1>5, <1>8, <1>9, <1>10 DEF Own, DbError, Disconnect

LEMMA NextLocal ==
  ASSUME TypeOK, [Next]_vars, NEW q \in Requests
  PROVE  Same(q) \/ Killed(q) \/ Own(q)
<1>1. CASE \E x \in Requests : Own(x)
  BY <1>1, OwnFrame
<1>2. CASE \E t \in Tools : CreateTool(t) \/ DeleteTool(t)
  BY <1>2 DEF CreateTool, DeleteTool, SetTool, database, Same
<1>3. CASE Crash
  BY <1>3 DEF TypeOK, Crash, database, Same, Killed, Turns
<1>4. CASE UNCHANGED vars
  BY <1>4 DEF vars, Same
<1> QED
  BY <1>1, <1>2, <1>3, <1>4 DEF Next, Terminating, Own

-------------------------------------------------------------------------------
(* The columns of the row. *)

\* What the row r is, and the error_reason c about to be recorded, at p.
Columns(p, r, c) ==
  /\ r.answer <=> r.status = "success"
  /\ r.reason # "none" <=> r.status = "failed"
  /\ r.finished <=> r.status \in Terminal
  /\ r.status \in {"running", "success"} => r.started
  /\ r.status \in {"absent", "pending"} => ~r.started
  /\ r.reason # "none" => r.reason = c
  /\ r.started => c \notin Capacity
  /\ p \notin RejectPc \cup OverPc => c \notin Capacity
  /\ p \in RejectPc => c \in Capacity /\ ~r.started
  /\ p = "fail" => c # "none"

USE DEF HandlerPc, TaskPc, ActivePc, OverPc, RejectPc, Capacity

ColumnsInv == \A q \in Requests : Columns(pc[q], row[q], cause[q])

\* The four statements that write the row.
LEMMA RejectColumns ==
  ASSUME NEW r \in RowType, NEW c \in Reasons, Columns("rejectMark", r, c)
  PROVE  Columns("rejectDecision", MarkRunFailed(r, c), c)
<1> DEFINE f == MarkRunFailed(r, c)
<1>1. /\ f.status = "failed" /\ f.reason = c /\ f.finished = TRUE
      /\ f.answer = r.answer /\ f.started = r.started
  BY DEF MarkRunFailed, RowType
<1>2. c # "none" /\ ~r.answer
  BY DEF Columns
<1> HIDE DEF f
<1>3. Columns("rejectDecision", f, c)
  BY <1>1, <1>2 DEF Columns, Terminal
<1> QED
  BY <1>3 DEF f

LEMMA BeginColumns ==
  ASSUME NEW r \in RowType, NEW c, Columns("begin", r, c), r.status = "pending"
  PROVE  Columns("accepted", BeginRunExecution(r), c)
<1> DEFINE f == BeginRunExecution(r)
<1>1. /\ f.status = "running" /\ f.reason = r.reason /\ f.finished = r.finished
      /\ f.answer = r.answer /\ f.started = TRUE
  BY DEF BeginRunExecution, RowType
<1> HIDE DEF f
<1>2. Columns("accepted", f, c)
  BY <1>1 DEF Columns, Terminal
<1> QED
  BY <1>2 DEF f

LEMMA SucceedColumns ==
  ASSUME TypeOK, NEW q \in Requests, FinalizeSuccess(q), row[q].status = "running",
         Columns(pc[q], row[q], cause[q])
  PROVE  Columns(pc'[q], row'[q], cause'[q])
<1>1. /\ pc[q] = "succeed" /\ pc'[q] = "endSuccess" /\ cause'[q] = cause[q]
      /\ row'[q] = [row[q] EXCEPT !.status = "success", !.answer = TRUE, !.reason = "none",
                                !.finished = TRUE]
  BY StoreTurns DEF FinalizeSuccess, FinalizeRun, Turns
<1>2. row[q] \in RowType
  BY DEF TypeOK
<1>3. /\ row'[q].status = "success" /\ row'[q].reason = "none" /\ row'[q].finished = TRUE
      /\ row'[q].answer = TRUE /\ row'[q].started = row[q].started
  BY <1>1, <1>2 DEF RowType
<1> QED
  BY <1>1, <1>3 DEF Columns, Terminal

LEMMA FailColumns ==
  ASSUME TypeOK, NEW q \in Requests, FinalizeFailed(q), row[q].status = "running",
         Columns(pc[q], row[q], cause[q])
  PROVE  Columns(pc'[q], row'[q], cause'[q])
<1>1. /\ pc[q] = "fail" /\ pc'[q] = "endFailed" /\ cause'[q] = cause[q]
      /\ row'[q] = [row[q] EXCEPT !.status = "failed", !.answer = FALSE, !.reason = cause[q],
                                !.finished = TRUE]
  BY StoreTurns DEF FinalizeFailed, FinalizeRun, Turns
<1>2. row[q] \in RowType
  BY DEF TypeOK
<1>3. /\ row'[q].status = "failed" /\ row'[q].reason = cause[q] /\ row'[q].finished = TRUE
      /\ row'[q].answer = FALSE /\ row'[q].started = row[q].started
  BY <1>1, <1>2 DEF RowType
<1> QED
  BY <1>1, <1>3 DEF Columns, Terminal

LEMMA ColumnsOwn ==
  ASSUME TypeOK, ControlInv, NEW q \in Requests, Own(q), Columns(pc[q], row[q], cause[q])
  PROVE  Columns(pc'[q], row'[q], cause'[q])
<1>0. /\ ControlAt(pc[q], row[q], trace[q])
      /\ row[q] \in RowType /\ cause[q] \in Reasons
  BY DEF ControlInv, TypeOK
<1>1. CASE Receive(q)
  BY <1>1, ProceedTurns, ReturnTurns
  DEF Receive, RefuseAgent, RefuseEmpty, Accept, Turns, Columns
<1>2. CASE InsertRun(q) \/ SelectExisting(q) \/ RejectReply(q)
  BY <1>2, ProceedTurns, ReturnTurns DEF InsertRun, SelectExisting, RejectReply, Turns, Columns
<1>3. CASE CommitRun(q)
  BY <1>3, StoreTurns DEF CommitRun, NewRow, NoRow, Terminal, Turns, Columns
<1>4. CASE AppendRunCreated(q) \/ AppendRejected(q) \/ AppendRejectedEnd(q)
  BY <1>4, AppendTurns DEF AppendRunCreated, AppendRejected, AppendRejectedEnd, Turns, Columns
<1>5. CASE AcquireGlobal(q) \/ AcquireTenant(q)
  BY <1>5, AcquireTurns DEF Turns, Columns
<1>6. CASE RefuseGlobal(q) \/ RefuseTenant(q)
  BY <1>0, <1>6, FailTurns
  DEF RefuseGlobal, RefuseTenant, ControlAt, PendingPc, Turns, Columns
<1>7. CASE MarkRejected(q)
  BY <1>0, <1>7, StoreTurns, RejectColumns DEF MarkRejected, Turns
<1>8. CASE BeginExecution(q)
  <2>1. pc[q] = "begin" /\ row[q].status = "pending"
    BY <1>0, <1>8 DEF BeginExecution, Store, Goto, ControlAt, PendingPc
  <2> QED
    BY <1>0, <1>8, <2>1, StoreTurns, BeginColumns DEF BeginExecution, Turns
<1>9. CASE AppendAccepted(q) \/ AppendRunStarted(q) \/ AppendLlmCall(q)
  BY <1>9, AppendTurns DEF AppendAccepted, AppendRunStarted, AppendLlmCall, Turns, Columns
<1>10. CASE Load(q) \/ DecideForced(q) \/ DecideTool(q) \/ DecideFinal(q)
  BY <1>10, LoadTurns, DecideTurns DEF DecideForced, DecideTool, DecideFinal, Turns, Columns
<1>11. CASE ToolNotFound(q) \/ ToolIsDeleted(q) \/ ToolNotBound(q) \/ SchemaRefuses(q)
  <2>1. PICK reason \in Reasons \ (Capacity \cup {"none"}) :
          /\ pc[q] \in {"authorize", "bindings"}
          /\ Turns(q, "fail", row[q], trace[q], loop[q], reason, resp[q])
    BY <1>11, FailTurns DEF ToolNotFound, ToolIsDeleted, ToolNotBound, SchemaRefuses, Reasons
  <2> QED
    BY <1>0, <2>1 DEF ControlAt, RunningPc, Turns, Columns
<1>12. CASE ToolIsActive(q) \/ ExecuteTool(q)
  BY <1>12, ProceedTurns DEF ToolIsActive, ExecuteTool, Turns, Columns
<1>13. CASE NoToolToCall(q) \/ HandlerRefuses(q) \/ Exit(q)
  BY <1>13, ReturnTurns DEF NoToolToCall, HandlerRefuses, Exit, Turns, Columns
<1>14. CASE AppendToolExec(q)
  BY <1>0, <1>14, ToolExecTurns DEF ControlAt, RunningPc, Turns, Columns
<1>15. CASE FinalizeSuccess(q) \/ FinalizeFailed(q)
  <2>1. row[q].status = "running"
    BY <1>0, <1>15 DEF FinalizeSuccess, FinalizeFailed, Store, Goto, ControlAt, RunningPc
  <2> QED
    BY <1>15, <2>1, SucceedColumns, FailColumns
<1>16. CASE AppendSuccessEnd(q) \/ AppendFailedEnd(q)
  BY <1>16, AppendTurns DEF AppendSuccessEnd, AppendFailedEnd, Turns, Columns
<1>17. CASE DbError(q) \/ Disconnect(q)
  BY <1>17, FinishTurns DEF DbError, Disconnect, Turns, Columns
<1>18. CASE AuthorizeError(q)
  BY <1>0, <1>18 DEF TypeOK, AuthorizeError, database, ControlAt, RunningPc, Columns
<1> QED
  BY <1>1, <1>2, <1>3, <1>4, <1>5, <1>6, <1>7, <1>8, <1>9, <1>10, <1>11, <1>12, <1>13,
     <1>14, <1>15, <1>16, <1>17, <1>18
  DEF Own, HandlerStep, TaskStep

LEMMA ColumnsNext == TypeOK /\ ControlInv /\ ColumnsInv /\ [Next]_vars => ColumnsInv'
<1> SUFFICES ASSUME TypeOK, ControlInv, ColumnsInv, [Next]_vars, NEW q \in Requests
             PROVE  Columns(pc'[q], row'[q], cause'[q])
  BY DEF ColumnsInv
<1>1. Columns(pc[q], row[q], cause[q])
  BY DEF ColumnsInv
<1>2. CASE Same(q)
  BY <1>1, <1>2 DEF Same
<1>3. CASE Killed(q)
  BY <1>1, <1>3 DEF Killed, Turns, Columns, RejectPc
<1>4. CASE Own(q)
  BY <1>1, <1>4, ColumnsOwn
<1> QED
  BY <1>2, <1>3, <1>4, NextLocal

LEMMA ColumnsInit == Init => ColumnsInv
BY DEF Init, ColumnsInv, Columns, NoRow, RejectPc, Capacity, Terminal

-------------------------------------------------------------------------------
(* The order of the trace. *)

LEMMA AppendAt ==
  ASSUME NEW s \in Seq(EventType), NEW e \in EventType
  PROVE  /\ Len(s) \in Nat /\ Len(Append(s, e)) = Len(s) + 1
         /\ DOMAIN s = 1..Len(s) /\ DOMAIN Append(s, e) = 1..(Len(s) + 1)
         /\ \A i \in 1..Len(s) : Append(s, e)[i] = s[i]
         /\ Append(s, e)[Len(s) + 1] = e
OBVIOUS

\* What LegalTrace says of one trace, and the events that may follow it.
Legal(s) ==
  /\ Len(s) >= 1 => s[1].type = "run_created"
  /\ Len(s) >= 2 => s[2].type = "scheduler_decision"
  /\ Len(s) >= 3 => s[3].type = IF s[2].data = "accepted" THEN "run_started" ELSE "run_end"
  /\ Len(s) >= 4 => s[2].data = "accepted"
  /\ \A i \in 4..Len(s) : LegalStep(s, i)

Odd(n)  == n % 2 = 1
Even(n) == n % 2 = 0

LEMMA Parity ==
  ASSUME NEW n \in Nat
  PROVE  (Odd(n) => Even(n + 1)) /\ (Even(n) => Odd(n + 1)) /\ Odd(3)
BY DEF Odd, Even

MayFollow(s, e) ==
  /\ Len(s) = 0 => e.type = "run_created"
  /\ Len(s) = 1 => e.type = "scheduler_decision"
  /\ Len(s) = 2 => e.type = IF s[2].data = "accepted" THEN "run_started" ELSE "run_end"
  /\ Len(s) >= 3 =>
       /\ s[2].data = "accepted"
       /\ \/ Odd(Len(s)) /\ e.type = "llm_call"
          \/ Even(Len(s)) /\ e.type = "tool_exec" /\ e.data = s[Len(s)].data
          \/ e.type = "run_end" /\ (e.data = "success" <=> s[Len(s)].data = FinalAnswer)

LEMMA LegalAppend ==
  ASSUME NEW s \in Seq(EventType), NEW e \in EventType,
         Unpublished(s), Legal(s), MayFollow(s, e)
  PROVE  Legal(Append(s, e))
<1> DEFINE n == Len(s)
           z == Append(s, e)
<1>1. /\ n \in Nat /\ Len(z) = n + 1 /\ DOMAIN s = 1..n
      /\ \A i \in 1..n : z[i] = s[i]
      /\ z[n + 1] = e
  BY AppendAt
<1> HIDE DEF z
<1>2. ASSUME NEW i \in 4..n PROVE LegalStep(z, i)
  <2>1. LegalStep(s, i) /\ s[i].type # "run_end"
    BY <1>1, <1>2 DEF Legal, Unpublished
  <2>2. z[i] = s[i] /\ z[i - 1] = s[i - 1]
    BY <1>1, <1>2
  <2> QED
    BY <2>1, <2>2 DEF LegalStep
<1>3. ASSUME n + 1 >= 4 PROVE LegalStep(z, n + 1)
  <2>1. z[n + 1] = e /\ z[(n + 1) - 1] = s[n] /\ n \in Nat /\ n >= 3
    BY <1>1, <1>3
  <2>2. (Odd(n) => Even(n + 1)) /\ (Even(n) => Odd(n + 1))
    BY <1>1, Parity
  <2>3. Len(z) = n + 1
    BY <1>1
  <2> QED
    BY <2>1, <2>2, <2>3 DEF MayFollow, LegalStep, Odd, Even
<1>4. \A i \in 4..Len(z) : LegalStep(z, i)
  <2> SUFFICES ASSUME NEW i \in 4..Len(z) PROVE LegalStep(z, i)
    OBVIOUS
  <2>1. i \in 4..n \/ (i = n + 1 /\ n + 1 >= 4)
    BY <1>1
  <2> QED
    BY <1>2, <1>3, <2>1
<1>5. /\ Len(z) >= 1 => z[1].type = "run_created"
      /\ Len(z) >= 2 => z[2].type = "scheduler_decision"
      /\ Len(z) >= 3 => z[3].type = IF z[2].data = "accepted" THEN "run_started" ELSE "run_end"
      /\ Len(z) >= 4 => z[2].data = "accepted"
  <2>1. CASE n = 0
    BY <1>1, <2>1 DEF MayFollow
  <2>2. CASE n = 1
    BY <1>1, <2>2 DEF MayFollow, Legal
  <2>3. CASE n = 2
    BY <1>1, <2>3 DEF MayFollow, Legal
  <2>4. CASE n >= 3
    BY <1>1, <2>4 DEF MayFollow, Legal
  <2> QED
    BY <1>1, <2>1, <2>2, <2>3, <2>4
<1>6. Legal(z)
  BY <1>4, <1>5 DEF Legal
<1> QED
  BY <1>6 DEF z

\* What the trace s is at p, t being the tool the loop last decided to call and
\* c the error_reason about to be recorded.
Story(p, s, t, c) ==
  /\ p \in {"idle", "insert", "conflict", "commit", "created"} => Len(s) = 0
  /\ p \in {"schedule", "tenant", "rejectMark", "rejectDecision", "begin", "accepted"} =>
       Len(s) = 1
  /\ p = "rejectEnd" => Len(s) = 2 /\ s[2].data = c
  /\ p = "rejectReply" => Len(s) = 3 /\ s[2].data = c
  /\ p = "started" => Len(s) = 2 /\ s[2].data = "accepted"
  /\ p = "load" => Len(s) = 3 /\ s[2].data = "accepted"
  /\ p \in AskPc => Len(s) >= 3 /\ Odd(Len(s)) /\ s[2].data = "accepted"
  /\ p \in CallPc =>
       /\ Len(s) >= 4 /\ Even(Len(s))
       /\ s[Len(s)] = Event("llm_call", t) /\ t # FinalAnswer
  /\ p \in {"succeed", "endSuccess"} => Len(s) >= 4 /\ s[Len(s)].data = FinalAnswer
  /\ p \in {"fail", "endFailed"} => Len(s) >= 4 /\ s[Len(s)].data # FinalAnswer
  /\ Legal(s)

StoryInv == \A q \in Requests : Story(pc[q], trace[q], loop[q].tool, cause[q])

\* One more event.
LEMMA StoryAppend ==
  ASSUME NEW s \in Seq(EventType), NEW type, NEW data, Event(type, data) \in EventType,
         Legal(s), Unpublished(s), MayFollow(s, Event(type, data)),
         NEW z, z = Append(s, Event(type, data))
  PROVE  /\ Legal(z) /\ Len(s) \in Nat /\ Len(z) = Len(s) + 1
         /\ z[Len(z)].type = type /\ z[Len(z)].data = data
         /\ z[Len(z)] = Event(type, data)
         /\ Len(s) >= 2 => z[2] = s[2]
         /\ Len(s) = 1 => z[2].data = data
<1> DEFINE e == Event(type, data)
<1>1. Legal(z)
  BY LegalAppend
<1>2. e.type = type /\ e.data = data
  BY DEF Event
<1> HIDE DEF e
<1>3. /\ Len(s) \in Nat /\ Len(z) = Len(s) + 1
      /\ \A i \in 1..Len(s) : z[i] = s[i]
      /\ z[Len(s) + 1] = e
  BY AppendAt DEF e
<1>4. Len(s) >= 2 => z[2] = s[2]
  BY <1>3
<1>5. Len(s) = 1 => z[2] = e
  BY <1>3
<1> QED
  BY <1>1, <1>2, <1>3, <1>4, <1>5 DEF e

\* The control states between which no event is written.
Quiet(p, to) ==
  \/ to \in OverPc \cup {"exit"}
  \/ {p, to} \subseteq {"idle", "insert", "conflict", "commit", "created"}
  \/ {p, to} \subseteq {"schedule", "tenant", "rejectMark", "rejectDecision", "begin",
                        "accepted"}
  \/ p \in {"load", "decide"} /\ to \in AskPc
  \/ p \in CallPc /\ to \in CallPc \cup {"fail"}
  \/ p = "succeed" /\ to = "endSuccess"
  \/ p = "fail" /\ to = "endFailed"

LEMMA StoryQuiet ==
  ASSUME NEW s \in Seq(EventType), NEW t, NEW u, NEW c, NEW d, NEW p, NEW to,
         Story(p, s, t, c), Quiet(p, to),
         to \in CallPc => u = t, to \notin {"rejectEnd", "rejectReply"}
  PROVE  Story(to, s, u, d)
<1> USE DEF Story, AskPc, CallPc, Event
<1>1. CASE p = "load" /\ to \in AskPc
  <2>1. Len(s) = 3 /\ s[2].data = "accepted" /\ Legal(s)
    BY <1>1
  <2>2. Odd(Len(s))
    BY <2>1, Parity
  <2> QED
    BY <1>1, <2>1, <2>2
<1>2. CASE p \in CallPc /\ to = "fail"
  BY <1>2
<1>3. CASE p \in CallPc /\ to \in CallPc
  BY <1>3
<1>4. CASE ~(p = "load" /\ to \in AskPc) /\ ~(p \in CallPc /\ to \in CallPc \cup {"fail"})
  BY <1>4 DEF Quiet
<1> QED
  BY <1>1, <1>2, <1>3, <1>4

\* The step q takes writes no event and keeps the tool of a call under way.
Unheard(q) ==
  /\ Quiet(pc[q], pc'[q]) /\ pc'[q] \notin {"rejectEnd", "rejectReply"}
  /\ trace'[q] = trace[q]
  /\ pc'[q] \in CallPc => loop'[q] = loop[q]

LEMMA HandlerUnheard ==
  ASSUME TypeOK, NEW q \in Requests,
         \/ Receive(q) \/ InsertRun(q) \/ SelectExisting(q) \/ RejectReply(q)
         \/ CommitRun(q) \/ MarkRejected(q) \/ AcquireGlobal(q) \/ AcquireTenant(q)
         \/ RefuseGlobal(q) \/ RefuseTenant(q) \/ DbError(q) \/ Disconnect(q)
  PROVE  Unheard(q)
<1> USE DEF Unheard, Quiet, Turns, AskPc, CallPc
<1>1. CASE Receive(q)
  BY <1>1, ProceedTurns, ReturnTurns DEF Receive, RefuseAgent, RefuseEmpty, Accept
<1>2. CASE InsertRun(q) \/ SelectExisting(q) \/ RejectReply(q)
  BY <1>2, ProceedTurns, ReturnTurns DEF InsertRun, SelectExisting, RejectReply
<1>3. CASE CommitRun(q) \/ MarkRejected(q)
  BY <1>3, StoreTurns DEF CommitRun, MarkRejected
<1>4. CASE AcquireGlobal(q) \/ AcquireTenant(q)
  BY <1>4, AcquireTurns
<1>5. CASE RefuseGlobal(q) \/ RefuseTenant(q)
  BY <1>5, FailTurns DEF RefuseGlobal, RefuseTenant
<1>6. CASE DbError(q) \/ Disconnect(q)
  BY <1>6, FinishTurns DEF DbError, Disconnect
<1> QED
  BY <1>1, <1>2, <1>3, <1>4, <1>5, <1>6

LEMMA TaskUnheard ==
  ASSUME TypeOK, ControlInv, NEW q \in Requests,
         \/ BeginExecution(q) \/ Load(q) \/ DecideForced(q) \/ DecideTool(q)
         \/ DecideFinal(q) \/ NoToolToCall(q) \/ ToolNotFound(q) \/ ToolIsDeleted(q)
         \/ ToolIsActive(q) \/ ToolNotBound(q) \/ SchemaRefuses(q) \/ HandlerRefuses(q)
         \/ ExecuteTool(q) \/ FinalizeSuccess(q) \/ FinalizeFailed(q) \/ Exit(q)
         \/ AuthorizeError(q)
  PROVE  Unheard(q)
<1> USE DEF Unheard, Quiet, Turns, AskPc, CallPc
<1>1. CASE BeginExecution(q)
  <2>1. row[q].status = "pending"
    BY <1>1 DEF ControlInv, BeginExecution, Store, Goto, ControlAt, PendingPc
  <2> QED
    BY <1>1, <2>1, StoreTurns DEF BeginExecution
<1>2. CASE FinalizeSuccess(q) \/ FinalizeFailed(q)
  BY <1>2, StoreTurns DEF FinalizeSuccess, FinalizeFailed, FinalizeRun
<1>3. CASE Load(q) \/ DecideForced(q) \/ DecideTool(q) \/ DecideFinal(q)
  BY <1>3, LoadTurns, DecideTurns DEF DecideForced, DecideTool, DecideFinal
<1>4. CASE NoToolToCall(q) \/ HandlerRefuses(q) \/ Exit(q)
  BY <1>4, ReturnTurns DEF NoToolToCall, HandlerRefuses, Exit
<1>5. CASE ToolNotFound(q) \/ ToolIsDeleted(q) \/ ToolNotBound(q) \/ SchemaRefuses(q)
  <2>1. PICK from \in CallPc : \E reason : FailWith(q, from, "fail", reason)
    BY <1>5 DEF ToolNotFound, ToolIsDeleted, ToolNotBound, SchemaRefuses
  <2> QED
    BY <2>1, FailTurns
<1>6. CASE ToolIsActive(q) \/ ExecuteTool(q)
  BY <1>6, ProceedTurns DEF ToolIsActive, ExecuteTool
<1>7. CASE AuthorizeError(q)
  BY <1>7 DEF TypeOK, AuthorizeError, database
<1> QED
  BY <1>1, <1>2, <1>3, <1>4, <1>5, <1>6, <1>7

\* Which event is written between the control states p and to; t and u are the
\* loop's tool before and after, c and d the error_reason.
Heard(p, to, type, data, t, u, c, d) ==
  \/ p = "created" /\ to = "schedule" /\ type = "run_created"
  \/ p = "rejectDecision" /\ to = "rejectEnd" /\ type = "scheduler_decision" /\ data = d
  \/ /\ p = "rejectEnd" /\ to = "rejectReply" /\ type = "run_end"
     /\ c # "accepted" /\ d = c
  \/ p = "accepted" /\ to = "started" /\ type = "scheduler_decision" /\ data = "accepted"
  \/ p = "started" /\ to = "load" /\ type = "run_started"
  \/ /\ p = "llm" /\ type = "llm_call" /\ data = t /\ u = t
     /\ to = IF t = FinalAnswer THEN "succeed" ELSE "authorize"
  \/ p = "exec" /\ to \in {"decide", "fail"} /\ type = "tool_exec" /\ data = t
  \/ p = "endSuccess" /\ to = "exit" /\ type = "run_end" /\ data = "success"
  \/ p = "endFailed" /\ to = "exit" /\ type = "run_end" /\ data = "failed"

LEMMA NotShort ==
  ASSUME NEW n \in Nat, n >= 3
  PROVE  n # 0 /\ n # 1 /\ n # 2
OBVIOUS

LEMMA HeardFollows ==
  ASSUME NEW s \in Seq(EventType), NEW p, NEW to, NEW type, NEW data, NEW t, NEW u, NEW c, NEW d,
         Story(p, s, t, c), Heard(p, to, type, data, t, u, c, d)
  PROVE  MayFollow(s, Event(type, data))
<1> DEFINE e == Event(type, data)
           n == Len(s)
<1>0. e.type = type /\ e.data = data
  BY DEF Event
<1>n. n \in Nat
  OBVIOUS
<1> HIDE DEF e
<1>1. CASE p \in {"created", "rejectDecision", "accepted"}
  <2>1. \/ n = 0 /\ type = "run_created"
        \/ n = 1 /\ type = "scheduler_decision"
    BY <1>1 DEF Heard, Story
  <2>2. CASE n = 0
    BY <1>0, <2>1, <2>2 DEF MayFollow, e
  <2>3. CASE n = 1
    BY <1>0, <2>1, <2>3 DEF MayFollow, e
  <2> QED
    BY <2>1, <2>2, <2>3
<1>2. CASE p \in {"rejectEnd", "started"}
  <2>1. n = 2 /\ type = IF s[2].data = "accepted" THEN "run_started" ELSE "run_end"
    BY <1>2 DEF Heard, Story
  <2>2. n # 0 /\ n # 1 /\ ~(n >= 3)
    BY <2>1
  <2> QED
    BY <1>0, <2>1, <2>2 DEF MayFollow, e
<1>3. CASE p = "llm"
  <2>1. n >= 3 /\ s[2].data = "accepted" /\ Odd(n) /\ type = "llm_call"
    BY <1>3 DEF Heard, Story, AskPc
  <2>2. n # 0 /\ n # 1 /\ n # 2
    <3>1. n >= 3
      BY <2>1
    <3> QED
      BY <1>n, <3>1, NotShort
  <2> QED
    BY <1>0, <2>1, <2>2 DEF MayFollow, e
<1>4. CASE p = "exec"
  <2>1. n >= 4 /\ Even(n) /\ type = "tool_exec" /\ data = s[n].data
    BY <1>4 DEF Heard, Story, CallPc, Event
  <2>2. s[2].data = "accepted"
    BY <2>1 DEF Story, Legal
  <2> QED
    BY <1>0, <2>1, <2>2 DEF MayFollow, e
<1>5. CASE p \in {"endSuccess", "endFailed"}
  <2>1. /\ n >= 4 /\ type = "run_end"
        /\ data = "success" <=> s[n].data = FinalAnswer
    BY <1>5 DEF Heard, Story
  <2>2. s[2].data = "accepted"
    BY <2>1 DEF Story, Legal
  <2>3. e.type = "run_end" /\ (e.data = "success" <=> s[Len(s)].data = FinalAnswer)
    BY <1>0, <2>1
  <2> QED
    BY <1>0, <2>1, <2>2, <2>3 DEF MayFollow, e
<1> QED
  BY <1>1, <1>2, <1>3, <1>4, <1>5 DEF Heard

LEMMA StoryHeard ==
  ASSUME NEW s \in Seq(EventType), NEW p, NEW to, NEW type, NEW data, NEW t, NEW u, NEW c, NEW d,
         Story(p, s, t, c), Heard(p, to, type, data, t, u, c, d), Unpublished(s),
         Event(type, data) \in EventType
  PROVE  Story(to, Append(s, Event(type, data)), u, d)
<1> SUFFICES ASSUME NEW z, z = Append(s, Event(type, data)) PROVE Story(to, z, u, d)
  OBVIOUS
<1> DEFINE n == Len(s)
<1>1. /\ Legal(z) /\ n \in Nat /\ Len(z) = n + 1
      /\ z[n + 1].type = type /\ z[n + 1].data = data /\ z[n + 1] = Event(type, data)
      /\ n >= 2 => z[2] = s[2]
      /\ n = 1 => z[2].data = data
  <2>1. MayFollow(s, Event(type, data)) /\ Legal(s)
    BY HeardFollows DEF Story
  <2>2. Len(z) = n + 1
    BY <2>1, StoryAppend
  <2>4. z[Len(z)] = Event(type, data)
    BY <2>1, StoryAppend
  <2>6. Legal(z)
    BY <2>1, StoryAppend
  <2>5. z[Len(z)].type = type /\ z[Len(z)].data = data
    BY <2>4 DEF Event
  <2>3. (n >= 2 => z[2] = s[2]) /\ (n = 1 => z[2].data = data)
    BY <2>1, StoryAppend
  <2> QED
    BY <2>2, <2>3, <2>4, <2>5, <2>6
<1>2. CASE p \in {"created", "rejectDecision", "accepted"}
  <2>1. \/ n = 0 /\ to = "schedule"
        \/ n = 1 /\ to = "rejectEnd" /\ data = d
        \/ n = 1 /\ to = "started" /\ data = "accepted"
    BY <1>2 DEF Heard, Story
  <2> QED
    BY <1>1, <2>1 DEF Story, AskPc, CallPc
<1>3. CASE p \in {"rejectEnd", "started"}
  <2>1. /\ n = 2
        /\ \/ to = "rejectReply" /\ s[2].data = d
           \/ to = "load" /\ s[2].data = "accepted"
    BY <1>3 DEF Heard, Story
  <2> QED
    BY <1>1, <2>1 DEF Story, AskPc, CallPc
<1>4. CASE p = "llm"
  <2>1. n >= 3 /\ Odd(n) /\ data = t /\ u = t /\ type = "llm_call"
    BY <1>4 DEF Heard, Story, AskPc
  <2>2. Even(n + 1)
    BY <1>1, <2>1, Parity
  <2>3. CASE t = FinalAnswer
    <3>1. to = "succeed"
      BY <1>4, <2>3 DEF Heard
    <3> QED
      BY <1>1, <2>1, <2>3, <3>1 DEF Story, AskPc, CallPc
  <2>4. CASE t # FinalAnswer
    <3>1. to = "authorize"
      BY <1>4, <2>4 DEF Heard
    <3> QED
      BY <1>1, <2>1, <2>2, <2>4, <3>1 DEF Story, AskPc, CallPc
  <2> QED
    BY <2>3, <2>4
<1>5. CASE p = "exec"
  <2>1. /\ n >= 4 /\ Even(n) /\ data = t /\ t # FinalAnswer
        /\ to \in {"decide", "fail"}
    BY <1>5 DEF Heard, Story, CallPc
  <2>2. s[2].data = "accepted"
    BY <2>1 DEF Story, Legal
  <2>3. Odd(n + 1)
    BY <1>1, <2>1, Parity
  <2> QED
    BY <1>1, <2>1, <2>2, <2>3 DEF Story, AskPc, CallPc
<1>6. CASE p \in {"endSuccess", "endFailed"}
  <2>1. to = "exit"
    BY <1>6 DEF Heard
  <2> QED
    BY <1>1, <2>1 DEF Story, AskPc, CallPc
<1> QED
  BY <1>2, <1>3, <1>4, <1>5, <1>6 DEF Heard

\* Every other step writes one event that Heard allows, while no run_end is there.
Speaks(q) ==
  \E type, data :
    /\ Heard(pc[q], pc'[q], type, data, loop[q].tool, loop'[q].tool, cause[q], cause'[q])
    /\ Event(type, data) \in EventType /\ Unpublished(trace[q])
    /\ trace'[q] = Append(trace[q], Event(type, data))

LEMMA AppendSpeaks ==
  ASSUME TypeOK, NEW q \in Requests, NEW from, NEW to, NEW type, NEW data,
         AppendEvent(q, from, to, type, data), Unpublished(trace[q]),
         Event(type, data) \in EventType,
         Heard(from, to, type, data, loop[q].tool, loop[q].tool, cause[q], cause[q])
  PROVE  Speaks(q)
<1>1. /\ pc[q] = from /\ pc'[q] = to /\ loop'[q] = loop[q] /\ cause'[q] = cause[q]
      /\ trace'[q] = Append(trace[q], Event(type, data))
  BY AppendTurns DEF Turns
<1> QED
  BY <1>1 DEF Speaks

LEMMA HandlerSpeaks ==
  ASSUME TypeOK, ControlInv, ColumnsInv, NEW q \in Requests,
         AppendRunCreated(q) \/ AppendRejected(q) \/ AppendRejectedEnd(q)
  PROVE  Speaks(q)
<1>0. /\ ControlAt(pc[q], row[q], trace[q]) /\ Columns(pc[q], row[q], cause[q])
      /\ cause[q] \in Reasons
  BY DEF ControlInv, ColumnsInv, TypeOK
<1>1. CASE AppendRunCreated(q)
  <2>1. Unpublished(trace[q])
    BY <1>0, <1>1, AppendTurns DEF AppendRunCreated, ControlAt, PendingPc
  <2> QED
    BY <1>1, <2>1, AppendSpeaks
    DEF AppendRunCreated, Heard, Event, EventType
<1>2. CASE AppendRejected(q)
  <2>1. Unpublished(trace[q])
    BY <1>0, <1>2, AppendTurns DEF AppendRejected, ControlAt, FailedPc
  <2> QED
    BY <1>0, <1>2, <2>1, AppendSpeaks
    DEF AppendRejected, Heard, Event, EventType
<1>3. CASE AppendRejectedEnd(q)
  <2>1. Unpublished(trace[q]) /\ cause[q] # "accepted"
    BY <1>0, <1>3, AppendTurns DEF AppendRejectedEnd, ControlAt, FailedPc, Columns
  <2> QED
    BY <1>3, <2>1, AppendSpeaks
    DEF AppendRejectedEnd, Heard, Event, EventType
<1> QED
  BY <1>1, <1>2, <1>3

LEMMA TaskSpeaks ==
  ASSUME TypeOK, ControlInv, NEW q \in Requests,
         \/ AppendAccepted(q) \/ AppendRunStarted(q) \/ AppendLlmCall(q)
         \/ AppendToolExec(q) \/ AppendSuccessEnd(q) \/ AppendFailedEnd(q)
  PROVE  Speaks(q)
<1>0. ControlAt(pc[q], row[q], trace[q]) /\ loop[q] \in LoopType
  BY DEF ControlInv, TypeOK
<1>1. CASE AppendAccepted(q) \/ AppendRunStarted(q)
  <2>1. Unpublished(trace[q])
    BY <1>0, <1>1, AppendTurns DEF AppendAccepted, AppendRunStarted, ControlAt, RunningPc
  <2> QED
    BY <1>1, <2>1, AppendSpeaks
    DEF AppendAccepted, AppendRunStarted, Heard, Event, EventType
<1>2. CASE AppendLlmCall(q)
  <2>1. Unpublished(trace[q])
    BY <1>0, <1>2, AppendTurns DEF AppendLlmCall, ControlAt, RunningPc
  <2> QED
    BY <1>0, <1>2, <2>1, AppendSpeaks
    DEF AppendLlmCall, Heard, Event, EventType, LoopType
<1>3. CASE AppendToolExec(q)
  <2>1. Unpublished(trace[q])
    BY <1>0, <1>3, ToolExecTurns DEF ControlAt, RunningPc
  <2> QED
    BY <1>0, <1>3, <2>1, ToolExecTurns DEF Turns, Speaks, Heard, Event, EventType, LoopType
<1>4. CASE AppendSuccessEnd(q) \/ AppendFailedEnd(q)
  <2>1. Unpublished(trace[q])
    BY <1>0, <1>4, AppendTurns DEF AppendSuccessEnd, AppendFailedEnd, ControlAt, FailedPc
  <2> QED
    BY <1>4, <2>1, AppendSpeaks
    DEF AppendSuccessEnd, AppendFailedEnd, Heard, Event, EventType
<1> QED
  BY <1>1, <1>2, <1>3, <1>4

LEMMA OwnHeard ==
  ASSUME TypeOK, ControlInv, ColumnsInv, NEW q \in Requests, Own(q)
  PROVE  Unheard(q) \/ Speaks(q)
BY HandlerUnheard, TaskUnheard, HandlerSpeaks, TaskSpeaks DEF Own, HandlerStep, TaskStep

LEMMA StoryOwn ==
  ASSUME TypeOK, ControlInv, ColumnsInv, NEW q \in Requests, Own(q),
         Story(pc[q], trace[q], loop[q].tool, cause[q])
  PROVE  Story(pc'[q], trace'[q], loop'[q].tool, cause'[q])
<1>0. trace[q] \in Seq(EventType)
  BY DEF TypeOK
<1>1. CASE Unheard(q)
  <2>1. /\ Quiet(pc[q], pc'[q]) /\ pc'[q] \notin {"rejectEnd", "rejectReply"}
        /\ trace'[q] = trace[q]
        /\ pc'[q] \in CallPc => loop'[q].tool = loop[q].tool
    BY <1>1 DEF Unheard
  <2> QED
    BY <1>0, <2>1, StoryQuiet
<1>2. CASE Speaks(q)
  <2>1. PICK type, data :
          /\ Heard(pc[q], pc'[q], type, data, loop[q].tool, loop'[q].tool, cause[q], cause'[q])
          /\ Event(type, data) \in EventType /\ Unpublished(trace[q])
          /\ trace'[q] = Append(trace[q], Event(type, data))
    BY <1>2 DEF Speaks
  <2>2. Story(pc'[q], Append(trace[q], Event(type, data)), loop'[q].tool, cause'[q])
    BY <1>0, <2>1, StoryHeard
  <2> QED
    BY <2>1, <2>2
<1> QED
  BY <1>1, <1>2, OwnHeard

LEMMA StoryNext ==
  TypeOK /\ ControlInv /\ ColumnsInv /\ StoryInv /\ [Next]_vars => StoryInv'
<1> SUFFICES ASSUME TypeOK, ControlInv, ColumnsInv, StoryInv, [Next]_vars, NEW q \in Requests
             PROVE  Story(pc'[q], trace'[q], loop'[q].tool, cause'[q])
  BY DEF StoryInv
<1>1. Story(pc[q], trace[q], loop[q].tool, cause[q]) /\ trace[q] \in Seq(EventType)
  BY DEF StoryInv, TypeOK
<1>2. CASE Same(q)
  BY <1>1, <1>2 DEF Same
<1>3. CASE Killed(q)
  <2>1. pc'[q] = "killed" /\ trace'[q] = trace[q]
    BY <1>3 DEF Killed, Turns
  <2>2. Quiet(pc[q], "killed") /\ "killed" \notin CallPc
    BY DEF Quiet, CallPc
  <2> QED
    BY <1>1, <2>1, <2>2, StoryQuiet
<1>4. CASE Own(q)
  BY <1>1, <1>4, StoryOwn
<1> QED
  BY <1>2, <1>3, <1>4, NextLocal

LEMMA StoryInit == Init => StoryInv
<1> SUFFICES ASSUME Init, NEW q \in Requests PROVE Story(pc[q], trace[q], loop[q].tool, cause[q])
  BY DEF StoryInv
<1>1. pc[q] = "idle" /\ trace[q] = <<>>
  BY DEF Init
<1>2. Len(trace[q]) = 0
  BY <1>1
<1> QED
  BY <1>1, <1>2 DEF Story, Legal, AskPc, CallPc

-------------------------------------------------------------------------------
(* What the client was told. *)

\* The run was refused by the scheduler for c, and nothing of it was executed.
Rejected(r, s, c) ==
  /\ r.status = "failed" /\ r.reason = c /\ ~r.started
  /\ Len(s) = 3 /\ s[2].data = c
  /\ s[1].type = "run_created" /\ s[2].type = "scheduler_decision" /\ s[3].type = "run_end"

\* How the answer a agrees with the row r, the trace s and the cause c at p.
Told(p, r, s, c, a) ==
  /\ p \in {"idle"} \cup HandlerPc => a = "none"
  /\ p \in TaskPc => a = "pending"
  /\ a \in Capacity \cup Refusals => p = "done"
  /\ a \in Capacity => Rejected(r, s, a)
  /\ p = "rejectReply" => Rejected(r, s, c)
  /\ a = "pending" => r.status # "absent" /\ c \notin Capacity
  /\ a \in Refusals => r.status = "absent"

ToldInv == \A q \in Requests : Told(pc[q], row[q], trace[q], cause[q], resp[q])

LEMMA HandlerQuiet ==
  ASSUME TypeOK, NEW q \in Requests,
         \/ Accept(q) \/ InsertRun(q) \/ CommitRun(q) \/ AppendRunCreated(q)
         \/ AcquireGlobal(q) \/ RefuseGlobal(q) \/ RefuseTenant(q) \/ MarkRejected(q)
         \/ AppendRejected(q)
  PROVE  /\ pc[q] \in {"idle"} \cup HandlerPc
         /\ pc'[q] \in HandlerPc \ {"rejectReply"}
         /\ resp'[q] = resp[q]
<1> USE DEF Turns
<1>1. CASE Accept(q) \/ InsertRun(q)
  BY <1>1, ProceedTurns DEF Accept, InsertRun
<1>2. CASE CommitRun(q) \/ MarkRejected(q)
  BY <1>2, StoreTurns DEF CommitRun, MarkRejected
<1>3. CASE AppendRunCreated(q) \/ AppendRejected(q)
  BY <1>3, AppendTurns DEF AppendRunCreated, AppendRejected
<1>4. CASE AcquireGlobal(q)
  BY <1>4, AcquireTurns
<1>5. CASE RefuseGlobal(q) \/ RefuseTenant(q)
  BY <1>5, FailTurns DEF RefuseGlobal, RefuseTenant
<1> QED
  BY <1>1, <1>2, <1>3, <1>4, <1>5

\* A task has answered its client and writes nothing when it ends.
LEMMA TaskQuiet ==
  ASSUME TypeOK, ControlInv, NEW q \in Requests, TaskStep(q) \/ AuthorizeError(q)
  PROVE  /\ pc[q] \in TaskPc /\ resp'[q] = resp[q]
         /\ pc'[q] \in TaskPc \cup {"done", "gaveUp"}
         /\ pc'[q] \in OverPc => row'[q] = row[q] /\ trace'[q] = trace[q] /\ cause'[q] = cause[q]
<1> USE DEF Turns
<1>1. CASE BeginExecution(q)
  BY <1>1, StoreTurns DEF BeginExecution
<1>2. CASE \/ AppendAccepted(q) \/ AppendRunStarted(q) \/ AppendLlmCall(q)
           \/ AppendSuccessEnd(q) \/ AppendFailedEnd(q)
  <2>1. PICK from \in TaskPc, to \in TaskPc : \E type, data : AppendEvent(q, from, to, type, data)
    BY <1>2
    DEF AppendAccepted, AppendRunStarted, AppendLlmCall, AppendSuccessEnd, AppendFailedEnd
  <2> QED
    BY <2>1, AppendTurns
<1>3. CASE Load(q) \/ DecideForced(q) \/ DecideTool(q) \/ DecideFinal(q)
  BY <1>3, LoadTurns, DecideTurns DEF DecideForced, DecideTool, DecideFinal
<1>4. CASE NoToolToCall(q) \/ HandlerRefuses(q) \/ Exit(q)
  BY <1>4, ReturnTurns DEF NoToolToCall, HandlerRefuses, Exit
<1>5. CASE ToolNotFound(q) \/ ToolIsDeleted(q) \/ ToolNotBound(q) \/ SchemaRefuses(q)
  <2>1. PICK from \in TaskPc : \E reason : FailWith(q, from, "fail", reason)
    BY <1>5 DEF ToolNotFound, ToolIsDeleted, ToolNotBound, SchemaRefuses
  <2> QED
    BY <2>1, FailTurns
<1>6. CASE ToolIsActive(q) \/ ExecuteTool(q)
  BY <1>6, ProceedTurns DEF ToolIsActive, ExecuteTool
<1>7. CASE AppendToolExec(q)
  BY <1>7, ToolExecTurns
<1>8. CASE FinalizeSuccess(q) \/ FinalizeFailed(q)
  BY <1>8, StoreTurns DEF FinalizeSuccess, FinalizeFailed, FinalizeRun
<1>9. CASE AuthorizeError(q)
  BY <1>9 DEF TypeOK, AuthorizeError, database
<1> QED
  BY <1>1, <1>2, <1>3, <1>4, <1>5, <1>6, <1>7, <1>8, <1>9 DEF TaskStep

\* The 503 or 429 is answered when the rejection is completely recorded.
LEMMA RejectionRecorded ==
  ASSUME TypeOK, ControlInv, ColumnsInv, StoryInv, NEW q \in Requests, AppendRejectedEnd(q)
  PROVE  /\ Rejected(row'[q], trace'[q], cause'[q])
         /\ pc'[q] = "rejectReply" /\ resp'[q] = resp[q] /\ pc[q] = "rejectEnd"
<1>0. /\ ControlAt(pc[q], row[q], trace[q]) /\ Columns(pc[q], row[q], cause[q])
      /\ Story(pc[q], trace[q], loop[q].tool, cause[q])
  BY DEF ControlInv, ColumnsInv, StoryInv
<1>1. /\ pc[q] = "rejectEnd" /\ pc'[q] = "rejectReply" /\ row'[q] = row[q]
      /\ cause'[q] = cause[q] /\ resp'[q] = resp[q]
      /\ trace'[q] = Append(trace[q], Event("run_end", "failed"))
  BY AppendTurns DEF AppendRejectedEnd, Turns
<1>2. row[q].status = "failed" /\ row[q].reason = cause[q] /\ ~row[q].started
  BY <1>0, <1>1 DEF ControlAt, FailedPc, Columns
<1>3. /\ Len(trace[q]) = 2 /\ trace[q][2].data = cause[q]
      /\ trace[q][1].type = "run_created" /\ trace[q][2].type = "scheduler_decision"
  BY <1>0, <1>1 DEF Story, Legal
<1>4. trace[q] \in Seq(EventType) /\ Event("run_end", "failed") \in EventType
  BY DEF TypeOK, EventType, Event
<1>5. /\ Len(trace'[q]) = 3 /\ trace'[q][1] = trace[q][1] /\ trace'[q][2] = trace[q][2]
      /\ trace'[q][3] = Event("run_end", "failed")
  BY <1>1, <1>3, <1>4, AppendAt
<1> QED
  BY <1>1, <1>2, <1>3, <1>5 DEF Rejected, Event

LEMMA ToldOwn ==
  ASSUME TypeOK, ControlInv, ColumnsInv, StoryInv, ControlInv', ColumnsInv',
         NEW q \in Requests, Own(q), Told(pc[q], row[q], trace[q], cause[q], resp[q])
  PROVE  Told(pc'[q], row'[q], trace'[q], cause'[q], resp'[q])
<1> USE DEF Refusals
<1>0. /\ ControlAt(pc[q], row[q], trace[q]) /\ Columns(pc[q], row[q], cause[q])
      /\ ControlAt(pc'[q], row'[q], trace'[q]) /\ Columns(pc'[q], row'[q], cause'[q])
      /\ cause[q] \in Reasons
  BY DEF ControlInv, ColumnsInv, TypeOK
<1>1. CASE RefuseAgent(q) \/ RefuseEmpty(q)
  <2>1. pc[q] = "idle" /\ pc'[q] = "done" /\ row'[q] = row[q] /\ resp'[q] \in Refusals
    BY <1>1, ReturnTurns DEF RefuseAgent, RefuseEmpty, Turns
  <2>2. row[q].status = "absent"
    BY <1>0, <2>1 DEF ControlAt, EarlyPc
  <2> QED
    BY <2>1, <2>2 DEF Told
<1>2. CASE \/ Accept(q) \/ InsertRun(q) \/ CommitRun(q) \/ AppendRunCreated(q)
           \/ AcquireGlobal(q) \/ RefuseGlobal(q) \/ RefuseTenant(q) \/ MarkRejected(q)
           \/ AppendRejected(q)
  BY <1>2, HandlerQuiet DEF Told
<1>3. CASE SelectExisting(q)
  BY <1>3, ReturnTurns DEF SelectExisting, Turns, Told
<1>4. CASE AppendRejectedEnd(q)
  BY <1>4, RejectionRecorded DEF Told
<1>5. CASE RejectReply(q)
  <2>1. /\ pc[q] = "rejectReply" /\ pc'[q] = "done" /\ row'[q] = row[q]
        /\ trace'[q] = trace[q] /\ resp'[q] = cause[q]
    BY <1>5, ReturnTurns DEF RejectReply, Turns
  <2>2. Rejected(row[q], trace[q], cause[q])
    BY <2>1 DEF Told
  <2>3. cause[q] \in Capacity
    BY <1>0, <2>1 DEF Columns
  <2> QED
    BY <2>1, <2>2, <2>3 DEF Told
<1>6. CASE AcquireTenant(q)
  <2>1. pc'[q] = "begin" /\ resp'[q] = "pending"
    BY <1>6, AcquireTurns DEF Turns
  <2> QED
    BY <1>0, <2>1 DEF Told, ControlAt, PendingPc, Columns
<1>7. CASE TaskStep(q) \/ AuthorizeError(q)
  <2>1. resp[q] = "pending" /\ resp'[q] = "pending"
    BY <1>7, TaskQuiet DEF Told
  <2>2. CASE pc'[q] \in TaskPc
    BY <1>0, <2>1, <2>2
    DEF Told, ControlAt, PendingPc, RunningPc, FailedPc, SettledPc, Settled, Terminal, Columns
  <2>3. CASE pc'[q] \in OverPc
    BY <1>7, <2>1, <2>3, TaskQuiet DEF Told
  <2> QED
    BY <1>7, <2>2, <2>3, TaskQuiet
<1>8. CASE DbError(q) \/ Disconnect(q)
  <2>1. /\ pc'[q] \in {"dbError", "dropped"} /\ row'[q] = row[q] /\ cause'[q] = cause[q]
        /\ pc[q] \in ActivePc
        /\ resp'[q] = resp[q] \/ resp'[q] = "internal_error"
    BY <1>8, FinishTurns DEF DbError, Disconnect, Turns
  <2> QED
    BY <2>1 DEF Told
<1> QED
  BY <1>1, <1>2, <1>3, <1>4, <1>5, <1>6, <1>7, <1>8 DEF Own, Receive, HandlerStep

LEMMA ToldNext ==
  ASSUME TypeOK, ControlInv, ColumnsInv, StoryInv, ControlInv', ColumnsInv', ToldInv, [Next]_vars
  PROVE  ToldInv'
<1> SUFFICES ASSUME NEW q \in Requests
             PROVE  Told(pc'[q], row'[q], trace'[q], cause'[q], resp'[q])
  BY DEF ToldInv
<1>1. Told(pc[q], row[q], trace[q], cause[q], resp[q])
  BY DEF ToldInv
<1>2. CASE Same(q)
  BY <1>1, <1>2 DEF Same
<1>3. CASE Killed(q)
  BY <1>1, <1>3 DEF Killed, Turns, Told, Refusals
<1>4. CASE Own(q)
  BY <1>1, <1>4, ToldOwn
<1> QED
  BY <1>2, <1>3, <1>4, NextLocal

LEMMA ToldInit == Init => ToldInv
BY DEF Init, ToldInv, Told, Refusals

-------------------------------------------------------------------------------
(* The events of one type, and the steps by what they do to them. *)

\* The step of q writes no event of this type.
Leaves(q, type) ==
  /\ Of(trace'[q], type) = Of(trace[q], type)
  /\ \A i \in Of(trace[q], type) : trace'[q][i] = trace[q][i]

LEMMA OfOther ==
  ASSUME NEW s \in Seq(EventType), NEW e \in EventType, NEW type, e.type # type
  PROVE  /\ Of(Append(s, e), type) = Of(s, type)
         /\ \A i \in Of(s, type) : Append(s, e)[i] = s[i]
<1>1. /\ Len(s) \in Nat /\ DOMAIN s = 1..Len(s) /\ DOMAIN Append(s, e) = 1..(Len(s) + 1)
      /\ \A i \in 1..Len(s) : Append(s, e)[i] = s[i]
      /\ Append(s, e)[Len(s) + 1] = e
  BY AppendAt
<1>2. 1..(Len(s) + 1) = 1..Len(s) \cup {Len(s) + 1} /\ Len(s) + 1 \notin 1..Len(s)
  BY <1>1
<1> QED
  BY <1>1, <1>2 DEF Of

LEMMA OfSame ==
  ASSUME NEW s \in Seq(EventType), NEW e \in EventType
  PROVE  /\ Of(Append(s, e), e.type) = Of(s, e.type) \cup {Len(s) + 1}
         /\ \A i \in Of(s, e.type) : Append(s, e)[i] = s[i]
         /\ Append(s, e)[Len(s) + 1] = e
         /\ Len(s) + 1 \notin Of(s, e.type)
<1>1. /\ Len(s) \in Nat /\ DOMAIN s = 1..Len(s) /\ DOMAIN Append(s, e) = 1..(Len(s) + 1)
      /\ \A i \in 1..Len(s) : Append(s, e)[i] = s[i]
      /\ Append(s, e)[Len(s) + 1] = e
  BY AppendAt
<1>2. 1..(Len(s) + 1) = 1..Len(s) \cup {Len(s) + 1} /\ Len(s) + 1 \notin 1..Len(s)
  BY <1>1
<1> QED
  BY <1>1, <1>2 DEF Of

LEMMA TraceLeaves ==
  ASSUME NEW q \in Requests, trace'[q] = trace[q], NEW type
  PROVE  Leaves(q, type)
BY DEF Leaves

LEMMA AppendLeaves ==
  ASSUME TypeOK, NEW q \in Requests, NEW kind, NEW data, NEW type, kind # type,
         Event(kind, data) \in EventType, trace'[q] = Append(trace[q], Event(kind, data))
  PROVE  Leaves(q, type)
<1>1. trace[q] \in Seq(EventType) /\ Event(kind, data).type # type
  BY DEF TypeOK, Event
<1>2. /\ Of(Append(trace[q], Event(kind, data)), type) = Of(trace[q], type)
      /\ \A i \in Of(trace[q], type) : Append(trace[q], Event(kind, data))[i] = trace[q][i]
  BY <1>1, OfOther
<1> QED
  BY <1>2 DEF Leaves

LeavesBoth(q) == Leaves(q, "llm_call") /\ Leaves(q, "tool_exec")

\* Before the first decision.
FreshStep(q) ==
  /\ pc[q] \in FreshPc \ {"idle"} /\ pc'[q] \in FreshPc \ {"idle"}
  /\ loop'[q] = loop[q] /\ LeavesBoth(q)
  /\ row'[q].status \in {"pending", "running", "failed"} \/ row'[q] = row[q]
  /\ cause'[q] \in Capacity \/ cause'[q] = cause[q]

\* The handler or the task is over.
EndStep(q) ==
  /\ pc[q] \in {"idle"} \cup ActivePc /\ pc'[q] \in OverPc
  /\ row'[q] = row[q] /\ trace'[q] = trace[q] /\ cause'[q] = cause[q]

\* A call is refused.
FailStep(q) ==
  /\ pc[q] \in {"authorize", "bindings"} /\ pc'[q] = "fail"
  /\ row'[q] = row[q] /\ trace'[q] = trace[q]
  /\ cause'[q] \in Reasons \ {"max_iterations_exceeded"}

\* The run is finalized and its run_end written.
CloseStep(q) ==
  /\ \/ /\ pc[q] = "succeed" /\ pc'[q] = "endSuccess"
     \/ /\ pc[q] = "fail" /\ pc'[q] = "endFailed" /\ row'[q].status = "failed"
     \/ /\ pc[q] \in {"endSuccess", "endFailed"} /\ pc'[q] = "exit" /\ row'[q] = row[q]
  /\ LeavesBoth(q) /\ cause'[q] = cause[q]

LEMMA FreshHandler ==
  ASSUME TypeOK, NEW q \in Requests,
         \/ InsertRun(q) \/ CommitRun(q) \/ AppendRunCreated(q) \/ AcquireGlobal(q)
         \/ AcquireTenant(q) \/ RefuseGlobal(q) \/ RefuseTenant(q) \/ MarkRejected(q)
         \/ AppendRejected(q) \/ AppendRejectedEnd(q)
  PROVE  FreshStep(q)
<1> USE DEF FreshStep, LeavesBoth, FreshPc, Turns
<1>0. row[q] \in RowType /\ cause[q] \in Reasons
  BY DEF TypeOK
<1>1. CASE InsertRun(q)
  BY <1>1, ProceedTurns, TraceLeaves DEF InsertRun
<1>2. CASE CommitRun(q)
  BY <1>2, StoreTurns, TraceLeaves DEF CommitRun, NewRow, NoRow
<1>3. CASE MarkRejected(q)
  <2>1. MarkRunFailed(row[q], cause[q]).status = "failed"
    BY <1>0 DEF MarkRunFailed, RowType
  <2> QED
    BY <1>3, <2>1, StoreTurns, TraceLeaves DEF MarkRejected
<1>4. CASE AcquireGlobal(q) \/ AcquireTenant(q)
  BY <1>4, AcquireTurns, TraceLeaves
<1>5. CASE RefuseGlobal(q) \/ RefuseTenant(q)
  BY <1>5, FailTurns, TraceLeaves DEF RefuseGlobal, RefuseTenant
<1>6. CASE AppendRunCreated(q) \/ AppendRejected(q) \/ AppendRejectedEnd(q)
  <2>1. PICK from \in FreshPc \ {"idle"}, to \in FreshPc \ {"idle"},
             type \in {"run_created", "scheduler_decision", "run_end"},
             data \in {"pending", "failed"} \cup Reasons :
          AppendEvent(q, from, to, type, data)
    BY <1>0, <1>6 DEF AppendRunCreated, AppendRejected, AppendRejectedEnd
  <2>2. Event(type, data) \in EventType
    BY DEF Event, EventType
  <2>3. /\ pc[q] = from /\ pc'[q] = to /\ row'[q] = row[q] /\ loop'[q] = loop[q]
        /\ cause'[q] = cause[q] /\ trace'[q] = Append(trace[q], Event(type, data))
    BY <2>1, AppendTurns
  <2>4. LeavesBoth(q)
    BY <2>2, <2>3, AppendLeaves
  <2> QED
    BY <2>3, <2>4
<1> QED
  BY <1>1, <1>2, <1>3, <1>4, <1>5, <1>6

LEMMA FreshTask ==
  ASSUME TypeOK, ControlInv, NEW q \in Requests,
         BeginExecution(q) \/ AppendAccepted(q) \/ AppendRunStarted(q)
  PROVE  FreshStep(q)
<1> USE DEF FreshStep, LeavesBoth, FreshPc, Turns
<1>0. row[q] \in RowType
  BY DEF TypeOK
<1>1. CASE BeginExecution(q)
  <2>1. pc[q] = "begin" /\ row[q].status = "pending"
    BY <1>1 DEF ControlInv, BeginExecution, Store, Goto, ControlAt, PendingPc
  <2>2. BeginRunExecution(row[q]).status = "running"
    BY <1>0, <2>1 DEF BeginRunExecution, RowType
  <2> QED
    BY <1>1, <2>1, <2>2, StoreTurns, TraceLeaves DEF BeginExecution
<1>2. CASE AppendAccepted(q) \/ AppendRunStarted(q)
  <2>1. PICK from \in {"accepted", "started"}, to \in {"started", "load"},
             type \in {"scheduler_decision", "run_started"},
             data \in {"accepted", "running"} :
          AppendEvent(q, from, to, type, data)
    BY <1>2 DEF AppendAccepted, AppendRunStarted
  <2>2. Event(type, data) \in EventType
    BY DEF Event, EventType
  <2>3. /\ pc[q] = from /\ pc'[q] = to /\ row'[q] = row[q] /\ loop'[q] = loop[q]
        /\ cause'[q] = cause[q] /\ trace'[q] = Append(trace[q], Event(type, data))
    BY <2>1, AppendTurns
  <2>4. LeavesBoth(q)
    BY <2>2, <2>3, AppendLeaves
  <2> QED
    BY <2>3, <2>4
<1> QED
  BY <1>1, <1>2

LEMMA EndSteps ==
  ASSUME TypeOK, NEW q \in Requests,
         \/ RefuseAgent(q) \/ RefuseEmpty(q) \/ SelectExisting(q) \/ RejectReply(q)
         \/ NoToolToCall(q) \/ HandlerRefuses(q) \/ Exit(q) \/ DbError(q) \/ Disconnect(q)
  PROVE  EndStep(q)
<1> USE DEF EndStep, Turns
<1>1. CASE RefuseAgent(q) \/ RefuseEmpty(q) \/ SelectExisting(q) \/ RejectReply(q)
  BY <1>1, ReturnTurns DEF RefuseAgent, RefuseEmpty, SelectExisting, RejectReply
<1>2. CASE NoToolToCall(q) \/ HandlerRefuses(q) \/ Exit(q)
  BY <1>2, ReturnTurns DEF NoToolToCall, HandlerRefuses, Exit
<1>3. CASE DbError(q) \/ Disconnect(q)
  BY <1>3, FinishTurns DEF DbError, Disconnect
<1> QED
  BY <1>1, <1>2, <1>3

LEMMA FailSteps ==
  ASSUME TypeOK, NEW q \in Requests,
         \/ ToolNotFound(q) \/ ToolIsDeleted(q) \/ ToolNotBound(q) \/ SchemaRefuses(q)
         \/ AuthorizeError(q)
  PROVE  FailStep(q)
<1>1. CASE AuthorizeError(q)
  BY <1>1 DEF TypeOK, AuthorizeError, database, FailStep, Reasons
<1>2. CASE ToolNotFound(q) \/ ToolIsDeleted(q) \/ ToolNotBound(q) \/ SchemaRefuses(q)
  <2>1. PICK from \in {"authorize", "bindings"}, reason \in Reasons \ {"max_iterations_exceeded"} :
          FailWith(q, from, "fail", reason)
    BY <1>2 DEF ToolNotFound, ToolIsDeleted, ToolNotBound, SchemaRefuses, Reasons
  <2> QED
    BY <2>1, FailTurns DEF FailStep, Turns
<1> QED
  BY <1>1, <1>2

LEMMA CloseSteps ==
  ASSUME TypeOK, NEW q \in Requests,
         FinalizeSuccess(q) \/ FinalizeFailed(q) \/ AppendSuccessEnd(q) \/ AppendFailedEnd(q)
  PROVE  CloseStep(q)
<1> USE DEF CloseStep, LeavesBoth, Turns
<1>0. row[q] \in RowType
  BY DEF TypeOK
<1>1. CASE FinalizeSuccess(q)
  BY <1>1, StoreTurns, TraceLeaves DEF FinalizeSuccess, FinalizeRun
<1>2. CASE FinalizeFailed(q)
  <2>1. FinalizeRun(row[q], "failed", FALSE, cause[q]).status = "failed"
    BY <1>0 DEF FinalizeRun, RowType
  <2>2. /\ pc[q] = "fail"
        /\ Turns(q, "endFailed", FinalizeRun(row[q], "failed", FALSE, cause[q]), trace[q],
                 loop[q], cause[q], resp[q])
    BY <1>2, StoreTurns DEF FinalizeFailed
  <2>3. trace'[q] = trace[q] /\ row'[q].status = "failed"
    BY <2>1, <2>2
  <2> QED
    BY <2>2, <2>3, TraceLeaves
<1>3. CASE AppendSuccessEnd(q) \/ AppendFailedEnd(q)
  <2>1. PICK from \in {"endSuccess", "endFailed"}, data \in Terminal :
          AppendEvent(q, from, "exit", "run_end", data)
    BY <1>3 DEF AppendSuccessEnd, AppendFailedEnd, Terminal
  <2>2. Event("run_end", data) \in EventType
    BY DEF Event, EventType, Terminal
  <2>3. /\ pc[q] = from /\ pc'[q] = "exit" /\ row'[q] = row[q] /\ cause'[q] = cause[q]
        /\ trace'[q] = Append(trace[q], Event("run_end", data))
    BY <2>1, AppendTurns
  <2>4. LeavesBoth(q)
    BY <2>2, <2>3, AppendLeaves
  <2> QED
    BY <2>3, <2>4
<1> QED
  BY <1>1, <1>2, <1>3

\* What one request may do, by what it does to the two kinds of events.
LEMMA OwnSteps ==
  ASSUME TypeOK, ControlInv, NEW q \in Requests, Own(q)
  PROVE  \/ FreshStep(q) \/ EndStep(q) \/ FailStep(q) \/ CloseStep(q)
         \/ Accept(q) \/ Load(q) \/ DecideForced(q) \/ DecideTool(q) \/ DecideFinal(q)
         \/ AppendLlmCall(q) \/ ToolIsActive(q) \/ ExecuteTool(q) \/ AppendToolExec(q)
<1>1. CASE Receive(q)
  BY <1>1, EndSteps DEF Receive
<1>2. CASE HandlerStep(q)
  BY <1>2, FreshHandler, EndSteps DEF HandlerStep
<1>3. CASE TaskStep(q)
  BY <1>3, FreshTask, EndSteps, FailSteps, CloseSteps DEF TaskStep
<1>4. CASE DbError(q) \/ Disconnect(q) \/ AuthorizeError(q)
  BY <1>4, EndSteps, FailSteps
<1> QED
  BY <1>1, <1>2, <1>3, <1>4 DEF Own

-------------------------------------------------------------------------------
(* Which tools a run executes. *)

\* Tool t is bound to the agent of request i and accepts the mock's call.
Allowed(i, t, first) ==
  /\ t \in Bindings[i.agent]
  /\ ToolKind[t] = "ok" \/ (ToolKind[t] = "once" /\ first)

\* Event e is the first execution of the trace s.
Earliest(s, e) == \A j \in Of(s, "tool_exec") : e <= j

\* The locals of execute_run are those of a run that has executed nothing.
Untried(p, l) == p \in FreshPc \cup AskPc \cup CallPc /\ l.results = 0

\* A forced run: its first decision is the invalid call, and its last one.
Barred(i, p, r, s, l) ==
  /\ p = "decide" => ~l.consumed /\ l.results = 0
  /\ p \in {"llm", "authorize", "bindings"} => l.tool \notin Bindings[i.agent] \cup {FinalAnswer}
  /\ p \notin {"exec", "succeed", "endSuccess"}
  /\ Of(s, "tool_exec") = {} /\ r.status # "success"

Choice(i, p, r, s, l) ==
  /\ p \in FreshPc => l = NoLoop
  /\ p \in ActivePc \/ Of(s, "tool_exec") # {} => AgentTenant[i.agent] = i.tenant
  /\ p = "exec" => Allowed(i, l.tool, l.results = 0)
  /\ \A e \in Of(s, "tool_exec") : Allowed(i, s[e].data, Earliest(s, e))
  /\ Untried(p, l) => Of(s, "tool_exec") = {}
  /\ i.force => Barred(i, p, r, s, l)

ChoiceInv == \A q \in Requests : Choice(input[q], pc[q], row[q], trace[q], loop[q])

Chosen(q) == Choice(input[q], pc[q], row[q], trace[q], loop[q])

\* A step that writes no tool_exec.
LEMMA ChoiceTurn ==
  ASSUME NEW q \in Requests, Chosen(q), input'[q] = input[q], Leaves(q, "tool_exec"),
         pc'[q] \in FreshPc => loop'[q] = NoLoop,
         pc'[q] \in ActivePc => pc[q] \in ActivePc \/ OwnAgent(q),
         pc'[q] = "exec" => Allowed(input[q], loop'[q].tool, loop'[q].results = 0),
         Untried(pc'[q], loop'[q]) => Untried(pc[q], loop[q]),
         input[q].force =>
           /\ pc'[q] = "decide" => ~loop'[q].consumed /\ loop'[q].results = 0
           /\ pc'[q] \in {"llm", "authorize", "bindings"} =>
                loop'[q].tool \notin Bindings[input[q].agent] \cup {FinalAnswer}
           /\ pc'[q] \notin {"exec", "succeed", "endSuccess"}
           /\ row'[q].status # "success"
  PROVE  Chosen(q)'
<1>1. Of(trace'[q], "tool_exec") = Of(trace[q], "tool_exec")
  BY DEF Leaves
<1>2. \A e \in Of(trace'[q], "tool_exec") :
        Allowed(input[q], trace'[q][e].data, Earliest(trace'[q], e))
  BY <1>1 DEF Leaves, Chosen, Choice, Earliest
<1>6. Untried(pc'[q], loop'[q]) => Of(trace'[q], "tool_exec") = {}
  BY <1>1 DEF Chosen, Choice
<1>3. pc'[q] \in ActivePc \/ Of(trace'[q], "tool_exec") # {} =>
        AgentTenant[input[q].agent] = input[q].tenant
  BY <1>1 DEF Chosen, Choice, OwnAgent, TenantOf
<1>4. input[q].force => Barred(input[q], pc'[q], row'[q], trace'[q], loop'[q])
  BY <1>1 DEF Chosen, Choice, Barred
<1>5. Choice(input[q], pc'[q], row'[q], trace'[q], loop'[q])
  BY <1>2, <1>3, <1>4, <1>6 DEF Choice
<1> QED
  BY <1>5 DEF Chosen

LEMMA ChoiceDecide ==
  ASSUME TypeOK, NEW q \in Requests, Chosen(q), input'[q] = input[q],
         DecideForced(q) \/ DecideTool(q) \/ DecideFinal(q)
  PROVE  Chosen(q)'
<1>0. input[q] \in InputType /\ input[q].agent \in Agents /\ loop[q] \in LoopType
  BY InputAssumption DEF TypeOK, InputType
<1>1. PICK t \in Tools \cup {NilTool, FinalAnswer} :
        /\ Decide(q, t)
        /\ input[q].force => t \notin BoundTools(q) \cup {FinalAnswer}
  <2>1. CASE DecideForced(q)
    BY <1>0, <2>1, CatalogueAssumption, NamesAssumption DEF DecideForced, UnboundActive, BoundTools
  <2>2. CASE DecideTool(q) \/ DecideFinal(q)
    <3>1. ~input[q].force
      <4>1. pc[q] = "decide" /\ ~Forced(q)
        BY <2>2 DEF DecideTool, DecideFinal, Decide, Goto
      <4> QED
        BY <4>1 DEF Forced, Chosen, Choice, Barred
    <3> QED
      BY <1>0, <2>2, <3>1 DEF DecideTool, DecideFinal, LoopType
  <2> QED
    BY <2>1, <2>2
<1>2. /\ pc[q] = "decide" /\ pc'[q] = "llm" /\ row'[q] = row[q] /\ trace'[q] = trace[q]
      /\ loop'[q].tool = t /\ loop'[q].results = loop[q].results
  <2>1. /\ Decided(loop[q], t, input[q].force).tool = t
        /\ Decided(loop[q], t, input[q].force).results = loop[q].results
    BY <1>0 DEF Decided, LoopType
  <2> QED
    BY <1>1, <2>1, DecideTurns DEF Turns
<1>3. input[q].force => row'[q].status # "success"
  BY <1>2 DEF Chosen, Choice, Barred
<1>4. input[q].force => loop'[q].tool \notin Bindings[input[q].agent] \cup {FinalAnswer}
  BY <1>1, <1>2 DEF BoundTools
<1>5. Leaves(q, "tool_exec")
  BY <1>2, TraceLeaves
<1>6. Untried(pc'[q], loop'[q]) => Untried(pc[q], loop[q])
  BY <1>2 DEF Untried, AskPc
<1> QED
  BY <1>2, <1>3, <1>4, <1>5, <1>6, ChoiceTurn DEF FreshPc

LEMMA ChoiceEarly ==
  ASSUME TypeOK, NEW q \in Requests, Chosen(q), input'[q] = input[q],
         FreshStep(q) \/ Accept(q) \/ Load(q)
  PROVE  Chosen(q)'
<1>1. CASE FreshStep(q)
  <2>1. input[q].force => row'[q].status # "success"
    BY <1>1 DEF FreshStep, Chosen, Choice, Barred
  <2> QED
    BY <1>1, <2>1, ChoiceTurn DEF FreshStep, LeavesBoth, FreshPc, Chosen, Choice, Untried
<1>2. CASE Accept(q)
  <2>1. /\ pc[q] = "idle" /\ pc'[q] = "insert" /\ row'[q] = row[q] /\ loop'[q] = loop[q]
        /\ Leaves(q, "tool_exec") /\ OwnAgent(q)
    BY <1>2, ProceedTurns, TraceLeaves DEF Accept, Turns
  <2>2. loop[q] = NoLoop /\ (input[q].force => row[q].status # "success")
    BY <2>1 DEF Chosen, Choice, Barred, FreshPc
  <2>3. Untried(pc'[q], loop'[q]) => Untried(pc[q], loop[q])
    BY <2>1 DEF Untried, FreshPc
  <2> QED
    BY <2>1, <2>2, <2>3, ChoiceTurn
<1>3. CASE Load(q)
  <2>1. PICK t \in Tools \cup {NilTool} :
          /\ pc[q] = "load" /\ pc'[q] = "decide" /\ row'[q] = row[q]
          /\ loop'[q] = [loop[q] EXCEPT !.first = t] /\ trace'[q] = trace[q]
    BY <1>3, LoadTurns DEF Turns
  <2>2. loop[q] = NoLoop /\ (input[q].force => row[q].status # "success")
    BY <2>1 DEF Chosen, Choice, Barred, FreshPc
  <2>3. ~loop'[q].consumed /\ loop'[q].results = 0
    BY <2>1, <2>2 DEF NoLoop
  <2>4. Leaves(q, "tool_exec")
    BY <2>1, TraceLeaves
  <2>5. Untried(pc'[q], loop'[q]) => Untried(pc[q], loop[q])
    BY <2>1, <2>2 DEF Untried, FreshPc, NoLoop
  <2> QED
    BY <2>1, <2>2, <2>3, <2>4, <2>5, ChoiceTurn DEF FreshPc
<1> QED
  BY <1>1, <1>2, <1>3

LEMMA ChoiceLate ==
  ASSUME TypeOK, NEW q \in Requests, Chosen(q), input'[q] = input[q],
         \/ EndStep(q) \/ FailStep(q) \/ CloseStep(q)
         \/ AppendLlmCall(q) \/ ToolIsActive(q) \/ ExecuteTool(q)
  PROVE  Chosen(q)'
<1>0. input[q].force =>
        row[q].status # "success" /\ pc[q] \notin {"exec", "succeed", "endSuccess"}
  BY DEF Chosen, Choice, Barred
<1>1. CASE EndStep(q)
  <2>1. ~Untried(pc'[q], loop'[q])
    BY <1>1 DEF EndStep, Untried, FreshPc, AskPc, CallPc, HandlerPc, OverPc
  <2> QED
    BY <1>0, <1>1, <2>1, TraceLeaves, ChoiceTurn DEF EndStep, FreshPc
<1>2. CASE FailStep(q)
  <2>1. ~Untried(pc'[q], loop'[q])
    BY <1>2 DEF FailStep, Untried, FreshPc, AskPc, CallPc, HandlerPc
  <2> QED
    BY <1>0, <1>2, <2>1, TraceLeaves, ChoiceTurn DEF FailStep, FreshPc
<1>3. CASE CloseStep(q)
  <2>1. input[q].force => row'[q].status # "success" /\ pc'[q] # "endSuccess"
    BY <1>0, <1>3 DEF CloseStep
  <2>2. ~Untried(pc'[q], loop'[q])
    BY <1>3 DEF CloseStep, Untried, FreshPc, AskPc, CallPc, HandlerPc
  <2> QED
    BY <1>3, <2>1, <2>2, ChoiceTurn DEF CloseStep, LeavesBoth, FreshPc
<1>4. CASE AppendLlmCall(q)
  <2>1. /\ pc[q] = "llm" /\ row'[q] = row[q] /\ loop'[q] = loop[q]
        /\ pc'[q] = IF loop[q].tool = FinalAnswer THEN "succeed" ELSE "authorize"
        /\ trace'[q] = Append(trace[q], Event("llm_call", loop[q].tool))
    BY <1>4, AppendTurns DEF AppendLlmCall, Turns
  <2>2. Event("llm_call", loop[q].tool) \in EventType
    BY DEF TypeOK, LoopType, Event, EventType
  <2>3. Leaves(q, "tool_exec")
    BY <2>1, <2>2, AppendLeaves
  <2>4. input[q].force => loop[q].tool \notin Bindings[input[q].agent] \cup {FinalAnswer}
    BY <2>1 DEF Chosen, Choice, Barred
  <2>5. Untried(pc'[q], loop'[q]) => Untried(pc[q], loop[q])
    BY <2>1 DEF Untried, AskPc
  <2> QED
    BY <1>0, <2>1, <2>3, <2>4, <2>5, ChoiceTurn DEF FreshPc
<1>5. CASE ToolIsActive(q)
  <2>1. /\ pc[q] = "authorize" /\ pc'[q] = "bindings" /\ row'[q] = row[q]
        /\ loop'[q] = loop[q] /\ Leaves(q, "tool_exec")
    BY <1>5, ProceedTurns, TraceLeaves DEF ToolIsActive, Turns
  <2>2. input[q].force => loop[q].tool \notin Bindings[input[q].agent] \cup {FinalAnswer}
    BY <2>1 DEF Chosen, Choice, Barred
  <2>3. Untried(pc'[q], loop'[q]) => Untried(pc[q], loop[q])
    BY <2>1 DEF Untried, CallPc
  <2> QED
    BY <1>0, <2>1, <2>2, <2>3, ChoiceTurn DEF FreshPc
<1>6. CASE ExecuteTool(q)
  <2>1. /\ pc[q] = "bindings" /\ pc'[q] = "exec" /\ row'[q] = row[q]
        /\ loop'[q] = loop[q] /\ Leaves(q, "tool_exec")
        /\ Allowed(input[q], loop[q].tool, loop[q].results = 0)
    BY <1>6, ProceedTurns, TraceLeaves
    DEF ExecuteTool, Accepting, BoundOfKind, BoundTools, Allowed, Turns
  <2>2. ~input[q].force
    BY <2>1 DEF Chosen, Choice, Barred, Allowed
  <2>3. Untried(pc'[q], loop'[q]) => Untried(pc[q], loop[q])
    BY <2>1 DEF Untried, CallPc
  <2> QED
    BY <2>1, <2>2, <2>3, ChoiceTurn DEF FreshPc
<1> QED
  BY <1>1, <1>2, <1>3, <1>4, <1>5, <1>6

LEMMA ChoiceExec ==
  ASSUME TypeOK, NEW q \in Requests, Chosen(q), input'[q] = input[q], AppendToolExec(q)
  PROVE  Chosen(q)'
<1> DEFINE e == Event("tool_exec", loop[q].tool)
<1>1. /\ pc[q] = "exec" /\ pc'[q] \in {"fail", "decide"} /\ trace'[q] = Append(trace[q], e)
      /\ loop'[q] = Counted(loop[q])
  BY ToolExecTurns DEF Turns
<1>2. trace[q] \in Seq(EventType) /\ e \in EventType /\ e.type = "tool_exec"
  BY DEF TypeOK, LoopType, Event, EventType
<1>5. e.data = loop[q].tool
  BY DEF Event
<1> HIDE DEF e
<1>3. /\ Of(Append(trace[q], e), "tool_exec") = Of(trace[q], "tool_exec") \cup {Len(trace[q]) + 1}
      /\ \A i \in Of(trace[q], "tool_exec") : Append(trace[q], e)[i] = trace[q][i]
      /\ Append(trace[q], e)[Len(trace[q]) + 1] = e
  <2>1. /\ Of(Append(trace[q], e), e.type) = Of(trace[q], e.type) \cup {Len(trace[q]) + 1}
        /\ \A i \in Of(trace[q], e.type) : Append(trace[q], e)[i] = trace[q][i]
        /\ Append(trace[q], e)[Len(trace[q]) + 1] = e
    BY <1>2, OfSame
  <2> QED
    BY <1>2, <2>1
<1>4. /\ Allowed(input[q], loop[q].tool, loop[q].results = 0) /\ ~input[q].force
      /\ AgentTenant[input[q].agent] = input[q].tenant
      /\ \A i \in Of(trace[q], "tool_exec") :
           Allowed(input[q], trace[q][i].data, Earliest(trace[q], i))
      /\ loop[q].results = 0 => Of(trace[q], "tool_exec") = {}
  BY <1>1 DEF Chosen, Choice, Barred, Untried, CallPc
<1>8. \A i \in Of(trace[q], "tool_exec") : i \in Nat /\ i <= Len(trace[q])
  BY <1>2 DEF Of
<1>9. \A i \in Of(trace[q], "tool_exec") : Earliest(trace[q], i) => Earliest(trace'[q], i)
  BY <1>1, <1>2, <1>3, <1>8 DEF Earliest
<1>10. loop[q].results = 0 => Earliest(trace'[q], Len(trace[q]) + 1)
  BY <1>1, <1>2, <1>3, <1>4 DEF Earliest
<1>6. \A i \in Of(trace'[q], "tool_exec") :
        Allowed(input[q], trace'[q][i].data, Earliest(trace'[q], i))
  <2>1. \A i \in Of(trace[q], "tool_exec") :
          Allowed(input[q], trace[q][i].data, Earliest(trace'[q], i))
    BY <1>4, <1>9 DEF Allowed
  <2>2. Allowed(input[q], e.data, Earliest(trace'[q], Len(trace[q]) + 1))
    BY <1>4, <1>5, <1>10 DEF Allowed
  <2> QED
    BY <1>1, <1>3, <2>1, <2>2
<1>11. ~Untried(pc'[q], loop'[q])
  BY <1>1 DEF TypeOK, LoopType, Counted, Untried
<1>7. Choice(input[q], pc'[q], row'[q], trace'[q], loop'[q])
  BY <1>1, <1>4, <1>6, <1>11 DEF Choice, FreshPc
<1> QED
  BY <1>7 DEF Chosen

LEMMA ChoiceNext == TypeOK /\ ControlInv /\ ChoiceInv /\ [Next]_vars => ChoiceInv'
<1> SUFFICES ASSUME TypeOK, ControlInv, ChoiceInv, [Next]_vars, NEW q \in Requests
             PROVE  Chosen(q)'
  BY DEF ChoiceInv, Chosen
<1>1. Chosen(q) /\ input'[q] = input[q]
  BY InputConstant DEF ChoiceInv, Chosen
<1>2. CASE Same(q)
  BY <1>1, <1>2 DEF Same, Chosen
<1>3. CASE Killed(q)
  <2>1. EndStep(q)
    BY <1>3 DEF Killed, EndStep, Turns
  <2> QED
    BY <1>1, <2>1, ChoiceLate
<1>4. CASE Own(q)
  BY <1>1, <1>4, OwnSteps, ChoiceEarly, ChoiceDecide, ChoiceLate, ChoiceExec
<1> QED
  BY <1>2, <1>3, <1>4, NextLocal

LEMMA ChoiceInit == Init => ChoiceInv
BY DEF Init, ChoiceInv, Choice, Barred, NoRow, NoLoop, Of, Untried

-------------------------------------------------------------------------------
(* How often a run asks the mock LLM and executes a tool. *)

Calls(q) == Cardinality(Of(trace[q], "llm_call"))
Execs(q) == Cardinality(Of(trace[q], "tool_exec"))

\* n llm_calls and m tool_execs of a run of request i, at p with locals l.
Count(i, p, r, n, m, l, c) ==
  /\ n <= MaxIterations[i.agent] /\ m <= 2
  /\ p \in FreshPc => n = 0 /\ m = 0
  /\ p \in AskPc => n = l.results /\ m = l.results
  /\ p \in CallPc => n = l.results + 1 /\ m = l.results /\ l.results < 2
  /\ p \in AskPc \cup CallPc =>
       l.iteration = l.results + 1 /\ l.iteration <= MaxIterations[i.agent]
  /\ p = "llm" => (l.tool = FinalAnswer <=> l.results = 2)
  /\ p \in {"succeed", "endSuccess"} \/ r.status = "success" => n = 3 /\ m = 2
  /\ c = "max_iterations_exceeded" =>
       m = MaxIterations[i.agent] /\ p \in {"fail", "endFailed", "exit"} \cup OverPc

Limited(q) == Count(input[q], pc[q], row[q], Calls(q), Execs(q), loop[q], cause[q])

CountInv == \A q \in Requests : Limited(q)

LEMMA OfFinite ==
  ASSUME NEW s \in Seq(EventType), NEW type
  PROVE  IsFiniteSet(Of(s, type)) /\ Cardinality(Of(s, type)) \in Nat
<1>1. Len(s) \in Nat /\ Of(s, type) \subseteq 1..Len(s)
  BY DEF Of
<1>2. IsFiniteSet(1..Len(s))
  BY <1>1, FS_Interval
<1>3. IsFiniteSet(Of(s, type))
  BY <1>1, <1>2, FS_Subset
<1> QED
  BY <1>3, FS_CardinalityType

LEMMA OfOneMore ==
  ASSUME NEW s \in Seq(EventType), NEW e \in EventType
  PROVE  Cardinality(Of(Append(s, e), e.type)) = Cardinality(Of(s, e.type)) + 1
<1> DEFINE S == Of(s, e.type)
<1>1. Of(Append(s, e), e.type) = S \cup {Len(s) + 1} /\ Len(s) + 1 \notin S
  BY OfSame
<1>2. IsFiniteSet(S)
  BY OfFinite
<1> HIDE DEF S
<1>3. Cardinality(S \cup {Len(s) + 1}) = Cardinality(S) + 1
  BY <1>1, <1>2, FS_AddElement
<1>4. Cardinality(Of(Append(s, e), e.type)) = Cardinality(S) + 1
  BY <1>1, <1>3
<1> QED
  BY <1>4 DEF S

LEMMA LimitedTypes ==
  ASSUME TypeOK, NEW q \in Requests
  PROVE  /\ Calls(q) \in Nat /\ Execs(q) \in Nat
         /\ loop[q].results \in Nat /\ loop[q].iteration \in Nat
         /\ MaxIterations[input[q].agent] \in 1..50
         /\ loop[q] \in LoopType
<1>1. trace[q] \in Seq(EventType) /\ loop[q] \in LoopType
  BY DEF TypeOK
<1>2. input[q].agent \in Agents
  BY InputAssumption DEF TypeOK, InputType
<1> QED
  BY <1>1, <1>2, OfFinite, IterationsAssumption DEF Calls, Execs, LoopType

\* Steps that write neither event.
LEMMA CountKeeps ==
  ASSUME NEW q \in Requests, LeavesBoth(q)
  PROVE  Calls(q)' = Calls(q) /\ Execs(q)' = Execs(q)
BY DEF LeavesBoth, Leaves, Calls, Execs

LEMMA CountQuiet ==
  ASSUME TypeOK, NEW q \in Requests, Limited(q), input'[q] = input[q],
         FreshStep(q) \/ EndStep(q) \/ FailStep(q) \/ CloseStep(q)
  PROVE  Limited(q)'
<1>1. LeavesBoth(q)
  BY TraceLeaves DEF FreshStep, EndStep, FailStep, CloseStep, LeavesBoth
<1>2. Calls(q)' = Calls(q) /\ Execs(q)' = Execs(q)
  BY <1>1, CountKeeps
<1>3. Count(input[q], pc'[q], row'[q], Calls(q), Execs(q), loop'[q], cause'[q])
  <2>1. CASE FreshStep(q)
    BY <2>1 DEF FreshStep, Limited, Count, FreshPc, AskPc, CallPc
  <2>2. CASE EndStep(q)
    BY <2>2 DEF EndStep, Limited, Count, FreshPc, AskPc, CallPc
  <2>3. CASE FailStep(q)
    BY <2>3 DEF FailStep, Limited, Count, FreshPc, AskPc, CallPc
  <2>4. CASE CloseStep(q)
    BY <2>4 DEF CloseStep, Limited, Count, FreshPc, AskPc, CallPc
  <2> QED
    BY <2>1, <2>2, <2>3, <2>4
<1> QED
  BY <1>2, <1>3 DEF Limited

LEMMA CountAsks ==
  ASSUME TypeOK, NEW q \in Requests, Limited(q), Chosen(q), input'[q] = input[q],
         \/ Accept(q) \/ Load(q) \/ DecideForced(q) \/ DecideTool(q) \/ DecideFinal(q)
         \/ ToolIsActive(q) \/ ExecuteTool(q)
  PROVE  Limited(q)'
<1> USE LimitedTypes
<1>1. trace'[q] = trace[q] /\ row'[q] = row[q] /\ cause'[q] = cause[q]
  BY ProceedTurns, LoadTurns, DecideTurns
  DEF Accept, DecideForced, DecideTool, DecideFinal, ToolIsActive, ExecuteTool, Turns
<1>2. Calls(q)' = Calls(q) /\ Execs(q)' = Execs(q)
  BY <1>1 DEF Calls, Execs
<1>3. Count(input[q], pc'[q], row[q], Calls(q), Execs(q), loop'[q], cause[q])
  <2>1. CASE Accept(q) \/ ToolIsActive(q) \/ ExecuteTool(q)
    <3>1. /\ loop'[q] = loop[q]
          /\ \/ pc[q] = "idle" /\ pc'[q] = "insert"
             \/ pc[q] = "authorize" /\ pc'[q] = "bindings"
             \/ pc[q] = "bindings" /\ pc'[q] = "exec"
      BY <2>1, ProceedTurns DEF Accept, ToolIsActive, ExecuteTool, Turns
    <3> QED
      BY <3>1 DEF Limited, Count, FreshPc, AskPc, CallPc
  <2>2. CASE Load(q)
    <3>1. PICK t \in Tools \cup {NilTool} :
            /\ pc[q] = "load" /\ pc'[q] = "decide"
            /\ loop'[q] = [loop[q] EXCEPT !.first = t]
      BY <2>2, LoadTurns DEF Turns
    <3>2. loop[q] = NoLoop
      BY <3>1 DEF Chosen, Choice, FreshPc
    <3>3. loop'[q].results = 0 /\ loop'[q].iteration = 1
      BY <3>1, <3>2 DEF NoLoop
    <3> QED
      BY <3>1, <3>3 DEF Limited, Count, FreshPc, AskPc, CallPc
  <2>3. CASE DecideForced(q) \/ DecideTool(q) \/ DecideFinal(q)
    <3>1. PICK t \in Tools \cup {NilTool, FinalAnswer} :
            /\ Decide(q, t)
            /\ t = FinalAnswer <=> loop[q].results = 2
      <4>1. pc[q] = "decide"
        BY <2>3 DEF DecideForced, DecideTool, DecideFinal, Decide, Goto
      <4>2. loop[q].results <= 2 /\ (input[q].force => loop[q].results = 0)
        BY <4>1 DEF Limited, Count, AskPc, Chosen, Choice, Barred
      <4>3. CASE DecideForced(q)
        BY <4>2, <4>3, NamesAssumption DEF DecideForced, UnboundActive, Forced
      <4>4. CASE DecideTool(q)
        BY <4>2, <4>4, NamesAssumption DEF DecideTool, LoopType
      <4>5. CASE DecideFinal(q)
        BY <4>2, <4>5 DEF DecideFinal
      <4> QED
        BY <2>3, <4>3, <4>4, <4>5
    <3>2. /\ pc[q] = "decide" /\ pc'[q] = "llm"
          /\ loop'[q] = Decided(loop[q], t, input[q].force)
      BY <3>1, DecideTurns DEF Turns
    <3>3. /\ loop'[q].tool = t /\ loop'[q].results = loop[q].results
          /\ loop'[q].iteration = loop[q].iteration
      BY <3>2 DEF Decided, LoopType
    <3> QED
      BY <3>1, <3>2, <3>3 DEF Limited, Count, FreshPc, AskPc, CallPc
  <2> QED
    BY <2>1, <2>2, <2>3
<1> QED
  BY <1>1, <1>2, <1>3 DEF Limited

LEMMA CountCall ==
  ASSUME TypeOK, NEW q \in Requests, Limited(q), input'[q] = input[q], AppendLlmCall(q)
  PROVE  Limited(q)'
<1> USE LimitedTypes
<1> DEFINE e == Event("llm_call", loop[q].tool)
<1>1. /\ pc[q] = "llm" /\ row'[q] = row[q] /\ loop'[q] = loop[q] /\ cause'[q] = cause[q]
      /\ pc'[q] = IF loop[q].tool = FinalAnswer THEN "succeed" ELSE "authorize"
      /\ trace'[q] = Append(trace[q], e)
  BY AppendTurns DEF AppendLlmCall, Turns
<1>2. trace[q] \in Seq(EventType) /\ e \in EventType /\ e.type = "llm_call"
  BY DEF TypeOK, LoopType, Event, EventType
<1> HIDE DEF e
<1>3. Cardinality(Of(Append(trace[q], e), e.type)) = Cardinality(Of(trace[q], e.type)) + 1
  BY <1>2, OfOneMore
<1>4. Of(Append(trace[q], e), "tool_exec") = Of(trace[q], "tool_exec")
  BY <1>2, OfOther
<1>5. Calls(q)' = Calls(q) + 1 /\ Execs(q)' = Execs(q)
  BY <1>1, <1>2, <1>3, <1>4 DEF Calls, Execs
<1>6. Count(input[q], pc'[q], row[q], Calls(q) + 1, Execs(q), loop[q], cause[q])
  BY <1>1 DEF Limited, Count, FreshPc, AskPc, CallPc
<1> QED
  BY <1>1, <1>5, <1>6 DEF Limited

LEMMA CountExec ==
  ASSUME TypeOK, NEW q \in Requests, Limited(q), input'[q] = input[q], AppendToolExec(q)
  PROVE  Limited(q)'
<1> USE LimitedTypes
<1> DEFINE e == Event("tool_exec", loop[q].tool)
<1>1. /\ pc[q] = "exec" /\ row'[q] = row[q] /\ loop'[q] = Counted(loop[q])
      /\ pc'[q] = IF LastIteration(q) THEN "fail" ELSE "decide"
      /\ cause'[q] = IF LastIteration(q) THEN "max_iterations_exceeded" ELSE cause[q]
      /\ trace'[q] = Append(trace[q], e)
  BY ToolExecTurns DEF Turns
<1>2. trace[q] \in Seq(EventType) /\ e \in EventType /\ e.type = "tool_exec"
  BY DEF TypeOK, LoopType, Event, EventType
<1> HIDE DEF e
<1>3. Cardinality(Of(Append(trace[q], e), e.type)) = Cardinality(Of(trace[q], e.type)) + 1
  BY <1>2, OfOneMore
<1>4. Of(Append(trace[q], e), "llm_call") = Of(trace[q], "llm_call")
  BY <1>2, OfOther
<1>5. Execs(q)' = Execs(q) + 1 /\ Calls(q)' = Calls(q)
  BY <1>1, <1>2, <1>3, <1>4 DEF Calls, Execs
<1>6. loop'[q].results = loop[q].results + 1 /\ loop'[q].iteration = loop[q].iteration + 1
  BY <1>1 DEF Counted, LoopType
<1>7. Count(input[q], pc'[q], row[q], Calls(q), Execs(q) + 1, loop'[q], cause'[q])
  <2>1. CASE LastIteration(q)
    BY <1>1, <1>6, <2>1 DEF LastIteration, Limited, Count, FreshPc, AskPc, CallPc
  <2>2. CASE ~LastIteration(q)
    <3>1. pc'[q] = "decide" /\ cause'[q] = cause[q]
      BY <1>1, <2>2
    <3>2. /\ Calls(q) = loop[q].results + 1 /\ Execs(q) = loop[q].results
          /\ loop[q].results < 2 /\ loop[q].iteration = loop[q].results + 1
          /\ loop[q].iteration <= MaxIterations[input[q].agent]
      BY <1>1 DEF Limited, Count, CallPc
    <3>3. loop[q].iteration < MaxIterations[input[q].agent]
      BY <2>2, <3>2 DEF LastIteration
    <3>4. row[q].status # "success"
      BY <3>2 DEF Limited, Count
    <3>5. cause[q] # "max_iterations_exceeded"
      BY <1>1 DEF Limited, Count
    <3>6. /\ Calls(q) = loop'[q].results /\ Execs(q) + 1 = loop'[q].results
          /\ loop'[q].iteration = loop'[q].results + 1
          /\ loop'[q].iteration <= MaxIterations[input[q].agent]
          /\ Calls(q) <= MaxIterations[input[q].agent] /\ Execs(q) + 1 <= 2
      BY <1>6, <3>2, <3>3
    <3> QED
      BY <3>1, <3>4, <3>5, <3>6 DEF Count, FreshPc, AskPc, CallPc
  <2> QED
    BY <2>1, <2>2
<1> QED
  BY <1>1, <1>5, <1>7 DEF Limited

LEMMA CountNext == TypeOK /\ ControlInv /\ ChoiceInv /\ CountInv /\ [Next]_vars => CountInv'
<1> SUFFICES ASSUME TypeOK, ControlInv, ChoiceInv, CountInv, [Next]_vars, NEW q \in Requests
             PROVE  Limited(q)'
  BY DEF CountInv
<1>1. Limited(q) /\ Chosen(q) /\ input'[q] = input[q]
  BY InputConstant DEF CountInv, ChoiceInv, Chosen
<1>2. CASE Same(q)
  BY <1>1, <1>2 DEF Same, Limited, Calls, Execs
<1>3. CASE Killed(q)
  <2>1. EndStep(q)
    BY <1>3 DEF Killed, EndStep, Turns
  <2> QED
    BY <1>1, <2>1, CountQuiet
<1>4. CASE Own(q)
  BY <1>1, <1>4, OwnSteps, CountQuiet, CountAsks, CountCall, CountExec
<1> QED
  BY <1>2, <1>3, <1>4, NextLocal

LEMMA CountInit == Init => CountInv
<1> SUFFICES ASSUME Init, NEW q \in Requests PROVE Limited(q)
  BY DEF CountInv
<1>1. /\ pc[q] = "idle" /\ row[q] = NoRow /\ trace[q] = <<>> /\ cause[q] = "none"
      /\ input[q].agent \in Agents
  BY InputAssumption DEF Init, InputType
<1>2. Of(trace[q], "llm_call") = {} /\ Of(trace[q], "tool_exec") = {}
  BY <1>1 DEF Of
<1>3. Calls(q) = 0 /\ Execs(q) = 0
  BY <1>2, FS_EmptySet DEF Calls, Execs
<1>4. MaxIterations[input[q].agent] \in 1..50
  BY <1>1, IterationsAssumption
<1>5. Count(input[q], "idle", NoRow, 0, 0, loop[q], "none")
  BY <1>4 DEF Count, NoRow, AskPc, CallPc
<1> QED
  BY <1>1, <1>3, <1>5 DEF Limited

-------------------------------------------------------------------------------
(* The five parts together, and the properties they imply. *)

OutcomeInv == ColumnsInv /\ StoryInv /\ ToldInv /\ ChoiceInv /\ CountInv

LEMMA OutcomeNext ==
  TypeOK /\ ControlInv /\ OutcomeInv /\ [Next]_vars => OutcomeInv'
<1> SUFFICES ASSUME TypeOK, ControlInv, OutcomeInv, [Next]_vars PROVE OutcomeInv'
  OBVIOUS
<1>0. ColumnsInv /\ StoryInv /\ ToldInv /\ ChoiceInv /\ CountInv
  BY DEF OutcomeInv
<1>1. ControlInv'
  BY ControlNext
<1>2. ColumnsInv'
  BY <1>0, ColumnsNext
<1>3. StoryInv'
  BY <1>0, StoryNext
<1>4. ToldInv'
  BY <1>0, <1>1, <1>2, ToldNext
<1>5. ChoiceInv' /\ CountInv'
  BY <1>0, ChoiceNext, CountNext
<1> QED
  BY <1>2, <1>3, <1>4, <1>5 DEF OutcomeInv

LEMMA OutcomeAlways == Spec => [](TypeOK /\ ControlInv /\ OutcomeInv)
<1>1. Init => OutcomeInv
  BY ColumnsInit, StoryInit, ToldInit, ChoiceInit, CountInit DEF OutcomeInv
<1> QED
  BY <1>1, OutcomeNext, ControlAlways, PTL DEF Spec

\* The columns of a row always fit together: an answer exactly with success, a
\* reason exactly with failed, finished_at with the terminal states, started_at
\* with every executed run and with no run the scheduler refused.
THEOREM ColumnsFit == Spec => []RowCoherent
<1>1. ColumnsInv => RowCoherent
  BY DEF ColumnsInv, Columns, RowCoherent
<1> QED
  BY <1>1, OutcomeAlways, PTL DEF OutcomeInv

\* What start_run answered stays true of the database: behind a 503 or 429 is a
\* run failed for that reason, traced as such and never started, behind a 200
\* an admitted run, behind a 400 or 404 nothing.
THEOREM AnswersTrue == Spec => []ResponseTruth
<1>1. TypeOK /\ ToldInv /\ ColumnsInv => ResponseTruth
  <2> SUFFICES ASSUME TypeOK, ToldInv, ColumnsInv, NEW q \in Requests
               PROVE  /\ resp[q] \in Capacity =>
                           /\ row[q].status = "failed" /\ row[q].reason = resp[q]
                           /\ ~row[q].started
                           /\ Types(q) = <<"run_created", "scheduler_decision", "run_end">>
                           /\ trace[q][2].data = resp[q]
                      /\ resp[q] = "pending" =>
                           row[q].status # "absent" /\ row[q].reason \notin Capacity
                      /\ resp[q] \in Refusals => row[q].status = "absent"
    BY DEF ResponseTruth, Refusals
  <2>1. /\ Told(pc[q], row[q], trace[q], cause[q], resp[q])
        /\ Columns(pc[q], row[q], cause[q]) /\ trace[q] \in Seq(EventType)
    BY DEF ToldInv, ColumnsInv, TypeOK
  <2>2. ASSUME resp[q] \in Capacity
        PROVE  Rejected(row[q], trace[q], resp[q])
    BY <2>1, <2>2 DEF Told
  <2>3. ASSUME resp[q] \in Capacity
        PROVE  Types(q) = <<"run_created", "scheduler_decision", "run_end">>
    <3>1. DOMAIN trace[q] = 1..3
      BY <2>1, <2>2, <2>3 DEF Rejected
    <3>2. /\ trace[q][1].type = "run_created" /\ trace[q][2].type = "scheduler_decision"
          /\ trace[q][3].type = "run_end"
      BY <2>2, <2>3 DEF Rejected
    <3> QED
      BY <3>1, <3>2 DEF Types
  <2>4. resp[q] = "pending" => row[q].status # "absent" /\ row[q].reason \notin Capacity
    BY <2>1 DEF Told, Columns
  <2> QED
    BY <2>1, <2>2, <2>3, <2>4 DEF Told, Rejected
<1> QED
  BY <1>1, OutcomeAlways, PTL DEF OutcomeInv

\* Every trace is legal at every moment: run_created, the scheduler's decision,
\* run_started, llm_call and tool_exec in turn, run_end last.
THEOREM TracesLegal == Spec => []LegalTrace
<1>1. StoryInv => LegalTrace
  BY DEF StoryInv, Story, Legal, LegalTrace
<1> QED
  BY <1>1, OutcomeAlways, PTL DEF OutcomeInv

\* Whatever execute_run executes was bound to the agent, of its tenant and fit
\* for the call; a forced invalid call never ends in an execution or a success.
THEOREM ExecutionsAuthorised == Spec => []ToolExecAuthorised
<1>1. TypeOK /\ ChoiceInv => ToolExecAuthorised
  <2> SUFFICES ASSUME TypeOK, ChoiceInv, NEW q \in Requests
               PROVE  /\ \A i \in Events(q, "tool_exec") :
                           /\ trace[q][i].data \in BoundTools(q)
                           /\ ToolTenant[trace[q][i].data] = TenantOf(q)
                           /\ \/ ToolKind[trace[q][i].data] = "ok"
                              \/ /\ ToolKind[trace[q][i].data] = "once"
                                 /\ \A j \in Events(q, "tool_exec") : i <= j
                      /\ input[q].force =>
                           Events(q, "tool_exec") = {} /\ row[q].status # "success"
    BY DEF ToolExecAuthorised
  <2>1. Choice(input[q], pc[q], row[q], trace[q], loop[q])
    BY DEF ChoiceInv
  <2>2. Events(q, "tool_exec") = Of(trace[q], "tool_exec")
    BY DEF Events, Of
  <2>3. ASSUME NEW i \in Events(q, "tool_exec")
        PROVE  /\ trace[q][i].data \in BoundTools(q)
               /\ ToolTenant[trace[q][i].data] = TenantOf(q)
               /\ \/ ToolKind[trace[q][i].data] = "ok"
                  \/ /\ ToolKind[trace[q][i].data] = "once"
                     /\ \A j \in Events(q, "tool_exec") : i <= j
    <3>1. /\ Allowed(input[q], trace[q][i].data, Earliest(trace[q], i))
          /\ AgentTenant[input[q].agent] = input[q].tenant
      BY <2>1, <2>2, <2>3 DEF Choice
    <3>2. input[q].agent \in Agents
      BY InputAssumption DEF TypeOK, InputType
    <3> QED
      BY <2>2, <3>1, <3>2, CatalogueAssumption DEF Allowed, Earliest, BoundTools, TenantOf
  <2> QED
    BY <2>1, <2>2, <2>3 DEF Choice, Barred
<1> QED
  BY <1>1, OutcomeAlways, PTL DEF OutcomeInv

\* A successful run made two tool calls and asked three times, and a run that
\* exceeded max_iterations made as many tool calls as its agent allows, 1 or 2.
THEOREM OutcomeOfMock == Spec => []MockOutcome
<1>1. TypeOK /\ ColumnsInv /\ CountInv => MockOutcome
  <2> SUFFICES ASSUME TypeOK, ColumnsInv, CountInv, NEW q \in Requests
               PROVE  /\ Calls(q) <= MaxIterations[input[q].agent] /\ Execs(q) <= 2
                      /\ row[q].status = "success" => Execs(q) = 2 /\ Calls(q) = 3
                      /\ row[q].reason = "max_iterations_exceeded" =>
                           /\ Execs(q) = MaxIterations[input[q].agent]
                           /\ MaxIterations[input[q].agent] < 3
    BY DEF MockOutcome, Calls, Execs, Events, Of
  <2>1. Limited(q) /\ Columns(pc[q], row[q], cause[q])
    BY DEF CountInv, ColumnsInv
  <2> QED
    BY <2>1, LimitedTypes DEF Limited, Count, Columns
<1> QED
  BY <1>1, OutcomeAlways, PTL DEF OutcomeInv

-------------------------------------------------------------------------------
(* Deleted tools. *)

\* Tool t is deleted and q is not about to execute it.
Shunned(q, t) ==
  catalog[t] = "deleted" /\ (pc[q] \in {"bindings", "exec"} => loop[q].tool # t)

LEMMA DeletedForGood ==
  ASSUME TypeOK, [Next]_vars, NEW t \in Tools, catalog[t] = "deleted"
  PROVE  catalog'[t] = "deleted"
<1>1. CASE \E x \in Tools : CreateTool(x) \/ DeleteTool(x)
  BY <1>1 DEF TypeOK, CreateTool, DeleteTool, SetTool
<1>2. CASE \E q \in Requests : Own(q)
  <2>1. PICK q \in Requests : Own(q)
    BY <1>2
  <2> USE DEF Proceed, Store, AppendEvent, FailWith, Finish, Return
  <2>2. CASE Receive(q)
    BY <2>2 DEF Receive, RefuseAgent, RefuseEmpty, Accept
  <2>3. CASE HandlerStep(q)
    BY <2>3 DEF HandlerStep, InsertRun, SelectExisting, CommitRun, AppendRunCreated,
      AcquireGlobal, RefuseGlobal, AcquireTenant, RefuseTenant, MarkRejected,
      AppendRejected, AppendRejectedEnd, RejectReply
  <2>4. CASE TaskStep(q)
    <3>1. CASE \/ BeginExecution(q) \/ AppendAccepted(q) \/ AppendRunStarted(q) \/ Load(q)
               \/ DecideForced(q) \/ DecideTool(q) \/ DecideFinal(q) \/ NoToolToCall(q)
      BY <3>1 DEF BeginExecution, AppendAccepted, AppendRunStarted, Load, DecideForced,
        DecideTool, DecideFinal, NoToolToCall, Decide
    <3>2. CASE \/ AppendLlmCall(q) \/ ToolNotFound(q) \/ ToolIsDeleted(q) \/ ToolIsActive(q)
               \/ ToolNotBound(q) \/ AppendToolExec(q)
      BY <3>2 DEF AppendLlmCall, ToolNotFound, ToolIsDeleted, ToolIsActive, ToolNotBound,
        AppendToolExec
    <3>3. CASE SchemaRefuses(q) \/ HandlerRefuses(q) \/ ExecuteTool(q)
      BY <3>3 DEF SchemaRefuses, HandlerRefuses, ExecuteTool
    <3>4. CASE \/ FinalizeSuccess(q) \/ AppendSuccessEnd(q) \/ FinalizeFailed(q)
               \/ AppendFailedEnd(q) \/ Exit(q)
      BY <3>4 DEF FinalizeSuccess, AppendSuccessEnd, FinalizeFailed, AppendFailedEnd, Exit
    <3> QED
      BY <2>4, <3>1, <3>2, <3>3, <3>4 DEF TaskStep
  <2>5. CASE DbError(q) \/ AuthorizeError(q) \/ Disconnect(q)
    BY <2>5 DEF DbError, AuthorizeError, Disconnect
  <2> QED
    BY <2>1, <2>2, <2>3, <2>4, <2>5 DEF Own
<1>3. CASE Crash \/ UNCHANGED vars
  BY <1>3 DEF Crash, vars
<1> QED
  BY <1>1, <1>2, <1>3 DEF Next, Terminating, Own

LEMMA ShunnedNext ==
  ASSUME TypeOK, ControlInv, [Next]_vars, NEW q \in Requests, NEW t \in Tools, Shunned(q, t)
  PROVE  Shunned(q, t)'
<1>0. catalog[t] = "deleted" /\ catalog'[t] = "deleted"
  BY DeletedForGood DEF Shunned
<1>1. pc'[q] \in {"bindings", "exec"} => loop'[q].tool # t
  <2>1. CASE Same(q)
    BY <2>1 DEF Same, Shunned
  <2>2. CASE Killed(q)
    BY <2>2 DEF Killed, Turns
  <2>3. CASE Own(q)
    <3>1. CASE FreshStep(q) \/ EndStep(q) \/ FailStep(q) \/ CloseStep(q)
      BY <3>1 DEF FreshStep, EndStep, FailStep, CloseStep, FreshPc
    <3>2. CASE Accept(q) \/ Load(q) \/ DecideForced(q) \/ DecideTool(q) \/ DecideFinal(q)
      BY <3>2 DEF TypeOK, Accept, Load, DecideForced, DecideTool, DecideFinal, Proceed,
                  Decide, Goto
    <3>3. CASE AppendLlmCall(q) \/ AppendToolExec(q)
      BY <3>3 DEF TypeOK, AppendLlmCall, AppendEvent, AppendToolExec, Goto
    <3>4. CASE ToolIsActive(q)
      BY <1>0, <3>4, ProceedTurns DEF ToolIsActive, Turns
    <3>5. CASE ExecuteTool(q)
      BY <3>5, ProceedTurns DEF ExecuteTool, Turns, Shunned
    <3> QED
      BY <2>3, <3>1, <3>2, <3>3, <3>4, <3>5, OwnSteps
  <2> QED
    BY <2>1, <2>2, <2>3, NextLocal
<1> QED
  BY <1>0, <1>1 DEF Shunned

\* A tool deleted before a run has read its deleted_at is never executed by
\* that run, in this iteration or a later one.
THEOREM DeletedToolsUnused == Spec => DeletedToolUnused
<1> SUFFICES ASSUME NEW q \in Requests, NEW t \in Tools
             PROVE  Spec => [](catalog[t] = "deleted" /\ pc[q] \notin {"bindings", "exec"}
                                 => [](pc[q] = "exec" => loop[q].tool # t))
  BY DEF DeletedToolUnused
<1>1. catalog[t] = "deleted" /\ pc[q] \notin {"bindings", "exec"} => Shunned(q, t)
  BY DEF Shunned
<1>2. TypeOK /\ ControlInv /\ Shunned(q, t) /\ [Next]_vars => Shunned(q, t)'
  BY ShunnedNext
<1>3. Shunned(q, t) => (pc[q] = "exec" => loop[q].tool # t)
  BY DEF Shunned
<1> QED
  BY <1>1, <1>2, <1>3, ControlAlways, PTL DEF Spec


-------------------------------------------------------------------------------
(* A chain makes progress with every statement it sends. *)

LEMMA StepsRank ==
  /\ StepsFrom("idle") = 18 /\ StepsFrom("insert") = 17 /\ StepsFrom("commit") = 16
  /\ StepsFrom("created") = 15 /\ StepsFrom("schedule") = 14 /\ StepsFrom("tenant") = 13
  /\ StepsFrom("begin") = 12 /\ StepsFrom("accepted") = 11 /\ StepsFrom("started") = 10
  /\ StepsFrom("load") = 9 /\ StepsFrom("decide") = 8 /\ StepsFrom("llm") = 7
  /\ StepsFrom("authorize") = 6 /\ StepsFrom("bindings") = 5
  /\ StepsFrom("exec") = 4 /\ StepsFrom("rejectMark") = 4
  /\ StepsFrom("succeed") = 3 /\ StepsFrom("fail") = 3 /\ StepsFrom("rejectDecision") = 3
  /\ StepsFrom("endSuccess") = 2 /\ StepsFrom("endFailed") = 2 /\ StepsFrom("rejectEnd") = 2
  /\ StepsFrom("exit") = 1 /\ StepsFrom("rejectReply") = 1 /\ StepsFrom("conflict") = 1
  /\ \A p \in OverPc : StepsFrom(p) = 0
BY DEF StepsFrom

LEMMA StepsActive ==
  /\ \A p \in {"idle"} \cup ActivePc : StepsFrom(p) \in 1..18
  /\ \A p \in OverPc : StepsFrom(p) = 0
BY StepsRank


\* A step down, within one iteration.
Descends(q) ==
  /\ pc[q] \in {"idle"} \cup ActivePc
  /\ StepsFrom(pc'[q]) \in 0..(StepsFrom(pc[q]) - 1)
  /\ pc'[q] \in Looping => pc[q] \in Looping
  /\ loop'[q].iteration = loop[q].iteration

LEMMA EndDescends ==
  ASSUME NEW q \in Requests, EndStep(q) \/ Killed(q), loop'[q] = loop[q]
  PROVE  Descends(q)
BY StepsActive DEF EndStep, Killed, Turns, Descends, Looping

LEMMA OverLoop ==
  ASSUME TypeOK, NEW q \in Requests,
         \/ RefuseAgent(q) \/ RefuseEmpty(q) \/ SelectExisting(q) \/ RejectReply(q)
         \/ NoToolToCall(q) \/ HandlerRefuses(q) \/ Exit(q) \/ DbError(q) \/ Disconnect(q)
  PROVE  Descends(q)
<1>1. loop'[q] = loop[q]
  BY DEF RefuseAgent, RefuseEmpty, SelectExisting, RejectReply, NoToolToCall,
         HandlerRefuses, Exit, DbError, Disconnect, Return, Finish
<1> QED
  BY <1>1, EndSteps, EndDescends

LEMMA HandlerDescends ==
  ASSUME TypeOK, NEW q \in Requests, Receive(q) \/ HandlerStep(q)
  PROVE  Descends(q)
<1> USE DEF Descends, Turns, Looping
<1>1. CASE Accept(q) \/ InsertRun(q)
  BY <1>1, ProceedTurns, StepsRank DEF Accept, InsertRun
<1>2. CASE CommitRun(q) \/ MarkRejected(q)
  BY <1>2, StoreTurns, StepsRank DEF CommitRun, MarkRejected
<1>3. CASE AppendRunCreated(q) \/ AppendRejected(q) \/ AppendRejectedEnd(q)
  BY <1>3, AppendTurns, StepsRank DEF AppendRunCreated, AppendRejected, AppendRejectedEnd
<1>4. CASE AcquireGlobal(q) \/ AcquireTenant(q)
  BY <1>4, AcquireTurns, StepsRank
<1>5. CASE RefuseGlobal(q) \/ RefuseTenant(q)
  BY <1>5, FailTurns, StepsRank DEF RefuseGlobal, RefuseTenant
<1> QED
  BY <1>1, <1>2, <1>3, <1>4, <1>5, OverLoop DEF Receive, HandlerStep

LEMMA TaskDescends ==
  ASSUME TypeOK, NEW q \in Requests, TaskStep(q) \/ AuthorizeError(q), ~AppendToolExec(q)
  PROVE  Descends(q)
<1> USE DEF Descends, Turns, Looping
<1>0. loop[q] \in LoopType
  BY DEF TypeOK
<1>1. CASE BeginExecution(q) \/ FinalizeSuccess(q) \/ FinalizeFailed(q)
  <2>1. CASE BeginExecution(q)
    <3>1. PICK to \in {"accepted", "exit"} : Store(q, "begin", to, BeginRunExecution(row[q]))
      BY <2>1 DEF BeginExecution
    <3>2. pc[q] = "begin" /\ pc'[q] = to /\ loop'[q] = loop[q]
      BY <3>1, StoreTurns
    <3> QED
      BY <3>2, StepsRank
  <2>2. CASE FinalizeSuccess(q)
    <3>1. pc[q] = "succeed" /\ pc'[q] = "endSuccess" /\ loop'[q] = loop[q]
      BY <2>2 DEF FinalizeSuccess, Store, Goto, TypeOK
    <3> QED
      BY <3>1, StepsRank
  <2>3. CASE FinalizeFailed(q)
    <3>1. pc[q] = "fail" /\ pc'[q] = "endFailed" /\ loop'[q] = loop[q]
      BY <2>3 DEF FinalizeFailed, Store, Goto, TypeOK
    <3> QED
      BY <3>1, StepsRank
  <2> QED
    BY <1>1, <2>1, <2>2, <2>3
<1>2. CASE AppendAccepted(q) \/ AppendRunStarted(q) \/ AppendLlmCall(q)
  BY <1>2, AppendTurns, StepsRank DEF AppendAccepted, AppendRunStarted, AppendLlmCall
<1>3. CASE AppendSuccessEnd(q) \/ AppendFailedEnd(q)
  BY <1>3, AppendTurns, StepsRank DEF AppendSuccessEnd, AppendFailedEnd
<1>4. CASE Load(q)
  <2>1. pc[q] = "load" /\ pc'[q] = "decide" /\ loop'[q].iteration = loop[q].iteration
    BY <1>0, <1>4, LoadTurns DEF LoopType
  <2> QED
    BY <2>1, StepsRank
<1>5. CASE \E t : Decide(q, t)
  <2>1. PICK t : Decide(q, t)
    BY <1>5
  <2>2. Decided(loop[q], t, input[q].force).iteration = loop[q].iteration
    BY <1>0 DEF LoopType, Decided
  <2>3. pc[q] = "decide" /\ pc'[q] = "llm" /\ loop'[q].iteration = loop[q].iteration
    BY <2>1, <2>2, DecideTurns
  <2> QED
    BY <2>3, StepsRank
<1>6. CASE ToolIsActive(q) \/ ExecuteTool(q)
  BY <1>6, ProceedTurns, StepsRank DEF ToolIsActive, ExecuteTool
<1>7. CASE FailStep(q) /\ loop'[q] = loop[q]
  BY <1>7, StepsRank DEF FailStep
<1>8. CASE \/ ToolNotFound(q) \/ ToolIsDeleted(q) \/ ToolNotBound(q) \/ SchemaRefuses(q)
           \/ AuthorizeError(q)
  BY <1>7, <1>8, FailSteps
  DEF ToolNotFound, ToolIsDeleted, ToolNotBound, SchemaRefuses, AuthorizeError, FailWith
<1>9. CASE DecideForced(q) \/ DecideTool(q) \/ DecideFinal(q)
  BY <1>5, <1>9 DEF DecideForced, DecideTool, DecideFinal
<1> QED
  BY <1>1, <1>2, <1>3, <1>4, <1>6, <1>8, <1>9, OverLoop DEF TaskStep

\* StepsLeft at p, when n iterations of m have begun.
Left(p, m, n) == StepsFrom(p) + IF p \in Looping THEN 5 * (m - n) ELSE 0

LEMMA Downhill ==
  ASSUME NEW p \in {"idle"} \cup ActivePc, NEW r, StepsFrom(r) \in 0..(StepsFrom(p) - 1),
         r \in Looping => p \in Looping,
         NEW m \in Nat, NEW n \in Nat, p \in Looping => n <= m
  PROVE  Left(r, m, n) \in 0..(Left(p, m, n) - 1)
<1>1. StepsFrom(p) \in 1..18
  BY StepsActive
<1>2. CASE p \in Looping
  BY <1>1, <1>2 DEF Left
<1>3. CASE p \notin Looping
  BY <1>1, <1>3 DEF Left
<1> QED
  BY <1>2, <1>3

LEMMA IterationsLeft ==
  ASSUME TypeOK, NEW q \in Requests, Chosen(q), Limited(q), pc[q] \in Looping
  PROVE  loop[q].iteration <= MaxIterations[input[q].agent]
<1>1. MaxIterations[input[q].agent] \in 1..50
  BY LimitedTypes
<1>2. CASE pc[q] \in FreshPc
  BY <1>1, <1>2 DEF Chosen, Choice, NoLoop
<1>3. CASE pc[q] \in AskPc \cup CallPc
  BY <1>3 DEF Limited, Count
<1> QED
  BY <1>2, <1>3 DEF Looping, FreshPc, AskPc, CallPc

LEMMA ExecStepsLeft ==
  ASSUME TypeOK, NEW q \in Requests, Chosen(q), Limited(q), input'[q] = input[q],
         AppendToolExec(q)
  PROVE  StepsLeft(q)' \in 0..(StepsLeft(q) - 1)
<1> DEFINE m == MaxIterations[input[q].agent]
           n == loop[q].iteration
<1>1. m \in Nat /\ n \in Nat /\ loop[q] \in LoopType
  BY LimitedTypes
<1>2. pc[q] = "exec" /\ loop'[q].iteration = n + 1
  BY <1>1, ToolExecTurns DEF Turns, Counted, LoopType
<1>3. pc'[q] = IF n = m THEN "fail" ELSE "decide"
  BY ToolExecTurns DEF Turns, LastIteration
<1>4. n <= m
  BY <1>2, IterationsLeft DEF Looping
<1>5. StepsLeft(q) = 4 + 5 * (m - n)
  BY <1>2, StepsRank DEF StepsLeft, Looping
<1>6. CASE n = m
  <2>1. StepsLeft(q)' = 3
    BY <1>1, <1>3, <1>6, StepsRank DEF StepsLeft, Looping
  <2> QED
    BY <1>1, <1>5, <1>6, <2>1
<1>7. CASE n # m
  <2>1. StepsLeft(q)' = 8 + 5 * (m - (n + 1))
    BY <1>2, <1>3, <1>7, StepsRank DEF StepsLeft, Looping
  <2> HIDE DEF m, n
  <2> QED
    BY <1>1, <1>4, <1>5, <1>7, <2>1
<1> QED
  BY <1>6, <1>7

LEMMA StepsLeftNext ==
  ASSUME TypeOK, ControlInv, OutcomeInv, [Next]_vars, NEW q \in Requests, ~Same(q)
  PROVE  StepsLeft(q)' \in 0..(StepsLeft(q) - 1)
<1>1. Chosen(q) /\ Limited(q) /\ input'[q] = input[q]
  BY InputConstant DEF OutcomeInv, ChoiceInv, CountInv, Chosen
<1>2. CASE AppendToolExec(q)
  BY <1>1, <1>2, ExecStepsLeft
<1>3. CASE Descends(q)
  <2>1. /\ MaxIterations[input[q].agent] \in Nat /\ loop[q].iteration \in Nat
        /\ pc[q] \in Looping => loop[q].iteration <= MaxIterations[input[q].agent]
    BY <1>1, LimitedTypes, IterationsLeft
  <2> DEFINE m == MaxIterations[input[q].agent]
             n == loop[q].iteration
  <2>2. StepsLeft(q) = Left(pc[q], m, n) /\ StepsLeft(q)' = Left(pc'[q], m, n)
    BY <1>1, <1>3 DEF Descends, StepsLeft, Left
  <2>3. Left(pc'[q], m, n) \in 0..(Left(pc[q], m, n) - 1)
    BY <1>3, <2>1, Downhill DEF Descends
  <2> QED
    BY <2>2, <2>3
<1>4. CASE Killed(q)
  BY <1>3, <1>4, EndDescends DEF Killed, Turns
<1>5. CASE Own(q)
  BY <1>2, <1>3, <1>5, HandlerDescends, TaskDescends, OverLoop DEF Own
<1> QED
  BY <1>4, <1>5, NextLocal

\* start_run and execute_run are bounded: everything a chain does to its run
\* or to its own position, a fault included, brings it closer to its end, and
\* it is never more than 18 + 5 * (max_iterations - 1) such steps away.
THEOREM ChainsBounded == Spec => BoundedChain
<1>1. TypeOK /\ ControlInv /\ OutcomeInv /\ [Next]_vars =>
        \A q \in Requests :
          <<pc[q], row[q], trace[q]>>' # <<pc[q], row[q], trace[q]>> =>
            StepsLeft(q)' \in 0..(StepsLeft(q) - 1)
  BY StepsLeftNext DEF Same
<1> QED
  BY <1>1, OutcomeAlways, PTL DEF Spec, BoundedChain

=============
