-------------------------- MODULE RunCapacityProofs --------------------------
(***************************************************************************)
(* No permit is ever lost or returned twice, and so the configured limits  *)
(* bound the runs that execute, for any number of requests and tenants and *)
(* any limits, zero included, across errors, dropped handlers and crashes. *)
(*                                                                         *)
(* PermitAccounting is not inductive alone: that the step of AcquireGlobal *)
(* adds a holder needs that a request in "schedule" holds nothing yet.     *)
(* PermitsFollowControl adds which permits each control state owns.        *)
(***************************************************************************)
EXTENDS RunServiceProofs

\* The permits a request may own at control state p.
PermitsAt(p) ==
  IF p = "tenant" THEN {{"global"}}
  ELSE IF p \in TaskPc THEN {{"global", "tenant"}}
  ELSE IF p \in {"rejectMark", "rejectDecision", "rejectEnd", "rejectReply"}
       THEN {{}, {"global"}}
  ELSE {{}}

PermitsFollowControl == \A q \in Requests : permits[q] \in PermitsAt(pc[q])

CapacityInv == TypeOK /\ PermitsFollowControl /\ PermitAccounting

-------------------------------------------------------------------------------
(* The holders of a kind of permit, when one request's permits change. *)

LEMMA HoldersFinite ==
  /\ \A kind : IsFiniteSet(Holders(kind)) /\ Cardinality(Holders(kind)) \in Nat
  /\ \A n : IsFiniteSet(TenantHolders(n)) /\ Cardinality(TenantHolders(n)) \in Nat
<1>1. ASSUME NEW kind
      PROVE  IsFiniteSet(Holders(kind)) /\ Cardinality(Holders(kind)) \in Nat
  <2>1. Holders(kind) \in SUBSET Requests
    BY DEF Holders
  <2> QED
    BY <2>1, FiniteAssumption, FS_Subset, FS_CardinalityType
<1>2. ASSUME NEW n
      PROVE  IsFiniteSet(TenantHolders(n)) /\ Cardinality(TenantHolders(n)) \in Nat
  <2>1. TenantHolders(n) \in SUBSET Requests
    BY DEF TenantHolders, Holders
  <2> QED
    BY <2>1, FiniteAssumption, FS_Subset, FS_CardinalityType
<1> QED
  BY <1>1, <1>2

\* Nothing about the permits changes.
LEMMA SameHolders ==
  ASSUME UNCHANGED <<permits, input, globalFree, tenantFree>>, PermitAccounting
  PROVE  PermitAccounting'
BY DEF PermitAccounting, Holders, TenantHolders, TenantOf

LEMMA AcquireGlobalAccounts ==
  ASSUME CapacityInv, NEW q \in Requests, AcquireGlobal(q)
  PROVE  PermitAccounting'
<1>1. permits[q] = {}
  BY DEF CapacityInv, PermitsFollowControl, PermitsAt, AcquireGlobal, Goto, TaskPc
<1>2. /\ input' = input /\ tenantFree' = tenantFree /\ globalFree' = globalFree - 1
      /\ permits' = [permits EXCEPT ![q] = {"global"}]
  BY DEF AcquireGlobal
<1>3. permits \in [Requests -> SUBSET {"global", "tenant"}] /\ globalFree \in Nat
  BY DEF CapacityInv, TypeOK
<1>4. Holders("global")' = Holders("global") \cup {q} /\ q \notin Holders("global")
  BY <1>1, <1>2, <1>3 DEF Holders
<1>5. Cardinality(Holders("global")') = Cardinality(Holders("global")) + 1
  BY <1>4, HoldersFinite, FS_AddElement
<1>6. ASSUME NEW n \in Tenants PROVE TenantHolders(n)' = TenantHolders(n)
  BY <1>1, <1>2, <1>3 DEF TenantHolders, Holders, TenantOf
<1> QED
  BY <1>2, <1>3, <1>5, <1>6, HoldersFinite, LimitsAssumption DEF CapacityInv, PermitAccounting

LEMMA AcquireTenantAccounts ==
  ASSUME CapacityInv, NEW q \in Requests, AcquireTenant(q)
  PROVE  PermitAccounting'
<1>0. PICK t \in Tenants : t = TenantOf(q)
  BY TenantType DEF CapacityInv
<1>1. permits[q] = {"global"}
  BY DEF CapacityInv, PermitsFollowControl, PermitsAt, AcquireTenant, Goto
<1>2. /\ input' = input /\ globalFree' = globalFree
      /\ tenantFree' = [tenantFree EXCEPT ![t] = tenantFree[t] - 1]
      /\ permits' = [permits EXCEPT ![q] = permits[q] \cup {"tenant"}]
  BY <1>0 DEF AcquireTenant
<1>3. /\ permits \in [Requests -> SUBSET {"global", "tenant"}]
      /\ tenantFree \in [Tenants -> Nat]
  BY DEF CapacityInv, TypeOK
<1>4. Holders("global")' = Holders("global")
  BY <1>1, <1>2, <1>3 DEF Holders
<1>5. TenantHolders(t)' = TenantHolders(t) \cup {q} /\ q \notin TenantHolders(t)
  BY <1>0, <1>1, <1>2, <1>3 DEF TenantHolders, Holders, TenantOf
<1>6. Cardinality(TenantHolders(t)') = Cardinality(TenantHolders(t)) + 1
  BY <1>5, HoldersFinite, FS_AddElement
<1>7. ASSUME NEW n \in Tenants, n # t PROVE TenantHolders(n)' = TenantHolders(n)
  BY <1>0, <1>2, <1>3, <1>7 DEF TenantHolders, Holders, TenantOf
<1>8. ASSUME NEW n \in Tenants
      PROVE  tenantFree'[n] + Cardinality(TenantHolders(n)') = TenantMax
  <2>1. \A m \in Tenants : tenantFree[m] + Cardinality(TenantHolders(m)) = TenantMax
    BY DEF CapacityInv, PermitAccounting
  <2>2. tenantFree'[t] + Cardinality(TenantHolders(t)') = TenantMax
    <3>1. tenantFree'[t] = tenantFree[t] - 1
      BY <1>2, <1>3
    <3>2. tenantFree[t] \in Nat /\ Cardinality(TenantHolders(t)) \in Nat
      BY <1>3, HoldersFinite
    <3> QED
      BY <1>3, <1>6, <2>1, <3>1, <3>2
  <2>3. CASE n # t
    BY <1>2, <1>3, <1>7, <2>1, <2>3
  <2> QED
    BY <2>2, <2>3
<1> QED
  BY <1>2, <1>4, <1>8 DEF CapacityInv, PermitAccounting

LEMMA ReleaseAccounts ==
  ASSUME CapacityInv, NEW q \in Requests, ReleasePermits(q), UNCHANGED input
  PROVE  PermitAccounting'
<1>0. PICK t \in Tenants : t = TenantOf(q)
  BY TenantType DEF CapacityInv
<1> DEFINE og == Owns(q, "global")
           ot == Owns(q, "tenant")
<1>1. /\ permits' = [permits EXCEPT ![q] = {}]
      /\ globalFree' = globalFree + og
      /\ tenantFree' = [tenantFree EXCEPT ![t] = tenantFree[t] + ot]
  BY <1>0 DEF ReleasePermits
<1>2. /\ permits \in [Requests -> SUBSET {"global", "tenant"}]
      /\ globalFree \in Nat /\ tenantFree \in [Tenants -> Nat]
  BY DEF CapacityInv, TypeOK
<1>3. /\ q \in Holders("global") => og = 1
      /\ q \notin Holders("global") => og = 0
      /\ q \in TenantHolders(t) => ot = 1
      /\ q \notin TenantHolders(t) => ot = 0
  BY <1>0 DEF Owns, Holders, TenantHolders
<1> HIDE DEF og, ot
<1>4. Holders("global")' = Holders("global") \ {q}
  BY <1>1, <1>2 DEF Holders
<1>5. TenantHolders(t)' = TenantHolders(t) \ {q}
  BY <1>0, <1>1, <1>2 DEF TenantHolders, Holders, TenantOf
<1>6. globalFree' + Cardinality(Holders("global")') = GlobalMax
  <2>1. Cardinality(Holders("global")') =
          IF q \in Holders("global") THEN Cardinality(Holders("global")) - 1
                                     ELSE Cardinality(Holders("global"))
    BY <1>4, HoldersFinite, FS_RemoveElement
  <2>2. globalFree + Cardinality(Holders("global")) = GlobalMax
    BY DEF CapacityInv, PermitAccounting
  <2> QED
    BY <1>1, <1>2, <1>3, <2>1, <2>2, HoldersFinite
<1>7. Cardinality(TenantHolders(t)') =
        IF q \in TenantHolders(t) THEN Cardinality(TenantHolders(t)) - 1
                                  ELSE Cardinality(TenantHolders(t))
  BY <1>5, HoldersFinite, FS_RemoveElement
<1>8. ASSUME NEW n \in Tenants, n # t PROVE TenantHolders(n)' = TenantHolders(n)
  BY <1>0, <1>1, <1>2, <1>8 DEF TenantHolders, Holders, TenantOf
<1>9. ASSUME NEW n \in Tenants
      PROVE  tenantFree'[n] + Cardinality(TenantHolders(n)') = TenantMax
  <2>1. \A m \in Tenants : tenantFree[m] + Cardinality(TenantHolders(m)) = TenantMax
    BY DEF CapacityInv, PermitAccounting
  <2>2. tenantFree'[t] + Cardinality(TenantHolders(t)') = TenantMax
    <3>1. tenantFree'[t] = tenantFree[t] + ot
      BY <1>1, <1>2
    <3>2. tenantFree[t] \in Nat /\ Cardinality(TenantHolders(t)) \in Nat
      BY <1>2, HoldersFinite
    <3> QED
      BY <1>2, <1>3, <1>7, <2>1, <3>1, <3>2
  <2>3. CASE n # t
    BY <1>1, <1>2, <1>8, <2>1, <2>3
  <2> QED
    BY <2>2, <2>3
<1> QED
  BY <1>6, <1>9 DEF PermitAccounting

LEMMA CrashAccounts == Crash => PermitAccounting'
<1> SUFFICES ASSUME Crash PROVE PermitAccounting'
  OBVIOUS
<1>1. Holders("global")' = {} /\ \A n : TenantHolders(n)' = {}
  BY DEF Crash, Holders, TenantHolders
<1> QED
  BY <1>1, FS_EmptySet, LimitsAssumption DEF Crash, PermitAccounting

-------------------------------------------------------------------------------
(* CapacityInv is inductive. *)

\* A step of q that leaves the semaphores alone.
Quiet(q, from, to) ==
  Goto(q, from, to) /\ UNCHANGED <<permits, input, globalFree, tenantFree>>

LEMMA QuietKeeps ==
  ASSUME CapacityInv, NEW q \in Requests, NEW from, NEW to, Quiet(q, from, to),
         PermitsAt(from) \subseteq PermitsAt(to)
  PROVE  PermitsFollowControl' /\ PermitAccounting'
<1>1. PermitAccounting'
  BY SameHolders DEF Quiet, CapacityInv
<1>2. PermitsFollowControl'
  BY DEF CapacityInv, TypeOK, PermitsFollowControl, Quiet, Goto
<1> QED
  BY <1>1, <1>2

LEMMA ShapesQuiet ==
  ASSUME NEW q, NEW from, NEW to
  PROVE  /\ Proceed(q, from, to) => Quiet(q, from, to)
         /\ \A r : Store(q, from, to, r) => Quiet(q, from, to)
         /\ \A type, data : AppendEvent(q, from, to, type, data) => Quiet(q, from, to)
         /\ \A reason : FailWith(q, from, to, reason) => Quiet(q, from, to)
BY DEF Quiet, Proceed, Store, AppendEvent, FailWith, semaphores

LEMMA FinishKeeps ==
  ASSUME CapacityInv, NEW q \in Requests, NEW to \in OverPc, NEW code, Finish(q, to, code)
  PROVE  PermitsFollowControl' /\ PermitAccounting'
<1>1. PermitAccounting'
  BY ReleaseAccounts DEF Finish
<1>2. PermitsAt(to) = {{}}
  BY DEF PermitsAt, OverPc, TaskPc
<1>3. PermitsFollowControl'
  BY <1>2 DEF CapacityInv, TypeOK, PermitsFollowControl, Finish, ReleasePermits
<1> QED
  BY <1>1, <1>3

LEMMA ReturnKeeps ==
  ASSUME CapacityInv, NEW q \in Requests, NEW from, NEW to \in OverPc, NEW code,
         Return(q, from, to, code)
  PROVE  PermitsFollowControl' /\ PermitAccounting'
BY FinishKeeps DEF Return

LEMMA HandlerKeeps ==
  ASSUME CapacityInv, NEW q \in Requests, Receive(q) \/ HandlerStep(q)
  PROVE  PermitsFollowControl' /\ PermitAccounting'
<1> DEFINE Before == {"idle", "insert", "conflict", "commit", "created", "schedule"}
           Refused == {"rejectMark", "rejectDecision", "rejectEnd", "rejectReply"}
<1>1. CASE RefuseAgent(q) \/ RefuseEmpty(q) \/ SelectExisting(q) \/ RejectReply(q)
  BY <1>1, ReturnKeeps DEF RefuseAgent, RefuseEmpty, SelectExisting, RejectReply, OverPc
<1>2. CASE Accept(q) \/ InsertRun(q) \/ CommitRun(q) \/ AppendRunCreated(q) \/ RefuseGlobal(q)
  <2>1. \E from \in Before, to \in Before \cup Refused : Quiet(q, from, to)
    <3>1. CASE Accept(q) \/ InsertRun(q)
      BY <3>1, ShapesQuiet DEF Accept, InsertRun
    <3>2. CASE CommitRun(q)
      BY <3>2, ShapesQuiet DEF CommitRun
    <3>3. CASE AppendRunCreated(q)
      BY <3>3, ShapesQuiet DEF AppendRunCreated
    <3>4. CASE RefuseGlobal(q)
      BY <3>4, ShapesQuiet DEF RefuseGlobal
    <3> QED
      BY <1>2, <3>1, <3>2, <3>3, <3>4
  <2>2. \A from \in Before, to \in Before \cup Refused : PermitsAt(from) \subseteq PermitsAt(to)
    BY DEF PermitsAt, TaskPc
  <2> QED
    BY <2>1, <2>2, QuietKeeps
<1>3. CASE AcquireGlobal(q)
  <2>1. PermitsFollowControl'
    BY <1>3 DEF CapacityInv, TypeOK, PermitsFollowControl, PermitsAt, AcquireGlobal, Goto
  <2> QED
    BY <1>3, <2>1, AcquireGlobalAccounts
<1>4. CASE AcquireTenant(q)
  <2>1. permits[q] \cup {"tenant"} = {"global", "tenant"}
    BY <1>4 DEF CapacityInv, PermitsFollowControl, PermitsAt, AcquireTenant, Goto
  <2>2. PermitsFollowControl'
    BY <1>4, <2>1
    DEF CapacityInv, TypeOK, PermitsFollowControl, PermitsAt, AcquireTenant, Goto, TaskPc
  <2> QED
    BY <1>4, <2>2, AcquireTenantAccounts
<1>5. CASE RefuseTenant(q)
  <2>1. Quiet(q, "tenant", "rejectMark")
    BY <1>5, ShapesQuiet DEF RefuseTenant
  <2>2. PermitsAt("tenant") \subseteq PermitsAt("rejectMark")
    BY DEF PermitsAt, TaskPc
  <2> QED
    BY <2>1, <2>2, QuietKeeps
<1>6. CASE MarkRejected(q) \/ AppendRejected(q) \/ AppendRejectedEnd(q)
  <2>1. \E from, to \in Refused : Quiet(q, from, to)
    BY <1>6, ShapesQuiet DEF MarkRejected, AppendRejected, AppendRejectedEnd
  <2>2. \A from, to \in Refused : PermitsAt(from) \subseteq PermitsAt(to)
    BY DEF PermitsAt, TaskPc
  <2> QED
    BY <2>1, <2>2, QuietKeeps
<1> QED
  BY <1>1, <1>2, <1>3, <1>4, <1>5, <1>6 DEF Receive, HandlerStep

LEMMA TaskKeeps ==
  ASSUME CapacityInv, NEW q \in Requests, TaskStep(q)
  PROVE  PermitsFollowControl' /\ PermitAccounting'
<1>1. CASE NoToolToCall(q)
  BY <1>1, ReturnKeeps DEF NoToolToCall, OverPc
<1>2. CASE HandlerRefuses(q)
  BY <1>2, ReturnKeeps DEF HandlerRefuses, OverPc
<1>3. CASE Exit(q)
  BY <1>3, ReturnKeeps DEF Exit, OverPc
<1>4. CASE ~NoToolToCall(q) /\ ~HandlerRefuses(q) /\ ~Exit(q)
  <2>1. \E from, to \in TaskPc : Quiet(q, from, to)
    <3> USE DEF TaskPc
    <3>1. CASE BeginExecution(q)
      BY <3>1, ShapesQuiet DEF BeginExecution
    <3>2. CASE AppendAccepted(q) \/ AppendRunStarted(q)
      BY <3>2, ShapesQuiet DEF AppendAccepted, AppendRunStarted
    <3>3. CASE Load(q)
      BY <3>3 DEF Load, Quiet, semaphores
    <3>4. CASE DecideForced(q) \/ DecideTool(q) \/ DecideFinal(q)
      <4>1. PICK t : Decide(q, t)
        BY <3>4 DEF DecideForced, DecideTool, DecideFinal
      <4> QED
        BY <4>1 DEF Decide, Quiet, semaphores
    <3>5. CASE AppendLlmCall(q)
      BY <3>5, ShapesQuiet DEF AppendLlmCall
    <3>6. CASE ToolNotFound(q) \/ ToolIsDeleted(q) \/ ToolIsActive(q)
      BY <3>6, ShapesQuiet DEF ToolNotFound, ToolIsDeleted, ToolIsActive
    <3>7. CASE ToolNotBound(q) \/ SchemaRefuses(q) \/ ExecuteTool(q)
      BY <3>7, ShapesQuiet DEF ToolNotBound, SchemaRefuses, ExecuteTool
    <3>8. CASE AppendToolExec(q)
      BY <3>8 DEF AppendToolExec, Quiet, semaphores
    <3>9. CASE FinalizeSuccess(q) \/ AppendSuccessEnd(q)
      BY <3>9, ShapesQuiet DEF FinalizeSuccess, AppendSuccessEnd
    <3>10. CASE FinalizeFailed(q) \/ AppendFailedEnd(q)
      BY <3>10, ShapesQuiet DEF FinalizeFailed, AppendFailedEnd
    <3> QED
      BY <1>4, <3>1, <3>2, <3>3, <3>4, <3>5, <3>6, <3>7, <3>8, <3>9, <3>10 DEF TaskStep
  <2>2. \A from, to \in TaskPc : PermitsAt(from) = PermitsAt(to)
    BY DEF PermitsAt, TaskPc
  <2> QED
    BY <2>1, <2>2, QuietKeeps
<1> QED
  BY <1>1, <1>2, <1>3, <1>4

LEMMA CapacityInit == Init => CapacityInv
<1> SUFFICES ASSUME Init PROVE CapacityInv
  OBVIOUS
<1>1. Holders("global") = {} /\ \A n : TenantHolders(n) = {}
  BY DEF Init, Holders, TenantHolders
<1>2. PermitAccounting
  <2>1. globalFree = GlobalMax /\ tenantFree = [n \in Tenants |-> TenantMax]
    BY DEF Init
  <2>2. Cardinality({}) = 0
    BY FS_EmptySet
  <2> QED
    BY <1>1, <2>1, <2>2, LimitsAssumption DEF PermitAccounting
<1>3. PermitsFollowControl
  BY DEF Init, PermitsFollowControl, PermitsAt, TaskPc
<1> QED
  BY <1>2, <1>3, InitType DEF CapacityInv

LEMMA CapacityNext == CapacityInv /\ [Next]_vars => CapacityInv'
<1> SUFFICES ASSUME CapacityInv, [Next]_vars PROVE PermitsFollowControl' /\ PermitAccounting'
  BY NextType DEF CapacityInv
<1>1. CASE \E q \in Requests : Receive(q) \/ HandlerStep(q)
  BY <1>1, HandlerKeeps
<1>2. CASE \E q \in Requests : TaskStep(q)
  BY <1>2, TaskKeeps
<1>3. CASE \E q \in Requests : DbError(q) \/ Disconnect(q)
  <2>1. PICK q \in Requests : \E to \in OverPc : \E code : Finish(q, to, code)
    BY <1>3 DEF DbError, Disconnect, OverPc
  <2> QED
    BY <2>1, FinishKeeps
<1>4. CASE \E t \in Tools : CreateTool(t) \/ DeleteTool(t)
  <2>1. UNCHANGED <<permits, input, globalFree, tenantFree, pc>>
    BY <1>4 DEF CreateTool, DeleteTool, SetTool, semaphores
  <2> QED
    BY <2>1, SameHolders DEF CapacityInv, PermitsFollowControl
<1>5. CASE Crash
  <2>1. PermitsFollowControl'
    BY <1>5
    DEF Crash, CapacityInv, TypeOK, PcType, ActivePc, OverPc, PermitsFollowControl, PermitsAt,
        HandlerPc, TaskPc
  <2> QED
    BY <1>5, <2>1, CrashAccounts
<1>6. CASE UNCHANGED vars
  <2>1. UNCHANGED <<permits, input, globalFree, tenantFree, pc>>
    BY <1>6 DEF vars
  <2> QED
    BY <2>1, SameHolders DEF CapacityInv, PermitsFollowControl
<1>7. CASE \E q \in Requests : AuthorizeError(q)
  <2>1. PICK q \in Requests : \E from \in TaskPc : Quiet(q, from, "fail")
    BY <1>7 DEF AuthorizeError, Quiet, Goto, semaphores, TaskPc
  <2>2. \A from \in TaskPc : PermitsAt(from) = PermitsAt("fail")
    BY DEF PermitsAt, TaskPc
  <2> QED
    BY <2>1, <2>2, QuietKeeps
<1> QED
  BY <1>1, <1>2, <1>3, <1>4, <1>5, <1>6, <1>7 DEF Next, Terminating

\* The permits of the global and of every tenant's semaphore are free or held
\* by a request, none is lost and none is returned twice.
THEOREM PermitsAccounted == Spec => []PermitAccounting
<1>1. Init => CapacityInv
  BY CapacityInit
<1>2. CapacityInv /\ [Next]_vars => CapacityInv'
  BY CapacityNext
<1>3. CapacityInv => PermitAccounting
  BY DEF CapacityInv
<1> QED
  BY <1>1, <1>2, <1>3, PTL DEF Spec

LEMMA CapacityBounds == CapacityInv => ConcurrencyBound
<1> SUFFICES ASSUME CapacityInv PROVE ConcurrencyBound
  OBVIOUS
<1>1. \A q \in Executing : permits[q] = {"global", "tenant"}
  BY DEF CapacityInv, PermitsFollowControl, PermitsAt, Executing, TaskPc
<1>2. Cardinality(Executing) <= GlobalMax
  <2>1. Executing \in SUBSET Holders("global")
    BY <1>1 DEF Executing, Holders
  <2>2. Executing \in SUBSET Requests
    BY DEF Executing
  <2>3. Cardinality(Executing) <= Cardinality(Holders("global"))
    BY <2>1, HoldersFinite, FS_Subset
  <2>4. Cardinality(Executing) \in Nat
    BY <2>2, FiniteAssumption, FS_Subset, FS_CardinalityType
  <2> QED
    BY <2>3, <2>4, HoldersFinite, LimitsAssumption DEF CapacityInv, TypeOK, PermitAccounting
<1>3. ASSUME NEW n \in Tenants
      PROVE  Cardinality({q \in Executing : TenantOf(q) = n}) <= TenantMax
  <2> DEFINE E == {q \in Executing : TenantOf(q) = n}
  <2>1. E \in SUBSET TenantHolders(n)
    BY <1>1 DEF Executing, Holders, TenantHolders
  <2>2. E \in SUBSET Requests
    BY DEF Executing
  <2>3. Cardinality(E) <= Cardinality(TenantHolders(n))
    BY <2>1, HoldersFinite, FS_Subset
  <2>4. Cardinality(E) \in Nat
    BY <2>2, FiniteAssumption, FS_Subset, FS_CardinalityType
  <2>5. tenantFree[n] \in Nat /\ tenantFree[n] + Cardinality(TenantHolders(n)) = TenantMax
    BY DEF CapacityInv, TypeOK, PermitAccounting
  <2> HIDE DEF E
  <2>6. Cardinality(E) <= TenantMax
    BY <2>3, <2>4, <2>5, HoldersFinite, LimitsAssumption
  <2> QED
    BY <2>6 DEF E
<1> QED
  BY <1>2, <1>3 DEF ConcurrencyBound

\* Never more runs execute than the global limit, nor more of one tenant than
\* its limit: every executing task holds one permit of each kind.
THEOREM ConcurrencyBounded == Spec => []ConcurrencyBound
<1>1. Init => CapacityInv
  BY CapacityInit
<1>2. CapacityInv /\ [Next]_vars => CapacityInv'
  BY CapacityNext
<1>3. CapacityInv => ConcurrencyBound
  BY CapacityBounds
<1> QED
  BY <1>1, <1>2, <1>3, PTL DEF Spec
===============================================================================
