CONSTANTS
  Requests = {r1, r2, r3}
  Tenants <- MCTenants
  Agents = {"brief", "rival"}
  Tools = {"lookup"}
  Keys = {"k1", "k2"}
  NoKey = NoKey
  NilTool = "nil"
  FinalAnswer = "final_answer"
  AgentTenant <- MCAgentTenant
  ToolTenant <- MCToolTenant
  Bindings <- MCBindings
  MaxIterations <- MCMaxIterations
  ToolKind <- MCToolKind
  Inputs <- AdmissionInputs
  GlobalMax = 2
  TenantMax = 1
  FaultKinds = {"crash", "disconnect", "dberror"}
  MaxFaults = 1
SPECIFICATION Spec
SYMMETRY Symmetry
INVARIANTS
  TypeOK
  PermitAccounting
  ConcurrencyBound
  ResponseTruth
  RowCoherent
  DoneIsSettled
  IdempotentScope
PROPERTIES
  FinishedRowImmutable
  ImplementsLifecycle
