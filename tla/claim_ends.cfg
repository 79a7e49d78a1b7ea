CONSTANTS
  Requests = {r1}
  Tenants <- MCTenants
  Agents = {"broken"}
  Tools = {"nonstatic"}
  Keys = {"k1", "k2"}
  NoKey = NoKey
  NilTool = "nil"
  FinalAnswer = "final_answer"
  AgentTenant <- MCAgentTenant
  ToolTenant <- MCToolTenant
  Bindings <- MCBindings
  MaxIterations <- MCMaxIterations
  ToolKind <- MCToolKind
  Inputs <- BrokenInputs
  GlobalMax = 2
  TenantMax = 2
  FaultKinds = {}
  MaxFaults = 0
SPECIFICATION Spec
INVARIANT
  EveryRunEnds
