CONSTANTS
  Requests = {r1, r2, r3}
  Tenants <- MCTenants
  Agents = {"brief", "rival"}
  Tools = {"lookup", "theirs"}
  Keys = {"k1", "k2"}
  NoKey = NoKey
  NilTool = "nil"
  FinalAnswer = "final_answer"
  AgentTenant <- MCAgentTenant
  ToolTenant <- MCToolTenant
  Bindings <- MCBindings
  MaxIterations <- MCMaxIterations
  ToolKind <- MCToolKind
  Inputs <- ShareInputs
  GlobalMax = 2
  TenantMax = 1
  FaultKinds = {}
  MaxFaults = 0
SPECIFICATION Spec
PROPERTY
  RefusedTakesNoCapacity
