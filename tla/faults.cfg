CONSTANTS
  Requests = {r1, r2}
  Tenants <- MCTenants
  Agents = {"search", "rival"}
  Tools = {"lookup", "theirs"}
  Keys = {"k1", "k2"}
  NoKey = NoKey
  NilTool = "nil"
  FinalAnswer = "final_answer"
  AgentTenant <- MCAgentTenant
  ToolTenant <- MCToolTenant
  Bindings <- MCBindings
  MaxIterations <- MCMaxIterations
  ToolKind <- MCToolKind
  Inputs <- FaultInputs
  GlobalMax = 2
  TenantMax = 1
  FaultKinds = {"crash", "disconnect", "dberror"}
  MaxFaults = 2
SPECIFICATION FairSpec
PROPERTIES
  PermitsReturned
  RequestEnds
  RunSettles
