CONSTANTS
  Requests = {r1}
  Tenants <- MCTenants
  Agents = {"brief"}
  Tools = {"lookup"}
  Keys = {"k1", "k2"}
  NoKey = NoKey
  NilTool = "nil"
  FinalAnswer = "final_answer"
  AgentTenant <- MCAgentTenant
  ToolTenant <- MCToolTenant
  Bindings <- MCBindings
  MaxIterations <- MCMaxIterations
  ToolKind <- MCToolKind
  Inputs <- BriefInputs
  GlobalMax = 2
  TenantMax = 2
  FaultKinds = {}
  MaxFaults = 0
SPECIFICATION Spec
PROPERTY
  DeletedNotExecuted
