CONSTANTS
  Requests = {r1}
  Tenants <- MCTenants
  Agents = {"search", "brief", "rival", "picky", "broken", "bare"}
  Tools = {"lookup", "spare", "loose", "theirs", "rejects", "malformed", "once", "nonstatic"}
  Keys = {"k1", "k2"}
  NoKey = NoKey
  NilTool = "nil"
  FinalAnswer = "final_answer"
  AgentTenant <- MCAgentTenant
  ToolTenant <- MCToolTenant
  Bindings <- MCBindings
  MaxIterations <- MCMaxIterations
  ToolKind <- MCToolKind
  Inputs <- LoopInputs
  GlobalMax = 2
  TenantMax = 2
  FaultKinds = {"dberror"}
  MaxFaults = 1
SPECIFICATION Spec
INVARIANTS
  LegalTrace
  ToolExecAuthorised
  MockOutcome
PROPERTIES
  DeletedToolUnused
  BoundedChain
