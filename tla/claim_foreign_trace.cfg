CONSTANTS
  q1 = q1
  q2 = q2
  Requests = {q1}
  Seeds <- MCSeeds
  InitialTenants <- MCTenants
  InitialKeys <- MCKeys
  InitialTools <- MCTools
  InitialAgents <- MCAgents
  InitialBindings <- MCBindings
  InitialRuns <- MCRuns
  Names = {"x", "lookup", "theirs", "clerk"}
  NoName = NoName
  Prefixes = {"p1", "p2", "p3"}
  None = None
  Inputs <- ForeignInputs
  MaxFaults = 0
SPECIFICATION Spec
INVARIANT
  ForeignTraceFails
