CONSTANTS
  c1 = c1
  c2 = c2
  r1 = r1
  r2 = r2
  Clients = {c1, c2}
  Runs = {r1, r2, r3, r4}
  Unscoped = Unscoped
  RunScope <- MCRunScope
  Scopes = {"k"}
  ScopeOf <- MCScopeOf
  Timeout <- MCTimeout
  Poll <- MCPoll
  MaxCommands = 4
  MaxFaults = 2
  None = None
SPECIFICATION FairSpec
INVARIANTS
  TypeOK
  SameKeySameRun
  WaitedIsFinal
  NoFalseTimeout
  OneLateRequest
PROPERTIES
  WaitEnds
