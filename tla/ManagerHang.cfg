\* Two sessions at a time: the second may close before the first.
SPECIFICATION FairSpec
CONSTANTS
  ManagerConfig <- MCManagerConfig
  Submissions <- MCPair
  MaxReads = 2
PROPERTY RunReturns
