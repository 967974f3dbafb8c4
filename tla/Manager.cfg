\* Requests under different limits: what run may never do.
SPECIFICATION Spec
CONSTANTS
  ManagerConfig <- MCManagerConfig
  Submissions <- MCMixed
  MaxReads = 3
INVARIANTS
  TypeOK
  ConcurrencyLimit
  EachRequestOnce
  FirstComeFirstServed
  NoneMeansEmpty
PROPERTY ImplementsQueue
