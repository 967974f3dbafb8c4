\* One session at a time, as get and walk of __init__.py use it, and a peer that
\* answers anything.
SPECIFICATION ManagedFairSpec
CONSTANTS
  ManagerConfig <- MCManagerConfig
  Submissions <- MCSerial
  MaxReads = 26
  Answerable <- MCAnswerable
  Requests <- MCRequests
  Replies <- MCAnyReplies
  Faults  <- MCFaults
INVARIANTS
  MaxReadsSuffice
  NeverSpins
PROPERTIES
  ImplementsManager
  RunReturns
  AddedIsAnswered
