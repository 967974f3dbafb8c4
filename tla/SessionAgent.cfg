\* A session against an agent that answers every request in whole rows, while any
\* call may fail: no retries, no ranges.  The platform is the 64-bit one the code
\* builds on.
SPECIFICATION Spec
CONSTANTS
  Mib      <- MCMib
  Requests <- MCAgentRequests
  Replies  <- WholeRowReplies
  Faults   <- AllFaults
  WordSize  = 8
  OctetSize = 8
  ValueOf    <- MCValueOf
  RequestIds <- MCRequestIds
INVARIANTS
  WalkComplete
  GetAnswered
  OnlyValuesCollected
  ResponseReadable
  ConsumerReassembles
