\* A range that starts beyond the first PDU of the walk.
SPECIFICATION Spec
CONSTANTS
  Mib      <- MCMib
  Requests <- MCLateRequests
  Replies  <- WholeRowReplies
  Faults   = {}
INVARIANT WalkComplete
