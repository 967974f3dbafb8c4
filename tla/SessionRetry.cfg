\* The peer is late once and the PDU is sent again.
SPECIFICATION Spec
CONSTANTS
  Mib      <- MCMib
  Requests <- MCRetryRequests
  Replies  <- WholeRowReplies
  Faults   = {}
INVARIANT RetryIsNotTheEnd
