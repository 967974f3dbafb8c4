\* A GETBULK reply that ends within its first repetition.
SPECIFICATION Spec
CONSTANTS
  Mib      <- MCMib
  Requests <- MCShortRequests
  Replies  <- ShortReplies
  Faults   = {}
INVARIANT WalkComplete
