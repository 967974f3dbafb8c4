\* Two roots and two ranges.
SPECIFICATION Spec
CONSTANTS
  Mib      <- MCMib
  Requests <- MCIndexRequests
  Replies  <- WholeRowReplies
  Faults   = {}
INVARIANT RootIndexNamesRoot
