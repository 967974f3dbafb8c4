\* A walk under a limit of no bindings, which Config accepts.
SPECIFICATION Spec
CONSTANTS
  Mib      <- MCMib
  Requests <- MCZeroLimitRequests
  Replies  <- WholeRowReplies
  Faults   = {}
INVARIANT RequestsAreSurvived
