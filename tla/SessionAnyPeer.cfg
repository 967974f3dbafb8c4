\* A session against a peer that may answer anything, with resends and every
\* fault of net-snmp.
SPECIFICATION FairSpec
CONSTANTS
  Mib      <- MCMib
  Requests <- MCAnyRequests
  Replies  <- MCAnyReplies
  Faults   <- AllFaults
INVARIANTS
  TypeOK
  OneInFlight
  HeadsMatchRequest
  PduWithinLimit
  ResultsUnderRoot
  WalkIncreasing
PROPERTIES
  OnlyGrows
  NoHeadLostSilently
  AnswerAdvances
  EventuallyOver
  ImplementsLifecycle
