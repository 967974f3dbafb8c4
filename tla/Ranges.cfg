\* Every pair of ranges over two places, triples over fewer, and requests that
\* are refused.
SPECIFICATION Spec
CONSTANTS
  GivenRequests <- MCGiven
  Probes        <- MCProbes
INVARIANTS
  RangesOrdered
  IntervalsKept
  TakesKept
  RangesApart
PROPERTIES
  SpellingKept
  RebuildKeepsRequest
CHECK_DEADLOCK FALSE
