------------------------------- MODULE SnmpRequests -------------------------------
(*******************************************************************************)
(* The values a caller builds (types.hpp, types.cpp): Config, ranges of OIDs   *)
(* and SnmpRequest, with what their constructors refuse and what they change.  *)
(* Host, community string and request ID are carried along unread and left out.*)
(*******************************************************************************)
EXTENDS Oids

--------------------------------------------------------------------------------
(* Config *)

\* What Python hands over: signed retries and timeout, unsigned maxima.
Config == [ retries : Optional(Int),
            timeout : Optional(Int),
            max_response_var_binds_per_pdu : Optional(Nat),
            max_async_sessions : Optional(Nat) ]

\* The settings of a manager and of the requests in its queue: nothing missing.
Settings == [ retries : Nat,
              timeout : Nat,
              max_response_var_binds_per_pdu : Nat,
              max_async_sessions : Nat \ {0} ]

\* The check of max_response_var_binds_per_pdu is an unsigned value < 0.
ConfigThrows(config) ==
  \/ ValueOr(config.retries, 0) < 0
  \/ ValueOr(config.timeout, 0) < 0
  \/ ValueOr(config.max_async_sessions, 1) < 1

DefaultSettings == [ retries |-> 3, timeout |-> 3,
                     max_response_var_binds_per_pdu |-> 10,
                     max_async_sessions |-> 10 ]

\* settings << config, for a config that may be missing altogether.
Merge(settings, config) ==
  IF config = None THEN settings
  ELSE [setting \in DOMAIN settings |-> ValueOr(config[1][setting], settings[setting])]

--------------------------------------------------------------------------------
(* ObjectIdentityRange *)

\* An empty start or stop is no bound.
OidRange == [start : Oid, stop : Oid]

RangeThrows(start, stop) ==
  start # <<>> /\ stop # <<>> /\ OidLT(stop, start)

\* Mutant of RangeLT: the empty stop of rhs is compared like any other.
RangeLTUnchecked(lhs, rhs) ==
  IF lhs.start = <<>> THEN
    \/ rhs.start # <<>>
    \/ lhs.stop = <<>> /\ rhs.stop # <<>>
    \/ lhs.stop # <<>> /\ OidLT(rhs.stop, lhs.stop)
  ELSE
    /\ rhs.start # <<>>
    /\ \/ OidLT(lhs.start, rhs.start)
       \/ lhs.start = rhs.start /\ (lhs.stop = <<>> \/ OidLT(rhs.stop, lhs.stop))

\* operator<: by the start, and the larger range first for the same start.
RangeLT(lhs, rhs) ==
  IF lhs.start = <<>> THEN
    \/ rhs.start # <<>>
    \/ lhs.stop = <<>> /\ rhs.stop # <<>>
    \/ lhs.stop # <<>> /\ rhs.stop # <<>> /\ OidLT(rhs.stop, lhs.stop)
  ELSE
    /\ rhs.start # <<>>
    /\ \/ OidLT(lhs.start, rhs.start)
       \/ /\ lhs.start = rhs.start
          /\ rhs.stop # <<>>
          /\ lhs.stop = <<>> \/ OidLT(rhs.stop, lhs.stop)

\* sort and unique: each range once, by operator<.
SortedRanges(ranges) ==
  CHOOSE sorted \in [1 .. Cardinality(ToSet(ranges)) -> ToSet(ranges)] :
    \A i, j \in DOMAIN sorted : i < j => RangeLT(sorted[i], sorted[j])

\* Mutant of LaterStop: the stop of the range that is swallowed.
LastStop(a, b) == b

\* The wider of two stops.
LaterStop(a, b) == IF b = <<>> THEN b ELSE IF OidLE(b, a) THEN a ELSE b

\* Mutant of MergeRange: ranges that touch are kept apart.
MergeRangeTouching(merged, range) ==
  IF merged = <<>> THEN <<range>>
  ELSE LET back == Last(merged)
       IN  IF back.stop = <<>> \/ back.start = range.start THEN merged
           ELSE IF OidLT(range.start, back.stop)
           THEN Append(Front(merged),
                       [start |-> back.start, stop |-> LaterStop(back.stop, range.stop)])
           ELSE Append(merged, range)

\* Mutant of MergeRange: the merged range is pushed behind its first part.
MergeRangePush(merged, range) ==
  IF merged = <<>> THEN <<range>>
  ELSE LET back == Last(merged)
       IN  IF back.stop = <<>> \/ back.start = range.start THEN merged
           ELSE IF OidLE(range.start, back.stop)
           THEN Append(merged,
                       [start |-> back.start, stop |-> LaterStop(back.stop, range.stop)])
           ELSE Append(merged, range)

\* One pass of the loop of optimize_ranges over the sorted ranges: swallow what
\* starts inside the last range, push what starts beyond it.
MergeRange(merged, range) ==
  IF merged = <<>> THEN <<range>>
  ELSE LET back == Last(merged)
       IN  IF back.stop = <<>> \/ back.start = range.start THEN merged
           ELSE IF OidLE(range.start, back.stop)
           THEN Append(Front(merged),
                       [start |-> back.start, stop |-> LaterStop(back.stop, range.stop)])
           ELSE Append(merged, range)

RangeLoop == INSTANCE Loop WITH Step <- MergeRange

\* A get takes points only.
RangesThrow(type, ranges) ==
  /\ type = "GET"
  /\ \E i \in DOMAIN ranges :
       ranges[i].start # ranges[i].stop \/ ranges[i].start = <<>>

Everything == [start |-> <<>>, stop |-> <<>>]

\* The ranges a request keeps; <<>> is std::nullopt, no restriction.
OptimizeRanges(type, ranges) ==
  LET merged == RangeLoop!Run(<<>>, SortedRanges(ranges))
  IN  IF type = "GET" \/ ranges = <<>> THEN SortedRanges(ranges)
      ELSE IF Head(merged) = Everything THEN <<>> ELSE merged

--------------------------------------------------------------------------------
(* SnmpRequest *)

\* test_ambiguous_root_oids: two of the root OIDs lie below one another.
AmbiguousRootOids(oids) ==
  \E i, j \in DOMAIN oids :
    i < j /\ (IsRootOf(oids[i], oids[j]) \/ IsRootOf(oids[j], oids[i]))

SubmittedRequest == [ type    : {"GET", "WALK"},
                      version : {"V1", "V2C"},
                      oids    : Seq(Oid),
                      ranges  : Seq(OidRange),
                      config  : Optional(Config) ]

Request == [ type    : {"GET", "WALK"},
             version : {"V1", "V2C"},
             oids    : Seq(Oid),
             ranges  : Seq(OidRange),
             config  : Settings ]

RequestThrows(type, oids, ranges) ==
  \/ RangesThrow(type, ranges)
  \/ oids = <<>>
  \/ AmbiguousRootOids(oids)

\* A request as its constructor leaves it.
WellFormed(request) ==
  /\ ~RequestThrows(request.type, request.oids, request.ranges)
  /\ request.ranges = OptimizeRanges(request.type, request.ranges)

================================================================================
