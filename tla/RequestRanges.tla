------------------------------- MODULE RequestRanges -------------------------------
(*******************************************************************************)
(* A request on its way into a manager's queue: get or walk convert what the   *)
(* caller wrote, the constructor of SnmpRequest refuses it or optimizes its    *)
(* ranges, and whoever builds the request again from its parts - add_request,  *)
(* or Python when a request is pickled - runs the constructor on its own       *)
(* result.                                                                     *)
(*******************************************************************************)
EXTENDS CollectionHeads, Facade

CONSTANTS
  GivenRequests,   \* the requests callers may have in mind
  Probes           \* the index values the coverage of the ranges is probed with

Parts == [type : {"GET", "WALK"}, oids : Seq(Oid), ranges : Seq(OidRange)]

ASSUME GivenRequestsAssumption == GivenRequests \subseteq Parts
ASSUME ProbesAssumption == Probes \subseteq Oid

VARIABLES
  given,     \* the request the caller has in mind
  request,   \* the request the code holds
  stage      \* "given", "called", "built", "queued", or "refused" with an exception

vars == <<given, request, stage>>

Init ==
  /\ given \in GivenRequests
  /\ request = [given EXCEPT !.oids = <<>>, !.ranges = <<>>]
  /\ stage = "given"

ReversedRange(ranges) == \E i \in DOMAIN ranges : RangeThrows(ranges[i].start, ranges[i].stop)

\* get and walk up to the constructor of SnmpRequest.  Every range is built on
\* the way, and an ObjectIdentityRange refuses ends in the wrong order.
Call ==
  /\ stage = "given"
  /\ \E style \in Styles :
       LET oids   == [i \in DOMAIN given.oids |->
                        ToObjectIdentity(OidArgument(style, given.oids[i]))]
           ranges == [i \in DOMAIN given.ranges |->
                        ToObjectIdentityRange(RangeArgument(style, given.ranges[i]))]
       IN  /\ request' = [request EXCEPT !.oids = oids, !.ranges = ranges]
           /\ stage' = IF ReversedRange(ranges) THEN "refused" ELSE "called"
  /\ UNCHANGED given

\* The constructor of SnmpRequest.
Construct(to) ==
  /\ IF RequestThrows(request.type, request.oids, request.ranges)
     THEN /\ stage' = "refused"
          /\ UNCHANGED request
     ELSE /\ stage' = to
          /\ request' = [request EXCEPT !.ranges = OptimizeRanges(request.type, @)]
  /\ UNCHANGED given

Build   == stage = "called" /\ Construct("built")
Enqueue == stage = "built" /\ Construct("queued")

\* A request is pickled and read back; its ranges are built again, too.
Pickle ==
  /\ stage \in {"built", "queued"}
  /\ \/ ReversedRange(request.ranges) /\ stage' = "refused" /\ UNCHANGED <<given, request>>
     \/ ~ReversedRange(request.ranges) /\ Construct(stage)

Next == Call \/ Build \/ Enqueue \/ Pickle

Spec == Init /\ [][Next]_vars

--------------------------------------------------------------------------------

Held == stage \in {"built", "queued"}

\* operator< is a strict weak order on the ranges (and only equal ranges are
\* equivalent, so that unique removes every duplicate): without it std::sort is
\* undefined, and the loop behind it relies on the larger range coming first.
RangesOrdered ==
  \A i, j, k \in DOMAIN given.ranges :
    LET a == given.ranges[i]  b == given.ranges[j]  c == given.ranges[k]
    IN  /\ ~RangeLT(a, a)
        /\ a = b \/ (RangeLT(a, b) <=> ~RangeLT(b, a))
        /\ RangeLT(a, b) /\ RangeLT(b, c) => RangeLT(a, c)

Between(range, index) ==
  /\ OidLE(range.start, index)
  /\ range.stop = <<>> \/ OidLE(index, range.stop)

\* Between their bounds the ranges cover after optimization what they covered
\* before, whatever their order and overlaps.
IntervalsKept ==
  Held => \A index \in Probes :
    (given.ranges = <<>> \/ \E i \in DOMAIN given.ranges : Between(given.ranges[i], index))
      <=> (request.ranges = <<>> \/ \E i \in DOMAIN request.ranges : Between(request.ranges[i], index))

\* What the heads of a walk take below a root: what lies between the bounds of
\* their ranges, and what lies below their stops.
Taken(ranges, root, index) ==
  \E range \in IF ranges = <<>> THEN {None} ELSE {Some(ranges[i]) : i \in DOMAIN ranges} :
    Accepts(Activate(NewHead(0, root, range)), "WALK", root \o index)

\* One stop lies below another.
NestedStops(ranges) ==
  \E i, j \in DOMAIN ranges :
    /\ ranges[i].stop \notin {<<>>, ranges[j].stop}
    /\ IsRootOf(ranges[i].stop, ranges[j].stop)

\* The instances a walk takes with the optimized ranges are those it would have
\* taken with the ranges as the caller gave them.  Stops are roots of what is
\* taken, but merged as plain OIDs, so that this holds as long as no stop lies
\* below another.
TakesKept ==
  Held /\ given.type = "WALK" /\ ~NestedStops(given.ranges) =>
    \A i \in DOMAIN given.oids, index \in Probes :
      Taken(given.ranges, given.oids[i], index) <=> Taken(request.ranges, given.oids[i], index)

\* The optimized ranges of a walk come in order and do not touch, so that no two
\* heads below one root are after the same OID between their bounds.
RangesApart ==
  Held /\ given.type = "WALK" =>
    \A i, j \in DOMAIN request.ranges :
      i < j => /\ request.ranges[i].stop # <<>>
               /\ OidLT(request.ranges[i].stop, request.ranges[j].start)

\* However the caller writes the OIDs and ranges of a request - and what str()
\* prints is one of the ways - get and walk read what was meant.
SpellingKept ==
  [][ stage = "given" => request' = given ]_vars

\* A request that was built once is built again from its own parts, in add_request
\* and whenever it is pickled, without an exception and without a change:
\* optimize_ranges is idempotent and accepts what it has made.
RebuildKeepsRequest ==
  [][ Held => stage' # "refused" /\ request' = request ]_vars

================================================================================
