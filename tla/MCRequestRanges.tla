------------------------------ MODULE MCRequestRanges ------------------------------
(* Small instances of RequestRanges for TLC. *)
EXTENDS RequestRanges

MCRequests(types, roots, givenRanges) ==
  [type : types, oids : roots, ranges : givenRanges]
MCRoot == << <<1>> >>

\* Every index over two arcs and up to two places, and the ranges between them.
MCIndexes == UNION { [1 .. n -> {1, 2}] : n \in 0 .. 2 }
MCRanges == { range \in [start : MCIndexes, stop : MCIndexes] :
                ~RangeThrows(range.start, range.stop) }
MCUpToTwo == UNION { [1 .. n -> MCRanges] : n \in 0 .. 2 }

\* Three ranges at a time, over single places.
MCShortRanges == { range \in [start : {<<>>, <<1>>, <<1, 2>>, <<2>>, <<3>>},
                              stop : {<<>>, <<1>>, <<1, 2>>, <<2>>, <<3>>}] :
                     ~RangeThrows(range.start, range.stop) }

\* Requests that are refused: no OID, OIDs below one another, reversed ranges.
MCAnyRoots  == { <<>>, << <<>> >>, << <<1, 3>>, <<2>> >>, << <<2>>, <<2>> >>,
                 << <<2, 1>>, <<1>>, <<2>> >> }
MCAnyRanges == UNION { [1 .. n -> [start : {<<>>, <<1>>, <<2>>}, stop : {<<>>, <<1>>}]] :
                         n \in 0 .. 1 }

MCGiven ==
  MCRequests({"GET", "WALK"}, {MCRoot}, MCUpToTwo)
    \cup MCRequests({"WALK"}, {MCRoot}, [1 .. 3 -> MCShortRanges])
    \cup MCRequests({"GET", "WALK"}, MCAnyRoots, MCAnyRanges)

\* The probes go on behind every bound.
MCProbes == UNION { [1 .. n -> {1, 2, 3}] : n \in 1 .. 3 }

================================================================================
