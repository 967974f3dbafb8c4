-------------------------------- MODULE MCSession --------------------------------
(* Small instances of a session and an agent for TLC. *)
EXTENDS SessionAgent

\* Two short tables and a neighbour behind them that nobody asks for.
MCMib == { <<1, 1>>, <<1, 2>>, <<1, 2, 1>>, <<2, 1>>, <<2, 2>>, <<3, 1>> }

MCRequest(type, version, oids, ranges, retries, max) ==
  [ type |-> type, version |-> version, oids |-> oids, ranges |-> ranges,
    config |-> [ retries |-> retries, timeout |-> 3,
                 max_response_var_binds_per_pdu |-> max,
                 max_async_sessions |-> 1 ] ]

\* Walks of one table, both tables and one that does not exist, in either order.
MCWalkRoots == { << <<1>> >>, << <<1>>, <<2>> >>, << <<2>>, <<9>>, <<1>> >>,
                 << <<>> >>, << <<1, 2>> >> }
MCGetOids == { << <<1, 1>> >>, << <<1, 1>>, <<1, 3>> >>,
               << <<2, 1>>, <<1, 1>>, <<1, 2, 1>> >>, << <<9>>, <<2, 3>> >> }
MCMax == 1 .. 6

MCAgentRequests ==
  { MCRequest("WALK", version, oids, <<>>, 0, max) :
      version \in {"V1", "V2C"}, oids \in MCWalkRoots, max \in MCMax }
  \cup
  { MCRequest("GET", version, oids, <<>>, 0, max) :
      version \in {"V1", "V2C"}, oids \in MCGetOids, max \in MCMax }

\* A peer that answers anything: any bindings up to length 2 over a few OIDs in
\* any order, error replies and replies that are no responses.
MCAnyBindings ==
  LET any == [oid : {<<1>>, <<1, 1>>, <<1, 2>>, <<2, 1>>, <<3>>},
              type : {"VALUE", "END_OF_MIB_VIEW"}]
  IN  UNION { [1 .. n -> any] : n \in 0 .. 2 }
MCAnyReplies(pdu) ==
  { Reply(bindings) : bindings \in MCAnyBindings }
  \cup { ErrorReply(pdu, index) : index \in {0, 1} }
  \cup { [Reply(<<>>) EXCEPT !.command = "REPORT"] }

MCPoint(s) == [start |-> s, stop |-> s]
MCRanges == { <<>>, << MCPoint(<<1>>) >>,
              << [start |-> <<>>, stop |-> <<1>>],
                 [start |-> <<2>>, stop |-> <<2, 5>>] >> }
MCAnyRequests ==
  { MCRequest("WALK", version, oids, ranges, retries, max) :
      version \in {"V1", "V2C"}, oids \in {<< <<1>> >>, << <<1>>, <<2>> >>},
      ranges \in MCRanges, retries \in 0 .. 1, max \in {1, 5} }
  \cup
  { MCRequest("GET", "V1", oids, ranges, retries, max) :
      oids \in {<< <<1, 1>> >>, << <<1>>, <<2>> >>},
      ranges \in {<<>>, << MCPoint(<<1>>) >>},
      retries \in 0 .. 1, max \in {1, 5} }

AllFaults == { "open", "create_pdu", "add_var", "async_send", "null_reply",
               "send_failed", "disconnect" }

--------------------------------------------------------------------------------
(* The instances behind the findings *)

MCRetryRequests  == {MCRequest("WALK", "V2C", << <<1>>, <<2>> >>, <<>>, 1, 4)}
MCShortRequests  == {MCRequest("WALK", "V2C", << <<1>>, <<2>> >>, <<>>, 0, 4)}
MCZeroLimitRequests == {MCRequest("WALK", "V2C", << <<1>>, <<2>> >>, <<>>, 0, 0)}
MCLateRequests   == {MCRequest("WALK", "V2C", << <<1>> >>, << MCPoint(<<2>>) >>, 0, 1)}
MCTwoRanges      == << [start |-> <<>>, stop |-> <<1>>], MCPoint(<<2>>) >>
MCIndexRequests  == {MCRequest("WALK", "V2C", << <<1>>, <<2>> >>, MCTwoRanges, 0, 10)}

================================================================================
