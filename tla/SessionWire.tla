-------------------------------- MODULE SessionWire --------------------------------
(*******************************************************************************)
(* What a consumer of a response reads from its bytes, compared with what the  *)
(* session collected and with what the agent holds.                            *)
(*******************************************************************************)
EXTENDS SessionAgent, WireFormat

CONSTANT RequestIds   \* the request IDs a caller may choose; <<>> for none

ASSUME RequestIdsAssumption == \A id \in RequestIds : id \in Seq(Nat)

\* A consumer that knows the documented format gets out of the bytes of a response
\* the request ID, the root OIDs and every record in the order of collection,
\* whatever the lengths of the ID, the root OIDs, the indexes and the values: the
\* sizes the code computes, the positions it copies to and the counts it writes
\* agree.  Only a session that could not be opened leaves nothing to read.
ResponseReadable ==
  Over => \A id \in RequestIds :
    LET wire    == Wire(session, id)
        results == session.results
    IN  wire # <<>> => Consume(wire) =
          [ req_id  |-> id,
            roots   |-> session.request.oids,
            records |-> [ i \in DOMAIN results |->
                            [ root_oid_index |-> results[i].root_oid_index,
                              type  |-> TypeCode[results[i].type],
                              index |-> results[i].index,
                              value |-> ValueOf(results[i].oid) ] ] ]

\* From the agent through the session and its bytes to the consumer: for a walk
\* without ranges and without errors, a root OID of the header and the index of a
\* record, put together, are the instances of the walk, each with its own value.
ConsumerReassembles ==
  Over /\ session.request.type = "WALK" /\ session.errors = <<>> =>
    \A id \in RequestIds :
      LET read == Consume(Wire(session, id))
          full(record) == read.roots[record.root_oid_index + 1] \o record.index
      IN  { <<full(read.records[i]), read.records[i].value>> : i \in DOMAIN read.records }
            = { <<m, ValueOf(m)>> : m \in Wanted(session.request) }

================================================================================
