------------------------------- MODULE SessionAgent -------------------------------
(*******************************************************************************)
(* A session collecting from an agent: what the response of a session that     *)
(* closed holds, compared with what the agent has.                             *)
(*******************************************************************************)
EXTENDS Session, Agent

Over == session.status = "CLOSED"

response  == Response(session)
Collected == { response.results[i].oid : i \in DOMAIN response.results }
Reported  == { response.errors[i].oid : i \in DOMAIN response.errors }

\* What a walk of the request should collect: the instances below a root OID
\* whose index lies in one of the ranges.
InRanges(request, root, oid) ==
  \/ request.ranges = <<>>
  \/ \E i \in DOMAIN request.ranges :
       LET range == RootedRange(root, Some(request.ranges[i]))
       IN  /\ OidLE(range.start, oid)
           /\ OidLE(oid, range.stop) \/ IsRootOf(range.stop, oid)

Wanted(request) ==
  { m \in Mib : \E i \in DOMAIN request.oids :
      LET root == request.oids[i]
      IN  root # m /\ IsRootOf(root, m) /\ InRanges(request, root, m) }

\* A walk that ends without an error has collected every instance it should and
\* nothing else: no head is taken for complete while the agent still holds
\* instances of its range.
WalkComplete ==
  Over /\ session.request.type = "WALK" /\ session.errors = <<>> =>
    Collected = Wanted(session.request)

\* A get that ends without a fatal error accounts for every OID it asked for: one
\* result or one warning, never both and never two.
GetAnswered ==
  Over /\ session.request.type = "GET"
       /\ (\A k \in DOMAIN session.errors : ~Fatal(session.errors[k])) =>
    /\ Collected \cap { o[1] : o \in Reported } = {}
    /\ \A i \in DOMAIN session.request.oids :
         LET oid == session.request.oids[i]
         IN  Cardinality({ j \in DOMAIN session.results : session.results[j].oid = oid })
             + Cardinality({ j \in DOMAIN session.errors :
                               session.errors[j].oid = Some(oid) }) = 1

\* No result of a walk is the end-of-view marker or another binding without a
\* value, although process_var_bind looks at the type only for a get: the marker
\* repeats an OID that was taken before (README, "Walks and endOfMibView").
OnlyValuesCollected ==
  \A i \in DOMAIN session.results : session.results[i].type = "VALUE"

--------------------------------------------------------------------------------
(* What the documents and comments say and the code does not keep to; README,  *)
(* "Findings", says where.                                                     *)

\* README.rst:163, "Number of retries for the same PDU before the request is
\* terminated": sending the PDU again is not the end of the request.
RetryIsNotTheEnd ==
  resends > 0 /\ in_flight # None /\ session.errors = <<>> =>
    session.status # "CLOSED"

\* README.rst:118: a record holds the "Index of the Root ID from the section
\* above", the header that lists every root OID once.
RootIndexNamesRoot ==
  \A i \in DOMAIN session.results :
    LET result == session.results[i]
    IN  /\ result.root_oid_index + 1 \in DOMAIN session.request.oids
        /\ session.request.oids[result.root_oid_index + 1] \o result.index = result.oid

\* types.hpp:446: max_response_var_binds_per_pdu "must be greater than 0", so that
\* no request a caller can build makes send divide by a number of bindings of 0.
RequestsAreSurvived == ~aborted

================================================================================
