----------------------------- MODULE MCSessionManager -----------------------------
(* Small instances of the session manager for TLC. *)
EXTENDS SessionManager

MCConfig(max_async) ==
  [ retries |-> None, timeout |-> None, max_response_var_binds_per_pdu |-> None,
    max_async_sessions |-> Some(max_async) ]

MCRequest(max_async, ranges) ==
  [ type |-> "WALK", version |-> "V2C", oids |-> << <<1>> >>, ranges |-> ranges,
    config |-> IF max_async = 0 THEN None ELSE Some(MCConfig(max_async)) ]

\* A start without a stop: ObjectIdentityRange takes it, the head below a root
\* OID does not.
MCOpenRange == << [start |-> <<2>>, stop |-> <<>>] >>

\* The manager's own limit, for the requests that bring none (0).
MCManagerConfig == Some(MCConfig(3))

\* Requests under different limits, and one whose session cannot be built.
MCMixed == << MCRequest(0, <<>>), MCRequest(3, <<>>), MCRequest(3, <<>>),
              MCRequest(2, <<>>), MCRequest(1, <<>>), MCRequest(3, <<>>),
              MCRequest(2, MCOpenRange) >>
MCPair   == << MCRequest(2, <<>>), MCRequest(2, <<>>) >>
MCPoison == << MCRequest(1, MCOpenRange), MCRequest(1, <<>>) >>

================================================================================
