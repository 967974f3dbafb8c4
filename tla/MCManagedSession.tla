----------------------------- MODULE MCManagedSession -----------------------------
(* Small instances of a manager with real sessions for TLC. *)
EXTENDS ManagedSession

AnyReply == INSTANCE Agent WITH Mib <- {}

MCConfig(retries, max) ==
  Some([ retries |-> Some(retries), timeout |-> None,
         max_response_var_binds_per_pdu |-> Some(max), max_async_sessions |-> None ])

MCManagerConfig ==
  Some([ retries |-> None, timeout |-> None, max_response_var_binds_per_pdu |-> None,
         max_async_sessions |-> Some(1) ])

\* A walk of two tables whose PDUs hold one OID each, a get, and a walk in one
\* GETBULK that is sent again once.
MCSerial ==
  << [ type |-> "WALK", version |-> "V1", oids |-> << <<1>>, <<2>> >>,
       ranges |-> <<>>, config |-> MCConfig(0, 1) ],
     [ type |-> "GET", version |-> "V2C", oids |-> << <<1, 1>>, <<2, 1>> >>,
       ranges |-> <<>>, config |-> MCConfig(1, 2) ],
     [ type |-> "WALK", version |-> "V2C", oids |-> << <<1>>, <<2>> >>,
       ranges |-> <<>>, config |-> MCConfig(1, 4) ] >>

\* Anything of up to two bindings, and what is no answer.
MCAnyBindings ==
  UNION { [1 .. n -> [oid : {<<1>>, <<1, 1>>, <<1, 2>>, <<2, 1>>, <<3>>}, type : {"VALUE"}]] :
            n \in 0 .. 2 }
MCAnyReplies(pdu) ==
  { AnyReply!Reply(bindings) : bindings \in MCAnyBindings }
  \cup { AnyReply!ErrorReply(pdu, 1), [AnyReply!Reply(<<>>) EXCEPT !.command = "REPORT"] }

MCAnswerable ==
  UNION { ToSet(MCSerial[id].oids) : id \in DOMAIN MCSerial }
  \cup { <<1>>, <<1, 1>>, <<1, 2>>, <<2, 1>>, <<3>> }

MCRequests == { Manager!Queued(id) : id \in Manager!Ids }

MCFaults == { "open", "create_pdu", "add_var", "async_send", "null_reply",
              "send_failed", "disconnect" }

================================================================================
