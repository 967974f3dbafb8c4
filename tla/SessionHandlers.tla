---------------------------- MODULE SessionHandlers ----------------------------
(*******************************************************************************)
(* The member functions of Session (session.cpp), each as an operator from the *)
(* session object to the session object it leaves behind.  Session runs them   *)
(* against one connection, SessionManager against a list of them.              *)
(*                                                                             *)
(* Left out: err_flag, which is written and never read; the bytes of the       *)
(* results (a result keeps the fields of its record, and the OID it came from, *)
(* which the record does not store); timestamps, values, and the text, numbers *)
(* and indices of errors.                                                      *)
(*******************************************************************************)
EXTENDS CollectionHeads, SessionStatus

FatalErrors == { "SESSION_ERROR", "CREATE_REQUEST_PDU_ERROR", "SEND_ERROR",
                 "BAD_RESPONSE_PDU_ERROR", "TIMEOUT_ERROR", "ASYNC_PROBE_ERROR",
                 "TRANSPORT_DISCONNECT_ERROR", "CREATE_RESPONSE_PDU_ERROR" }
ErrorTypes  == FatalErrors \cup {"VALUE_WARNING"}

\* The variable-binding types that carry no value.
WarningTypes == {"NO_SUCH_OBJECT", "NO_SUCH_INSTANCE", "END_OF_MIB_VIEW"}
ValueTypes   == {"VALUE"} \cup WarningTypes

Commands == {"GET", "GETNEXT", "GETBULK"}

Result  == [root_oid_index : Nat, index : Oid, type : ValueTypes, oid : Oid]
Error   == [type : ErrorTypes, oid : Optional(Oid)]
VarBind == [oid : Oid, type : ValueTypes]

SessionObject == [ status  : Status,
                   request : Request,
                   heads   : Seq(CollectionHead),
                   results : Seq(Result),
                   errors  : Seq(Error) ]

RequestPdu == [command : Commands, oids : Seq(Oid), max_repetitions : Nat]
ReplyPdu   == [ command   : {"RESPONSE", "REPORT"},
                errstat   : Nat,
                errindex  : Nat,
                var_binds : Seq(VarBind) ]

--------------------------------------------------------------------------------

AppendError(s, type, oid) ==
  [s EXCEPT !.errors = Append(@, [type |-> type, oid |-> oid])]

\* Mutant of Fail: append_error is forgotten.
FailUntold(s, type, oid) == [s EXCEPT !.status = "CLOSED"]

\* append_error followed by status = CLOSED, on every fatal path.
Fail(s, type, oid) == [AppendError(s, type, oid) EXCEPT !.status = "CLOSED"]

\* The index is what follows the head's root OID in the name of the binding;
\* the code relies on the root OID being a prefix of the name.
AppendResult(s, head, var_bind) ==
  [s EXCEPT !.results =
     Append(@, [ root_oid_index |-> head.root_oid_index,
                 index |-> SubSeq(var_bind.oid, Len(head.root_oid) + 1,
                                  Len(var_bind.oid)),
                 type  |-> var_bind.type,
                 oid   |-> var_bind.oid ])]

--------------------------------------------------------------------------------
(* Constructor *)

PduType(request) ==
  CASE request.type = "GET"                                -> "GET"
    [] request.type = "WALK" /\ request.version = "V1"     -> "GETNEXT"
    [] request.type = "WALK" /\ request.version = "V2C"    -> "GETBULK"

\* The heads, root by root and range by range within a root, numbered by one
\* running index; p picks the root and q the range of the k-th head.
HeadsOf(request) ==
  LET perRoot == IF request.ranges = <<>> THEN 1 ELSE Len(request.ranges)
      root(k)  == request.oids[((k - 1) \div perRoot) + 1]
      range(k) == IF request.ranges = <<>> THEN None
                  ELSE Some(request.ranges[((k - 1) % perRoot) + 1])
  IN  [k \in 1 .. Len(request.oids) * perRoot |-> NewHead(k - 1, root(k), range(k))]

\* One of the heads cannot be built: the exception leaves the constructor.
ConstructorThrows(request) ==
  \E i \in DOMAIN request.oids, j \in DOMAIN request.ranges :
    HeadThrows(request.oids[i], Some(request.ranges[j]))

EmptySession(request) ==
  [ status |-> "CLOSED", request |-> request, heads |-> <<>>,
    results |-> <<>>, errors |-> <<>> ]

\* Mutant of OpenFailed: the status is left as the constructor found it.
OpenFailedUninitialised(request) ==
  [ AppendError(EmptySession(request), "SESSION_ERROR", None)
      EXCEPT !.status = "UNINITIALISED" ]

OpenFailed(request) == Fail(EmptySession(request), "SESSION_ERROR", None)
Opened(request) ==
  [EmptySession(request) EXCEPT !.status = "IDLE", !.heads = HeadsOf(request)]

--------------------------------------------------------------------------------
(* send *)

MaxVarBinds(s) == s.request.config.max_response_var_binds_per_pdu

\* The condition of the while loop of send; count < sqrt(max) is count^2 < max.
WantsMore(s, oids) ==
  /\ Len(oids) < Len(s.heads)
  /\ IF PduType(s.request) = "GETBULK"
     THEN Len(oids) * Len(oids) < MaxVarBinds(s)
     ELSE Len(oids) < MaxVarBinds(s)

\* One pass of the loop: the front head is activated; it goes to the back of the
\* list when net-snmp takes its OID, and is given up when it does not.
AddVarBind(filling, taken) ==
  LET s     == filling.session
      front == Activate(Head(s.heads))
  IN  IF ~WantsMore(s, filling.oids) THEN filling
      ELSE IF taken
      THEN [ session |-> [s EXCEPT !.heads = Append(Tail(@), front)],
             oids    |-> Append(filling.oids, front.req_oid[1]) ]
      ELSE [ session |-> AppendError([s EXCEPT !.heads = Tail(@)],
                                     "CREATE_REQUEST_PDU_ERROR", front.req_oid),
             oids    |-> filling.oids ]

FillLoop == INSTANCE Loop WITH Step <- AddVarBind

\* The whole loop: taken[i] says whether net-snmp takes the OID of the i-th pass.
\* A pass either takes a head to the back or drops it, so there are at most as
\* many as there are heads.
Fill(s, taken) == FillLoop!Run([session |-> s, oids |-> <<>>], taken)

\* max_response_var_binds_per_pdu / var_bind_count, integers of type size_t.
DividesByZero(s, oids) == PduType(s.request) = "GETBULK" /\ oids = <<>>

\* Mutant of BuildPdu: the limit is not divided by the number of OIDs.
BuildPduUndivided(s, oids) ==
  [ command |-> PduType(s.request),
    oids    |-> oids,
    max_repetitions |-> IF PduType(s.request) = "GETBULK" THEN MaxVarBinds(s) ELSE 0 ]

BuildPdu(s, oids) ==
  [ command |-> PduType(s.request),
    oids    |-> oids,
    max_repetitions |-> IF PduType(s.request) = "GETBULK"
                        THEN MaxVarBinds(s) \div Len(oids) ELSE 0 ]

--------------------------------------------------------------------------------
(* process_var_bind *)

FindHead(s, oid) ==
  SelectInSeq(s.heads, LAMBDA head : Accepts(head, s.request.type, oid))

\* Mutant of GetVarBind: no return behind the warning of the value's type.
GetVarBindFallsThrough(s, var_bind) ==
  LET k == FindHead(s, var_bind.oid)
      warned == AppendError(s, "VALUE_WARNING", Some(var_bind.oid))
  IN  IF k = 0 \/ (k # 0 /\ s.heads[k].req_oid # Some(var_bind.oid)) THEN warned
      ELSE AppendResult(IF var_bind.type \in WarningTypes THEN warned ELSE s,
                        s.heads[k], var_bind)

GetVarBind(s, var_bind) ==
  LET k == FindHead(s, var_bind.oid)
  IN  IF \/ k = 0
         \/ s.heads[k].req_oid # Some(var_bind.oid)
         \/ var_bind.type \in WarningTypes
      THEN AppendError(s, "VALUE_WARNING", Some(var_bind.oid))
      ELSE AppendResult(s, s.heads[k], var_bind)

\* Mutant of WalkVarBind: the cursor itself is taken again.
WalkVarBindTwice(s, var_bind) ==
  LET k == FindHead(s, var_bind.oid)
  IN  IF k = 0 THEN s
      ELSE IF OidLT(var_bind.oid, Cursor(s.heads[k])) THEN s
      ELSE AppendResult([s EXCEPT !.heads[k].last_resp_oid = Some(var_bind.oid)],
                        s.heads[k], var_bind)

WalkVarBind(s, var_bind) ==
  LET k == FindHead(s, var_bind.oid)
  IN  IF k = 0 THEN s
      ELSE IF OidLE(var_bind.oid, Cursor(s.heads[k])) THEN s
      ELSE AppendResult([s EXCEPT !.heads[k].last_resp_oid = Some(var_bind.oid)],
                        s.heads[k], var_bind)

ProcessVarBind(s, var_bind) ==
  IF s.request.type = "GET" THEN GetVarBind(s, var_bind)
                            ELSE WalkVarBind(s, var_bind)

VarBindLoop == INSTANCE Loop WITH Step <- ProcessVarBind

--------------------------------------------------------------------------------
(* process_pdu *)

\* Mutant of KeepHead: a head that goes on stays active.
KeepHeadActive(kept, head) == IF Complete(head) THEN kept ELSE Append(kept, head)

\* Mutant of KeepHead: every head that was asked for is erased.
KeepHeadUnasked(kept, head) == IF Active(head) THEN kept ELSE Append(kept, head)

\* The loop behind the switch: erase the heads that are complete and make the
\* others inactive.
KeepHead(kept, head) ==
  IF Complete(head) THEN kept ELSE Append(kept, [head EXCEPT !.req_oid = None])

HeadLoop == INSTANCE Loop WITH Step <- KeepHead

Epilogue(s) ==
  LET kept == HeadLoop!Run(<<>>, s.heads)
  IN  [s EXCEPT !.heads = kept, !.status = IF kept = <<>> THEN "CLOSED" ELSE @]

\* The OID of the binding the error index of the reply points at, if any.
ErrorOid(reply) ==
  IF reply.errindex \in DOMAIN reply.var_binds
  THEN Some(reply.var_binds[reply.errindex].oid) ELSE None

\* case RECEIVED_MESSAGE; no reply stands for a null PDU.
Received(s, reply) ==
  IF reply = None THEN Fail(s, "CREATE_RESPONSE_PDU_ERROR", None)
  ELSE IF reply[1].command # "RESPONSE" THEN Fail(s, "BAD_RESPONSE_PDU_ERROR", None)
  ELSE IF reply[1].errstat # 0
  THEN Fail(s, "BAD_RESPONSE_PDU_ERROR", ErrorOid(reply[1]))
  ELSE VarBindLoop!Run([s EXCEPT !.status = "IDLE"], reply[1].var_binds)

ProcessReceived(s, reply) == Epilogue(Received(s, reply))
ProcessTimedOut(s)   == Epilogue(Fail(s, "TIMEOUT_ERROR", None))
ProcessSendFailed(s) == Epilogue(Fail(s, "ASYNC_PROBE_ERROR", None))
ProcessDisconnect(s) == Epilogue(Fail(s, "TRANSPORT_DISCONNECT_ERROR", None))

\* Mutant of ProcessResend: the status is reset as for an answer.
ProcessResendIdle(s) == Epilogue([s EXCEPT !.status = "IDLE"])

ProcessResend(s)     == Epilogue(s)

--------------------------------------------------------------------------------
(* get_response *)

Response(s) ==
  [ type    |-> "SUCCESSFUL",
    request |-> s.request,
    results |-> s.results,
    errors  |-> s.errors ]

================================================================================
