--------------------------------- MODULE Session ---------------------------------
(*******************************************************************************)
(* One Session (session.cpp) against its net-snmp connection: the loop of      *)
(* SessionManager::run calls send and read on it until its status is CLOSED,   *)
(* and read lets net-snmp call process_pdu back.                               *)
(*******************************************************************************)
EXTENDS SessionHandlers

CONSTANTS
  Requests,     \* the requests a session may be built for
  Replies(_),   \* the replies a peer may give to a request PDU (external)
  Faults        \* the calls into net-snmp that may fail, and the events
                \* beside answer and timeout that it may report

ASSUME RequestsAssumption ==
  Requests \subseteq Request /\ \A request \in Requests : WellFormed(request)
ASSUME FaultsAssumption ==
  Faults \subseteq { "open", "create_pdu", "add_var", "async_send", "null_reply",
                     "send_failed", "disconnect" }

VARIABLES
  session,      \* the session object
  in_flight,    \* the request PDU net-snmp waits for an answer to, if any
  resends,      \* how often that PDU has been sent again
  aborted       \* the process was killed by an arithmetic exception

vars == <<session, in_flight, resends, aborted>>

TypeOK ==
  /\ session \in SessionObject
  /\ in_flight \in Optional(RequestPdu)
  /\ resends \in Nat
  /\ aborted \in BOOLEAN

Init ==
  /\ \E request \in Requests :
       \/ ~ConstructorThrows(request) /\ session = Opened(request)
       \/ "open" \in Faults /\ session = OpenFailed(request)
  /\ in_flight = None
  /\ resends = 0
  /\ aborted = FALSE

--------------------------------------------------------------------------------
(* send: a no-op unless the session is idle.  Its three outcomes once the PDU  *)
(* has been filled share the filling.                                          *)

\* Mutant of Idle: send does not look at the status.
IdleUnchecked == ~aborted

Idle == session.status = "IDLE" /\ ~aborted

SendNoPdu ==
  /\ Idle
  /\ "create_pdu" \in Faults
  /\ session' = Fail(session, "CREATE_REQUEST_PDU_ERROR", None)
  /\ UNCHANGED <<in_flight, resends, aborted>>

\* What snmp_add_null_var may answer for the passes of the loop.
Takings ==
  { taken \in [DOMAIN session.heads -> BOOLEAN] :
      "add_var" \in Faults \/ \A i \in DOMAIN taken : taken[i] }

SendDivides(filled) ==
  /\ DividesByZero(filled.session, filled.oids)
  /\ session' = filled.session
  /\ aborted' = TRUE
  /\ UNCHANGED <<in_flight, resends>>

SendRefused(filled) ==
  /\ ~DividesByZero(filled.session, filled.oids)
  /\ "async_send" \in Faults
  /\ session' = Fail(filled.session, "SEND_ERROR", None)
  /\ UNCHANGED <<in_flight, resends, aborted>>

\* Mutant of SendTaken: the status is not set.
SendTakenIdle(filled) ==
  /\ ~DividesByZero(filled.session, filled.oids)
  /\ session' = filled.session
  /\ in_flight' = Some(BuildPdu(filled.session, filled.oids))
  /\ resends' = 0
  /\ UNCHANGED aborted

SendTaken(filled) ==
  /\ ~DividesByZero(filled.session, filled.oids)
  /\ session' = [filled.session EXCEPT !.status = "WAIT"]
  /\ in_flight' = Some(BuildPdu(filled.session, filled.oids))
  /\ resends' = 0
  /\ UNCHANGED aborted

Send ==
  \/ SendNoPdu
  \/ /\ Idle
     /\ \E taken \in Takings :
          LET filled == Fill(session, taken)
          IN  SendDivides(filled) \/ SendRefused(filled) \/ SendTaken(filled)

--------------------------------------------------------------------------------
(* read: a no-op unless the session waits.  It ends in at most one callback    *)
(* for the PDU in flight; a read without one (a datagram that is not the       *)
(* answer, select interrupted) changes nothing.                                *)

\* Mutant of Waiting: read does not look at the status.
WaitingUnchecked == in_flight # None

Waiting == session.status = "WAIT" /\ in_flight # None

\* net-snmp calls back with op RECEIVED_MESSAGE and forgets the PDU.  What it
\* hands over is a decoded PDU, or none when it cannot allocate one.
Receive ==
  /\ Waiting
  /\ \E reply \in Replies(in_flight[1]) :
       /\ reply \in ReplyPdu
       /\ session' = ProcessReceived(session, Some(reply))
  /\ in_flight' = None
  /\ UNCHANGED <<resends, aborted>>

ReceiveNull ==
  /\ Waiting
  /\ "null_reply" \in Faults
  /\ session' = ProcessReceived(session, None)
  /\ in_flight' = None
  /\ UNCHANGED <<resends, aborted>>

\* The answer is late and there are retries left: the PDU is sent again, and the
\* callback is told.
Resend ==
  /\ Waiting
  /\ resends < session.request.config.retries
  /\ resends' = resends + 1
  /\ session' = ProcessResend(session)
  /\ UNCHANGED <<in_flight, aborted>>

TimedOut ==
  /\ Waiting
  /\ resends = session.request.config.retries
  /\ session' = ProcessTimedOut(session)
  /\ in_flight' = None
  /\ UNCHANGED <<resends, aborted>>

\* The PDU cannot be sent again; net-snmp keeps it.
SendFailed ==
  /\ Waiting
  /\ "send_failed" \in Faults
  /\ resends < session.request.config.retries
  /\ session' = ProcessSendFailed(session)
  /\ UNCHANGED <<in_flight, resends, aborted>>

Disconnect ==
  /\ Waiting
  /\ "disconnect" \in Faults
  /\ session' = ProcessDisconnect(session)
  /\ in_flight' = None
  /\ UNCHANGED <<resends, aborted>>

Read == Receive \/ ReceiveNull \/ Resend \/ TimedOut \/ SendFailed \/ Disconnect

--------------------------------------------------------------------------------

\* run returns and the caller takes the response: the session is over.
Done ==
  /\ session.status = "CLOSED" \/ aborted
  /\ UNCHANGED vars

Next == Send \/ Read \/ Done

Spec == Init /\ [][Next]_vars

\* The loop of run calls send and read again and again, and select returns at
\* the latest when the timer of the PDU in flight expires.
Fairness == WF_vars(Send) /\ WF_vars(Read)

FairSpec == Spec /\ Fairness

--------------------------------------------------------------------------------
(* Safety *)

\* The errors that end a session; an OID that net-snmp would not take is
\* recorded with the OID and only ends the collection of that OID.
Fatal(error) ==
  /\ error.type \in FatalErrors
  /\ ~(error.type = "CREATE_REQUEST_PDU_ERROR" /\ error.oid # None)

\* A waiting session has a PDU in flight, or the select of read would block for
\* ever with the whole of run behind it; an idle one has none, so that send never
\* has two PDUs in flight whose answers could be taken for each other's.
OneInFlight ==
  /\ session.status = "WAIT" => in_flight # None
  /\ session.status = "IDLE" => in_flight = None

\* Between send and the callback the heads behind the PDU are the last ones of
\* the list, in the order of the PDU, asked for and not answered; once the PDU
\* has been sent again they are gone (see README, the resend finding); an idle
\* session has something left to ask for and no head that is still active.
HeadsMatchRequest ==
  LET heads == session.heads
  IN  /\ Idle => heads # <<>> /\ \A i \in DOMAIN heads : ~Active(heads[i])
      /\ session.status = "WAIT" =>
           LET n == IF resends = 0 THEN Len(in_flight[1].oids) ELSE 0
           IN  /\ n <= Len(heads)
               /\ \A i \in DOMAIN heads :
                    IF i <= Len(heads) - n THEN ~Active(heads[i])
                    ELSE /\ heads[i].req_oid =
                              Some(in_flight[1].oids[i - (Len(heads) - n)])
                         /\ Complete(heads[i])

\* No request asks for more bindings than max_response_var_binds_per_pdu: one
\* per OID, or max_repetitions per OID of a GETBULK (README.rst:168).
PduWithinLimit ==
  in_flight # None =>
    LET pdu == in_flight[1]
        repetitions == IF pdu.command = "GETBULK" THEN pdu.max_repetitions ELSE 1
    IN  Len(pdu.oids) * repetitions <= MaxVarBinds(session)

\* A reader of the results can put every OID together again from a root OID and
\* an index, and without ranges the root OID is the one the record's index
\* names; in particular the size of the index never wraps around.
ResultsUnderRoot ==
  LET request == session.request
  IN  \A i \in DOMAIN session.results :
        LET result == session.results[i]
        IN  \E r \in DOMAIN request.oids :
              /\ request.oids[r] \o result.index = result.oid
              /\ request.ranges = <<>> => r = result.root_oid_index + 1

\* The results of one head of a walk strictly increase, whatever the peer
\* answers: none twice, none out of order.
WalkIncreasing ==
  session.request.type = "WALK" =>
    \A i, j \in DOMAIN session.results :
      i < j /\ session.results[i].root_oid_index = session.results[j].root_oid_index
        => OidLT(session.results[i].oid, session.results[j].oid)

--------------------------------------------------------------------------------
(* Action properties *)

\* What a walk has collected and reported is never changed or taken back, and
\* once the session is closed (its response may have been handed out) neither
\* grows any more.
OnlyGrows ==
  [][ /\ IsPrefix(session.results, session'.results)
      /\ IsPrefix(session.errors, session'.errors)
      /\ session.status = "CLOSED" => UNCHANGED session ]_session

\* The session ends with an error of its own that is fatal.
SaysWhy ==
  /\ session'.status = "CLOSED"
  /\ Len(session'.errors) > Len(session.errors)
  /\ Fatal(Last(session'.errors))

\* Nothing will be asked for the head any more.
Lost(head) ==
  \/ session'.status = "CLOSED"
  \/ \A j \in DOMAIN session'.heads :
       session'.heads[j].root_oid_index # head.root_oid_index

\* The OID that was to be asked for next has an error of its own.
Refused(head) ==
  \E k \in DOMAIN session'.errors :
    /\ k > Len(session.errors)
    /\ session'.errors[k] =
         [ type |-> "CREATE_REQUEST_PDU_ERROR",
           oid  |-> Some(ValueOr(head.last_resp_oid, head.root_oid)) ]

\* The PDU that asked for it is over, and a walk has had nothing for it from there.
Answered(head) ==
  /\ in_flight # None /\ in_flight' = None
  /\ head.req_oid[1] \in ToSet(in_flight[1].oids)
  /\ session.request.type = "WALK" =>
       \A k \in DOMAIN session'.results :
         k > Len(session.results) =>
           session'.results[k].root_oid_index # head.root_oid_index

\* A head goes in three ways only: its session ends and says why; its OID is
\* refused, and an error names it; or the PDU that asks for it is answered, and
\* nothing of the answer is taken for it.  A head that is not asked for never goes
\* without a word.  A step that sends the PDU again is left out: it drops the heads
\* behind the PDU for no reason at all (see README, the resend finding).  An answer
\* without bindings drops them too; whether what an answer drops had been collected
\* in full is for WalkComplete and GetAnswered to say.
NoHeadLostSilently ==
  [][ resends' <= resends =>
        \/ SaysWhy
        \/ \A i \in DOMAIN session.heads :
             Lost(session.heads[i]) =>
               IF Active(session.heads[i]) THEN Answered(session.heads[i])
                                           ELSE Refused(session.heads[i]) ]_vars

\* An answer moves every head it keeps active for the next request strictly
\* beyond the OID it was asked for, whatever the peer answers: the measure by
\* which a walk ends.
AnswerAdvances ==
  [][ session.status = "WAIT" =>
        \A i \in DOMAIN session.heads, j \in DOMAIN session'.heads :
          /\ session.heads[i].root_oid_index = session'.heads[j].root_oid_index
          /\ Active(session.heads[i])
          => OidLT(session.heads[i].req_oid[1],
                   ValueOr(session'.heads[j].last_resp_oid, <<>>)) ]_session

--------------------------------------------------------------------------------
(* Liveness *)

\* Every session ends, whatever the peer answers or leaves unanswered: run waits
\* for it.
EventuallyOver == <>(session.status = "CLOSED" \/ aborted)

--------------------------------------------------------------------------------
(* What SessionManager sees of a session *)

Lifecycle == INSTANCE SessionLifecycle WITH
  status  <- session.status,
  pending <- in_flight # None,
  retries <- session.request.config.retries

\* Every call of send and read is one that the manager expects: send goes from
\* idle to waiting with its PDU in flight or to closed, and only a callback for
\* that PDU, once per answer and at most retries times for sending it again, takes
\* a waiting session anywhere else; none finds it idle, and none opens it again.
ImplementsLifecycle == Lifecycle!Spec

================================================================================
