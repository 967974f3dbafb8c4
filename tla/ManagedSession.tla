------------------------------ MODULE ManagedSession ------------------------------
(*******************************************************************************)
(* A manager driving real sessions, one at a time: SessionManager says where   *)
(* run is and what it does to its list, Session what the constructor, send and *)
(* read do to the session they are called on, against a peer that answers      *)
(* anything.  The status in the list is whatever the session makes of it; that *)
(* it changes as SessionManager assumes, and that a session is closed after so *)
(* many reads, is shown here.                                                  *)
(*                                                                             *)
(* Sessions that could not be opened may stand in the list before the one that *)
(* was; only the last one has anything left to do.                             *)
(*******************************************************************************)
EXTENDS Session

CONSTANTS
  ManagerConfig, Submissions, MaxReads,   \* of the manager
  Answerable    \* the OIDs asked for, and those a peer may name in an answer
                \* (external)

VARIABLES pending_requests, async_sessions, pc, it, responses, added, answered

Manager == INSTANCE SessionManager

ASSUME OneAtATime == \A id \in Manager!Ids : Manager!MaxAsync(id) = 1
ASSUME QueuedRequests == Requests = { Manager!Queued(id) : id \in Manager!Ids }
ASSUME SomeSubmission == Submissions \in Seq(SubmittedRequest) /\ Submissions # <<>>

\* A session takes at most one read for each OID that one of its heads can have
\* come to, and for each time the PDU that asks behind it is sent again.
MostReads(request) ==
  (request.config.retries + 1) * (Len(HeadsOf(request)) * Cardinality(Answerable))

\* A limit of 0 lets a get or a GETNEXT walk ask for nothing for ever (finding 5).
ASSUME EnoughReads ==
  /\ Answerable \subseteq Oid /\ IsFiniteSet(Answerable)
  /\ MaxReads \in Nat
  /\ \A request \in Requests :
       /\ request.config.max_response_var_binds_per_pdu > 0
       /\ ToSet(request.oids) \subseteq Answerable
       /\ MostReads(request) < MaxReads

managerVars ==
  <<pending_requests, async_sessions, pc, it, responses, added, answered>>
everything ==
  <<pending_requests, async_sessions, pc, it, responses, added, answered, vars>>

\* The pass over the list has come to the last session.
Current == it = Len(async_sessions)

ManagedInit ==
  /\ Manager!Init
  /\ session = EmptySession(Manager!Queued(1))
  /\ in_flight = None
  /\ resends = 0
  /\ aborted = FALSE

--------------------------------------------------------------------------------

\* The session of the request at the front, opened or not.
Promote ==
  /\ pc = "promote"
  /\ Manager!MayPromote
  /\ LET request == Manager!Queued(Head(pending_requests))
     IN  \/ ~ConstructorThrows(request) /\ session' = Opened(request)
         \/ "open" \in Faults /\ session' = OpenFailed(request)
  /\ Manager!PromoteAs(session'.status)
  /\ in_flight' = None
  /\ resends' = 0
  /\ UNCHANGED aborted

\* The status the call leaves behind it at the iterator: that of the session, if
\* it is the last of the list; those before it are closed, and stay as they are.
Left == IF Current THEN session'.status ELSE async_sessions[it].status

\* session.send() in the pass over the list; a division by zero ends the process
\* in the middle of it.
SendNext ==
  /\ pc = "send"
  /\ IF Current /\ session.status = "IDLE" THEN Send ELSE UNCHANGED vars
  /\ IF aborted' THEN UNCHANGED managerVars ELSE Manager!SendAs(Left)

\* session.read(), which ends in a callback.
ReadNext ==
  /\ pc = "read"
  /\ IF Current /\ session.status = "WAIT" THEN Read ELSE UNCHANGED vars
  /\ Manager!ReadAs(Left)

\* The steps of run that touch no session, or only erase it.
Elsewhere ==
  /\ \/ Manager!PromoteThrows \/ Manager!PromoteDone \/ Manager!PerformIo
     \/ Manager!CollectClosed \/ Manager!CollectSkip \/ Manager!CollectDone
     \/ Manager!Return
  /\ UNCHANGED vars

Run == ~aborted /\ (Promote \/ SendNext \/ ReadNext \/ Elsewhere)

AddRequest == ~aborted /\ Manager!AddRequest /\ UNCHANGED vars
CallRun    == ~aborted /\ Manager!CallRun /\ UNCHANGED vars

\* The process has ended.
Killed == aborted /\ UNCHANGED everything

ManagedNext == AddRequest \/ CallRun \/ Run \/ Killed

ManagedSpec == ManagedInit /\ [][ManagedNext]_everything

\* As for the manager: the thread inside run goes on, the caller calls again.
ManagedFairSpec ==
  ManagedSpec /\ WF_everything(Run) /\ WF_everything(CallRun)

--------------------------------------------------------------------------------

\* A session is closed long before MaxReads reads, whatever the peer answers: the
\* bound that SessionManager puts on its sessions, and that its own liveness rests
\* on, never has to close one.
MaxReadsSuffice ==
  \A i \in DOMAIN async_sessions : async_sessions[i].reads < MaxReads

\* The collect loop of run, which goes on only from a session that is closed, never
\* comes to one that is not: with one session at a time it cannot hang.
NeverSpins ==
  pc = "collect" /\ it # 0 => async_sessions[it].status = "CLOSED"

\* README.rst:144, "Run until one or more requests has completed": a call of run
\* comes back to its caller, whatever the peer of its session does.
RunReturns == pc = "promote" ~> pc = "caller" \/ aborted

\* A request that was added is answered, if the caller goes on calling run.
AddedIsAnswered ==
  \A id \in Manager!Ids : added >= id ~> id \in ToSet(answered) \/ aborted

\* What a real session does to the list is what SessionManager lets a session do:
\* no send leaves it idle, no read moves one that does not wait, nothing opens a
\* closed one again, and a read that MaxReads would make the last one closes it.
ImplementsManager == Manager!Spec

================================================================================
