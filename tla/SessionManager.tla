------------------------------ MODULE SessionManager ------------------------------
(*******************************************************************************)
(* SessionManager (session.hpp, session.cpp): a queue of requests, the list of *)
(* sessions being collected, and run, which moves requests from the queue to   *)
(* the list, drives the sessions until one is closed, and hands out responses. *)
(*                                                                             *)
(* One thread calls add_request and run.  A session is seen through its        *)
(* status, which changes as SessionStatus says; a request is known by its   *)
(* place in the order of submission.                                           *)
(*******************************************************************************)
EXTENDS SessionHandlers

CONSTANTS
  ManagerConfig, \* the argument of the constructor, possibly missing
  Submissions,   \* the requests the caller will add, in that order
  MaxReads       \* bound: a session is closed after at most so many reads

ASSUME ManagerConfigAssumption ==
  ManagerConfig \in Optional(Config) /\ \A i \in DOMAIN ManagerConfig : ~ConfigThrows(ManagerConfig[i])
ASSUME SubmissionsAssumption ==
  /\ Submissions \in Seq(SubmittedRequest)
  /\ \A id \in DOMAIN Submissions :
       /\ WellFormed(Submissions[id])
       /\ LET own == Submissions[id].config
          IN  \A i \in DOMAIN own : ~ConfigThrows(own[i])
ASSUME MaxReadsAssumption == MaxReads \in Nat \ {0}

VARIABLES
  pending_requests,   \* requests waiting for a session
  async_sessions,     \* the sessions, each with its request and status
  pc,                 \* where run is; "caller" outside of it
  it,                 \* the iterator of the loop run is in, 0 being end()
  responses,          \* the requests answered by the current call of run
  added,              \* history: how many requests have been added
  answered            \* history: the requests answered by earlier calls

vars == <<pending_requests, async_sessions, pc, it, responses, added, answered>>

Ids == DOMAIN Submissions

AsyncSession == [request : Ids, status : Status, reads : 0 .. MaxReads]

TypeOK ==
  /\ pending_requests \in Seq(Ids)
  /\ async_sessions \in Seq(AsyncSession)
  /\ pc \in {"caller", "promote", "perform_io", "send", "read", "collect", "return"}
  /\ it \in 0 .. Len(async_sessions)
  /\ pc \in {"send", "read"} => it # 0
  /\ responses \in Seq(Ids)
  /\ added \in 0 .. Len(Submissions)
  /\ answered \in Seq(Ids)

Init ==
  /\ pending_requests = <<>>
  /\ async_sessions = <<>>
  /\ pc = "caller"
  /\ it = 0
  /\ responses = <<>>
  /\ added = 0
  /\ answered = <<>>

--------------------------------------------------------------------------------

\* The constructor's config: the defaults under the argument.
config == Merge(DefaultSettings, ManagerConfig)

\* add_request builds the request again, its ranges optimized a second time and
\* its config laid over the manager's.
Queued(id) ==
  LET request == Submissions[id]
  IN  [ request EXCEPT !.ranges = OptimizeRanges(request.type, @),
                       !.config = Merge(config, @) ]

MaxAsync(id) == Queued(id).config.max_async_sessions

ActiveSessions == { i \in DOMAIN async_sessions : async_sessions[i].status # "CLOSED" }

\* get_active_async_sessions_count
ActiveCount == Cardinality(ActiveSessions)

\* Mutant of Fits: the limits of the active sessions are not asked.
FitsAlone(id) == ActiveCount + 1 <= MaxAsync(id)

\* Mutant of Fits: < instead of <=.
FitsBelow(id) ==
  /\ ActiveCount + 1 < MaxAsync(id)
  /\ \A i \in ActiveSessions : ActiveCount + 1 < MaxAsync(async_sessions[i].request)

\* get_active_async_sessions_count() + 1 <= min(get_max_async_sessions(), the
\* limit of the request): the minimum taken over the sessions that are active.
Fits(id) ==
  /\ ActiveCount + 1 <= MaxAsync(id)
  /\ \A i \in ActiveSessions : ActiveCount + 1 <= MaxAsync(async_sessions[i].request)

MayPromote == pending_requests # <<>> /\ Fits(Head(pending_requests))

Begin(list) == IF list = <<>> THEN 0 ELSE 1

--------------------------------------------------------------------------------
(* The caller *)

\* Mutant of AddRequest: the request is numbered before it is counted.
AddRequestUncounted ==
  /\ pc = "caller"
  /\ added < Len(Submissions)
  /\ pending_requests' = Append(pending_requests, added)
  /\ added' = added + 1
  /\ UNCHANGED <<async_sessions, pc, it, responses, answered>>

\* Mutant of AddRequest: emplace_front.
AddRequestFront ==
  /\ pc = "caller"
  /\ added < Len(Submissions)
  /\ pending_requests' = <<added + 1>> \o pending_requests
  /\ added' = added + 1
  /\ UNCHANGED <<async_sessions, pc, it, responses, answered>>

AddRequest ==
  /\ pc = "caller"
  /\ added < Len(Submissions)
  /\ pending_requests' = Append(pending_requests, added + 1)
  /\ added' = added + 1
  /\ UNCHANGED <<async_sessions, pc, it, responses, answered>>

CallRun ==
  /\ pc = "caller"
  /\ pc' = "promote"
  /\ responses' = <<>>
  /\ UNCHANGED <<pending_requests, async_sessions, it, added, answered>>

--------------------------------------------------------------------------------
(* run *)

\* The session is built at the end of the list, in some status, then the request
\* is popped.
PromoteAs(status) ==
  /\ async_sessions' = Append(async_sessions,
       [request |-> Head(pending_requests), status |-> status, reads |-> 0])
  /\ pending_requests' = Tail(pending_requests)
  /\ UNCHANGED <<pc, it, responses, added, answered>>

Promote ==
  /\ pc = "promote"
  /\ MayPromote
  /\ \E status \in Created :
       /\ ConstructorThrows(Queued(Head(pending_requests))) => status = "CLOSED"
       /\ PromoteAs(status)

\* Mutant of PromoteThrows: the request is popped before its session is built.
PromoteThrowsPopped ==
  /\ pc = "promote"
  /\ MayPromote
  /\ ConstructorThrows(Queued(Head(pending_requests)))
  /\ pc' = "caller"
  /\ pending_requests' = Tail(pending_requests)
  /\ UNCHANGED <<async_sessions, it, responses, added, answered>>

\* The constructor of the session throws (unless it could not open the session
\* and has returned already): the exception leaves run, and the request stays at the front of the queue.
PromoteThrows ==
  /\ pc = "promote"
  /\ MayPromote
  /\ ConstructorThrows(Queued(Head(pending_requests)))
  /\ pc' = "caller"
  /\ UNCHANGED <<pending_requests, async_sessions, it, responses, added, answered>>

PromoteDone ==
  /\ pc = "promote"
  /\ ~MayPromote
  /\ pc' = IF async_sessions = <<>> THEN "return" ELSE "perform_io"
  /\ UNCHANGED <<pending_requests, async_sessions, it, responses, added, answered>>

\* Mutant of PerformIo: >= instead of ==.
PerformIoForever ==
  /\ pc = "perform_io"
  /\ pc' = IF Len(async_sessions) >= ActiveCount THEN "send" ELSE "collect"
  /\ it' = Begin(async_sessions)
  /\ UNCHANGED <<pending_requests, async_sessions, responses, added, answered>>

\* while every session is active: one pass of send, one pass of read
PerformIo ==
  /\ pc = "perform_io"
  /\ pc' = IF Len(async_sessions) = ActiveCount THEN "send" ELSE "collect"
  /\ it' = Begin(async_sessions)
  /\ UNCHANGED <<pending_requests, async_sessions, responses, added, answered>>

\* The iterator of a pass goes on, or the pass ends at next.
Advance(next) ==
  IF it < Len(async_sessions) THEN it' = it + 1 /\ pc' = pc
                              ELSE it' = Begin(async_sessions) /\ pc' = next

\* it->send(), which leaves the session in some status.
SendAs(status) ==
  /\ async_sessions' = [async_sessions EXCEPT ![it].status = status]
  /\ Advance("read")
  /\ UNCHANGED <<pending_requests, responses, added, answered>>

SendNext ==
  /\ pc = "send"
  /\ \E status \in AfterSend(async_sessions[it].status) : SendAs(status)

\* it->read(); a read of a waiting session counts.
ReadAs(status) ==
  /\ async_sessions' =
       [async_sessions EXCEPT
          ![it].status = status,
          ![it].reads  = IF async_sessions[it].status = "WAIT" THEN @ + 1 ELSE @]
  /\ Advance("perform_io")
  /\ UNCHANGED <<pending_requests, responses, added, answered>>

\* A read of a waiting session may end in any callback; by the last read it may
\* take the session is closed.
ReadNext ==
  /\ pc = "read"
  /\ LET s == async_sessions[it]
     IN  \E status \in AfterRead(s.status) :
           /\ s.status = "WAIT" /\ s.reads + 1 = MaxReads => status = "CLOSED"
           /\ ReadAs(status)

\* Mutant of CollectClosed: the session is not erased.
CollectClosedKept ==
  /\ pc = "collect"
  /\ it # 0
  /\ async_sessions[it].status = "CLOSED"
  /\ responses' = Append(responses, async_sessions[it].request)
  /\ it' = it - 1
  /\ UNCHANGED <<pending_requests, async_sessions, pc, added, answered>>

\* Mutant of CollectClosed: without --it.
CollectClosedNext ==
  /\ pc = "collect"
  /\ it # 0
  /\ async_sessions[it].status = "CLOSED"
  /\ responses' = Append(responses, async_sessions[it].request)
  /\ async_sessions' = RemoveAt(async_sessions, it)
  /\ it' = IF it <= Len(async_sessions') THEN it ELSE 0
  /\ UNCHANGED <<pending_requests, pc, added, answered>>

\* it = erase(it); --it: the list is circular in libstdc++ and libc++, so that
\* the predecessor of begin() is end().  Only the erasing branch moves it.
CollectClosed ==
  /\ pc = "collect"
  /\ it # 0
  /\ async_sessions[it].status = "CLOSED"
  /\ responses' = Append(responses, async_sessions[it].request)
  /\ async_sessions' = RemoveAt(async_sessions, it)
  /\ it' = it - 1
  /\ UNCHANGED <<pending_requests, pc, added, answered>>

CollectSkip ==
  /\ pc = "collect"
  /\ it # 0
  /\ async_sessions[it].status # "CLOSED"
  /\ UNCHANGED vars

CollectDone ==
  /\ pc = "collect"
  /\ it = 0
  /\ pc' = "return"
  /\ UNCHANGED <<pending_requests, async_sessions, it, responses, added, answered>>

Return ==
  /\ pc = "return"
  /\ pc' = "caller"
  /\ answered' = answered \o responses
  /\ responses' = <<>>
  /\ UNCHANGED <<pending_requests, async_sessions, it, added>>

Run ==
  \/ Promote \/ PromoteThrows \/ PromoteDone
  \/ PerformIo \/ SendNext \/ ReadNext
  \/ CollectClosed \/ CollectSkip \/ CollectDone
  \/ Return

Next == AddRequest \/ CallRun \/ Run

Spec == Init /\ [][Next]_vars

\* The thread that called run goes on, and the caller's loop calls it again.
FairSpec == Spec /\ WF_vars(Run) /\ WF_vars(CallRun)

--------------------------------------------------------------------------------
(* Safety *)

\* At no time are more sessions active than the strictest request among them
\* allows (README.rst:170), although a session may be promoted beside others
\* that were promoted under other limits.
ConcurrencyLimit ==
  \A i \in ActiveSessions : ActiveCount <= MaxAsync(async_sessions[i].request)

\* Every request added is in exactly one place: waiting, with a session, in the
\* responses of the current call, or answered; the calls that throw and the
\* erasures of the collect loop lose none and answer none twice.
EachRequestOnce ==
  LET sessions == [i \in DOMAIN async_sessions |-> async_sessions[i].request]
      everywhere == pending_requests \o sessions \o responses \o answered
  IN  Len(everywhere) = added /\ ToSet(everywhere) = 1 .. added

\* Requests get their session in the order they were added: the queue holds the
\* latest ones, in order, and none of them has been overtaken.
FirstComeFirstServed ==
  \A i \in DOMAIN pending_requests :
    pending_requests[i] = added - Len(pending_requests) + i

\* run returns std::nullopt only when nothing is left to do (session.hpp:263,
\* README.rst:144), and the caller may end its loop.
NoneMeansEmpty ==
  pc = "return" /\ responses = <<>> =>
    pending_requests = <<>> /\ async_sessions = <<>>

--------------------------------------------------------------------------------
(* Liveness *)

\* README.rst:144, "Run until one or more requests has completed": a call of run
\* comes back to its caller.
RunReturns == pc = "promote" ~> pc = "caller"

\* A request that was added is answered, if the caller goes on calling run.
AddedIsAnswered ==
  \A id \in Ids : added >= id ~> id \in ToSet(answered)

--------------------------------------------------------------------------------
(* What the caller sees of a manager *)

Queue == INSTANCE RequestQueue WITH
  waiting   <- pending_requests,
  running   <- [i \in DOMAIN async_sessions |-> async_sessions[i].request],
  finished  <- responses,
  delivered <- answered

\* Every step of run, of the calls that throw and of the caller is a step of the
\* queue or none: a request is never started out of turn, never dropped with a
\* session that is erased, and never delivered before it has finished.
ImplementsQueue == Queue!Spec

================================================================================
