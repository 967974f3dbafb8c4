--------------------------- MODULE SessionManagerProofs ---------------------------
(*******************************************************************************)
(* Theorems about SessionManager, for every list of submissions and every      *)
(* config: types, the limits of the sessions, the order of the queue, and what *)
(* None means.                                                                 *)
(*******************************************************************************)
EXTENDS SessionManager, OidProofs, FiniteSetTheorems, SequenceTheorems

--------------------------------------------------------------------------------
(* Settings *)

LEMMA MergeType ==
  ASSUME NEW settings \in Settings, NEW c \in Optional(Config),
         \A i \in DOMAIN c : ~ConfigThrows(c[i])
  PROVE  Merge(settings, c) \in Settings
<1>1. CASE c = None
  BY <1>1 DEF Merge
<1>2. CASE c # None
  <2> DEFINE own == c[1]
             value(setting) == ValueOr(own[setting], settings[setting])
             merged == Merge(settings, c)
  <2>1. own \in Config /\ ~ConfigThrows(own)
    <3>1. own \in Config
      BY <1>2, OptionalType
    <3>2. 1 \in DOMAIN c
      <4>1. c \in Seq(Config) /\ c # <<>>
        BY <1>2 DEF Optional, None
      <4> QED
        BY <4>1, EmptySeq, LenProperties
    <3> QED
      BY <3>1, <3>2
  <2>2. DOMAIN settings = { "retries", "timeout", "max_response_var_binds_per_pdu",
                            "max_async_sessions" }
    BY DEF Settings
  <2>3. merged = [setting \in DOMAIN settings |-> value(setting)]
    BY <1>2 DEF Merge
  <2>4. /\ value("retries") \in Int /\ value("timeout") \in Int
        /\ value("max_response_var_binds_per_pdu") \in Nat
        /\ value("max_async_sessions") \in Nat
    BY <2>1, OptionalType DEF Config, Settings
  <2>5. /\ value("retries") >= 0 /\ value("timeout") >= 0
        /\ value("max_async_sessions") >= 1
    BY <2>1, <2>4 DEF ConfigThrows, ValueOr, Settings
  <2> HIDE DEF value, merged, own
  <2>6. merged = [ retries |-> value("retries"), timeout |-> value("timeout"),
                   max_response_var_binds_per_pdu |->
                     value("max_response_var_binds_per_pdu"),
                   max_async_sessions |-> value("max_async_sessions") ]
    BY <2>2, <2>3
  <2> QED
    BY <2>4, <2>5, <2>6 DEF Settings, merged
<1> QED
  BY <1>1, <1>2

LEMMA DefaultSettingsType == DefaultSettings \in Settings
BY DEF DefaultSettings, Settings

LEMMA MaxAsyncType ==
  ASSUME NEW id \in Ids
  PROVE  MaxAsync(id) \in Nat \ {0}
<1>1. config \in Settings
  BY ManagerConfigAssumption, DefaultSettingsType, MergeType DEF config
<1>2. /\ Submissions[id] \in SubmittedRequest
      /\ \A i \in DOMAIN Submissions[id].config : ~ConfigThrows(Submissions[id].config[i])
  BY SubmissionsAssumption DEF Ids
<1>3. Merge(config, Submissions[id].config) \in Settings
  BY <1>1, <1>2, MergeType DEF SubmittedRequest
<1>4. Queued(id).config = Merge(config, Submissions[id].config)
  BY <1>2 DEF Queued, SubmittedRequest
<1> QED
  BY <1>3, <1>4 DEF MaxAsync, Settings

--------------------------------------------------------------------------------
(* How many sessions of a list are active *)

ActiveIn(list) == { i \in 1 .. Len(list) : list[i].status # "CLOSED" }

LEMMA ActiveInType ==
  ASSUME NEW list \in Seq(AsyncSession)
  PROVE  /\ IsFiniteSet(ActiveIn(list))
         /\ Cardinality(ActiveIn(list)) \in Nat
         /\ Cardinality(ActiveIn(list)) <= Len(list)
         /\ list = <<>> => Cardinality(ActiveIn(list)) = 0
<1>1. Len(list) \in Nat
  OBVIOUS
<1>2. /\ IsFiniteSet(1 .. Len(list)) /\ Cardinality(1 .. Len(list)) = Len(list)
  <2>1. /\ IsFiniteSet(1 .. Len(list))
        /\ Cardinality(1 .. Len(list)) = IF 1 > Len(list) THEN 0 ELSE Len(list) - 1 + 1
    <3>1. 1 \in Int /\ Len(list) \in Int
      BY <1>1
    <3> QED
      BY <3>1, FS_Interval, Zenon
  <2> QED
    BY <1>1, <2>1
<1>3. ActiveIn(list) \in SUBSET (1 .. Len(list))
  BY DEF ActiveIn
<1>4. IsFiniteSet(ActiveIn(list)) /\ Cardinality(ActiveIn(list)) <= Len(list)
  BY <1>2, <1>3, FS_Subset
<1>5. Cardinality(ActiveIn(list)) \in Nat
  BY <1>4, FS_CardinalityType
<1>6. list = <<>> => Cardinality(ActiveIn(list)) = 0
  <2>1. list = <<>> => ActiveIn(list) = {}
    BY DEF ActiveIn
  <2> QED
    BY <2>1, FS_EmptySet
<1> QED
  BY <1>4, <1>5, <1>6

LEMMA ActiveInAppend ==
  ASSUME NEW list \in Seq(AsyncSession), NEW s \in AsyncSession
  PROVE  Cardinality(ActiveIn(Append(list, s))) =
           Cardinality(ActiveIn(list)) + (IF s.status = "CLOSED" THEN 0 ELSE 1)
<1> DEFINE n == Len(list)
           more == Append(list, s)
<1>1. /\ n \in Nat /\ Len(more) = n + 1 /\ more[n + 1] = s
      /\ \A i \in 1 .. n : more[i] = list[i]
  OBVIOUS
<1> HIDE DEF more
<1>2. CASE s.status = "CLOSED"
  <2>1. ActiveIn(more) = ActiveIn(list)
    BY <1>1, <1>2 DEF ActiveIn
  <2> QED
    BY <1>2, <2>1, ActiveInType DEF more
<1>3. CASE s.status # "CLOSED"
  <2>1. ActiveIn(more) = ActiveIn(list) \cup {n + 1} /\ n + 1 \notin ActiveIn(list)
    BY <1>1, <1>3 DEF ActiveIn
  <2>2. IsFiniteSet(ActiveIn(list))
    BY ActiveInType
  <2>3. Cardinality(ActiveIn(more)) = Cardinality(ActiveIn(list)) + 1
    BY <2>1, <2>2, FS_AddElement
  <2> QED
    BY <1>3, <2>3 DEF more
<1> QED
  BY <1>2, <1>3

LEMMA ActiveInUpdate ==
  ASSUME NEW list \in Seq(AsyncSession), NEW i \in 1 .. Len(list), NEW s \in AsyncSession,
         list[i].status = "CLOSED" => s.status = "CLOSED"
  PROVE  Cardinality(ActiveIn([list EXCEPT ![i] = s])) <= Cardinality(ActiveIn(list))
<1> DEFINE other == [list EXCEPT ![i] = s]
<1>1. /\ Len(other) = Len(list) /\ other[i] = s
      /\ \A j \in 1 .. Len(list) : j # i => other[j] = list[j]
  OBVIOUS
<1> HIDE DEF other
<1>2. ActiveIn(other) \in SUBSET ActiveIn(list)
  BY <1>1 DEF ActiveIn
<1>3. IsFiniteSet(ActiveIn(list))
  BY ActiveInType
<1> QED
  BY <1>2, <1>3, FS_Subset DEF other

LEMMA RemoveAtType ==
  ASSUME NEW S, NEW list \in Seq(S), NEW i \in 1 .. Len(list)
  PROVE  /\ RemoveAt(list, i) \in Seq(S)
         /\ Len(RemoveAt(list, i)) = Len(list) - 1
         /\ \A j \in 1 .. Len(list) - 1 :
              RemoveAt(list, i)[j] = list[IF j < i THEN j ELSE j + 1]
<1> DEFINE n == Len(list)
           front == SubSeq(list, 1, i - 1)
           back  == SubSeq(list, i + 1, n)
<1>1. n \in Nat /\ i \in 1 .. n
  OBVIOUS
<1>2. /\ front \in Seq(S) /\ Len(front) = i - 1
      /\ \A j \in 1 .. i - 1 : front[j] = list[j]
  BY <1>1
<1>3. /\ back \in Seq(S) /\ Len(back) = n - i
      /\ \A j \in 1 .. n - i : back[j] = list[i + j]
  BY <1>1
<1>4. RemoveAt(list, i) = front \o back
  BY DEF RemoveAt
<1> HIDE DEF n, front, back
<1>5. /\ front \o back \in Seq(S) /\ Len(front \o back) = Len(front) + Len(back)
      /\ \A j \in 1 .. Len(front) + Len(back) :
           (front \o back)[j] = IF j <= Len(front) THEN front[j] ELSE back[j - Len(front)]
  BY <1>2, <1>3, ConcatProperties
<1>6. ASSUME NEW j \in 1 .. n - 1
      PROVE  (front \o back)[j] = list[IF j < i THEN j ELSE j + 1]
  <2>1. CASE j < i
    BY <1>1, <1>2, <1>3, <1>5, <2>1
  <2>2. CASE ~(j < i)
    <3>1. j - (i - 1) \in 1 .. n - i /\ i + (j - (i - 1)) = j + 1
      BY <1>1, <2>2
    <3> QED
      BY <1>1, <1>2, <1>3, <1>5, <2>2, <3>1
  <2> QED
    BY <2>1, <2>2
<1>7. Len(front \o back) = n - 1
  BY <1>1, <1>2, <1>3, <1>5
<1> QED
  BY <1>4, <1>5, <1>6, <1>7 DEF n

LEMMA ActiveInRemove ==
  ASSUME NEW list \in Seq(AsyncSession), NEW i \in 1 .. Len(list)
  PROVE  Cardinality(ActiveIn(RemoveAt(list, i))) <= Cardinality(ActiveIn(list))
<1> DEFINE less == RemoveAt(list, i)
<1>1. /\ Len(list) \in Nat /\ Len(less) = Len(list) - 1
      /\ \A j \in 1 .. Len(list) - 1 : less[j] = list[IF j < i THEN j ELSE j + 1]
  <2>1. Len(list) \in Nat
    OBVIOUS
  <2> QED
    BY <2>1, RemoveAtType, Zenon
<1> HIDE DEF less
<1> DEFINE f == [j \in ActiveIn(less) |-> IF j < i THEN j ELSE j + 1]
<1>2. ASSUME NEW j \in ActiveIn(less)
      PROVE  f[j] \in ActiveIn(list)
  <2> DEFINE k == IF j < i THEN j ELSE j + 1
  <2>1. j \in 1 .. Len(list) - 1 /\ less[j].status # "CLOSED"
    BY <1>1 DEF ActiveIn
  <2>2. k \in 1 .. Len(list) /\ less[j] = list[k]
    BY <1>1, <2>1
  <2> HIDE DEF k
  <2>3. k \in ActiveIn(list)
    BY <2>1, <2>2 DEF ActiveIn
  <2> QED
    BY <2>3 DEF k
<1>3. ASSUME NEW j \in ActiveIn(less), NEW k \in ActiveIn(less), f[j] = f[k]
      PROVE  j = k
  <2>1. j \in Int /\ k \in Int /\ i \in Int
    BY <1>1 DEF ActiveIn
  <2> QED
    BY <1>3, <2>1
<1>4. f \in [ActiveIn(less) -> ActiveIn(list)]
  BY <1>2
<1> HIDE DEF f
<1>5. f \in Injection(ActiveIn(less), ActiveIn(list))
  BY <1>3, <1>4, Zenon DEF Injection, IsInjective
<1>6. IsFiniteSet(ActiveIn(list))
  BY ActiveInType
<1> QED
  BY <1>5, <1>6, FS_Injection DEF less

--------------------------------------------------------------------------------
(* The inductive invariant: types (the iterator of run among them), what the   *)
(* list and the responses hold at each place of run, and that no session       *)
(* outlives its reads.                                                         *)

Positions ==
  /\ pc \in {"perform_io", "send", "read"} => async_sessions # <<>>
  /\ pc = "collect" => it # 0 \/ responses # <<>>

ReadsBound ==
  \A i \in 1 .. Len(async_sessions) :
    async_sessions[i].reads = MaxReads => async_sessions[i].status = "CLOSED"

IInv == TypeOK /\ Positions /\ ReadsBound

LEMMA BeginType ==
  ASSUME NEW list \in Seq(AsyncSession)
  PROVE  /\ Begin(list) \in Nat /\ Begin(list) <= Len(list)
         /\ list # <<>> => Begin(list) # 0
BY EmptySeq DEF Begin

LEMMA UpdateType ==
  ASSUME IInv, NEW s \in AsyncSession, pc \in {"send", "read"},
         s.reads = MaxReads => s.status = "CLOSED",
         async_sessions' = [async_sessions EXCEPT ![it] = s]
  PROVE  /\ async_sessions' \in Seq(AsyncSession)
         /\ Len(async_sessions') = Len(async_sessions)
         /\ ReadsBound'
<1> DEFINE list == async_sessions'
<1>1. async_sessions \in Seq(AsyncSession) /\ it \in 1 .. Len(async_sessions)
  BY DEF IInv, TypeOK, Positions
<1>2. /\ list \in Seq(AsyncSession) /\ Len(list) = Len(async_sessions)
      /\ \A i \in 1 .. Len(list) :
           list[i] = IF i = it THEN s ELSE async_sessions[i]
  BY <1>1, ExceptSeq
<1>3. \A i \in 1 .. Len(list) : list[i].reads = MaxReads => list[i].status = "CLOSED"
  BY <1>1, <1>2 DEF IInv, ReadsBound
<1> QED
  BY <1>2, <1>3 DEF ReadsBound

\* A pass over the sessions goes on or ends, with the iterator on a session.
LEMMA AdvancePositions ==
  ASSUME IInv, pc \in {"send", "read"}, NEW next \in {"read", "perform_io"},
         Advance(next), async_sessions' \in Seq(AsyncSession),
         Len(async_sessions') = Len(async_sessions)
  PROVE  /\ Positions' /\ it' \in 1 .. Len(async_sessions')
         /\ pc' \in {"send", "read", "perform_io"}
<1>1. /\ async_sessions \in Seq(AsyncSession) /\ async_sessions # <<>>
      /\ it \in 1 .. Len(async_sessions)
  BY DEF IInv, TypeOK, Positions
<1>2. async_sessions' # <<>>
  BY <1>1, EmptySeq
<1>3. CASE it < Len(async_sessions)
  BY <1>1, <1>2, <1>3 DEF Advance, Positions
<1>4. CASE ~(it < Len(async_sessions))
  BY <1>1, <1>2, <1>4, BeginType DEF Advance, Positions
<1> QED
  BY <1>3, <1>4

LEMMA InitIInv == Init => IInv
BY EmptySeq DEF Init, IInv, TypeOK, Positions, ReadsBound

LEMMA CallerIInv ==
  ASSUME IInv, AddRequest \/ CallRun
  PROVE  IInv'
<1>1. CASE AddRequest
  <2>1. added + 1 \in 1 .. Len(Submissions) /\ Ids = 1 .. Len(Submissions)
    <3>1. Submissions \in Seq(SubmittedRequest)
      BY SubmissionsAssumption
    <3> QED
      BY <1>1, <3>1 DEF AddRequest, Ids, IInv, TypeOK
  <2>2. Append(pending_requests, added + 1) \in Seq(Ids)
    BY <2>1 DEF IInv, TypeOK
  <2> QED
    BY <1>1, <2>1, <2>2 DEF AddRequest, IInv, TypeOK, Positions, ReadsBound
<1>2. CASE CallRun
  <2>1. responses' \in Seq(Ids)
    BY <1>2, EmptySeq DEF CallRun
  <2> QED
    BY <1>2, <2>1 DEF CallRun, IInv, TypeOK, Positions, ReadsBound
<1> QED
  BY <1>1, <1>2

LEMMA PromoteIInv ==
  ASSUME IInv, Promote
  PROVE  IInv'
<1>1. /\ pending_requests \in Seq(Ids) /\ pending_requests # <<>>
      /\ async_sessions \in Seq(AsyncSession)
  BY DEF Promote, MayPromote, IInv, TypeOK
<1>2. Head(pending_requests) \in Ids /\ Tail(pending_requests) \in Seq(Ids)
  BY <1>1, HeadTailProperties
<1>3. PICK status \in Created :
        async_sessions' = Append(async_sessions,
          [request |-> Head(pending_requests), status |-> status, reads |-> 0])
  BY DEF Promote, PromoteAs
<1> DEFINE s == [request |-> Head(pending_requests), status |-> status, reads |-> 0]
<1>4. s \in AsyncSession /\ s.reads # MaxReads
  BY <1>2, MaxReadsAssumption DEF AsyncSession, Created, Status
<1> HIDE DEF s
<1>5. /\ async_sessions' \in Seq(AsyncSession)
      /\ Len(async_sessions') = Len(async_sessions) + 1
      /\ async_sessions'[Len(async_sessions) + 1] = s
      /\ \A i \in 1 .. Len(async_sessions) : async_sessions'[i] = async_sessions[i]
  BY <1>1, <1>3, <1>4 DEF s
<1>6. ReadsBound'
  BY <1>1, <1>4, <1>5 DEF IInv, ReadsBound
<1>7. Positions'
  BY <1>1, <1>5 DEF Promote, PromoteAs, IInv, TypeOK, Positions
<1>8. TypeOK'
  BY <1>2, <1>5 DEF Promote, PromoteAs, IInv, TypeOK
<1> QED
  BY <1>6, <1>7, <1>8 DEF IInv

LEMMA SendAsIs ==
  ASSUME NEW status, SendAs(status)
  PROVE  async_sessions' =
           [async_sessions EXCEPT ![it] = [async_sessions[it] EXCEPT !.status = status]]
BY DEF SendAs

\* What a read leaves of the session it is called on.
ReadsAfter(s) == IF s.status = "WAIT" THEN s.reads + 1 ELSE s.reads

LEMMA ReadAsIs ==
  ASSUME async_sessions \in Seq(AsyncSession), it \in 1 .. Len(async_sessions),
         NEW status, ReadAs(status)
  PROVE  async_sessions' =
           [async_sessions EXCEPT ![it] =
              [async_sessions[it] EXCEPT !.status = status,
                                         !.reads = ReadsAfter(async_sessions[it])]]
BY DEF ReadAs, ReadsAfter

\* A pass of send or of read replaces the session it has come to, and no other, by
\* one of the same request that is no less closed.
LEMMA PassReplaces ==
  ASSUME IInv, SendNext \/ ReadNext
  PROVE  /\ it \in 1 .. Len(async_sessions)
         /\ \E t \in AsyncSession :
              /\ async_sessions' = [async_sessions EXCEPT ![it] = t]
              /\ t.request = async_sessions[it].request
              /\ async_sessions[it].status = "CLOSED" => t.status = "CLOSED"
              /\ t.reads = MaxReads => t.status = "CLOSED"
         /\ \E next \in {"read", "perform_io"} : Advance(next)
         /\ UNCHANGED <<pending_requests, responses, added, answered>>
<1>1. /\ pc \in {"send", "read"}
      /\ async_sessions \in Seq(AsyncSession) /\ it \in 1 .. Len(async_sessions)
  <2>1. pc \in {"send", "read"}
    BY DEF SendNext, ReadNext
  <2> QED
    BY <2>1 DEF IInv, TypeOK
<1> DEFINE s == async_sessions[it]
           Replaced(t) ==
             /\ async_sessions' = [async_sessions EXCEPT ![it] = t]
             /\ t.request = s.request
             /\ s.status = "CLOSED" => t.status = "CLOSED"
             /\ t.reads = MaxReads => t.status = "CLOSED"
<1>2. s \in AsyncSession /\ (s.reads = MaxReads => s.status = "CLOSED")
  BY <1>1, ElementOfSeq DEF IInv, ReadsBound
<1>3. ASSUME SendNext
      PROVE  \E t \in AsyncSession : Replaced(t)
  <2>1. PICK status \in AfterSend(s.status) : SendAs(status)
    BY <1>3 DEF SendNext
  <2> DEFINE t == [s EXCEPT !.status = status]
  <2>2. async_sessions' = [async_sessions EXCEPT ![it] = t]
    BY <2>1, SendAsIs
  <2> HIDE DEF s
  <2>3. /\ t \in AsyncSession /\ t.request = s.request
        /\ s.status = "CLOSED" => t.status = "CLOSED"
        /\ t.reads = MaxReads => t.status = "CLOSED"
    BY <1>2, <2>1 DEF AsyncSession, AfterSend, Status
  <2> QED
    BY <2>2, <2>3
<1>4. ASSUME ReadNext
      PROVE  \E t \in AsyncSession : Replaced(t)
  <2>1. PICK status \in AfterRead(s.status) :
          /\ s.status = "WAIT" /\ s.reads + 1 = MaxReads => status = "CLOSED"
          /\ ReadAs(status)
    BY <1>4 DEF ReadNext
  <2> DEFINE n == ReadsAfter(s)
             t == [s EXCEPT !.status = status, !.reads = n]
  <2>2. /\ status \in Status /\ n \in 0 .. MaxReads
        /\ s.status = "CLOSED" => status = "CLOSED"
        /\ n = MaxReads => status = "CLOSED"
    BY <1>2, <2>1, MaxReadsAssumption DEF AsyncSession, AfterRead, Status, ReadsAfter
  <2>3. async_sessions' = [async_sessions EXCEPT ![it] = t]
    BY <1>1, <2>1, ReadAsIs
  <2> HIDE DEF s, n
  <2>4. /\ t \in AsyncSession /\ t.request = s.request
        /\ s.status = "CLOSED" => t.status = "CLOSED"
        /\ t.reads = MaxReads => t.status = "CLOSED"
    BY <1>2, <2>2 DEF AsyncSession
  <2> QED
    BY <2>3, <2>4
<1>5. /\ \E next \in {"read", "perform_io"} : Advance(next)
      /\ UNCHANGED <<pending_requests, responses, added, answered>>
  BY DEF SendNext, SendAs, ReadNext, ReadAs
<1> QED
  BY <1>1, <1>3, <1>4, <1>5

LEMMA PassIInv ==
  ASSUME IInv, SendNext \/ ReadNext
  PROVE  IInv'
<1>1. PICK t \in AsyncSession :
        /\ async_sessions' = [async_sessions EXCEPT ![it] = t]
        /\ t.reads = MaxReads => t.status = "CLOSED"
  BY PassReplaces
<1>2. PICK next \in {"read", "perform_io"} : Advance(next)
  BY PassReplaces
<1>3. pc \in {"send", "read"}
  BY DEF SendNext, ReadNext
<1>4. /\ async_sessions' \in Seq(AsyncSession)
      /\ Len(async_sessions') = Len(async_sessions) /\ ReadsBound'
  BY <1>1, <1>3, UpdateType
<1>5. /\ Positions' /\ it' \in 1 .. Len(async_sessions')
      /\ pc' \in {"send", "read", "perform_io"}
  BY <1>2, <1>3, <1>4, AdvancePositions
<1>6. Len(async_sessions') \in Nat
  BY <1>4
<1> QED
  BY <1>4, <1>5, <1>6, PassReplaces DEF IInv, TypeOK

LEMMA CollectIInv ==
  ASSUME IInv, CollectClosed
  PROVE  IInv'
<1>1. /\ async_sessions \in Seq(AsyncSession) /\ it \in 1 .. Len(async_sessions)
      /\ responses \in Seq(Ids)
  BY DEF CollectClosed, IInv, TypeOK, Positions
<1>2. async_sessions[it].request \in Ids
  <2>1. async_sessions[it] \in AsyncSession
    BY <1>1, ElementOfSeq
  <2> QED
    BY <2>1 DEF AsyncSession
<1>3. /\ async_sessions' \in Seq(AsyncSession)
      /\ Len(async_sessions') = Len(async_sessions) - 1
      /\ \A j \in 1 .. Len(async_sessions) - 1 :
           async_sessions'[j] = async_sessions[IF j < it THEN j ELSE j + 1]
  BY <1>1, RemoveAtType DEF CollectClosed
<1>4. responses' \in Seq(Ids) /\ responses' # <<>>
  BY <1>1, <1>2 DEF CollectClosed
<1>5. ReadsBound'
  BY <1>1, <1>3 DEF IInv, ReadsBound
<1>6. it' \in 0 .. Len(async_sessions')
  BY <1>1, <1>3 DEF CollectClosed
<1> QED
  BY <1>3, <1>4, <1>5, <1>6 DEF CollectClosed, IInv, TypeOK, Positions

LEMMA ReturnIInv ==
  ASSUME IInv, Return
  PROVE  IInv'
<1>1. answered' \in Seq(Ids)
  BY ConcatProperties DEF Return, IInv, TypeOK
<1>2. responses' \in Seq(Ids)
  BY EmptySeq DEF Return
<1> QED
  BY <1>1, <1>2 DEF Return, IInv, TypeOK, Positions, ReadsBound

LEMMA NextIInv == IInv /\ [Next]_vars => IInv'
<1> SUFFICES ASSUME IInv, [Next]_vars PROVE IInv'
  OBVIOUS
<1>1. CASE PromoteThrows
  BY <1>1 DEF PromoteThrows, IInv, TypeOK, Positions, ReadsBound
<1>2. CASE PromoteDone
  BY <1>2 DEF PromoteDone, IInv, TypeOK, Positions, ReadsBound
<1>3. CASE PerformIo
  <2>1. async_sessions \in Seq(AsyncSession) /\ async_sessions # <<>>
    BY <1>3 DEF PerformIo, IInv, TypeOK, Positions
  <2>2. it' \in 0 .. Len(async_sessions) /\ it' # 0
    BY <1>3, <2>1, BeginType DEF PerformIo
  <2> QED
    BY <1>3, <2>1, <2>2 DEF PerformIo, IInv, TypeOK, Positions, ReadsBound
<1>4. CASE CollectDone
  BY <1>4 DEF CollectDone, IInv, TypeOK, Positions, ReadsBound
<1>5. CASE CollectSkip \/ UNCHANGED vars
  BY <1>5 DEF CollectSkip, vars, IInv, TypeOK, Positions, ReadsBound
<1> QED
  BY <1>1, <1>2, <1>3, <1>4, <1>5, CallerIInv, PromoteIInv, PassIInv, CollectIInv,
     ReturnIInv DEF Next, Run

LEMMA InvariantIInv == Spec => []IInv
BY InitIInv, NextIInv, PTL DEF Spec

\* TypeOK of the manager, for every list of submissions: in particular the
\* iterator of a pass of run never leaves the list.
THEOREM ManagerTypeCorrect == Spec => []TypeOK
<1>1. IInv => TypeOK
  BY DEF IInv
<1> QED
  BY <1>1, InvariantIInv, PTL

--------------------------------------------------------------------------------
(* What None means *)

LEMMA NothingActive ==
  ASSUME async_sessions = <<>>
  PROVE  ActiveSessions = {} /\ ActiveCount = 0
BY FS_EmptySet DEF ActiveSessions, ActiveCount

\* NoneMeansEmpty: run returns None only when nothing waits and nothing runs.
THEOREM NoneOnlyWhenEmpty == Spec => []NoneMeansEmpty
<1>1. Init => NoneMeansEmpty
  BY DEF Init, NoneMeansEmpty
<1>2. IInv /\ NoneMeansEmpty /\ [Next]_vars => NoneMeansEmpty'
  <2> SUFFICES ASSUME IInv, NoneMeansEmpty, [Next]_vars,
                      pc' = "return", responses' = <<>>
               PROVE  pending_requests' = <<>> /\ async_sessions' = <<>>
    BY DEF NoneMeansEmpty
  <2>1. CASE PromoteDone
    <3>1. async_sessions = <<>> /\ ~MayPromote
      BY <2>1 DEF PromoteDone
    <3>2. ASSUME pending_requests # <<>> PROVE FALSE
      <4>1. Head(pending_requests) \in Ids
        BY <3>2, HeadTailProperties DEF IInv, TypeOK
      <4>2. 1 <= MaxAsync(Head(pending_requests))
        BY <4>1, MaxAsyncType
      <4> QED
        BY <3>1, <3>2, <4>2, NothingActive DEF MayPromote, Fits
    <3> QED
      BY <2>1, <3>1, <3>2 DEF PromoteDone
  <2>2. CASE CollectDone
    BY <2>2 DEF CollectDone, IInv, Positions
  <2>3. CASE CollectSkip \/ UNCHANGED vars
    BY <2>3 DEF CollectSkip, vars, NoneMeansEmpty
  <2>4. CASE SendNext \/ ReadNext
    BY <2>4 DEF SendNext, ReadNext, SendAs, ReadAs, Advance
  <2>5. CASE AddRequest \/ CallRun \/ Promote \/ PromoteThrows \/ PerformIo \/ CollectClosed
             \/ Return
    BY <2>5 DEF AddRequest, CallRun, Promote, PromoteAs, PromoteThrows, PerformIo, CollectClosed, Return
  <2> QED
    BY <2>1, <2>2, <2>3, <2>4, <2>5 DEF Next, Run
<1> QED
  BY <1>1, <1>2, InvariantIInv, PTL DEF Spec

--------------------------------------------------------------------------------
(* The order of the queue *)

\* FirstComeFirstServed: the queue holds the latest requests in the order they
\* were added.
THEOREM InOrderOfSubmission == Spec => []FirstComeFirstServed
<1>1. Init => FirstComeFirstServed
  BY DEF Init, FirstComeFirstServed
<1>2. IInv /\ FirstComeFirstServed /\ [Next]_vars => FirstComeFirstServed'
  <2> SUFFICES ASSUME IInv, FirstComeFirstServed, [Next]_vars
               PROVE  FirstComeFirstServed'
    OBVIOUS
  <2> DEFINE n == Len(pending_requests)
  <2>1. /\ pending_requests \in Seq(Ids) /\ n \in Nat /\ added \in Nat
        /\ DOMAIN pending_requests = 1 .. n
        /\ \A i \in 1 .. n : pending_requests[i] = added - n + i
    BY DEF IInv, TypeOK, FirstComeFirstServed
  <2>2. CASE UNCHANGED <<pending_requests, added>>
    BY <2>2 DEF FirstComeFirstServed
  <2>3. CASE AddRequest
    <3>1. pending_requests' = Append(pending_requests, added + 1) /\ added' = added + 1
      BY <2>3 DEF AddRequest
    <3>2. /\ DOMAIN pending_requests' = 1 .. n + 1 /\ Len(pending_requests') = n + 1
          /\ pending_requests'[n + 1] = added + 1
          /\ \A i \in 1 .. n : pending_requests'[i] = pending_requests[i]
      BY <2>1, <3>1
    <3> HIDE DEF n
    <3>3. \A i \in 1 .. n + 1 : pending_requests'[i] = added' - (n + 1) + i
      BY <2>1, <3>1, <3>2
    <3> QED
      BY <3>2, <3>3 DEF FirstComeFirstServed
  <2>4. CASE Promote
    <3>1. /\ pending_requests # <<>> /\ pending_requests' = Tail(pending_requests)
          /\ added' = added
      BY <2>4 DEF Promote, PromoteAs, MayPromote
    <3>2. /\ pending_requests' \in Seq(Ids) /\ Len(pending_requests') = n - 1
          /\ \A i \in 1 .. n - 1 : pending_requests'[i] = pending_requests[i + 1]
      BY <2>1, <3>1, HeadTailProperties
    <3>3. DOMAIN pending_requests' = 1 .. n - 1
      BY <3>2, LenProperties
    <3> HIDE DEF n
    <3>4. \A i \in 1 .. n - 1 : pending_requests'[i] = added' - (n - 1) + i
      BY <2>1, <3>1, <3>2
    <3> QED
      BY <3>2, <3>3, <3>4 DEF FirstComeFirstServed
  <2> QED
    BY <2>2, <2>3, <2>4 DEF Next, Run, CallRun, PromoteThrows, PromoteDone, PerformIo,
       SendNext, SendAs, ReadNext, ReadAs, CollectClosed, CollectSkip, CollectDone,
       Return, vars
<1> QED
  BY <1>1, <1>2, InvariantIInv, PTL DEF Spec

--------------------------------------------------------------------------------
(* The limits *)

\* ConcurrencyLimit, of any list.
Limited(list) ==
  \A i \in ActiveIn(list) : Cardinality(ActiveIn(list)) <= MaxAsync(list[i].request)

\* A list with no more active sessions, each under the limit of an active one of
\* the list before, keeps to the limits.
LEMMA FewerLimited ==
  ASSUME NEW list \in Seq(AsyncSession), NEW other \in Seq(AsyncSession), Limited(list),
         Cardinality(ActiveIn(other)) <= Cardinality(ActiveIn(list)),
         \A i \in ActiveIn(other) :
           \E j \in ActiveIn(list) : other[i].request = list[j].request
  PROVE  Limited(other)
<1> SUFFICES ASSUME NEW i \in ActiveIn(other)
             PROVE  Cardinality(ActiveIn(other)) <= MaxAsync(other[i].request)
  BY DEF Limited
<1>1. PICK j \in ActiveIn(list) : other[i].request = list[j].request
  OBVIOUS
<1>2. list[j] \in AsyncSession
  BY ElementOfSeq DEF ActiveIn
<1>3. MaxAsync(list[j].request) \in Nat
  BY <1>2, MaxAsyncType DEF AsyncSession
<1>4. Cardinality(ActiveIn(list)) <= MaxAsync(list[j].request)
  BY DEF Limited
<1>5. Cardinality(ActiveIn(list)) \in Nat /\ Cardinality(ActiveIn(other)) \in Nat
  BY ActiveInType
<1> QED
  BY <1>1, <1>3, <1>4, <1>5

\* ConcurrencyLimit: never more active sessions than the strictest active request
\* allows, whatever the limits and the order of the requests.
THEOREM WithinLimits == Spec => []ConcurrencyLimit
<1>1. ASSUME TypeOK
      PROVE  /\ ActiveSessions = ActiveIn(async_sessions)
             /\ ConcurrencyLimit <=> Limited(async_sessions)
  <2>1. DOMAIN async_sessions = 1 .. Len(async_sessions)
    BY <1>1, LenProperties DEF TypeOK
  <2>2. ActiveSessions = ActiveIn(async_sessions)
    BY <2>1 DEF ActiveSessions, ActiveIn
  <2> QED
    BY <2>2 DEF ConcurrencyLimit, ActiveCount, Limited
<1>2. Init => Limited(async_sessions)
  BY DEF Init, Limited, ActiveIn
<1>3. ASSUME IInv, IInv', Limited(async_sessions), [Next]_vars
      PROVE  Limited(async_sessions')
  <2>1. async_sessions \in Seq(AsyncSession) /\ async_sessions' \in Seq(AsyncSession)
    BY <1>3 DEF IInv, TypeOK
  <2>2. CASE async_sessions' = async_sessions
    BY <1>3, <2>2
  <2>3. CASE Promote
    <3> DEFINE id == Head(pending_requests)
               n  == Len(async_sessions)
               count == Cardinality(ActiveIn(async_sessions))
    <3>1. PICK status \in Created :
            async_sessions' = Append(async_sessions,
                                     [request |-> id, status |-> status, reads |-> 0])
      BY <2>3 DEF Promote, PromoteAs
    <3> DEFINE s == [request |-> id, status |-> status, reads |-> 0]
    <3>2. s \in AsyncSession
      <4>1. id \in Ids
        BY <1>3, <2>3, HeadTailProperties DEF Promote, MayPromote, IInv, TypeOK
      <4> QED
        BY <4>1, MaxReadsAssumption DEF AsyncSession, Created, Status
    <3>3. s.request = id /\ s.status = status
      OBVIOUS
    <3> HIDE DEF s
    <3>4. /\ count + 1 <= MaxAsync(id)
          /\ \A i \in ActiveIn(async_sessions) :
               count + 1 <= MaxAsync(async_sessions[i].request)
      BY <1>1, <1>3, <2>3 DEF Promote, MayPromote, Fits, ActiveCount, IInv
    <3>5. Cardinality(ActiveIn(async_sessions')) =
            count + (IF s.status = "CLOSED" THEN 0 ELSE 1)
      BY <2>1, <3>1, <3>2, ActiveInAppend DEF s
    <3>6. /\ n \in Nat /\ Len(async_sessions') = n + 1 /\ async_sessions'[n + 1] = s
          /\ \A i \in 1 .. n : async_sessions'[i] = async_sessions[i]
      BY <2>1, <3>1 DEF s
    <3>7. count \in Nat
      BY <2>1, ActiveInType
    <3> HIDE DEF count, n, id
    <3>8. CASE s.status = "CLOSED"
      <4>1. ActiveIn(async_sessions') = ActiveIn(async_sessions)
        BY <3>6, <3>8 DEF ActiveIn, n
      <4>2. \A i \in ActiveIn(async_sessions) : async_sessions'[i] = async_sessions[i]
        BY <3>6 DEF ActiveIn, n
      <4> QED
        BY <1>3, <4>1, <4>2 DEF Limited
    <3>9. CASE s.status # "CLOSED"
      <4>1. Cardinality(ActiveIn(async_sessions')) = count + 1
        BY <3>5, <3>9
      <4>2. ASSUME NEW i \in ActiveIn(async_sessions')
            PROVE  count + 1 <= MaxAsync(async_sessions'[i].request)
        <5>1. CASE i = n + 1
          BY <3>3, <3>4, <3>6, <5>1
        <5>2. CASE i # n + 1
          <6>1. i \in ActiveIn(async_sessions) /\ async_sessions'[i] = async_sessions[i]
            BY <3>6, <5>2 DEF ActiveIn, n
          <6> QED
            BY <3>4, <6>1
        <5> QED
          BY <5>1, <5>2
      <4> QED
        BY <4>1, <4>2 DEF Limited
    <3> QED
      BY <3>8, <3>9
  <2>4. ASSUME it \in 1 .. Len(async_sessions), NEW t \in AsyncSession,
               t.request = async_sessions[it].request,
               async_sessions[it].status = "CLOSED" => t.status = "CLOSED",
               async_sessions' = [async_sessions EXCEPT ![it] = t]
        PROVE  Limited(async_sessions')
    <3>1. Cardinality(ActiveIn(async_sessions')) <= Cardinality(ActiveIn(async_sessions))
      BY <2>1, <2>4, ActiveInUpdate
    <3>2. /\ Len(async_sessions') = Len(async_sessions)
          /\ \A j \in 1 .. Len(async_sessions) :
               async_sessions'[j] = IF j = it THEN t ELSE async_sessions[j]
      BY <2>1, <2>4, ExceptSeq
    <3>3. \A i \in ActiveIn(async_sessions') :
            /\ i \in ActiveIn(async_sessions)
            /\ async_sessions'[i].request = async_sessions[i].request
      BY <2>4, <3>2 DEF ActiveIn
    <3> QED
      BY <1>3, <2>1, <3>1, <3>3, FewerLimited
  <2>5. CASE SendNext \/ ReadNext
    BY <1>3, <2>4, <2>5, PassReplaces
  <2>6. CASE CollectClosed
    <3>1. it \in 1 .. Len(async_sessions)
      BY <1>3, <2>6 DEF CollectClosed, IInv, TypeOK, Positions
    <3>2. async_sessions' = RemoveAt(async_sessions, it)
      BY <2>6 DEF CollectClosed
    <3>3. /\ Len(async_sessions') = Len(async_sessions) - 1
          /\ \A j \in 1 .. Len(async_sessions) - 1 :
               async_sessions'[j] = async_sessions[IF j < it THEN j ELSE j + 1]
      BY <2>1, <3>1, <3>2, RemoveAtType
    <3>4. Cardinality(ActiveIn(async_sessions')) <= Cardinality(ActiveIn(async_sessions))
      BY <2>1, <3>1, <3>2, ActiveInRemove
    <3>5. ASSUME NEW i \in ActiveIn(async_sessions')
          PROVE  \E j \in ActiveIn(async_sessions) :
                   async_sessions'[i].request = async_sessions[j].request
      <4> DEFINE k == IF i < it THEN i ELSE i + 1
      <4>1. /\ i \in 1 .. Len(async_sessions) - 1 /\ Len(async_sessions) \in Nat
            /\ async_sessions'[i].status # "CLOSED"
        BY <2>1, <3>3 DEF ActiveIn
      <4>2. k \in 1 .. Len(async_sessions) /\ async_sessions'[i] = async_sessions[k]
        BY <3>1, <3>3, <4>1
      <4> HIDE DEF k
      <4>3. k \in ActiveIn(async_sessions)
        BY <4>1, <4>2 DEF ActiveIn
      <4> QED
        BY <4>2, <4>3
    <3> QED
      BY <1>3, <2>1, <3>4, <3>5, FewerLimited
  <2> QED
    BY <1>3, <2>2, <2>3, <2>5, <2>6 DEF Next, Run, AddRequest, CallRun, PromoteThrows,
       PromoteDone, PerformIo, CollectSkip, CollectDone, Return, vars
<1>4. IInv /\ IInv' /\ ConcurrencyLimit /\ [Next]_vars => ConcurrencyLimit'
  <2> SUFFICES ASSUME IInv, IInv', ConcurrencyLimit, [Next]_vars
               PROVE  ConcurrencyLimit'
    OBVIOUS
  <2>1. Limited(async_sessions)
    BY <1>1 DEF IInv
  <2>2. Limited(async_sessions')
    BY <1>3, <2>1
  <2>3. DOMAIN async_sessions' = 1 .. Len(async_sessions')
    BY LenProperties DEF IInv, TypeOK
  <2> QED
    BY <2>2, <2>3 DEF ConcurrencyLimit, ActiveCount, ActiveSessions, Limited, ActiveIn
<1>5. Init => ConcurrencyLimit
  BY <1>1, <1>2, InitIInv DEF IInv
<1> QED
  BY <1>4, <1>5, InvariantIInv, PTL DEF Spec

--------------------------------------------------------------------------------
(* No request is lost or answered twice *)

LEMMA ToSetOfParts ==
  ASSUME NEW S, NEW a \in Seq(S), NEW b \in Seq(S)
  PROVE  /\ a \o b \in Seq(S)
         /\ Len(a \o b) = Len(a) + Len(b)
         /\ ToSet(a \o b) = ToSet(a) \cup ToSet(b)
<1> DEFINE c == a \o b
<1>1. /\ c \in Seq(S) /\ Len(c) = Len(a) + Len(b)
      /\ \A i \in 1 .. Len(a) + Len(b) :
           c[i] = IF i <= Len(a) THEN a[i] ELSE b[i - Len(a)]
  BY ConcatProperties
<1>2. /\ DOMAIN a = 1 .. Len(a) /\ DOMAIN b = 1 .. Len(b) /\ DOMAIN c = 1 .. Len(c)
      /\ Len(a) \in Nat /\ Len(b) \in Nat
  BY <1>1, LenProperties
<1> HIDE DEF c
<1>3. ASSUME NEW x \in ToSet(c) PROVE x \in ToSet(a) \cup ToSet(b)
  <2>1. PICK i \in 1 .. Len(a) + Len(b) : x = c[i]
    BY <1>1, <1>2 DEF ToSet
  <2>2. CASE i <= Len(a)
    <3>1. i \in DOMAIN a /\ x = a[i]
      BY <1>1, <1>2, <2>1, <2>2
    <3> QED
      BY <3>1 DEF ToSet
  <2>3. CASE ~(i <= Len(a))
    <3>1. i - Len(a) \in DOMAIN b /\ x = b[i - Len(a)]
      BY <1>1, <1>2, <2>1, <2>3
    <3> QED
      BY <3>1 DEF ToSet
  <2> QED
    BY <2>2, <2>3
<1>4. ASSUME NEW i \in DOMAIN a PROVE a[i] \in ToSet(c)
  <2>1. i \in DOMAIN c /\ c[i] = a[i]
    BY <1>1, <1>2
  <2> QED
    BY <2>1 DEF ToSet
<1>5. ASSUME NEW i \in DOMAIN b PROVE b[i] \in ToSet(c)
  <2>1. Len(a) + i \in DOMAIN c /\ c[Len(a) + i] = b[i]
    BY <1>1, <1>2
  <2> QED
    BY <2>1, Zenon DEF ToSet
<1>6. ToSet(a) \subseteq ToSet(c) /\ ToSet(b) \subseteq ToSet(c)
  BY <1>4, <1>5 DEF ToSet
<1> QED
  BY <1>1, <1>3, <1>6 DEF c

LEMMA ToSetByOne ==
  ASSUME NEW S, NEW seq \in Seq(S), NEW x \in S
  PROVE  ToSet(Append(seq, x)) = ToSet(seq) \cup {x}
<1>1. /\ Len(Append(seq, x)) = Len(seq) + 1 /\ Append(seq, x)[Len(seq) + 1] = x
      /\ \A i \in 1 .. Len(seq) : Append(seq, x)[i] = seq[i]
      /\ DOMAIN Append(seq, x) = 1 .. Len(seq) + 1
      /\ DOMAIN seq = 1 .. Len(seq) /\ Len(seq) \in Nat
  OBVIOUS
<1>2. 1 .. Len(seq) + 1 = (1 .. Len(seq)) \cup {Len(seq) + 1}
  BY <1>1
<1> QED
  BY <1>1, <1>2 DEF ToSet

LEMMA ToSetHeadTail ==
  ASSUME NEW S, NEW seq \in Seq(S), seq # <<>>
  PROVE  ToSet(seq) = {Head(seq)} \cup ToSet(Tail(seq))
<1>1. /\ Tail(seq) \in Seq(S) /\ Len(Tail(seq)) = Len(seq) - 1
      /\ \A i \in 1 .. Len(Tail(seq)) : Tail(seq)[i] = seq[i + 1]
  BY HeadTailProperties
<1>2. /\ DOMAIN seq = 1 .. Len(seq) /\ DOMAIN Tail(seq) = 1 .. Len(seq) - 1
      /\ Len(seq) \in Nat \ {0} /\ Head(seq) = seq[1]
  BY <1>1, LenProperties, EmptySeq
<1>3. ASSUME NEW i \in DOMAIN seq PROVE seq[i] \in {Head(seq)} \cup ToSet(Tail(seq))
  <2>1. CASE i = 1
    BY <1>2, <2>1
  <2>2. CASE i # 1
    <3>1. i - 1 \in DOMAIN Tail(seq) /\ Tail(seq)[i - 1] = seq[i]
      BY <1>1, <1>2, <2>2
    <3> QED
      BY <3>1, Zenon DEF ToSet
  <2> QED
    BY <2>1, <2>2
<1>4. ASSUME NEW i \in DOMAIN Tail(seq) PROVE Tail(seq)[i] \in ToSet(seq)
  <2>1. i + 1 \in DOMAIN seq /\ Tail(seq)[i] = seq[i + 1]
    BY <1>1, <1>2
  <2> QED
    BY <2>1, Zenon DEF ToSet
<1>5. Head(seq) \in ToSet(seq)
  BY <1>2 DEF ToSet
<1>6. ToSet(seq) \subseteq {Head(seq)} \cup ToSet(Tail(seq))
  BY <1>3 DEF ToSet
<1>7. ToSet(Tail(seq)) \subseteq ToSet(seq)
  BY <1>4 DEF ToSet
<1> QED
  BY <1>5, <1>6, <1>7

\* The requests that have a session.
RequestsOf(list) == { list[i].request : i \in 1 .. Len(list) }

\* EachRequestOnce as a count and a set: each of the parts may change alone.
Accounted ==
  /\ Len(pending_requests) + Len(async_sessions) + Len(responses) + Len(answered) = added
  /\ ToSet(pending_requests) \cup RequestsOf(async_sessions) \cup ToSet(responses)
       \cup ToSet(answered) = 1 .. added

\* Outside of the collect loop no response is on its way.
NothingHeld == pc \notin {"collect", "return"} => responses = <<>>

LEMMA AccountedIsOnce ==
  ASSUME TypeOK
  PROVE  EachRequestOnce <=> Accounted
<1> DEFINE sessions == [i \in DOMAIN async_sessions |-> async_sessions[i].request]
           ab == pending_requests \o sessions
           abc == ab \o responses
           everywhere == abc \o answered
<1>1. /\ pending_requests \in Seq(Ids) /\ async_sessions \in Seq(AsyncSession)
      /\ responses \in Seq(Ids) /\ answered \in Seq(Ids)
  BY DEF TypeOK
<1>2. DOMAIN async_sessions = 1 .. Len(async_sessions) /\ Len(async_sessions) \in Nat
  BY <1>1, LenProperties
<1>3. \A i \in 1 .. Len(async_sessions) : async_sessions[i].request \in Ids
  <2>1. \A i \in 1 .. Len(async_sessions) : async_sessions[i] \in AsyncSession
    BY <1>1, ElementOfSeq
  <2> QED
    BY <2>1 DEF AsyncSession
<1>4. /\ sessions \in Seq(Ids) /\ Len(sessions) = Len(async_sessions)
      /\ ToSet(sessions) = RequestsOf(async_sessions)
  <2>1. sessions = [i \in 1 .. Len(async_sessions) |-> async_sessions[i].request]
    BY <1>2
  <2>2. sessions \in Seq(Ids) /\ Len(sessions) = Len(async_sessions)
    BY <1>2, <1>3, <2>1
  <2>3. ToSet(sessions) = RequestsOf(async_sessions)
    BY <1>2, <2>1 DEF ToSet, RequestsOf
  <2> QED
    BY <2>2, <2>3
<1> HIDE DEF sessions
<1>5. /\ ab \in Seq(Ids) /\ Len(ab) = Len(pending_requests) + Len(sessions)
      /\ ToSet(ab) = ToSet(pending_requests) \cup ToSet(sessions)
  <2>1. pending_requests \in Seq(Ids) /\ sessions \in Seq(Ids)
    BY <1>1, <1>4
  <2> QED
    BY <2>1, ToSetOfParts
<1> HIDE DEF ab
<1>6. /\ abc \in Seq(Ids) /\ Len(abc) = Len(ab) + Len(responses)
      /\ ToSet(abc) = ToSet(ab) \cup ToSet(responses)
  <2>1. ab \in Seq(Ids) /\ responses \in Seq(Ids)
    BY <1>1, <1>5
  <2> QED
    BY <2>1, ToSetOfParts
<1> HIDE DEF abc
<1>7. /\ Len(everywhere) = Len(abc) + Len(answered)
      /\ ToSet(everywhere) = ToSet(abc) \cup ToSet(answered)
  <2>1. abc \in Seq(Ids) /\ answered \in Seq(Ids)
    BY <1>1, <1>6
  <2> QED
    BY <2>1, ToSetOfParts
<1> HIDE DEF everywhere
<1>8. EachRequestOnce <=> Len(everywhere) = added /\ ToSet(everywhere) = 1 .. added
  BY DEF EachRequestOnce, everywhere, abc, ab, sessions
<1> QED
  BY <1>4, <1>5, <1>6, <1>7, <1>8 DEF Accounted

\* EachRequestOnce: every request added is in exactly one place.
THEOREM NoneLostNoneTwice == Spec => []EachRequestOnce
<1>1. Init => NothingHeld /\ Accounted
  BY EmptySeq DEF Init, NothingHeld, Accounted, ToSet, RequestsOf
<1>2. NothingHeld /\ [Next]_vars => NothingHeld'
  BY DEF NothingHeld, Next, Run, AddRequest, CallRun, Promote, PromoteAs, PromoteThrows,
         PromoteDone, PerformIo, SendNext, SendAs, ReadNext, ReadAs, Advance, CollectClosed, CollectSkip, CollectDone,
         Return, vars
<1>3. ASSUME IInv, IInv', NothingHeld, Accounted, [Next]_vars
      PROVE  Accounted'
  <2>1. /\ pending_requests \in Seq(Ids) /\ async_sessions \in Seq(AsyncSession)
        /\ responses \in Seq(Ids) /\ answered \in Seq(Ids) /\ added \in Nat
        /\ async_sessions' \in Seq(AsyncSession)
    BY <1>3 DEF IInv, TypeOK
  <2>2. /\ Len(pending_requests) \in Nat /\ Len(async_sessions) \in Nat
        /\ Len(responses) \in Nat /\ Len(answered) \in Nat
    BY <2>1, LenProperties
  <2>3. CASE UNCHANGED <<pending_requests, async_sessions, responses, added, answered>>
    BY <1>3, <2>3 DEF Accounted
  <2>4. CASE AddRequest
    <3>1. added + 1 \in Ids
      <4>1. Submissions \in Seq(SubmittedRequest)
        BY SubmissionsAssumption
      <4> QED
        BY <1>3, <2>4, <4>1 DEF AddRequest, Ids, IInv, TypeOK
    <3>2. /\ Len(pending_requests') = Len(pending_requests) + 1
          /\ ToSet(pending_requests') = ToSet(pending_requests) \cup {added + 1}
      BY <2>1, <2>4, <3>1, ToSetByOne DEF AddRequest
    <3>3. 1 .. added + 1 = (1 .. added) \cup {added + 1}
      BY <2>1
    <3>4. /\ added' = added + 1 /\ async_sessions' = async_sessions
          /\ responses' = responses /\ answered' = answered
      BY <2>4 DEF AddRequest
    <3>5. Len(pending_requests') + Len(async_sessions') + Len(responses') + Len(answered')
            = added'
      BY <1>3, <2>1, <2>2, <3>2, <3>4 DEF Accounted
    <3>6. ToSet(pending_requests') \cup RequestsOf(async_sessions') \cup ToSet(responses')
            \cup ToSet(answered') = 1 .. added'
      BY <1>3, <3>2, <3>3, <3>4 DEF Accounted
    <3> QED
      BY <3>5, <3>6 DEF Accounted
  <2>5. CASE CallRun
    BY <1>3, <2>3, <2>5 DEF CallRun, NothingHeld
  <2>6. CASE Promote
    <3> DEFINE id == Head(pending_requests)
               n  == Len(async_sessions)
    <3>1. PICK status \in Created :
            async_sessions' = Append(async_sessions,
                                     [request |-> id, status |-> status, reads |-> 0])
      BY <2>6 DEF Promote, PromoteAs
    <3> DEFINE s == [request |-> id, status |-> status, reads |-> 0]
    <3>2. /\ pending_requests # <<>> /\ pending_requests' = Tail(pending_requests)
          /\ UNCHANGED <<responses, added, answered>>
      BY <2>6 DEF Promote, PromoteAs, MayPromote
    <3>3. /\ Len(pending_requests') = Len(pending_requests) - 1
          /\ ToSet(pending_requests) = {id} \cup ToSet(pending_requests')
      BY <2>1, <3>2, HeadTailProperties, ToSetHeadTail
    <3>4. s.request = id
      OBVIOUS
    <3> HIDE DEF id, s
    <3>5. /\ Len(async_sessions') = n + 1 /\ async_sessions'[n + 1] = s
          /\ \A i \in 1 .. n : async_sessions'[i] = async_sessions[i]
      BY <2>1, <3>1 DEF s
    <3>6. RequestsOf(async_sessions') = RequestsOf(async_sessions) \cup {id}
      <4>1. 1 .. n + 1 = (1 .. n) \cup {n + 1}
        BY <2>2
      <4> QED
        BY <3>4, <3>5, <4>1 DEF RequestsOf
    <3> QED
      BY <1>3, <2>2, <3>2, <3>3, <3>5, <3>6 DEF Accounted
  <2>7. CASE SendNext \/ ReadNext
    <3>1. PICK t \in AsyncSession :
            /\ async_sessions' = [async_sessions EXCEPT ![it] = t]
            /\ t.request = async_sessions[it].request
      BY <1>3, <2>7, PassReplaces
    <3>2. /\ Len(async_sessions') = Len(async_sessions)
          /\ \A i \in 1 .. Len(async_sessions) :
               async_sessions'[i].request = async_sessions[i].request
      BY <2>1, <3>1
    <3>3. RequestsOf(async_sessions') = RequestsOf(async_sessions)
      BY <3>2 DEF RequestsOf
    <3>4. UNCHANGED <<pending_requests, responses, added, answered>>
      BY <1>3, <2>7, PassReplaces
    <3> QED
      BY <1>3, <3>2, <3>3, <3>4 DEF Accounted
  <2>8. CASE CollectClosed
    <3> DEFINE id == async_sessions[it].request
               n  == Len(async_sessions)
    <3>1. it \in 1 .. n
      BY <1>3, <2>8 DEF CollectClosed, IInv, TypeOK, Positions
    <3>2. id \in Ids
      <4>1. async_sessions[it] \in AsyncSession
        BY <2>1, <3>1, ElementOfSeq
      <4> QED
        BY <4>1 DEF AsyncSession
    <3>3. /\ Len(async_sessions') = n - 1
          /\ \A j \in 1 .. n - 1 :
               async_sessions'[j] = async_sessions[IF j < it THEN j ELSE j + 1]
      BY <2>1, <2>8, <3>1, RemoveAtType DEF CollectClosed
    <3>4. RequestsOf(async_sessions) = RequestsOf(async_sessions') \cup {id}
      <4> HIDE DEF n
      <4>1. ASSUME NEW i \in 1 .. n
            PROVE  async_sessions[i].request \in RequestsOf(async_sessions') \cup {id}
        <5>1. CASE i < it
          <6>1. i \in 1 .. n - 1 /\ async_sessions'[i] = async_sessions[i]
            BY <2>2, <3>1, <3>3, <5>1 DEF n
          <6> QED
            BY <3>3, <6>1 DEF RequestsOf
        <5>2. CASE i > it
          <6>1. i - 1 \in 1 .. n - 1 /\ async_sessions'[i - 1] = async_sessions[i]
            <7>1. i - 1 \in 1 .. n - 1 /\ ~(i - 1 < it) /\ (i - 1) + 1 = i
              BY <2>2, <3>1, <5>2 DEF n
            <7> QED
              BY <3>3, <7>1
          <6> QED
            BY <3>3, <6>1, Zenon DEF RequestsOf
        <5>3. CASE i = it
          BY <5>3
        <5> QED
          BY <2>2, <3>1, <5>1, <5>2, <5>3 DEF n
      <4>2. ASSUME NEW j \in 1 .. n - 1
            PROVE  async_sessions'[j].request \in RequestsOf(async_sessions)
        <5> DEFINE k == IF j < it THEN j ELSE j + 1
        <5>1. k \in 1 .. n /\ async_sessions'[j] = async_sessions[k]
          BY <2>2, <3>1, <3>3 DEF n
        <5> HIDE DEF k
        <5> QED
          BY <5>1 DEF RequestsOf, n
      <4>3. id \in RequestsOf(async_sessions)
        BY <3>1 DEF RequestsOf, n
      <4>4. RequestsOf(async_sessions) \subseteq RequestsOf(async_sessions') \cup {id}
        BY <4>1 DEF RequestsOf, n
      <4>5. RequestsOf(async_sessions') \subseteq RequestsOf(async_sessions)
        BY <3>3, <4>2 DEF RequestsOf
      <4> QED
        BY <4>3, <4>4, <4>5
    <3>5. /\ Len(responses') = Len(responses) + 1
          /\ ToSet(responses') = ToSet(responses) \cup {id}
      BY <2>1, <2>8, <3>2, ToSetByOne DEF CollectClosed
    <3>6. UNCHANGED <<pending_requests, added, answered>>
      BY <2>8 DEF CollectClosed
    <3> HIDE DEF id
    <3>7. Len(pending_requests') + Len(async_sessions') + Len(responses') + Len(answered')
            = added'
      BY <1>3, <2>2, <3>3, <3>5, <3>6 DEF Accounted
    <3>8. ToSet(pending_requests') \cup RequestsOf(async_sessions') \cup ToSet(responses')
            \cup ToSet(answered') = 1 .. added'
      BY <1>3, <3>4, <3>5, <3>6 DEF Accounted
    <3> QED
      BY <3>7, <3>8 DEF Accounted
  <2>9. CASE Return
    <3>1. /\ answered' = answered \o responses /\ responses' = <<>>
          /\ UNCHANGED <<pending_requests, async_sessions, added>>
      BY <2>9 DEF Return
    <3>2. /\ Len(answered') = Len(answered) + Len(responses)
          /\ ToSet(answered') = ToSet(answered) \cup ToSet(responses)
      BY <2>1, <3>1, ConcatProperties, ToSetOfParts
    <3>3. Len(responses') = 0 /\ ToSet(responses') = {}
      BY <3>1 DEF ToSet
    <3> QED
      BY <1>3, <2>2, <3>1, <3>2, <3>3 DEF Accounted
  <2> QED
    BY <1>3, <2>3, <2>4, <2>5, <2>6, <2>7, <2>8, <2>9 DEF Next, Run, PromoteThrows,
       PromoteDone, PerformIo, CollectSkip, CollectDone, vars
<1>4. IInv /\ IInv' /\ NothingHeld /\ Accounted /\ [Next]_vars => Accounted'
  BY <1>3
<1>5. IInv => (EachRequestOnce <=> Accounted)
  BY AccountedIsOnce DEF IInv
<1> QED
  BY <1>1, <1>2, <1>4, <1>5, InvariantIInv, PTL DEF Spec

--------------------------------------------------------------------------------
(* The manager implements its queue *)

\* The requests of a list of sessions, as the refinement mapping gives them.
Sessions(list) == [i \in DOMAIN list |-> list[i].request]

LEMMA SessionsType ==
  ASSUME NEW list \in Seq(AsyncSession)
  PROVE  /\ Sessions(list) \in Seq(Ids)
         /\ Len(Sessions(list)) = Len(list)
         /\ DOMAIN Sessions(list) = 1 .. Len(list)
         /\ \A i \in 1 .. Len(list) : Sessions(list)[i] = list[i].request
         /\ ToSet(Sessions(list)) = RequestsOf(list)
<1>1. DOMAIN list = 1 .. Len(list) /\ Len(list) \in Nat
  BY LenProperties
<1>2. \A i \in 1 .. Len(list) : list[i].request \in Ids
  <2>1. \A i \in 1 .. Len(list) : list[i] \in AsyncSession
    BY ElementOfSeq
  <2> QED
    BY <2>1 DEF AsyncSession
<1>3. Sessions(list) = [i \in 1 .. Len(list) |-> list[i].request]
  BY <1>1 DEF Sessions
<1>4. Sessions(list) \in Seq(Ids) /\ Len(Sessions(list)) = Len(list)
  BY <1>1, <1>2, <1>3
<1> QED
  BY <1>3, <1>4 DEF ToSet, RequestsOf

\* Two lists of sessions whose requests agree are the same to the queue.
LEMMA SessionsSame ==
  ASSUME NEW list \in Seq(AsyncSession), NEW other \in Seq(AsyncSession),
         Len(list) = Len(other),
         \A i \in 1 .. Len(list) : list[i].request = other[i].request
  PROVE  Sessions(list) = Sessions(other)
<1>1. DOMAIN list = 1 .. Len(list) /\ DOMAIN other = 1 .. Len(list)
  BY LenProperties
<1> QED
  BY <1>1 DEF Sessions

LEMMA SessionsAppend ==
  ASSUME NEW list \in Seq(AsyncSession), NEW s \in AsyncSession
  PROVE  Sessions(Append(list, s)) = Append(Sessions(list), s.request)
<1> DEFINE more == Append(list, s)
           a == Sessions(more)
           b == Append(Sessions(list), s.request)
<1>1. /\ more \in Seq(AsyncSession) /\ Len(more) = Len(list) + 1
      /\ Len(list) \in Nat /\ more[Len(list) + 1] = s
      /\ \A i \in 1 .. Len(list) : more[i] = list[i]
  OBVIOUS
<1> HIDE DEF more
<1>2. /\ a \in Seq(Ids) /\ Len(a) = Len(list) + 1 /\ a[Len(list) + 1] = s.request
      /\ \A i \in 1 .. Len(list) : a[i] = list[i].request
  BY <1>1, SessionsType
<1>3. s.request \in Ids
  BY DEF AsyncSession
<1>4. /\ b \in Seq(Ids) /\ Len(b) = Len(list) + 1 /\ b[Len(list) + 1] = s.request
      /\ \A i \in 1 .. Len(list) : b[i] = list[i].request
  BY <1>3, SessionsType
<1> HIDE DEF a, b
<1>5. \A i \in 1 .. Len(a) : a[i] = b[i]
  BY <1>1, <1>2, <1>4
<1>6. a = b
  BY <1>2, <1>4, <1>5, SeqEqual
<1> QED
  BY <1>6 DEF a, b, more

LEMMA SessionsRemove ==
  ASSUME NEW list \in Seq(AsyncSession), NEW i \in 1 .. Len(list)
  PROVE  Sessions(RemoveAt(list, i)) = RemoveAt(Sessions(list), i)
<1> DEFINE less == RemoveAt(list, i)
           a == Sessions(less)
           b == RemoveAt(Sessions(list), i)
<1>1. /\ less \in Seq(AsyncSession)
      /\ Len(less) = Len(list) - 1 /\ Len(list) \in Nat
      /\ \A j \in 1 .. Len(list) - 1 : less[j] = list[IF j < i THEN j ELSE j + 1]
  BY RemoveAtType, LenProperties
<1> HIDE DEF less
<1>2. /\ a \in Seq(Ids) /\ Len(a) = Len(list) - 1
      /\ \A j \in 1 .. Len(list) - 1 : a[j] = less[j].request
  BY <1>1, SessionsType
<1>3. /\ Sessions(list) \in Seq(Ids) /\ Len(Sessions(list)) = Len(list)
      /\ \A j \in 1 .. Len(list) : Sessions(list)[j] = list[j].request
  BY SessionsType
<1>4. /\ b \in Seq(Ids) /\ Len(b) = Len(list) - 1
      /\ \A j \in 1 .. Len(list) - 1 : b[j] = Sessions(list)[IF j < i THEN j ELSE j + 1]
  BY <1>3, RemoveAtType
<1>5. \A j \in 1 .. Len(list) - 1 : (IF j < i THEN j ELSE j + 1) \in 1 .. Len(list)
  BY <1>1
<1> HIDE DEF a, b
<1>6. \A j \in 1 .. Len(a) : a[j] = b[j]
  BY <1>1, <1>2, <1>3, <1>4, <1>5
<1>7. a = b
  BY <1>2, <1>4, <1>6, SeqEqual
<1> QED
  BY <1>7 DEF a, b, less

LEMMA HeldInvariant == Spec => []NothingHeld
<1>1. Init => NothingHeld
  BY DEF Init, NothingHeld
<1>2. NothingHeld /\ [Next]_vars => NothingHeld'
  BY DEF NothingHeld, Next, Run, AddRequest, CallRun, Promote, PromoteAs, PromoteThrows,
         PromoteDone, PerformIo, SendNext, SendAs, ReadNext, ReadAs, Advance, CollectClosed, CollectSkip, CollectDone,
         Return, vars
<1> QED
  BY <1>1, <1>2, PTL DEF Spec

\* ImplementsQueue: every behaviour of a manager is one of the abstract queue.
THEOREM ManagerIsQueue == Spec => ImplementsQueue
<1>1. Init => Queue!Init
  BY DEF Init, Queue!Init
<1>2. ASSUME IInv, IInv', NothingHeld, Accounted, [Next]_vars
      PROVE  [Queue!Next]_(Queue!vars)
  <2> DEFINE before == Sessions(async_sessions)
             after  == Sessions(async_sessions')
  <2>1. /\ async_sessions \in Seq(AsyncSession) /\ async_sessions' \in Seq(AsyncSession)
        /\ responses \in Seq(Ids) /\ answered \in Seq(Ids) /\ added \in Nat
        /\ pending_requests \in Seq(Ids)
    BY <1>2 DEF IInv, TypeOK
  <2>0. /\ \A list, i : Queue!RemoveAt(list, i) = RemoveAt(list, i)
        /\ \A list : Queue!ToSet(list) = ToSet(list)
    BY DEF Queue!RemoveAt, RemoveAt, Queue!ToSet, ToSet
  <2> DEFINE Submitted == \E id \in Ids :
               /\ id \notin Queue!Known
               /\ pending_requests' = Append(pending_requests, id)
               /\ UNCHANGED <<responses, answered>> /\ after = before
             Started ==
               /\ pending_requests # <<>>
               /\ pending_requests' = Tail(pending_requests)
               /\ after = Append(before, Head(pending_requests))
               /\ UNCHANGED <<responses, answered>>
             Finished == \E i \in DOMAIN before :
               /\ after = RemoveAt(before, i)
               /\ responses' = Append(responses, before[i])
               /\ UNCHANGED <<pending_requests, answered>>
             Delivered ==
               /\ responses # <<>> /\ responses' = <<>>
               /\ answered' = answered \o responses
               /\ after = before /\ UNCHANGED pending_requests
             Stuttered == after = before /\ UNCHANGED <<pending_requests, responses, answered>>
  <2>2. SUFFICES Submitted \/ Started \/ Finished \/ Delivered \/ Stuttered
    BY <2>0 DEF Queue!Next, Queue!vars, Queue!Submit, Queue!Start, Queue!Finish,
       Queue!Deliver, Sessions
  <2>3. CASE UNCHANGED <<pending_requests, async_sessions, responses, answered>>
    BY <2>3
  <2>4. CASE AddRequest
    <3>1. added + 1 \in Ids
      <4>1. Submissions \in Seq(SubmittedRequest)
        BY SubmissionsAssumption
      <4> QED
        BY <1>2, <2>4, <4>1 DEF AddRequest, Ids, IInv, TypeOK
    <3>2. Queue!Known = 1 .. added
      <4>1. Queue!Known = ToSet(pending_requests) \cup ToSet(before) \cup ToSet(responses)
                            \cup ToSet(answered)
        BY <2>0 DEF Queue!Known, Sessions
      <4>2. ToSet(before) = RequestsOf(async_sessions)
        BY <2>1, SessionsType
      <4> QED
        BY <1>2, <4>1, <4>2 DEF Accounted
    <3>3. added + 1 \notin Queue!Known
      BY <2>1, <3>2
    <3>4. /\ pending_requests' = Append(pending_requests, added + 1)
          /\ UNCHANGED <<async_sessions, responses, answered>>
      BY <2>4 DEF AddRequest
    <3> QED
      BY <3>1, <3>3, <3>4
  <2>5. CASE CallRun
    <3>1. responses = <<>> /\ responses' = <<>>
      BY <1>2, <2>5 DEF CallRun, NothingHeld
    <3> QED
      BY <2>3, <2>5, <3>1 DEF CallRun
  <2>6. CASE Promote
    <3> DEFINE id == Head(pending_requests)
    <3>1. PICK status \in Created :
            async_sessions' = Append(async_sessions,
                                     [request |-> id, status |-> status, reads |-> 0])
      BY <2>6 DEF Promote, PromoteAs
    <3> DEFINE s == [request |-> id, status |-> status, reads |-> 0]
    <3>2. /\ pending_requests # <<>> /\ pending_requests' = Tail(pending_requests)
          /\ UNCHANGED <<responses, answered>>
      BY <2>6 DEF Promote, PromoteAs, MayPromote
    <3>3. s \in AsyncSession /\ s.request = id
      <4>1. id \in Ids
        BY <2>1, <3>2, HeadTailProperties
      <4> QED
        BY <4>1, MaxReadsAssumption DEF AsyncSession, Created, Status
    <3> HIDE DEF s
    <3>4. after = Append(before, id)
      BY <2>1, <3>1, <3>3, SessionsAppend DEF s
    <3> QED
      BY <3>2, <3>4
  <2>7. CASE SendNext \/ ReadNext
    <3>1. PICK t \in AsyncSession :
            /\ async_sessions' = [async_sessions EXCEPT ![it] = t]
            /\ t.request = async_sessions[it].request
      BY <1>2, <2>7, PassReplaces
    <3>2. /\ Len(async_sessions') = Len(async_sessions)
          /\ \A i \in 1 .. Len(async_sessions) :
               async_sessions'[i].request = async_sessions[i].request
      BY <2>1, <3>1
    <3>3. after = before
      BY <2>1, <3>2, SessionsSame
    <3>4. UNCHANGED <<pending_requests, responses, answered>>
      BY <1>2, <2>7, PassReplaces
    <3> QED
      BY <3>3, <3>4
  <2>8. CASE CollectClosed
    <3>1. it \in 1 .. Len(async_sessions)
      BY <1>2, <2>1, <2>8, LenProperties DEF CollectClosed, IInv, TypeOK, Positions
    <3>2. it \in DOMAIN before /\ before[it] = async_sessions[it].request
      BY <2>1, <3>1, SessionsType
    <3>3. after = RemoveAt(before, it)
      BY <2>1, <2>8, <3>1, SessionsRemove DEF CollectClosed
    <3>4. /\ responses' = Append(responses, async_sessions[it].request)
          /\ UNCHANGED <<pending_requests, answered>>
      BY <2>8 DEF CollectClosed
    <3> QED
      BY <3>2, <3>3, <3>4
  <2>9. CASE Return
    <3>1. /\ answered' = answered \o responses /\ responses' = <<>>
          /\ UNCHANGED <<pending_requests, async_sessions>>
      BY <2>9 DEF Return
    <3>2. CASE responses # <<>>
      BY <3>1, <3>2
    <3>3. CASE responses = <<>>
      <4>1. answered \o <<>> = answered
        BY <2>1, ConcatEmptySeq
      <4> QED
        BY <3>1, <3>3, <4>1
    <3> QED
      BY <3>2, <3>3
  <2> QED
    BY <1>2, <2>3, <2>4, <2>5, <2>6, <2>7, <2>8, <2>9 DEF Next, Run, PromoteThrows,
       PromoteDone, PerformIo, CollectSkip, CollectDone, vars
<1>3. IInv /\ IInv' /\ NothingHeld /\ EachRequestOnce /\ [Next]_vars
        => [Queue!Next]_(Queue!vars)
  <2>1. IInv /\ EachRequestOnce => Accounted
    BY AccountedIsOnce DEF IInv
  <2> QED
    BY <1>2, <2>1
<1> QED
  BY <1>1, <1>3, InvariantIInv, HeldInvariant, NoneLostNoneTwice, PTL
     DEF Spec, ImplementsQueue, Queue!Spec

================================================================================
