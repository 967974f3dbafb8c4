------------------------------ MODULE SessionProofs ------------------------------
(*******************************************************************************)
(* What the member functions of a session do to the session object, for every  *)
(* request, reply and peer: they keep its type and its request, and each       *)
(* leaves it in one of the statuses its caller may count on.  From that,       *)
(* theorems about a session: its type, the PDU in flight and the lifecycle     *)
(* SessionManager counts on; and what it reports and asks for: its errors      *)
(* explain why it is closed, results and errors only grow, and no PDU asks for *)
(* more than the request's limit allows.  Last, its heads and what they        *)
(* collect: which heads a PDU asks for, that every result lies below a root    *)
(* OID of the request, and that a walk moves forward only.                     *)
(*******************************************************************************)
EXTENDS Session, OidProofs, SequenceTheorems

FillProofs    == INSTANCE LoopProofs WITH Step <- AddVarBind
VarBindProofs == INSTANCE LoopProofs WITH Step <- ProcessVarBind
HeadProofs    == INSTANCE LoopProofs WITH Step <- KeepHead

--------------------------------------------------------------------------------
(* Errors *)

LEMMA AppendErrorType ==
  ASSUME NEW s \in SessionObject, NEW type \in ErrorTypes, NEW oid \in Optional(Oid)
  PROVE  /\ AppendError(s, type, oid) \in SessionObject
         /\ AppendError(s, type, oid).status = s.status
         /\ AppendError(s, type, oid).request = s.request
         /\ AppendError(s, type, oid).heads = s.heads
<1> DEFINE e == [type |-> type, oid |-> oid]
           errors == Append(s.errors, e)
<1>1. s.errors \in Seq(Error)
  BY DEF SessionObject
<1>2. e \in Error
  BY DEF Error
<1>3. errors \in Seq(Error)
  BY <1>1, <1>2
<1>4. AppendError(s, type, oid) = [s EXCEPT !.errors = errors]
  BY DEF AppendError
<1> HIDE DEF e, errors
<1> QED
  BY <1>3, <1>4 DEF SessionObject, e, errors

LEMMA FailType ==
  ASSUME NEW s \in SessionObject, NEW type \in ErrorTypes, NEW oid \in Optional(Oid)
  PROVE  /\ Fail(s, type, oid) \in SessionObject
         /\ Fail(s, type, oid).status = "CLOSED"
         /\ Fail(s, type, oid).request = s.request
         /\ Fail(s, type, oid).heads = s.heads
<1> DEFINE e == AppendError(s, type, oid)
<1>1. e \in SessionObject /\ e.request = s.request /\ e.heads = s.heads
  BY AppendErrorType
<1>2. Fail(s, type, oid) = [e EXCEPT !.status = "CLOSED"]
  BY DEF Fail
<1> HIDE DEF e
<1> QED
  BY <1>1, <1>2 DEF SessionObject, Status

\* Both add one error at the end and leave the results alone.
LEMMA ErrorEffect ==
  ASSUME NEW s \in SessionObject, NEW type, NEW oid,
         NEW e, e = [type |-> type, oid |-> oid]
  PROVE  /\ AppendError(s, type, oid).results = s.results
         /\ AppendError(s, type, oid).errors = Append(s.errors, e)
         /\ Fail(s, type, oid).results = s.results
         /\ Fail(s, type, oid).errors = Append(s.errors, e)
<1> DEFINE errors == Append(s.errors, e)
<1>1. AppendError(s, type, oid) = [s EXCEPT !.errors = errors]
  BY DEF AppendError
<1>2. Fail(s, type, oid) = [s EXCEPT !.errors = errors, !.status = "CLOSED"]
  BY <1>1 DEF Fail
<1> HIDE DEF errors
<1> QED
  BY <1>1, <1>2 DEF SessionObject, errors

LEMMA AppendResultType ==
  ASSUME NEW s \in SessionObject, NEW head \in CollectionHead, NEW var_bind \in VarBind
  PROVE  /\ AppendResult(s, head, var_bind) \in SessionObject
         /\ AppendResult(s, head, var_bind).status = s.status
         /\ AppendResult(s, head, var_bind).request = s.request
<1> DEFINE r == [ root_oid_index |-> head.root_oid_index,
                  index |-> SubSeq(var_bind.oid, Len(head.root_oid) + 1,
                                   Len(var_bind.oid)),
                  type  |-> var_bind.type,
                  oid   |-> var_bind.oid ]
<1>1. SubSeq(var_bind.oid, Len(head.root_oid) + 1, Len(var_bind.oid)) \in Oid
  BY DEF VarBind, CollectionHead, Oid
<1>2. r \in Result
  BY <1>1 DEF Result, VarBind, CollectionHead
<1>3. AppendResult(s, head, var_bind) = [s EXCEPT !.results = Append(@, r)]
  BY DEF AppendResult
<1> HIDE DEF r
<1>4. Append(s.results, r) \in Seq(Result)
  BY <1>2 DEF SessionObject
<1> QED
  BY <1>3, <1>4 DEF SessionObject

LEMMA ResultEffect ==
  ASSUME NEW s \in SessionObject, NEW head \in CollectionHead, NEW var_bind \in VarBind
  PROVE  /\ AppendResult(s, head, var_bind).errors = s.errors
         /\ \E result :
              AppendResult(s, head, var_bind).results = Append(s.results, result)
<1> DEFINE r == [ root_oid_index |-> head.root_oid_index,
                  index |-> SubSeq(var_bind.oid, Len(head.root_oid) + 1,
                                   Len(var_bind.oid)),
                  type  |-> var_bind.type,
                  oid   |-> var_bind.oid ]
           results == Append(s.results, r)
<1>1. AppendResult(s, head, var_bind) = [s EXCEPT !.results = results]
  BY DEF AppendResult
<1> HIDE DEF results
<1>2. /\ AppendResult(s, head, var_bind).errors = s.errors
      /\ AppendResult(s, head, var_bind).results = results
  BY <1>1 DEF SessionObject
<1> QED
  BY <1>2, Zenon DEF results

--------------------------------------------------------------------------------
(* Collection heads *)

LEMMA NewHeadType ==
  ASSUME NEW index \in Nat, NEW root \in Oid, NEW range \in Optional(OidRange)
  PROVE  NewHead(index, root, range) \in CollectionHead
<1> DEFINE r == ValueOr(range, Everything)
<1>1. Everything \in OidRange
  BY DEF Everything, OidRange, Oid
<1>2. r \in OidRange
  BY <1>1, OptionalType
<1>3. root \o r.start \in Oid /\ root \o r.stop \in Oid
  BY <1>2 DEF OidRange, Oid
<1>4. RootedRange(root, range) \in OidRange
  BY <1>3 DEF RootedRange, OidRange
<1>5. None \in Optional(Oid)
  BY OptionalType
<1> QED
  BY <1>4, <1>5 DEF NewHead, CollectionHead

LEMMA ActivateType ==
  ASSUME NEW head \in CollectionHead
  PROVE  Activate(head) \in CollectionHead /\ Active(Activate(head))
<1>1. head.last_resp_oid \in Optional(Oid) /\ head.root_oid \in Oid
  BY DEF CollectionHead
<1>2. ValueOr(head.last_resp_oid, head.root_oid) \in Oid
  BY <1>1, OptionalType
<1>3. Some(ValueOr(head.last_resp_oid, head.root_oid)) \in Optional(Oid)
  BY <1>2, OptionalType
<1>4. None \in Optional(Oid)
  BY OptionalType
<1>5. \A x : Some(x) # None
  BY DEF Some, None
<1> QED
  BY <1>3, <1>4, <1>5 DEF Activate, CollectionHead, Active

\* The k-th head belongs to a root OID and a range that exist.
LEMMA HeadNumber ==
  ASSUME NEW n \in Nat, NEW p \in Nat \ {0}, NEW k \in 1 .. n * p
  PROVE  /\ ((k - 1) \div p) + 1 \in 1 .. n
         /\ ((k - 1) % p) + 1 \in 1 .. p
<1> DEFINE q == (k - 1) \div p
<1>1. n * p \in Nat /\ k - 1 \in Nat /\ k - 1 < n * p
  OBVIOUS
<1>2. q \in Nat /\ q * p <= k - 1
  BY <1>1
<1>3. (k - 1) % p \in 0 .. p - 1
  BY <1>1
<1> HIDE DEF q
<1>4. q * p < n * p
  BY <1>1, <1>2
<1>5. q < n
  BY <1>2, <1>4
<1> QED
  BY <1>2, <1>3, <1>5 DEF q

LEMMA HeadsOfType ==
  ASSUME NEW request \in Request
  PROVE  HeadsOf(request) \in Seq(CollectionHead)
<1> DEFINE perRoot == IF request.ranges = <<>> THEN 1 ELSE Len(request.ranges)
           root(k) == request.oids[((k - 1) \div perRoot) + 1]
           range(k) == IF request.ranges = <<>> THEN None
                       ELSE Some(request.ranges[((k - 1) % perRoot) + 1])
           n == Len(request.oids)
<1>1. request.oids \in Seq(Oid) /\ request.ranges \in Seq(OidRange)
  BY DEF Request
<1>2. n \in Nat /\ perRoot \in Nat \ {0}
  BY <1>1
<1>3. ASSUME NEW k \in 1 .. n * perRoot
      PROVE  NewHead(k - 1, root(k), range(k)) \in CollectionHead
  <2>1. k - 1 \in Nat
    OBVIOUS
  <2>2. root(k) \in Oid
    <3> HIDE DEF n, perRoot
    <3>1. ((k - 1) \div perRoot) + 1 \in 1 .. n
      BY <1>2, HeadNumber
    <3> QED
      BY <1>1, <3>1 DEF n
  <2>3. range(k) \in Optional(OidRange)
    <3>1. CASE request.ranges = <<>>
      BY <3>1, OptionalType
    <3>2. CASE request.ranges # <<>>
      <4> HIDE DEF n
      <4>1. ((k - 1) % perRoot) + 1 \in 1 .. perRoot
        BY <1>2, HeadNumber
      <4>2. request.ranges[((k - 1) % perRoot) + 1] \in OidRange
        BY <1>1, <3>2, <4>1
      <4> QED
        BY <3>2, <4>2, OptionalType
    <3> QED
      BY <3>1, <3>2
  <2> HIDE DEF root, range
  <2> QED
    BY <2>1, <2>2, <2>3, NewHeadType
<1>4. HeadsOf(request) = [k \in 1 .. n * perRoot |-> NewHead(k - 1, root(k), range(k))]
  BY DEF HeadsOf
<1> HIDE DEF n, perRoot, root, range
<1>5. n * perRoot \in Nat
  BY <1>2
<1> QED
  BY <1>3, <1>4, <1>5

--------------------------------------------------------------------------------
(* Constructor *)

LEMMA EmptySessionType ==
  ASSUME NEW request \in Request
  PROVE  EmptySession(request) \in SessionObject
BY DEF EmptySession, SessionObject, Status

LEMMA OpenedType ==
  ASSUME NEW request \in Request
  PROVE  Opened(request) \in SessionObject /\ Opened(request).status = "IDLE"
<1>1. HeadsOf(request) \in Seq(CollectionHead)
  BY HeadsOfType
<1>2. EmptySession(request) \in SessionObject
  BY EmptySessionType
<1> QED
  BY <1>1, <1>2 DEF Opened, SessionObject, Status

LEMMA OpenFailedType ==
  ASSUME NEW request \in Request
  PROVE  OpenFailed(request) \in SessionObject /\ OpenFailed(request).status = "CLOSED"
<1>1. None \in Optional(Oid)
  BY OptionalType
<1>2. "SESSION_ERROR" \in ErrorTypes
  BY DEF ErrorTypes, FatalErrors
<1> QED
  BY <1>1, <1>2, EmptySessionType, FailType DEF OpenFailed

--------------------------------------------------------------------------------
(* send *)

\* The states of the loop of send for a session that started out as s.
Fillings(s) ==
  { filling \in [session : SessionObject, oids : Seq(Oid)] :
      /\ filling.session.status = s.status
      /\ filling.session.request = s.request }

LEMMA AddVarBindType ==
  ASSUME NEW s \in SessionObject, NEW filling \in Fillings(s), NEW taken \in BOOLEAN
  PROVE  AddVarBind(filling, taken) \in Fillings(s)
<1> DEFINE t     == filling.session
           front == Activate(Head(t.heads))
           given == AppendError([t EXCEPT !.heads = Tail(@)],
                                "CREATE_REQUEST_PDU_ERROR", front.req_oid)
<1>1. /\ t \in SessionObject /\ filling.oids \in Seq(Oid)
      /\ t.status = s.status /\ t.request = s.request
  BY DEF Fillings
<1>2. CASE ~WantsMore(t, filling.oids)
  BY <1>2 DEF AddVarBind
<1>3. CASE WantsMore(t, filling.oids)
  <2>1. t.heads \in Seq(CollectionHead)
    BY <1>1 DEF SessionObject
  <2>2. t.heads # <<>>
    BY <1>1, <1>3, <2>1 DEF WantsMore
  <2>3. Head(t.heads) \in CollectionHead /\ Tail(t.heads) \in Seq(CollectionHead)
    BY <2>1, <2>2
  <2>4. front \in CollectionHead /\ Active(front)
    BY <2>3, ActivateType
  <2>5. front.req_oid \in Optional(Oid) /\ front.req_oid[1] \in Oid
    <3>1. front.req_oid \in Optional(Oid) /\ front.req_oid # None
      BY <2>4 DEF CollectionHead, Active
    <3> QED
      BY <3>1, OptionalType
  <2>6. CASE taken
    <3> HIDE DEF front
    <3>1. Append(Tail(t.heads), front) \in Seq(CollectionHead)
      BY <2>3, <2>4
    <3>2. [t EXCEPT !.heads = Append(Tail(t.heads), front)] \in SessionObject
      BY <1>1, <3>1 DEF SessionObject
    <3>3. Append(filling.oids, front.req_oid[1]) \in Seq(Oid)
      BY <1>1, <2>5
    <3>4. AddVarBind(filling, taken) =
            [ session |-> [t EXCEPT !.heads = Append(Tail(t.heads), front)],
              oids    |-> Append(filling.oids, front.req_oid[1]) ]
      BY <1>3, <2>6 DEF AddVarBind, front
    <3>5. /\ [t EXCEPT !.heads = Append(Tail(t.heads), front)].status = t.status
          /\ [t EXCEPT !.heads = Append(Tail(t.heads), front)].request = t.request
      BY <1>1 DEF SessionObject
    <3> DEFINE u == [t EXCEPT !.heads = Append(Tail(t.heads), front)]
               oids == Append(filling.oids, front.req_oid[1])
    <3>6. AddVarBind(filling, taken) = [session |-> u, oids |-> oids]
      BY <3>4
    <3>7. u \in SessionObject /\ u.status = s.status /\ u.request = s.request
      BY <1>1, <3>2, <3>5
    <3> HIDE DEF u, oids, t
    <3> QED
      BY <3>3, <3>6, <3>7 DEF Fillings, oids
  <2>7. CASE ~taken
    <3>1. /\ [t EXCEPT !.heads = Tail(t.heads)] \in SessionObject
          /\ [t EXCEPT !.heads = Tail(t.heads)].status = t.status
          /\ [t EXCEPT !.heads = Tail(t.heads)].request = t.request
      BY <1>1, <2>3 DEF SessionObject
    <3>2. "CREATE_REQUEST_PDU_ERROR" \in ErrorTypes
      BY DEF ErrorTypes, FatalErrors
    <3>3. given \in SessionObject /\ given.status = t.status /\ given.request = t.request
      <4> HIDE DEF front, t
      <4> QED
        BY <2>5, <3>1, <3>2, AppendErrorType
    <3>4. AddVarBind(filling, taken) = [session |-> given, oids |-> filling.oids]
      BY <1>3, <2>7 DEF AddVarBind
    <3> HIDE DEF given, t
    <3> QED
      BY <1>1, <3>3, <3>4 DEF Fillings
  <2> QED
    BY <2>6, <2>7
<1> QED
  BY <1>2, <1>3

\* At most one error is added, of that type and with one of those OIDs.
AddsError(s, t, type, oids) ==
  \/ t.errors = s.errors
  \/ \E oid \in oids : t.errors = Append(s.errors, [type |-> type, oid |-> oid])

\* At most one OID is added, and only when send wants more.
AddsOid(filling, next) ==
  \/ next.oids = filling.oids
  \/ /\ WantsMore(filling.session, filling.oids)
     /\ Len(next.oids) = Len(filling.oids) + 1

\* What one pass of the loop adds to the errors and to the PDU.
LEMMA AddVarBindEffect ==
  ASSUME NEW s \in SessionObject, NEW filling \in Fillings(s), NEW taken \in BOOLEAN
  PROVE  /\ AddVarBind(filling, taken).session.results = filling.session.results
         /\ AddsError(filling.session, AddVarBind(filling, taken).session,
                      "CREATE_REQUEST_PDU_ERROR", Optional(Oid) \ {None})
         /\ AddsOid(filling, AddVarBind(filling, taken))
<1> SUFFICES ASSUME NEW t, t = filling.session, NEW next, next = AddVarBind(filling, taken)
             PROVE  /\ next.session.results = t.results
                    /\ AddsError(t, next.session, "CREATE_REQUEST_PDU_ERROR",
                                 Optional(Oid) \ {None})
                    /\ AddsOid(filling, next)
  OBVIOUS
<1> DEFINE front == Activate(Head(t.heads))
<1>1. t \in SessionObject /\ filling.oids \in Seq(Oid)
  BY DEF Fillings
<1>2. CASE ~WantsMore(t, filling.oids)
  BY <1>2 DEF AddVarBind, AddsError, AddsOid
<1>3. CASE WantsMore(t, filling.oids) /\ taken
  <2> DEFINE u == [t EXCEPT !.heads = Append(Tail(t.heads), front)]
  <2>1. next = [session |-> u, oids |-> Append(filling.oids, front.req_oid[1])]
    BY <1>3 DEF AddVarBind
  <2>2. u.results = t.results /\ u.errors = t.errors
    BY <1>1 DEF SessionObject
  <2>3. Len(Append(filling.oids, front.req_oid[1])) = Len(filling.oids) + 1
    BY <1>1
  <2> DEFINE oids == Append(filling.oids, front.req_oid[1])
  <2>4. Len(oids) = Len(filling.oids) + 1
    BY <2>3
  <2>5. next = [session |-> u, oids |-> oids]
    BY <2>1
  <2> HIDE DEF u, front, oids
  <2>6. next.session = u /\ next.oids = oids
    BY <2>5
  <2>7. next.session.results = t.results /\ next.session.errors = t.errors
    BY <2>2, <2>6
  <2>8. Len(next.oids) = Len(filling.oids) + 1
    BY <2>4, <2>6
  <2> QED
    BY <1>3, <2>7, <2>8, Zenon DEF AddsError, AddsOid
<1>4. CASE WantsMore(t, filling.oids) /\ ~taken
  <2> DEFINE u == [t EXCEPT !.heads = Tail(t.heads)]
  <2>1. next = [ session |-> AppendError(u, "CREATE_REQUEST_PDU_ERROR", front.req_oid),
                 oids    |-> filling.oids ]
    BY <1>4 DEF AddVarBind
  <2>2. t.heads \in Seq(CollectionHead)
    BY <1>1 DEF SessionObject
  <2>3. t.heads # <<>>
    BY <1>1, <1>4, <2>2 DEF WantsMore
  <2>4. Head(t.heads) \in CollectionHead /\ Tail(t.heads) \in Seq(CollectionHead)
    BY <2>2, <2>3
  <2>5. u \in SessionObject /\ u.results = t.results /\ u.errors = t.errors
    BY <1>1, <2>4 DEF SessionObject
  <2>6. front.req_oid \in Optional(Oid) \ {None}
    BY <2>4, ActivateType DEF CollectionHead, Active
  <2>7. "CREATE_REQUEST_PDU_ERROR" \in ErrorTypes
    BY DEF ErrorTypes, FatalErrors
  <2> DEFINE oid == front.req_oid
  <2>8. oid \in Optional(Oid) \ {None}
    BY <2>6
  <2> DEFINE e == [type |-> "CREATE_REQUEST_PDU_ERROR", oid |-> oid]
             given == AppendError(u, "CREATE_REQUEST_PDU_ERROR", oid)
  <2>9. next.session = given /\ next.oids = filling.oids
    BY <2>1
  <2> HIDE DEF u, front, oid
  <2>10. given.results = u.results /\ given.errors = Append(u.errors, e)
    <3> HIDE DEF e
    <3>1. e = [type |-> "CREATE_REQUEST_PDU_ERROR", oid |-> oid]
      BY DEF e
    <3> QED
      BY <2>5, <3>1, ErrorEffect
  <2> HIDE DEF given, e
  <2>11. next.session.results = t.results /\ next.session.errors = Append(t.errors, e)
    BY <2>5, <2>9, <2>10
  <2> QED
    BY <2>8, <2>9, <2>11, Zenon DEF e, AddsError, AddsOid
<1> QED
  BY <1>2, <1>3, <1>4

LEMMA FillType ==
  ASSUME NEW s \in SessionObject, NEW taken \in Seq(BOOLEAN)
  PROVE  Fill(s, taken) \in Fillings(s)
<1> DEFINE first == [session |-> s, oids |-> <<>>]
<1>1. first \in Fillings(s)
  BY DEF Fillings, Oid
<1>2. \A f \in Fillings(s), v \in BOOLEAN : AddVarBind(f, v) \in Fillings(s)
  BY AddVarBindType
<1> HIDE DEF first
<1>3. FillProofs!Run(first, taken) \in Fillings(s)
  BY <1>1, <1>2, FillProofs!RunInvariant
<1> QED
  BY <1>3 DEF Fill, first, FillProofs!Run, FillLoop!Run

LEMMA BuildPduType ==
  ASSUME NEW s \in SessionObject, NEW oids \in Seq(Oid), ~DividesByZero(s, oids)
  PROVE  BuildPdu(s, oids) \in RequestPdu
<1>1. s.request \in Request
  BY DEF SessionObject
<1>2. PduType(s.request) \in Commands
  BY <1>1 DEF PduType, Request, Commands
<1>3. MaxVarBinds(s) \in Nat
  BY <1>1 DEF MaxVarBinds, Request, Settings
<1>4. PduType(s.request) = "GETBULK" => MaxVarBinds(s) \div Len(oids) \in Nat
  <2> SUFFICES ASSUME PduType(s.request) = "GETBULK"
               PROVE  MaxVarBinds(s) \div Len(oids) \in Nat
    OBVIOUS
  <2>1. Len(oids) \in Nat \ {0}
    BY DEF DividesByZero
  <2> QED
    BY <1>3, <2>1
<1> QED
  BY <1>2, <1>4 DEF BuildPdu, RequestPdu

--------------------------------------------------------------------------------
(* process_var_bind *)

LEMMA MinType ==
  ASSUME NEW I, I \subseteq Nat, I # {}
  PROVE  Min(I) \in I
<1>1. PICK least \in I : \A n \in I : ~(<<n, least>> \in OpToRel(<, Nat))
  BY WFMin, NatLessThanWellFounded, Zenon
<1>2. ASSUME NEW n \in I PROVE least <= n
  <2>1. ~(n < least)
    BY <1>1 DEF OpToRel
  <2> QED
    BY <2>1
<1> QED
  BY <1>2 DEF Min

LEMMA FindHeadType ==
  ASSUME NEW s \in SessionObject, NEW oid
  PROVE  /\ FindHead(s, oid) \in 0 .. Len(s.heads)
         /\ FindHead(s, oid) # 0 =>
              Accepts(s.heads[FindHead(s, oid)], s.request.type, oid)
<1> DEFINE I == { i \in 1 .. Len(s.heads) : Accepts(s.heads[i], s.request.type, oid) }
<1>1. FindHead(s, oid) = IF I # {} THEN Min(I) ELSE 0
  BY DEF FindHead, SelectInSeq
<1>2. Len(s.heads) \in Nat
  BY DEF SessionObject
<1>3. I \subseteq Nat /\ \A i \in I : /\ i \in 1 .. Len(s.heads)
                                      /\ Accepts(s.heads[i], s.request.type, oid)
  BY <1>2
<1> HIDE DEF I
<1>4. I # {} => Min(I) \in I
  BY <1>3, MinType
<1>5. CASE I = {}
  BY <1>1, <1>2, <1>5
<1>6. CASE I # {}
  <2>1. FindHead(s, oid) \in I
    BY <1>1, <1>4, <1>6
  <2>2. /\ FindHead(s, oid) \in 1 .. Len(s.heads)
        /\ Accepts(s.heads[FindHead(s, oid)], s.request.type, oid)
    BY <1>3, <2>1, Zenon
  <2>3. FindHead(s, oid) \in 0 .. Len(s.heads)
    BY <1>2, <2>2
  <2> QED
    BY <2>2, <2>3, Zenon
<1> QED
  BY <1>5, <1>6

\* The states of the loop over the bindings of a reply, for a session that
\* started out as s.
Processings(s) ==
  { t \in SessionObject : t.status = s.status /\ t.request = s.request }

LEMMA GetVarBindType ==
  ASSUME NEW s \in SessionObject, NEW var_bind \in VarBind
  PROVE  GetVarBind(s, var_bind) \in Processings(s)
<1> DEFINE k == FindHead(s, var_bind.oid)
           warns == \/ k = 0
                    \/ s.heads[k].req_oid # Some(var_bind.oid)
                    \/ var_bind.type \in WarningTypes
<1>1. GetVarBind(s, var_bind) =
        IF warns THEN AppendError(s, "VALUE_WARNING", Some(var_bind.oid))
                 ELSE AppendResult(s, s.heads[k], var_bind)
  BY DEF GetVarBind
<1>2. CASE warns
  <2>1. "VALUE_WARNING" \in ErrorTypes /\ Some(var_bind.oid) \in Optional(Oid)
    BY OptionalType DEF ErrorTypes, VarBind
  <2> HIDE DEF warns
  <2> QED
    BY <1>1, <1>2, <2>1, AppendErrorType DEF Processings
<1>3. CASE ~warns
  <2>1. s.heads \in Seq(CollectionHead) /\ k \in 1 .. Len(s.heads)
    BY <1>3, FindHeadType DEF SessionObject
  <2>2. s.heads[k] \in CollectionHead
    BY <2>1
  <2> HIDE DEF warns, k
  <2> QED
    BY <1>1, <1>3, <2>2, AppendResultType DEF Processings
<1> QED
  BY <1>2, <1>3

LEMMA WalkVarBindType ==
  ASSUME NEW s \in SessionObject, NEW var_bind \in VarBind
  PROVE  WalkVarBind(s, var_bind) \in Processings(s)
<1> DEFINE k == FindHead(s, var_bind.oid)
           moved == [s EXCEPT !.heads[k].last_resp_oid = Some(var_bind.oid)]
<1>1. CASE k = 0
  BY <1>1 DEF WalkVarBind, Processings
<1>2. CASE k # 0 /\ OidLE(var_bind.oid, Cursor(s.heads[k]))
  BY <1>2 DEF WalkVarBind, Processings
<1>3. CASE k # 0 /\ ~OidLE(var_bind.oid, Cursor(s.heads[k]))
  <2>1. WalkVarBind(s, var_bind) = AppendResult(moved, s.heads[k], var_bind)
    BY <1>3 DEF WalkVarBind
  <2>2. s.heads \in Seq(CollectionHead) /\ k \in 1 .. Len(s.heads)
    BY <1>3, FindHeadType DEF SessionObject
  <2>3. s.heads[k] \in CollectionHead
    BY <2>2
  <2>4. Some(var_bind.oid) \in Optional(Oid)
    BY OptionalType DEF VarBind
  <2> HIDE DEF k
  <2>5. [s.heads[k] EXCEPT !.last_resp_oid = Some(var_bind.oid)] \in CollectionHead
    BY <2>3, <2>4 DEF CollectionHead
  <2>6. [s.heads EXCEPT ![k] = [s.heads[k] EXCEPT !.last_resp_oid = Some(var_bind.oid)]]
          \in Seq(CollectionHead)
    BY <2>2, <2>5
  <2>7. moved = [s EXCEPT !.heads =
                   [s.heads EXCEPT ![k] =
                      [s.heads[k] EXCEPT !.last_resp_oid = Some(var_bind.oid)]]]
    OBVIOUS
  <2>8. moved \in SessionObject /\ moved.status = s.status /\ moved.request = s.request
    BY <2>6, <2>7 DEF SessionObject
  <2> HIDE DEF moved
  <2> QED
    BY <2>1, <2>3, <2>8, AppendResultType DEF Processings
<1> QED
  BY <1>1, <1>2, <1>3

\* What one binding of a reply adds to the results and to the errors.
LEMMA ProcessVarBindEffect ==
  ASSUME NEW s \in SessionObject, NEW var_bind \in VarBind,
         NEW next, next = ProcessVarBind(s, var_bind)
  PROVE  /\ \/ next.results = s.results
            \/ \E result : next.results = Append(s.results, result)
         /\ AddsError(s, next, "VALUE_WARNING", Optional(Oid))
<1> DEFINE k == FindHead(s, var_bind.oid)
<1>1. k # 0 => s.heads[k] \in CollectionHead
  BY FindHeadType DEF SessionObject
<1>2. "VALUE_WARNING" \in ErrorTypes /\ Some(var_bind.oid) \in Optional(Oid)
  BY OptionalType DEF ErrorTypes, VarBind
<1>3. CASE next = AppendError(s, "VALUE_WARNING", Some(var_bind.oid))
  <2> DEFINE e == [type |-> "VALUE_WARNING", oid |-> Some(var_bind.oid)]
  <2>1. \A f : f = e => /\ next.results = s.results
                        /\ next.errors = Append(s.errors, f)
    BY <1>3, ErrorEffect
  <2>2. next.results = s.results /\ next.errors = Append(s.errors, e)
    BY <2>1, Zenon
  <2> QED
    BY <1>2, <2>2, Zenon DEF e, AddsError
<1>4. ASSUME NEW t \in SessionObject, t.results = s.results, t.errors = s.errors,
             k # 0, next = AppendResult(t, s.heads[k], var_bind)
      PROVE  /\ next.errors = s.errors
             /\ \E result : next.results = Append(s.results, result)
  <2> DEFINE head == s.heads[k]
  <2>1. head \in CollectionHead /\ next = AppendResult(t, head, var_bind)
    BY <1>1, <1>4, Zenon
  <2> HIDE DEF head
  <2>2. /\ next.errors = t.errors
        /\ \E result : next.results = Append(t.results, result)
    <3>1. /\ AppendResult(t, head, var_bind).errors = t.errors
          /\ \E result :
               AppendResult(t, head, var_bind).results = Append(t.results, result)
      BY <2>1, ResultEffect
    <3> QED
      BY <2>1, <3>1, Zenon
  <2> QED
    BY <1>4, <2>2, Zenon
<1>5. CASE next = s
  BY <1>5 DEF AddsError
<1>6. CASE k # 0 /\ next = AppendResult(s, s.heads[k], var_bind)
  BY <1>4, <1>6 DEF AddsError
<1> DEFINE moved == [s EXCEPT !.heads[k].last_resp_oid = Some(var_bind.oid)]
<1>7. CASE k # 0 /\ next = AppendResult(moved, s.heads[k], var_bind)
  <2>1. s.heads \in Seq(CollectionHead) /\ k \in 1 .. Len(s.heads)
    BY <1>7, FindHeadType DEF SessionObject
  <2> DEFINE heads == [s.heads EXCEPT ![k] =
                         [s.heads[k] EXCEPT !.last_resp_oid = Some(var_bind.oid)]]
  <2> HIDE DEF k
  <2>2. [s.heads[k] EXCEPT !.last_resp_oid = Some(var_bind.oid)] \in CollectionHead
    BY <1>1, <1>2, <1>7 DEF CollectionHead
  <2>3. heads \in Seq(CollectionHead)
    BY <2>1, <2>2
  <2>4. moved = [s EXCEPT !.heads = heads]
    OBVIOUS
  <2> HIDE DEF heads
  <2>5. moved \in SessionObject /\ moved.results = s.results /\ moved.errors = s.errors
    BY <2>3, <2>4 DEF SessionObject
  <2> HIDE DEF moved
  <2> QED
    BY <1>4, <1>7, <2>5 DEF AddsError
<1>8. \/ next = s
      \/ next = AppendError(s, "VALUE_WARNING", Some(var_bind.oid))
      \/ k # 0 /\ next = AppendResult(s, s.heads[k], var_bind)
      \/ k # 0 /\ next = AppendResult(moved, s.heads[k], var_bind)
  BY DEF ProcessVarBind, GetVarBind, WalkVarBind
<1> QED
  BY <1>3, <1>5, <1>6, <1>7, <1>8

LEMMA VarBindsType ==
  ASSUME NEW s \in SessionObject, NEW var_binds \in Seq(VarBind)
  PROVE  VarBindLoop!Run(s, var_binds) \in Processings(s)
<1>1. s \in Processings(s)
  BY DEF Processings
<1>2. ASSUME NEW t \in Processings(s), NEW var_bind \in VarBind
      PROVE  ProcessVarBind(t, var_bind) \in Processings(s)
  <2>1. t \in SessionObject /\ t.status = s.status /\ t.request = s.request
    BY DEF Processings
  <2>2. ProcessVarBind(t, var_bind) \in Processings(t)
    BY <2>1, GetVarBindType, WalkVarBindType DEF ProcessVarBind
  <2> QED
    BY <2>1, <2>2 DEF Processings
<1>3. VarBindProofs!Run(s, var_binds) \in Processings(s)
  BY <1>1, <1>2, VarBindProofs!RunInvariant
<1> QED
  BY <1>3 DEF VarBindProofs!Run, VarBindLoop!Run

--------------------------------------------------------------------------------
(* process_pdu *)

LEMMA EpilogueType ==
  ASSUME NEW s \in SessionObject
  PROVE  /\ Epilogue(s) \in SessionObject
         /\ Epilogue(s).request = s.request
         /\ Epilogue(s).results = s.results
         /\ Epilogue(s).errors = s.errors
         /\ Epilogue(s).status \in {s.status, "CLOSED"}
         /\ Epilogue(s).heads = <<>> => Epilogue(s).status = "CLOSED"
         /\ Epilogue(s).heads # <<>> => Epilogue(s).status = s.status
<1> DEFINE kept == HeadLoop!Run(<<>>, s.heads)
<1>1. s.heads \in Seq(CollectionHead) /\ <<>> \in Seq(CollectionHead)
  BY DEF SessionObject
<1>2. ASSUME NEW heads \in Seq(CollectionHead), NEW head \in CollectionHead
      PROVE  KeepHead(heads, head) \in Seq(CollectionHead)
  <2>1. None \in Optional(Oid)
    BY OptionalType
  <2>2. [head EXCEPT !.req_oid = None] \in CollectionHead
    BY <2>1 DEF CollectionHead
  <2> QED
    BY <2>2 DEF KeepHead
<1>3. HeadProofs!Run(<<>>, s.heads) \in Seq(CollectionHead)
  BY <1>1, <1>2, HeadProofs!RunInvariant
<1>4. kept \in Seq(CollectionHead)
  BY <1>3 DEF HeadProofs!Run, HeadLoop!Run
<1>5. Epilogue(s) = [s EXCEPT !.heads = kept,
                              !.status = IF kept = <<>> THEN "CLOSED" ELSE s.status]
  BY DEF Epilogue
<1> HIDE DEF kept
<1> QED
  BY <1>4, <1>5 DEF SessionObject, Status

LEMMA ErrorOidType ==
  ASSUME NEW reply \in ReplyPdu
  PROVE  ErrorOid(reply) \in Optional(Oid)
<1>1. reply.var_binds \in Seq(VarBind)
  BY DEF ReplyPdu
<1>2. None \in Optional(Oid)
  BY OptionalType
<1>3. ASSUME reply.errindex \in DOMAIN reply.var_binds
      PROVE  Some(reply.var_binds[reply.errindex].oid) \in Optional(Oid)
  <2>1. reply.var_binds[reply.errindex] \in VarBind
    BY <1>1, <1>3
  <2>2. reply.var_binds[reply.errindex].oid \in Oid
    BY <2>1 DEF VarBind
  <2> QED
    BY <2>2, OptionalType
<1> QED
  BY <1>2, <1>3 DEF ErrorOid

\* A received message leaves the session idle or closed, never waiting.
LEMMA ReceivedType ==
  ASSUME NEW s \in SessionObject, NEW reply \in Optional(ReplyPdu)
  PROVE  /\ Received(s, reply) \in SessionObject
         /\ Received(s, reply).request = s.request
         /\ Received(s, reply).status \in {"IDLE", "CLOSED"}
<1>1. /\ None \in Optional(Oid)
      /\ {"CREATE_RESPONSE_PDU_ERROR", "BAD_RESPONSE_PDU_ERROR"} \subseteq ErrorTypes
  BY OptionalType DEF ErrorTypes, FatalErrors
<1>2. CASE reply = None
  <2>1. Received(s, reply) = Fail(s, "CREATE_RESPONSE_PDU_ERROR", None)
    BY <1>2 DEF Received
  <2> QED
    BY <1>1, <2>1, FailType
<1>3. CASE reply # None
  <2> DEFINE pdu == reply[1]
             idle == [s EXCEPT !.status = "IDLE"]
  <2>1. pdu \in ReplyPdu
    BY <1>3, OptionalType
  <2>2. CASE pdu.command # "RESPONSE"
    <3>1. Received(s, reply) = Fail(s, "BAD_RESPONSE_PDU_ERROR", None)
      BY <1>3, <2>2 DEF Received
    <3> QED
      BY <1>1, <3>1, FailType
  <2>3. CASE pdu.command = "RESPONSE" /\ pdu.errstat # 0
    <3>1. Received(s, reply) = Fail(s, "BAD_RESPONSE_PDU_ERROR", ErrorOid(pdu))
      BY <1>3, <2>3 DEF Received
    <3>2. ErrorOid(pdu) \in Optional(Oid)
      BY <2>1, ErrorOidType
    <3> QED
      BY <1>1, <3>1, <3>2, FailType
  <2>4. CASE pdu.command = "RESPONSE" /\ pdu.errstat = 0
    <3>1. Received(s, reply) = VarBindLoop!Run(idle, pdu.var_binds)
      BY <1>3, <2>4 DEF Received
    <3>2. idle \in SessionObject /\ idle.status = "IDLE" /\ idle.request = s.request
      BY DEF SessionObject, Status
    <3>3. pdu.var_binds \in Seq(VarBind)
      BY <2>1 DEF ReplyPdu
    <3> HIDE DEF idle, pdu
    <3>4. VarBindLoop!Run(idle, pdu.var_binds) \in Processings(idle)
      BY <3>2, <3>3, VarBindsType
    <3> QED
      BY <3>1, <3>2, <3>4 DEF Processings
  <2> QED
    BY <2>2, <2>3, <2>4
<1> QED
  BY <1>2, <1>3

\* What process_pdu leaves behind, by the operation it is called with.
LEMMA CallbackType ==
  ASSUME NEW s \in SessionObject
  PROVE  /\ \A reply \in Optional(ReplyPdu) :
              /\ ProcessReceived(s, reply) \in SessionObject
              /\ ProcessReceived(s, reply).status \in {"IDLE", "CLOSED"}
         /\ \A t \in {ProcessTimedOut(s), ProcessSendFailed(s), ProcessDisconnect(s)} :
              t \in SessionObject /\ t.status = "CLOSED"
         /\ ProcessResend(s) \in SessionObject
         /\ ProcessResend(s).status \in {s.status, "CLOSED"}
<1>1. ASSUME NEW reply \in Optional(ReplyPdu)
      PROVE  /\ ProcessReceived(s, reply) \in SessionObject
             /\ ProcessReceived(s, reply).status \in {"IDLE", "CLOSED"}
  <2>1. /\ Received(s, reply) \in SessionObject
        /\ Received(s, reply).status \in {"IDLE", "CLOSED"}
    BY ReceivedType
  <2> QED
    BY <2>1, EpilogueType DEF ProcessReceived
<1>2. ASSUME NEW type \in FatalErrors
      PROVE  /\ Epilogue(Fail(s, type, None)) \in SessionObject
             /\ Epilogue(Fail(s, type, None)).status = "CLOSED"
  <2>1. type \in ErrorTypes /\ None \in Optional(Oid)
    BY OptionalType DEF ErrorTypes
  <2>2. Fail(s, type, None) \in SessionObject /\ Fail(s, type, None).status = "CLOSED"
    BY <2>1, FailType
  <2> QED
    BY <2>2, EpilogueType
<1>3. {"TIMEOUT_ERROR", "ASYNC_PROBE_ERROR", "TRANSPORT_DISCONNECT_ERROR"} \subseteq FatalErrors
  BY DEF FatalErrors
<1>4. \A t \in {ProcessTimedOut(s), ProcessSendFailed(s), ProcessDisconnect(s)} :
        t \in SessionObject /\ t.status = "CLOSED"
  BY <1>2, <1>3 DEF ProcessTimedOut, ProcessSendFailed, ProcessDisconnect
<1>5. ProcessResend(s) \in SessionObject /\ ProcessResend(s).status \in {s.status, "CLOSED"}
  BY EpilogueType DEF ProcessResend
<1> QED
  BY <1>1, <1>4, <1>5


--------------------------------------------------------------------------------
(* What the steps of send and read do to the session, for any typed state. *)

\* A filled PDU leaves the session idle.
LEMMA Filled ==
  ASSUME TypeOK, Idle, NEW taken \in Takings
  PROVE  /\ Fill(session, taken).session \in SessionObject
         /\ Fill(session, taken).session.status = "IDLE"
         /\ Fill(session, taken).session.request = session.request
         /\ Fill(session, taken).oids \in Seq(Oid)
<1>1. session \in SessionObject /\ session.status = "IDLE"
  BY DEF TypeOK, Idle
<1>2. taken \in Seq(BOOLEAN)
  <2>1. taken \in [1 .. Len(session.heads) -> BOOLEAN] /\ Len(session.heads) \in Nat
    BY <1>1 DEF Takings, SessionObject
  <2> QED
    BY <2>1
<1>3. Fill(session, taken) \in Fillings(session)
  BY <1>1, <1>2, FillType
<1> QED
  BY <1>1, <1>3 DEF Fillings

\* The error types send reports are error types, and their OID may be missing.
LEMMA SendErrors ==
  /\ None \in Optional(Oid)
  /\ {"CREATE_REQUEST_PDU_ERROR", "SEND_ERROR"} \subseteq ErrorTypes
BY OptionalType DEF ErrorTypes, FatalErrors

\* The invariant that is inductive: types, and one PDU in flight.
IInv == TypeOK /\ OneInFlight

LEMMA InitIInv == Init => IInv
<1> SUFFICES ASSUME Init PROVE IInv
  OBVIOUS
<1>1. PICK request \in Requests :
        \/ ~ConstructorThrows(request) /\ session = Opened(request)
        \/ "open" \in Faults /\ session = OpenFailed(request)
  BY DEF Init
<1>2. request \in Request
  BY RequestsAssumption
<1>3. session \in SessionObject /\ session.status \in {"IDLE", "CLOSED"}
  BY <1>1, <1>2, OpenedType, OpenFailedType
<1>4. in_flight = None /\ in_flight \in Optional(RequestPdu) /\ resends = 0 /\ aborted = FALSE
  BY OptionalType DEF Init
<1> QED
  BY <1>3, <1>4 DEF IInv, TypeOK, OneInFlight

LEMMA SendIInv ==
  ASSUME IInv, Send
  PROVE  IInv' /\ session'.status \in AfterSend(session.status) \cup {session.status}
<1> USE DEF IInv
<1>1. TypeOK /\ session.status = "IDLE" /\ in_flight = None
  BY DEF Send, SendNoPdu, Idle, OneInFlight
<1>2. CASE SendNoPdu
  <2>1. /\ session' = Fail(session, "CREATE_REQUEST_PDU_ERROR", None)
        /\ UNCHANGED <<in_flight, resends, aborted>>
    BY <1>2 DEF SendNoPdu
  <2>2. session' \in SessionObject /\ session'.status = "CLOSED"
    BY <1>1, <2>1, SendErrors, FailType DEF TypeOK
  <2> QED
    BY <1>1, <2>1, <2>2 DEF TypeOK, OneInFlight, AfterSend
<1>3. ASSUME Idle, NEW taken \in Takings, NEW filled, filled = Fill(session, taken),
             SendDivides(filled) \/ SendRefused(filled) \/ SendTaken(filled)
      PROVE  IInv' /\ session'.status \in AfterSend(session.status) \cup {session.status}
  <2>1. /\ filled.session \in SessionObject /\ filled.session.status = "IDLE"
        /\ filled.oids \in Seq(Oid)
    BY <1>1, <1>3, Filled
  <2>2. CASE SendDivides(filled)
    BY <1>1, <2>1, <2>2 DEF SendDivides, TypeOK, OneInFlight, AfterSend
  <2>3. CASE SendRefused(filled)
    <3>1. session' \in SessionObject /\ session'.status = "CLOSED"
      BY <2>1, <2>3, SendErrors, FailType DEF SendRefused
    <3> QED
      BY <1>1, <2>3, <3>1 DEF SendRefused, TypeOK, OneInFlight, AfterSend
  <2>4. CASE SendTaken(filled)
    <3>1. BuildPdu(filled.session, filled.oids) \in RequestPdu
      BY <2>1, <2>4, BuildPduType DEF SendTaken
    <3>2. in_flight' \in Optional(RequestPdu) /\ in_flight' # None
      BY <2>4, <3>1, OptionalType DEF SendTaken, Some, None
    <3>3. session' \in SessionObject /\ session'.status = "WAIT"
      BY <2>1, <2>4 DEF SendTaken, SessionObject, Status
    <3> QED
      BY <1>1, <2>4, <3>2, <3>3 DEF SendTaken, TypeOK, OneInFlight, AfterSend
  <2> QED
    BY <1>3, <2>2, <2>3, <2>4
<1>4. CASE Idle /\ ~SendNoPdu
  <2>1. PICK taken \in Takings :
          LET filled == Fill(session, taken)
          IN  SendDivides(filled) \/ SendRefused(filled) \/ SendTaken(filled)
    BY <1>4 DEF Send
  <2> QED
    BY <1>3, <1>4, <2>1
<1> QED
  BY <1>2, <1>4 DEF Send

LEMMA ReadIInv ==
  ASSUME IInv, Read
  PROVE  IInv' /\ session'.status \in AfterRead(session.status)
<1>1. TypeOK /\ session \in SessionObject /\ session.status = "WAIT" /\ Waiting
  BY DEF Read, Receive, ReceiveNull, Resend, TimedOut, SendFailed, Disconnect, Waiting,
         IInv, TypeOK
<1>2. None \in Optional(ReplyPdu) /\ None \in Optional(RequestPdu)
  BY OptionalType
<1>3. CASE Receive
  <2>1. PICK reply \in ReplyPdu : session' = ProcessReceived(session, Some(reply))
    BY <1>3 DEF Receive
  <2>2. Some(reply) \in Optional(ReplyPdu)
    BY OptionalType
  <2>3. session' \in SessionObject /\ session'.status \in {"IDLE", "CLOSED"}
    BY <1>1, <2>1, <2>2, CallbackType
  <2> QED
    BY <1>1, <1>2, <1>3, <2>3 DEF Receive, IInv, TypeOK, OneInFlight, AfterRead
<1>4. CASE ReceiveNull
  <2>1. session' \in SessionObject /\ session'.status \in {"IDLE", "CLOSED"}
    BY <1>1, <1>2, <1>4, CallbackType DEF ReceiveNull
  <2> QED
    BY <1>1, <1>2, <1>4, <2>1 DEF ReceiveNull, IInv, TypeOK, OneInFlight, AfterRead
<1>5. CASE Resend
  <2>1. session' \in SessionObject /\ session'.status \in {"WAIT", "CLOSED"}
    BY <1>1, <1>5, CallbackType DEF Resend
  <2>2. resends' \in Nat /\ UNCHANGED <<in_flight, aborted>> /\ in_flight # None
    BY <1>1, <1>5 DEF Resend, Waiting, TypeOK
  <2> QED
    BY <1>1, <2>1, <2>2 DEF IInv, TypeOK, OneInFlight, AfterRead
<1>6. CASE TimedOut
  <2>1. session' \in SessionObject /\ session'.status = "CLOSED"
    BY <1>1, <1>6, CallbackType DEF TimedOut
  <2> QED
    BY <1>1, <1>2, <1>6, <2>1 DEF TimedOut, IInv, TypeOK, OneInFlight, AfterRead
<1>7. CASE SendFailed
  <2>1. session' \in SessionObject /\ session'.status = "CLOSED"
    BY <1>1, <1>7, CallbackType DEF SendFailed
  <2> QED
    BY <1>1, <1>7, <2>1 DEF SendFailed, IInv, TypeOK, OneInFlight, AfterRead
<1>8. CASE Disconnect
  <2>1. session' \in SessionObject /\ session'.status = "CLOSED"
    BY <1>1, <1>8, CallbackType DEF Disconnect
  <2> QED
    BY <1>1, <1>2, <1>8, <2>1 DEF Disconnect, IInv, TypeOK, OneInFlight, AfterRead
<1> QED
  BY <1>3, <1>4, <1>5, <1>6, <1>7, <1>8 DEF Read

LEMMA StutterIInv ==
  ASSUME IInv, UNCHANGED vars
  PROVE  IInv'
BY DEF IInv, vars, TypeOK, OneInFlight

LEMMA NextIInv == IInv /\ [Next]_vars => IInv'
BY SendIInv, ReadIInv, StutterIInv DEF Next, Done

LEMMA InvariantIInv == Spec => []IInv
<1>1. Init => IInv
  BY InitIInv
<1>2. IInv /\ [Next]_vars => IInv'
  BY NextIInv
<1> QED
  BY <1>1, <1>2, PTL DEF Spec

\* TypeOK for every set of requests, every peer and every fault: in particular
\* the loops of send and process_pdu leave a session behind as they found it.
THEOREM TypeCorrect == Spec => []TypeOK
<1>1. IInv => TypeOK
  BY DEF IInv
<1> QED
  BY <1>1, InvariantIInv, PTL

\* OneInFlight: select never blocks for ever on a session, and send never has two
\* PDUs in flight.
THEOREM PduInFlight == Spec => []OneInFlight
<1>1. IInv => OneInFlight
  BY DEF IInv
<1> QED
  BY <1>1, InvariantIInv, PTL

--------------------------------------------------------------------------------
(* Reports that grow *)

Extends(longer, shorter) ==
  /\ Len(shorter) <= Len(longer)
  /\ \A i \in 1 .. Len(shorter) : longer[i] = shorter[i]

LEMMA ExtendsItself ==
  ASSUME NEW S, NEW seq \in Seq(S)
  PROVE  Extends(seq, seq)
BY DEF Extends

LEMMA ExtendsByOne ==
  ASSUME NEW S, NEW longer \in Seq(S), NEW shorter \in Seq(S), NEW x,
         Extends(longer, shorter)
  PROVE  Extends(Append(longer, x), shorter)
<1>1. /\ Len(Append(longer, x)) = Len(longer) + 1
      /\ \A i \in 1 .. Len(longer) : Append(longer, x)[i] = longer[i]
  OBVIOUS
<1>2. Len(longer) \in Nat /\ Len(shorter) \in Nat
  OBVIOUS
<1> QED
  BY <1>1, <1>2 DEF Extends

LEMMA ExtendsIsPrefix ==
  ASSUME NEW S, NEW longer \in Seq(S), NEW shorter \in Seq(S), Extends(longer, shorter)
  PROVE  IsPrefix(shorter, longer)
<1> DEFINE n == Len(shorter)
<1>1. n \in Nat /\ n <= Len(longer) /\ \A i \in 1 .. n : longer[i] = shorter[i]
  BY DEF Extends
<1>2. SubSeq(shorter, 1, n) = [i \in 1 .. n |-> shorter[i]]
  BY <1>1
<1>3. SubSeq(longer, 1, n) = [i \in 1 .. n |-> longer[i]]
  BY <1>1
<1>4. SubSeq(shorter, 1, n) = SubSeq(longer, 1, n)
  BY <1>1, <1>2, <1>3
<1> QED
  BY <1>1, <1>4 DEF IsPrefix

--------------------------------------------------------------------------------
(* Errors that end a session *)

\* Nothing in the errors ends the session ...
Quiet(errors) == \A i \in 1 .. Len(errors) : ~Fatal(errors[i])

\* ... or the last one does.
Closing(errors) ==
  /\ errors # <<>>
  /\ Fatal(errors[Len(errors)])
  /\ \A i \in 1 .. Len(errors) - 1 : ~Fatal(errors[i])

\* At most one error is fatal, the last, and only that of a closed session; one
\* that is closed with heads left has it.
Explained(s) ==
  /\ \A i \in DOMAIN s.errors :
       Fatal(s.errors[i]) => i = Len(s.errors) /\ s.status = "CLOSED"
  /\ s.status = "CLOSED" /\ s.heads # <<>> =>
       s.errors # <<>> /\ Fatal(Last(s.errors))

\* What the callbacks leave behind in front of the epilogue of process_pdu.
Sound(s) == IF s.status = "CLOSED" THEN Closing(s.errors) ELSE Quiet(s.errors)

LEMMA QuietByOne ==
  ASSUME NEW errors \in Seq(Error), NEW error
  PROVE  /\ Quiet(errors) /\ ~Fatal(error) => Quiet(Append(errors, error))
         /\ Quiet(errors) /\ Fatal(error) => Closing(Append(errors, error))
<1> DEFINE n == Len(errors)
           more == Append(errors, error)
<1>1. /\ n \in Nat /\ Len(more) = n + 1 /\ more[n + 1] = error
      /\ \A i \in 1 .. n : more[i] = errors[i]
  OBVIOUS
<1> HIDE DEF more
<1>2. more # <<>>
  BY <1>1
<1>3. Quiet(errors) /\ ~Fatal(error) => Quiet(more)
  BY <1>1 DEF Quiet
<1>4. Quiet(errors) /\ Fatal(error) => Closing(more)
  BY <1>1, <1>2 DEF Quiet, Closing
<1> QED
  BY <1>3, <1>4 DEF more

LEMMA SoundIsExplained ==
  ASSUME NEW s \in SessionObject, NEW t \in SessionObject, Sound(s),
         t.errors = s.errors,
         t.status = s.status \/ (t.heads = <<>> /\ t.status = "CLOSED")
  PROVE  Explained(t)
<1>1. t.errors \in Seq(Error) /\ Len(t.errors) \in Nat
      /\ DOMAIN t.errors = 1 .. Len(t.errors)
  BY DEF SessionObject
<1>2. CASE Quiet(t.errors) /\ (t.status # "CLOSED" \/ t.heads = <<>>)
  BY <1>1, <1>2 DEF Quiet, Explained
<1>3. CASE Closing(t.errors) /\ t.status = "CLOSED"
  <2>1. \A i \in DOMAIN t.errors : Fatal(t.errors[i]) => i = Len(t.errors)
    BY <1>1, <1>3 DEF Closing
  <2>2. t.errors # <<>> /\ Fatal(Last(t.errors))
    BY <1>3 DEF Closing, Last
  <2> QED
    BY <1>3, <2>1, <2>2 DEF Explained
<1> QED
  BY <1>2, <1>3 DEF Sound

--------------------------------------------------------------------------------
(* What the loops of send and process_pdu add to the reports *)

LEMMA MaxVarBindsType ==
  ASSUME NEW s \in SessionObject
  PROVE  MaxVarBinds(s) \in Nat
<1>1. s.request \in Request
  BY DEF SessionObject
<1>2. s.request.config \in Settings
  BY <1>1 DEF Request
<1> QED
  BY <1>2 DEF MaxVarBinds, Settings

LEMMA RetriesType ==
  ASSUME NEW s \in SessionObject
  PROVE  s.request.config.retries \in Nat
<1>1. s.request.config \in Settings
  BY DEF SessionObject, Request
<1> QED
  BY <1>1 DEF Settings

\* The states of the loop of send, with what it has reported and asked for.
ReportFillings(s) ==
  { filling \in Fillings(s) :
      /\ filling.session.results = s.results
      /\ Extends(filling.session.errors, s.errors)
      /\ Quiet(s.errors) => Quiet(filling.session.errors)
      /\ PduType(s.request) # "GETBULK" => Len(filling.oids) <= MaxVarBinds(s) }

LEMMA AddVarBindReports ==
  ASSUME NEW s \in SessionObject, NEW filling \in ReportFillings(s),
         NEW taken \in BOOLEAN,
         NEW t, t = filling.session, NEW next, next = AddVarBind(filling, taken)
  PROVE  next \in ReportFillings(s)
<1>1. /\ filling \in Fillings(s) /\ t.results = s.results
      /\ Extends(t.errors, s.errors)
      /\ Quiet(s.errors) => Quiet(t.errors)
      /\ PduType(s.request) # "GETBULK" => Len(filling.oids) <= MaxVarBinds(s)
  BY DEF ReportFillings
<1>2. next \in Fillings(s)
  BY <1>1, AddVarBindType
<1>3. /\ t \in SessionObject /\ t.request = s.request /\ filling.oids \in Seq(Oid)
      /\ next.session \in SessionObject
  BY <1>1, <1>2 DEF Fillings
<1>4. t.errors \in Seq(Error) /\ s.errors \in Seq(Error)
  BY <1>3 DEF SessionObject
<1>5. /\ next.session.results = t.results
      /\ AddsError(t, next.session, "CREATE_REQUEST_PDU_ERROR", Optional(Oid) \ {None})
      /\ AddsOid(filling, next)
  BY <1>1, AddVarBindEffect
<1>6. /\ Extends(next.session.errors, s.errors)
      /\ Quiet(s.errors) => Quiet(next.session.errors)
  <2>1. CASE next.session.errors = t.errors
    BY <1>1, <2>1
  <2>2. ASSUME NEW oid \in Optional(Oid) \ {None}, NEW error,
               error = [type |-> "CREATE_REQUEST_PDU_ERROR", oid |-> oid],
               next.session.errors = Append(t.errors, error)
        PROVE  /\ Extends(next.session.errors, s.errors)
               /\ Quiet(s.errors) => Quiet(next.session.errors)
    <3>1. ~Fatal(error)
      BY <2>2 DEF Fatal
    <3>2. Extends(Append(t.errors, error), s.errors)
      BY <1>1, <1>4, ExtendsByOne
    <3>3. Quiet(t.errors) => Quiet(Append(t.errors, error))
      BY <1>4, <3>1, QuietByOne
    <3> QED
      BY <1>1, <2>2, <3>2, <3>3
  <2> QED
    BY <1>5, <2>1, <2>2 DEF AddsError
<1>7. PduType(s.request) # "GETBULK" => Len(next.oids) <= MaxVarBinds(s)
  <2>1. /\ PduType(t.request) = PduType(s.request) /\ MaxVarBinds(t) = MaxVarBinds(s)
        /\ MaxVarBinds(s) \in Nat /\ Len(filling.oids) \in Nat
    BY <1>3, MaxVarBindsType DEF MaxVarBinds
  <2>2. WantsMore(t, filling.oids) /\ PduType(t.request) # "GETBULK"
          => Len(filling.oids) < MaxVarBinds(t)
    BY DEF WantsMore
  <2> QED
    BY <1>1, <1>5, <2>1, <2>2 DEF AddsOid
<1> QED
  BY <1>1, <1>2, <1>5, <1>6, <1>7 DEF ReportFillings

LEMMA FillReports ==
  ASSUME NEW s \in SessionObject, NEW taken \in Seq(BOOLEAN)
  PROVE  Fill(s, taken) \in ReportFillings(s)
<1> DEFINE first == [session |-> s, oids |-> <<>>]
<1>1. first \in Fillings(s)
  BY DEF Fillings, Oid
<1>2. MaxVarBinds(s) \in Nat /\ s.errors \in Seq(Error)
  BY MaxVarBindsType DEF SessionObject
<1>3. Extends(s.errors, s.errors)
  BY <1>2, ExtendsItself
<1>4. first.session = s /\ Len(first.oids) = 0
  OBVIOUS
<1> HIDE DEF first
<1>5. first \in ReportFillings(s)
  BY <1>1, <1>2, <1>3, <1>4 DEF ReportFillings
<1>6. \A f \in ReportFillings(s), v \in BOOLEAN : AddVarBind(f, v) \in ReportFillings(s)
  BY AddVarBindReports
<1>7. FillProofs!Run(first, taken) \in ReportFillings(s)
  BY <1>5, <1>6, FillProofs!RunInvariant
<1> QED
  BY <1>7 DEF Fill, first, FillProofs!Run, FillLoop!Run

\* The states of the loop over the bindings of a reply, with what it has reported.
ReportProcessings(s) ==
  { t \in Processings(s) :
      /\ Extends(t.results, s.results)
      /\ Extends(t.errors, s.errors)
      /\ Quiet(s.errors) => Quiet(t.errors) }

LEMMA ProcessVarBindReports ==
  ASSUME NEW s \in SessionObject, NEW t \in ReportProcessings(s), NEW var_bind \in VarBind
  PROVE  ProcessVarBind(t, var_bind) \in ReportProcessings(s)
<1> DEFINE next == ProcessVarBind(t, var_bind)
<1>1. /\ t \in Processings(s)
      /\ Extends(t.results, s.results) /\ Extends(t.errors, s.errors)
      /\ Quiet(s.errors) => Quiet(t.errors)
  BY DEF ReportProcessings
<1>2. /\ t \in SessionObject /\ t.status = s.status /\ t.request = s.request
  BY <1>1 DEF Processings
<1>3. next \in Processings(t)
  BY <1>2, GetVarBindType, WalkVarBindType DEF ProcessVarBind
<1>4. next \in Processings(s)
  BY <1>2, <1>3 DEF Processings
<1>5. /\ t.results \in Seq(Result) /\ s.results \in Seq(Result)
      /\ t.errors \in Seq(Error) /\ s.errors \in Seq(Error)
  BY <1>2 DEF SessionObject
<1>6. /\ \/ next.results = t.results
         \/ \E result : next.results = Append(t.results, result)
      /\ AddsError(t, next, "VALUE_WARNING", Optional(Oid))
  BY <1>2, ProcessVarBindEffect
<1> HIDE DEF next
<1>7. Extends(next.results, s.results)
  BY <1>1, <1>5, <1>6, ExtendsByOne
<1>8. /\ Extends(next.errors, s.errors)
      /\ Quiet(s.errors) => Quiet(next.errors)
  <2>1. CASE next.errors = t.errors
    BY <1>1, <2>1
  <2>2. ASSUME NEW oid \in Optional(Oid), NEW error,
               error = [type |-> "VALUE_WARNING", oid |-> oid],
               next.errors = Append(t.errors, error)
        PROVE  /\ Extends(next.errors, s.errors)
               /\ Quiet(s.errors) => Quiet(next.errors)
    <3>1. ~Fatal(error)
      BY <2>2 DEF Fatal, FatalErrors
    <3>2. Extends(Append(t.errors, error), s.errors)
      BY <1>1, <1>5, ExtendsByOne
    <3>3. Quiet(t.errors) => Quiet(Append(t.errors, error))
      BY <1>5, <3>1, QuietByOne
    <3> QED
      BY <1>1, <2>2, <3>2, <3>3
  <2> QED
    BY <1>6, <2>1, <2>2 DEF AddsError
<1> QED
  BY <1>4, <1>7, <1>8 DEF ReportProcessings, next

LEMMA VarBindsReport ==
  ASSUME NEW s \in SessionObject, NEW var_binds \in Seq(VarBind)
  PROVE  VarBindLoop!Run(s, var_binds) \in ReportProcessings(s)
<1>1. s \in Processings(s) /\ s.results \in Seq(Result) /\ s.errors \in Seq(Error)
  BY DEF Processings, SessionObject
<1>2. s \in ReportProcessings(s)
  BY <1>1, ExtendsItself DEF ReportProcessings
<1>3. \A t \in ReportProcessings(s), v \in VarBind : ProcessVarBind(t, v) \in ReportProcessings(s)
  BY ProcessVarBindReports
<1>4. VarBindProofs!Run(s, var_binds) \in ReportProcessings(s)
  BY <1>2, <1>3, VarBindProofs!RunInvariant
<1> QED
  BY <1>4 DEF VarBindProofs!Run, VarBindLoop!Run

--------------------------------------------------------------------------------
(* The errors behind which a session is closed *)

LEMMA FailReports ==
  ASSUME NEW s \in SessionObject, NEW type \in ErrorTypes, NEW oid \in Optional(Oid),
         Fatal([type |-> type, oid |-> oid])
  PROVE  /\ Fail(s, type, oid) \in SessionObject
         /\ Fail(s, type, oid).request = s.request
         /\ Extends(Fail(s, type, oid).results, s.results)
         /\ Extends(Fail(s, type, oid).errors, s.errors)
         /\ Quiet(s.errors) => Sound(Fail(s, type, oid))
<1> DEFINE t     == Fail(s, type, oid)
           error == [type |-> type, oid |-> oid]
<1>1. t \in SessionObject /\ t.status = "CLOSED" /\ t.request = s.request
  BY FailType
<1>2. t.results = s.results /\ t.errors = Append(s.errors, error)
  BY ErrorEffect
<1>3. s.errors \in Seq(Error) /\ s.results \in Seq(Result)
  BY DEF SessionObject
<1> HIDE DEF t, error
<1>4. Extends(Append(s.errors, error), s.errors) /\ Extends(s.results, s.results)
  <2>1. Extends(s.errors, s.errors) /\ Extends(s.results, s.results)
    BY <1>3, ExtendsItself
  <2> QED
    BY <1>3, <2>1, ExtendsByOne
<1>5. Fatal(error)
  BY DEF error
<1>6. Quiet(s.errors) => Closing(Append(s.errors, error))
  BY <1>3, <1>5, QuietByOne
<1> QED
  BY <1>1, <1>2, <1>4, <1>6 DEF Sound, t

LEMMA EpilogueReports ==
  ASSUME NEW s \in SessionObject, Sound(s)
  PROVE  Explained(Epilogue(s))
<1>1. /\ Epilogue(s) \in SessionObject
      /\ Epilogue(s).errors = s.errors
      /\ Epilogue(s).heads = <<>> => Epilogue(s).status = "CLOSED"
      /\ Epilogue(s).heads # <<>> => Epilogue(s).status = s.status
  BY EpilogueType
<1> QED
  BY <1>1, SoundIsExplained

\* What a callback reports, whatever it is called for.
Accounts(s, t) ==
  /\ t.request = s.request
  /\ Extends(t.results, s.results)
  /\ Extends(t.errors, s.errors)
  /\ Quiet(s.errors) => Explained(t)

LEMMA ReportedAfterEpilogue ==
  ASSUME NEW s \in SessionObject, NEW t \in SessionObject, t.request = s.request,
         Extends(t.results, s.results), Extends(t.errors, s.errors),
         Quiet(s.errors) => Sound(t)
  PROVE  Accounts(s, Epilogue(t))
BY EpilogueType, EpilogueReports DEF Accounts

LEMMA ReceivedReports ==
  ASSUME NEW s \in SessionObject, NEW reply \in Optional(ReplyPdu)
  PROVE  Accounts(s, ProcessReceived(s, reply))
<1>1. /\ None \in Optional(Oid)
      /\ {"CREATE_RESPONSE_PDU_ERROR", "BAD_RESPONSE_PDU_ERROR"} \subseteq FatalErrors
      /\ {"CREATE_RESPONSE_PDU_ERROR", "BAD_RESPONSE_PDU_ERROR"} \subseteq ErrorTypes
  BY OptionalType DEF ErrorTypes, FatalErrors
<1>2. ASSUME NEW type \in {"CREATE_RESPONSE_PDU_ERROR", "BAD_RESPONSE_PDU_ERROR"},
             NEW oid \in Optional(Oid)
      PROVE  Accounts(s, Epilogue(Fail(s, type, oid)))
  <2>1. Fatal([type |-> type, oid |-> oid])
    BY <1>1, <1>2 DEF Fatal
  <2>2. type \in ErrorTypes
    BY <1>1
  <2> QED
    BY <2>1, <2>2, FailReports, ReportedAfterEpilogue
<1>3. CASE reply = None
  <2>1. Received(s, reply) = Fail(s, "CREATE_RESPONSE_PDU_ERROR", None)
    BY <1>3 DEF Received
  <2> QED
    BY <1>1, <1>2, <2>1 DEF ProcessReceived
<1>4. CASE reply # None
  <2> DEFINE pdu == reply[1]
             idle == [s EXCEPT !.status = "IDLE"]
  <2>1. pdu \in ReplyPdu
    BY <1>4, OptionalType
  <2>2. CASE pdu.command # "RESPONSE"
    <3>1. Received(s, reply) = Fail(s, "BAD_RESPONSE_PDU_ERROR", None)
      BY <1>4, <2>2 DEF Received
    <3> QED
      BY <1>1, <1>2, <3>1 DEF ProcessReceived
  <2>3. CASE pdu.command = "RESPONSE" /\ pdu.errstat # 0
    <3>1. Received(s, reply) = Fail(s, "BAD_RESPONSE_PDU_ERROR", ErrorOid(pdu))
      BY <1>4, <2>3 DEF Received
    <3>2. ErrorOid(pdu) \in Optional(Oid)
      BY <2>1, ErrorOidType
    <3> QED
      BY <1>2, <3>1, <3>2 DEF ProcessReceived
  <2>4. CASE pdu.command = "RESPONSE" /\ pdu.errstat = 0
    <3> DEFINE t == VarBindLoop!Run(idle, pdu.var_binds)
    <3>1. Received(s, reply) = t
      BY <1>4, <2>4 DEF Received
    <3>2. /\ idle \in SessionObject /\ idle.status = "IDLE" /\ idle.request = s.request
          /\ idle.results = s.results /\ idle.errors = s.errors
      BY DEF SessionObject, Status
    <3>3. pdu.var_binds \in Seq(VarBind)
      BY <2>1 DEF ReplyPdu
    <3> HIDE DEF idle, pdu
    <3>4. t \in ReportProcessings(idle)
      BY <3>2, <3>3, VarBindsReport
    <3> HIDE DEF t
    <3>5. t \in Processings(idle)
      BY <3>4 DEF ReportProcessings
    <3>6. /\ t \in SessionObject /\ t.status = "IDLE" /\ t.request = s.request
      BY <3>2, <3>5 DEF Processings
    <3>7. /\ Extends(t.results, s.results) /\ Extends(t.errors, s.errors)
          /\ Quiet(s.errors) => Quiet(t.errors)
      BY <3>2, <3>4 DEF ReportProcessings
    <3> QED
      BY <3>1, <3>6, <3>7, ReportedAfterEpilogue DEF ProcessReceived, Sound
  <2> QED
    BY <2>2, <2>3, <2>4
<1> QED
  BY <1>3, <1>4

LEMMA CallbackReports ==
  ASSUME NEW s \in SessionObject, s.status # "CLOSED"
  PROVE  /\ \A t \in {ProcessTimedOut(s), ProcessSendFailed(s), ProcessDisconnect(s)} :
              Accounts(s, t)
         /\ Accounts(s, ProcessResend(s))
<1>1. ASSUME NEW type \in {"TIMEOUT_ERROR", "ASYNC_PROBE_ERROR", "TRANSPORT_DISCONNECT_ERROR"}
      PROVE  Accounts(s, Epilogue(Fail(s, type, None)))
  <2>1. type \in ErrorTypes /\ None \in Optional(Oid)
    BY OptionalType DEF ErrorTypes, FatalErrors
  <2>2. Fatal([type |-> type, oid |-> None])
    BY DEF Fatal, FatalErrors
  <2> QED
    BY <2>1, <2>2, FailReports, ReportedAfterEpilogue
<1>2. Accounts(s, Epilogue(s))
  <2>1. s.results \in Seq(Result) /\ s.errors \in Seq(Error)
    BY DEF SessionObject
  <2>2. Extends(s.results, s.results) /\ Extends(s.errors, s.errors)
    BY <2>1, ExtendsItself
  <2> QED
    BY <2>2, ReportedAfterEpilogue DEF Sound
<1> QED
  BY <1>1, <1>2 DEF ProcessTimedOut, ProcessSendFailed, ProcessDisconnect, ProcessResend

--------------------------------------------------------------------------------
(* The steps of send and read *)

LEMMA OpenIsQuiet ==
  ASSUME NEW s \in SessionObject, s.status # "CLOSED", Explained(s)
  PROVE  Quiet(s.errors)
<1>1. DOMAIN s.errors = 1 .. Len(s.errors)
  BY DEF SessionObject
<1> QED
  BY <1>1 DEF Explained, Quiet

\* What the loop of send leaves behind, before the PDU is handed to net-snmp.
LEMMA FilledReports ==
  ASSUME IInv, Idle, NEW taken \in Takings,
         NEW filled, filled = Fill(session, taken)
  PROVE  /\ filled \in ReportFillings(session)
         /\ filled.session \in SessionObject /\ filled.oids \in Seq(Oid)
         /\ filled.session.request = session.request
         /\ filled.session.status = "IDLE"
         /\ filled.session.results = session.results
         /\ Extends(filled.session.errors, session.errors)
         /\ Quiet(session.errors) => Quiet(filled.session.errors)
         /\ Extends(session.results, session.results)
<1>1. session \in SessionObject /\ session.status = "IDLE"
  BY DEF IInv, TypeOK, Idle
<1>2. taken \in Seq(BOOLEAN)
  <2>1. taken \in [1 .. Len(session.heads) -> BOOLEAN] /\ Len(session.heads) \in Nat
    BY <1>1 DEF Takings, SessionObject
  <2> QED
    BY <2>1
<1>3. filled \in ReportFillings(session)
  BY <1>1, <1>2, FillReports
<1>4. filled \in Fillings(session)
  BY <1>3 DEF ReportFillings
<1>5. Extends(session.results, session.results)
  BY <1>1, ExtendsItself DEF SessionObject
<1> QED
  BY <1>1, <1>3, <1>4, <1>5 DEF ReportFillings, Fillings

LEMMA SendReports ==
  ASSUME IInv, Send
  PROVE  Accounts(session, session')
<1>1. session \in SessionObject /\ session.status = "IDLE" /\ Idle
  BY DEF Send, SendNoPdu, Idle, IInv, TypeOK
<1>2. CASE SendNoPdu
  <2>1. session' = Fail(session, "CREATE_REQUEST_PDU_ERROR", None)
    BY <1>2 DEF SendNoPdu
  <2>2. Fatal([type |-> "CREATE_REQUEST_PDU_ERROR", oid |-> None])
    BY DEF Fatal, FatalErrors
  <2>3. /\ session' \in SessionObject /\ session'.request = session.request
        /\ Extends(session'.results, session.results)
        /\ Extends(session'.errors, session.errors)
        /\ Quiet(session.errors) => Sound(session')
    BY <1>1, <2>1, <2>2, SendErrors, FailReports
  <2>4. Sound(session') => Explained(session')
    BY <2>3, SoundIsExplained
  <2> QED
    BY <2>3, <2>4 DEF Accounts
<1>3. ASSUME NEW taken \in Takings, NEW filled, filled = Fill(session, taken),
             SendDivides(filled) \/ SendRefused(filled) \/ SendTaken(filled)
      PROVE  Accounts(session, session')
  <2> DEFINE t == filled.session
  <2>1. /\ t \in SessionObject /\ t.request = session.request /\ t.status = "IDLE"
        /\ t.results = session.results
        /\ Extends(t.errors, session.errors)
        /\ Quiet(session.errors) => Quiet(t.errors)
        /\ Extends(session.results, session.results)
    BY <1>1, <1>3, FilledReports
  <2>2. \/ session' = t
        \/ session' = [t EXCEPT !.status = "WAIT"]
        \/ session' = Fail(t, "SEND_ERROR", None)
    BY <1>3 DEF SendDivides, SendRefused, SendTaken
  <2> HIDE DEF t
  <2>3. ASSUME session' = t \/ session' = [t EXCEPT !.status = "WAIT"]
        PROVE  Accounts(session, session')
    <3>1. /\ session' \in SessionObject /\ session'.request = t.request
          /\ session'.results = t.results /\ session'.errors = t.errors
          /\ session'.status # "CLOSED"
      BY <2>1, <2>3 DEF SessionObject, Status
    <3>2. Quiet(session.errors) => Sound(session')
      BY <2>1, <3>1 DEF Sound
    <3>3. Sound(session') => Explained(session')
      BY <3>1, SoundIsExplained
    <3> QED
      BY <2>1, <3>1, <3>2, <3>3 DEF Accounts
  <2>4. CASE session' = Fail(t, "SEND_ERROR", None)
    <3>1. Fatal([type |-> "SEND_ERROR", oid |-> None])
      BY DEF Fatal, FatalErrors
    <3>2. /\ session' \in SessionObject /\ session'.request = t.request
          /\ Quiet(t.errors) => Sound(session')
      BY <2>1, <2>4, <3>1, SendErrors, FailReports
    <3> DEFINE error == [type |-> "SEND_ERROR", oid |-> None]
    <3> HIDE DEF error
    <3>3. session'.results = t.results /\ session'.errors = Append(t.errors, error)
      <4>1. error = [type |-> "SEND_ERROR", oid |-> None]
        BY DEF error
      <4>2. /\ Fail(t, "SEND_ERROR", None).results = t.results
            /\ Fail(t, "SEND_ERROR", None).errors = Append(t.errors, error)
        BY <2>1, <4>1, ErrorEffect
      <4> QED
        BY <2>4, <4>2
    <3>4. Extends(session'.errors, session.errors)
      <4>1. t.errors \in Seq(Error) /\ session.errors \in Seq(Error)
        BY <1>1, <2>1 DEF SessionObject
      <4> QED
        BY <2>1, <3>3, <4>1, ExtendsByOne
    <3>5. Sound(session') => Explained(session')
      BY <3>2, SoundIsExplained
    <3> QED
      BY <2>1, <3>2, <3>3, <3>4, <3>5 DEF Accounts
  <2> QED
    BY <2>2, <2>3, <2>4
<1> QED
  BY <1>2, <1>3 DEF Send

LEMMA ReadReports ==
  ASSUME IInv, Read
  PROVE  Accounts(session, session')
<1>1. session \in SessionObject /\ session.status = "WAIT"
  BY DEF Read, Receive, ReceiveNull, Resend, TimedOut, SendFailed, Disconnect, Waiting,
         IInv, TypeOK
<1>2. CASE Receive \/ ReceiveNull
  <2>1. None \in Optional(ReplyPdu)
    BY OptionalType
  <2>2. PICK reply \in Optional(ReplyPdu) : session' = ProcessReceived(session, reply)
    <3>1. CASE Receive
      <4>1. PICK pdu \in ReplyPdu : session' = ProcessReceived(session, Some(pdu))
        BY <3>1 DEF Receive
      <4> QED
        BY <4>1, OptionalType
    <3> QED
      BY <1>2, <2>1, <3>1 DEF ReceiveNull
  <2> QED
    BY <1>1, <2>2, ReceivedReports
<1>3. CASE Resend \/ TimedOut \/ SendFailed \/ Disconnect
  BY <1>1, <1>3, CallbackReports DEF Resend, TimedOut, SendFailed, Disconnect
<1> QED
  BY <1>2, <1>3 DEF Read

LEMMA InvariantExplained == Spec => []Explained(session)
<1>1. Init => Explained(session)
  <2> SUFFICES ASSUME Init PROVE Explained(session)
    OBVIOUS
  <2>1. PICK request \in Requests :
          session = Opened(request) \/ session = OpenFailed(request)
    BY DEF Init
  <2>2. request \in Request
    BY RequestsAssumption
  <2>3. session \in SessionObject
    BY <2>1, <2>2, OpenedType, OpenFailedType
  <2>4. Sound(session)
    <3>1. CASE session = Opened(request)
      <4>1. session.errors = <<>> /\ session.status = "IDLE"
        BY <3>1, <2>2, OpenedType DEF Opened, EmptySession
      <4> QED
        BY <4>1 DEF Sound, Quiet
    <3>2. CASE session = OpenFailed(request)
      <4> DEFINE s == EmptySession(request)
      <4>1. session = Fail(s, "SESSION_ERROR", None)
        BY <3>2 DEF OpenFailed
      <4>2. s \in SessionObject /\ s.errors = <<>>
        BY <2>2, EmptySessionType DEF EmptySession
      <4>3. /\ "SESSION_ERROR" \in ErrorTypes /\ None \in Optional(Oid)
            /\ Fatal([type |-> "SESSION_ERROR", oid |-> None])
        BY OptionalType DEF ErrorTypes, FatalErrors, Fatal
      <4> HIDE DEF s
      <4>4. Quiet(s.errors)
        BY <4>2 DEF Quiet
      <4> QED
        BY <4>1, <4>2, <4>3, <4>4, FailReports
    <3> QED
      BY <2>1, <3>1, <3>2
  <2> QED
    BY <2>3, <2>4, SoundIsExplained
<1>2. IInv /\ Explained(session) /\ [Next]_vars => Explained(session)'
  <2> SUFFICES ASSUME IInv, Explained(session), [Next]_vars
               PROVE  Explained(session')
    OBVIOUS
  <2>1. CASE Send \/ Read
    <3>1. session \in SessionObject /\ session.status # "CLOSED"
      BY <2>1 DEF IInv, TypeOK, Send, SendNoPdu, Idle, Read, Receive, ReceiveNull, Resend,
                  TimedOut, SendFailed, Disconnect, Waiting
    <3>2. Quiet(session.errors)
      BY <3>1, OpenIsQuiet
    <3> QED
      BY <2>1, <3>2, SendReports, ReadReports DEF Accounts
  <2>2. CASE UNCHANGED vars
    BY <2>2 DEF vars
  <2> QED
    BY <2>1, <2>2 DEF Next, Done
<1> QED
  BY <1>1, <1>2, InvariantIInv, PTL DEF Spec

\* OnlyGrows: what a session has collected and reported is never taken back, and
\* a closed session reports nothing more.
THEOREM ReportsOnlyGrow == Spec => OnlyGrows
<1> DEFINE Grows == /\ IsPrefix(session.results, session'.results)
                    /\ IsPrefix(session.errors, session'.errors)
                    /\ session.status = "CLOSED" => UNCHANGED session
<1>1. ASSUME IInv, IInv', Send \/ Read
      PROVE  Grows
  <2>1. session \in SessionObject /\ session' \in SessionObject
    BY <1>1 DEF IInv, TypeOK
  <2>2. session.status # "CLOSED"
    BY <1>1 DEF Send, SendNoPdu, Idle, Read, Receive, ReceiveNull, Resend, TimedOut,
                SendFailed, Disconnect, Waiting
  <2>3. /\ Extends(session'.results, session.results)
        /\ Extends(session'.errors, session.errors)
    BY <1>1, SendReports, ReadReports DEF Accounts
  <2>4. /\ session.results \in Seq(Result) /\ session'.results \in Seq(Result)
        /\ session.errors \in Seq(Error) /\ session'.errors \in Seq(Error)
    BY <2>1 DEF SessionObject
  <2> QED
    BY <2>2, <2>3, <2>4, ExtendsIsPrefix
<1>2. IInv /\ IInv' /\ [Next]_vars => [Grows]_session
  BY <1>1 DEF Next, Done, vars
<1> QED
  BY <1>2, InvariantIInv, PTL DEF Spec, OnlyGrows

--------------------------------------------------------------------------------
(* The lifecycle *)

LEMMA InitLifecycle == Init => Lifecycle!Init
<1> SUFFICES ASSUME Init PROVE Lifecycle!Init
  OBVIOUS
<1>1. PICK request \in Requests :
        \/ ~ConstructorThrows(request) /\ session = Opened(request)
        \/ "open" \in Faults /\ session = OpenFailed(request)
  BY DEF Init
<1>2. request \in Request
  BY RequestsAssumption
<1>3. session.status \in {"IDLE", "CLOSED"} /\ session \in SessionObject
  BY <1>1, <1>2, OpenedType, OpenFailedType
<1>4. session.request.config.retries \in Nat
  BY <1>3, RetriesType
<1>5. (in_flight # None) = FALSE /\ resends = 0
  BY DEF Init
<1> QED
  BY <1>3, <1>4, <1>5 DEF Lifecycle!Init, Lifecycle!Created

\* A send that divides by zero ends in the middle, with nothing changed that the
\* manager sees; any other takes an idle session to a PDU in flight or closes it.
LEMMA SendLifecycle ==
  ASSUME IInv, Send
  PROVE  Lifecycle!Send \/ (aborted' /\ UNCHANGED Lifecycle!vars)
<1>1. TypeOK /\ session \in SessionObject /\ session.status = "IDLE" /\ in_flight = None
  BY DEF Send, SendNoPdu, Idle, IInv, TypeOK, OneInFlight
<1>2. session'.request.config.retries = session.request.config.retries
  BY SendReports DEF Accounts
<1>3. ASSUME session'.status = "CLOSED", UNCHANGED <<in_flight, resends>>
      PROVE  Lifecycle!Send
  BY <1>1, <1>2, <1>3 DEF Lifecycle!Send, Lifecycle!AfterSend
<1>4. CASE SendNoPdu
  <2>1. session'.status = "CLOSED"
    BY <1>1, <1>4, SendErrors, FailType DEF SendNoPdu
  <2> QED
    BY <1>3, <1>4, <2>1 DEF SendNoPdu
<1>5. ASSUME Idle, NEW taken \in Takings, NEW filled, filled = Fill(session, taken),
             SendDivides(filled) \/ SendRefused(filled) \/ SendTaken(filled)
      PROVE  Lifecycle!Send \/ (aborted' /\ UNCHANGED Lifecycle!vars)
  <2>1. filled.session \in SessionObject /\ filled.session.status = "IDLE"
    BY <1>1, <1>5, Filled
  <2>2. CASE SendDivides(filled)
    BY <1>1, <1>2, <2>1, <2>2 DEF SendDivides, Lifecycle!vars
  <2>3. CASE SendRefused(filled)
    <3>1. session'.status = "CLOSED"
      BY <2>1, <2>3, SendErrors, FailType DEF SendRefused
    <3> QED
      BY <1>3, <2>3, <3>1 DEF SendRefused
  <2>4. CASE SendTaken(filled)
    <3>1. in_flight' # None /\ resends' = 0
      BY <2>4 DEF SendTaken, Some, None
    <3>2. session'.status = "WAIT"
      BY <2>1, <2>4 DEF SendTaken, SessionObject
    <3> QED
      BY <1>1, <1>2, <3>1, <3>2 DEF Lifecycle!Send, Lifecycle!AfterSend
  <2> QED
    BY <1>5, <2>2, <2>3, <2>4
<1> QED
  BY <1>4, <1>5 DEF Send

\* Every callback is for the PDU in flight of a waiting session.
LEMMA ReadLifecycle ==
  ASSUME IInv, Read
  PROVE  Lifecycle!Read
<1>1. /\ session \in SessionObject /\ session.status = "WAIT" /\ in_flight # None
      /\ resends \in Nat
  BY DEF Read, Receive, ReceiveNull, Resend, TimedOut, SendFailed, Disconnect, Waiting,
         IInv, TypeOK
<1>2. /\ session'.request.config.retries = session.request.config.retries
      /\ session'.status \in {"IDLE", "WAIT", "CLOSED"}
  BY ReadReports, ReadIInv DEF Accounts, IInv, TypeOK, SessionObject, Status
<1>3. /\ (Lifecycle!Ended \/ Lifecycle!SentAgain \/ Lifecycle!LeftBehind)
           => Lifecycle!Read
  BY <1>1, <1>2 DEF Lifecycle!Read, Lifecycle!AfterRead
<1>4. CASE Receive \/ ReceiveNull \/ TimedOut \/ Disconnect
  <2>1. None \in Optional(ReplyPdu)
    BY OptionalType
  <2>2. \A pdu \in ReplyPdu : Some(pdu) \in Optional(ReplyPdu)
    BY OptionalType
  <2>3. session'.status \in {"IDLE", "CLOSED"} /\ in_flight' = None /\ UNCHANGED resends
    BY <1>1, <1>4, <2>1, <2>2, CallbackType
       DEF Receive, ReceiveNull, TimedOut, Disconnect
  <2> QED
    BY <1>3, <2>3 DEF Lifecycle!Ended
<1>5. CASE Resend
  <2>1. session'.status \in {"WAIT", "CLOSED"}
    BY <1>1, <1>5, CallbackType DEF Resend
  <2> QED
    BY <1>1, <1>3, <1>5, <2>1 DEF Resend, Lifecycle!SentAgain
<1>6. CASE SendFailed
  <2>1. session'.status = "CLOSED"
    BY <1>1, <1>6, CallbackType DEF SendFailed
  <2> QED
    BY <1>1, <1>3, <1>6, <2>1 DEF SendFailed, Lifecycle!LeftBehind
<1> QED
  BY <1>4, <1>5, <1>6 DEF Read

\* A session implements SessionLifecycle: send touches an idle session only and
\* read a waiting one, and neither does to it what SessionManager does not expect.
THEOREM LifecycleImplemented == Spec => ImplementsLifecycle
<1>1. Init => Lifecycle!Init
  BY InitLifecycle
<1>2. IInv /\ [Next]_vars => [Lifecycle!Next]_(Lifecycle!vars)
  <2> SUFFICES ASSUME IInv, [Next]_vars PROVE [Lifecycle!Next]_(Lifecycle!vars)
    OBVIOUS
  <2>1. CASE Send
    BY <2>1, SendLifecycle DEF Lifecycle!Next
  <2>2. CASE Read
    BY <2>2, ReadLifecycle DEF Lifecycle!Next
  <2>3. CASE UNCHANGED vars
    BY <2>3 DEF vars, Lifecycle!vars
  <2> QED
    BY <2>1, <2>2, <2>3 DEF Next, Done
<1> QED
  BY <1>1, <1>2, InvariantIInv, PTL DEF Spec, ImplementsLifecycle, Lifecycle!Spec

--------------------------------------------------------------------------------
(* The size of the answers asked for *)

LEMMA BuildPduLimit ==
  ASSUME NEW s \in SessionObject, NEW oids \in Seq(Oid), ~DividesByZero(s, oids),
         PduType(s.request) # "GETBULK" => Len(oids) <= MaxVarBinds(s),
         NEW pdu, pdu = BuildPdu(s, oids)
  PROVE  Len(pdu.oids) * (IF pdu.command = "GETBULK" THEN pdu.max_repetitions ELSE 1)
           <= MaxVarBinds(s)
<1>1. /\ pdu.oids = oids /\ pdu.command = PduType(s.request)
      /\ pdu.command = "GETBULK" => pdu.max_repetitions = MaxVarBinds(s) \div Len(oids)
  BY DEF BuildPdu
<1>2. MaxVarBinds(s) \in Nat /\ Len(oids) \in Nat
  BY MaxVarBindsType
<1>3. CASE pdu.command # "GETBULK"
  BY <1>1, <1>2, <1>3
<1>4. CASE pdu.command = "GETBULK"
  <2>1. oids # <<>>
    BY <1>1, <1>4 DEF DividesByZero
  <2>2. Len(oids) \in Nat \ {0}
    BY <2>1
  <2>3. \A m \in Nat, n \in Nat \ {0} : n * (m \div n) <= m
    OBVIOUS
  <2> QED
    BY <1>1, <1>2, <1>4, <2>2, <2>3
<1> QED
  BY <1>3, <1>4

\* PduWithinLimit: no PDU asks for more bindings than
\* max_response_var_binds_per_pdu, for any limit and any number of OIDs.
THEOREM PduLimit == Spec => []PduWithinLimit
<1>1. Init => PduWithinLimit
  BY DEF Init, PduWithinLimit
<1>2. IInv /\ PduWithinLimit /\ [Next]_vars => PduWithinLimit'
  <2> SUFFICES ASSUME IInv, PduWithinLimit, [Next]_vars PROVE PduWithinLimit'
    OBVIOUS
  <2>1. ASSUME in_flight' = in_flight \/ in_flight' = None,
               session'.request = session.request
        PROVE  PduWithinLimit'
    BY <2>1 DEF PduWithinLimit, MaxVarBinds
  <2>2. CASE Send
    <3>1. session'.request = session.request
      BY <2>2, SendReports DEF Accounts
    <3>2. CASE in_flight' = in_flight
      BY <2>1, <3>1, <3>2
    <3>3. CASE in_flight' # in_flight
      <4>1. Idle
        BY <2>2 DEF Send, SendNoPdu
      <4>2. PICK taken \in Takings : SendTaken(Fill(session, taken))
        BY <2>2, <3>3 DEF Send, SendNoPdu, SendDivides, SendRefused
      <4> DEFINE filled == Fill(session, taken)
                 pdu    == BuildPdu(filled.session, filled.oids)
      <4>3. /\ filled \in ReportFillings(session)
            /\ filled.session \in SessionObject /\ filled.oids \in Seq(Oid)
            /\ filled.session.request = session.request
        BY <4>1, FilledReports
      <4>4. ~DividesByZero(filled.session, filled.oids) /\ in_flight' = Some(pdu)
        BY <4>2 DEF SendTaken
      <4> HIDE DEF filled
      <4>5. /\ MaxVarBinds(filled.session) = MaxVarBinds(session)
            /\ PduType(filled.session.request) # "GETBULK" =>
                 Len(filled.oids) <= MaxVarBinds(filled.session)
        BY <4>3 DEF ReportFillings, MaxVarBinds
      <4>6. Len(pdu.oids) * (IF pdu.command = "GETBULK" THEN pdu.max_repetitions ELSE 1)
              <= MaxVarBinds(session)
        BY <4>3, <4>4, <4>5, BuildPduLimit
      <4>7. in_flight'[1] = pdu
        BY <4>4 DEF Some
      <4>8. MaxVarBinds(session') = MaxVarBinds(session)
        BY <3>1 DEF MaxVarBinds
      <4> HIDE DEF pdu
      <4> QED
        BY <4>6, <4>7, <4>8 DEF PduWithinLimit
    <3> QED
      BY <3>2, <3>3
  <2>3. CASE Read
    <3>1. session'.request = session.request
      BY <2>3, ReadReports DEF Accounts
    <3>2. in_flight' = in_flight \/ in_flight' = None
      BY <2>3 DEF Read, Receive, ReceiveNull, Resend, TimedOut, SendFailed, Disconnect
    <3> QED
      BY <2>1, <3>1, <3>2
  <2>4. CASE UNCHANGED vars
    BY <2>1, <2>4 DEF vars
  <2> QED
    BY <2>2, <2>3, <2>4 DEF Next, Done
<1> QED
  BY <1>1, <1>2, InvariantIInv, PTL DEF Spec

--------------------------------------------------------------------------------
(* The steps of the loops, seen from the heads *)

LEMMA ActivateEffect ==
  ASSUME NEW head \in CollectionHead, NEW front, front = Activate(head)
  PROVE  /\ front \in CollectionHead /\ Active(front)
         /\ front.req_oid = Some(ValueOr(head.last_resp_oid, head.root_oid))
         /\ front.req_oid = Some(front.req_oid[1])
         /\ front.last_resp_oid = None
         /\ front.root_oid_index = head.root_oid_index
         /\ front.root_oid = head.root_oid
         /\ front.range = head.range
<1>1. front \in CollectionHead /\ Active(front)
  BY ActivateType
<1>2. front = [ head EXCEPT !.req_oid = Some(ValueOr(head.last_resp_oid, head.root_oid)),
                            !.last_resp_oid = None ]
  BY DEF Activate
<1>3. /\ front.req_oid = Some(ValueOr(head.last_resp_oid, head.root_oid))
      /\ front.last_resp_oid = None
      /\ front.root_oid_index = head.root_oid_index
      /\ front.root_oid = head.root_oid
      /\ front.range = head.range
  BY <1>2 DEF CollectionHead
<1>4. front.req_oid = Some(front.req_oid[1])
  BY <1>3 DEF Some
<1> QED
  BY <1>1, <1>3, <1>4

GivenUp(oid) == [type |-> "CREATE_REQUEST_PDU_ERROR", oid |-> oid]

\* A pass of the loop of send is none when the PDU wants no more; it rotates the
\* heads, or drops the first one and reports it.
PassOf(filling, next) ==
  LET heads == filling.session.heads
      errors == filling.session.errors
      front == Activate(Head(heads))
  IN  \/ next = filling /\ ~WantsMore(filling.session, filling.oids)
      \/ /\ heads # <<>> /\ Len(filling.oids) < Len(heads)
         /\ \/ /\ next.session.heads = Append(Tail(heads), front)
               /\ next.session.errors = errors
               /\ next.oids = Append(filling.oids, front.req_oid[1])
            \/ /\ next.session.heads = Tail(heads)
               /\ next.session.errors = Append(errors, GivenUp(front.req_oid))
               /\ next.oids = filling.oids

LEMMA AddVarBindHeads ==
  ASSUME NEW s \in SessionObject, NEW filling \in Fillings(s), NEW taken \in BOOLEAN
  PROVE  PassOf(filling, AddVarBind(filling, taken))
<1> SUFFICES ASSUME NEW heads, heads = filling.session.heads,
                    NEW errors, errors = filling.session.errors,
                    NEW next, next = AddVarBind(filling, taken)
             PROVE  \/ next = filling /\ ~WantsMore(filling.session, filling.oids)
                    \/ /\ heads # <<>> /\ Len(filling.oids) < Len(heads)
                       /\ \/ /\ next.session.heads = Append(Tail(heads), Activate(Head(heads)))
                             /\ next.session.errors = errors
                             /\ next.oids = Append(filling.oids, Activate(Head(heads)).req_oid[1])
                          \/ /\ next.session.heads = Tail(heads)
                             /\ next.session.errors =
                                  Append(errors, GivenUp(Activate(Head(heads)).req_oid))
                             /\ next.oids = filling.oids
  BY DEF PassOf
<1> DEFINE t == filling.session
           front == Activate(Head(heads))
<1>1. t \in SessionObject /\ heads \in Seq(CollectionHead) /\ filling.oids \in Seq(Oid)
  BY DEF Fillings, SessionObject
<1>2. CASE ~WantsMore(t, filling.oids)
  BY <1>2 DEF AddVarBind
<1>3. CASE WantsMore(t, filling.oids)
  <2>1. heads # <<>> /\ Len(filling.oids) < Len(heads)
    BY <1>1, <1>3 DEF WantsMore
  <2>2. CASE taken
    <3> DEFINE u == [t EXCEPT !.heads = Append(Tail(heads), front)]
               oids == Append(filling.oids, front.req_oid[1])
    <3>1. next = [session |-> u, oids |-> oids]
      BY <1>3, <2>2 DEF AddVarBind
    <3>2. u.heads = Append(Tail(heads), front) /\ u.errors = errors
      BY <1>1 DEF SessionObject
    <3> HIDE DEF u, oids
    <3>3. next.session = u /\ next.oids = oids
      BY <3>1
    <3> QED
      BY <2>1, <3>2, <3>3 DEF oids
  <2>3. CASE ~taken
    <3> DEFINE u == [t EXCEPT !.heads = Tail(heads)]
               oid == front.req_oid
               given == AppendError(u, "CREATE_REQUEST_PDU_ERROR", oid)
    <3>1. next = [session |-> given, oids |-> filling.oids]
      BY <1>3, <2>3 DEF AddVarBind
    <3>2. Head(heads) \in CollectionHead /\ Tail(heads) \in Seq(CollectionHead)
      BY <1>1, <2>1
    <3>3. u \in SessionObject /\ u.heads = Tail(heads) /\ u.errors = errors
      BY <1>1, <3>2 DEF SessionObject
    <3>4. front \in CollectionHead
      BY <3>2, ActivateType
    <3>5. oid \in Optional(Oid) /\ "CREATE_REQUEST_PDU_ERROR" \in ErrorTypes
      <4> HIDE DEF front
      <4> QED
        BY <3>4 DEF CollectionHead, ErrorTypes, FatalErrors
    <3> HIDE DEF u, oid
    <3>6. given.heads = Tail(heads) /\ given.errors = Append(errors, GivenUp(oid))
      <4>1. \A e : e = GivenUp(oid) => given.errors = Append(u.errors, e)
        BY <3>3, ErrorEffect DEF GivenUp
      <4> QED
        BY <3>3, <3>5, <4>1, AppendErrorType
    <3> HIDE DEF given
    <3>7. next.session = given /\ next.oids = filling.oids
      BY <3>1
    <3> QED
      BY <2>1, <3>6, <3>7 DEF oid
  <2> QED
    BY <2>2, <2>3
<1> QED
  BY <1>2, <1>3

--------------------------------------------------------------------------------
(* Which heads a PDU asks for *)

\* The last heads of the list are those the OIDs were taken from, in their order;
\* the others are inactive.
AskedFor(heads, oids) ==
  LET n == Len(oids)
  IN  /\ n <= Len(heads)
      /\ \A i \in 1 .. Len(heads) :
           IF i <= Len(heads) - n THEN ~Active(heads[i])
           ELSE /\ heads[i].req_oid = Some(oids[i - (Len(heads) - n)])
                /\ Complete(heads[i])

\* The head send takes moves behind those taken before,
LEMMA AskedForMore ==
  ASSUME NEW heads \in Seq(CollectionHead), NEW oids \in Seq(Oid), AskedFor(heads, oids),
         Len(oids) < Len(heads),
         NEW front, NEW oid, front.req_oid = Some(oid), Complete(front)
  PROVE  AskedFor(Append(Tail(heads), front), Append(oids, oid))
<1> SUFFICES ASSUME NEW h, h = Append(Tail(heads), front), NEW p, p = Append(oids, oid),
                    NEW m, m = Len(heads), NEW n, n = Len(oids)
             PROVE  AskedFor(h, p)
  OBVIOUS
<1>1. /\ m \in Nat /\ n \in Nat /\ n < m /\ Len(h) = m /\ Len(p) = n + 1
      /\ h[m] = front /\ \A i \in 1 .. m - 1 : h[i] = heads[i + 1]
      /\ p[n + 1] = oid /\ \A i \in 1 .. n : p[i] = oids[i]
  OBVIOUS
<1>2. \A i \in 1 .. m : IF i <= m - n THEN ~Active(heads[i])
                        ELSE heads[i].req_oid = Some(oids[i - (m - n)]) /\ Complete(heads[i])
  BY DEF AskedFor
<1>3. ASSUME NEW i \in 1 .. m
      PROVE  IF i <= m - (n + 1) THEN ~Active(h[i])
             ELSE h[i].req_oid = Some(p[i - (m - (n + 1))]) /\ Complete(h[i])
  <2>1. CASE i = m
    <3>1. ~(m <= m - (n + 1)) /\ m - (m - (n + 1)) = n + 1
      BY <1>1
    <3> QED
      BY <1>1, <2>1, <3>1
  <2>2. CASE i # m
    <3>1. i \in 1 .. m - 1 /\ i + 1 \in 1 .. m
      BY <1>1, <2>2
    <3>2. CASE i <= m - (n + 1)
      <4>1. i + 1 <= m - n
        BY <1>1, <3>1, <3>2
      <4> QED
        BY <1>1, <1>2, <3>1, <3>2, <4>1
    <3>3. CASE ~(i <= m - (n + 1))
      <4>1. /\ ~(i + 1 <= m - n) /\ (i + 1) - (m - n) \in 1 .. n
            /\ (i + 1) - (m - n) = i - (m - (n + 1))
        BY <1>1, <3>1, <3>3
      <4> QED
        BY <1>1, <1>2, <3>1, <3>3, <4>1
    <3> QED
      BY <3>2, <3>3
  <2> QED
    BY <2>1, <2>2
<1>4. n + 1 <= m
  BY <1>1
<1> QED
  BY <1>1, <1>3, <1>4 DEF AskedFor

\* and the head it drops was not asked for.
LEMMA AskedForRest ==
  ASSUME NEW heads \in Seq(CollectionHead), NEW oids \in Seq(Oid), AskedFor(heads, oids),
         Len(oids) < Len(heads)
  PROVE  AskedFor(Tail(heads), oids)
<1> SUFFICES ASSUME NEW h, h = Tail(heads), NEW m, m = Len(heads), NEW n, n = Len(oids)
             PROVE  AskedFor(h, oids)
  OBVIOUS
<1>1. /\ m \in Nat /\ n \in Nat /\ n < m /\ Len(h) = m - 1
      /\ \A i \in 1 .. m - 1 : h[i] = heads[i + 1]
  OBVIOUS
<1>2. \A i \in 1 .. m : IF i <= m - n THEN ~Active(heads[i])
                        ELSE heads[i].req_oid = Some(oids[i - (m - n)]) /\ Complete(heads[i])
  BY DEF AskedFor
<1>3. ASSUME NEW i \in 1 .. m - 1
      PROVE  IF i <= (m - 1) - n THEN ~Active(h[i])
             ELSE h[i].req_oid = Some(oids[i - ((m - 1) - n)]) /\ Complete(h[i])
  <2>1. /\ i + 1 \in 1 .. m
        /\ (i <= (m - 1) - n) <=> (i + 1 <= m - n)
        /\ (i + 1) - (m - n) = i - ((m - 1) - n)
    BY <1>1
  <2> QED
    BY <1>1, <1>2, <2>1
<1>4. n <= m - 1
  BY <1>1
<1> QED
  BY <1>1, <1>3, <1>4 DEF AskedFor

AskedFillings(s) == { f \in Fillings(s) : AskedFor(f.session.heads, f.oids) }

\* A pass of the loop of send keeps the heads and the PDU in step.
LEMMA AddVarBindAsks ==
  ASSUME NEW s \in SessionObject, NEW f \in AskedFillings(s), NEW taken \in BOOLEAN
  PROVE  AddVarBind(f, taken) \in AskedFillings(s)
<1> SUFFICES ASSUME NEW heads, heads = f.session.heads,
                    NEW next, next = AddVarBind(f, taken)
             PROVE  next \in AskedFillings(s)
  OBVIOUS
<1>1. /\ f \in Fillings(s) /\ AskedFor(heads, f.oids)
      /\ heads \in Seq(CollectionHead) /\ f.oids \in Seq(Oid)
  BY DEF AskedFillings, Fillings, SessionObject
<1>2. next \in Fillings(s)
  BY <1>1, AddVarBindType
<1>3. CASE next = f
  BY <1>3
<1>4. ASSUME heads # <<>>, Len(f.oids) < Len(heads),
             next.session.heads = Append(Tail(heads), Activate(Head(heads))),
             next.oids = Append(f.oids, Activate(Head(heads)).req_oid[1])
      PROVE  AskedFor(next.session.heads, next.oids)
  <2>1. Head(heads) \in CollectionHead
    BY <1>1, <1>4
  <2> DEFINE front == Activate(Head(heads))
  <2>2. front.req_oid = Some(front.req_oid[1]) /\ Complete(front)
    BY <2>1, ActivateEffect DEF Complete
  <2> HIDE DEF front
  <2>3. AskedFor(Append(Tail(heads), front), Append(f.oids, front.req_oid[1]))
    BY <1>1, <1>4, <2>2, AskedForMore
  <2> QED
    BY <1>4, <2>3 DEF front
<1>5. ASSUME Len(f.oids) < Len(heads), next.session.heads = Tail(heads), next.oids = f.oids
      PROVE  AskedFor(next.session.heads, next.oids)
  BY <1>1, <1>5, AskedForRest
<1>6. PassOf(f, next)
  BY <1>1, AddVarBindHeads
<1>7. \/ next = f
      \/ /\ heads # <<>> /\ Len(f.oids) < Len(heads)
         /\ \/ /\ next.session.heads = Append(Tail(heads), Activate(Head(heads)))
               /\ next.oids = Append(f.oids, Activate(Head(heads)).req_oid[1])
            \/ /\ next.session.heads = Tail(heads)
               /\ next.oids = f.oids
  BY <1>6 DEF PassOf
<1>8. AskedFor(next.session.heads, next.oids)
  BY <1>1, <1>3, <1>4, <1>5, <1>7
<1> QED
  BY <1>2, <1>8 DEF AskedFillings

LEMMA FillAsks ==
  ASSUME NEW s \in SessionObject, NEW taken \in Seq(BOOLEAN),
         \A i \in 1 .. Len(s.heads) : ~Active(s.heads[i])
  PROVE  Fill(s, taken) \in AskedFillings(s)
<1> DEFINE first == [session |-> s, oids |-> <<>>]
<1>1. first \in Fillings(s)
  BY DEF Fillings, Oid
<1>2. AskedFor(s.heads, <<>>)
  BY DEF AskedFor, SessionObject
<1>3. first \in AskedFillings(s)
  BY <1>1, <1>2 DEF AskedFillings
<1>4. \A f \in AskedFillings(s), v \in BOOLEAN : AddVarBind(f, v) \in AskedFillings(s)
  BY AddVarBindAsks
<1> HIDE DEF first
<1>5. FillProofs!Run(first, taken) \in AskedFillings(s)
  BY <1>3, <1>4, FillProofs!RunInvariant
<1> QED
  BY <1>5 DEF Fill, first, FillProofs!Run, FillLoop!Run

--------------------------------------------------------------------------------
(* What process_pdu keeps *)

\* No two heads have the same index.
Distinct(heads) ==
  \A i, j \in 1 .. Len(heads) :
    heads[i].root_oid_index = heads[j].root_oid_index => i = j

Resting(head) == [head EXCEPT !.req_oid = None]

LEMMA RestingEffect ==
  ASSUME NEW head \in CollectionHead, NEW rest, rest = Resting(head)
  PROVE  /\ rest \in CollectionHead /\ ~Active(rest)
         /\ rest.last_resp_oid = head.last_resp_oid
         /\ rest.root_oid_index = head.root_oid_index
         /\ rest.root_oid = head.root_oid
         /\ rest.range = head.range
<1>1. None \in Optional(Oid)
  BY OptionalType
<1> QED
  BY <1>1 DEF Resting, CollectionHead, Active

\* Every head the callback keeps is one that was not complete, now at rest, and
\* none is kept twice.
LEMMA EpilogueKeeps ==
  ASSUME NEW s \in SessionObject, NEW kept, kept = Epilogue(s).heads
  PROVE  /\ kept \in Seq(CollectionHead)
         /\ \A j \in 1 .. Len(kept) : \E k \in 1 .. Len(s.heads) :
              ~Complete(s.heads[k]) /\ kept[j] = Resting(s.heads[k])
         /\ Distinct(s.heads) => Distinct(kept)
<1> SUFFICES ASSUME NEW heads, heads = s.heads, NEW n, n = Len(heads)
             PROVE  /\ kept \in Seq(CollectionHead)
                    /\ \A j \in 1 .. Len(kept) : \E k \in 1 .. n :
                         ~Complete(heads[k]) /\ kept[j] = Resting(heads[k])
                    /\ Distinct(heads) => Distinct(kept)
  OBVIOUS
<1> DEFINE K == { Resting(heads[k]) : k \in { i \in 1 .. n : ~Complete(heads[i]) } }
           V == { heads[k] : k \in 1 .. n }
           Until(i) == { list \in Seq(K) :
                           /\ Distinct(list)
                           /\ \A j \in 1 .. Len(list) : \E k \in 1 .. i :
                                list[j].root_oid_index = heads[k].root_oid_index }
           inv == [i \in 0 .. n |-> Until(i)]
<1>1. heads \in Seq(CollectionHead) /\ n \in Nat /\ heads \in Seq(V) /\ <<>> \in Seq(K)
  <2>1. heads \in Seq(CollectionHead) /\ n \in Nat
    BY DEF SessionObject
  <2>2. heads \in [1 .. n -> V]
    BY <2>1
  <2> HIDE DEF K, V
  <2> QED
    BY <2>1, <2>2
<1>2. \A k \in 1 .. n : heads[k] \in CollectionHead
  BY <1>1
<1>3. ASSUME NEW list \in Seq(K), NEW head \in V PROVE KeepHead(list, head) \in Seq(K)
  <2>1. Complete(head) \/ Resting(head) \in K
    OBVIOUS
  <2>2. KeepHead(list, head) = IF Complete(head) THEN list ELSE Append(list, Resting(head))
    BY DEF KeepHead, Resting
  <2> QED
    BY <2>1, <2>2
<1>4. HeadProofs!Run(<<>>, heads) \in Seq(K)
  <2> HIDE DEF K, V
  <2> QED
    BY <1>1, <1>3, HeadProofs!RunInvariant
<1>5. kept = HeadProofs!Run(<<>>, heads)
  <2> DEFINE run == HeadLoop!Run(<<>>, heads)
  <2>1. Epilogue(s) = [s EXCEPT !.heads = run,
                                !.status = IF run = <<>> THEN "CLOSED" ELSE s.status]
    BY DEF Epilogue
  <2> HIDE DEF run
  <2>2. kept = run
    BY <2>1 DEF SessionObject
  <2> QED
    BY <2>2 DEF run, HeadProofs!Run, HeadLoop!Run
<1>6. kept \in Seq(CollectionHead)
  BY EpilogueType DEF SessionObject
<1>7. \A j \in 1 .. Len(kept) : \E k \in 1 .. n :
        ~Complete(heads[k]) /\ kept[j] = Resting(heads[k])
  <2>1. \A j \in 1 .. Len(kept) : kept[j] \in K
    <3> HIDE DEF K
    <3> QED
      BY <1>4, <1>5
  <2> QED
    BY <2>1
<1>8. ASSUME Distinct(heads) PROVE Distinct(kept)
  <2>1. <<>> \in inv[0]
    BY <1>1 DEF Distinct
  <2>2. ASSUME NEW i \in 1 .. n, NEW list \in Seq(K), list \in inv[i - 1]
        PROVE  KeepHead(list, heads[i]) \in inv[i]
    <3> DEFINE next == KeepHead(list, heads[i])
               rest == Resting(heads[i])
    <3>1. /\ i - 1 \in 0 .. n /\ i \in 0 .. n
          /\ heads[i] \in V /\ heads[i] \in CollectionHead
      BY <1>1, <1>2
    <3>2. list \in Until(i - 1)
      BY <2>2, <3>1
    <3>3. next \in Seq(K)
      BY <1>3, <3>1
    <3>4. \A k \in 1 .. i - 1 : k \in 1 .. i /\ k \in 1 .. n /\ k # i
      BY <1>1
    <3>5. CASE Complete(heads[i])
      <4>1. next = list
        BY <3>5 DEF KeepHead
      <4>2. list \in Until(i)
        BY <3>2, <3>4
      <4> QED
        BY <3>1, <4>1, <4>2
    <3>6. CASE ~Complete(heads[i])
      <4>1. next = Append(list, rest) /\ rest.root_oid_index = heads[i].root_oid_index
        BY <3>1, <3>6, RestingEffect DEF KeepHead, Resting
      <4> HIDE DEF rest, K, next
      <4>2. /\ Len(list) \in Nat /\ Len(next) = Len(list) + 1
            /\ next[Len(list) + 1] = rest
            /\ \A j \in 1 .. Len(list) : next[j] = list[j]
        BY <3>2, <4>1
      <4>3. ASSUME NEW j \in 1 .. Len(next)
            PROVE  \E k \in 1 .. i : next[j].root_oid_index = heads[k].root_oid_index
        <5>1. CASE j = Len(list) + 1
          <6>1. i \in 1 .. i
            BY <1>1
          <6> QED
            BY <4>1, <4>2, <5>1, <6>1
        <5>2. CASE j \in 1 .. Len(list)
          BY <3>2, <3>4, <4>2, <5>2
        <5> QED
          BY <4>2, <5>1, <5>2
      <4>4. ASSUME NEW j \in 1 .. Len(list)
            PROVE  list[j].root_oid_index # rest.root_oid_index
        <5>1. PICK k \in 1 .. i - 1 : list[j].root_oid_index = heads[k].root_oid_index
          BY <3>2
        <5> QED
          BY <1>8, <3>4, <4>1, <5>1 DEF Distinct
      <4>5. Distinct(list)
        BY <3>2
      <4>6. ASSUME NEW a \in 1 .. Len(next), NEW b \in 1 .. Len(next),
                   next[a].root_oid_index = next[b].root_oid_index
            PROVE  a = b
        <5>1. a \in 1 .. Len(list) \/ a = Len(list) + 1
          BY <4>2
        <5>2. b \in 1 .. Len(list) \/ b = Len(list) + 1
          BY <4>2
        <5> QED
          BY <4>2, <4>4, <4>5, <4>6, <5>1, <5>2 DEF Distinct
      <4>7. Distinct(next)
        BY <4>6 DEF Distinct
      <4>8. next \in Until(i)
        BY <3>3, <4>3, <4>7
      <4> QED
        BY <3>1, <4>8 DEF next
    <3> QED
      BY <3>5, <3>6
  <2>3. HeadProofs!Run(<<>>, heads) \in inv[n]
    <3> HIDE DEF K, V, inv
    <3> QED
      BY <1>1, <1>3, <2>1, <2>2, HeadProofs!RunInvariantAt
  <2>4. kept \in Until(n)
    <3>1. n \in 0 .. n
      BY <1>1
    <3> HIDE DEF K, V, Until
    <3>2. inv[n] = Until(n)
      BY <3>1
    <3> HIDE DEF inv
    <3> QED
      BY <1>5, <2>3, <3>2
  <2> QED
    BY <2>4
<1> QED
  BY <1>6, <1>7, <1>8

\* The callback keeps every head that is not complete.
LEMMA EpilogueKeepsAll ==
  ASSUME NEW s \in SessionObject, NEW k \in 1 .. Len(s.heads), ~Complete(s.heads[k])
  PROVE  \E j \in 1 .. Len(Epilogue(s).heads) : Epilogue(s).heads[j] = Resting(s.heads[k])
<1> DEFINE heads == s.heads
           n == Len(heads)
           rest == Resting(heads[k])
           Has(list) == \E j \in 1 .. Len(list) : list[j] = rest
           A == Seq(CollectionHead)
           inv == [i \in 0 .. n |-> { list \in A : k <= i => Has(list) }]
           kept == HeadLoop!Run(<<>>, heads)
<1>1. heads \in Seq(CollectionHead) /\ n \in Nat /\ <<>> \in A
  BY DEF SessionObject
<1>2. ASSUME NEW list \in A, NEW head \in CollectionHead
      PROVE  KeepHead(list, head) \in A
  <2>1. Resting(head) \in CollectionHead
    BY RestingEffect
  <2>2. KeepHead(list, head) = IF Complete(head) THEN list ELSE Append(list, Resting(head))
    BY DEF KeepHead, Resting
  <2> QED
    BY <2>1, <2>2
<1>3. <<>> \in inv[0]
  BY <1>1
<1>4. ASSUME NEW i \in 1 .. n, NEW list \in A, list \in inv[i - 1]
      PROVE  KeepHead(list, heads[i]) \in inv[i]
  <2> DEFINE next == KeepHead(list, heads[i])
  <2>1. i - 1 \in 0 .. n /\ i \in 0 .. n /\ heads[i] \in CollectionHead
    BY <1>1
  <2>2. next \in A
    BY <1>2, <2>1
  <2>3. k <= i - 1 => Has(list)
    BY <1>4, <2>1
  <2>4. next = IF Complete(heads[i]) THEN list ELSE Append(list, Resting(heads[i]))
    BY DEF KeepHead, Resting
  <2>5. ASSUME k <= i PROVE Has(next)
    <3>1. CASE k = i
      <4>1. next = Append(list, rest)
        BY <2>4, <3>1
      <4> HIDE DEF next, rest
      <4>2. Len(next) = Len(list) + 1 /\ next[Len(list) + 1] = rest /\ Len(list) \in Nat
        BY <4>1
      <4> QED
        BY <4>2
    <3>2. CASE k # i
      <4>1. PICK j \in 1 .. Len(list) : list[j] = rest
        BY <2>3, <2>5, <3>2
      <4> HIDE DEF rest
      <4>2. j \in 1 .. Len(next) /\ next[j] = list[j]
        <5> HIDE DEF next
        <5> QED
          BY <2>4
      <4> HIDE DEF next
      <4> QED
        BY <4>1, <4>2
    <3> QED
      BY <3>1, <3>2
  <2> HIDE DEF next, Has
  <2>6. next \in inv[i]
    BY <2>1, <2>2, <2>5
  <2> QED
    BY <2>6 DEF next
<1>5. HeadProofs!Run(<<>>, heads) \in inv[n]
  <2> HIDE DEF A, inv
  <2>1. <<>> \in A /\ \A list \in A, head \in CollectionHead : KeepHead(list, head) \in A
    BY <1>1, <1>2
  <2> QED
    BY <1>1, <1>3, <1>4, <2>1, HeadProofs!RunInvariantAt
<1>6. kept = HeadProofs!Run(<<>>, heads)
  BY DEF HeadProofs!Run, HeadLoop!Run
<1>7. Has(kept)
  <2>1. n \in 0 .. n /\ k <= n
    BY <1>1
  <2> HIDE DEF Has, kept
  <2> QED
    BY <1>5, <1>6, <2>1
<1>8. Epilogue(s).heads = kept
  <2>1. Epilogue(s) = [s EXCEPT !.heads = kept,
                                !.status = IF kept = <<>> THEN "CLOSED" ELSE s.status]
    BY DEF Epilogue
  <2> HIDE DEF kept
  <2> QED
    BY <2>1 DEF SessionObject
<1> HIDE DEF kept
<1> QED
  BY <1>7, <1>8

--------------------------------------------------------------------------------
(* HeadsMatchRequest *)

LEMMA LengthOf ==
  ASSUME NEW S, NEW seq \in Seq(S), NEW c \in Nat, DOMAIN seq = 1 .. c
  PROVE  Len(seq) = c
<1> SUFFICES ASSUME NEW n \in Nat, n = Len(seq), 1 .. n = 1 .. c PROVE n = c
  OBVIOUS
<1>1. (n > 0 => n \in 1 .. c) /\ (c > 0 => c \in 1 .. n)
  OBVIOUS
<1> QED
  BY <1>1

LEMMA PositiveProduct ==
  ASSUME NEW n \in Nat \ {0}, NEW p \in Nat \ {0}
  PROVE  n * p \in Nat \ {0}
<1>1. n * p = (n - 1) * p + p /\ (n - 1) * p \in Nat
  OBVIOUS
<1> QED
  BY <1>1

\* The heads of a session that has just been opened.
LEMMA HeadsOfEffect ==
  ASSUME NEW request \in Request, request.oids # <<>>,
         NEW heads, heads = HeadsOf(request)
  PROVE  /\ heads \in Seq(CollectionHead) /\ heads # <<>>
         /\ \A k \in 1 .. Len(heads) :
              /\ heads[k].root_oid_index = k - 1
              /\ heads[k].req_oid = None
              /\ heads[k].last_resp_oid = None
              /\ \E r \in DOMAIN request.oids, g \in Optional(OidRange) :
                   /\ heads[k].root_oid = request.oids[r]
                   /\ heads[k].range = RootedRange(request.oids[r], g)
                   /\ request.ranges = <<>> => r = k
<1> SUFFICES ASSUME NEW p, p = IF request.ranges = <<>> THEN 1 ELSE Len(request.ranges),
                    NEW n, n = Len(request.oids)
             PROVE  /\ heads \in Seq(CollectionHead) /\ heads # <<>>
                    /\ \A k \in 1 .. Len(heads) :
                         /\ heads[k].root_oid_index = k - 1
                         /\ heads[k].req_oid = None
                         /\ heads[k].last_resp_oid = None
                         /\ \E r \in DOMAIN request.oids, g \in Optional(OidRange) :
                              /\ heads[k].root_oid = request.oids[r]
                              /\ heads[k].range = RootedRange(request.oids[r], g)
                              /\ request.ranges = <<>> => r = k
  OBVIOUS
<1> DEFINE root(k) == request.oids[((k - 1) \div p) + 1]
           range(k) == IF request.ranges = <<>> THEN None
                       ELSE Some(request.ranges[((k - 1) % p) + 1])
<1>1. request.oids \in Seq(Oid) /\ request.ranges \in Seq(OidRange)
  BY DEF Request
<1>2. n \in Nat \ {0} /\ p \in Nat \ {0} /\ DOMAIN request.oids = 1 .. n
  BY <1>1
<1>3. n * p \in Nat \ {0}
  BY <1>2, PositiveProduct
<1>4. heads = [k \in 1 .. n * p |-> NewHead(k - 1, root(k), range(k))]
  BY DEF HeadsOf
<1>5. heads \in Seq(CollectionHead)
  BY HeadsOfType
<1>6. Len(heads) = n * p /\ heads # <<>>
  <2>1. DOMAIN heads = 1 .. n * p
    BY <1>4
  <2>2. Len(heads) = n * p
    BY <1>3, <1>5, <2>1, LengthOf
  <2> QED
    BY <1>3, <1>5, <2>2, EmptySeq
<1>7. ASSUME NEW k \in 1 .. n * p
      PROVE  /\ heads[k].root_oid_index = k - 1
             /\ heads[k].req_oid = None
             /\ heads[k].last_resp_oid = None
             /\ heads[k].root_oid = root(k)
             /\ heads[k].range = RootedRange(root(k), range(k))
  <2>1. heads[k] = NewHead(k - 1, root(k), range(k))
    BY <1>4
  <2> HIDE DEF root, range
  <2> QED
    BY <2>1 DEF NewHead
<1>8. ASSUME NEW k \in 1 .. n * p
      PROVE  \E r \in DOMAIN request.oids, g \in Optional(OidRange) :
               /\ heads[k].root_oid = request.oids[r]
               /\ heads[k].range = RootedRange(request.oids[r], g)
               /\ request.ranges = <<>> => r = k
  <2> DEFINE r == ((k - 1) \div p) + 1
             q == ((k - 1) % p) + 1
  <2>1. r \in 1 .. n /\ q \in 1 .. p
    BY <1>2, HeadNumber
  <2>2. request.ranges = <<>> => r = k
    <3>1. CASE p = 1
      BY <1>2, <3>1
    <3> QED
      BY <3>1
  <2> HIDE DEF r, q
  <2>3. range(k) \in Optional(OidRange)
    <3>1. CASE request.ranges = <<>>
      BY <3>1, OptionalType
    <3>2. CASE request.ranges # <<>>
      <4>1. request.ranges[q] \in OidRange
        BY <1>1, <2>1, <3>2
      <4>2. range(k) = Some(request.ranges[q])
        BY <3>2 DEF q
      <4> QED
        BY <4>1, <4>2, OptionalType
    <3> QED
      BY <3>1, <3>2
  <2>4. heads[k].root_oid = request.oids[r] /\ heads[k].range = RootedRange(request.oids[r], range(k))
    BY <1>7 DEF r
  <2> HIDE DEF range
  <2> QED
    BY <1>2, <2>1, <2>2, <2>3, <2>4
<1> HIDE DEF root, range
<1>9. \A k \in 1 .. n * p :
        /\ heads[k].root_oid_index = k - 1
        /\ heads[k].req_oid = None
        /\ heads[k].last_resp_oid = None
  BY <1>7
<1>10. \A k \in 1 .. n * p :
         \E r \in DOMAIN request.oids, g \in Optional(OidRange) :
           /\ heads[k].root_oid = request.oids[r]
           /\ heads[k].range = RootedRange(request.oids[r], g)
           /\ request.ranges = <<>> => r = k
  BY <1>8
<1>11. Len(heads) = n * p
  BY <1>6
<1> QED
  BY ONLY <1>5, <1>6, <1>9, <1>10, <1>11

\* The OIDs of the PDU in flight whose heads are still asked for: those of a PDU
\* that was sent again are not.
Pending == IF resends = 0 THEN in_flight[1].oids ELSE <<>>

HeadsAsked ==
  /\ Idle => /\ session.heads # <<>>
             /\ \A i \in 1 .. Len(session.heads) : ~Active(session.heads[i])
  /\ session.status = "WAIT" => AskedFor(session.heads, Pending)

LEMMA HeadsAskedMatch == IInv /\ HeadsAsked => HeadsMatchRequest
<1> SUFFICES ASSUME IInv, HeadsAsked PROVE HeadsMatchRequest
  OBVIOUS
<1> DEFINE heads == session.heads
           n == IF resends = 0 THEN Len(in_flight[1].oids) ELSE 0
<1>1. DOMAIN heads = 1 .. Len(heads) /\ Len(heads) \in Nat
  BY DEF IInv, TypeOK, SessionObject
<1>2. ASSUME AskedFor(heads, Pending)
      PROVE  /\ n <= Len(heads)
             /\ \A i \in DOMAIN heads :
                  IF i <= Len(heads) - n THEN ~Active(heads[i])
                  ELSE /\ heads[i].req_oid = Some(in_flight[1].oids[i - (Len(heads) - n)])
                       /\ Complete(heads[i])
  <2>1. CASE resends = 0
    <3>1. Pending = in_flight[1].oids /\ n = Len(Pending)
      BY <2>1 DEF Pending
    <3> HIDE DEF n
    <3>2. \A i \in 1 .. Len(heads) :
            IF i <= Len(heads) - n THEN ~Active(heads[i])
            ELSE heads[i].req_oid = Some(Pending[i - (Len(heads) - n)]) /\ Complete(heads[i])
      BY <1>2, <3>1 DEF AskedFor
    <3> QED
      BY <1>1, <1>2, <3>1, <3>2 DEF AskedFor
  <2>2. CASE resends # 0
    <3>1. Pending = <<>> /\ n = 0
      BY <2>2 DEF Pending
    <3>2. \A i \in 1 .. Len(heads) : i <= Len(heads) - 0
      BY <1>1
    <3> QED
      BY <1>1, <1>2, <3>1, <3>2 DEF AskedFor
  <2> QED
    BY <2>1, <2>2
<1> QED
  BY <1>1, <1>2 DEF HeadsAsked, HeadsMatchRequest

LEMMA InitHeads == Init => HeadsAsked
<1> SUFFICES ASSUME Init PROVE HeadsAsked
  OBVIOUS
<1>1. PICK request \in Requests : session = Opened(request) \/ session = OpenFailed(request)
  BY DEF Init
<1>2. request \in Request /\ WellFormed(request)
  BY <1>1, RequestsAssumption
<1>3. request.oids # <<>>
  BY <1>2 DEF WellFormed, RequestThrows
<1>4. CASE session = Opened(request)
  <2>1. session.status = "IDLE" /\ session.heads = HeadsOf(request)
    BY <1>2, <1>4, EmptySessionType DEF Opened, SessionObject
  <2>2. /\ HeadsOf(request) # <<>>
        /\ \A k \in 1 .. Len(HeadsOf(request)) : HeadsOf(request)[k].req_oid = None
    BY <1>2, <1>3, HeadsOfEffect
  <2> QED
    BY <2>1, <2>2 DEF HeadsAsked, Active
<1>5. CASE session = OpenFailed(request)
  BY <1>2, <1>5, OpenFailedType DEF HeadsAsked, Idle
<1> QED
  BY <1>1, <1>4, <1>5

LEMMA SendHeads ==
  ASSUME IInv, HeadsAsked, Send
  PROVE  HeadsAsked'
<1>1. session \in SessionObject /\ session.status = "IDLE" /\ Idle /\ TypeOK
  BY DEF Send, SendNoPdu, Idle, IInv, TypeOK
<1>2. \A i \in 1 .. Len(session.heads) : ~Active(session.heads[i])
  BY <1>1 DEF HeadsAsked
<1>3. CASE SendNoPdu
  <2>1. session'.status = "CLOSED"
    BY <1>1, <1>3, SendErrors, FailType DEF SendNoPdu
  <2> QED
    BY <2>1 DEF HeadsAsked, Idle
<1>4. ASSUME NEW taken \in Takings, NEW filled, filled = Fill(session, taken),
             SendDivides(filled) \/ SendRefused(filled) \/ SendTaken(filled)
      PROVE  HeadsAsked'
  <2>1. filled.session \in SessionObject /\ filled.session.status = "IDLE"
    BY <1>1, <1>4, Filled
  <2>2. taken \in Seq(BOOLEAN)
    <3>1. taken \in [1 .. Len(session.heads) -> BOOLEAN] /\ Len(session.heads) \in Nat
      BY <1>1 DEF Takings, SessionObject
    <3> QED
      BY <3>1
  <2>3. AskedFor(filled.session.heads, filled.oids)
    <3>1. filled \in AskedFillings(session)
      BY <1>1, <1>2, <1>4, <2>2, FillAsks
    <3> QED
      BY <3>1 DEF AskedFillings
  <2>4. CASE SendDivides(filled)
    BY <2>1, <2>4 DEF SendDivides, HeadsAsked, Idle
  <2>5. CASE SendRefused(filled)
    <3>1. session'.status = "CLOSED"
      BY <2>1, <2>5, SendErrors, FailType DEF SendRefused
    <3> QED
      BY <3>1 DEF HeadsAsked, Idle
  <2>6. CASE SendTaken(filled)
    <3>1. session'.status = "WAIT" /\ session'.heads = filled.session.heads
      BY <2>1, <2>6 DEF SendTaken, SessionObject
    <3>2. Pending' = filled.oids
      BY <2>6 DEF SendTaken, Pending, Some, BuildPdu
    <3> QED
      BY <2>3, <3>1, <3>2 DEF HeadsAsked, Idle
  <2> QED
    BY <1>4, <2>4, <2>5, <2>6
<1>5. CASE ~SendNoPdu
  <2>1. PICK taken \in Takings :
          LET filled == Fill(session, taken)
          IN  SendDivides(filled) \/ SendRefused(filled) \/ SendTaken(filled)
    BY <1>5 DEF Send
  <2> QED
    BY <1>4, <2>1
<1> QED
  BY <1>3, <1>5

\* After the callback every head is at rest, and an idle session has one.
LEMMA EpilogueRests ==
  ASSUME NEW s \in SessionObject, NEW t, t = Epilogue(s)
  PROVE  /\ \A i \in 1 .. Len(t.heads) : ~Active(t.heads[i])
         /\ t.status # "CLOSED" => t.heads # <<>>
         /\ AskedFor(t.heads, <<>>)
<1>1. ASSUME NEW i \in 1 .. Len(t.heads) PROVE ~Active(t.heads[i])
  <2>1. PICK k \in 1 .. Len(s.heads) : t.heads[i] = Resting(s.heads[k])
    BY EpilogueKeeps
  <2>2. s.heads[k] \in CollectionHead
    BY DEF SessionObject
  <2> QED
    BY <2>1, <2>2, RestingEffect
<1>2. t.status # "CLOSED" => t.heads # <<>>
  BY EpilogueType
<1>3. Len(t.heads) \in Nat
  BY EpilogueType DEF SessionObject
<1>4. \A i \in 1 .. Len(t.heads) : i <= Len(t.heads) - 0
  BY <1>3
<1>5. Len(<<>>) = 0
  OBVIOUS
<1> QED
  BY <1>1, <1>2, <1>3, <1>4, <1>5 DEF AskedFor

\* The bindings of an answer without an error to the PDU in flight.
Answer(var_binds) ==
  \E reply \in Replies(in_flight[1]) :
    /\ reply \in ReplyPdu /\ reply.command = "RESPONSE" /\ reply.errstat = 0
    /\ var_binds = reply.var_binds

\* What read leaves comes from processing the bindings of an answer, or none for
\* an event that is no answer, and from the epilogue.
LEMMA ReadAnswers ==
  ASSUME IInv, Read
  PROVE  /\ session.status = "WAIT" /\ session \in SessionObject
         /\ \E s \in SessionObject, var_binds \in Seq(VarBind), t \in SessionObject :
              /\ s.request = session.request
              /\ s.heads = session.heads
              /\ s.results = session.results
              /\ t = s \/ (Answer(var_binds) /\ t = VarBindLoop!Run(s, var_binds))
              /\ session' = Epilogue(t)
<1>1. session \in SessionObject /\ session.status = "WAIT"
  BY DEF Read, Receive, ReceiveNull, Resend, TimedOut, SendFailed, Disconnect, Waiting,
         IInv, TypeOK
<1>2. None \in Optional(ReplyPdu) /\ None \in Optional(Oid) /\ <<>> \in Seq(VarBind)
  BY OptionalType
<1>3. ASSUME NEW type \in ErrorTypes, NEW oid \in Optional(Oid)
      PROVE  /\ Fail(session, type, oid) \in SessionObject
             /\ Fail(session, type, oid).heads = session.heads
             /\ Fail(session, type, oid).results = session.results
             /\ Fail(session, type, oid).request = session.request
  <2>1. \A e : e = [type |-> type, oid |-> oid] =>
               Fail(session, type, oid).results = session.results
    BY <1>1, ErrorEffect
  <2> QED
    BY <1>1, <2>1, FailType
<1> DEFINE From(s, var_binds, t) ==
             /\ s.request = session.request
             /\ s.heads = session.heads
             /\ s.results = session.results
             /\ t = s \/ (Answer(var_binds) /\ t = VarBindLoop!Run(s, var_binds))
             /\ session' = Epilogue(t)
<1> SUFFICES \E s \in SessionObject, var_binds \in Seq(VarBind), t \in SessionObject :
               From(s, var_binds, t)
  BY <1>1
<1>4. ASSUME NEW s \in SessionObject, session' = Epilogue(s), s.request = session.request,
             s.heads = session.heads, s.results = session.results
      PROVE  From(s, <<>>, s)
  BY <1>4
<1>5. CASE Receive \/ ReceiveNull
  <2>1. PICK reply \in Optional(ReplyPdu) :
          /\ session' = ProcessReceived(session, reply)
          /\ reply # None => reply[1] \in Replies(in_flight[1]) /\ reply[1] \in ReplyPdu
    <3>1. CASE Receive
      <4>1. PICK pdu \in Replies(in_flight[1]) :
              pdu \in ReplyPdu /\ session' = ProcessReceived(session, Some(pdu))
        BY <3>1 DEF Receive
      <4>2. Some(pdu) \in Optional(ReplyPdu) /\ Some(pdu)[1] = pdu
        BY <4>1, OptionalType DEF Some
      <4> QED
        BY <4>1, <4>2
    <3>2. CASE ReceiveNull
      BY <1>2, <3>2 DEF ReceiveNull
    <3> QED
      BY <1>5, <3>1, <3>2
  <2> DEFINE idle == [session EXCEPT !.status = "IDLE"]
  <2>2. /\ idle \in SessionObject /\ idle.heads = session.heads
        /\ idle.results = session.results /\ idle.request = session.request
    BY <1>1 DEF SessionObject, Status
  <2>3. \/ \E type \in ErrorTypes, oid \in Optional(Oid) :
             Received(session, reply) = Fail(session, type, oid)
        \/ /\ reply # None /\ reply[1].command = "RESPONSE" /\ reply[1].errstat = 0
           /\ Received(session, reply) = VarBindLoop!Run(idle, reply[1].var_binds)
    <3>1. {"CREATE_RESPONSE_PDU_ERROR", "BAD_RESPONSE_PDU_ERROR"} \subseteq ErrorTypes
      BY DEF ErrorTypes, FatalErrors
    <3>2. reply # None => ErrorOid(reply[1]) \in Optional(Oid)
      BY OptionalType, ErrorOidType
    <3> QED
      BY <1>2, <3>1, <3>2 DEF Received
  <2>4. reply # None => reply[1].var_binds \in Seq(VarBind)
    BY OptionalType DEF ReplyPdu
  <2>5. session' = Epilogue(Received(session, reply)) /\ Received(session, reply) \in SessionObject
    BY <1>1, <2>1, ReceivedType DEF ProcessReceived
  <2> HIDE DEF idle
  <2>6. \/ \E type \in ErrorTypes, oid \in Optional(Oid) :
             Received(session, reply) = Fail(session, type, oid)
        \/ /\ reply # None /\ Answer(reply[1].var_binds)
           /\ Received(session, reply) = VarBindLoop!Run(idle, reply[1].var_binds)
    BY <2>1, <2>3 DEF Answer
  <2>7. CASE \E type \in ErrorTypes, oid \in Optional(Oid) :
               Received(session, reply) = Fail(session, type, oid)
    <3>1. PICK type \in ErrorTypes, oid \in Optional(Oid) :
            Received(session, reply) = Fail(session, type, oid)
      BY <2>7
    <3>2. From(Fail(session, type, oid), <<>>, Fail(session, type, oid))
      BY <1>4, <1>3, <2>5, <3>1
    <3> HIDE DEF From
    <3> QED
      BY <1>2, <1>3, <3>2
  <2>8. ASSUME reply # None, Answer(reply[1].var_binds),
               Received(session, reply) = VarBindLoop!Run(idle, reply[1].var_binds)
        PROVE  \E s \in SessionObject, var_binds \in Seq(VarBind), t \in SessionObject :
                 From(s, var_binds, t)
    <3>1. From(idle, reply[1].var_binds, Received(session, reply))
      BY <2>2, <2>5, <2>8
    <3> HIDE DEF From
    <3> QED
      BY <2>2, <2>4, <2>5, <2>8, <3>1
  <2> QED
    BY <2>6, <2>7, <2>8
<1>6. CASE Resend
  <2>1. session' = Epilogue(session)
    BY <1>6 DEF Resend, ProcessResend
  <2>2. From(session, <<>>, session)
    BY <1>4, <1>1, <2>1
  <2> HIDE DEF From
  <2> QED
    BY <1>1, <1>2, <2>2
<1>7. CASE TimedOut \/ SendFailed \/ Disconnect
  <2>1. {"TIMEOUT_ERROR", "ASYNC_PROBE_ERROR", "TRANSPORT_DISCONNECT_ERROR"} \subseteq ErrorTypes
    BY DEF ErrorTypes, FatalErrors
  <2>2. PICK type \in ErrorTypes : session' = Epilogue(Fail(session, type, None))
    BY <1>7, <2>1 DEF TimedOut, SendFailed, Disconnect, ProcessTimedOut, ProcessSendFailed,
                      ProcessDisconnect
  <2>3. From(Fail(session, type, None), <<>>, Fail(session, type, None))
    BY <1>4, <1>2, <1>3, <2>2
  <2> HIDE DEF From
  <2> QED
    BY <1>2, <1>3, <2>3
<1> QED
  BY <1>5, <1>6, <1>7 DEF Read

\* The same without the peer.
LEMMA ReadProcesses ==
  ASSUME IInv, Read
  PROVE  /\ session.status = "WAIT" /\ session \in SessionObject
         /\ \E s \in SessionObject, var_binds \in Seq(VarBind), t \in SessionObject :
              /\ s.request = session.request
              /\ s.heads = session.heads
              /\ s.results = session.results
              /\ t = s \/ t = VarBindLoop!Run(s, var_binds)
              /\ session' = Epilogue(t)
<1>1. /\ session.status = "WAIT" /\ session \in SessionObject
      /\ \E s \in SessionObject, var_binds \in Seq(VarBind), t \in SessionObject :
           /\ s.request = session.request
           /\ s.heads = session.heads
           /\ s.results = session.results
           /\ t = s \/ (Answer(var_binds) /\ t = VarBindLoop!Run(s, var_binds))
           /\ session' = Epilogue(t)
  BY ReadAnswers
<1> QED
  BY <1>1

LEMMA ReadHeads ==
  ASSUME IInv, Read
  PROVE  HeadsAsked'
<1>1. PICK t \in SessionObject : session' = Epilogue(t)
  BY ReadProcesses
<1>2. /\ \A i \in 1 .. Len(session'.heads) : ~Active(session'.heads[i])
      /\ session'.status # "CLOSED" => session'.heads # <<>>
      /\ AskedFor(session'.heads, <<>>)
  BY <1>1, EpilogueRests
<1>3. session'.status = "WAIT" => Pending' = <<>>
  <2>1. CASE Resend
    BY <2>1 DEF Resend, Pending, IInv, TypeOK
  <2>2. CASE ~Resend
    <3>1. None \in Optional(ReplyPdu)
      BY OptionalType
    <3>2. session'.status # "WAIT"
      BY <2>2, <3>1, OptionalType, CallbackType
         DEF Read, Receive, ReceiveNull, TimedOut, SendFailed, Disconnect, IInv, TypeOK
    <3> QED
      BY <3>2
  <2> QED
    BY <2>1, <2>2
<1> QED
  BY <1>2, <1>3 DEF HeadsAsked, Idle

LEMMA NextHeads == IInv /\ HeadsAsked /\ [Next]_vars => HeadsAsked'
<1>1. ASSUME HeadsAsked, UNCHANGED vars PROVE HeadsAsked'
  BY <1>1 DEF vars, HeadsAsked, Idle, Pending
<1> QED
  BY <1>1, SendHeads, ReadHeads DEF Next, Done

LEMMA InvariantHeads == Spec => []HeadsAsked
<1>1. Init => HeadsAsked
  BY InitHeads
<1>2. IInv /\ HeadsAsked /\ [Next]_vars => HeadsAsked'
  BY NextHeads
<1> QED
  BY <1>1, <1>2, InvariantIInv, PTL DEF Spec

\* HeadsMatchRequest: for every request and limit, whatever net-snmp refuses and
\* the peer answers, the heads behind the PDU in flight are the ones it asks for.
THEOREM HeadsMatch == Spec => []HeadsMatchRequest
BY InvariantIInv, InvariantHeads, HeadsAskedMatch, PTL

--------------------------------------------------------------------------------
(* What a binding adds to the results *)

ResultOf(head, var_bind) ==
  [ root_oid_index |-> head.root_oid_index,
    index |-> SubSeq(var_bind.oid, Len(head.root_oid) + 1, Len(var_bind.oid)),
    type  |-> var_bind.type,
    oid   |-> var_bind.oid ]

Warning(var_bind) == [type |-> "VALUE_WARNING", oid |-> Some(var_bind.oid)]

\* No head of the walk takes the binding: none accepts it, or the one that does
\* has reached it before.
PassedOver(s, oid) ==
  \/ \A k \in 1 .. Len(s.heads) : ~Accepts(s.heads[k], s.request.type, oid)
  \/ \E k \in 1 .. Len(s.heads) :
       Accepts(s.heads[k], s.request.type, oid) /\ OidLE(oid, Cursor(s.heads[k]))

\* No head of the get was asked for the binding, or it has no value.
Unanswered(s, var_bind) ==
  \/ \A k \in 1 .. Len(s.heads) : ~Accepts(s.heads[k], s.request.type, var_bind.oid)
  \/ \E k \in 1 .. Len(s.heads) :
       /\ Accepts(s.heads[k], s.request.type, var_bind.oid)
       /\ s.heads[k].req_oid # Some(var_bind.oid)
  \/ var_bind.type \in WarningTypes

\* A binding is passed over, with a warning for a get, or becomes a result of a
\* head that accepts it; the head of a walk moves on to it.
BindingOf(s, var_bind, next) ==
  \/ /\ next.heads = s.heads /\ next.results = s.results
     /\ \/ /\ s.request.type = "GET" /\ Unanswered(s, var_bind)
           /\ next.errors = Append(s.errors, Warning(var_bind))
        \/ /\ s.request.type = "WALK" /\ PassedOver(s, var_bind.oid)
           /\ next.errors = s.errors
  \/ \E k \in 1 .. Len(s.heads) :
       /\ Accepts(s.heads[k], s.request.type, var_bind.oid)
       /\ next.results = Append(s.results, ResultOf(s.heads[k], var_bind))
       /\ next.errors = s.errors
       /\ \/ /\ s.request.type = "GET"
             /\ s.heads[k].req_oid = Some(var_bind.oid)
             /\ var_bind.type \notin WarningTypes
             /\ next.heads = s.heads
          \/ /\ s.request.type = "WALK"
             /\ ~OidLE(var_bind.oid, Cursor(s.heads[k]))
             /\ next.heads = [s.heads EXCEPT ![k].last_resp_oid = Some(var_bind.oid)]

LEMMA AppendResultEffect ==
  ASSUME NEW s \in SessionObject, NEW head, NEW var_bind
  PROVE  /\ AppendResult(s, head, var_bind).heads = s.heads
         /\ AppendResult(s, head, var_bind).errors = s.errors
         /\ AppendResult(s, head, var_bind).results =
              Append(s.results, ResultOf(head, var_bind))
<1> DEFINE results == Append(s.results, ResultOf(head, var_bind))
<1>1. AppendResult(s, head, var_bind) = [s EXCEPT !.results = results]
  BY DEF AppendResult, ResultOf
<1> HIDE DEF results
<1>2. /\ AppendResult(s, head, var_bind).heads = s.heads
      /\ AppendResult(s, head, var_bind).errors = s.errors
      /\ AppendResult(s, head, var_bind).results = results
  BY <1>1 DEF SessionObject
<1> QED
  BY <1>2 DEF results

\* The search for a head fails only when no head accepts.
LEMMA FindHeadNone ==
  ASSUME NEW s \in SessionObject, NEW oid, FindHead(s, oid) = 0
  PROVE  \A k \in 1 .. Len(s.heads) : ~Accepts(s.heads[k], s.request.type, oid)
<1> DEFINE I == { i \in 1 .. Len(s.heads) : Accepts(s.heads[i], s.request.type, oid) }
<1>1. FindHead(s, oid) = IF I # {} THEN Min(I) ELSE 0
  BY DEF FindHead, SelectInSeq
<1>2. I \subseteq Nat /\ \A i \in I : i # 0
  BY DEF SessionObject
<1>3. I = {}
  <2> HIDE DEF I
  <2> QED
    BY <1>1, <1>2, MinType
<1> QED
  BY <1>3

LEMMA ProcessVarBindIs ==
  ASSUME NEW s \in SessionObject, NEW var_bind \in VarBind
  PROVE  BindingOf(s, var_bind, ProcessVarBind(s, var_bind))
<1> SUFFICES ASSUME NEW next, next = ProcessVarBind(s, var_bind)
             PROVE  BindingOf(s, var_bind, next)
  OBVIOUS
<1> DEFINE k == FindHead(s, var_bind.oid)
           warned == AppendError(s, "VALUE_WARNING", Some(var_bind.oid))
           moved == [s EXCEPT !.heads[k].last_resp_oid = Some(var_bind.oid)]
<1>1. /\ k \in 0 .. Len(s.heads) /\ Len(s.heads) \in Nat
      /\ k # 0 => Accepts(s.heads[k], s.request.type, var_bind.oid)
      /\ k = 0 => \A i \in 1 .. Len(s.heads) :
                    ~Accepts(s.heads[i], s.request.type, var_bind.oid)
  BY FindHeadType, FindHeadNone DEF SessionObject
<1>2. k # 0 => k \in 1 .. Len(s.heads)
  BY <1>1
<1>3. /\ warned.heads = s.heads /\ warned.results = s.results
      /\ warned.errors = Append(s.errors, Warning(var_bind))
  <2>1. "VALUE_WARNING" \in ErrorTypes /\ Some(var_bind.oid) \in Optional(Oid)
    BY OptionalType DEF ErrorTypes, VarBind
  <2>2. \A e : e = Warning(var_bind) =>
               /\ AppendError(s, "VALUE_WARNING", Some(var_bind.oid)).results = s.results
               /\ AppendError(s, "VALUE_WARNING", Some(var_bind.oid)).errors = Append(s.errors, e)
    BY ErrorEffect DEF Warning
  <2> QED
    BY <2>1, <2>2, AppendErrorType
<1>4. s.request.type \in {"GET", "WALK"}
  BY DEF SessionObject, Request
<1> HIDE DEF warned
<1>5. CASE s.request.type = "GET"
  <2>1. next = GetVarBind(s, var_bind)
    BY <1>5 DEF ProcessVarBind
  <2> DEFINE warns == \/ k = 0
                      \/ s.heads[k].req_oid # Some(var_bind.oid)
                      \/ var_bind.type \in WarningTypes
  <2>2. next = IF warns THEN warned ELSE AppendResult(s, s.heads[k], var_bind)
    BY <2>1 DEF GetVarBind, warned
  <2> HIDE DEF k
  <2>3. CASE warns
    <3>1. Unanswered(s, var_bind)
      BY <1>1, <1>2, <2>3 DEF Unanswered
    <3> QED
      BY <1>3, <1>5, <2>2, <2>3, <3>1 DEF BindingOf
  <2>4. CASE ~warns
    <3>1. /\ next.heads = s.heads /\ next.errors = s.errors
          /\ next.results = Append(s.results, ResultOf(s.heads[k], var_bind))
      BY <2>2, <2>4, AppendResultEffect
    <3> QED
      BY <1>1, <1>2, <1>5, <2>4, <3>1 DEF BindingOf
  <2> QED
    BY <2>3, <2>4
<1>6. CASE s.request.type = "WALK"
  <2>1. next = WalkVarBind(s, var_bind)
    BY <1>6 DEF ProcessVarBind
  <2>2. \/ next = s /\ (k = 0 \/ OidLE(var_bind.oid, Cursor(s.heads[k])))
        \/ /\ k # 0 /\ ~OidLE(var_bind.oid, Cursor(s.heads[k]))
           /\ next = AppendResult(moved, s.heads[k], var_bind)
    BY <2>1 DEF WalkVarBind
  <2>3. CASE next = s /\ (k = 0 \/ OidLE(var_bind.oid, Cursor(s.heads[k])))
    <3> HIDE DEF k
    <3>1. PassedOver(s, var_bind.oid)
      BY <1>1, <1>2, <2>3 DEF PassedOver
    <3> QED
      BY <1>6, <2>3, <3>1 DEF BindingOf
  <2>4. CASE /\ k # 0 /\ ~OidLE(var_bind.oid, Cursor(s.heads[k]))
             /\ next = AppendResult(moved, s.heads[k], var_bind)
    <3> HIDE DEF k
    <3>1. s.heads \in Seq(CollectionHead) /\ s.heads[k] \in CollectionHead
      BY <1>2, <2>4 DEF SessionObject
    <3>2. Some(var_bind.oid) \in Optional(Oid)
      BY OptionalType DEF VarBind
    <3> DEFINE heads == [s.heads EXCEPT ![k].last_resp_oid = Some(var_bind.oid)]
    <3>3. heads \in Seq(CollectionHead)
      <4>1. [s.heads[k] EXCEPT !.last_resp_oid = Some(var_bind.oid)] \in CollectionHead
        BY <3>1, <3>2 DEF CollectionHead
      <4>2. heads = [s.heads EXCEPT ![k] = [s.heads[k] EXCEPT !.last_resp_oid = Some(var_bind.oid)]]
        OBVIOUS
      <4> HIDE DEF heads
      <4> QED
        BY <1>2, <2>4, <3>1, <4>1, <4>2
    <3>4. moved = [s EXCEPT !.heads = heads]
      BY DEF SessionObject
    <3> HIDE DEF heads, moved
    <3>5. /\ moved \in SessionObject /\ moved.heads = heads
          /\ moved.results = s.results /\ moved.errors = s.errors
      BY <3>3, <3>4 DEF SessionObject
    <3>6. /\ next.heads = heads /\ next.errors = s.errors
          /\ next.results = Append(s.results, ResultOf(s.heads[k], var_bind))
      BY <2>4, <3>5, AppendResultEffect
    <3> QED
      BY <1>1, <1>2, <1>6, <2>4, <3>6 DEF BindingOf, heads
  <2> QED
    BY <2>2, <2>3, <2>4
<1> QED
  BY <1>4, <1>5, <1>6

\* What send leaves of the heads and the results comes from filling a PDU.
LEMMA SendFills ==
  ASSUME IInv, HeadsAsked, Send
  PROVE  /\ session.status = "IDLE" /\ session \in SessionObject
         /\ session'.request = session.request
         /\ \A i \in 1 .. Len(session.heads) : ~Active(session.heads[i])
         /\ \E t \in SessionObject :
              /\ t = session \/ \E taken \in Seq(BOOLEAN) : t = Fill(session, taken).session
              /\ session'.heads = t.heads
              /\ session'.results = t.results
<1>1. session \in SessionObject /\ session.status = "IDLE" /\ Idle /\ TypeOK
  BY DEF Send, SendNoPdu, Idle, IInv, TypeOK
<1>2. \A i \in 1 .. Len(session.heads) : ~Active(session.heads[i])
  BY <1>1 DEF HeadsAsked
<1>3. ASSUME NEW t \in SessionObject, NEW type \in ErrorTypes
      PROVE  /\ Fail(t, type, None).heads = t.heads
             /\ Fail(t, type, None).results = t.results
             /\ Fail(t, type, None).request = t.request
  <2>1. \A e : e = [type |-> type, oid |-> None] => Fail(t, type, None).results = t.results
    BY ErrorEffect
  <2> QED
    BY <2>1, SendErrors, FailType
<1>4. CASE SendNoPdu
  BY <1>1, <1>2, <1>3, <1>4, SendErrors DEF SendNoPdu
<1>5. CASE ~SendNoPdu
  <2>1. PICK taken \in Takings :
          LET filled == Fill(session, taken)
          IN  SendDivides(filled) \/ SendRefused(filled) \/ SendTaken(filled)
    BY <1>5 DEF Send
  <2> DEFINE t == Fill(session, taken).session
  <2>2. t \in SessionObject /\ t.request = session.request
    BY <1>1, Filled
  <2>3. taken \in Seq(BOOLEAN)
    <3>1. taken \in [1 .. Len(session.heads) -> BOOLEAN] /\ Len(session.heads) \in Nat
      BY <1>1 DEF Takings, SessionObject
    <3> QED
      BY <3>1
  <2>4. \/ session' = t
        \/ session' = Fail(t, "SEND_ERROR", None)
        \/ session' = [t EXCEPT !.status = "WAIT"]
    BY <2>1 DEF SendDivides, SendRefused, SendTaken
  <2>5. \E taking \in Seq(BOOLEAN) : t = Fill(session, taking).session
    BY <2>3
  <2> HIDE DEF t
  <2>6. session'.heads = t.heads /\ session'.results = t.results /\ session'.request = t.request
    BY <1>3, <2>2, <2>4, SendErrors DEF SessionObject
  <2> QED
    BY <1>1, <1>2, <2>2, <2>5, <2>6
<1> QED
  BY <1>4, <1>5

--------------------------------------------------------------------------------
(* ResultsUnderRoot *)

\* A head stands for a root OID of the request, and both ends of its range lie
\* below it.
RootedHead(request, head) ==
  /\ IsRootOf(head.root_oid, head.range.start)
  /\ IsRootOf(head.root_oid, head.range.stop)
  /\ \E r \in DOMAIN request.oids :
       /\ head.root_oid = request.oids[r]
       /\ request.ranges = <<>> => r = head.root_oid_index + 1

RootedResult(request, result) ==
  \E r \in DOMAIN request.oids :
    /\ request.oids[r] \o result.index = result.oid
    /\ request.ranges = <<>> => r = result.root_oid_index + 1

Rooted(s) ==
  /\ \A i \in 1 .. Len(s.heads) : RootedHead(s.request, s.heads[i])
  /\ \A i \in 1 .. Len(s.results) : RootedResult(s.request, s.results[i])

\* A head that differs in its cursor only is rooted all the same.
LEMMA SameRoot ==
  ASSUME NEW request, NEW head, RootedHead(request, head),
         NEW other, other.root_oid_index = head.root_oid_index,
         other.root_oid = head.root_oid, other.range = head.range
  PROVE  RootedHead(request, other)
BY DEF RootedHead

LEMMA OpenedRooted ==
  ASSUME NEW request \in Request, request.oids # <<>>,
         NEW heads, heads = HeadsOf(request)
  PROVE  \A k \in 1 .. Len(heads) : RootedHead(request, heads[k])
<1> SUFFICES ASSUME NEW k \in 1 .. Len(heads) PROVE RootedHead(request, heads[k])
  OBVIOUS
<1>1. /\ heads \in Seq(CollectionHead)
      /\ heads[k].root_oid_index = k - 1
      /\ \E r \in DOMAIN request.oids, range \in Optional(OidRange) :
           /\ heads[k].root_oid = request.oids[r]
           /\ heads[k].range = RootedRange(request.oids[r], range)
           /\ request.ranges = <<>> => r = k
  BY HeadsOfEffect
<1>2. PICK r \in DOMAIN request.oids, range \in Optional(OidRange) :
        /\ heads[k].root_oid = request.oids[r]
        /\ heads[k].range = RootedRange(request.oids[r], range)
        /\ request.ranges = <<>> => r = k
  BY <1>1
<1>3. request.oids[r] \in Oid
  BY DEF Request
<1>4. ValueOr(range, Everything) \in OidRange
  <2>1. Everything \in OidRange
    BY DEF Everything, OidRange, Oid
  <2> QED
    BY <2>1, OptionalType
<1>5. /\ IsRootOf(request.oids[r], request.oids[r] \o ValueOr(range, Everything).start)
      /\ IsRootOf(request.oids[r], request.oids[r] \o ValueOr(range, Everything).stop)
  BY <1>3, <1>4, RootOfConcat DEF OidRange
<1>6. (k - 1) + 1 = k
  BY <1>1
<1>7. /\ heads[k].range.start = request.oids[r] \o ValueOr(range, Everything).start
      /\ heads[k].range.stop = request.oids[r] \o ValueOr(range, Everything).stop
  <2>1. \A root, g : /\ RootedRange(root, g).start = root \o ValueOr(g, Everything).start
                     /\ RootedRange(root, g).stop = root \o ValueOr(g, Everything).stop
    BY DEF RootedRange
  <2> QED
    BY <1>2, <2>1, Zenon
<1> QED
  BY <1>1, <1>2, <1>5, <1>6, <1>7 DEF RootedHead

\* The OID of a binding lies below the root OID of the head that accepts it.
LEMMA AcceptsBelowRoot ==
  ASSUME NEW head \in CollectionHead, NEW type, NEW oid \in Oid,
         Accepts(head, type, oid),
         IsRootOf(head.root_oid, head.range.start), IsRootOf(head.root_oid, head.range.stop)
  PROVE  IsRootOf(head.root_oid, oid)
<1>1. head.root_oid \in Oid /\ head.range.start \in Oid /\ head.range.stop \in Oid
  BY DEF CollectionHead, OidRange
<1>2. \/ head.range.start = oid
      \/ OidLE(head.range.start, oid) /\ OidLE(oid, head.range.stop)
      \/ IsRootOf(head.range.stop, oid)
  BY DEF Accepts
<1> QED
  BY <1>1, <1>2, RootBetween, RootTransitive

LEMMA BindingRooted ==
  ASSUME NEW s \in SessionObject, Rooted(s), NEW var_bind \in VarBind,
         NEW next \in SessionObject, next.request = s.request, BindingOf(s, var_bind, next)
  PROVE  Rooted(next)
<1>1. CASE next.heads = s.heads /\ next.results = s.results
  BY <1>1 DEF Rooted
<1>2. CASE ~(next.heads = s.heads /\ next.results = s.results)
  <2>1. PICK k \in 1 .. Len(s.heads) :
          /\ Accepts(s.heads[k], s.request.type, var_bind.oid)
          /\ next.results = Append(s.results, ResultOf(s.heads[k], var_bind))
          /\ \/ next.heads = s.heads
             \/ next.heads = [s.heads EXCEPT ![k].last_resp_oid = Some(var_bind.oid)]
    BY <1>2 DEF BindingOf
  <2> DEFINE head == s.heads[k]
             result == ResultOf(head, var_bind)
  <2>2. /\ s.heads \in Seq(CollectionHead) /\ s.results \in Seq(Result)
        /\ head \in CollectionHead /\ var_bind.oid \in Oid /\ head.root_oid \in Oid
    <3>1. s.heads \in Seq(CollectionHead) /\ s.results \in Seq(Result)
      BY DEF SessionObject
    <3>2. head \in CollectionHead
      BY <3>1
    <3> HIDE DEF head
    <3> QED
      BY <3>1, <3>2 DEF VarBind, CollectionHead
  <2>3. RootedHead(s.request, head)
    BY DEF Rooted
  <2>4. ASSUME NEW i \in 1 .. Len(next.heads)
        PROVE  RootedHead(next.request, next.heads[i])
    <3>1. CASE next.heads = s.heads
      BY <3>1 DEF Rooted
    <3>2. CASE next.heads = [s.heads EXCEPT ![k].last_resp_oid = Some(var_bind.oid)]
      <4>1. i \in 1 .. Len(s.heads) /\ s.heads[i] \in CollectionHead
        BY <2>2, <3>2
      <4>2. /\ next.heads[i].root_oid_index = s.heads[i].root_oid_index
            /\ next.heads[i].root_oid = s.heads[i].root_oid
            /\ next.heads[i].range = s.heads[i].range
        BY <2>2, <3>2, <4>1 DEF CollectionHead
      <4> QED
        BY <4>1, <4>2, SameRoot DEF Rooted
    <3> QED
      BY <2>1, <3>1, <3>2
  <2>5. RootedResult(s.request, result)
    <3>1. IsRootOf(head.root_oid, var_bind.oid)
      BY <2>1, <2>2, <2>3, AcceptsBelowRoot DEF RootedHead
    <3>2. head.root_oid \o result.index = var_bind.oid
      BY <2>2, <3>1, RootAndIndex DEF ResultOf
    <3>3. result.oid = var_bind.oid /\ result.root_oid_index = head.root_oid_index
      BY DEF ResultOf
    <3> HIDE DEF result, head
    <3> QED
      BY <2>3, <3>2, <3>3 DEF RootedHead, RootedResult
  <2> HIDE DEF result
  <2>6. ASSUME NEW i \in 1 .. Len(next.results)
        PROVE  RootedResult(next.request, next.results[i])
    <3>1. i \in 1 .. Len(s.results) \/ i = Len(s.results) + 1
      BY <2>1, <2>2
    <3> QED
      BY <2>1, <2>2, <2>5, <3>1 DEF Rooted, result
  <2> QED
    BY <2>4, <2>6 DEF Rooted
<1> QED
  BY <1>1, <1>2

LEMMA VarBindsRooted ==
  ASSUME NEW s \in SessionObject, Rooted(s), NEW var_binds \in Seq(VarBind)
  PROVE  Rooted(VarBindLoop!Run(s, var_binds))
<1> DEFINE A == { t \in Processings(s) : Rooted(t) }
<1>1. s \in A
  BY DEF Processings
<1>2. ASSUME NEW t \in A, NEW var_bind \in VarBind
      PROVE  ProcessVarBind(t, var_bind) \in A
  <2>1. t \in SessionObject /\ t.status = s.status /\ t.request = s.request /\ Rooted(t)
    BY DEF Processings
  <2>2. ProcessVarBind(t, var_bind) \in Processings(t)
    BY <2>1, GetVarBindType, WalkVarBindType DEF ProcessVarBind
  <2>3. Rooted(ProcessVarBind(t, var_bind))
    BY <2>1, <2>2, ProcessVarBindIs, BindingRooted DEF Processings
  <2> QED
    BY <2>1, <2>2, <2>3 DEF Processings
<1> HIDE DEF A
<1>3. VarBindProofs!Run(s, var_binds) \in A
  BY <1>1, <1>2, VarBindProofs!RunInvariant
<1> QED
  BY <1>3 DEF A, VarBindProofs!Run, VarBindLoop!Run

LEMMA PassRooted ==
  ASSUME NEW s \in SessionObject, NEW f \in Fillings(s), Rooted(f.session),
         NEW taken \in BOOLEAN
  PROVE  Rooted(AddVarBind(f, taken).session)
<1> SUFFICES ASSUME NEW heads, heads = f.session.heads,
                    NEW next, next = AddVarBind(f, taken)
             PROVE  Rooted(next.session)
  OBVIOUS
<1>1. /\ f.session \in SessionObject /\ heads \in Seq(CollectionHead)
      /\ next.session.request = f.session.request
      /\ next.session.results = f.session.results
  <2>1. next \in Fillings(s) /\ next.session.results = f.session.results
    BY AddVarBindType, AddVarBindEffect
  <2> QED
    BY <2>1 DEF Fillings, SessionObject
<1>2. ASSUME NEW h \in Seq(CollectionHead), next.session.heads = h,
             \A i \in 1 .. Len(h) : RootedHead(f.session.request, h[i])
      PROVE  Rooted(next.session)
  BY <1>1, <1>2 DEF Rooted
<1>3. \A i \in 1 .. Len(heads) : RootedHead(f.session.request, heads[i])
  BY DEF Rooted
<1>4. PassOf(f, next)
  BY AddVarBindHeads
<1>5. CASE next = f
  BY <1>5
<1>6. ASSUME heads # <<>>
      PROVE  /\ \A i \in 1 .. Len(Tail(heads)) : RootedHead(f.session.request, Tail(heads)[i])
             /\ RootedHead(f.session.request, Activate(Head(heads)))
  <2>1. Head(heads) \in CollectionHead /\ Head(heads) = heads[1] /\ 1 \in 1 .. Len(heads)
    BY <1>1, <1>6
  <2>2. \A i \in 1 .. Len(Tail(heads)) : i + 1 \in 1 .. Len(heads) /\ Tail(heads)[i] = heads[i + 1]
    BY <1>1, <1>6
  <2> QED
    BY <1>3, <2>1, <2>2, ActivateEffect, SameRoot
<1>7. CASE heads # <<>> /\ next.session.heads = Tail(heads)
  <2> DEFINE rest == Tail(heads)
  <2>1. /\ rest \in Seq(CollectionHead)
        /\ \A i \in 1 .. Len(rest) : RootedHead(f.session.request, rest[i])
    BY <1>1, <1>6, <1>7
  <2> HIDE DEF rest
  <2> QED
    BY <1>2, <1>7, <2>1 DEF rest
<1>8. CASE heads # <<>> /\ next.session.heads = Append(Tail(heads), Activate(Head(heads)))
  <2> DEFINE front == Activate(Head(heads))
             rest == Tail(heads)
  <2>1. front \in CollectionHead /\ rest \in Seq(CollectionHead)
    BY <1>1, <1>8, ActivateType
  <2>2. /\ \A i \in 1 .. Len(rest) : RootedHead(f.session.request, rest[i])
        /\ RootedHead(f.session.request, front)
    BY <1>6, <1>8
  <2> HIDE DEF front, rest
  <2>3. ASSUME NEW i \in 1 .. Len(Append(rest, front))
        PROVE  RootedHead(f.session.request, Append(rest, front)[i])
    <3>1. i \in 1 .. Len(rest) \/ i = Len(rest) + 1
      BY <2>1
    <3> QED
      BY <2>1, <2>2, <3>1
  <2>4. Append(rest, front) \in Seq(CollectionHead)
    BY <2>1
  <2> QED
    BY <1>2, <1>8, <2>3, <2>4 DEF front, rest
<1> QED
  BY <1>4, <1>5, <1>7, <1>8 DEF PassOf

LEMMA FillRooted ==
  ASSUME NEW s \in SessionObject, Rooted(s), NEW taken \in Seq(BOOLEAN)
  PROVE  Rooted(Fill(s, taken).session)
<1> DEFINE first == [session |-> s, oids |-> <<>>]
           A == { f \in Fillings(s) : Rooted(f.session) }
<1>1. first \in A
  BY DEF Fillings, Oid
<1>2. \A f \in A, v \in BOOLEAN : AddVarBind(f, v) \in A
  BY PassRooted, AddVarBindType
<1> HIDE DEF first, A
<1>3. FillProofs!Run(first, taken) \in A
  BY <1>1, <1>2, FillProofs!RunInvariant
<1> QED
  BY <1>3 DEF Fill, first, A, FillProofs!Run, FillLoop!Run

LEMMA EpilogueRooted ==
  ASSUME NEW s \in SessionObject, Rooted(s)
  PROVE  Rooted(Epilogue(s))
<1> SUFFICES ASSUME NEW t, t = Epilogue(s) PROVE Rooted(t)
  OBVIOUS
<1>1. t.request = s.request /\ t.results = s.results
  BY EpilogueType
<1>2. ASSUME NEW i \in 1 .. Len(t.heads) PROVE RootedHead(s.request, t.heads[i])
  <2>1. PICK k \in 1 .. Len(s.heads) : t.heads[i] = Resting(s.heads[k])
    BY EpilogueKeeps
  <2>2. s.heads[k] \in CollectionHead
    BY DEF SessionObject
  <2> QED
    BY <2>1, <2>2, RestingEffect, SameRoot DEF Rooted
<1> QED
  BY <1>1, <1>2 DEF Rooted

LEMMA InitRooted == Init => Rooted(session)
<1> SUFFICES ASSUME Init PROVE Rooted(session)
  OBVIOUS
<1>1. PICK request \in Requests : session = Opened(request) \/ session = OpenFailed(request)
  BY DEF Init
<1>2. request \in Request /\ WellFormed(request)
  BY <1>1, RequestsAssumption
<1>3. request.oids # <<>>
  BY <1>2 DEF WellFormed, RequestThrows
<1>4. CASE session = Opened(request)
  <2>1. /\ session.request = request /\ session.results = <<>>
        /\ session.heads = HeadsOf(request)
    BY <1>4 DEF Opened, EmptySession
  <2> QED
    BY <1>2, <1>3, <2>1, OpenedRooted DEF Rooted
<1>5. CASE session = OpenFailed(request)
  <2>1. session.heads = <<>> /\ session.results = <<>>
    BY <1>5 DEF OpenFailed, Fail, AppendError, EmptySession
  <2> QED
    BY <2>1 DEF Rooted
<1> QED
  BY <1>1, <1>4, <1>5

LEMMA SendRooted ==
  ASSUME IInv, HeadsAsked, Rooted(session), Send
  PROVE  Rooted(session')
<1>1. PICK t \in SessionObject :
        /\ t = session \/ \E taken \in Seq(BOOLEAN) : t = Fill(session, taken).session
        /\ session'.heads = t.heads
        /\ session'.results = t.results
  BY SendFills
<1>2. session \in SessionObject /\ session'.request = session.request
  BY SendFills
<1>3. t.request = session.request
  BY <1>1, <1>2, FillType DEF Fillings
<1>4. Rooted(t)
  BY <1>1, <1>2, FillRooted
<1> QED
  BY <1>1, <1>2, <1>3, <1>4 DEF Rooted

LEMMA ReadRooted ==
  ASSUME IInv, Rooted(session), Read
  PROVE  Rooted(session')
<1>1. PICK s \in SessionObject, var_binds \in Seq(VarBind), t \in SessionObject :
        /\ s.request = session.request
        /\ s.heads = session.heads
        /\ s.results = session.results
        /\ t = s \/ t = VarBindLoop!Run(s, var_binds)
        /\ session' = Epilogue(t)
  BY ReadProcesses
<1>2. Rooted(s)
  BY <1>1 DEF Rooted
<1>3. Rooted(t)
  BY <1>1, <1>2, VarBindsRooted
<1> QED
  BY <1>1, <1>3, EpilogueRooted

LEMMA InvariantRooted == Spec => []Rooted(session)
<1>1. Init => Rooted(session)
  BY InitRooted
<1>2. IInv /\ HeadsAsked /\ Rooted(session) /\ [Next]_vars => Rooted(session)'
  BY SendRooted, ReadRooted DEF Next, Done, vars
<1> QED
  BY <1>1, <1>2, InvariantIInv, InvariantHeads, PTL DEF Spec

\* ResultsUnderRoot: for every request and whatever the peer answers, the size of
\* a result's index never wraps around, and the index completes a root OID of the
\* request to the OID that was answered.
THEOREM ResultsRooted == Spec => []ResultsUnderRoot
<1>1. IInv /\ Rooted(session) => ResultsUnderRoot
  <2> SUFFICES ASSUME IInv, Rooted(session) PROVE ResultsUnderRoot
    OBVIOUS
  <2>1. DOMAIN session.results = 1 .. Len(session.results)
    BY DEF IInv, TypeOK, SessionObject
  <2> QED
    BY <2>1 DEF ResultsUnderRoot, Rooted, RootedResult
<1> QED
  BY <1>1, InvariantIInv, InvariantRooted, PTL

--------------------------------------------------------------------------------
(* WalkIncreasing *)

Increasing(results) ==
  \A i, j \in 1 .. Len(results) :
    i < j /\ results[i].root_oid_index = results[j].root_oid_index
      => OidLT(results[i].oid, results[j].oid)

\* The cursor of a head has reached every result of the head.
Behind(result, head) ==
  result.root_oid_index = head.root_oid_index =>
    \/ head.last_resp_oid # None /\ OidLE(result.oid, head.last_resp_oid[1])
    \/ /\ head.last_resp_oid = None /\ Active(head)
       /\ OidLE(result.oid, head.req_oid[1])

InOrder(heads, results) ==
  /\ Increasing(results)
  /\ \A i \in 1 .. Len(results), j \in 1 .. Len(heads) : Behind(results[i], heads[j])

Ordered(s) ==
  /\ Distinct(s.heads)
  /\ s.request.type = "WALK" => InOrder(s.heads, s.results)

\* Moving the head of a walk on to an OID beyond its cursor.
LEMMA MoveOrdered ==
  ASSUME NEW heads \in Seq(CollectionHead), NEW results \in Seq(Result),
         Distinct(heads), InOrder(heads, results),
         NEW k \in 1 .. Len(heads), Active(heads[k]),
         NEW oid \in Oid, ~OidLE(oid, Cursor(heads[k])),
         NEW result, result.oid = oid, result.root_oid_index = heads[k].root_oid_index
  PROVE  /\ Distinct([heads EXCEPT ![k].last_resp_oid = Some(oid)])
         /\ InOrder([heads EXCEPT ![k].last_resp_oid = Some(oid)], Append(results, result))
<1> SUFFICES ASSUME NEW head, head = heads[k], NEW n, n = Len(results),
                    NEW moved, moved = [heads EXCEPT ![k].last_resp_oid = Some(oid)],
                    NEW more, more = Append(results, result)
             PROVE  Distinct(moved) /\ InOrder(moved, more)
  OBVIOUS
<1>1. /\ head \in CollectionHead /\ n \in Nat
      /\ head.last_resp_oid \in Optional(Oid) /\ head.req_oid \in Optional(Oid)
  <2>1. head \in CollectionHead /\ n \in Nat
    OBVIOUS
  <2> QED
    BY <2>1 DEF CollectionHead
<1>2. /\ head.last_resp_oid # None => head.last_resp_oid[1] \in Oid
      /\ head.req_oid[1] \in Oid
      /\ Cursor(head) = IF head.last_resp_oid = None THEN head.req_oid[1]
                                                     ELSE head.last_resp_oid[1]
  BY <1>1, OptionalType DEF Active, Cursor, ValueOr
<1>3. Cursor(head) \in Oid /\ OidLT(Cursor(head), oid)
  BY <1>2, OidLTTotal DEF OidLE
<1>4. ASSUME NEW i \in 1 .. n, results[i].root_oid_index = head.root_oid_index
      PROVE  OidLT(results[i].oid, oid)
  <2>1. results[i].oid \in Oid
    <3>1. results[i] \in Result
      OBVIOUS
    <3> QED
      BY <3>1 DEF Result
  <2>2. OidLE(results[i].oid, Cursor(head))
    BY <1>2, <1>4 DEF InOrder, Behind
  <2> QED
    BY <1>3, <2>1, <2>2, OidLTTransitive DEF OidLE
<1>5. /\ Len(more) = n + 1 /\ more[n + 1] = result
      /\ \A i \in 1 .. n : more[i] = results[i]
  BY <1>1
<1>6. \A i \in 1 .. n + 1 : i \in 1 .. n \/ i = n + 1
  BY <1>1
<1>7. Increasing(more)
  <2>1. ASSUME NEW i \in 1 .. n + 1, NEW j \in 1 .. n + 1, i < j,
               more[i].root_oid_index = more[j].root_oid_index
        PROVE  OidLT(more[i].oid, more[j].oid)
    <3>1. i \in 1 .. n
      BY <1>1, <2>1
    <3>2. CASE j = n + 1
      BY <1>4, <1>5, <2>1, <3>1, <3>2
    <3>3. CASE j \in 1 .. n
      BY <1>5, <2>1, <3>1, <3>3 DEF InOrder, Increasing
    <3> QED
      BY <1>6, <3>2, <3>3
  <2> QED
    BY <1>5, <2>1 DEF Increasing
<1>8. /\ Len(moved) = Len(heads)
      /\ \A j \in 1 .. Len(heads) : j # k => moved[j] = heads[j]
      /\ \A j \in 1 .. Len(heads) : moved[j].root_oid_index = heads[j].root_oid_index
      /\ moved[k].last_resp_oid = Some(oid)
  <2> DEFINE there == [head EXCEPT !.last_resp_oid = Some(oid)]
  <2>1. there.root_oid_index = head.root_oid_index /\ there.last_resp_oid = Some(oid)
    BY <1>1 DEF CollectionHead
  <2>2. moved = [heads EXCEPT ![k] = there]
    OBVIOUS
  <2> HIDE DEF there
  <2> QED
    BY <2>1, <2>2
<1>9. Distinct(moved)
  BY <1>8 DEF Distinct
<1>10. ASSUME NEW i \in 1 .. n + 1, NEW j \in 1 .. Len(heads)
       PROVE  Behind(more[i], moved[j])
  <2>1. Some(oid) # None /\ Some(oid)[1] = oid
    BY DEF Some, None
  <2>2. CASE j = k
    <3>1. more[i].root_oid_index = head.root_oid_index => OidLE(more[i].oid, oid)
      BY <1>4, <1>5, <1>6 DEF OidLE
    <3> QED
      BY <1>8, <2>1, <2>2, <3>1 DEF Behind
  <2>3. CASE j # k
    <3>1. CASE i = n + 1
      <4>1. moved[j].root_oid_index # head.root_oid_index
        BY <1>8, <2>3 DEF Distinct
      <4> QED
        BY <1>5, <3>1, <4>1 DEF Behind
    <3>2. CASE i \in 1 .. n
      BY <1>5, <1>8, <2>3, <3>2 DEF InOrder
    <3> QED
      BY <1>6, <3>1, <3>2
  <2> QED
    BY <2>2, <2>3
<1> QED
  BY <1>5, <1>7, <1>8, <1>9, <1>10 DEF InOrder

LEMMA BindingOrdered ==
  ASSUME NEW s \in SessionObject, Ordered(s), NEW var_bind \in VarBind,
         NEW next, next.request = s.request, BindingOf(s, var_bind, next)
  PROVE  Ordered(next)
<1>1. CASE next.heads = s.heads /\ next.results = s.results
  BY <1>1 DEF Ordered
<1>2. CASE ~(next.heads = s.heads /\ next.results = s.results)
  <2>1. PICK k \in 1 .. Len(s.heads) :
          /\ Accepts(s.heads[k], s.request.type, var_bind.oid)
          /\ next.results = Append(s.results, ResultOf(s.heads[k], var_bind))
          /\ \/ /\ s.request.type = "GET"
                /\ next.heads = s.heads
             \/ /\ s.request.type = "WALK"
                /\ ~OidLE(var_bind.oid, Cursor(s.heads[k]))
                /\ next.heads = [s.heads EXCEPT ![k].last_resp_oid = Some(var_bind.oid)]
    BY <1>2 DEF BindingOf
  <2>2. CASE s.request.type = "GET"
    BY <2>1, <2>2 DEF Ordered
  <2>3. CASE s.request.type = "WALK"
    <3> DEFINE result == ResultOf(s.heads[k], var_bind)
    <3>1. /\ s.heads \in Seq(CollectionHead) /\ s.results \in Seq(Result)
          /\ var_bind.oid \in Oid
      BY DEF SessionObject, VarBind
    <3>2. /\ result.oid = var_bind.oid
          /\ result.root_oid_index = s.heads[k].root_oid_index
      BY DEF ResultOf
    <3>3. Active(s.heads[k])
      BY <2>1 DEF Accepts
    <3> HIDE DEF result
    <3>4. /\ ~OidLE(var_bind.oid, Cursor(s.heads[k]))
          /\ next.heads = [s.heads EXCEPT ![k].last_resp_oid = Some(var_bind.oid)]
          /\ next.results = Append(s.results, result)
      BY <2>1, <2>3 DEF result
    <3>5. Distinct(s.heads) /\ InOrder(s.heads, s.results)
      BY <2>3 DEF Ordered
    <3>6. Distinct(next.heads) /\ InOrder(next.heads, next.results)
      <4> DEFINE oid == var_bind.oid
                 heads == s.heads
                 results == s.results
      <4>1. /\ heads \in Seq(CollectionHead) /\ results \in Seq(Result) /\ oid \in Oid
            /\ Distinct(heads) /\ InOrder(heads, results)
            /\ k \in 1 .. Len(heads) /\ Active(heads[k]) /\ ~OidLE(oid, Cursor(heads[k]))
            /\ result.oid = oid /\ result.root_oid_index = heads[k].root_oid_index
        BY <3>1, <3>2, <3>3, <3>4, <3>5
      <4>2. next.heads = [heads EXCEPT ![k].last_resp_oid = Some(oid)]
        BY <3>4
      <4>3. next.results = Append(results, result)
        BY <3>4
      <4> HIDE DEF oid, heads, results
      <4>4. /\ Distinct([heads EXCEPT ![k].last_resp_oid = Some(oid)])
            /\ InOrder([heads EXCEPT ![k].last_resp_oid = Some(oid)], Append(results, result))
        BY <4>1, MoveOrdered
      <4> QED
        BY <4>2, <4>3, <4>4
    <3> QED
      BY <3>6 DEF Ordered
  <2> QED
    BY <2>1, <2>2, <2>3
<1> QED
  BY <1>1, <1>2

LEMMA VarBindsOrdered ==
  ASSUME NEW s \in SessionObject, Ordered(s), NEW var_binds \in Seq(VarBind)
  PROVE  Ordered(VarBindLoop!Run(s, var_binds))
<1> DEFINE A == { t \in Processings(s) : Ordered(t) }
<1>1. s \in A
  BY DEF Processings
<1>2. ASSUME NEW t \in A, NEW var_bind \in VarBind
      PROVE  ProcessVarBind(t, var_bind) \in A
  <2>1. t \in SessionObject /\ t.status = s.status /\ t.request = s.request /\ Ordered(t)
    BY DEF Processings
  <2>2. ProcessVarBind(t, var_bind) \in Processings(t)
    BY <2>1, GetVarBindType, WalkVarBindType DEF ProcessVarBind
  <2>3. Ordered(ProcessVarBind(t, var_bind))
    BY <2>1, <2>2, ProcessVarBindIs, BindingOrdered DEF Processings
  <2> QED
    BY <2>1, <2>2, <2>3 DEF Processings
<1> HIDE DEF A
<1>3. VarBindProofs!Run(s, var_binds) \in A
  BY <1>1, <1>2, VarBindProofs!RunInvariant
<1> QED
  BY <1>3 DEF A, VarBindProofs!Run, VarBindLoop!Run

LEMMA DistinctRest ==
  ASSUME NEW heads \in Seq(CollectionHead), heads # <<>>, Distinct(heads)
  PROVE  Distinct(Tail(heads))
<1> SUFFICES ASSUME NEW rest, rest = Tail(heads),
                    NEW i \in 1 .. Len(rest), NEW j \in 1 .. Len(rest),
                    rest[i].root_oid_index = rest[j].root_oid_index
             PROVE  i = j
  BY DEF Distinct
<1>1. /\ i + 1 \in 1 .. Len(heads) /\ j + 1 \in 1 .. Len(heads)
      /\ rest[i] = heads[i + 1] /\ rest[j] = heads[j + 1]
      /\ i \in Nat /\ j \in Nat
  OBVIOUS
<1>2. i + 1 = j + 1
  BY <1>1 DEF Distinct
<1> QED
  BY <1>1, <1>2

LEMMA DistinctRotated ==
  ASSUME NEW heads \in Seq(CollectionHead), heads # <<>>, Distinct(heads),
         NEW front, front.root_oid_index = heads[1].root_oid_index
  PROVE  Distinct(Append(Tail(heads), front))
<1> SUFFICES ASSUME NEW h, h = Append(Tail(heads), front), NEW m, m = Len(heads),
                    NEW i \in 1 .. Len(h), NEW j \in 1 .. Len(h),
                    h[i].root_oid_index = h[j].root_oid_index
             PROVE  i = j
  BY DEF Distinct
<1>1. /\ m \in Nat \ {0} /\ Len(h) = m
      /\ h[m] = front /\ \A l \in 1 .. m - 1 : h[l] = heads[l + 1]
  BY EmptySeq
<1> DEFINE At(l) == IF l = m THEN 1 ELSE l + 1
<1>2. ASSUME NEW l \in 1 .. m
      PROVE  At(l) \in 1 .. m /\ h[l].root_oid_index = heads[At(l)].root_oid_index
  <2>1. CASE l = m
    BY <1>1, <2>1
  <2>2. CASE l # m
    <3>1. l \in 1 .. m - 1 /\ l + 1 \in 1 .. m
      BY <1>1, <2>2
    <3> QED
      BY <1>1, <2>2, <3>1
  <2> QED
    BY <2>1, <2>2
<1>3. heads[At(i)].root_oid_index = heads[At(j)].root_oid_index
  BY <1>1, <1>2
<1>4. At(i) = At(j)
  <2> HIDE DEF At
  <2> QED
    BY <1>1, <1>2, <1>3 DEF Distinct
<1> QED
  BY <1>1, <1>4

\* A head that is activated goes on from its last answer.
LEMMA ActivateBehind ==
  ASSUME NEW head \in CollectionHead, ~Active(head), NEW result, Behind(result, head)
  PROVE  Behind(result, Activate(head))
<1> SUFFICES ASSUME NEW front, front = Activate(head) PROVE Behind(result, front)
  OBVIOUS
<1>1. /\ front.root_oid_index = head.root_oid_index
      /\ front.last_resp_oid = None /\ Active(front)
      /\ front.req_oid = Some(ValueOr(head.last_resp_oid, head.root_oid))
  BY ActivateEffect
<1>2. ASSUME result.root_oid_index = head.root_oid_index
      PROVE  OidLE(result.oid, front.req_oid[1])
  <2>1. head.last_resp_oid # None /\ OidLE(result.oid, head.last_resp_oid[1])
    BY <1>2 DEF Behind
  <2>2. front.req_oid[1] = head.last_resp_oid[1]
    BY <1>1, <2>1 DEF ValueOr, Some
  <2> QED
    BY <2>1, <2>2
<1> QED
  BY <1>1, <1>2 DEF Behind

LEMMA PassOrdered ==
  ASSUME NEW s \in SessionObject, NEW f \in AskedFillings(s), Ordered(f.session),
         NEW taken \in BOOLEAN
  PROVE  Ordered(AddVarBind(f, taken).session)
<1> SUFFICES ASSUME NEW heads, heads = f.session.heads,
                    NEW results, results = f.session.results,
                    NEW next, next = AddVarBind(f, taken)
             PROVE  Ordered(next.session)
  OBVIOUS
<1>1. /\ f.session \in SessionObject /\ heads \in Seq(CollectionHead)
      /\ f.oids \in Seq(Oid)
      /\ next.session.request = f.session.request
      /\ next.session.results = results
  <2>1. f \in Fillings(s)
    BY DEF AskedFillings
  <2>2. next \in Fillings(s) /\ next.session.results = f.session.results
    BY <2>1, AddVarBindType, AddVarBindEffect
  <2> QED
    BY <2>1, <2>2 DEF Fillings, SessionObject
<1>2. Distinct(heads) /\ (f.session.request.type = "WALK" => InOrder(heads, results))
  BY DEF Ordered
<1>3. PassOf(f, next)
  BY AddVarBindHeads DEF AskedFillings
<1>4. CASE next = f
  BY <1>4
<1>5. CASE heads # <<>> /\ next.session.heads = Tail(heads)
  <2>1. InOrder(heads, results) => InOrder(Tail(heads), results)
    <3> SUFFICES ASSUME InOrder(heads, results), NEW rest, rest = Tail(heads)
                 PROVE  InOrder(rest, results)
      OBVIOUS
    <3>1. \A j \in 1 .. Len(rest) : j + 1 \in 1 .. Len(heads) /\ rest[j] = heads[j + 1]
      BY <1>1, <1>5
    <3> QED
      BY <3>1 DEF InOrder
  <2> QED
    BY <1>1, <1>2, <1>5, <2>1, DistinctRest DEF Ordered
<1>6. CASE /\ heads # <<>> /\ Len(f.oids) < Len(heads)
           /\ next.session.heads = Append(Tail(heads), Activate(Head(heads)))
  <2> DEFINE front == Activate(Head(heads))
  <2>1. Head(heads) = heads[1] /\ heads[1] \in CollectionHead /\ 1 \in 1 .. Len(heads)
    BY <1>1, <1>6
  <2>2. front.root_oid_index = heads[1].root_oid_index
    BY <2>1, ActivateEffect
  <2>3. ~Active(heads[1])
    <3>1. AskedFor(heads, f.oids)
      BY DEF AskedFillings
    <3>2. 1 <= Len(heads) - Len(f.oids)
      BY <1>1, <1>6
    <3> QED
      BY <2>1, <3>1, <3>2 DEF AskedFor
  <2>4. ASSUME InOrder(heads, results)
        PROVE  InOrder(Append(Tail(heads), front), results)
    <3>1. ASSUME NEW i \in 1 .. Len(results) PROVE Behind(results[i], front)
      BY <2>1, <2>3, <2>4, <3>1, ActivateBehind DEF InOrder
    <3> HIDE DEF front
    <3> SUFFICES ASSUME NEW h, h = Append(Tail(heads), front) PROVE InOrder(h, results)
      OBVIOUS
    <3>2. /\ Len(h) = Len(heads) /\ h[Len(h)] = front
          /\ \A j \in 1 .. Len(h) : j # Len(h) => j + 1 \in 1 .. Len(heads) /\ h[j] = heads[j + 1]
      BY <1>1, <1>6
    <3>3. ASSUME NEW i \in 1 .. Len(results), NEW j \in 1 .. Len(h)
          PROVE  Behind(results[i], h[j])
      BY <2>4, <3>1, <3>2 DEF InOrder
    <3> QED
      BY <2>4, <3>3 DEF InOrder
  <2> HIDE DEF front
  <2>5. Distinct(Append(Tail(heads), front))
    BY <1>1, <1>2, <1>6, <2>2, DistinctRotated
  <2> QED
    BY <1>1, <1>2, <1>6, <2>4, <2>5 DEF Ordered, front
<1> QED
  BY <1>3, <1>4, <1>5, <1>6 DEF PassOf

LEMMA FillOrdered ==
  ASSUME NEW s \in SessionObject, Ordered(s), NEW taken \in Seq(BOOLEAN),
         \A i \in 1 .. Len(s.heads) : ~Active(s.heads[i])
  PROVE  Ordered(Fill(s, taken).session)
<1> DEFINE first == [session |-> s, oids |-> <<>>]
           A == { f \in AskedFillings(s) : Ordered(f.session) }
<1>1. first \in A
  <2>1. AskedFor(s.heads, <<>>)
    BY DEF AskedFor, SessionObject
  <2> QED
    BY <2>1 DEF AskedFillings, Fillings, Oid
<1>2. \A f \in A, v \in BOOLEAN : AddVarBind(f, v) \in A
  BY PassOrdered, AddVarBindAsks
<1> HIDE DEF first, A
<1>3. FillProofs!Run(first, taken) \in A
  BY <1>1, <1>2, FillProofs!RunInvariant
<1> QED
  BY <1>3 DEF Fill, first, A, FillProofs!Run, FillLoop!Run

LEMMA EpilogueOrdered ==
  ASSUME NEW s \in SessionObject, Ordered(s)
  PROVE  Ordered(Epilogue(s))
<1> SUFFICES ASSUME NEW t, t = Epilogue(s) PROVE Ordered(t)
  OBVIOUS
<1>1. t.request = s.request /\ t.results = s.results /\ Distinct(t.heads)
  BY EpilogueType, EpilogueKeeps DEF Ordered
<1>2. ASSUME s.request.type = "WALK",
             NEW i \in 1 .. Len(s.results), NEW j \in 1 .. Len(t.heads)
      PROVE  Behind(s.results[i], t.heads[j])
  <2>1. PICK k \in 1 .. Len(s.heads) :
          ~Complete(s.heads[k]) /\ t.heads[j] = Resting(s.heads[k])
    BY EpilogueKeeps
  <2>2. s.heads[k] \in CollectionHead
    BY DEF SessionObject
  <2>3. /\ t.heads[j].root_oid_index = s.heads[k].root_oid_index
        /\ t.heads[j].last_resp_oid = s.heads[k].last_resp_oid
    BY <2>1, <2>2, RestingEffect
  <2>4. Behind(s.results[i], s.heads[k])
    BY <1>2 DEF Ordered, InOrder
  <2> QED
    BY <2>1, <2>3, <2>4 DEF Behind, Complete
<1> QED
  BY <1>1, <1>2 DEF Ordered, InOrder

LEMMA InitOrdered == Init => Ordered(session)
<1> SUFFICES ASSUME Init PROVE Ordered(session)
  OBVIOUS
<1>1. PICK request \in Requests : session = Opened(request) \/ session = OpenFailed(request)
  BY DEF Init
<1>2. request \in Request /\ WellFormed(request)
  BY <1>1, RequestsAssumption
<1>3. request.oids # <<>>
  BY <1>2 DEF WellFormed, RequestThrows
<1>4. session.results = <<>>
  BY <1>1 DEF Opened, OpenFailed, Fail, AppendError, EmptySession
<1>5. Distinct(session.heads)
  <2>1. CASE session = Opened(request)
    <3>1. session.heads = HeadsOf(request)
      BY <2>1 DEF Opened, EmptySession
    <3>2. \A k \in 1 .. Len(session.heads) : session.heads[k].root_oid_index = k - 1
      BY <1>2, <1>3, <3>1, HeadsOfEffect
    <3> QED
      BY <3>2 DEF Distinct
  <2>2. CASE session = OpenFailed(request)
    <3>1. session.heads = <<>>
      BY <2>2 DEF OpenFailed, Fail, AppendError, EmptySession
    <3> QED
      BY <3>1 DEF Distinct
  <2> QED
    BY <1>1, <2>1, <2>2
<1> QED
  BY <1>4, <1>5 DEF Ordered, InOrder, Increasing

LEMMA SendOrdered ==
  ASSUME IInv, HeadsAsked, Ordered(session), Send
  PROVE  Ordered(session')
<1>1. PICK t \in SessionObject :
        /\ t = session \/ \E taken \in Seq(BOOLEAN) : t = Fill(session, taken).session
        /\ session'.heads = t.heads
        /\ session'.results = t.results
  BY SendFills
<1>2. /\ session \in SessionObject /\ session'.request = session.request
      /\ \A i \in 1 .. Len(session.heads) : ~Active(session.heads[i])
  BY SendFills
<1>3. t.request = session.request
  BY <1>1, <1>2, FillType DEF Fillings
<1>4. Ordered(t)
  BY <1>1, <1>2, FillOrdered
<1> QED
  BY <1>1, <1>2, <1>3, <1>4 DEF Ordered

LEMMA ReadOrdered ==
  ASSUME IInv, Ordered(session), Read
  PROVE  Ordered(session')
<1>1. PICK s \in SessionObject, var_binds \in Seq(VarBind), t \in SessionObject :
        /\ s.request = session.request
        /\ s.heads = session.heads
        /\ s.results = session.results
        /\ t = s \/ t = VarBindLoop!Run(s, var_binds)
        /\ session' = Epilogue(t)
  BY ReadProcesses
<1>2. Ordered(s)
  BY <1>1 DEF Ordered
<1>3. Ordered(t)
  BY <1>1, <1>2, VarBindsOrdered
<1> QED
  BY <1>1, <1>3, EpilogueOrdered

LEMMA InvariantOrdered == Spec => []Ordered(session)
<1>1. Init => Ordered(session)
  BY InitOrdered
<1>2. IInv /\ HeadsAsked /\ Ordered(session) /\ [Next]_vars => Ordered(session)'
  BY SendOrdered, ReadOrdered DEF Next, Done, vars
<1> QED
  BY <1>1, <1>2, InvariantIInv, InvariantHeads, PTL DEF Spec

LEMMA OrderedIncreases == IInv /\ Ordered(session) => WalkIncreasing
<1> SUFFICES ASSUME IInv, Ordered(session) PROVE WalkIncreasing
  OBVIOUS
<1>1. DOMAIN session.results = 1 .. Len(session.results)
  BY DEF IInv, TypeOK, SessionObject
<1> QED
  BY <1>1 DEF WalkIncreasing, Ordered, InOrder, Increasing

\* WalkIncreasing: no walk collects an instance twice or out of order for one
\* head, for every request, limit and range, and whatever the peer answers.
THEOREM WalkIncreases == Spec => []WalkIncreasing
BY OrderedIncreases, InvariantIInv, InvariantOrdered, PTL

--------------------------------------------------------------------------------
(* AnswerAdvances *)

\* t has the heads of s, in the same places and asked for the same OIDs; those
\* with an answer have gone beyond the OID they were asked for.
Advanced(s, t) ==
  /\ Len(t.heads) = Len(s.heads)
  /\ \A i \in 1 .. Len(s.heads) :
       /\ t.heads[i].root_oid_index = s.heads[i].root_oid_index
       /\ t.heads[i].req_oid = s.heads[i].req_oid
       /\ Active(t.heads[i]) /\ t.heads[i].last_resp_oid # None =>
            OidLT(t.heads[i].req_oid[1], t.heads[i].last_resp_oid[1])

LEMMA BindingAdvances ==
  ASSUME NEW s, NEW t \in SessionObject, Advanced(s, t), NEW var_bind \in VarBind,
         NEW next, BindingOf(t, var_bind, next)
  PROVE  Advanced(s, next)
<1>1. CASE next.heads = t.heads
  BY <1>1 DEF Advanced
<1>2. CASE next.heads # t.heads
  <2>1. PICK k \in 1 .. Len(t.heads) :
          /\ Accepts(t.heads[k], t.request.type, var_bind.oid)
          /\ ~OidLE(var_bind.oid, Cursor(t.heads[k]))
          /\ next.heads = [t.heads EXCEPT ![k].last_resp_oid = Some(var_bind.oid)]
    BY <1>2 DEF BindingOf
  <2> SUFFICES ASSUME NEW oid, oid = var_bind.oid,
                      NEW heads, heads = t.heads, NEW head, head = t.heads[k],
                      NEW moved, moved = next.heads
               PROVE  Advanced(s, next)
    OBVIOUS
  <2>2. /\ heads \in Seq(CollectionHead) /\ oid \in Oid /\ Active(head)
        /\ head \in CollectionHead
    <3>1. heads \in Seq(CollectionHead) /\ oid \in Oid
      BY DEF SessionObject, VarBind
    <3> QED
      BY <2>1, <3>1 DEF Accepts
  <2>3. /\ head.last_resp_oid # None => head.last_resp_oid[1] \in Oid
        /\ head.req_oid[1] \in Oid
        /\ Cursor(head) = IF head.last_resp_oid = None THEN head.req_oid[1]
                                                       ELSE head.last_resp_oid[1]
    BY <2>2, OptionalType DEF CollectionHead, Active, Cursor, ValueOr
  <2>4. OidLT(Cursor(head), oid)
    BY <2>1, <2>2, <2>3, OidLTTotal DEF OidLE
  <2>5. OidLT(head.req_oid[1], oid)
    <3>1. head.last_resp_oid # None => OidLT(head.req_oid[1], head.last_resp_oid[1])
      BY <2>2 DEF Advanced
    <3> QED
      BY <2>2, <2>3, <2>4, <3>1, OidLTTransitive
  <2>6. /\ Len(moved) = Len(heads)
        /\ \A j \in 1 .. Len(heads) : j # k => moved[j] = heads[j]
        /\ moved[k].root_oid_index = head.root_oid_index
        /\ moved[k].req_oid = head.req_oid
        /\ moved[k].last_resp_oid = Some(oid)
    <3> DEFINE there == [head EXCEPT !.last_resp_oid = Some(oid)]
    <3>1. /\ there.root_oid_index = head.root_oid_index /\ there.req_oid = head.req_oid
          /\ there.last_resp_oid = Some(oid)
      BY <2>2 DEF CollectionHead
    <3>2. moved = [heads EXCEPT ![k] = there]
      BY <2>1
    <3> HIDE DEF there
    <3> QED
      BY <2>2, <3>1, <3>2
  <2>7. /\ Len(heads) = Len(s.heads)
        /\ \A i \in 1 .. Len(s.heads) :
             /\ heads[i].root_oid_index = s.heads[i].root_oid_index
             /\ heads[i].req_oid = s.heads[i].req_oid
             /\ Active(heads[i]) /\ heads[i].last_resp_oid # None =>
                  OidLT(heads[i].req_oid[1], heads[i].last_resp_oid[1])
    BY DEF Advanced
  <2>8. OidLT(moved[k].req_oid[1], moved[k].last_resp_oid[1])
    <3>1. Some(oid)[1] = oid
      BY DEF Some
    <3> QED
      BY <2>5, <2>6, <3>1
  <2>9. ASSUME NEW i \in 1 .. Len(s.heads)
        PROVE  /\ moved[i].root_oid_index = s.heads[i].root_oid_index
               /\ moved[i].req_oid = s.heads[i].req_oid
               /\ Active(moved[i]) /\ moved[i].last_resp_oid # None =>
                    OidLT(moved[i].req_oid[1], moved[i].last_resp_oid[1])
    <3>1. CASE i = k
      BY <2>6, <2>7, <2>8, <3>1
    <3>2. CASE i # k
      BY <2>6, <2>7, <3>2
    <3> QED
      BY <3>1, <3>2
  <2> QED
    BY <2>6, <2>7, <2>9 DEF Advanced
<1> QED
  BY <1>1, <1>2

LEMMA VarBindsAdvance ==
  ASSUME NEW s, NEW t \in SessionObject, Advanced(s, t), NEW var_binds \in Seq(VarBind)
  PROVE  Advanced(s, VarBindLoop!Run(t, var_binds))
<1> DEFINE A == { u \in Processings(t) : Advanced(s, u) }
<1>1. t \in A
  BY DEF Processings
<1>2. ASSUME NEW u \in A, NEW var_bind \in VarBind
      PROVE  ProcessVarBind(u, var_bind) \in A
  <2>1. u \in SessionObject /\ u.status = t.status /\ u.request = t.request /\ Advanced(s, u)
    BY DEF Processings
  <2>2. ProcessVarBind(u, var_bind) \in Processings(u)
    BY <2>1, GetVarBindType, WalkVarBindType DEF ProcessVarBind
  <2>3. Advanced(s, ProcessVarBind(u, var_bind))
    BY <2>1, ProcessVarBindIs, BindingAdvances
  <2> QED
    BY <2>1, <2>2, <2>3 DEF Processings
<1> HIDE DEF A
<1>3. VarBindProofs!Run(t, var_binds) \in A
  BY <1>1, <1>2, VarBindProofs!RunInvariant
<1> QED
  BY <1>3 DEF A, VarBindProofs!Run, VarBindLoop!Run

\* A head that was asked for and is kept has an answer beyond what it asked for.
LEMMA ReadAdvances ==
  ASSUME IInv, HeadsAsked, Ordered(session), Read,
         NEW i \in 1 .. Len(session.heads), NEW j \in 1 .. Len(session'.heads),
         session.heads[i].root_oid_index = session'.heads[j].root_oid_index,
         Active(session.heads[i])
  PROVE  OidLT(session.heads[i].req_oid[1], ValueOr(session'.heads[j].last_resp_oid, <<>>))
<1>1. PICK s \in SessionObject, var_binds \in Seq(VarBind), t \in SessionObject :
        /\ s.request = session.request
        /\ s.heads = session.heads
        /\ s.results = session.results
        /\ t = s \/ t = VarBindLoop!Run(s, var_binds)
        /\ session' = Epilogue(t)
  BY ReadProcesses
<1>2. Advanced(session, s)
  <2>1. AskedFor(session.heads, Pending)
    BY ReadProcesses DEF HeadsAsked
  <2>2. \A k \in 1 .. Len(session.heads) :
          Active(session.heads[k]) => session.heads[k].last_resp_oid = None
    BY <2>1 DEF AskedFor, Complete
  <2> QED
    BY <1>1, <2>2 DEF Advanced
<1>3. Advanced(session, t)
  BY <1>1, <1>2, VarBindsAdvance
<1>4. PICK k \in 1 .. Len(t.heads) :
        ~Complete(t.heads[k]) /\ session'.heads[j] = Resting(t.heads[k])
  <2>1. \A l \in 1 .. Len(Epilogue(t).heads) : \E k \in 1 .. Len(t.heads) :
          ~Complete(t.heads[k]) /\ Epilogue(t).heads[l] = Resting(t.heads[k])
    BY EpilogueKeeps
  <2> QED
    BY <1>1, <2>1
<1>5. t.heads[k] \in CollectionHead
  BY DEF SessionObject
<1>6. /\ session'.heads[j].root_oid_index = t.heads[k].root_oid_index
      /\ session'.heads[j].last_resp_oid = t.heads[k].last_resp_oid
  BY <1>4, <1>5, RestingEffect
<1>7. k = i
  BY <1>3, <1>6 DEF Advanced, Ordered, Distinct
<1>8. Active(t.heads[i]) /\ t.heads[i].req_oid = session.heads[i].req_oid
  BY <1>3 DEF Advanced, Active
<1>9. t.heads[i].last_resp_oid # None
  BY <1>4, <1>7, <1>8 DEF Complete
<1>10. OidLT(session.heads[i].req_oid[1], t.heads[i].last_resp_oid[1])
  BY <1>3, <1>8, <1>9 DEF Advanced
<1> QED
  BY <1>6, <1>7, <1>9, <1>10 DEF ValueOr

\* AnswerAdvances: the measure by which a walk ends, whatever the peer answers.
THEOREM AnswersAdvance == Spec => AnswerAdvances
<1> DEFINE Advances ==
      session.status = "WAIT" =>
        \A i \in DOMAIN session.heads, j \in DOMAIN session'.heads :
          /\ session.heads[i].root_oid_index = session'.heads[j].root_oid_index
          /\ Active(session.heads[i])
          => OidLT(session.heads[i].req_oid[1],
                   ValueOr(session'.heads[j].last_resp_oid, <<>>))
<1>1. ASSUME IInv, IInv', HeadsAsked, Ordered(session), Read PROVE Advances
  <2>1. /\ DOMAIN session.heads = 1 .. Len(session.heads)
        /\ DOMAIN session'.heads = 1 .. Len(session'.heads)
    BY <1>1 DEF IInv, TypeOK, SessionObject
  <2> QED
    BY <1>1, <2>1, ReadAdvances
<1>2. ASSUME Send PROVE Advances
  BY <1>2 DEF Send, SendNoPdu, Idle
<1>3. IInv /\ IInv' /\ HeadsAsked /\ Ordered(session) /\ [Next]_vars => [Advances]_session
  BY <1>1, <1>2 DEF Next, Done, vars
<1> QED
  BY <1>3, InvariantIInv, InvariantHeads, InvariantOrdered, PTL DEF Spec, AnswerAdvances

--------------------------------------------------------------------------------
(* NoHeadLostSilently *)

\* The OID send asks for next with a head at rest.
AskedWith(head) == ValueOr(head.last_resp_oid, head.root_oid)

Refusal(head) == GivenUp(Some(AskedWith(head)))

\* A head of s is there, as it was or asked for, or an error names it.
Followed(s, heads, errors) ==
  \A i \in 1 .. Len(s.heads) :
    \/ \E j \in 1 .. Len(heads) :
         /\ heads[j].root_oid_index = s.heads[i].root_oid_index
         /\ heads[j] = s.heads[i] \/ Active(heads[j])
    \/ \E k \in 1 .. Len(errors) : k > Len(s.errors) /\ errors[k] = Refusal(s.heads[i])

\* The head a pass takes to the back, asked for now, is still there,
LEMMA FollowedBack ==
  ASSUME NEW s, NEW heads \in Seq(CollectionHead), heads # <<>>, NEW errors,
         Followed(s, heads, errors),
         NEW front, Active(front), front.root_oid_index = heads[1].root_oid_index
  PROVE  Followed(s, Append(Tail(heads), front), errors)
<1> SUFFICES ASSUME NEW h, h = Append(Tail(heads), front), NEW m, m = Len(heads),
                    NEW i \in 1 .. Len(s.heads),
                    NEW j \in 1 .. m,
                    heads[j].root_oid_index = s.heads[i].root_oid_index,
                    heads[j] = s.heads[i] \/ Active(heads[j])
             PROVE  \E l \in 1 .. Len(h) :
                      /\ h[l].root_oid_index = s.heads[i].root_oid_index
                      /\ h[l] = s.heads[i] \/ Active(h[l])
  BY DEF Followed
<1>1. /\ m \in Nat \ {0} /\ Len(h) = m
      /\ h[m] = front /\ \A l \in 1 .. m - 1 : h[l] = heads[l + 1]
  BY EmptySeq
<1>2. CASE j = 1
  BY <1>1, <1>2
<1>3. CASE j # 1
  <2>1. j - 1 \in 1 .. m - 1 /\ j - 1 \in 1 .. m /\ (j - 1) + 1 = j
    BY <1>1, <1>3
  <2>2. h[j - 1] = heads[j]
    BY <1>1, <2>1
  <2> QED
    BY <1>1, <2>1, <2>2
<1> QED
  BY <1>2, <1>3

\* and the one it drops is named by the error it adds.
LEMMA FollowedDropped ==
  ASSUME NEW s \in SessionObject, NEW heads \in Seq(CollectionHead), heads # <<>>,
         ~Active(heads[1]), NEW errors \in Seq(Error), Len(s.errors) <= Len(errors),
         Followed(s, heads, errors)
  PROVE  Followed(s, Tail(heads), Append(errors, GivenUp(Activate(heads[1]).req_oid)))
<1> SUFFICES ASSUME NEW h, h = Tail(heads), NEW m, m = Len(heads),
                    NEW error, error = GivenUp(Activate(heads[1]).req_oid),
                    NEW e, e = Append(errors, error)
             PROVE  Followed(s, h, e)
  OBVIOUS
<1> SUFFICES ASSUME NEW i \in 1 .. Len(s.heads)
             PROVE  \/ \E l \in 1 .. Len(h) :
                         /\ h[l].root_oid_index = s.heads[i].root_oid_index
                         /\ h[l] = s.heads[i] \/ Active(h[l])
                    \/ \E k \in 1 .. Len(e) :
                         k > Len(s.errors) /\ e[k] = Refusal(s.heads[i])
  BY DEF Followed
<1>1. /\ m \in Nat \ {0} /\ Len(h) = m - 1 /\ heads[1] \in CollectionHead
      /\ \A l \in 1 .. m - 1 : h[l] = heads[l + 1]
  BY EmptySeq
<1>2. /\ Len(errors) \in Nat /\ Len(s.errors) \in Nat /\ Len(e) = Len(errors) + 1
      /\ e[Len(errors) + 1] = error
      /\ \A k \in 1 .. Len(errors) : e[k] = errors[k]
  BY DEF SessionObject
<1>3. error = Refusal(heads[1])
  BY <1>1, ActivateEffect DEF Refusal, AskedWith
<1>4. ASSUME NEW k \in 1 .. Len(errors), k > Len(s.errors),
             errors[k] = Refusal(s.heads[i])
      PROVE  \E l \in 1 .. Len(e) : l > Len(s.errors) /\ e[l] = Refusal(s.heads[i])
  BY <1>2, <1>4
<1>5. ASSUME NEW j \in 1 .. m, heads[j].root_oid_index = s.heads[i].root_oid_index,
             heads[j] = s.heads[i] \/ Active(heads[j]), j # 1
      PROVE  \E l \in 1 .. Len(h) :
               /\ h[l].root_oid_index = s.heads[i].root_oid_index
               /\ h[l] = s.heads[i] \/ Active(h[l])
  <2>1. j - 1 \in 1 .. m - 1 /\ (j - 1) + 1 = j
    BY <1>1, <1>5
  <2>2. h[j - 1] = heads[j]
    BY <1>1, <2>1
  <2> QED
    BY <1>1, <1>5, <2>1, <2>2
<1>6. ASSUME heads[1] = s.heads[i]
      PROVE  \E k \in 1 .. Len(e) : k > Len(s.errors) /\ e[k] = Refusal(s.heads[i])
  <2>1. Len(errors) + 1 \in 1 .. Len(e) /\ Len(errors) + 1 > Len(s.errors)
    BY <1>2
  <2> QED
    BY <1>2, <1>3, <1>6, <2>1
<1>7. \/ \E j \in 1 .. m :
           /\ heads[j].root_oid_index = s.heads[i].root_oid_index
           /\ heads[j] = s.heads[i] \/ Active(heads[j])
      \/ \E k \in 1 .. Len(errors) :
           k > Len(s.errors) /\ errors[k] = Refusal(s.heads[i])
  BY DEF Followed
<1>8. CASE \E j \in 1 .. m :
             /\ heads[j].root_oid_index = s.heads[i].root_oid_index
             /\ heads[j] = s.heads[i] \/ Active(heads[j])
  <2>1. PICK j \in 1 .. m :
          /\ heads[j].root_oid_index = s.heads[i].root_oid_index
          /\ heads[j] = s.heads[i] \/ Active(heads[j])
    BY <1>8
  <2>2. CASE j = 1
    <3>1. heads[1] = s.heads[i]
      BY <2>1, <2>2
    <3> QED
      BY <1>6, <3>1
  <2>3. CASE j # 1
    BY <1>5, <2>1, <2>3
  <2> QED
    BY <2>2, <2>3
<1>9. CASE \E k \in 1 .. Len(errors) :
             k > Len(s.errors) /\ errors[k] = Refusal(s.heads[i])
  BY <1>4, <1>9
<1> QED
  BY <1>7, <1>8, <1>9

FollowedFillings(s) ==
  { f \in ReportFillings(s) :
      f \in AskedFillings(s) /\ Followed(s, f.session.heads, f.session.errors) }

LEMMA PassFollowed ==
  ASSUME NEW s \in SessionObject, NEW f \in FollowedFillings(s), NEW taken \in BOOLEAN
  PROVE  AddVarBind(f, taken) \in FollowedFillings(s)
<1> SUFFICES ASSUME NEW heads, heads = f.session.heads,
                    NEW errors, errors = f.session.errors,
                    NEW next, next = AddVarBind(f, taken)
             PROVE  next \in FollowedFillings(s)
  OBVIOUS
<1>1. /\ f \in ReportFillings(s) /\ f \in AskedFillings(s) /\ f \in Fillings(s)
      /\ Followed(s, heads, errors) /\ AskedFor(heads, f.oids)
      /\ Len(s.errors) <= Len(errors)
  BY DEF FollowedFillings, AskedFillings, ReportFillings, Extends
<1>2. next \in ReportFillings(s) /\ next \in AskedFillings(s)
  BY <1>1, AddVarBindReports, AddVarBindAsks
<1>3. /\ heads \in Seq(CollectionHead) /\ errors \in Seq(Error) /\ f.oids \in Seq(Oid)
  BY <1>1 DEF Fillings, SessionObject
<1>4. ASSUME heads # <<>>, Len(f.oids) < Len(heads)
      PROVE  Head(heads) = heads[1] /\ heads[1] \in CollectionHead /\ ~Active(heads[1])
  <2>1. 1 <= Len(heads) - Len(f.oids) /\ 1 \in 1 .. Len(heads)
    BY <1>3, <1>4
  <2>2. Head(heads) = heads[1] /\ heads[1] \in CollectionHead
    BY <1>3, <1>4, <2>1
  <2>3. ~Active(heads[1])
    BY <1>1, <2>1 DEF AskedFor
  <2> QED
    BY <2>2, <2>3
<1>5. PassOf(f, next)
  BY <1>1, AddVarBindHeads
<1>6. CASE next = f
  BY <1>6
<1>7. ASSUME heads # <<>>, Len(f.oids) < Len(heads),
             next.session.heads = Append(Tail(heads), Activate(Head(heads))),
             next.session.errors = errors
      PROVE  Followed(s, next.session.heads, next.session.errors)
  <2>1. /\ Active(Activate(heads[1]))
        /\ Activate(heads[1]).root_oid_index = heads[1].root_oid_index
    BY <1>4, <1>7, ActivateEffect
  <2>2. Followed(s, Append(Tail(heads), Activate(heads[1])), errors)
    BY <1>1, <1>3, <1>7, <2>1, FollowedBack
  <2> QED
    BY <1>4, <1>7, <2>2
<1>8. ASSUME heads # <<>>, Len(f.oids) < Len(heads),
             next.session.heads = Tail(heads),
             next.session.errors = Append(errors, GivenUp(Activate(Head(heads)).req_oid))
      PROVE  Followed(s, next.session.heads, next.session.errors)
  <2>1. Followed(s, Tail(heads), Append(errors, GivenUp(Activate(heads[1]).req_oid)))
    BY <1>1, <1>3, <1>4, <1>8, FollowedDropped
  <2> QED
    BY <1>4, <1>8, <2>1
<1>9. Followed(s, next.session.heads, next.session.errors)
  BY <1>1, <1>5, <1>6, <1>7, <1>8 DEF PassOf
<1> QED
  BY <1>2, <1>9 DEF FollowedFillings

LEMMA FillFollowed ==
  ASSUME NEW s \in SessionObject, NEW taken \in Seq(BOOLEAN),
         \A i \in 1 .. Len(s.heads) : ~Active(s.heads[i])
  PROVE  Fill(s, taken) \in FollowedFillings(s)
<1> DEFINE first == [session |-> s, oids |-> <<>>]
<1>1. first \in Fillings(s)
  BY DEF Fillings, Oid
<1>2. /\ MaxVarBinds(s) \in Nat /\ s.errors \in Seq(Error)
      /\ AskedFor(s.heads, <<>>)
  <2>1. AskedFor(s.heads, <<>>)
    BY DEF SessionObject, AskedFor
  <2> QED
    BY <2>1, MaxVarBindsType DEF SessionObject
<1>3. first.session = s /\ first.oids = <<>> /\ Len(first.oids) = 0
      /\ Extends(s.errors, s.errors)
  BY <1>2, ExtendsItself
<1> HIDE DEF first
<1>4. first \in FollowedFillings(s)
  <2>1. first \in ReportFillings(s)
    BY <1>1, <1>2, <1>3 DEF ReportFillings
  <2>2. first \in AskedFillings(s)
    BY <1>1, <1>2, <1>3 DEF AskedFillings
  <2>3. Followed(s, s.heads, s.errors)
    BY DEF Followed
  <2> QED
    BY <1>3, <2>1, <2>2, <2>3 DEF FollowedFillings
<1>5. \A f \in FollowedFillings(s), v \in BOOLEAN : AddVarBind(f, v) \in FollowedFillings(s)
  BY PassFollowed
<1>6. FillProofs!Run(first, taken) \in FollowedFillings(s)
  BY <1>4, <1>5, FillProofs!RunInvariant
<1> QED
  BY <1>6 DEF Fill, first, FillProofs!Run, FillLoop!Run

\* Every result beyond the first n of a walk belongs to no head, or to one that has
\* had an answer.
Credited(t, n) ==
  t.request.type = "WALK" =>
    \A k \in 1 .. Len(t.results), i \in 1 .. Len(t.heads) :
      k > n /\ t.results[k].root_oid_index = t.heads[i].root_oid_index
        => t.heads[i].last_resp_oid # None

\* A binding is credited to the head that moves on to it, and to no other.
LEMMA BindingCredited ==
  ASSUME NEW t \in SessionObject, NEW n \in Nat, Distinct(t.heads), Credited(t, n),
         NEW var_bind \in VarBind, NEW next, next.request = t.request,
         BindingOf(t, var_bind, next)
  PROVE  Credited(next, n)
<1>1. CASE next.heads = t.heads /\ next.results = t.results
  BY <1>1 DEF Credited
<1>2. CASE t.request.type = "GET"
  BY <1>2 DEF Credited
<1>3. ASSUME ~(next.heads = t.heads /\ next.results = t.results),
             t.request.type # "GET"
      PROVE  Credited(next, n)
  <2>1. PICK k \in 1 .. Len(t.heads) :
          /\ next.results = Append(t.results, ResultOf(t.heads[k], var_bind))
          /\ next.heads = [t.heads EXCEPT ![k].last_resp_oid = Some(var_bind.oid)]
    BY <1>3 DEF BindingOf
  <2> SUFFICES ASSUME NEW heads, heads = t.heads, NEW moved, moved = next.heads,
                      NEW results, results = t.results, NEW more, more = next.results,
                      NEW r \in 1 .. Len(more), NEW i \in 1 .. Len(moved), r > n,
                      more[r].root_oid_index = moved[i].root_oid_index,
                      t.request.type = "WALK"
               PROVE  moved[i].last_resp_oid # None
    BY DEF Credited
  <2> DEFINE result == ResultOf(heads[k], var_bind)
             there  == [heads[k] EXCEPT !.last_resp_oid = Some(var_bind.oid)]
  <2>2. /\ heads \in Seq(CollectionHead) /\ results \in Seq(Result)
        /\ heads[k] \in CollectionHead
    BY DEF SessionObject
  <2>3. /\ there.root_oid_index = heads[k].root_oid_index
        /\ there.last_resp_oid = Some(var_bind.oid)
        /\ result.root_oid_index = heads[k].root_oid_index
    BY <2>2 DEF CollectionHead, ResultOf
  <2>4. moved = [heads EXCEPT ![k] = there] /\ more = Append(results, result)
    BY <2>1
  <2> HIDE DEF there, result
  <2>5. /\ Len(moved) = Len(heads) /\ moved[k] = there
        /\ \A j \in 1 .. Len(heads) : j # k => moved[j] = heads[j]
        /\ Len(results) \in Nat /\ Len(more) = Len(results) + 1
        /\ more[Len(results) + 1] = result
        /\ \A j \in 1 .. Len(results) : more[j] = results[j]
    BY <2>2, <2>4
  <2>6. CASE i = k
    <3>1. Some(var_bind.oid) # None
      BY DEF Some, None
    <3> QED
      BY <2>3, <2>5, <2>6, <3>1
  <2>7. CASE i # k
    <3>1. i \in 1 .. Len(heads) /\ moved[i] = heads[i]
      BY <2>5, <2>7
    <3>2. heads[i].root_oid_index # heads[k].root_oid_index
      BY <2>7, <3>1 DEF Distinct
    <3>3. r \in 1 .. Len(results) /\ more[r] = results[r]
      BY <2>3, <2>5, <3>1, <3>2
    <3> QED
      BY <3>1, <3>3 DEF Credited
  <2> QED
    BY <2>6, <2>7
<1> QED
  BY <1>1, <1>2, <1>3

LEMMA VarBindsCredited ==
  ASSUME NEW s \in SessionObject, Ordered(s), Credited(s, Len(s.results)),
         NEW var_binds \in Seq(VarBind)
  PROVE  Credited(VarBindLoop!Run(s, var_binds), Len(s.results))
<1> DEFINE n == Len(s.results)
           A == { u \in Processings(s) : Ordered(u) /\ Credited(u, n) }
<1>1. s \in A /\ n \in Nat
  BY DEF Processings, SessionObject
<1>2. ASSUME NEW u \in A, NEW var_bind \in VarBind
      PROVE  ProcessVarBind(u, var_bind) \in A
  <2> DEFINE next == ProcessVarBind(u, var_bind)
  <2>1. /\ u \in SessionObject /\ u.status = s.status /\ u.request = s.request
        /\ Ordered(u) /\ Distinct(u.heads) /\ Credited(u, n)
    BY DEF Processings, Ordered
  <2>2. next \in Processings(u)
    BY <2>1, GetVarBindType, WalkVarBindType DEF ProcessVarBind
  <2>3. BindingOf(u, var_bind, next)
    BY <2>1, ProcessVarBindIs
  <2> HIDE DEF next, n
  <2>4. Ordered(next)
    BY <2>1, <2>2, <2>3, BindingOrdered DEF Processings
  <2>5. Credited(next, n)
    BY <1>1, <2>1, <2>2, <2>3, BindingCredited DEF Processings
  <2> QED
    BY <2>1, <2>2, <2>4, <2>5 DEF Processings, next, n
<1> HIDE DEF A, n
<1>3. VarBindProofs!Run(s, var_binds) \in A
  BY <1>1, <1>2, VarBindProofs!RunInvariant
<1> QED
  BY <1>3 DEF A, n, VarBindProofs!Run, VarBindLoop!Run

\* A failure is the last error and closes the session, before the epilogue or not.
LEMMA FailSays ==
  ASSUME NEW s \in SessionObject, NEW type \in ErrorTypes, NEW oid \in Optional(Oid),
         Fatal([type |-> type, oid |-> oid]),
         NEW t, t = Fail(s, type, oid) \/ t = Epilogue(Fail(s, type, oid))
  PROVE  /\ t.status = "CLOSED"
         /\ Len(t.errors) = Len(s.errors) + 1
         /\ Fatal(Last(t.errors))
<1> DEFINE error == [type |-> type, oid |-> oid]
<1>1. Fatal(error)
  OBVIOUS
<1>2. Fail(s, type, oid) \in SessionObject /\ Fail(s, type, oid).status = "CLOSED"
  BY FailType
<1>3. Fail(s, type, oid).errors = Append(s.errors, error)
  BY ErrorEffect
<1>4. s.errors \in Seq(Error)
  BY DEF SessionObject
<1> HIDE DEF error
<1>5. t.status = "CLOSED" /\ t.errors = Append(s.errors, error)
  BY <1>2, <1>3, EpilogueType
<1>6. /\ Len(Append(s.errors, error)) = Len(s.errors) + 1
      /\ Append(s.errors, error)[Len(s.errors) + 1] = error
  BY <1>4
<1> QED
  BY <1>1, <1>5, <1>6 DEF Last

LEMMA SendLosesNone ==
  ASSUME IInv, HeadsAsked, Send
  PROVE  SaysWhy \/ \A i \in 1 .. Len(session.heads) :
                      Lost(session.heads[i]) =>
                        ~Active(session.heads[i]) /\ Refused(session.heads[i])
<1>1. session \in SessionObject /\ session.status = "IDLE" /\ Idle
  BY DEF Send, SendNoPdu, Idle, IInv, TypeOK
<1>2. \A i \in 1 .. Len(session.heads) : ~Active(session.heads[i])
  BY <1>1 DEF HeadsAsked
<1>3. /\ Fatal([type |-> "CREATE_REQUEST_PDU_ERROR", oid |-> None])
      /\ Fatal([type |-> "SEND_ERROR", oid |-> None])
  BY DEF Fatal, FatalErrors
<1>4. Len(session.errors) \in Nat
  BY <1>1 DEF SessionObject
<1>5. CASE SendNoPdu
  <2>1. /\ session'.status = "CLOSED" /\ Fatal(Last(session'.errors))
        /\ Len(session'.errors) = Len(session.errors) + 1
    BY <1>1, <1>3, <1>5, SendErrors, FailSays DEF SendNoPdu
  <2> QED
    BY <1>4, <2>1 DEF SaysWhy
<1>6. ASSUME NEW taken \in Takings, NEW filled, filled = Fill(session, taken),
             SendDivides(filled) \/ SendRefused(filled) \/ SendTaken(filled)
      PROVE  SaysWhy \/ \A i \in 1 .. Len(session.heads) :
                          Lost(session.heads[i]) =>
                            ~Active(session.heads[i]) /\ Refused(session.heads[i])
  <2> DEFINE t == filled.session
  <2>1. /\ t \in SessionObject /\ t.status = "IDLE"
        /\ Len(session.errors) <= Len(t.errors)
    BY <1>1, <1>6, FilledReports DEF Extends
  <2>2. Followed(session, t.heads, t.errors)
    <3>1. taken \in Seq(BOOLEAN)
      <4>1. taken \in [1 .. Len(session.heads) -> BOOLEAN] /\ Len(session.heads) \in Nat
        BY <1>1 DEF Takings, SessionObject
      <4> QED
        BY <4>1
    <3>2. filled \in FollowedFillings(session)
      BY <1>1, <1>2, <1>6, <3>1, FillFollowed
    <3> QED
      BY <3>2 DEF FollowedFillings
  <2>3. \/ session' = t
        \/ session' = [t EXCEPT !.status = "WAIT"]
        \/ session' = Fail(t, "SEND_ERROR", None)
    BY <1>6 DEF SendDivides, SendRefused, SendTaken
  <2> HIDE DEF t
  <2>4. CASE session' = Fail(t, "SEND_ERROR", None)
    <3>1. /\ session'.status = "CLOSED" /\ Fatal(Last(session'.errors))
          /\ Len(session'.errors) = Len(t.errors) + 1
      BY <1>3, <2>1, <2>4, SendErrors, FailSays
    <3>2. Len(t.errors) \in Nat
      BY <2>1 DEF SessionObject
    <3> QED
      BY <1>4, <2>1, <3>1, <3>2 DEF SaysWhy
  <2>5. ASSUME session' = t \/ session' = [t EXCEPT !.status = "WAIT"],
               NEW i \in 1 .. Len(session.heads), Lost(session.heads[i])
        PROVE  Refused(session.heads[i])
    <3>1. /\ session'.heads = t.heads /\ session'.errors = t.errors
          /\ session'.status # "CLOSED"
          /\ DOMAIN t.heads = 1 .. Len(t.heads) /\ DOMAIN t.errors = 1 .. Len(t.errors)
      BY <2>1, <2>5 DEF SessionObject
    <3>2. \A j \in 1 .. Len(t.heads) :
            t.heads[j].root_oid_index # session.heads[i].root_oid_index
      BY <2>5, <3>1 DEF Lost
    <3>3. \E k \in 1 .. Len(t.errors) :
            k > Len(session.errors) /\ t.errors[k] = Refusal(session.heads[i])
      BY <2>2, <3>2 DEF Followed
    <3> QED
      BY <3>1, <3>3 DEF Refused, Refusal, AskedWith, GivenUp
  <2> QED
    BY <1>2, <2>3, <2>4, <2>5
<1> QED
  BY <1>5, <1>6 DEF Send

\* A callback that is not told of a resend closes the session and says why, or
\* takes the bindings of an answer.
LEMMA ReadEnds ==
  ASSUME IInv, Read, resends' <= resends
  PROVE  \/ SaysWhy
         \/ /\ in_flight' = None
            /\ \E var_binds \in Seq(VarBind), s \in SessionObject :
                 /\ s = [session EXCEPT !.status = "IDLE"]
                 /\ session' = Epilogue(VarBindLoop!Run(s, var_binds))
<1>1. session \in SessionObject /\ Len(session.errors) \in Nat /\ resends \in Nat
  BY DEF IInv, TypeOK, SessionObject
<1>2. ASSUME NEW type \in ErrorTypes, NEW oid \in Optional(Oid),
             Fatal([type |-> type, oid |-> oid]),
             session' = Epilogue(Fail(session, type, oid))
      PROVE  SaysWhy
  <2>1. /\ session'.status = "CLOSED" /\ Fatal(Last(session'.errors))
        /\ Len(session'.errors) = Len(session.errors) + 1
    BY <1>1, <1>2, FailSays
  <2> QED
    BY <1>1, <2>1 DEF SaysWhy
<1>3. /\ None \in Optional(Oid)
      /\ \A type \in FatalErrors : type \in ErrorTypes /\ Fatal([type |-> type, oid |-> None])
  BY OptionalType DEF ErrorTypes, Fatal
<1>4. CASE Receive
  <2>1. PICK reply \in ReplyPdu : session' = ProcessReceived(session, Some(reply))
    BY <1>4 DEF Receive
  <2>2. /\ Some(reply)[1] = reply /\ Some(reply) # None /\ reply.var_binds \in Seq(VarBind)
    BY <2>1 DEF Some, None, ReplyPdu
  <2>3. CASE reply.command # "RESPONSE"
    <3>1. Received(session, Some(reply)) = Fail(session, "BAD_RESPONSE_PDU_ERROR", None)
      BY <2>2, <2>3 DEF Received
    <3>2. "BAD_RESPONSE_PDU_ERROR" \in FatalErrors
      BY DEF FatalErrors
    <3> QED
      BY <1>2, <1>3, <2>1, <3>1, <3>2 DEF ProcessReceived
  <2>4. CASE reply.command = "RESPONSE" /\ reply.errstat # 0
    <3>1. Received(session, Some(reply))
            = Fail(session, "BAD_RESPONSE_PDU_ERROR", ErrorOid(reply))
      BY <2>2, <2>4 DEF Received
    <3>2. /\ "BAD_RESPONSE_PDU_ERROR" \in ErrorTypes /\ ErrorOid(reply) \in Optional(Oid)
          /\ \A oid : Fatal([type |-> "BAD_RESPONSE_PDU_ERROR", oid |-> oid])
      BY ErrorOidType DEF ErrorTypes, FatalErrors, Fatal
    <3> QED
      BY <1>2, <2>1, <3>1, <3>2 DEF ProcessReceived
  <2>5. CASE reply.command = "RESPONSE" /\ reply.errstat = 0
    <3> DEFINE s == [session EXCEPT !.status = "IDLE"]
    <3>1. Received(session, Some(reply)) = VarBindLoop!Run(s, reply.var_binds)
      BY <2>2, <2>5 DEF Received
    <3>2. s \in SessionObject
      BY <1>1 DEF SessionObject, Status
    <3>3. in_flight' = None
      BY <1>4 DEF Receive
    <3> QED
      BY <2>1, <2>2, <3>1, <3>2, <3>3 DEF ProcessReceived
  <2> QED
    BY <2>3, <2>4, <2>5
<1>5. CASE ReceiveNull
  <2>1. Received(session, None) = Fail(session, "CREATE_RESPONSE_PDU_ERROR", None)
    BY DEF Received
  <2>2. "CREATE_RESPONSE_PDU_ERROR" \in FatalErrors
    BY DEF FatalErrors
  <2> QED
    BY <1>2, <1>3, <1>5, <2>1, <2>2 DEF ReceiveNull, ProcessReceived
<1>6. CASE Resend
  BY <1>1, <1>6 DEF Resend
<1>7. CASE TimedOut \/ SendFailed \/ Disconnect
  <2>1. {"TIMEOUT_ERROR", "ASYNC_PROBE_ERROR", "TRANSPORT_DISCONNECT_ERROR"} \subseteq FatalErrors
    BY DEF FatalErrors
  <2> QED
    BY <1>2, <1>3, <1>7, <2>1 DEF TimedOut, SendFailed, Disconnect, ProcessTimedOut,
                                  ProcessSendFailed, ProcessDisconnect
<1> QED
  BY <1>4, <1>5, <1>6, <1>7 DEF Read

LEMMA ReadLosesNone ==
  ASSUME IInv, HeadsAsked, Ordered(session), Read, resends' <= resends
  PROVE  SaysWhy \/ \A i \in 1 .. Len(session.heads) :
                      Lost(session.heads[i]) =>
                        Active(session.heads[i]) /\ Answered(session.heads[i])
<1>1. /\ session \in SessionObject /\ session.status = "WAIT" /\ in_flight # None
      /\ in_flight[1] \in RequestPdu
  <2>1. session \in SessionObject /\ session.status = "WAIT" /\ in_flight # None
    BY DEF Read, Receive, ReceiveNull, Resend, TimedOut, SendFailed, Disconnect, Waiting,
           IInv, TypeOK
  <2> QED
    BY <2>1, OptionalType DEF IInv, TypeOK
<1>2. AskedFor(session.heads, Pending)
  BY <1>1 DEF HeadsAsked
<1> SUFFICES ASSUME NEW var_binds \in Seq(VarBind), NEW s \in SessionObject,
                    s = [session EXCEPT !.status = "IDLE"],
                    NEW t, t = VarBindLoop!Run(s, var_binds),
                    session' = Epilogue(t), in_flight' = None,
                    NEW i \in 1 .. Len(session.heads), Lost(session.heads[i]),
                    NEW head, head = session.heads[i]
             PROVE  Active(head) /\ Answered(head)
  BY ReadEnds
<1>3. /\ s.request = session.request /\ s.heads = session.heads
      /\ s.results = session.results /\ s.status = "IDLE"
      /\ Len(session.heads) \in Nat /\ head \in CollectionHead
  BY <1>1 DEF SessionObject
<1>4. t \in Processings(s)
  BY VarBindsType
<1>5. t \in SessionObject /\ t.request = session.request /\ t.status = "IDLE"
  BY <1>3, <1>4 DEF Processings
<1>6. Advanced(session, t)
  <2>1. \A k \in 1 .. Len(session.heads) :
          Active(session.heads[k]) => session.heads[k].last_resp_oid = None
    BY <1>2 DEF AskedFor, Complete
  <2>2. Advanced(session, s)
    BY <1>3, <2>1 DEF Advanced
  <2> QED
    BY <2>2, VarBindsAdvance
<1>7. /\ i \in 1 .. Len(t.heads)
      /\ t.heads[i].root_oid_index = head.root_oid_index
      /\ t.heads[i].req_oid = head.req_oid
  BY <1>6 DEF Advanced
<1>8. Complete(t.heads[i])
  <2>1. SUFFICES ASSUME ~Complete(t.heads[i]) PROVE FALSE
    OBVIOUS
  <2>2. PICK j \in 1 .. Len(session'.heads) : session'.heads[j] = Resting(t.heads[i])
    BY <1>5, <1>7, <2>1, EpilogueKeepsAll
  <2>3. t.heads[i] \in CollectionHead
    BY <1>5, <1>7 DEF SessionObject
  <2>4. session'.heads[j].root_oid_index = head.root_oid_index
    BY <1>7, <2>2, <2>3, RestingEffect
  <2>5. session'.heads \in Seq(CollectionHead)
    BY <1>5, EpilogueType DEF SessionObject
  <2>6. session'.heads # <<>> /\ DOMAIN session'.heads = 1 .. Len(session'.heads)
    BY <2>2, <2>5
  <2>7. session'.status = "IDLE"
    BY <1>5, <2>6, EpilogueType
  <2> QED
    BY <2>4, <2>6, <2>7 DEF Lost
<1>9. Active(head)
  BY <1>7, <1>8 DEF Complete, Active
<1>10. head.req_oid[1] \in ToSet(in_flight[1].oids)
  <2>1. Pending \in Seq(Oid) /\ Len(Pending) \in Nat
    BY <1>1 DEF Pending, RequestPdu
  <2>2. ~(i <= Len(session.heads) - Len(Pending))
    BY <1>2, <1>9 DEF AskedFor
  <2> DEFINE p == i - (Len(session.heads) - Len(Pending))
  <2>3. p \in 1 .. Len(Pending)
    BY <1>3, <2>1, <2>2
  <2>4. head.req_oid = Some(Pending[p])
    BY <1>2, <2>2 DEF AskedFor
  <2> HIDE DEF p
  <2>5. Pending = in_flight[1].oids
    BY <2>3 DEF Pending
  <2>6. DOMAIN Pending = 1 .. Len(Pending)
    BY <2>1
  <2> QED
    BY <2>3, <2>4, <2>5, <2>6 DEF ToSet, Some
<1>11. ASSUME session.request.type = "WALK", NEW k \in DOMAIN session'.results,
              k > Len(session.results)
       PROVE  session'.results[k].root_oid_index # head.root_oid_index
  <2>1. Credited(s, Len(s.results))
    BY DEF Credited, SessionObject
  <2>2. Credited(t, Len(session.results))
    <3>1. Ordered(s)
      BY <1>3 DEF Ordered
    <3> QED
      BY <1>3, <2>1, <3>1, VarBindsCredited
  <2>3. session'.results = t.results /\ DOMAIN t.results = 1 .. Len(t.results)
    BY <1>5, EpilogueType DEF SessionObject
  <2>4. t.heads[i].last_resp_oid = None
    BY <1>8 DEF Complete
  <2> QED
    BY <1>5, <1>7, <1>11, <2>2, <2>3, <2>4 DEF Credited
<1> QED
  BY <1>1, <1>9, <1>10, <1>11 DEF Answered

\* NoHeadLostSilently: whatever net-snmp refuses and the peer answers, a session
\* drops nothing it has been asked for without an error or an answer, save when it
\* sends a PDU again.
THEOREM HeadsNotLost == Spec => NoHeadLostSilently
<1> DEFINE Told ==
      resends' <= resends =>
        \/ SaysWhy
        \/ \A i \in DOMAIN session.heads :
             Lost(session.heads[i]) =>
               IF Active(session.heads[i]) THEN Answered(session.heads[i])
                                           ELSE Refused(session.heads[i])
<1>1. ASSUME IInv, HeadsAsked, Ordered(session), Send \/ Read PROVE Told
  <2>1. DOMAIN session.heads = 1 .. Len(session.heads)
    BY <1>1 DEF IInv, TypeOK, SessionObject
  <2> QED
    BY <1>1, <2>1, SendLosesNone, ReadLosesNone
<1>2. IInv /\ HeadsAsked /\ Ordered(session) /\ [Next]_vars => [Told]_vars
  BY <1>1 DEF Next, Done
<1> QED
  BY <1>2, InvariantIInv, InvariantHeads, InvariantOrdered, PTL
     DEF Spec, NoHeadLostSilently

================================================================================
