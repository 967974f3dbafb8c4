--------------------------- MODULE ManagedSessionProofs ---------------------------
(*******************************************************************************)
(* Theorems about a manager with real sessions, for every request and every    *)
(* manager config that lets it have one session at a time.  Whatever the peer  *)
(* answers, its collect loop never hangs and its sessions are sound.  If the   *)
(* peer names OIDs of a fixed set, they are closed after a number of reads     *)
(* that is known from the request, and the manager does what SessionManager    *)
(* says.                                                                       *)
(*                                                                             *)
(* The reads are bounded by a measure: the pairs of a head and an OID it may   *)
(* still come to.  An answer takes a head beyond the OID it was asked for, so  *)
(* no handler adds a pair; send asks for at least one OID and so takes at      *)
(* least one away; a PDU is read retries + 1 times at most before it is given  *)
(* up.                                                                         *)
(*******************************************************************************)
EXTENDS ManagedSession, SessionProofs, FiniteSetTheorems

--------------------------------------------------------------------------------
(* The OIDs a head may still come to *)

\* The OID a head has come to: its last answer, or what it was asked for, or its
\* root OID.
Reached(head) == ValueOr(head.last_resp_oid, ValueOr(head.req_oid, head.root_oid))

\* A head goes on from the OID it has reached; one that is complete has been asked
\* for that OID, and only an answer beyond it would keep it.
Ahead(head, oid) ==
  IF Complete(head) THEN OidLT(Reached(head), oid) ELSE OidLE(Reached(head), oid)

HeadCount(s) == Len(HeadsOf(s.request))

\* The pairs of a head and an OID that the session may still ask for.
Outstanding(s) ==
  { p \in (0 .. HeadCount(s) - 1) \X Answerable :
      \E i \in 1 .. Len(s.heads) :
        s.heads[i].root_oid_index = p[1] /\ Ahead(s.heads[i], p[2]) }

\* The heads of the session are those of its request, at OIDs a peer may name.
Placed(s) ==
  \A i \in 1 .. Len(s.heads) :
    /\ s.heads[i].root_oid_index \in 0 .. HeadCount(s) - 1
    /\ Reached(s.heads[i]) \in Answerable

\* Every head of later is one of earlier that has not gone back.
Follows(earlier, later) ==
  \A j \in 1 .. Len(later) : \E i \in 1 .. Len(earlier) :
    /\ later[j].root_oid_index = earlier[i].root_oid_index
    /\ \A oid \in Answerable : Ahead(later[j], oid) => Ahead(earlier[i], oid)

Narrows(s, t) == t.request = s.request /\ Placed(t) /\ Follows(s.heads, t.heads)

LEMMA NarrowsItself ==
  ASSUME NEW s, NEW t, Placed(s), t.request = s.request, t.heads = s.heads
  PROVE  Narrows(s, t)
BY DEF Narrows, Placed, Follows, HeadCount

LEMMA NarrowsTransitive ==
  ASSUME NEW s, NEW t, NEW u, Narrows(s, t), Narrows(t, u)
  PROVE  Narrows(s, u)
<1>1. ASSUME NEW j \in 1 .. Len(u.heads)
      PROVE  \E i \in 1 .. Len(s.heads) :
               /\ u.heads[j].root_oid_index = s.heads[i].root_oid_index
               /\ \A oid \in Answerable : Ahead(u.heads[j], oid) => Ahead(s.heads[i], oid)
  <2>1. PICK k \in 1 .. Len(t.heads) :
          /\ u.heads[j].root_oid_index = t.heads[k].root_oid_index
          /\ \A oid \in Answerable : Ahead(u.heads[j], oid) => Ahead(t.heads[k], oid)
    BY DEF Narrows, Follows
  <2>2. PICK i \in 1 .. Len(s.heads) :
          /\ t.heads[k].root_oid_index = s.heads[i].root_oid_index
          /\ \A oid \in Answerable : Ahead(t.heads[k], oid) => Ahead(s.heads[i], oid)
    BY DEF Narrows, Follows
  <2> QED
    BY <2>1, <2>2
<1> QED
  BY <1>1 DEF Narrows, Follows

\* The measure: finite, at most one pair for each head and OID, and never growing.
LEMMA OutstandingType ==
  ASSUME NEW s, HeadCount(s) \in Nat
  PROVE  /\ IsFiniteSet(Outstanding(s))
         /\ Cardinality(Outstanding(s)) \in Nat
         /\ Cardinality(Outstanding(s)) <= HeadCount(s) * Cardinality(Answerable)
<1> DEFINE n == HeadCount(s)
           pairs == (0 .. n - 1) \X Answerable
<1>1. IsFiniteSet(0 .. n - 1) /\ Cardinality(0 .. n - 1) = n
  <2>1. /\ IsFiniteSet(0 .. n - 1)
        /\ Cardinality(0 .. n - 1) = IF 0 > n - 1 THEN 0 ELSE (n - 1) - 0 + 1
    <3>1. 0 \in Int /\ n - 1 \in Int
      OBVIOUS
    <3> HIDE DEF n
    <3> QED
      BY <3>1, FS_Interval, Zenon
  <2> HIDE DEF n
  <2>2. n \in Nat
    BY DEF n
  <2> QED
    BY <2>1, <2>2
<1>2. IsFiniteSet(pairs) /\ Cardinality(pairs) = n * Cardinality(Answerable)
  <2> HIDE DEF n
  <2> QED
    BY <1>1, EnoughReads, FS_Product
<1>3. Outstanding(s) \in SUBSET pairs
  BY DEF Outstanding
<1> HIDE DEF pairs, n
<1>4. IsFiniteSet(Outstanding(s)) /\ Cardinality(Outstanding(s)) <= Cardinality(pairs)
  BY <1>2, <1>3, FS_Subset
<1> QED
  BY <1>2, <1>4, FS_CardinalityType DEF n

LEMMA OutstandingShrinks ==
  ASSUME NEW s, NEW t, HeadCount(s) \in Nat, Narrows(s, t)
  PROVE  /\ Outstanding(t) \subseteq Outstanding(s)
         /\ Cardinality(Outstanding(t)) <= Cardinality(Outstanding(s))
<1>1. HeadCount(t) = HeadCount(s)
  BY DEF Narrows, HeadCount
<1>2. ASSUME NEW p \in Outstanding(t) PROVE p \in Outstanding(s)
  <2>1. p \in (0 .. HeadCount(s) - 1) \X Answerable /\ p[2] \in Answerable
    BY <1>1 DEF Outstanding
  <2>2. PICK j \in 1 .. Len(t.heads) :
          t.heads[j].root_oid_index = p[1] /\ Ahead(t.heads[j], p[2])
    BY DEF Outstanding
  <2>3. PICK i \in 1 .. Len(s.heads) :
          /\ t.heads[j].root_oid_index = s.heads[i].root_oid_index
          /\ \A oid \in Answerable : Ahead(t.heads[j], oid) => Ahead(s.heads[i], oid)
    BY DEF Narrows, Follows
  <2> QED
    BY <2>1, <2>2, <2>3 DEF Outstanding
<1> QED
  BY <1>2, OutstandingType, FS_Subset

\* A pair less is a smaller measure.
LEMMA OutstandingLess ==
  ASSUME NEW s, NEW t, HeadCount(s) \in Nat, Narrows(s, t),
         NEW p \in Outstanding(s), p \notin Outstanding(t)
  PROVE  Cardinality(Outstanding(t)) + 1 <= Cardinality(Outstanding(s))
<1>1. Outstanding(t) \in SUBSET (Outstanding(s) \ {p})
  BY OutstandingShrinks
<1>2. /\ IsFiniteSet(Outstanding(s) \ {p})
      /\ Cardinality(Outstanding(s) \ {p}) = Cardinality(Outstanding(s)) - 1
  BY OutstandingType, FS_RemoveElement
<1>3. Cardinality(Outstanding(t)) <= Cardinality(Outstanding(s) \ {p})
  BY <1>1, <1>2, FS_Subset
<1>4. Cardinality(Outstanding(t)) \in Nat /\ Cardinality(Outstanding(s)) \in Nat
  <2>1. IsFiniteSet(Outstanding(t))
    BY <1>1, <1>2, FS_Subset
  <2> QED
    BY <2>1, OutstandingType, FS_CardinalityType
<1> QED
  BY <1>2, <1>3, <1>4

--------------------------------------------------------------------------------
(* send *)

LEMMA ActivateReaches ==
  ASSUME NEW head \in CollectionHead, ~Active(head)
  PROVE  /\ Activate(head).root_oid_index = head.root_oid_index
         /\ Reached(Activate(head)) = Reached(head) /\ Complete(Activate(head))
<1> DEFINE front == Activate(head)
<1>1. /\ Active(front) /\ front.root_oid_index = head.root_oid_index
      /\ front.req_oid = Some(ValueOr(head.last_resp_oid, head.root_oid))
      /\ front.last_resp_oid = None
  BY ActivateEffect
<1>2. head.req_oid = None
  BY DEF Active
<1> HIDE DEF front
<1>3. Reached(front) = ValueOr(head.last_resp_oid, head.root_oid)
  BY <1>1 DEF Reached, ValueOr, Some, None
<1>4. Reached(head) = ValueOr(head.last_resp_oid, head.root_oid)
  BY <1>2 DEF Reached, ValueOr
<1> QED
  BY <1>1, <1>3, <1>4 DEF Complete, front

\* Every head of later is one of heads, or one of them that has been activated.
Chosen(heads, later) ==
  \A j \in 1 .. Len(later) : \E i \in 1 .. Len(heads) :
    later[j] = heads[i] \/ later[j] = Activate(heads[i])

ChosenFillings(s) == { f \in AskedFillings(s) : Chosen(s.heads, f.session.heads) }

\* A pass of the loop of send activates a head of the session it started with; the
\* first pass that asks for nothing has dropped one.
LEMMA PassChooses ==
  ASSUME NEW s \in SessionObject, NEW f \in ChosenFillings(s), NEW taken \in BOOLEAN,
         NEW next, next = AddVarBind(f, taken)
  PROVE  /\ next \in ChosenFillings(s)
         /\ next.oids = <<>> /\ MaxVarBinds(s) > 0 =>
              /\ f.oids = <<>>
              /\ f.session.heads = <<>> \/ Len(next.session.heads) = Len(f.session.heads) - 1
<1> DEFINE heads == f.session.heads
           later == next.session.heads
<1>1. /\ f \in AskedFillings(s) /\ f \in Fillings(s) /\ Chosen(s.heads, heads)
      /\ heads \in Seq(CollectionHead) /\ s.heads \in Seq(CollectionHead)
      /\ f.oids \in Seq(Oid) /\ AskedFor(heads, f.oids)
  BY DEF ChosenFillings, AskedFillings, Fillings, SessionObject
<1>2. next \in AskedFillings(s)
  BY <1>1, AddVarBindAsks
<1>3. \/ next = f /\ ~WantsMore(f.session, f.oids)
      \/ /\ heads # <<>> /\ Len(f.oids) < Len(heads)
         /\ \/ /\ later = Append(Tail(heads), Activate(Head(heads)))
               /\ next.oids = Append(f.oids, Activate(Head(heads)).req_oid[1])
            \/ /\ later = Tail(heads) /\ next.oids = f.oids
  BY <1>1, AddVarBindHeads DEF PassOf
<1>4. MaxVarBinds(s) \in Nat /\ MaxVarBinds(f.session) = MaxVarBinds(s)
  BY <1>1, MaxVarBindsType DEF MaxVarBinds, Fillings
<1>5. CASE next = f /\ ~WantsMore(f.session, f.oids)
  <2>1. f.oids = <<>> /\ MaxVarBinds(s) > 0 => heads = <<>>
    <3>1. Len(<<>>) = 0 /\ 0 * 0 = 0
      OBVIOUS
    <3>2. heads # <<>> => Len(heads) > 0
      BY <1>1
    <3> QED
      BY <1>4, <1>5, <3>1, <3>2 DEF WantsMore
  <2> QED
    BY <1>5, <2>1
<1>6. ASSUME heads # <<>>, Len(f.oids) < Len(heads)
      PROVE  /\ Head(heads) = heads[1] /\ 1 \in 1 .. Len(heads) /\ ~Active(heads[1])
             /\ Len(Tail(heads)) = Len(heads) - 1
             /\ \A j \in 1 .. Len(Tail(heads)) :
                  j + 1 \in 1 .. Len(heads) /\ Tail(heads)[j] = heads[j + 1]
  <2>1. /\ Len(heads) \in Nat /\ Len(f.oids) \in Nat
        /\ Head(heads) = heads[1] /\ 1 \in 1 .. Len(heads) /\ 1 <= Len(heads) - Len(f.oids)
        /\ Len(Tail(heads)) = Len(heads) - 1
        /\ \A j \in 1 .. Len(Tail(heads)) :
             j + 1 \in 1 .. Len(heads) /\ Tail(heads)[j] = heads[j + 1]
    BY <1>1, <1>6
  <2> HIDE DEF heads
  <2>2. ~Active(heads[1])
    BY <1>1, <2>1 DEF AskedFor
  <2> QED
    BY <2>1, <2>2
<1>7. ASSUME heads # <<>>, Len(f.oids) < Len(heads), later = Tail(heads)
      PROVE  Chosen(s.heads, later) /\ Len(later) = Len(heads) - 1
  <2>1. Len(later) = Len(heads) - 1 /\ \A j \in 1 .. Len(later) :
          j + 1 \in 1 .. Len(heads) /\ later[j] = heads[j + 1]
    BY <1>6, <1>7
  <2> HIDE DEF heads, later
  <2> QED
    BY <1>1, <2>1 DEF Chosen
<1>8. ASSUME heads # <<>>, Len(f.oids) < Len(heads),
             later = Append(Tail(heads), Activate(Head(heads)))
      PROVE  Chosen(s.heads, later)
  <2>1. PICK i \in 1 .. Len(s.heads) :
          heads[1] = s.heads[i] \/ heads[1] = Activate(s.heads[i])
    BY <1>1, <1>6, <1>8 DEF Chosen
  <2>2. heads[1] = s.heads[i]
    <3>1. s.heads[i] \in CollectionHead
      BY <1>1
    <3>2. Active(Activate(s.heads[i]))
      BY <3>1, ActivateEffect
    <3> QED
      BY <1>6, <1>8, <2>1, <3>2
  <2>3. /\ Len(later) = Len(heads)
        /\ later[Len(heads)] = Activate(s.heads[i])
        /\ \A j \in 1 .. Len(heads) - 1 : j + 1 \in 1 .. Len(heads) /\ later[j] = heads[j + 1]
    <3> DEFINE front == Activate(Head(heads))
    <3>1. front = Activate(s.heads[i])
      BY <1>6, <1>8, <2>2
    <3>2. later = Append(Tail(heads), front)
      BY <1>8
    <3> HIDE DEF front, later
    <3> QED
      BY <1>1, <1>8, <3>1, <3>2
  <2>4. ASSUME NEW j \in 1 .. Len(later)
        PROVE  \E k \in 1 .. Len(s.heads) :
                 later[j] = s.heads[k] \/ later[j] = Activate(s.heads[k])
    <3>1. CASE j = Len(heads)
      BY <2>3, <3>1
    <3>2. CASE j # Len(heads)
      <4>1. j \in 1 .. Len(heads) - 1
        BY <1>1, <2>3, <3>2
      <4> QED
        BY <1>1, <2>3, <4>1 DEF Chosen
    <3> QED
      BY <3>1, <3>2
  <2> QED
    BY <2>4 DEF Chosen
<1>9. Chosen(s.heads, later)
  BY <1>1, <1>3, <1>7, <1>8
<1>10. next.oids = <<>> /\ MaxVarBinds(s) > 0 =>
         f.oids = <<>> /\ (heads = <<>> \/ Len(later) = Len(heads) - 1)
  <2>1. heads # <<>> => Append(f.oids, Activate(Head(heads)).req_oid[1]) # <<>>
    <3> SUFFICES ASSUME heads # <<>>, NEW oid, oid = Activate(Head(heads)).req_oid[1]
                 PROVE  Append(f.oids, oid) # <<>>
      OBVIOUS
    <3>1. Head(heads) \in CollectionHead
      BY <1>1
    <3>2. /\ Activate(Head(heads)) \in CollectionHead
          /\ Activate(Head(heads)).req_oid # None
      BY <3>1, ActivateEffect DEF Active
    <3>3. oid \in Oid
      BY <3>2, OptionalType DEF CollectionHead
    <3>4. Len(Append(f.oids, oid)) = Len(f.oids) + 1 /\ Len(f.oids) \in Nat
      BY <1>1, <3>3
    <3>5. Len(Append(f.oids, oid)) # Len(<<>>)
      BY <3>4
    <3> QED
      BY <3>5
  <2> QED
    BY <1>3, <1>5, <1>7, <2>1
<1> QED
  BY <1>2, <1>9, <1>10 DEF ChosenFillings

LEMMA FillChooses ==
  ASSUME NEW s \in SessionObject, NEW taken \in Seq(BOOLEAN),
         \A i \in 1 .. Len(s.heads) : ~Active(s.heads[i])
  PROVE  Fill(s, taken) \in ChosenFillings(s)
<1> DEFINE first == [session |-> s, oids |-> <<>>]
<1>1. first \in ChosenFillings(s)
  <2>1. first \in Fillings(s) /\ AskedFor(s.heads, <<>>)
    BY DEF Fillings, Oid, AskedFor, SessionObject
  <2> QED
    BY <2>1 DEF ChosenFillings, AskedFillings, Chosen
<1>2. \A f \in ChosenFillings(s), v \in BOOLEAN : AddVarBind(f, v) \in ChosenFillings(s)
  BY PassChooses
<1> HIDE DEF first
<1>3. FillProofs!Run(first, taken) \in ChosenFillings(s)
  BY <1>1, <1>2, FillProofs!RunInvariant
<1> QED
  BY <1>3 DEF Fill, first, FillProofs!Run, FillLoop!Run

\* With a limit above 0 and a pass for each head, the loop ends with something to
\* ask for or without a head.
LEMMA FillAsksSomething ==
  ASSUME NEW s \in SessionObject, NEW taken \in Seq(BOOLEAN),
         Len(taken) = Len(s.heads), MaxVarBinds(s) > 0,
         \A i \in 1 .. Len(s.heads) : ~Active(s.heads[i])
  PROVE  Fill(s, taken).oids # <<>> \/ Fill(s, taken).session.heads = <<>>
<1> DEFINE first == [session |-> s, oids |-> <<>>]
           n == Len(s.heads)
           A == ChosenFillings(s)
           dropped(i) == { f \in A : f.oids = <<>> => Len(f.session.heads) = n - i }
           inv == [i \in 0 .. n |-> dropped(i)]
<1>1. n \in Nat
  BY DEF SessionObject
<1>2. first \in A /\ first \in inv[0]
  <2>1. first \in Fillings(s) /\ AskedFor(s.heads, <<>>)
    BY DEF Fillings, Oid, AskedFor, SessionObject
  <2>2. first \in A
    BY <2>1 DEF ChosenFillings, AskedFillings, Chosen
  <2> QED
    BY <1>1, <2>2
<1>3. ASSUME NEW i \in 1 .. n, NEW f \in A, NEW v \in BOOLEAN, f \in inv[i - 1]
      PROVE  AddVarBind(f, v) \in inv[i]
  <2> DEFINE next == AddVarBind(f, v)
  <2>1. i - 1 \in 0 .. n /\ i \in 0 .. n
    BY <1>1
  <2>2. f.oids = <<>> => Len(f.session.heads) = n - (i - 1)
    BY <1>3, <2>1
  <2>3. /\ next \in A
        /\ next.oids = <<>> =>
             /\ f.oids = <<>>
             /\ f.session.heads = <<>> \/ Len(next.session.heads) = Len(f.session.heads) - 1
    BY PassChooses
  <2> HIDE DEF next, A
  <2>4. next.oids = <<>> => Len(next.session.heads) = n - i
    <3>1. f.oids = <<>> => f.session.heads # <<>>
      <4>1. n - (i - 1) # 0 /\ Len(<<>>) = 0
        BY <1>1
      <4> QED
        BY <2>2, <4>1
    <3>2. n - (i - 1) - 1 = n - i
      BY <1>1
    <3> QED
      BY <2>2, <2>3, <3>1, <3>2
  <2> QED
    BY <2>1, <2>3, <2>4 DEF next
<1>4. \A f \in A, v \in BOOLEAN : AddVarBind(f, v) \in A
  BY PassChooses
<1> HIDE DEF first, A, inv
<1>5. FillProofs!Run(first, taken) \in inv[Len(taken)]
  <2>1. /\ first \in inv[0]
        /\ \A i \in 1 .. Len(taken), f \in A :
             f \in inv[i - 1] => AddVarBind(f, taken[i]) \in inv[i]
    BY <1>2, <1>3
  <2> QED
    BY <1>2, <1>4, <2>1, FillProofs!RunInvariantAt
<1>6. Fill(s, taken) \in dropped(n)
  <2>1. Fill(s, taken) \in inv[n]
    BY <1>5 DEF Fill, first, FillProofs!Run, FillLoop!Run
  <2>2. n \in 0 .. n
    BY <1>1
  <2> QED
    BY <2>1, <2>2 DEF inv
<1>7. Fill(s, taken).oids = <<>> => Len(Fill(s, taken).session.heads) = 0
  BY <1>1, <1>6
<1>8. Fill(s, taken).session.heads \in Seq(CollectionHead)
  BY <1>6 DEF A, ChosenFillings, AskedFillings, Fillings, SessionObject
<1> QED
  BY <1>7, <1>8

LEMMA ReachedType ==
  ASSUME NEW head \in CollectionHead
  PROVE  Reached(head) \in Oid
<1>1. ValueOr(head.req_oid, head.root_oid) \in Oid
  BY OptionalType DEF CollectionHead
<1> QED
  BY <1>1, OptionalType DEF CollectionHead, Reached

LEMMA ChosenReaches ==
  ASSUME NEW s \in SessionObject, NEW t, Chosen(s.heads, t.heads),
         \A i \in 1 .. Len(s.heads) : ~Active(s.heads[i]),
         NEW j \in 1 .. Len(t.heads)
  PROVE  \E i \in 1 .. Len(s.heads) :
           /\ t.heads[j].root_oid_index = s.heads[i].root_oid_index
           /\ Reached(t.heads[j]) = Reached(s.heads[i])
           /\ ~Complete(s.heads[i])
<1>1. PICK i \in 1 .. Len(s.heads) :
        t.heads[j] = s.heads[i] \/ t.heads[j] = Activate(s.heads[i])
  BY DEF Chosen
<1>2. s.heads[i] \in CollectionHead /\ ~Active(s.heads[i])
  BY DEF SessionObject
<1>3. /\ Activate(s.heads[i]).root_oid_index = s.heads[i].root_oid_index
      /\ Reached(Activate(s.heads[i])) = Reached(s.heads[i])
  BY <1>2, ActivateReaches
<1> QED
  BY <1>1, <1>2, <1>3 DEF Complete

\* Filling a PDU takes no head back.
LEMMA ChosenNarrows ==
  ASSUME NEW s \in SessionObject, Placed(s), NEW t, t.request = s.request,
         Chosen(s.heads, t.heads), \A i \in 1 .. Len(s.heads) : ~Active(s.heads[i])
  PROVE  Narrows(s, t)
<1>1. ASSUME NEW j \in 1 .. Len(t.heads)
      PROVE  \E i \in 1 .. Len(s.heads) :
               /\ t.heads[j].root_oid_index = s.heads[i].root_oid_index
               /\ \A oid \in Answerable : Ahead(t.heads[j], oid) => Ahead(s.heads[i], oid)
  BY ChosenReaches DEF Ahead, OidLE
<1>2. Placed(t)
  BY ChosenReaches DEF Placed, HeadCount
<1> QED
  BY <1>1, <1>2 DEF Narrows, Follows

\* Once it asks for something, or has given up every head, there is less to ask for.
LEMMA ChosenLess ==
  ASSUME NEW s \in SessionObject, Placed(s), s.heads # <<>>, HeadCount(s) \in Nat,
         NEW t, t.request = s.request, Distinct(t.heads),
         Chosen(s.heads, t.heads), \A i \in 1 .. Len(s.heads) : ~Active(s.heads[i]),
         t.heads = <<>> \/ \E k \in 1 .. Len(t.heads) : Complete(t.heads[k])
  PROVE  Cardinality(Outstanding(t)) + 1 <= Cardinality(Outstanding(s))
<1> DEFINE pair(i) == <<s.heads[i].root_oid_index, Reached(s.heads[i])>>
<1>1. Narrows(s, t)
  BY ChosenNarrows
<1>2. ASSUME NEW i \in 1 .. Len(s.heads) PROVE pair(i) \in Outstanding(s)
  <2>1. ~Complete(s.heads[i])
    BY DEF Complete
  <2>2. Ahead(s.heads[i], Reached(s.heads[i]))
    BY <2>1 DEF Ahead, OidLE
  <2>3. pair(i) \in (0 .. HeadCount(s) - 1) \X Answerable
    BY DEF Placed
  <2>4. pair(i)[1] = s.heads[i].root_oid_index /\ pair(i)[2] = Reached(s.heads[i])
    OBVIOUS
  <2> HIDE DEF pair
  <2> QED
    BY <2>2, <2>3, <2>4 DEF Outstanding
<1>3. CASE t.heads = <<>>
  <2>1. 1 \in 1 .. Len(s.heads)
    BY DEF SessionObject
  <2>2. Outstanding(t) = {}
    <3>1. Len(t.heads) = 0
      BY <1>3
    <3> QED
      BY <3>1 DEF Outstanding
  <2> HIDE DEF pair
  <2> QED
    BY <1>1, <1>2, <2>1, <2>2, OutstandingLess
<1>4. ASSUME NEW k \in 1 .. Len(t.heads), Complete(t.heads[k])
      PROVE  Cardinality(Outstanding(t)) + 1 <= Cardinality(Outstanding(s))
  <2>1. PICK i \in 1 .. Len(s.heads) :
          /\ t.heads[k].root_oid_index = s.heads[i].root_oid_index
          /\ Reached(t.heads[k]) = Reached(s.heads[i])
    BY ChosenReaches
  <2>2. pair(i) \notin Outstanding(t)
    <3> SUFFICES ASSUME pair(i) \in Outstanding(t) PROVE FALSE
      OBVIOUS
    <3>1. PICK j \in 1 .. Len(t.heads) :
            /\ t.heads[j].root_oid_index = s.heads[i].root_oid_index
            /\ Ahead(t.heads[j], Reached(s.heads[i]))
      BY DEF Outstanding
    <3>2. j = k
      BY <2>1, <3>1 DEF Distinct
    <3>3. OidLT(Reached(s.heads[i]), Reached(s.heads[i]))
      BY <1>4, <2>1, <3>1, <3>2 DEF Ahead
    <3>4. Reached(s.heads[i]) \in Oid
      BY ReachedType DEF SessionObject
    <3> QED
      BY <3>3, <3>4, OidLTIrreflexive
  <2> HIDE DEF pair
  <2> QED
    BY <1>1, <1>2, <2>2, OutstandingLess
<1> QED
  BY <1>3, <1>4

--------------------------------------------------------------------------------
(* read *)

LEMMA KeptRests ==
  ASSUME NEW s \in SessionObject, NEW kept, kept = Epilogue(s).heads,
         NEW j \in 1 .. Len(kept)
  PROVE  \E k \in 1 .. Len(s.heads) :
           ~Complete(s.heads[k]) /\ kept[j] = Resting(s.heads[k])
BY EpilogueKeeps

\* The heads a callback keeps stay where they are.
LEMMA EpilogueNarrows ==
  ASSUME NEW s \in SessionObject, Placed(s), NEW t, t = Epilogue(s)
  PROVE  Narrows(s, t)
<1>1. t.request = s.request
  BY EpilogueType
<1>2. ASSUME NEW j \in 1 .. Len(t.heads)
      PROVE  \E k \in 1 .. Len(s.heads) :
               /\ t.heads[j].root_oid_index = s.heads[k].root_oid_index
               /\ Reached(t.heads[j]) = Reached(s.heads[k])
               /\ ~Complete(s.heads[k]) /\ ~Complete(t.heads[j])
  <2>1. PICK k \in 1 .. Len(s.heads) :
          ~Complete(s.heads[k]) /\ t.heads[j] = Resting(s.heads[k])
    <3>1. t.heads = Epilogue(s).heads
      OBVIOUS
    <3> QED
      BY <3>1, KeptRests
  <2> DEFINE head == s.heads[k]
             rest == t.heads[j]
  <2>2. head \in CollectionHead
    BY DEF SessionObject
  <2>3. /\ rest.root_oid_index = head.root_oid_index /\ ~Active(rest)
        /\ rest.last_resp_oid = head.last_resp_oid /\ rest.root_oid = head.root_oid
    BY <2>1, <2>2, RestingEffect
  <2> HIDE DEF head, rest
  <2>4. Reached(rest) = ValueOr(head.last_resp_oid, head.root_oid)
    BY <2>3 DEF Reached, ValueOr, Active
  <2>5. Reached(head) = ValueOr(head.last_resp_oid, head.root_oid)
    <3>1. head.last_resp_oid # None \/ head.req_oid = None
      BY <2>1 DEF Complete, Active, head
    <3> QED
      BY <3>1 DEF Reached, ValueOr
  <2> QED
    BY <2>1, <2>3, <2>4, <2>5 DEF Complete, head, rest
<1>3. Placed(t)
  BY <1>1, <1>2 DEF Placed, HeadCount
<1>4. Follows(s.heads, t.heads)
  BY <1>2 DEF Follows, Ahead
<1> QED
  BY <1>1, <1>3, <1>4 DEF Narrows

\* A binding leaves a head where it is or takes it on.
LEMMA BindingNarrows ==
  ASSUME NEW s \in SessionObject, Placed(s), NEW var_bind \in VarBind,
         var_bind.oid \in Answerable,
         NEW next, next.request = s.request, BindingOf(s, var_bind, next)
  PROVE  Narrows(s, next)
<1>1. CASE next.heads = s.heads
  BY <1>1, NarrowsItself
<1>2. CASE next.heads # s.heads
  <2>1. PICK k \in 1 .. Len(s.heads) :
          /\ Active(s.heads[k])
          /\ ~OidLE(var_bind.oid, Cursor(s.heads[k]))
          /\ next.heads = [s.heads EXCEPT ![k].last_resp_oid = Some(var_bind.oid)]
    BY <1>2 DEF BindingOf, Accepts
  <2> DEFINE oid == var_bind.oid
             head == s.heads[k]
             there == [head EXCEPT !.last_resp_oid = Some(oid)]
  <2>2. s.heads \in Seq(CollectionHead) /\ head \in CollectionHead /\ oid \in Oid
    BY DEF SessionObject, VarBind
  <2>3. /\ there.root_oid_index = head.root_oid_index
        /\ there.last_resp_oid = Some(oid)
    BY <2>2 DEF CollectionHead
  <2>4. next.heads = [s.heads EXCEPT ![k] = there]
    BY <2>1
  <2> HIDE DEF there, oid
  <2>5. Reached(there) = oid /\ ~Complete(there)
    BY <2>3 DEF Reached, ValueOr, Some, None, Complete
  <2>6. Reached(head) = Cursor(head)
    BY <2>1 DEF Reached, Cursor, ValueOr, Active
  <2>7. OidLT(Reached(head), oid)
    <3>1. Reached(head) \in Oid
      BY <2>2, ReachedType
    <3> QED
      BY <2>1, <2>2, <2>6, <3>1, OidLTTotal DEF OidLE, oid
  <2>8. ASSUME NEW x \in Answerable, Ahead(there, x) PROVE Ahead(head, x)
    <3>1. OidLE(oid, x)
      BY <2>5, <2>8 DEF Ahead
    <3>2. OidLT(Reached(head), x)
      <4>1. x \in Oid /\ Reached(head) \in Oid
        BY <2>2, EnoughReads, ReachedType
      <4> QED
        BY <2>2, <2>7, <3>1, <4>1, OidLTTransitive DEF OidLE
    <3> QED
      BY <3>2 DEF Ahead, OidLE
  <2> HIDE DEF head
  <2>9. /\ Len(next.heads) = Len(s.heads) /\ next.heads[k] = there
        /\ \A i \in 1 .. Len(s.heads) : i # k => next.heads[i] = s.heads[i]
    BY <2>2, <2>4
  <2>10. Placed(next)
    BY <2>3, <2>5, <2>9 DEF Placed, HeadCount, oid, head
  <2>11. Follows(s.heads, next.heads)
    BY <2>3, <2>8, <2>9 DEF Follows, head
  <2> QED
    BY <2>10, <2>11 DEF Narrows
<1> QED
  BY <1>1, <1>2

LEMMA VarBindsNarrow ==
  ASSUME NEW s \in SessionObject, Placed(s), NEW var_binds \in Seq(VarBind),
         \A i \in 1 .. Len(var_binds) : var_binds[i].oid \in Answerable
  PROVE  Narrows(s, VarBindLoop!Run(s, var_binds))
<1> DEFINE A == { t \in Processings(s) : Narrows(s, t) }
           V == { v \in VarBind : v.oid \in Answerable }
<1>1. s \in A
  BY NarrowsItself DEF Processings
<1>2. ASSUME NEW t \in A, NEW v \in V PROVE ProcessVarBind(t, v) \in A
  <2>1. t \in SessionObject /\ t.status = s.status /\ t.request = s.request /\ Narrows(s, t)
    BY DEF Processings
  <2>2. ProcessVarBind(t, v) \in Processings(t)
    BY <2>1, GetVarBindType, WalkVarBindType DEF ProcessVarBind
  <2>3. Narrows(t, ProcessVarBind(t, v))
    BY <2>1, <2>2, ProcessVarBindIs, BindingNarrows DEF Processings, Narrows
  <2> QED
    BY <2>1, <2>2, <2>3, NarrowsTransitive DEF Processings
<1>3. var_binds \in Seq(V)
  <2>1. /\ Len(var_binds) \in Nat /\ DOMAIN var_binds = 1 .. Len(var_binds)
        /\ \A i \in 1 .. Len(var_binds) : var_binds[i] \in V
    OBVIOUS
  <2>2. var_binds \in [1 .. Len(var_binds) -> V]
    BY <2>1
  <2> QED
    BY <2>1, <2>2
<1> HIDE DEF A, V
<1>4. VarBindProofs!Run(s, var_binds) \in A
  BY <1>1, <1>2, <1>3, VarBindProofs!RunInvariant
<1> QED
  BY <1>4 DEF A, VarBindProofs!Run, VarBindLoop!Run

--------------------------------------------------------------------------------
(* The reads a session has left *)

Sendings(request) == request.config.retries + 1

\* As many as there are sendings for each pair outstanding, and those the PDU in
\* flight has left.
ReadsLeft ==
  Sendings(session.request) * Cardinality(Outstanding(session))
    + IF session.status = "WAIT" THEN Sendings(session.request) - resends ELSE 0

\* What is proved of a session by itself.
SessionSound ==
  /\ IInv /\ HeadsAsked /\ Ordered(session)
  /\ session.request \in Requests

\* What the bound needs besides: that its heads are at OIDs a peer may name, and
\* that the PDU in flight has a sending left.
SessionInv ==
  /\ SessionSound
  /\ Placed(session)
  /\ session.status = "WAIT" => resends < Sendings(session.request)

LEMMA ScaledOrder ==
  ASSUME NEW m \in Nat, NEW a \in Nat, NEW b \in Nat, a <= b
  PROVE  m * a <= m * b
<1>1. b - a \in Nat /\ b = a + (b - a)
  OBVIOUS
<1>2. m * (b - a) \in Nat /\ m * (a + (b - a)) = m * a + m * (b - a)
  BY <1>1
<1> QED
  BY <1>1, <1>2

LEMMA ScaledMore ==
  ASSUME NEW m \in Nat, NEW a \in Nat
  PROVE  m * (a + 1) = m * a + m /\ m * a \in Nat
OBVIOUS

LEMMA RequestFacts ==
  ASSUME NEW request \in Requests
  PROVE  /\ request \in Request /\ request.oids # <<>>
         /\ Sendings(request) \in Nat \ {0}
         /\ HeadsOf(request) \in Seq(CollectionHead)
         /\ Len(HeadsOf(request)) \in Nat
         /\ request.config.max_response_var_binds_per_pdu > 0
         /\ MostReads(request) \in Nat /\ MostReads(request) < MaxReads
         /\ MostReads(request) =
              Sendings(request) * (Len(HeadsOf(request)) * Cardinality(Answerable))
<1>1. request \in Request /\ request.oids # <<>>
  BY RequestsAssumption DEF WellFormed, RequestThrows
<1>2. request.config.retries \in Nat
  BY <1>1 DEF Request, Settings
<1>3. HeadsOf(request) \in Seq(CollectionHead)
  BY <1>1, HeadsOfEffect
<1>4. Len(HeadsOf(request)) \in Nat /\ Cardinality(Answerable) \in Nat
  BY <1>3, EnoughReads, FS_CardinalityType
<1>5. MostReads(request) \in Nat
  <2>1. Len(HeadsOf(request)) * Cardinality(Answerable) \in Nat
    BY <1>4
  <2> QED
    BY <1>2, <2>1 DEF MostReads
<1>6. /\ request.config.max_response_var_binds_per_pdu > 0
      /\ MostReads(request) < MaxReads
  BY EnoughReads
<1>7. MostReads(request) =
        Sendings(request) * (Len(HeadsOf(request)) * Cardinality(Answerable))
  BY DEF MostReads, Sendings
<1>8. Sendings(request) \in Nat \ {0}
  BY <1>2 DEF Sendings
<1> QED
  BY <1>1, <1>3, <1>4, <1>5, <1>6, <1>7, <1>8

\* What there is to read when a session stays or becomes idle, waiting or closed.
LEMMA ReadsLeftType ==
  ASSUME SessionInv
  PROVE  /\ ReadsLeft \in Nat
         /\ session.status = "WAIT" => ReadsLeft > 0
         /\ session.status # "WAIT" => ReadsLeft <= MostReads(session.request)
<1> DEFINE m == Sendings(session.request)
           c == Cardinality(Outstanding(session))
           most == HeadCount(session) * Cardinality(Answerable)
<1>1. m \in Nat \ {0} /\ HeadCount(session) \in Nat /\ MostReads(session.request) = m * most
  BY RequestFacts DEF SessionInv, SessionSound, HeadCount
<1>2. c \in Nat /\ c <= most
  BY <1>1, OutstandingType
<1>3. most \in Nat
  <2>1. Cardinality(Answerable) \in Nat
    BY EnoughReads, FS_CardinalityType
  <2> QED
    BY <1>1, <2>1
<1>4. resends \in Nat /\ (session.status = "WAIT" => resends < m)
  BY DEF SessionInv, SessionSound, IInv, TypeOK
<1>5. ReadsLeft = m * c + IF session.status = "WAIT" THEN m - resends ELSE 0
  BY DEF ReadsLeft
<1> HIDE DEF m, c, most
<1>6. m * c <= m * most /\ m * c \in Nat
  BY <1>1, <1>2, <1>3, ScaledOrder, ScaledMore
<1> QED
  BY <1>1, <1>4, <1>5, <1>6

ReadsKnown ==
  /\ ReadsLeft \in Nat
  /\ session.status # "WAIT" => ReadsLeft <= MostReads(session.request)

LEMMA ReadsLeftKnown == SessionInv => ReadsKnown
BY ReadsLeftType DEF ReadsKnown

\* send does not add to the reads a session has left, the first read of the PDU
\* included.
LEMMA SendLeaves ==
  ASSUME SessionInv, Send
  PROVE  /\ SessionInv'
         /\ session'.request = session.request
         /\ ReadsLeft' <= ReadsLeft
<1> DEFINE m == Sendings(session.request)
<1>1. /\ IInv /\ HeadsAsked /\ Ordered(session) /\ session.request \in Requests
      /\ Placed(session)
  BY DEF SessionInv, SessionSound
<1>2. /\ session.status = "IDLE" /\ session \in SessionObject
      /\ session'.request = session.request
      /\ \A i \in 1 .. Len(session.heads) : ~Active(session.heads[i])
  BY <1>1, SendFills
<1>3. IInv' /\ HeadsAsked' /\ Ordered(session')
  BY <1>1, SendIInv, SendHeads, SendOrdered
<1>4. m \in Nat \ {0} /\ HeadCount(session) \in Nat
  BY <1>1, RequestFacts DEF HeadCount
<1>5. Narrows(session, session')
  <2>1. PICK t \in SessionObject :
          /\ t = session \/ \E taken \in Seq(BOOLEAN) : t = Fill(session, taken).session
          /\ session'.heads = t.heads
    BY <1>1, SendFills
  <2>2. CASE t = session
    BY <1>1, <1>2, <2>1, <2>2, NarrowsItself
  <2>3. ASSUME NEW taken \in Seq(BOOLEAN), t = Fill(session, taken).session
        PROVE  Narrows(session, session')
    <3>1. Chosen(session.heads, session'.heads)
      BY <1>2, <2>1, <2>3, FillChooses DEF ChosenFillings
    <3> QED
      BY <1>1, <1>2, <3>1, ChosenNarrows
  <2> QED
    BY <2>1, <2>2, <2>3
<1>6. session'.status = "WAIT" =>
        /\ resends' = 0
        /\ Cardinality(Outstanding(session')) + 1 <= Cardinality(Outstanding(session))
  <2> SUFFICES ASSUME session'.status = "WAIT"
               PROVE  /\ resends' = 0
                      /\ Cardinality(Outstanding(session')) + 1
                           <= Cardinality(Outstanding(session))
    OBVIOUS
  <2>1. PICK taken \in Takings :
          LET filled == Fill(session, taken)
          IN  SendDivides(filled) \/ SendRefused(filled) \/ SendTaken(filled)
    <3>1. ~SendNoPdu
      <4>1. Fail(session, "CREATE_REQUEST_PDU_ERROR", None).status = "CLOSED"
        BY <1>2, SendErrors, FailType
      <4> QED
        BY <4>1 DEF SendNoPdu
    <3> QED
      BY <3>1 DEF Send
  <2> DEFINE filled == Fill(session, taken)
  <2>2. Idle /\ session.heads # <<>> /\ TypeOK
    BY <1>1, <1>2, <2>1 DEF HeadsAsked, Send, SendNoPdu, Idle, IInv
  <2>3. taken \in Seq(BOOLEAN) /\ Len(taken) = Len(session.heads)
    <3>1. taken \in [1 .. Len(session.heads) -> BOOLEAN] /\ Len(session.heads) \in Nat
      BY <1>2 DEF Takings, SessionObject
    <3> QED
      BY <3>1
  <2>4. filled.session \in SessionObject /\ filled.session.status = "IDLE"
    BY <2>2, Filled
  <2>5. filled \in ChosenFillings(session)
    BY <1>2, <2>3, FillChooses
  <2>6. filled.oids # <<>> \/ filled.session.heads = <<>>
    <3>1. MaxVarBinds(session) > 0
      BY <1>1, RequestFacts DEF MaxVarBinds
    <3> QED
      BY <1>2, <2>3, <3>1, FillAsksSomething
  <2>7. AskedFor(filled.session.heads, filled.oids) /\ filled.oids \in Seq(Oid)
    BY <2>5 DEF ChosenFillings, AskedFillings, Fillings
  <2>8. Chosen(session.heads, filled.session.heads)
    BY <2>5 DEF ChosenFillings
  <2>9. SendDivides(filled) \/ SendRefused(filled) \/ SendTaken(filled)
    BY <2>1
  <2> HIDE DEF filled
  <2>10. SendTaken(filled)
    <3>1. ~SendDivides(filled)
      BY <2>4 DEF SendDivides
    <3>2. ~SendRefused(filled)
      <4>1. Fail(filled.session, "SEND_ERROR", None).status = "CLOSED"
        BY <2>4, SendErrors, FailType
      <4> QED
        BY <4>1 DEF SendRefused
    <3> QED
      BY <2>9, <3>1, <3>2
  <2>11. session'.heads = filled.session.heads /\ resends' = 0
    BY <2>4, <2>10 DEF SendTaken, SessionObject
  <2>12. \/ session'.heads = <<>>
         \/ \E k \in 1 .. Len(session'.heads) : Complete(session'.heads[k])
    <3> DEFINE heads == filled.session.heads
               n == Len(filled.oids)
    <3>1. CASE filled.oids # <<>>
      <4>1. n \in Nat \ {0} /\ Len(heads) \in Nat
        BY <2>4, <2>7, <3>1 DEF SessionObject
      <4>2. n <= Len(heads)
        BY <2>7 DEF AskedFor
      <4>3. Len(heads) \in 1 .. Len(heads) /\ ~(Len(heads) <= Len(heads) - n)
        <5> SUFFICES ASSUME NEW l, l = Len(heads)
                     PROVE  l \in 1 .. l /\ ~(l <= l - n)
          OBVIOUS
        <5> HIDE DEF heads, n
        <5> QED
          BY <4>1, <4>2
      <4>4. \A i \in 1 .. Len(heads) : ~(i <= Len(heads) - n) => Complete(heads[i])
        BY <2>7 DEF AskedFor
      <4>5. Complete(heads[Len(heads)])
        <5> HIDE DEF heads, n
        <5> QED
          BY <4>3, <4>4
      <4>6. heads = session'.heads
        BY <2>11
      <4> HIDE DEF heads, n
      <4>7. \E k \in 1 .. Len(heads) : Complete(heads[k])
        BY <4>3, <4>5
      <4> QED
        BY <4>6, <4>7
    <3> QED
      BY <2>6, <2>11, <3>1
  <2>13. Distinct(session'.heads)
    BY <1>3 DEF Ordered
  <2> QED
    BY <1>1, <1>2, <1>4, <2>2, <2>8, <2>11, <2>12, <2>13, ChosenLess
<1>7. SessionInv'
  BY <1>1, <1>2, <1>3, <1>4, <1>5, <1>6 DEF SessionInv, SessionSound, Narrows
<1>8. ReadsLeft' <= ReadsLeft
  <2> DEFINE c == Cardinality(Outstanding(session))
             d == Cardinality(Outstanding(session'))
  <2>1. c \in Nat /\ d \in Nat /\ d <= c
    <3>1. HeadCount(session') = HeadCount(session)
      BY <1>2 DEF HeadCount
    <3> QED
      BY <1>4, <1>5, <3>1, OutstandingType, OutstandingShrinks
  <2>2. ReadsLeft = m * c
    <3>1. m * c \in Nat
      BY <1>4, <2>1, ScaledMore
    <3> HIDE DEF m, c
    <3>2. ReadsLeft = m * c + 0
      BY <1>2 DEF ReadsLeft, m, c
    <3> QED
      BY <3>1, <3>2
  <2>3. ReadsLeft' = m * d + IF session'.status = "WAIT" THEN m - resends' ELSE 0
    BY <1>2 DEF ReadsLeft
  <2>4. session'.status = "WAIT" => resends' = 0 /\ d + 1 <= c
    BY <1>6
  <2> HIDE DEF m, c, d
  <2>5. m * d <= m * c /\ m * d \in Nat /\ m * c \in Nat
    BY <1>4, <2>1, ScaledOrder, ScaledMore
  <2>6. d + 1 <= c => m * d + m <= m * c
    BY <1>4, <2>1, ScaledOrder, ScaledMore
  <2> QED
    BY <1>4, <2>2, <2>3, <2>4, <2>5, <2>6
<1> QED
  BY <1>2, <1>7, <1>8

\* A peer names OIDs of a fixed set: what an answer without an error tells.  (The
\* OIDs that a message can carry are such a set.)
AnswersWithin ==
  \A pdu \in RequestPdu : \A reply \in Replies(pdu) \cap ReplyPdu :
    reply.command = "RESPONSE" /\ reply.errstat = 0 =>
      \A i \in 1 .. Len(reply.var_binds) : reply.var_binds[i].oid \in Answerable

\* A read takes one from the reads a session has left, whatever the peer answers.
LEMMA ReadLeaves ==
  ASSUME AnswersWithin, SessionInv, Read
  PROVE  /\ SessionInv'
         /\ session'.request = session.request
         /\ ReadsLeft' + 1 <= ReadsLeft
<1> DEFINE m == Sendings(session.request)
           c == Cardinality(Outstanding(session))
           d == Cardinality(Outstanding(session'))
<1>1. /\ IInv /\ HeadsAsked /\ Ordered(session) /\ session.request \in Requests
      /\ Placed(session) /\ TypeOK /\ OneInFlight
      /\ (session.status = "WAIT" => resends < m)
  BY DEF SessionInv, SessionSound, IInv
<1>2. session.status = "WAIT" /\ session \in SessionObject /\ in_flight[1] \in RequestPdu
  <2>1. session.status = "WAIT" /\ session \in SessionObject
    BY <1>1, ReadAnswers
  <2> QED
    BY <1>1, <2>1, OptionalType DEF TypeOK, OneInFlight
<1>3. IInv' /\ HeadsAsked' /\ Ordered(session')
  BY <1>1, ReadIInv, ReadHeads, ReadOrdered
<1>4. m \in Nat \ {0} /\ HeadCount(session) \in Nat
  BY <1>1, RequestFacts DEF HeadCount
<1>5. Narrows(session, session')
  <2>1. PICK s \in SessionObject, var_binds \in Seq(VarBind), t \in SessionObject :
          /\ s.request = session.request
          /\ s.heads = session.heads
          /\ t = s \/ (Answer(var_binds) /\ t = VarBindLoop!Run(s, var_binds))
          /\ session' = Epilogue(t)
    BY <1>1, ReadAnswers
  <2>2. Narrows(session, s) /\ Placed(s)
    BY <1>1, <2>1, NarrowsItself DEF Narrows
  <2>3. Narrows(s, t)
    <3>1. CASE t = s
      BY <2>2, <3>1, NarrowsItself
    <3>2. CASE Answer(var_binds) /\ t = VarBindLoop!Run(s, var_binds)
      <4>1. \A i \in 1 .. Len(var_binds) : var_binds[i].oid \in Answerable
        BY <1>2, <3>2 DEF Answer, AnswersWithin
      <4> QED
        BY <2>2, <3>2, <4>1, VarBindsNarrow
    <3> QED
      BY <2>1, <3>1, <3>2
  <2>4. Narrows(t, session')
    BY <2>1, <2>3, EpilogueNarrows DEF Narrows
  <2> QED
    BY <2>2, <2>3, <2>4, NarrowsTransitive
<1>6. session'.request = session.request
  BY <1>5 DEF Narrows
<1>7. session'.status = "WAIT" => resends' = resends + 1 /\ resends + 1 < m
  <2>1. CASE Resend
    <3>1. resends \in Nat /\ session.request.config.retries \in Nat
      BY <1>1, RequestFacts DEF TypeOK, Request, Settings
    <3> QED
      BY <2>1, <3>1 DEF Resend, Sendings
  <2>2. CASE ~Resend
    <3>1. None \in Optional(ReplyPdu)
      BY OptionalType
    <3>2. session'.status # "WAIT"
      BY <1>2, <2>2, <3>1, OptionalType, CallbackType
         DEF Read, Receive, ReceiveNull, TimedOut, SendFailed, Disconnect
    <3> QED
      BY <3>2
  <2> QED
    BY <2>1, <2>2
<1>8. SessionInv'
  BY <1>1, <1>3, <1>5, <1>6, <1>7 DEF SessionInv, SessionSound, Narrows
<1>9. c \in Nat /\ d \in Nat /\ d <= c
  <2>1. HeadCount(session') = HeadCount(session)
    BY <1>6 DEF HeadCount
  <2> QED
    BY <1>4, <1>5, <2>1, OutstandingType, OutstandingShrinks
<1>10. ReadsLeft = m * c + (m - resends)
  BY <1>2 DEF ReadsLeft
<1>11. ReadsLeft' = m * d + IF session'.status = "WAIT" THEN m - resends' ELSE 0
  BY <1>6 DEF ReadsLeft
<1>12. resends \in Nat /\ resends < m
  BY <1>1, <1>2 DEF TypeOK
<1> HIDE DEF m, c, d
<1>13. m * d <= m * c /\ m * d \in Nat /\ m * c \in Nat
  BY <1>4, <1>9, ScaledOrder, ScaledMore
<1>14. ReadsLeft' + 1 <= ReadsLeft
  BY <1>4, <1>7, <1>10, <1>11, <1>12, <1>13
<1> QED
  BY <1>6, <1>8, <1>14

--------------------------------------------------------------------------------
(* The manager with one session at a time *)

Listed == [request : Manager!Ids, status : Status, reads : Nat]

ManagerTypes ==
  /\ pending_requests \in Seq(Manager!Ids)
  /\ async_sessions \in Seq(Listed)
  /\ added \in 0 .. Len(Submissions)

\* The iterator of a pass is in the list; that of the collect loop is at its front
\* or at its end.
Positions ==
  /\ pc = "perform_io" => async_sessions # <<>>
  /\ pc \in {"send", "read"} => it \in 1 .. Len(async_sessions)
  /\ pc = "collect" => it = 0 \/ (it = 1 /\ async_sessions # <<>>)

\* A session is promoted when no other is active.
OnlyLastOpen ==
  \A i \in 1 .. Len(async_sessions) :
    i < Len(async_sessions) => async_sessions[i].status = "CLOSED"

ManagerInv == ManagerTypes /\ Positions /\ OnlyLastOpen /\ NeverSpins

LEMMA CountActive ==
  ASSUME ManagerTypes
  PROVE  /\ IsFiniteSet(Manager!ActiveSessions)
         /\ Manager!ActiveCount = Cardinality(Manager!ActiveSessions)
         /\ Manager!ActiveSessions =
              { i \in 1 .. Len(async_sessions) : async_sessions[i].status # "CLOSED" }
<1>1. Manager!ActiveSessions =
        { i \in 1 .. Len(async_sessions) : async_sessions[i].status # "CLOSED" }
  <2>1. DOMAIN async_sessions = 1 .. Len(async_sessions)
    BY DEF ManagerTypes
  <2> QED
    BY <2>1 DEF Manager!ActiveSessions
<1>2. \A S : Manager!Cardinality(S) = Cardinality(S)
  BY DEF Manager!Cardinality, Cardinality
<1>3. IsFiniteSet(1 .. Len(async_sessions))
  <2>1. 1 \in Int /\ Len(async_sessions) \in Int
    BY DEF ManagerTypes
  <2> QED
    BY <2>1, FS_Interval
<1>4. Manager!ActiveSessions \in SUBSET (1 .. Len(async_sessions))
  BY <1>1
<1>5. IsFiniteSet(Manager!ActiveSessions)
  BY <1>3, <1>4, FS_Subset
<1> QED
  BY <1>1, <1>2, <1>5 DEF Manager!ActiveCount

\* The limit of one session: another is promoted only when all are closed.
LEMMA NoneActive ==
  ASSUME ManagerTypes, Manager!MayPromote
  PROVE  \A i \in 1 .. Len(async_sessions) : async_sessions[i].status = "CLOSED"
<1>1. Head(pending_requests) \in Manager!Ids
  BY DEF ManagerTypes, Manager!MayPromote
<1>2. Manager!ActiveCount + 1 <= 1
  BY <1>1, OneAtATime DEF Manager!MayPromote, Manager!Fits
<1>3. Cardinality(Manager!ActiveSessions) = 0
  <2>1. Cardinality(Manager!ActiveSessions) \in Nat
    BY CountActive, FS_CardinalityType
  <2> QED
    BY <1>2, <2>1, CountActive
<1>4. Manager!ActiveSessions = {}
  BY <1>3, CountActive, FS_EmptySet
<1> QED
  BY <1>4, CountActive

\* Not every session of a list is active: the first one is closed.
LEMMA FirstClosed ==
  ASSUME ManagerTypes, OnlyLastOpen, async_sessions # <<>>,
         Len(async_sessions) # Manager!ActiveCount
  PROVE  async_sessions[1].status = "CLOSED"
<1>1. Len(async_sessions) \in Nat \ {0}
  BY DEF ManagerTypes
<1>2. CASE Len(async_sessions) > 1
  BY <1>1, <1>2 DEF OnlyLastOpen
<1>3. CASE Len(async_sessions) = 1
  <2> SUFFICES ASSUME async_sessions[1].status # "CLOSED" PROVE FALSE
    OBVIOUS
  <2>1. Manager!ActiveSessions = {1}
    BY <1>3, CountActive
  <2>2. Manager!ActiveCount = 1
    BY <2>1, CountActive, FS_Singleton
  <2> QED
    BY <1>3, <2>2
<1>4. \A n \in Nat \ {0} : n = 1 \/ n > 1
  OBVIOUS
<1> QED
  BY <1>1, <1>2, <1>3, <1>4

\* A pass goes on in the list or ends.
LEMMA PassPositions ==
  ASSUME ManagerTypes, Positions, pc \in {"send", "read"},
         NEW next \in {"read", "perform_io"}, Manager!Advance(next),
         Len(async_sessions') = Len(async_sessions)
  PROVE  /\ pc' # "collect"
         /\ pc' \in {"send", "read"} => it' \in 1 .. Len(async_sessions')
         /\ async_sessions' # <<>>
<1>1. Len(async_sessions) \in Nat /\ it \in 1 .. Len(async_sessions)
  BY DEF ManagerTypes, Positions
<1>2. async_sessions # <<>>
  BY <1>1
<1>3. async_sessions' # <<>> /\ Len(async_sessions') \in Nat \ {0}
  BY <1>1
<1>4. CASE it < Len(async_sessions)
  BY <1>1, <1>4, <1>3 DEF Manager!Advance
<1>5. CASE ~(it < Len(async_sessions))
  <2>2. it' = Manager!Begin(async_sessions) /\ pc' = next
    BY <1>5 DEF Manager!Advance
  <2>3. it' = 1
    BY <1>2, <2>2 DEF Manager!Begin
  <2> QED
    BY <1>3, <2>2, <2>3
<1> QED
  BY <1>4, <1>5

\* What erasing the first session leaves.
LEMMA FirstErased ==
  ASSUME NEW S, NEW list \in Seq(S), list # <<>>
  PROVE  /\ Manager!RemoveAt(list, 1) \in Seq(S)
         /\ Len(Manager!RemoveAt(list, 1)) = Len(list) - 1
         /\ \A i \in 1 .. Len(list) - 1 : Manager!RemoveAt(list, 1)[i] = list[i + 1]
<1> DEFINE back == SubSeq(list, 2, Len(list))
<1>1. Len(list) \in Nat \ {0}
  OBVIOUS
<1>2. /\ back \in Seq(S) /\ Len(back) = Len(list) - 1
      /\ \A i \in 1 .. Len(list) - 1 : back[i] = list[i + 1]
  <2>1. PICK n \in Nat \ {0} : n = Len(list)
    BY <1>1
  <2>2. ASSUME NEW i \in 2 .. n PROVE list[i] \in S
    <3>1. i \in 1 .. Len(list)
      BY <2>1
    <3> QED
      BY <3>1, ElementOfSeq
  <2>3. 2 \in Int /\ n \in Int
    OBVIOUS
  <2>4. /\ SubSeq(list, 2, n) \in Seq(S)
        /\ Len(SubSeq(list, 2, n)) = IF 2 <= n THEN n - 2 + 1 ELSE 0
        /\ \A i \in 1 .. n - 2 + 1 : SubSeq(list, 2, n)[i] = list[2 + i - 1]
    BY <2>2, <2>3, SubSeqProperties
  <2>5. /\ (IF 2 <= n THEN n - 2 + 1 ELSE 0) = n - 1
        /\ n - 2 + 1 = n - 1
        /\ \A i \in 1 .. n - 1 : 2 + i - 1 = i + 1
    OBVIOUS
  <2>6. back = SubSeq(list, 2, n)
    BY <2>1
  <2> HIDE DEF back
  <2>7. \A i \in 1 .. n - 1 : back[i] = list[i + 1]
    BY <2>4, <2>5, <2>6
  <2> QED
    BY <2>1, <2>4, <2>5, <2>6, <2>7
<1>3. Manager!RemoveAt(list, 1) = back
  <2>1. SubSeq(list, 1, 1 - 1) = <<>>
    OBVIOUS
  <2>2. Manager!RemoveAt(list, 1) = SubSeq(list, 1, 1 - 1) \o SubSeq(list, 1 + 1, Len(list))
    BY DEF Manager!RemoveAt
  <2>3. <<>> \o back = back
    BY <1>2, ConcatEmptySeq
  <2> QED
    BY <2>1, <2>2, <2>3
<1> HIDE DEF back
<1> QED
  BY <1>2, <1>3

LEMMA InitManager == Manager!Init => ManagerInv
BY DEF Manager!Init, ManagerInv, ManagerTypes, Positions, OnlyLastOpen, NeverSpins,
   SomeSubmission

LEMMA PromoteManager ==
  ASSUME ManagerInv, pc = "promote", Manager!MayPromote,
         NEW status \in Status, Manager!PromoteAs(status)
  PROVE  /\ ManagerInv'
         /\ Head(pending_requests) \in Manager!Ids
         /\ \A i \in 1 .. Len(async_sessions) : async_sessions[i].status = "CLOSED"
         /\ Len(async_sessions) \in Nat
         /\ Len(async_sessions') = Len(async_sessions) + 1
         /\ \A i \in 1 .. Len(async_sessions) : async_sessions'[i] = async_sessions[i]
         /\ async_sessions'[Len(async_sessions) + 1] =
              [request |-> Head(pending_requests), status |-> status, reads |-> 0]
<1> DEFINE n == Len(async_sessions)
           s == [request |-> Head(pending_requests), status |-> status, reads |-> 0]
<1>1. /\ pending_requests \in Seq(Manager!Ids) /\ pending_requests # <<>>
      /\ async_sessions \in Seq(Listed) /\ ManagerTypes /\ n \in Nat
  BY DEF ManagerInv, ManagerTypes, Manager!MayPromote
<1>2. \A i \in 1 .. n : async_sessions[i].status = "CLOSED"
  BY <1>1, NoneActive
<1>3. Head(pending_requests) \in Manager!Ids /\ Tail(pending_requests) \in Seq(Manager!Ids)
  BY <1>1
<1>4. s \in Listed
  BY <1>3 DEF Listed
<1>5. async_sessions' = Append(async_sessions, s)
  BY DEF Manager!PromoteAs
<1> HIDE DEF s
<1>6. /\ async_sessions' \in Seq(Listed) /\ Len(async_sessions') = n + 1
      /\ async_sessions'[n + 1] = s
      /\ \A i \in 1 .. n : async_sessions'[i] = async_sessions[i]
  BY <1>1, <1>4, <1>5
<1> HIDE DEF n
<1>7. OnlyLastOpen'
  <2>1. \A i \in 1 .. n + 1 : i < n + 1 => i \in 1 .. n
    BY <1>1
  <2> QED
    BY <1>2, <1>6, <2>1 DEF OnlyLastOpen
<1>8. ManagerTypes' /\ Positions' /\ NeverSpins'
  BY <1>1, <1>3, <1>6 DEF Manager!PromoteAs, ManagerInv, ManagerTypes, Positions, NeverSpins
<1> QED
  BY <1>1, <1>2, <1>3, <1>6, <1>7, <1>8 DEF ManagerInv, n, s

\* One session of the list is replaced by one that is no less closed.
LEMMA UpdateKeeps ==
  ASSUME ManagerTypes, OnlyLastOpen, NEW i \in 1 .. Len(async_sessions),
         NEW s \in Listed, async_sessions[i].status = "CLOSED" => s.status = "CLOSED",
         async_sessions' = [async_sessions EXCEPT ![i] = s]
  PROVE  /\ async_sessions' \in Seq(Listed)
         /\ Len(async_sessions') = Len(async_sessions)
         /\ async_sessions'[i] = s
         /\ \A j \in 1 .. Len(async_sessions) : j # i => async_sessions'[j] = async_sessions[j]
         /\ OnlyLastOpen'
<1>1. async_sessions \in Seq(Listed)
  BY DEF ManagerTypes
<1>2. /\ async_sessions' \in Seq(Listed)
      /\ Len(async_sessions') = Len(async_sessions)
      /\ async_sessions'[i] = s
      /\ \A j \in 1 .. Len(async_sessions) : j # i => async_sessions'[j] = async_sessions[j]
  BY <1>1
<1>3. OnlyLastOpen'
  BY <1>2 DEF OnlyLastOpen
<1> QED
  BY <1>2, <1>3

\* What a pass of send or of read does to the session it has come to.
PassedBy(s, t) ==
  /\ t \in Listed /\ t.request = s.request
  /\ s.status = "CLOSED" => t.status = "CLOSED"
  /\ t.reads = IF pc = "read" /\ s.status = "WAIT" THEN s.reads + 1 ELSE s.reads

LEMMA SendAsReplaces ==
  ASSUME async_sessions \in Seq(Listed), it \in 1 .. Len(async_sessions), pc = "send",
         NEW status \in Status, Manager!SendAs(status),
         async_sessions[it].status = "CLOSED" => status = "CLOSED"
  PROVE  \E t : /\ PassedBy(async_sessions[it], t) /\ t.status = status
                /\ async_sessions' = [async_sessions EXCEPT ![it] = t]
<1> DEFINE s == async_sessions[it]
           t == [s EXCEPT !.status = status]
<1>1. async_sessions' = [async_sessions EXCEPT ![it] = t]
  BY DEF Manager!SendAs
<1>2. s \in Listed
  BY ElementOfSeq
<1>3. s.status = "CLOSED" => status = "CLOSED"
  OBVIOUS
<1> HIDE DEF s
<1>4. PassedBy(s, t) /\ t.status = status
  BY <1>2, <1>3 DEF PassedBy, Listed
<1> QED
  BY <1>1, <1>4 DEF s

LEMMA ReadAsReplaces ==
  ASSUME async_sessions \in Seq(Listed), it \in 1 .. Len(async_sessions), pc = "read",
         NEW status \in Status, Manager!ReadAs(status),
         async_sessions[it].status = "CLOSED" => status = "CLOSED"
  PROVE  \E t : /\ PassedBy(async_sessions[it], t) /\ t.status = status
                /\ async_sessions' = [async_sessions EXCEPT ![it] = t]
<1> DEFINE s == async_sessions[it]
           n == IF s.status = "WAIT" THEN s.reads + 1 ELSE s.reads
           t == [s EXCEPT !.status = status, !.reads = n]
<1>1. async_sessions' = [async_sessions EXCEPT ![it] = t]
  BY DEF Manager!ReadAs
<1>2. s \in Listed
  BY ElementOfSeq
<1>3. s.status = "CLOSED" => status = "CLOSED"
  OBVIOUS
<1>4. n \in Nat /\ n = IF pc = "read" /\ s.status = "WAIT" THEN s.reads + 1 ELSE s.reads
  BY <1>2 DEF Listed
<1> HIDE DEF s, n
<1>5. PassedBy(s, t) /\ t.status = status
  BY <1>2, <1>3, <1>4 DEF PassedBy, Listed
<1> QED
  BY <1>1, <1>5 DEF s

\* A pass of send or of read, whatever the call makes of the session, as long as it
\* does not open a closed one.
LEMMA PassManager ==
  ASSUME ManagerInv, NEW status \in Status,
         async_sessions[it].status = "CLOSED" => status = "CLOSED",
         \/ pc = "send" /\ Manager!SendAs(status)
         \/ pc = "read" /\ Manager!ReadAs(status)
  PROVE  /\ ManagerInv'
         /\ it \in 1 .. Len(async_sessions)
         /\ Len(async_sessions') = Len(async_sessions)
         /\ \A j \in 1 .. Len(async_sessions) : j # it => async_sessions'[j] = async_sessions[j]
         /\ PassedBy(async_sessions[it], async_sessions'[it])
         /\ async_sessions'[it].status = status
<1> DEFINE s == async_sessions[it]
<1>1. /\ pc \in {"send", "read"} /\ it \in 1 .. Len(async_sessions)
      /\ ManagerTypes /\ OnlyLastOpen /\ Positions /\ async_sessions \in Seq(Listed)
  BY DEF ManagerInv, ManagerTypes, Positions
<1>2. PICK t : /\ PassedBy(s, t) /\ t.status = status
               /\ async_sessions' = [async_sessions EXCEPT ![it] = t]
  BY <1>1, SendAsReplaces, ReadAsReplaces
<1>3. s.status = "CLOSED" => t.status = "CLOSED"
  BY <1>2 DEF PassedBy
<1> HIDE DEF s
<1>4. /\ async_sessions' \in Seq(Listed)
      /\ Len(async_sessions') = Len(async_sessions)
      /\ async_sessions'[it] = t
      /\ \A j \in 1 .. Len(async_sessions) : j # it => async_sessions'[j] = async_sessions[j]
      /\ OnlyLastOpen'
  BY <1>1, <1>2, <1>3, UpdateKeeps DEF PassedBy, s
<1>5. /\ \E next \in {"read", "perform_io"} : Manager!Advance(next)
      /\ pending_requests' = pending_requests /\ added' = added
  BY DEF Manager!SendAs, Manager!ReadAs
<1>6. /\ pc' # "collect" /\ (pc' \in {"send", "read"} => it' \in 1 .. Len(async_sessions'))
      /\ async_sessions' # <<>>
  BY <1>1, <1>4, <1>5, PassPositions
<1>7. ManagerTypes'
  BY <1>1, <1>4, <1>5 DEF ManagerTypes
<1>8. Positions' /\ NeverSpins'
  BY <1>6 DEF Positions, NeverSpins
<1> QED
  BY <1>1, <1>2, <1>4, <1>7, <1>8 DEF ManagerInv, s

LEMMA CollectManager ==
  ASSUME ManagerInv, Manager!CollectClosed
  PROVE  /\ ManagerInv'
         /\ Len(async_sessions) \in Nat \ {0}
         /\ Len(async_sessions') = Len(async_sessions) - 1
         /\ \A i \in 1 .. Len(async_sessions) - 1 : async_sessions'[i] = async_sessions[i + 1]
<1>1. /\ pc = "collect" /\ it = 1 /\ async_sessions # <<>>
      /\ async_sessions \in Seq(Listed) /\ ManagerTypes /\ OnlyLastOpen
  BY DEF ManagerInv, ManagerTypes, Positions, Manager!CollectClosed
<1> DEFINE n == Len(async_sessions)
<1>2. n \in Nat \ {0}
  BY <1>1
<1>3. /\ async_sessions' \in Seq(Listed) /\ Len(async_sessions') = n - 1
      /\ \A i \in 1 .. n - 1 : async_sessions'[i] = async_sessions[i + 1]
  BY <1>1, FirstErased DEF Manager!CollectClosed
<1> HIDE DEF n
<1>4. OnlyLastOpen'
  <2>1. ASSUME NEW i \in 1 .. n - 1, i < n - 1
        PROVE  async_sessions'[i].status = "CLOSED"
    <3>1. i + 1 \in 1 .. n /\ i + 1 < n
      BY <1>2, <2>1
    <3> QED
      BY <1>1, <1>3, <3>1 DEF OnlyLastOpen, n
  <2> QED
    BY <1>3, <2>1 DEF OnlyLastOpen
<1>5. it' = 0 /\ pc' = "collect" /\ UNCHANGED <<pending_requests, added>>
  BY <1>1 DEF Manager!CollectClosed
<1> QED
  BY <1>1, <1>2, <1>3, <1>4, <1>5 DEF ManagerInv, ManagerTypes, Positions, NeverSpins, n

\* The steps that leave the list alone.
LEMMA OtherManager ==
  ASSUME ManagerInv,
         \/ Manager!AddRequest \/ Manager!CallRun \/ Manager!PromoteThrows
         \/ Manager!PromoteDone \/ Manager!PerformIo \/ Manager!CollectSkip
         \/ Manager!CollectDone \/ Manager!Return \/ UNCHANGED Manager!vars
  PROVE  ManagerInv' /\ async_sessions' = async_sessions
<1> USE DEF ManagerInv, ManagerTypes, Positions, NeverSpins
<1>1. CASE Manager!AddRequest
  <2>1. added + 1 \in Manager!Ids /\ added + 1 \in 0 .. Len(Submissions)
    BY <1>1, SomeSubmission DEF Manager!AddRequest, Manager!Ids
  <2>2. pending_requests' \in Seq(Manager!Ids)
    BY <1>1, <2>1 DEF Manager!AddRequest
  <2> QED
    BY <1>1, <2>1, <2>2 DEF Manager!AddRequest, OnlyLastOpen
<1>2. CASE Manager!PerformIo
  <2>1. pc' = "collect" => Len(async_sessions) # Manager!ActiveCount
    BY <1>2 DEF Manager!PerformIo
  <2>2. async_sessions' = async_sessions /\ it' = Manager!Begin(async_sessions)
    BY <1>2 DEF Manager!PerformIo
  <2>3. pc' = "collect" /\ it' # 0 => it' = 1 /\ async_sessions # <<>>
    BY <2>2 DEF Manager!Begin
  <2>4. NeverSpins'
    BY <2>1, <2>2, <2>3, FirstClosed
  <2>5. it' = 1 /\ 1 \in 1 .. Len(async_sessions)
    BY <1>2, <2>2 DEF Manager!PerformIo, Manager!Begin
  <2> QED
    BY <1>2, <2>2, <2>3, <2>4, <2>5 DEF Manager!PerformIo, OnlyLastOpen
<1>3. CASE \/ Manager!CallRun \/ Manager!PromoteThrows \/ Manager!PromoteDone
           \/ Manager!CollectSkip \/ Manager!CollectDone \/ Manager!Return
           \/ UNCHANGED Manager!vars
  BY <1>3 DEF Manager!CallRun, Manager!PromoteThrows, Manager!PromoteDone,
     Manager!CollectSkip, Manager!CollectDone, Manager!Return, Manager!vars, OnlyLastOpen
<1> QED
  BY <1>1, <1>2, <1>3

--------------------------------------------------------------------------------
(* The session at the end of the list: whatever run does to it, what is proved *)
(* of a session by itself goes on holding, and its status is that of the list. *)

LEMMA FreshSession ==
  ASSUME NEW request \in Requests, NEW s,
         s = Opened(request) \/ s = OpenFailed(request)
  PROVE  s.request = request /\ s.status # "WAIT" /\ Placed(s)
<1>1. request \in Request /\ request.oids # <<>> /\ ToSet(request.oids) \subseteq Answerable
  BY RequestFacts, EnoughReads
<1>2. EmptySession(request) \in SessionObject
  BY <1>1, EmptySessionType
<1>3. CASE s = Opened(request)
  <2>1. /\ s.request = request /\ s.status = "IDLE" /\ s.heads = HeadsOf(request)
    BY <1>2, <1>3 DEF Opened, SessionObject, EmptySession
  <2>2. HeadCount(s) = Len(s.heads)
    BY <2>1 DEF HeadCount
  <2>3. ASSUME NEW i \in 1 .. Len(s.heads)
        PROVE  /\ s.heads[i].root_oid_index \in 0 .. HeadCount(s) - 1
               /\ Reached(s.heads[i]) \in Answerable
    <3>1. /\ s.heads[i].root_oid_index = i - 1
          /\ s.heads[i].req_oid = None /\ s.heads[i].last_resp_oid = None
      BY <1>1, <2>1, HeadsOfEffect
    <3>2. \E r \in DOMAIN request.oids : s.heads[i].root_oid = request.oids[r]
      BY <1>1, <2>1, HeadsOfEffect
    <3>3. s.heads[i].root_oid \in Answerable
      BY <1>1, <3>2 DEF ToSet
    <3>4. Len(s.heads) \in Nat
      BY <1>1, <2>1, HeadsOfType
    <3> QED
      BY <2>2, <3>1, <3>3, <3>4 DEF Reached, ValueOr
  <2> QED
    BY <2>1, <2>3 DEF Placed
<1>4. CASE s = OpenFailed(request)
  <2>1. s.request = request /\ s.status = "CLOSED" /\ s.heads = <<>>
    BY <1>4 DEF OpenFailed, Fail, AppendError, EmptySession
  <2> QED
    BY <2>1 DEF Placed
<1> QED
  BY <1>3, <1>4

\* What the constructor of Session leaves.
LEMMA InitSession == Init => SessionInv /\ session.status # "WAIT"
<1> SUFFICES ASSUME Init PROVE SessionInv /\ session.status # "WAIT"
  OBVIOUS
<1>1. PICK request \in Requests : session = Opened(request) \/ session = OpenFailed(request)
  BY DEF Init
<1>2. session.request = request /\ session.status # "WAIT" /\ Placed(session)
  BY <1>1, FreshSession
<1> QED
  BY <1>2, InitIInv, InitHeads, InitOrdered DEF SessionInv, SessionSound

StatusLinked ==
  async_sessions # <<>> /\ ~aborted =>
    async_sessions[Len(async_sessions)].status = session.status

SoundInv == ManagerInv /\ SessionSound /\ StatusLinked

\* Before the first request is promoted the session is a closed one without heads.
LEMMA InitSound == ManagedInit => SoundInv /\ SessionInv
<1> SUFFICES ASSUME ManagedInit PROVE SoundInv /\ SessionInv
  OBVIOUS
<1>1. ManagerInv
  BY InitManager DEF ManagedInit
<1> DEFINE request == Manager!Queued(1)
<1>2. /\ session = EmptySession(request) /\ in_flight = None /\ resends = 0
      /\ aborted = FALSE /\ async_sessions = <<>>
  BY DEF ManagedInit, Manager!Init
<1>3. 1 \in Manager!Ids
  BY SomeSubmission DEF Manager!Ids
<1>4. request \in Requests /\ request \in Request
  BY <1>3, QueuedRequests, RequestsAssumption
<1> HIDE DEF request
<1>5. /\ session \in SessionObject /\ session.status = "CLOSED" /\ session.heads = <<>>
      /\ session.results = <<>> /\ session.request = request
  BY <1>2, <1>4, EmptySessionType DEF EmptySession
<1>6. IInv
  BY <1>2, <1>5, OptionalType DEF IInv, TypeOK, OneInFlight
<1>7. HeadsAsked
  BY <1>5 DEF HeadsAsked, Idle
<1>8. Ordered(session) /\ Placed(session)
  BY <1>5 DEF Ordered, Distinct, InOrder, Increasing, Placed
<1>9. SessionInv
  BY <1>4, <1>5, <1>6, <1>7, <1>8 DEF SessionInv, SessionSound
<1>10. StatusLinked
  BY <1>2 DEF StatusLinked
<1> QED
  BY <1>1, <1>9, <1>10 DEF SoundInv, SessionInv

\* The session that Promote leaves is as the constructor leaves one.
LEMMA Promoted ==
  ASSUME SoundInv, Promote, ~aborted
  PROVE  LET request == Manager!Queued(Head(pending_requests))
         IN  /\ request \in Requests /\ session'.request = request
             /\ session'.status \in {"IDLE", "CLOSED"}
             /\ ConstructorThrows(request) => session'.status = "CLOSED"
             /\ SessionInv'
<1> DEFINE request == Manager!Queued(Head(pending_requests))
<1>1. Head(pending_requests) \in Manager!Ids
  BY DEF SoundInv, ManagerInv, ManagerTypes, Promote, Manager!MayPromote
<1>2. request \in Requests
  BY <1>1, QueuedRequests
<1>3. /\ \/ ~ConstructorThrows(request) /\ session' = Opened(request)
         \/ "open" \in Faults /\ session' = OpenFailed(request)
      /\ in_flight' = None /\ resends' = 0 /\ aborted' = aborted
  BY DEF Promote
<1>4. aborted = FALSE
  BY DEF SoundInv, SessionSound, IInv, TypeOK
<1> HIDE DEF request
<1>5. /\ request \in Request
      /\ session'.status \in {"IDLE", "CLOSED"}
      /\ ConstructorThrows(request) => session'.status = "CLOSED"
  BY <1>2, <1>3, RequestsAssumption, OpenedType, OpenFailedType
<1>6. session'.request = request
  BY <1>2, <1>3, FreshSession
<1>7. Init'
  BY <1>2, <1>3, <1>4 DEF Init
<1>8. SessionInv'
  BY <1>7, InitSession, PTL
<1> QED
  BY <1>2, <1>5, <1>6, <1>8 DEF request

LEMMA PromoteSound ==
  ASSUME SoundInv, Promote, ~aborted
  PROVE  SoundInv'
<1> DEFINE n == Len(async_sessions)
<1>1. ManagerInv /\ pc = "promote" /\ Manager!MayPromote /\ Manager!PromoteAs(session'.status)
  BY DEF SoundInv, Promote
<1>2. session'.status \in Status
  BY Promoted DEF Status
<1>3. /\ ManagerInv' /\ Len(async_sessions') = n + 1
      /\ async_sessions'[n + 1].status = session'.status
  <2>1. /\ ManagerInv' /\ Len(async_sessions') = n + 1
        /\ async_sessions'[n + 1] =
             [request |-> Head(pending_requests), status |-> session'.status, reads |-> 0]
    BY <1>1, <1>2, PromoteManager
  <2> QED
    BY <2>1
<1>4. SessionSound'
  BY Promoted DEF SessionInv
<1> QED
  BY <1>3, <1>4 DEF SoundInv, StatusLinked

LEMMA SendSound ==
  ASSUME SessionSound, Send
  PROVE  SessionSound' /\ session'.request = session.request
BY SendIInv, SendHeads, SendOrdered, SendReports DEF SessionSound, Accounts

LEMMA ReadSound ==
  ASSUME SessionSound, Read
  PROVE  SessionSound' /\ session'.request = session.request
BY ReadIInv, ReadHeads, ReadOrdered, ReadReports DEF SessionSound, Accounts

LEMMA SameSound ==
  ASSUME SessionSound, UNCHANGED vars
  PROVE  SessionSound' /\ session' = session
<1>1. IInv' /\ HeadsAsked'
  BY NextIInv, NextHeads DEF SessionSound
<1> QED
  BY <1>1 DEF SessionSound, vars

\* What a call of send or of read in a pass leaves in the list: a status that the
\* lifecycle of a session lets follow the one it had, and that of the object, if
\* the call was made on it.
CallLeaves ==
  /\ \/ /\ pc = "send" /\ Manager!SendAs(Left)
        /\ Left \in AfterSend(async_sessions[it].status)
     \/ /\ pc = "read" /\ Manager!ReadAs(Left)
        /\ Left \in AfterRead(async_sessions[it].status)
  /\ Current => Left = session'.status
  /\ ~Current => session' = session

\* The sessions before the last one are closed, and no call moves them.
LEMMA PassSame ==
  ASSUME SoundInv, ~aborted, pc \in {"send", "read"}, UNCHANGED vars,
         Current => session.status # (IF pc = "send" THEN "IDLE" ELSE "WAIT")
  PROVE  /\ Left = async_sessions[it].status
         /\ Left \in (IF pc = "send" THEN AfterSend(async_sessions[it].status)
                                     ELSE AfterRead(async_sessions[it].status))
         /\ Current => Left = session'.status
         /\ session' = session
<1>1. session' = session /\ it \in 1 .. Len(async_sessions) /\ Len(async_sessions) \in Nat
  BY DEF SoundInv, ManagerInv, ManagerTypes, Positions, vars
<1>2. CASE Current
  <2>1. async_sessions[it].status = session.status
    <3>1. async_sessions # <<>>
      BY <1>1
    <3> QED
      BY <1>2, <3>1 DEF Current, SoundInv, StatusLinked
  <2> QED
    BY <1>1, <1>2, <2>1 DEF Left, AfterSend, AfterRead
<1>3. CASE ~Current
  <2>1. async_sessions[it].status = "CLOSED"
    BY <1>1, <1>3 DEF Current, SoundInv, ManagerInv, OnlyLastOpen
  <2> QED
    BY <1>1, <1>3, <2>1 DEF Left, AfterSend, AfterRead
<1> QED
  BY <1>2, <1>3

LEMMA CallAllowed ==
  ASSUME SoundInv, ~aborted, SendNext \/ ReadNext
  PROVE  /\ SessionSound' /\ session'.request = session.request
         /\ \/ aborted' /\ UNCHANGED managerVars
            \/ ~aborted' /\ CallLeaves
<1>1. /\ SessionSound /\ IInv /\ aborted = FALSE
      /\ it \in 1 .. Len(async_sessions) /\ Len(async_sessions) \in Nat
  BY DEF SoundInv, SessionSound, IInv, TypeOK, ManagerInv, ManagerTypes, Positions,
         SendNext, ReadNext
<1>2. ASSUME Current
      PROVE  Left = session'.status /\ async_sessions[it].status = session.status
  <2>1. async_sessions # <<>>
    BY <1>1
  <2> QED
    BY <1>1, <1>2, <2>1 DEF Current, Left, SoundInv, StatusLinked
<1>3. CASE SendNext /\ Current /\ session.status = "IDLE"
  <2>1. Send /\ pc = "send"
    BY <1>3 DEF SendNext
  <2>2. SessionSound' /\ session'.request = session.request
    BY <1>1, <2>1, SendSound
  <2>3. CASE aborted'
    BY <1>3, <2>2, <2>3 DEF SendNext
  <2>4. CASE ~aborted'
    <3>1. Lifecycle!Send
      BY <1>1, <2>1, <2>4, SendLifecycle
    <3>2. Left \in AfterSend(async_sessions[it].status)
      BY <1>2, <1>3, <3>1 DEF Lifecycle!Send, Lifecycle!AfterSend, AfterSend
    <3>3. Manager!SendAs(Left)
      BY <1>3, <2>4 DEF SendNext
    <3> QED
      BY <1>2, <1>3, <2>1, <2>2, <2>4, <3>2, <3>3 DEF CallLeaves
  <2> QED
    BY <2>3, <2>4
<1>4. CASE ReadNext /\ Current /\ session.status = "WAIT"
  <2>1. Read /\ pc = "read" /\ Manager!ReadAs(Left)
    BY <1>4 DEF ReadNext
  <2>2. SessionSound' /\ session'.request = session.request
    BY <1>1, <2>1, ReadSound
  <2>3. Left \in AfterRead(async_sessions[it].status)
    <3>1. Lifecycle!Read
      BY <1>1, <2>1, ReadLifecycle
    <3> QED
      BY <1>2, <1>4, <3>1 DEF Lifecycle!Read, Lifecycle!AfterRead, AfterRead
  <2>4. ~aborted'
    BY <2>1 DEF Read, Receive, ReceiveNull, Resend, TimedOut, SendFailed, Disconnect
  <2> QED
    BY <1>2, <1>4, <2>1, <2>2, <2>3, <2>4 DEF CallLeaves
<1>5. CASE SendNext /\ ~(Current /\ session.status = "IDLE")
  <2>1. UNCHANGED vars /\ pc = "send" /\ ~aborted'
    BY <1>1, <1>5 DEF SendNext, vars
  <2>2. Manager!SendAs(Left)
    BY <1>5, <2>1 DEF SendNext
  <2>3. /\ Left \in AfterSend(async_sessions[it].status)
        /\ Current => Left = session'.status
        /\ session' = session
    BY <1>5, <2>1, PassSame
  <2> QED
    BY <1>1, <2>1, <2>2, <2>3, SameSound DEF CallLeaves
<1>6. CASE ReadNext /\ ~(Current /\ session.status = "WAIT")
  <2>1. UNCHANGED vars /\ pc = "read" /\ ~aborted' /\ Manager!ReadAs(Left)
    BY <1>1, <1>6 DEF ReadNext, vars
  <2>2. /\ Left \in AfterRead(async_sessions[it].status)
        /\ Current => Left = session'.status
        /\ session' = session
    BY <1>6, <2>1, PassSame
  <2> QED
    BY <1>1, <2>1, <2>2, SameSound DEF CallLeaves
<1> QED
  BY <1>3, <1>4, <1>5, <1>6

\* What a pass does to the list, unless the process ends in it.
LEMMA CallPasses ==
  ASSUME SoundInv, CallLeaves
  PROVE  /\ ManagerInv'
         /\ it \in 1 .. Len(async_sessions)
         /\ Len(async_sessions') = Len(async_sessions)
         /\ \A j \in 1 .. Len(async_sessions) : j # it => async_sessions'[j] = async_sessions[j]
         /\ PassedBy(async_sessions[it], async_sessions'[it])
         /\ async_sessions'[it].status = Left
<1>1. /\ ManagerInv /\ async_sessions \in Seq(Listed)
      /\ it \in 1 .. Len(async_sessions)
  BY DEF SoundInv, ManagerInv, ManagerTypes, Positions, CallLeaves
<1>2. async_sessions[it].status \in Status
  <2>1. async_sessions[it] \in Listed
    BY <1>1, ElementOfSeq
  <2> QED
    BY <2>1 DEF Listed
<1>3. Left \in Status /\ (async_sessions[it].status = "CLOSED" => Left = "CLOSED")
  BY <1>2 DEF CallLeaves, AfterSend, AfterRead, Status
<1>4. \/ pc = "send" /\ Manager!SendAs(Left)
      \/ pc = "read" /\ Manager!ReadAs(Left)
  BY DEF CallLeaves
<1> QED
  BY <1>1, <1>3, <1>4, PassManager

LEMMA PassSound ==
  ASSUME SoundInv, ~aborted, SendNext \/ ReadNext
  PROVE  SoundInv'
<1>1. SessionSound' /\ ((aborted' /\ UNCHANGED managerVars) \/ (~aborted' /\ CallLeaves))
  BY CallAllowed
<1>2. CASE aborted' /\ UNCHANGED managerVars
  <2>1. ManagerInv'
    <3>1. ManagerInv /\ UNCHANGED Manager!vars
      BY <1>2 DEF managerVars, Manager!vars, SoundInv
    <3> QED
      BY <3>1, OtherManager
  <2> QED
    BY <1>1, <1>2, <2>1 DEF SoundInv, StatusLinked
<1>3. CASE ~aborted' /\ CallLeaves
  <2>1. /\ ManagerInv' /\ it \in 1 .. Len(async_sessions)
        /\ Len(async_sessions') = Len(async_sessions)
        /\ \A j \in 1 .. Len(async_sessions) : j # it => async_sessions'[j] = async_sessions[j]
        /\ async_sessions'[it].status = Left
    BY <1>3, CallPasses
  <2>2. Len(async_sessions) \in 1 .. Len(async_sessions) /\ async_sessions # <<>>
    BY <2>1 DEF SoundInv, ManagerInv, ManagerTypes
  <2>3. async_sessions'[Len(async_sessions)].status = session'.status
    <3>1. CASE Current
      BY <1>3, <2>1, <3>1 DEF CallLeaves, Current
    <3>2. CASE ~Current
      <4>1. async_sessions'[Len(async_sessions)] = async_sessions[Len(async_sessions)]
        BY <2>1, <2>2, <3>2 DEF Current
      <4> QED
        BY <1>3, <2>2, <3>2, <4>1 DEF CallLeaves, SoundInv, StatusLinked
    <3> QED
      BY <3>1, <3>2
  <2> QED
    BY <1>1, <2>1, <2>3 DEF SoundInv, StatusLinked
<1> QED
  BY <1>1, <1>2, <1>3

LEMMA CollectSound ==
  ASSUME SoundInv, Manager!CollectClosed, UNCHANGED vars
  PROVE  SoundInv'
<1> DEFINE n == Len(async_sessions)
<1>1. /\ ManagerInv' /\ n \in Nat \ {0} /\ Len(async_sessions') = n - 1
      /\ \A i \in 1 .. n - 1 : async_sessions'[i] = async_sessions[i + 1]
  BY CollectManager DEF SoundInv
<1>2. SessionSound' /\ session' = session /\ aborted' = aborted
  BY SameSound DEF SoundInv, vars
<1>3. ASSUME async_sessions' # <<>>
      PROVE  async_sessions # <<>> /\ async_sessions'[n - 1] = async_sessions[n]
  <2>1. async_sessions' \in Seq(Listed)
    BY <1>1 DEF ManagerInv, ManagerTypes
  <2>2. n - 1 \in 1 .. n - 1 /\ (n - 1) + 1 = n
    BY <1>1, <1>3, <2>1
  <2> QED
    BY <1>1, <2>2
<1> QED
  BY <1>1, <1>2, <1>3 DEF SoundInv, StatusLinked

LEMMA OtherSound ==
  ASSUME SoundInv, UNCHANGED vars,
         \/ Manager!AddRequest \/ Manager!CallRun \/ Manager!PromoteThrows
         \/ Manager!PromoteDone \/ Manager!PerformIo \/ Manager!CollectSkip
         \/ Manager!CollectDone \/ Manager!Return \/ UNCHANGED Manager!vars
  PROVE  SoundInv'
<1>1. ManagerInv' /\ async_sessions' = async_sessions
  BY OtherManager DEF SoundInv
<1>2. SessionSound' /\ session' = session /\ aborted' = aborted
  BY SameSound DEF SoundInv, vars
<1> QED
  BY <1>1, <1>2 DEF SoundInv, StatusLinked

\* The kinds of step: a session is made, called or erased, or left alone.
LEMMA Steps ==
  ASSUME [ManagedNext]_everything
  PROVE  \/ ~aborted /\ Promote
         \/ ~aborted /\ (SendNext \/ ReadNext)
         \/ UNCHANGED vars /\ Manager!CollectClosed
         \/ /\ UNCHANGED vars
            /\ \/ Manager!AddRequest \/ Manager!CallRun \/ Manager!PromoteThrows
               \/ Manager!PromoteDone \/ Manager!PerformIo \/ Manager!CollectSkip
               \/ Manager!CollectDone \/ Manager!Return \/ UNCHANGED Manager!vars
<1>1. UNCHANGED everything => UNCHANGED vars /\ UNCHANGED Manager!vars
  BY DEF everything, Manager!vars
<1> QED
  BY <1>1 DEF ManagedNext, Run, Elsewhere, AddRequest, CallRun, Killed

LEMMA NextSound == SoundInv /\ [ManagedNext]_everything => SoundInv'
BY Steps, PromoteSound, PassSound, CollectSound, OtherSound

LEMMA InvariantSound == ManagedSpec => []SoundInv
<1>1. ManagedInit => SoundInv
  BY InitSound
<1> QED
  BY <1>1, NextSound, PTL DEF ManagedSpec

\* The collect loop of run (session.cpp:689), which moves its iterator only when it
\* erases a session, never stands on a session that is not closed, so that no call
\* of run hangs there: with one session at a time, for any requests and any peer.
THEOREM NeverHangs == ManagedSpec => []NeverSpins
<1>1. SoundInv => NeverSpins
  BY DEF SoundInv, ManagerInv
<1> QED
  BY <1>1, InvariantSound, PTL

\* What is proved of a session by itself holds of every session that run drives:
\* the manager calls send and read in an order, and after others' errors, that
\* leaves each session with at most the PDU it waits for, with heads that are
\* those it asked for, and, in a walk, with results that only increase.
THEOREM SessionsSound ==
  ManagedSpec => [](OneInFlight /\ HeadsMatchRequest /\ WalkIncreasing)
<1>1. SoundInv => OneInFlight /\ HeadsMatchRequest /\ WalkIncreasing
  BY HeadsAskedMatch, OrderedIncreases DEF SoundInv, SessionSound, IInv
<1> QED
  BY <1>1, InvariantSound, PTL

--------------------------------------------------------------------------------
(* The reads of a session of the list *)

LEMMA SameSession ==
  ASSUME SessionInv, UNCHANGED vars
  PROVE  SessionInv' /\ ReadsLeft' = ReadsLeft
<1>1. SessionSound'
  BY SameSound DEF SessionInv
<1> QED
  BY <1>1 DEF SessionInv, ReadsLeft, vars

\* No session of the list has been read too often; the last one, whose object is
\* session, has left no more reads than it may take.
Linked ==
  /\ \A i \in 1 .. Len(async_sessions) :
       async_sessions[i].reads <= MostReads(Manager!Queued(async_sessions[i].request))
  /\ async_sessions # <<>> /\ ~aborted /\ session.status # "CLOSED" =>
       LET last == async_sessions[Len(async_sessions)]
       IN  /\ session.request = Manager!Queued(last.request)
           /\ last.reads + ReadsLeft <= MostReads(session.request)

ManagedInv == SoundInv /\ SessionInv /\ Linked

LEMMA InitManaged == ManagedInit => ManagedInv
BY InitSound DEF ManagedInit, Manager!Init, ManagedInv, Linked

\* A session of the list, and the request it was made for.
LEMMA ListedRequest ==
  ASSUME ManagerTypes, NEW i \in 1 .. Len(async_sessions)
  PROVE  /\ async_sessions[i].request \in Manager!Ids /\ async_sessions[i].reads \in Nat
         /\ Manager!Queued(async_sessions[i].request) \in Requests
<1>1. async_sessions[i] \in Listed
  BY ElementOfSeq DEF ManagerTypes
<1> QED
  BY <1>1, QueuedRequests DEF Listed

LEMMA PromoteManaged ==
  ASSUME ManagedInv, Promote, ~aborted
  PROVE  ManagedInv'
<1> DEFINE n == Len(async_sessions)
           id == Head(pending_requests)
           request == Manager!Queued(id)
<1>1. /\ SoundInv /\ ManagerInv /\ Linked /\ pc = "promote" /\ Manager!MayPromote
      /\ Manager!PromoteAs(session'.status)
  BY DEF ManagedInv, SoundInv, Promote
<1>2. /\ request \in Requests /\ session'.request = request
      /\ session'.status \in {"IDLE", "CLOSED"} /\ SessionInv'
  BY <1>1, Promoted
<1>3. /\ n \in Nat /\ Len(async_sessions') = n + 1
      /\ \A i \in 1 .. n : async_sessions'[i] = async_sessions[i]
      /\ async_sessions'[n + 1] =
           [request |-> id, status |-> session'.status, reads |-> 0]
  <2>1. session'.status \in Status
    BY <1>2 DEF Status
  <2> QED
    BY <1>1, <2>1, PromoteManager
<1>4. async_sessions'[n + 1].request = id /\ async_sessions'[n + 1].reads = 0
  BY <1>3
<1>5. ReadsLeft' \in Nat /\ ReadsLeft' <= MostReads(request)
  <2>1. ReadsKnown'
    BY <1>2, ReadsLeftKnown, PTL
  <2> QED
    BY <1>2, <2>1 DEF ReadsKnown
<1>6. MostReads(request) \in Nat
  BY <1>2, RequestFacts
<1>7. \A i \in 1 .. n + 1 :
        async_sessions'[i].reads <= MostReads(Manager!Queued(async_sessions'[i].request))
  <2> SUFFICES ASSUME NEW i \in 1 .. n + 1
               PROVE  async_sessions'[i].reads
                        <= MostReads(Manager!Queued(async_sessions'[i].request))
    OBVIOUS
  <2>1. CASE i = n + 1
    BY <1>4, <1>6, <2>1
  <2>2. CASE i # n + 1
    <3>1. i \in 1 .. n
      BY <1>3, <2>2
    <3> QED
      BY <1>1, <1>3, <3>1 DEF Linked
  <2> QED
    BY <2>1, <2>2
<1>8. Linked'
  <2> HIDE DEF n, request, id
  <2>1. async_sessions'[Len(async_sessions')].reads + ReadsLeft' <= MostReads(request)
    BY <1>3, <1>4, <1>5, <1>6
  <2>2. request = Manager!Queued(async_sessions'[Len(async_sessions')].request)
    BY <1>3, <1>4 DEF request
  <2> QED
    BY <1>2, <1>3, <1>7, <2>1, <2>2 DEF Linked
<1> QED
  BY <1>1, <1>2, <1>8, PromoteSound DEF ManagedInv

LEMMA AtMostMost ==
  ASSUME NEW a \in Nat, NEW b \in Nat, NEW c \in Nat, a <= b, b <= c
  PROVE  a <= c
OBVIOUS

\* A read that is counted is one of those that were left.
LEMMA ReadCounted ==
  ASSUME NEW reads \in Nat, NEW left \in Nat, NEW later \in Nat, NEW most \in Nat,
         later + 1 <= left, reads + left <= most
  PROVE  (reads + 1) + later <= reads + left /\ reads + 1 <= most
OBVIOUS

\* What a pass over the list leaves of the bound, given what it does to the session
\* it has come to and to the object of the last one.
LEMMA PassKeepsLinked ==
  ASSUME ManagedInv, ~aborted,
         it \in 1 .. Len(async_sessions),
         Len(async_sessions') = Len(async_sessions),
         \A j \in 1 .. Len(async_sessions) : j # it => async_sessions'[j] = async_sessions[j],
         PassedBy(async_sessions[it], async_sessions'[it]),
         async_sessions'[it].reads <= MostReads(Manager!Queued(async_sessions[it].request)),
         session'.request = session.request,
         session.status = "CLOSED" => session'.status = "CLOSED",
         ReadsLeft' \in Nat,
         session.status # "CLOSED" =>
           async_sessions'[Len(async_sessions)].reads + ReadsLeft'
             <= async_sessions[Len(async_sessions)].reads + ReadsLeft
  PROVE  Linked'
<1> DEFINE n == Len(async_sessions)
<1>1. /\ ManagerTypes /\ Linked /\ ReadsLeft \in Nat /\ session.request \in Requests
  BY ReadsLeftType DEF ManagedInv, SoundInv, ManagerInv, SessionSound
<1>2. n \in Nat /\ n \in 1 .. n /\ async_sessions # <<>>
  BY <1>1 DEF ManagerTypes
<1>3. \A i \in 1 .. n : async_sessions'[i].request = async_sessions[i].request
  BY DEF PassedBy
<1>4. \A i \in 1 .. n :
        async_sessions'[i].reads <= MostReads(Manager!Queued(async_sessions'[i].request))
  <2> SUFFICES ASSUME NEW i \in 1 .. n
               PROVE  async_sessions'[i].reads
                        <= MostReads(Manager!Queued(async_sessions'[i].request))
    OBVIOUS
  <2>1. CASE i = it
    BY <1>3, <2>1
  <2>2. CASE i # it
    BY <1>1, <2>2 DEF Linked
  <2> QED
    BY <2>1, <2>2
<1>5. ASSUME session'.status # "CLOSED"
      PROVE  /\ session'.request = Manager!Queued(async_sessions'[n].request)
             /\ async_sessions'[n].reads + ReadsLeft' <= MostReads(session'.request)
  <2>1. /\ session.request = Manager!Queued(async_sessions[n].request)
        /\ async_sessions[n].reads + ReadsLeft <= MostReads(session.request)
    BY <1>1, <1>2, <1>5 DEF Linked
  <2>2. async_sessions[n].reads \in Nat /\ async_sessions'[n].reads \in Nat
    <3>1. async_sessions[n].reads \in Nat
      BY <1>1, <1>2, ListedRequest
    <3>2. async_sessions'[it].reads \in Nat
      <4>1. async_sessions'[it] \in Listed
        BY DEF PassedBy
      <4> QED
        BY <4>1 DEF Listed
    <3>3. it # n => async_sessions'[n] = async_sessions[n]
      BY <1>2
    <3> HIDE DEF n
    <3>4. CASE it = n
      BY <3>1, <3>2, <3>4
    <3>5. CASE it # n
      BY <3>1, <3>3, <3>5
    <3> QED
      BY <3>4, <3>5
  <2>3. MostReads(session.request) \in Nat
    BY <1>1, RequestFacts
  <2>4. /\ async_sessions'[n].reads + ReadsLeft' <= async_sessions[n].reads + ReadsLeft
        /\ async_sessions'[n].request = async_sessions[n].request
    BY <1>2, <1>3, <1>5
  <2>5. async_sessions'[n].reads + ReadsLeft' <= MostReads(session.request)
    <3> DEFINE before == async_sessions[n].reads + ReadsLeft
               after == async_sessions'[n].reads + ReadsLeft'
               most == MostReads(session.request)
    <3>1. before \in Nat /\ after \in Nat /\ after <= before /\ before <= most
      BY <1>1, <2>1, <2>2, <2>4
    <3> HIDE DEF before, after, most
    <3>2. most \in Nat
      BY <2>3 DEF most
    <3>3. after <= most
      BY <3>1, <3>2, AtMostMost, Zenon
    <3> QED
      BY <3>3 DEF after, most
  <2> QED
    BY <2>1, <2>4, <2>5
<1> QED
  BY <1>4, <1>5 DEF Linked, n

LEMMA PassManaged ==
  ASSUME AnswersWithin, ManagedInv, ~aborted, SendNext \/ ReadNext
  PROVE  ManagedInv'
<1> DEFINE n == Len(async_sessions)
           s == async_sessions[it]
           t == async_sessions'[it]
<1>1. /\ SoundInv /\ ManagerTypes /\ SessionInv /\ SessionSound /\ Linked /\ OnlyLastOpen
      /\ StatusLinked
      /\ it \in 1 .. n /\ n \in Nat /\ async_sessions # <<>> /\ ReadsLeft \in Nat
  BY ReadsLeftType DEF ManagedInv, SoundInv, ManagerInv, ManagerTypes, Positions, SendNext,
     ReadNext
<1>2. /\ session'.request = session.request
      /\ (aborted' /\ UNCHANGED managerVars) \/ (~aborted' /\ CallLeaves)
  BY <1>1, CallAllowed
<1>3. SoundInv'
  BY <1>1, PassSound
<1>4. \/ SendNext /\ Current /\ session.status = "IDLE" /\ Send
      \/ ReadNext /\ Current /\ session.status = "WAIT" /\ Read
      \/ UNCHANGED vars /\ ~(pc = "read" /\ Current /\ session.status = "WAIT")
  BY DEF SendNext, ReadNext
<1>5. SessionInv'
  BY <1>1, <1>4, SendLeaves, ReadLeaves, SameSession
<1>6. CASE aborted' /\ UNCHANGED managerVars
  <2>1. Linked'
    BY <1>1, <1>6 DEF managerVars, Linked
  <2> QED
    BY <1>3, <1>5, <2>1 DEF ManagedInv
<1>7. CASE ~aborted' /\ CallLeaves
  <2>1. /\ Len(async_sessions') = n
        /\ \A j \in 1 .. n : j # it => async_sessions'[j] = async_sessions[j]
        /\ PassedBy(s, t)
    BY <1>1, <1>7, CallPasses
  <2>2. /\ s.reads \in Nat /\ s.reads <= MostReads(Manager!Queued(s.request))
        /\ MostReads(Manager!Queued(s.request)) \in Nat
    BY <1>1, ListedRequest, RequestFacts DEF Linked
  <2>3. ReadsLeft' \in Nat
    <3>1. ReadsKnown'
      BY <1>5, ReadsLeftKnown, PTL
    <3> QED
      BY <3>1 DEF ReadsKnown
  <2>4. /\ (session.status = "CLOSED" => session'.status = "CLOSED")
        /\ t.reads <= MostReads(Manager!Queued(s.request))
        /\ (session.status # "CLOSED" =>
              async_sessions'[n].reads + ReadsLeft' <= async_sessions[n].reads + ReadsLeft)
    <3>1. CASE SendNext /\ Current /\ session.status = "IDLE" /\ Send
      <4>1. ReadsLeft' <= ReadsLeft /\ pc = "send"
        BY <1>1, <3>1, SendLeaves DEF SendNext
      <4>2. it = n /\ t.reads = s.reads /\ session.status # "CLOSED"
        BY <2>1, <3>1, <4>1 DEF Current, PassedBy
      <4> QED
        BY <1>1, <2>2, <2>3, <4>1, <4>2
    <3>2. CASE ReadNext /\ Current /\ session.status = "WAIT" /\ Read
      <4>1. ReadsLeft' + 1 <= ReadsLeft /\ pc = "read"
        BY <1>1, <3>2, ReadLeaves DEF ReadNext
      <4>2. /\ it = n /\ s.status = "WAIT" /\ session.status # "CLOSED"
            /\ s.reads + ReadsLeft <= MostReads(Manager!Queued(s.request))
        <5>1. /\ async_sessions[n].status = "WAIT"
              /\ session.request = Manager!Queued(async_sessions[n].request)
              /\ async_sessions[n].reads + ReadsLeft <= MostReads(session.request)
          BY <1>1, <3>2 DEF Linked, StatusLinked
        <5> QED
          BY <3>2, <5>1 DEF Current
      <4>3. t.reads = s.reads + 1
        BY <2>1, <4>1, <4>2 DEF PassedBy
      <4> HIDE DEF s, t
      <4>4. /\ (s.reads + 1) + ReadsLeft' <= s.reads + ReadsLeft
            /\ s.reads + 1 <= MostReads(Manager!Queued(s.request))
        BY <1>1, <2>2, <2>3, <4>1, <4>2, ReadCounted, Zenon
      <4>5. /\ t.reads + ReadsLeft' <= s.reads + ReadsLeft
            /\ t.reads <= MostReads(Manager!Queued(s.request))
        BY <4>3, <4>4, Zenon
      <4> QED
        BY <4>2, <4>5 DEF s, t
    <3>3. CASE UNCHANGED vars /\ ~(pc = "read" /\ Current /\ session.status = "WAIT")
      <4>1. ReadsLeft' = ReadsLeft /\ session' = session
        BY <1>1, <3>3, SameSession DEF vars
      <4>2. pc = "read" => s.status # "WAIT"
        <5>1. CASE it = n
          BY <1>1, <3>3, <5>1 DEF Current, StatusLinked
        <5>2. CASE it # n
          BY <1>1, <5>2 DEF OnlyLastOpen
        <5> QED
          BY <5>1, <5>2
      <4>3. t.reads = s.reads
        BY <2>1, <4>2 DEF PassedBy
      <4>4. async_sessions'[n].reads = async_sessions[n].reads
        <5>1. CASE it = n
          BY <4>3, <5>1
        <5>2. CASE it # n
          BY <1>1, <2>1, <5>2
        <5> QED
          BY <5>1, <5>2
      <4>5. async_sessions[n].reads \in Nat
        <5>1. n \in 1 .. n
          BY <1>1
        <5> QED
          BY <1>1, <5>1, ListedRequest
      <4> QED
        BY <1>1, <2>2, <4>1, <4>3, <4>4, <4>5
    <3> QED
      BY <1>4, <3>1, <3>2, <3>3
  <2>5. Linked'
    BY <1>1, <1>2, <2>1, <2>3, <2>4, PassKeepsLinked
  <2> QED
    BY <1>3, <1>5, <2>5 DEF ManagedInv
<1> QED
  BY <1>2, <1>6, <1>7

\* The list loses its first session; the object of the last one stays what it is.
LEMMA CollectManaged ==
  ASSUME ManagedInv, Manager!CollectClosed, UNCHANGED vars
  PROVE  ManagedInv'
<1> DEFINE n == Len(async_sessions)
<1>1. SoundInv /\ ManagerInv /\ SessionInv /\ Linked
  BY DEF ManagedInv, SoundInv
<1>2. /\ SoundInv' /\ ManagerInv' /\ n \in Nat \ {0} /\ Len(async_sessions') = n - 1
      /\ \A i \in 1 .. n - 1 : async_sessions'[i] = async_sessions[i + 1]
  BY <1>1, CollectManager, CollectSound
<1>3. SessionInv' /\ ReadsLeft' = ReadsLeft /\ session' = session /\ aborted' = aborted
  BY <1>1, SameSession DEF vars
<1>4. \A i \in 1 .. n : async_sessions[i].reads
                          <= MostReads(Manager!Queued(async_sessions[i].request))
  BY <1>1 DEF Linked
<1> HIDE DEF n
<1>5. \A i \in 1 .. n - 1 : async_sessions'[i].reads
                              <= MostReads(Manager!Queued(async_sessions'[i].request))
  <2> SUFFICES ASSUME NEW i \in 1 .. n - 1
               PROVE  async_sessions'[i].reads
                        <= MostReads(Manager!Queued(async_sessions'[i].request))
    OBVIOUS
  <2>1. i + 1 \in 1 .. n
    BY <1>2
  <2> QED
    BY <1>2, <1>4, <2>1
<1>6. async_sessions' # <<>> =>
        async_sessions # <<>> /\ async_sessions'[n - 1] = async_sessions[n]
  <2>1. async_sessions' \in Seq(Listed) /\ async_sessions \in Seq(Listed)
    BY <1>1, <1>2 DEF ManagerInv, ManagerTypes
  <2>2. async_sessions # <<>>
    BY <1>2 DEF n
  <2>3. ASSUME async_sessions' # <<>> PROVE async_sessions'[n - 1] = async_sessions[n]
    <3>1. Len(async_sessions') # 0
      BY <2>1, <2>3
    <3>2. n - 1 \in 1 .. n - 1 /\ (n - 1) + 1 = n
      BY <1>2, <3>1
    <3> QED
      BY <1>2, <3>2
  <2> QED
    BY <2>2, <2>3
<1>7. Linked'
  BY <1>1, <1>2, <1>3, <1>5, <1>6 DEF Linked, n
<1> QED
  BY <1>2, <1>3, <1>7 DEF ManagedInv

LEMMA OtherManaged ==
  ASSUME ManagedInv, UNCHANGED vars,
         \/ Manager!AddRequest \/ Manager!CallRun \/ Manager!PromoteThrows
         \/ Manager!PromoteDone \/ Manager!PerformIo \/ Manager!CollectSkip
         \/ Manager!CollectDone \/ Manager!Return \/ UNCHANGED Manager!vars
  PROVE  ManagedInv'
<1>1. SoundInv /\ SessionInv /\ Linked
  BY DEF ManagedInv
<1>2. SoundInv' /\ async_sessions' = async_sessions
  BY <1>1, OtherSound, OtherManager DEF SoundInv
<1>3. SessionInv' /\ ReadsLeft' = ReadsLeft /\ session' = session /\ aborted' = aborted
  BY <1>1, SameSession DEF vars
<1>4. Linked'
  BY <1>1, <1>2, <1>3 DEF Linked
<1> QED
  BY <1>2, <1>3, <1>4 DEF ManagedInv

LEMMA NextManaged ==
  ASSUME AnswersWithin
  PROVE  ManagedInv /\ [ManagedNext]_everything => ManagedInv'
BY Steps, PromoteManaged, PassManaged, CollectManaged, OtherManaged

LEMMA InvariantManaged ==
  ASSUME AnswersWithin
  PROVE  ManagedSpec => []ManagedInv
<1>1. ManagedInv /\ [ManagedNext]_everything => ManagedInv'
  BY NextManaged
<1> QED
  BY <1>1, InitManaged, PTL DEF ManagedSpec

LEMMA ManagedSuffices == ManagedInv => MaxReadsSuffice
<1> SUFFICES ASSUME ManagedInv PROVE MaxReadsSuffice
  OBVIOUS
<1>1. ManagerTypes /\ Linked /\ DOMAIN async_sessions = 1 .. Len(async_sessions)
  BY DEF ManagedInv, SoundInv, ManagerInv, ManagerTypes
<1>2. ASSUME NEW i \in 1 .. Len(async_sessions)
      PROVE  async_sessions[i].reads < MaxReads
  <2> DEFINE request == Manager!Queued(async_sessions[i].request)
  <2>1. async_sessions[i].reads \in Nat /\ request \in Requests
    BY <1>1, ListedRequest
  <2>2. async_sessions[i].reads <= MostReads(request)
    BY <1>1 DEF Linked
  <2> HIDE DEF request
  <2>3. MostReads(request) \in Nat /\ MostReads(request) < MaxReads /\ MaxReads \in Nat
    BY <2>1, RequestFacts, EnoughReads
  <2> QED
    BY <2>1, <2>2, <2>3
<1> QED
  BY <1>1, <1>2 DEF MaxReadsSuffice

\* However the peer answers, a session that run drives is closed after a number of
\* reads that its request and the OIDs of the peer bound: none is read as often as
\* MaxReads, and SessionManager, where the read before that one closes the session
\* and the liveness of run rests on it, is right about it.
THEOREM ReadsSuffice ==
  ASSUME AnswersWithin
  PROVE  ManagedSpec => []MaxReadsSuffice
<1>1. ManagedSpec => []ManagedInv
  BY InvariantManaged
<1> QED
  BY <1>1, ManagedSuffices, PTL

--------------------------------------------------------------------------------
(* The manager with real sessions implements SessionManager *)

LEMMA SameConstructor ==
  ASSUME NEW request
  PROVE  Manager!ConstructorThrows(request) <=> ConstructorThrows(request)
<1>1. ASSUME NEW a, NEW b
      PROVE  Manager!RangeThrows(a, b) <=> RangeThrows(a, b)
  <2>1. Manager!OidLT(b, a) <=> OidLT(b, a)
    BY DEF Manager!OidLT, OidLT
  <2> QED
    BY <2>1 DEF Manager!RangeThrows, RangeThrows
<1>2. ASSUME NEW root, NEW range
      PROVE  Manager!RootedRange(root, range) = RootedRange(root, range)
  BY DEF Manager!RootedRange, RootedRange, Manager!ValueOr, ValueOr, Manager!Everything,
         Everything, Manager!None, None
<1>3. ASSUME NEW root, NEW range
      PROVE  Manager!HeadThrows(root, range) <=> HeadThrows(root, range)
  BY <1>1, <1>2 DEF Manager!HeadThrows, HeadThrows
<1> QED
  BY <1>3 DEF Manager!ConstructorThrows, ConstructorThrows, Manager!Some, Some

LEMMA PromoteImplements ==
  ASSUME SoundInv, Promote, ~aborted
  PROVE  Manager!Promote
<1>1. /\ session'.status \in Manager!Created
      /\ Manager!ConstructorThrows(Manager!Queued(Head(pending_requests)))
           => session'.status = "CLOSED"
  BY Promoted, SameConstructor DEF Manager!Created
<1> QED
  BY <1>1 DEF Promote, Manager!Promote

LEMMA PassImplements ==
  ASSUME SoundInv, ~aborted, SendNext \/ ReadNext, MaxReadsSuffice'
  PROVE  Manager!SendNext \/ Manager!ReadNext \/ UNCHANGED Manager!vars
<1>1. CASE UNCHANGED managerVars
  BY <1>1 DEF managerVars, Manager!vars
<1>2. CASE pc = "send" /\ CallLeaves
  BY <1>2 DEF CallLeaves, AfterSend, Manager!AfterSend, Manager!SendNext
<1>3. CASE pc = "read" /\ CallLeaves
  <2> DEFINE s == async_sessions[it]
             t == async_sessions'[it]
  <2>1. /\ PassedBy(s, t) /\ ManagerInv' /\ it \in 1 .. Len(async_sessions)
        /\ Len(async_sessions') = Len(async_sessions)
    BY <1>3, CallPasses
  <2>2. t.reads < MaxReads
    <3>1. it \in DOMAIN async_sessions'
      BY <2>1 DEF ManagerInv, ManagerTypes
    <3> QED
      BY <3>1 DEF MaxReadsSuffice
  <2>3. t.reads \in Nat /\ MaxReads \in Nat
    BY <2>1, EnoughReads DEF PassedBy, Listed
  <2>4. ~(s.status = "WAIT" /\ s.reads + 1 = MaxReads)
    <3> HIDE DEF s, t
    <3> QED
      BY <1>3, <2>1, <2>2, <2>3 DEF PassedBy
  <2>5. Left \in Manager!AfterRead(s.status) /\ Manager!ReadAs(Left)
    BY <1>3 DEF CallLeaves, AfterRead, Manager!AfterRead
  <2> QED
    BY <1>3, <2>4, <2>5 DEF Manager!ReadNext
<1> QED
  BY <1>1, <1>2, <1>3, CallAllowed DEF CallLeaves

\* A manager with real sessions does nothing that SessionManager does not say: the
\* statuses that the constructor, send and read of a real session leave in the list
\* are those it lets them leave, a division by zero is no step of it, and no session
\* is read so often that it would have to be closed.  So what is proved of
\* SessionManager holds of it.
THEOREM ManagerImplemented ==
  ASSUME AnswersWithin
  PROVE  ManagedSpec => ImplementsManager
<1>1. ManagedInit => Manager!Init
  BY DEF ManagedInit
<1>2. ManagedInv /\ MaxReadsSuffice' /\ [ManagedNext]_everything
        => [Manager!Next]_(Manager!vars)
  <2> SUFFICES ASSUME ManagedInv, MaxReadsSuffice', [ManagedNext]_everything
               PROVE  [Manager!Next]_(Manager!vars)
    OBVIOUS
  <2>1. CASE ~aborted /\ Promote
    BY <2>1, PromoteImplements DEF ManagedInv, Manager!Next, Manager!Run
  <2>2. CASE ~aborted /\ (SendNext \/ ReadNext)
    BY <2>2, PassImplements DEF ManagedInv, Manager!Next, Manager!Run
  <2>3. CASE \/ Manager!CollectClosed
             \/ Manager!AddRequest \/ Manager!CallRun \/ Manager!PromoteThrows
             \/ Manager!PromoteDone \/ Manager!PerformIo \/ Manager!CollectSkip
             \/ Manager!CollectDone \/ Manager!Return \/ UNCHANGED Manager!vars
    BY <2>3 DEF Manager!Next, Manager!Run
  <2> QED
    BY <2>1, <2>2, <2>3, Steps
<1>3. ManagedSpec => []ManagedInv
  BY InvariantManaged
<1> QED
  BY <1>1, <1>2, <1>3, ManagedSuffices, PTL
     DEF ManagedSpec, ImplementsManager, Manager!Spec

================================================================================
