--------------------------- MODULE SessionAgentProofs ---------------------------
(*******************************************************************************)
(* Theorems about a session and its agent, for every set of instances and all  *)
(* faults: a walk that ends without an error has collected what the agent      *)
(* holds below its roots, and a get has accounted for every OID once.  They    *)
(* hold of the agents and requests the findings leave: an agent that answers   *)
(* in whole rows, and requests without ranges or retries.                      *)
(*******************************************************************************)
EXTENDS SessionAgent, SessionProofs, FiniteSetTheorems

--------------------------------------------------------------------------------
(* What is assumed of the agent and of the requests *)

\* The agent answers every request in whole rows (README, finding 4, shows why).
WholeRows == \A pdu \in RequestPdu : Replies(pdu) \subseteq WholeRowReplies(pdu)

\* No request has ranges or retries (findings 1 and 3).
Plain == \A request \in Requests : request.ranges = <<>> /\ request.config.retries = 0

--------------------------------------------------------------------------------
(* The successor of an OID *)

\* A finite set of OIDs has a first one: one with the fewest before it.
LEMMA FirstOid ==
  ASSUME NEW S \in SUBSET Oid, IsFiniteSet(S), S # {}
  PROVE  \E first \in S : \A n \in S : OidLE(first, n)
<1> DEFINE Before(m) == { x \in S : OidLT(x, m) }
           Counts == { Cardinality(Before(m)) : m \in S }
<1>1. \A m \in S : IsFiniteSet(Before(m)) /\ Cardinality(Before(m)) \in Nat
  <2> TAKE m \in S
  <2>1. Before(m) \in SUBSET S
    OBVIOUS
  <2> QED
    BY <2>1, FS_Subset, FS_CardinalityType
<1>2. PICK first \in S : \A m \in S : Cardinality(Before(first)) <= Cardinality(Before(m))
  <2>1. Counts \in SUBSET Nat /\ Counts # {}
    BY <1>1
  <2>2. PICK least \in Counts : \A n \in Counts : least <= n
    <3> HIDE DEF Counts
    <3> QED
      BY <2>1, LeastElement
  <2> QED
    BY <2>2
<1>3. ASSUME NEW n \in S, OidLT(n, first) PROVE FALSE
  <2>1. n \in Oid /\ first \in Oid
    OBVIOUS
  <2>2. Before(n) \subseteq Before(first)
    <3>1. \A x \in S : OidLT(x, n) => OidLT(x, first)
      BY <1>3, <2>1, OidLTTransitive
    <3> QED
      BY <3>1
  <2>3. n \in Before(first) /\ n \notin Before(n)
    BY <1>3, <2>1, OidLTIrreflexive
  <2>4. IsFiniteSet(Before(first)) /\ Before(n) \in SUBSET Before(first)
    BY <1>1, <2>2
  <2>5. /\ Cardinality(Before(n)) <= Cardinality(Before(first))
        /\ Cardinality(Before(first)) = Cardinality(Before(n)) => Before(first) = Before(n)
    <3> HIDE DEF Before
    <3> QED
      BY <2>4, FS_Subset
  <2>6. Cardinality(Before(first)) # Cardinality(Before(n))
    <3> HIDE DEF Before
    <3> QED
      BY <2>3, <2>5
  <2> QED
    BY <1>1, <1>2, <2>5, <2>6
<1> QED
  BY <1>3, OidLTTotal DEF OidLE

\* The successor is the first of the instances behind the OID.
LEMMA NextOidIs ==
  ASSUME NEW oid \in Oid, HasNext(oid)
  PROVE  /\ NextOid(oid) \in Mib /\ NextOid(oid) \in Oid
         /\ OidLT(oid, NextOid(oid))
         /\ \A n \in Mib : OidLT(oid, n) => OidLE(NextOid(oid), n)
<1> DEFINE S == { m \in Mib : OidLT(oid, m) }
<1>1. S \in SUBSET Mib /\ S \in SUBSET Oid /\ IsFiniteSet(S) /\ S # {}
  BY MibAssumption, FS_Subset DEF HasNext
<1>2. \E m \in S : \A n \in S : OidLE(m, n)
  <2> HIDE DEF S
  <2> QED
    BY <1>1, FirstOid
<1>3. \E m \in Mib : OidLT(oid, m) /\ \A n \in Mib : OidLT(oid, n) => OidLE(m, n)
  BY <1>2
<1>4. /\ NextOid(oid) \in Mib /\ OidLT(oid, NextOid(oid))
      /\ \A n \in Mib : OidLT(oid, n) => OidLE(NextOid(oid), n)
  BY <1>3, Zenon DEF NextOid
<1> QED
  BY <1>4, MibAssumption

\* What the agent puts into an answer is a binding.
LEMMA RepetitionType ==
  ASSUME NEW oid \in Oid
  PROVE  /\ Repetition(oid) \in VarBind
         /\ Value(oid) \in VarBind
<1>1. HasNext(oid) => NextOid(oid) \in Oid
  BY NextOidIs
<1> QED
  BY <1>1 DEF Repetition, Value, VarBind, ValueTypes, WarningTypes

--------------------------------------------------------------------------------
(* The bindings of a reply *)

\* A column starts with the OID asked for and repeats.
LEMMA ColumnIs ==
  ASSUME NEW oid \in Oid, NEW N \in Nat, NEW column, column = Column(oid, N)
  PROVE  /\ column \in [0 .. N -> VarBind]
         /\ column[0] = Value(oid)
         /\ \A r \in 1 .. N : column[r] = Repetition(column[r - 1].oid)
<1> DEFINE first == Value(oid)
           F == [p \in VarBind \X (1 .. N) |-> Repetition(p[1].oid)]
           Body(g) == [r \in 0 .. N |-> IF r = 0 THEN first ELSE Repetition(g[r - 1].oid)]
           at == CHOOSE g : g = Body(g)
<1>1. first \in VarBind /\ \A b \in VarBind : Repetition(b.oid) \in VarBind
  BY RepetitionType DEF VarBind
<1>2. F \in [VarBind \X (1 .. N) -> VarBind]
  BY <1>1
<1>3. PICK g \in [0 .. N -> VarBind] :
        g[0] = first /\ \A r \in 1 .. N : g[r] = F[<<g[r - 1], r>>]
  <2> HIDE DEF F, first
  <2>1. VarBindProofs!Iterations(VarBind, first, N, F) # {}
    BY <1>1, <1>2, VarBindProofs!IterationExists
  <2> QED
    BY <2>1 DEF VarBindProofs!Iterations
<1> HIDE DEF first
<1>4. ASSUME NEW r \in 1 .. N PROVE g[r] = Repetition(g[r - 1].oid)
  <2>1. <<g[r - 1], r>> \in VarBind \X (1 .. N)
    OBVIOUS
  <2>2. F[<<g[r - 1], r>>] = Repetition(g[r - 1].oid)
    BY <2>1
  <2> QED
    BY <1>3, <2>2
<1> HIDE DEF at
<1>5. g = Body(g)
  <2>1. \A r \in 0 .. N : g[r] = IF r = 0 THEN first ELSE Repetition(g[r - 1].oid)
    BY <1>3, <1>4
  <2> QED
    BY <2>1
<1>6. at = Body(at)
  <2> HIDE DEF Body
  <2> QED
    BY <1>5 DEF at
<1>7. ASSUME NEW r \in 0 .. N
      PROVE  at[r] = IF r = 0 THEN first ELSE Repetition(at[r - 1].oid)
  BY <1>6, Zenon
<1>8. \A n \in Nat : n <= N => at[n] \in VarBind
  <2> DEFINE T == {n \in Nat : n <= N => at[n] \in VarBind}
  <2>1. 0 \in T
    BY <1>1, <1>7
  <2>2. ASSUME NEW n \in Nat, n \in T PROVE n + 1 \in T
    <3>1. CASE n + 1 <= N
      <4>1. at[n] \in VarBind /\ at[n + 1] = Repetition(at[n].oid)
        BY <1>7, <2>2, <3>1
      <4> QED
        BY <1>1, <4>1
    <3> QED
      BY <3>1
  <2>3. \A n \in Nat : n \in T
    <3> HIDE DEF T
    <3> QED
      BY <2>1, <2>2, VarBindProofs!Induction
  <2> QED
    BY <2>3
<1>9. at \in [0 .. N -> VarBind]
  <2>1. \A r \in 0 .. N : at[r] \in VarBind
    BY <1>8
  <2> QED
    BY <1>6, <2>1
<1>10. column = at
  BY DEF Column, at, first
<1> QED
  BY <1>7, <1>9, <1>10 DEF first

\* What the agent was asked for or has answered before the p-th binding.
Heard(oids, var_binds, p) ==
  { oids[j] : j \in 1 .. Len(oids) } \cup { var_binds[q].oid : q \in 1 .. p - 1 }

\* Every binding of an answer to a walk repeats an OID heard before it,
Chained(oids, var_binds) ==
  \A p \in 1 .. Len(var_binds) :
    \E v \in Heard(oids, var_binds, p) : var_binds[p] = Repetition(v)

\* and the successor of every OID asked for is among them.
FirstRow(oids, var_binds) ==
  \A j \in 1 .. Len(oids) : HasNext(oids[j]) =>
    \E p \in 1 .. Len(var_binds) : var_binds[p].oid = NextOid(oids[j])

\* The place of a binding of a GETBULK reply.
GridRow(n, p)    == ((p - 1) \div n) + 1
GridColumn(n, p) == ((p - 1) % n) + 1

\* Behind the first row there is a binding above, one repetition before.
LEMMA GridPlace ==
  ASSUME NEW n \in Nat \ {0}, NEW reps \in Nat, NEW p \in 1 .. n * reps
  PROVE  /\ GridRow(n, p) \in 1 .. reps /\ GridColumn(n, p) \in 1 .. n
         /\ p <= n => GridRow(n, p) = 1 /\ GridColumn(n, p) = p
         /\ p > n => /\ p - n \in 1 .. p - 1
                     /\ GridColumn(n, p - n) = GridColumn(n, p)
                     /\ GridRow(n, p - n) = GridRow(n, p) - 1
                     /\ GridRow(n, p) - 1 \in 1 .. reps
<1> SUFFICES ASSUME NEW row, row = GridRow(n, p), NEW j, j = GridColumn(n, p)
             PROVE  /\ row \in 1 .. reps /\ j \in 1 .. n
                    /\ p <= n => row = 1 /\ j = p
                    /\ p > n => /\ p - n \in 1 .. p - 1
                                /\ GridColumn(n, p - n) = j
                                /\ GridRow(n, p - n) = row - 1
                                /\ row - 1 \in 1 .. reps
  BY Zenon
<1>1. row \in 1 .. reps /\ j \in 1 .. n
  <2>1. n * reps = reps * n
    OBVIOUS
  <2> QED
    BY <2>1, HeadNumber DEF GridRow, GridColumn
<1>2. p - 1 = (row - 1) * n + (j - 1)
  BY <1>1 DEF GridRow, GridColumn
<1>3. ASSUME p <= n PROVE row = 1 /\ j = p
  BY <1>3 DEF GridRow, GridColumn
<1>4. ASSUME p > n
      PROVE  /\ p - n \in 1 .. p - 1
             /\ GridColumn(n, p - n) = j
             /\ GridRow(n, p - n) = row - 1
             /\ row - 1 \in 1 .. reps
  <2>1. (p - n) - 1 = (row - 2) * n + (j - 1)
    BY <1>1, <1>2 DEF GridRow, GridColumn
  <2>2. row - 2 \in Nat
    <3>1. row # 1
      BY <1>1, <1>2, <1>4
    <3> QED
      BY <1>1, <3>1
  <2>3. j - 1 \in 0 .. n - 1 /\ n > 0
    BY <1>1
  <2>4. ((p - n) - 1) \div n = row - 2 /\ ((p - n) - 1) % n = j - 1
    BY <1>1, <2>1, <2>2, <2>3 DEF GridRow, GridColumn
  <2> QED
    BY <1>1, <1>4, <2>2, <2>4 DEF GridRow, GridColumn
<1> QED
  BY <1>1, <1>3, <1>4

\* The first row of a GETBULK reply repeats the OIDs asked for, every other one the
\* row above it.
LEMMA BulkBindingsAre ==
  ASSUME NEW pdu \in RequestPdu
  PROVE  /\ BulkBindings(pdu) \in Seq(VarBind)
         /\ \A p \in 1 .. Len(BulkBindings(pdu)) :
              IF p <= Len(pdu.oids) THEN BulkBindings(pdu)[p] = Repetition(pdu.oids[p])
              ELSE /\ p - Len(pdu.oids) \in 1 .. p - 1
                   /\ BulkBindings(pdu)[p] =
                        Repetition(BulkBindings(pdu)[p - Len(pdu.oids)].oid)
<1> SUFFICES ASSUME NEW all, all = BulkBindings(pdu), NEW n, n = Len(pdu.oids)
             PROVE  /\ all \in Seq(VarBind)
                    /\ \A p \in 1 .. Len(all) :
                         IF p <= n THEN all[p] = Repetition(pdu.oids[p])
                         ELSE p - n \in 1 .. p - 1 /\ all[p] = Repetition(all[p - n].oid)
  BY Zenon
<1> DEFINE reps == pdu.max_repetitions
           column(j) == Column(pdu.oids[j], reps)
           N == n * reps
<1>1. n \in Nat /\ reps \in Nat /\ N \in Nat /\ pdu.oids \in Seq(Oid)
  BY DEF RequestPdu
<1>2. ASSUME NEW j \in 1 .. n
      PROVE  /\ column(j) \in [0 .. reps -> VarBind]
             /\ column(j)[0] = Value(pdu.oids[j])
             /\ \A r \in 1 .. reps : column(j)[r] = Repetition(column(j)[r - 1].oid)
  <2>1. pdu.oids[j] \in Oid
    BY <1>1
  <2> HIDE DEF reps
  <2> QED
    BY SMTT(30), <1>1, <2>1, ColumnIs
<1>3. all = [p \in 1 .. N |-> column(GridColumn(n, p))[GridRow(n, p)]]
  BY DEF BulkBindings, GridColumn, GridRow
<1> HIDE DEF reps, column
<1>4. ASSUME NEW p \in 1 .. N,
             NEW row, row = GridRow(n, p), NEW j, j = GridColumn(n, p)
      PROVE  /\ row \in 1 .. reps /\ j \in 1 .. n
             /\ p <= n => row = 1 /\ j = p
             /\ p > n => /\ p - n \in 1 .. p - 1
                         /\ GridColumn(n, p - n) = j
                         /\ GridRow(n, p - n) = row - 1
                         /\ row - 1 \in 1 .. reps
             /\ all[p] = column(j)[row]
  <2>1. n # 0
    <3>1. 0 * reps = 0
      BY <1>1
    <3> QED
      BY <1>1, <3>1
  <2>2. all[p] = column(GridColumn(n, p))[GridRow(n, p)]
    <3> HIDE DEF N
    <3> QED
      BY <1>3, Zenon
  <2>3. all[p] = column(j)[row]
    BY <1>4, <2>2
  <2>4. n \in Nat \ {0} /\ reps \in Nat /\ p \in 1 .. n * reps
    BY <1>1, <2>1
  <2>5. /\ row \in 1 .. reps /\ j \in 1 .. n
        /\ p <= n => row = 1 /\ j = p
        /\ p > n => /\ p - n \in 1 .. p - 1
                    /\ GridColumn(n, p - n) = j
                    /\ GridRow(n, p - n) = row - 1
                    /\ row - 1 \in 1 .. reps
    <3>1. n \in Nat \ {0} /\ reps \in Nat /\ p \in 1 .. n * reps
      BY <2>4
    <3> HIDE DEF N
    <3> QED
      BY ZenonT(60), <1>4, <3>1, GridPlace
  <2> QED
    BY <2>3, <2>5
<1>5. ASSUME NEW p \in 1 .. N PROVE all[p] \in VarBind
  <2> DEFINE j == GridColumn(n, p)
             r == GridRow(n, p)
  <2>1. all[p] = column(j)[r] /\ j \in 1 .. n /\ r \in 1 .. reps
    BY <1>4
  <2> HIDE DEF j, r
  <2> QED
    BY <1>1, <1>2, <2>1
<1>6. all \in Seq(VarBind) /\ Len(all) = N
  <2> HIDE DEF N
  <2>1. all \in [1 .. N -> VarBind]
    BY <1>3, <1>5
  <2> QED
    BY <1>1, <2>1
<1>7. ASSUME NEW p \in 1 .. N
      PROVE  IF p <= n THEN all[p] = Repetition(pdu.oids[p])
             ELSE p - n \in 1 .. p - 1 /\ all[p] = Repetition(all[p - n].oid)
  <2> DEFINE row == GridRow(n, p)
             j == GridColumn(n, p)
  <2>1. /\ row \in 1 .. reps /\ j \in 1 .. n /\ all[p] = column(j)[row]
        /\ p <= n => row = 1 /\ j = p
        /\ p > n => /\ p - n \in 1 .. p - 1 /\ GridColumn(n, p - n) = j
                    /\ GridRow(n, p - n) = row - 1 /\ row - 1 \in 1 .. reps
    BY <1>4
  <2> HIDE DEF row, j
  <2>2. all[p] = Repetition(column(j)[row - 1].oid)
    BY <1>2, <2>1
  <2>3. CASE p <= n
    <3>1. all[p] = Repetition(column(p)[0].oid) /\ column(p)[0] = Value(pdu.oids[p])
      BY <1>2, <2>1, <2>2, <2>3
    <3>2. Value(pdu.oids[p]).oid = pdu.oids[p]
      BY DEF Value
    <3> QED
      BY <2>3, <3>1, <3>2
  <2>4. CASE p > n
    <3>1. p - n \in 1 .. N
      BY <1>1, <2>1, <2>4
    <3>2. all[p - n] = column(j)[row - 1]
      BY <1>4, <2>1, <2>4, <3>1
    <3> QED
      BY <1>1, <2>1, <2>2, <2>4, <3>2
  <2> QED
    BY <1>1, <2>3, <2>4
<1> HIDE DEF N
<1> QED
  BY <1>6, <1>7 DEF N, reps

\* FirstMissing = 0: the OIDs are all held.
LEMMA NoneMissing ==
  ASSUME NEW pdu, NEW held, FirstMissing(pdu, held) = 0, Len(pdu.oids) \in Nat
  PROVE  \A j \in 1 .. Len(pdu.oids) : pdu.oids[j] \in held
<1> DEFINE I == { i \in 1 .. Len(pdu.oids) : pdu.oids[i] \notin held }
<1>1. FirstMissing(pdu, held) = IF I # {} THEN Min(I) ELSE 0
  BY DEF FirstMissing, SelectInSeq
<1>2. \A i \in I : i \in Nat /\ i # 0
  OBVIOUS
<1>3. I = {} \/ Min(I) \in I
  <2> HIDE DEF I
  <2>1. I \subseteq Nat
    BY <1>2
  <2> QED
    BY <2>1, MinType
<1>4. I = {}
  <2> HIDE DEF I
  <2> QED
    BY <1>1, <1>2, <1>3
<1> QED
  BY <1>4

\* An answer to a walk that is not an error, in whole rows.
LEMMA WalkAnswer ==
  ASSUME NEW pdu \in RequestPdu, pdu.command \in {"GETNEXT", "GETBULK"},
         NEW reply \in WholeRowReplies(pdu), reply.errstat = 0
  PROVE  Chained(pdu.oids, reply.var_binds) /\ FirstRow(pdu.oids, reply.var_binds)
<1> SUFFICES ASSUME NEW oids, oids = pdu.oids, NEW n, n = Len(oids),
                    NEW var_binds, var_binds = reply.var_binds
             PROVE  Chained(oids, var_binds) /\ FirstRow(oids, var_binds)
  OBVIOUS
<1>1. oids \in Seq(Oid) /\ n \in Nat /\ \A j \in 1 .. n : oids[j] \in Oid
  BY DEF RequestPdu
<1>2. \A oid : Value(oid).oid = oid /\ (HasNext(oid) => Repetition(oid).oid = NextOid(oid))
  BY DEF Repetition, Value
<1>3. CASE pdu.command = "GETNEXT"
  <2> DEFINE held == { oid \in ToSet(oids) : HasNext(oid) }
             missing == FirstMissing(pdu, held)
  <2>1. WholeRowReplies(pdu) = GetNextReplies(pdu)
    BY <1>3 DEF WholeRowReplies, RepliesFrom
  <2>2. missing = 0
    <3>1. missing # 0 => reply = ErrorReply(pdu, missing)
      BY <2>1 DEF GetNextReplies
    <3>2. \A i : ErrorReply(pdu, i).errstat = 2
      BY DEF ErrorReply
    <3> HIDE DEF missing
    <3> QED
      BY <3>1, <3>2
  <2>3. reply = Reply([i \in DOMAIN pdu.oids |-> Value(NextOid(pdu.oids[i]))])
    BY <2>1, <2>2 DEF GetNextReplies
  <2>4. var_binds = [i \in 1 .. n |-> Value(NextOid(oids[i]))]
    BY <1>1, <2>3 DEF Reply
  <2>5. \A j \in 1 .. n : HasNext(oids[j])
    <3> HIDE DEF held
    <3>1. \A j \in 1 .. n : oids[j] \in held
      BY <1>1, <2>2, NoneMissing
    <3> QED
      BY <3>1 DEF held
  <2>6. Len(var_binds) = n
    BY <1>1, <2>4
  <2>7. \A p \in 1 .. n : var_binds[p] = Repetition(oids[p])
    BY <2>4, <2>5 DEF Repetition
  <2> QED
    BY <1>2, <2>6, <2>7 DEF Chained, FirstRow, Heard
<1>4. CASE pdu.command = "GETBULK"
  <2> DEFINE all == BulkBindings(pdu)
  <2>1. reply \in BulkReplies(pdu, n)
    <3>1. WholeRowReplies(pdu) = BulkReplies(pdu, n)
      BY <1>4 DEF WholeRowReplies, RepliesFrom
    <3> QED
      BY <3>1
  <2>2. PICK k \in n .. Len(all) : reply = Reply(SubSeq(all, 1, k))
    BY <2>1 DEF BulkReplies
  <2>3. /\ all \in Seq(VarBind)
        /\ \A p \in 1 .. Len(all) :
             IF p <= n THEN all[p] = Repetition(oids[p])
             ELSE p - n \in 1 .. p - 1 /\ all[p] = Repetition(all[p - n].oid)
    BY BulkBindingsAre, Zenon
  <2> HIDE DEF all
  <2>4. /\ Len(var_binds) = k /\ k \in Nat /\ n <= k /\ k <= Len(all)
        /\ \A p \in 1 .. k : var_binds[p] = all[p]
    <3>1. var_binds = SubSeq(all, 1, k)
      BY <2>2 DEF Reply
    <3> QED
      BY <1>1, <2>3, <3>1
  <2>5. ASSUME NEW p \in 1 .. k
        PROVE  \E v \in Heard(oids, var_binds, p) : var_binds[p] = Repetition(v)
    <3>1. p \in 1 .. Len(all)
      BY <2>3, <2>4
    <3>2. CASE p <= n
      <4>1. var_binds[p] = Repetition(oids[p]) /\ p \in 1 .. n
        BY <2>3, <2>4, <3>1, <3>2
      <4> QED
        BY <4>1 DEF Heard
    <3>3. CASE ~(p <= n)
      <4>1. p - n \in 1 .. p - 1 /\ all[p] = Repetition(all[p - n].oid)
        BY <2>3, <3>1, <3>3
      <4>2. p - n \in 1 .. k
        BY <2>4, <4>1
      <4>3. var_binds[p] = Repetition(var_binds[p - n].oid)
        BY <2>4, <4>1, <4>2
      <4> QED
        BY <4>1, <4>3 DEF Heard
    <3> QED
      BY <3>2, <3>3
  <2>6. ASSUME NEW j \in 1 .. n, HasNext(oids[j])
        PROVE  j \in 1 .. k /\ var_binds[j].oid = NextOid(oids[j])
    <3>1. j \in 1 .. k /\ j \in 1 .. Len(all) /\ j <= n
      BY <1>1, <2>3, <2>4
    <3> QED
      BY <1>2, <2>3, <2>4, <2>6, <3>1
  <2> QED
    BY <2>4, <2>5, <2>6 DEF Chained, FirstRow
<1> QED
  BY <1>3, <1>4

\* An answer to a get that is not an error: one binding per OID, in their order.
LEMMA GetAnswer ==
  ASSUME NEW pdu \in RequestPdu, pdu.command = "GET",
         NEW reply \in WholeRowReplies(pdu), reply.errstat = 0
  PROVE  /\ Len(reply.var_binds) = Len(pdu.oids)
         /\ \A j \in 1 .. Len(pdu.oids) : reply.var_binds[j].oid = pdu.oids[j]
<1> DEFINE missing == FirstMissing(pdu, Mib)
           binding(oid) == IF oid \in Mib THEN Value(oid)
                           ELSE [oid |-> oid, type |-> "NO_SUCH_INSTANCE"]
<1>1. pdu.oids \in Seq(Oid) /\ Len(pdu.oids) \in Nat
  BY DEF RequestPdu
<1>2. WholeRowReplies(pdu) = GetReplies(pdu)
  BY DEF WholeRowReplies, RepliesFrom
<1>3. \/ reply = Reply([i \in DOMAIN pdu.oids |-> binding(pdu.oids[i])])
      \/ reply = ErrorReply(pdu, missing)
  BY <1>2 DEF GetReplies
<1>4. ErrorReply(pdu, missing).errstat = 2
  BY DEF ErrorReply
<1>5. reply = Reply([i \in DOMAIN pdu.oids |-> binding(pdu.oids[i])])
  BY <1>3, <1>4
<1>6. \A oid : binding(oid).oid = oid
  BY DEF Value
<1> HIDE DEF binding
<1>7. reply.var_binds = [i \in 1 .. Len(pdu.oids) |-> binding(pdu.oids[i])]
  BY <1>1, <1>5 DEF Reply
<1> QED
  BY <1>1, <1>6, <1>7

--------------------------------------------------------------------------------
(* The heads of a session without ranges *)

PlainRequest(request) ==
  request \in Request /\ ~AmbiguousRootOids(request.oids) /\ request.ranges = <<>>

\* How far a head has come: its last answer, else the OID asked for, else its root.
Position(head) == ValueOr(head.last_resp_oid, ValueOr(head.req_oid, head.root_oid))

\* A head stands for the root OID its index names, for everything below it, and
\* has not left it.
PlainHead(request, head) ==
  /\ head.root_oid_index + 1 \in 1 .. Len(request.oids)
  /\ head.root_oid = request.oids[head.root_oid_index + 1]
  /\ head.range = [start |-> head.root_oid, stop |-> head.root_oid]
  /\ IsRootOf(head.root_oid, Position(head))
  /\ request.type = "GET" => Position(head) = head.root_oid

Placed(s) ==
  /\ Distinct(s.heads)
  /\ \A k \in 1 .. Len(s.heads) : PlainHead(s.request, s.heads[k])

\* What the position of a head is, active, complete or at rest.
LEMMA HeadPosition ==
  ASSUME NEW head \in CollectionHead
  PROVE  /\ head.root_oid \in Oid /\ Position(head) \in Oid
         /\ Active(head) => Cursor(head) = Position(head)
         /\ Complete(head) => Position(head) = head.req_oid[1]
         /\ ~Active(head) => Position(head) = ValueOr(head.last_resp_oid, head.root_oid)
<1>1. /\ head.root_oid \in Oid /\ head.req_oid \in Optional(Oid)
      /\ head.last_resp_oid \in Optional(Oid)
  BY DEF CollectionHead
<1>2. ValueOr(head.req_oid, head.root_oid) \in Oid
  BY <1>1, OptionalType
<1>3. Position(head) \in Oid
  BY <1>1, <1>2, OptionalType DEF Position
<1> QED
  BY <1>1, <1>3 DEF Position, Cursor, Active, Complete, ValueOr

\* Two roots of the same OID lie below one another.
LEMMA RootsNested ==
  ASSUME NEW a \in Oid, NEW b \in Oid, NEW oid \in Oid, IsRootOf(a, oid), IsRootOf(b, oid)
  PROVE  IsRootOf(a, b) \/ IsRootOf(b, a)
<1>1. /\ Len(a) \in Nat /\ Len(b) \in Nat
      /\ Len(a) <= Len(oid) /\ \A j \in 1 .. Len(a) : a[j] = oid[j]
      /\ Len(b) <= Len(oid) /\ \A j \in 1 .. Len(b) : b[j] = oid[j]
  BY RootArcs DEF Oid
<1>2. CASE Len(a) <= Len(b)
  <2>1. \A j \in 1 .. Len(a) : a[j] = b[j]
    BY <1>1, <1>2
  <2> QED
    BY <1>2, <2>1, RootArcs
<1>3. CASE Len(b) <= Len(a)
  <2>1. \A j \in 1 .. Len(b) : b[j] = a[j]
    BY <1>1, <1>3
  <2> QED
    BY <1>3, <2>1, RootArcs
<1> QED
  BY <1>1, <1>2, <1>3

\* No OID lies below the roots of two heads: the constructor refuses such roots.
LEMMA SameHead ==
  ASSUME NEW request, PlainRequest(request), NEW heads \in Seq(CollectionHead), Distinct(heads),
         \A k \in 1 .. Len(heads) : PlainHead(request, heads[k]),
         NEW k \in 1 .. Len(heads), NEW l \in 1 .. Len(heads), NEW oid \in Oid,
         IsRootOf(heads[k].root_oid, oid), IsRootOf(heads[l].root_oid, oid)
  PROVE  k = l
<1> DEFINE i == heads[k].root_oid_index + 1
           j == heads[l].root_oid_index + 1
<1>1. request.oids \in Seq(Oid) /\ ~AmbiguousRootOids(request.oids)
  BY DEF PlainRequest, Request
<1>2. heads[k].root_oid_index \in Nat /\ heads[l].root_oid_index \in Nat
  <2>1. heads[k] \in CollectionHead /\ heads[l] \in CollectionHead
    OBVIOUS
  <2> QED
    BY <2>1 DEF CollectionHead
<1>3. /\ i \in 1 .. Len(request.oids) /\ heads[k].root_oid = request.oids[i]
      /\ j \in 1 .. Len(request.oids) /\ heads[l].root_oid = request.oids[j]
  BY DEF PlainHead
<1> HIDE DEF i, j
<1>4. /\ request.oids[i] \in Oid /\ request.oids[j] \in Oid
      /\ i \in DOMAIN request.oids /\ j \in DOMAIN request.oids /\ i \in Nat /\ j \in Nat
  BY <1>1, <1>3
<1>5. IsRootOf(request.oids[i], request.oids[j]) \/ IsRootOf(request.oids[j], request.oids[i])
  BY <1>3, <1>4, RootsNested
<1>6. ~(i < j) /\ ~(j < i)
  BY <1>1, <1>4, <1>5 DEF AmbiguousRootOids
<1>7. i = j
  BY <1>4, <1>6
<1> QED
  BY <1>2, <1>7 DEF i, j, Distinct

\* Which bindings such a head takes.
LEMMA PlainAccepts ==
  ASSUME NEW request, NEW head \in CollectionHead, PlainHead(request, head), NEW oid \in Oid
  PROVE  /\ Accepts(head, "WALK", oid) <=> Active(head) /\ IsRootOf(head.root_oid, oid)
         /\ Accepts(head, "GET", oid) <=> Active(head) /\ head.root_oid = oid
<1>1. /\ head.range.start = head.root_oid /\ head.range.stop = head.root_oid
      /\ head.root_oid \in Oid
  BY DEF PlainHead, CollectionHead
<1>2. IsRootOf(head.root_oid, head.root_oid)
  BY <1>1, RootArcs DEF Oid
<1>3. OidLE(head.root_oid, oid) /\ OidLE(oid, head.root_oid) => oid = head.root_oid
  BY <1>1, OidLTAsymmetric DEF OidLE
<1> QED
  BY <1>1, <1>2, <1>3 DEF Accepts

\* The heads behind the PDU in flight are at the OIDs it asks for.
LEMMA AskedHeads ==
  ASSUME NEW heads \in Seq(CollectionHead), NEW oids \in Seq(Oid), AskedFor(heads, oids)
  PROVE  /\ \A k \in 1 .. Len(heads) : Active(heads[k]) =>
              /\ Complete(heads[k])
              /\ \E j \in 1 .. Len(oids) :
                   heads[k].req_oid = Some(oids[j]) /\ Position(heads[k]) = oids[j]
         /\ \A j \in 1 .. Len(oids) : \E k \in 1 .. Len(heads) :
              /\ Active(heads[k]) /\ Complete(heads[k])
              /\ heads[k].req_oid = Some(oids[j]) /\ Position(heads[k]) = oids[j]
<1> SUFFICES ASSUME NEW n, n = Len(oids), NEW m, m = Len(heads)
             PROVE  /\ \A k \in 1 .. m : Active(heads[k]) =>
                         /\ Complete(heads[k])
                         /\ \E j \in 1 .. n :
                              heads[k].req_oid = Some(oids[j]) /\ Position(heads[k]) = oids[j]
                    /\ \A j \in 1 .. n : \E k \in 1 .. m :
                         /\ Active(heads[k]) /\ Complete(heads[k])
                         /\ heads[k].req_oid = Some(oids[j]) /\ Position(heads[k]) = oids[j]
  OBVIOUS
<1>1. n \in Nat /\ m \in Nat /\ n <= m
  BY DEF AskedFor
<1>2. ASSUME NEW k \in 1 .. m, k > m - n
      PROVE  /\ Active(heads[k]) /\ Complete(heads[k]) /\ k - (m - n) \in 1 .. n
             /\ heads[k].req_oid = Some(oids[k - (m - n)])
             /\ Position(heads[k]) = oids[k - (m - n)]
  <2>1. heads[k].req_oid = Some(oids[k - (m - n)]) /\ Complete(heads[k])
    BY <1>1, <1>2 DEF AskedFor
  <2>2. heads[k] \in CollectionHead
    OBVIOUS
  <2>3. Position(heads[k]) = heads[k].req_oid[1]
    BY <2>1, <2>2, HeadPosition
  <2> QED
    BY <1>1, <1>2, <2>1, <2>3 DEF Complete, Some
<1>3. \A k \in 1 .. m : Active(heads[k]) => k > m - n
  BY <1>1 DEF AskedFor
<1>4. ASSUME NEW k \in 1 .. m, Active(heads[k])
      PROVE  /\ Complete(heads[k])
             /\ \E j \in 1 .. n :
                  heads[k].req_oid = Some(oids[j]) /\ Position(heads[k]) = oids[j]
  BY <1>2, <1>3, <1>4
<1>5. ASSUME NEW j \in 1 .. n
      PROVE  \E k \in 1 .. m :
               /\ Active(heads[k]) /\ Complete(heads[k])
               /\ heads[k].req_oid = Some(oids[j]) /\ Position(heads[k]) = oids[j]
  <2> DEFINE k == (m - n) + j
  <2>1. k \in 1 .. m /\ k > m - n /\ k - (m - n) = j
    BY <1>1
  <2> HIDE DEF k
  <2> QED
    BY <1>2, <2>1
<1> QED
  BY <1>4, <1>5

\* Activating a head at rest does not move it.
LEMMA ActivateStays ==
  ASSUME NEW head \in CollectionHead, ~Active(head), NEW front, front = Activate(head)
  PROVE  /\ Position(front) = Position(head)
         /\ front.req_oid = Some(Position(head))
         /\ \A request : PlainHead(request, head) => PlainHead(request, front)
<1>1. /\ front \in CollectionHead /\ Complete(front)
      /\ front.req_oid = Some(ValueOr(head.last_resp_oid, head.root_oid))
      /\ front.root_oid_index = head.root_oid_index
      /\ front.root_oid = head.root_oid /\ front.range = head.range
  BY ActivateEffect DEF Complete
<1>2. front.req_oid = Some(Position(head)) /\ Position(front) = front.req_oid[1]
  BY <1>1, HeadPosition
<1>3. Position(front) = Position(head)
  BY <1>2 DEF Some
<1> QED
  BY <1>1, <1>2, <1>3 DEF PlainHead

\* Nor does laying a head with an answer, or one that was not asked for, to rest.
LEMMA RestingStays ==
  ASSUME NEW head \in CollectionHead, ~Complete(head), NEW rest, rest = Resting(head)
  PROVE  /\ Position(rest) = Position(head)
         /\ \A request : PlainHead(request, head) => PlainHead(request, rest)
<1>1. /\ rest \in CollectionHead /\ ~Active(rest)
      /\ rest.last_resp_oid = head.last_resp_oid
      /\ rest.root_oid_index = head.root_oid_index
      /\ rest.root_oid = head.root_oid /\ rest.range = head.range
  BY RestingEffect
<1>2. Position(rest) = Position(head)
  <2>1. Position(rest) = ValueOr(head.last_resp_oid, head.root_oid)
    BY <1>1, HeadPosition
  <2> QED
    BY <2>1 DEF Position, Complete, Active, ValueOr
<1> QED
  BY <1>1, <1>2 DEF PlainHead

--------------------------------------------------------------------------------
(* A walk and the bindings of an answer *)

Held(results) == { results[i].oid : i \in 1 .. Len(results) }

\* The head has not gone past the instance, and lies above it.
Ahead(head, m) == IsRootOf(head.root_oid, m) /\ OidLT(Position(head), m)

\* What a walk should collect and has not is ahead of one of its heads.
Covered(s) ==
  \A m \in Wanted(s.request) :
    m \in Held(s.results) \/ \E k \in 1 .. Len(s.heads) : Ahead(s.heads[k], m)

\* What it has collected, it should, and with a value.
Genuine(s) ==
  \A i \in 1 .. Len(s.results) :
    s.results[i].type = "VALUE" /\ s.results[i].oid \in Wanted(s.request)

\* The heads that were asked for have come at least as far as what was heard.
Reached(heads, oids) ==
  \A oid \in oids, k \in 1 .. Len(heads) :
    Active(heads[k]) /\ IsRootOf(heads[k].root_oid, oid) => OidLE(oid, Position(heads[k]))

\* Without ranges a walk should collect what lies below its roots.
LEMMA WantedIs ==
  ASSUME NEW request, PlainRequest(request), NEW m
  PROVE  m \in Wanted(request) <=>
           /\ m \in Mib
           /\ \E i \in 1 .. Len(request.oids) :
                request.oids[i] # m /\ IsRootOf(request.oids[i], m)
<1>1. DOMAIN request.oids = 1 .. Len(request.oids) /\ request.ranges = <<>>
  BY DEF PlainRequest, Request
<1>2. \A root, oid : InRanges(request, root, oid)
  BY <1>1 DEF InRanges
<1> QED
  BY <1>1, <1>2 DEF Wanted

\* A head that has moved on to a binding.
LEMMA MovedHead ==
  ASSUME NEW head \in CollectionHead, Active(head), NEW oid \in Oid,
         NEW moved, moved = [head EXCEPT !.last_resp_oid = Some(oid)]
  PROVE  /\ moved \in CollectionHead /\ Active(moved) /\ Position(moved) = oid
         /\ moved.root_oid = head.root_oid /\ moved.range = head.range
         /\ moved.root_oid_index = head.root_oid_index
<1>1. Some(oid) \in Optional(Oid) /\ Some(oid)[1] = oid /\ Some(oid) # None
  BY OptionalType DEF Some, None
<1>2. /\ moved \in CollectionHead /\ moved.last_resp_oid = Some(oid)
      /\ moved.req_oid = head.req_oid
      /\ moved.root_oid = head.root_oid /\ moved.range = head.range
      /\ moved.root_oid_index = head.root_oid_index
  BY <1>1 DEF CollectionHead
<1>3. Position(moved) = oid
  BY <1>1, <1>2 DEF Position, ValueOr
<1> QED
  BY <1>2, <1>3 DEF Active

\* The agent has nothing between an OID it was asked for and the binding it
\* answers, so that the head that takes the binding passes nothing by.
LEMMA NothingBetween ==
  ASSUME NEW head \in CollectionHead, NEW v \in Oid, HasNext(v),
         NEW oid, oid = NextOid(v), IsRootOf(head.root_oid, oid),
         IsRootOf(head.root_oid, v) => OidLE(v, Position(head)),
         NEW m \in Mib, Ahead(head, m)
  PROVE  m = oid \/ OidLT(oid, m)
<1>1. /\ m \in Oid /\ oid \in Oid /\ head.root_oid \in Oid /\ Position(head) \in Oid
  BY NextOidIs, HeadPosition, MibAssumption
<1>2. OidLT(v, oid) /\ (OidLT(v, m) => OidLE(oid, m))
  BY NextOidIs
<1>3. IsRootOf(head.root_oid, m) /\ OidLT(Position(head), m)
  BY DEF Ahead
<1>4. ASSUME m # oid, ~OidLT(oid, m) PROVE FALSE
  <2>1. ~OidLT(v, m)
    BY <1>2, <1>4 DEF OidLE
  <2>2. OidLE(m, v)
    BY <1>1, <2>1, OidLTTotal DEF OidLE
  <2>3. IsRootOf(head.root_oid, v)
    BY <1>1, <1>2, <1>3, <2>2, RootBetween DEF OidLE
  <2>4. OidLE(m, Position(head))
    BY <1>1, <2>2, <2>3, OidLETransitive
  <2> QED
    BY <1>1, <1>3, <2>4, OidLTAsymmetric DEF OidLE
<1> QED
  BY <1>4

\* The step of a walk: a binding that repeats something heard.
LEMMA WalkBinding ==
  ASSUME NEW s \in SessionObject, PlainRequest(s.request), s.request.type = "WALK", Placed(s),
         NEW heard \in SUBSET Oid, Reached(s.heads, heard), NEW v \in heard,
         NEW var_bind \in VarBind, var_bind = Repetition(v),
         NEW next, next.request = s.request, BindingOf(s, var_bind, next)
  PROVE  /\ Placed(next) /\ Reached(next.heads, heard \cup {var_bind.oid})
         /\ next.errors = s.errors
         /\ Genuine(s) => Genuine(next)
         /\ Covered(s) => Covered(next)
<1> DEFINE oid == var_bind.oid
           heads == s.heads
<1>1. /\ heads \in Seq(CollectionHead) /\ s.results \in Seq(Result) /\ oid \in Oid /\ v \in Oid
      /\ Len(heads) \in Nat
  BY DEF SessionObject, VarBind
<1>2. \A k \in 1 .. Len(heads) :
        /\ heads[k] \in CollectionHead /\ PlainHead(s.request, heads[k])
        /\ heads[k].root_oid \in Oid /\ Position(heads[k]) \in Oid
        /\ Accepts(heads[k], s.request.type, oid) <=>
             Active(heads[k]) /\ IsRootOf(heads[k].root_oid, oid)
        /\ Active(heads[k]) => Cursor(heads[k]) = Position(heads[k])
  BY <1>1, PlainAccepts, HeadPosition DEF Placed
<1>3. ASSUME NEW k \in 1 .. Len(heads), NEW l \in 1 .. Len(heads), NEW x \in Oid,
             IsRootOf(heads[k].root_oid, x), IsRootOf(heads[l].root_oid, x)
      PROVE  k = l
  BY <1>1, <1>3, SameHead DEF Placed
<1>4. CASE next.heads = s.heads /\ next.results = s.results
           /\ PassedOver(s, oid) /\ next.errors = s.errors
  <2>1. ASSUME NEW k \in 1 .. Len(heads), Active(heads[k]), IsRootOf(heads[k].root_oid, oid)
        PROVE  OidLE(oid, Position(heads[k]))
    <3>1. PICK l \in 1 .. Len(heads) :
            Accepts(heads[l], s.request.type, oid) /\ OidLE(oid, Cursor(heads[l]))
      BY <1>2, <1>4, <2>1 DEF PassedOver
    <3>2. l = k
      BY <1>1, <1>2, <1>3, <2>1, <3>1
    <3> QED
      BY <1>2, <2>1, <3>1, <3>2
  <2>2. Reached(next.heads, heard \cup {oid})
    BY <1>4, <2>1 DEF Reached
  <2> QED
    BY <1>4, <2>2 DEF Placed, Genuine, Covered
<1>5. ASSUME NEW k \in 1 .. Len(heads), NEW result, result = ResultOf(heads[k], var_bind),
             Accepts(heads[k], s.request.type, oid), ~OidLE(oid, Cursor(heads[k])),
             next.results = Append(s.results, result),
             next.errors = s.errors,
             next.heads = [heads EXCEPT ![k].last_resp_oid = Some(oid)]
      PROVE  /\ Placed(next) /\ Reached(next.heads, heard \cup {oid})
             /\ Genuine(s) => Genuine(next)
             /\ Covered(s) => Covered(next)
  <2> DEFINE head == heads[k]
             moved == [head EXCEPT !.last_resp_oid = Some(oid)]
  <2>1. /\ head \in CollectionHead /\ Active(head) /\ IsRootOf(head.root_oid, oid)
        /\ OidLT(Position(head), oid) /\ PlainHead(s.request, head)
        /\ head.root_oid \in Oid /\ Position(head) \in Oid
    BY <1>1, <1>2, <1>5, OidLTTotal DEF OidLE
  <2>2. /\ moved \in CollectionHead /\ Active(moved) /\ Position(moved) = oid
        /\ moved.root_oid = head.root_oid /\ moved.range = head.range
        /\ moved.root_oid_index = head.root_oid_index
    <3> HIDE DEF head
    <3> QED
      BY <1>1, <2>1, MovedHead
  <2>3. next.heads = [heads EXCEPT ![k] = moved]
    BY <1>5
  <2> HIDE DEF moved
  <2>4. /\ Len(next.heads) = Len(heads) /\ next.heads[k] = moved
        /\ \A j \in 1 .. Len(heads) : j # k => next.heads[j] = heads[j]
    BY <1>1, <2>3
  <2>5. Placed(next)
    <3>1. \A j \in 1 .. Len(heads) :
            next.heads[j].root_oid_index = heads[j].root_oid_index
      BY <2>2, <2>4
    <3>2. Distinct(next.heads)
      BY <2>4, <3>1 DEF Placed, Distinct
    <3>3. PlainHead(s.request, moved)
      BY <2>1, <2>2 DEF PlainHead
    <3>4. \A j \in 1 .. Len(next.heads) : PlainHead(s.request, next.heads[j])
      BY <1>2, <2>4, <3>3
    <3> QED
      BY <3>2, <3>4 DEF Placed
  <2>6. ASSUME NEW x \in heard \cup {oid}, NEW j \in 1 .. Len(heads),
               Active(next.heads[j]), IsRootOf(next.heads[j].root_oid, x)
        PROVE  OidLE(x, Position(next.heads[j]))
    <3>1. CASE j # k
      <4>1. next.heads[j] = heads[j]
        BY <2>4, <3>1
      <4>2. x # oid
        BY <1>1, <1>3, <2>1, <2>6, <3>1, <4>1
      <4> QED
        BY <2>6, <4>1, <4>2 DEF Reached
    <3>2. CASE j = k /\ x \in heard
      <4>1. OidLE(x, Position(head))
        BY <2>1, <2>2, <2>4, <2>6, <3>2 DEF Reached
      <4>2. x \in Oid /\ OidLE(Position(head), oid)
        BY <2>1, <3>2 DEF OidLE
      <4>3. OidLE(x, oid)
        BY <1>1, <2>1, <4>1, <4>2, OidLETransitive
      <4> QED
        BY <2>2, <2>4, <3>2, <4>3
    <3>3. CASE j = k /\ x = oid
      BY <2>2, <2>4, <3>3 DEF OidLE
    <3> QED
      BY <3>1, <3>2, <3>3
  <2>7. Reached(next.heads, heard \cup {oid})
    BY <2>4, <2>6 DEF Reached
  <2>8. IsRootOf(head.root_oid, v) => OidLE(v, Position(head))
    BY <2>1 DEF Reached
  <2>9. HasNext(v) /\ var_bind = Value(NextOid(v)) /\ oid = NextOid(v)
    <3>1. HasNext(v) \/ oid = v
      BY DEF Repetition
    <3>2. oid # v
      BY <1>1, <2>1, <2>8, OidLTAsymmetric DEF OidLE
    <3> QED
      BY <3>1, <3>2 DEF Repetition, Value
  <2>10. oid \in Wanted(s.request)
    <3>1. head.root_oid # oid
      <4>1. OidLE(head.root_oid, Position(head))
        BY <2>1, RootFirst DEF PlainHead
      <4> QED
        BY <1>1, <2>1, <4>1, OidLTAsymmetric DEF OidLE
    <3>2. oid \in Mib
      BY <1>1, <2>9, NextOidIs
    <3> QED
      BY <2>1, <3>1, <3>2, WantedIs DEF PlainHead
  <2>11. result.type = "VALUE" /\ result.oid = oid
    BY <1>5, <2>9 DEF ResultOf, Value
  <2>12. /\ Len(next.results) = Len(s.results) + 1
         /\ next.results[Len(s.results) + 1] = result
         /\ \A i \in 1 .. Len(s.results) : next.results[i] = s.results[i]
         /\ Len(s.results) \in Nat
    BY <1>1, <1>5
  <2>13. ASSUME Genuine(s) PROVE Genuine(next)
    <3>1. ASSUME NEW i \in 1 .. Len(next.results)
          PROVE  next.results[i].type = "VALUE" /\ next.results[i].oid \in Wanted(s.request)
      <4>1. i \in 1 .. Len(s.results) \/ i = Len(s.results) + 1
        BY <2>12
      <4> QED
        BY <2>10, <2>11, <2>12, <2>13, <4>1 DEF Genuine
    <3> QED
      BY <3>1 DEF Genuine
  <2>14. ASSUME Covered(s) PROVE Covered(next)
    <3>1. \A x \in Held(s.results) \cup {oid} : x \in Held(next.results)
      BY SMTT(30), <2>11, <2>12 DEF Held
    <3>2. ASSUME NEW m \in Wanted(s.request)
          PROVE  m \in Held(next.results) \/ \E j \in 1 .. Len(next.heads) : Ahead(next.heads[j], m)
      <4>1. CASE m \in Held(s.results)
        BY <3>1, <4>1
      <4>2. ASSUME NEW j \in 1 .. Len(heads), Ahead(heads[j], m), j # k
            PROVE  Ahead(next.heads[j], m) /\ j \in 1 .. Len(next.heads)
        BY <2>4, <4>2
      <4>3. CASE Ahead(head, m)
        <5>1. m \in Mib
          BY WantedIs
        <5>2. m = oid \/ OidLT(oid, m)
          <6> HIDE DEF head
          <6> QED
            BY <1>1, <2>1, <2>8, <2>9, <4>3, <5>1, NothingBetween
        <5>3. CASE m = oid
          BY <3>1, <5>3
        <5>4. CASE OidLT(oid, m)
          <6>1. Ahead(moved, m)
            BY <2>2, <4>3, <5>4 DEF Ahead
          <6> QED
            BY <2>4, <6>1
        <5> QED
          BY <5>2, <5>3, <5>4
      <4> QED
        BY <2>14, <4>1, <4>2, <4>3 DEF Covered
    <3> QED
      BY <3>2 DEF Covered
  <2> QED
    BY <2>5, <2>7, <2>13, <2>14
<1> QED
  BY <1>4, <1>5 DEF BindingOf

\* One binding more has been heard.
LEMMA HeardMore ==
  ASSUME NEW oids, NEW var_binds \in Seq(VarBind), NEW i \in 1 .. Len(var_binds)
  PROVE  Heard(oids, var_binds, i + 1) = Heard(oids, var_binds, i) \cup {var_binds[i].oid}
<1>1. 1 .. (i + 1) - 1 = (1 .. i - 1) \cup {i}
  OBVIOUS
<1> QED
  BY <1>1 DEF Heard

\* The whole answer.
LEMMA WalkBindings ==
  ASSUME NEW s \in SessionObject, PlainRequest(s.request), s.request.type = "WALK", Placed(s),
         NEW oids \in Seq(Oid), AskedFor(s.heads, oids),
         NEW var_binds \in Seq(VarBind), Chained(oids, var_binds),
         NEW t, t = VarBindLoop!Run(s, var_binds)
  PROVE  /\ Placed(t) /\ Reached(t.heads, Heard(oids, var_binds, Len(var_binds) + 1))
         /\ t.errors = s.errors
         /\ Genuine(s) => Genuine(t)
         /\ Covered(s) => Covered(t)
<1> DEFINE N == Len(var_binds)
           A == Processings(s)
           Good(i) == { u \in A : /\ Placed(u)
                                  /\ Reached(u.heads, Heard(oids, var_binds, i + 1))
                                  /\ u.errors = s.errors
                                  /\ Genuine(s) => Genuine(u)
                                  /\ Covered(s) => Covered(u) }
           inv == [i \in 0 .. N |-> Good(i)]
<1>1. N \in Nat /\ s \in A /\ s.heads \in Seq(CollectionHead)
  BY DEF Processings, SessionObject
<1>2. Reached(s.heads, Heard(oids, var_binds, 1))
  <2>1. ASSUME NEW oid \in Heard(oids, var_binds, 1), NEW k \in 1 .. Len(s.heads),
               Active(s.heads[k]), IsRootOf(s.heads[k].root_oid, oid)
        PROVE  OidLE(oid, Position(s.heads[k]))
    <3>1. PICK j \in 1 .. Len(oids) : oid = oids[j]
      BY DEF Heard
    <3>2. PICK l \in 1 .. Len(s.heads) : Position(s.heads[l]) = oids[j]
      BY <1>1, AskedHeads
    <3>3. IsRootOf(s.heads[l].root_oid, oid) /\ oid \in Oid
      <4>1. PlainHead(s.request, s.heads[l])
        BY DEF Placed
      <4>2. oid \in Oid
        BY <3>1
      <4> QED
        BY <3>1, <3>2, <4>1, <4>2 DEF PlainHead
    <3>4. k = l
      BY <1>1, <2>1, <3>3, SameHead DEF Placed
    <3> QED
      BY <3>1, <3>2, <3>4 DEF OidLE
  <2> QED
    BY <2>1 DEF Reached
<1>3. s \in inv[0]
  BY <1>1, <1>2
<1>4. ASSUME NEW u \in A, NEW var_bind \in VarBind PROVE ProcessVarBind(u, var_bind) \in A
  <2>1. u \in SessionObject /\ u.status = s.status /\ u.request = s.request
    BY DEF Processings
  <2>2. ProcessVarBind(u, var_bind) \in Processings(u)
    BY <2>1, GetVarBindType, WalkVarBindType DEF ProcessVarBind
  <2> QED
    BY <2>1, <2>2 DEF Processings
<1>5. ASSUME NEW i \in 1 .. N, NEW u \in A, u \in inv[i - 1]
      PROVE  ProcessVarBind(u, var_binds[i]) \in inv[i]
  <2> DEFINE heard == Heard(oids, var_binds, i)
             next == ProcessVarBind(u, var_binds[i])
  <2>1. i - 1 \in 0 .. N /\ i \in 0 .. N /\ (i - 1) + 1 = i /\ var_binds[i] \in VarBind
    BY <1>1
  <2>2. u \in Good(i - 1)
    BY <1>5, <2>1
  <2>3. next \in A
    BY <1>4, <2>1
  <2>4. /\ u \in SessionObject /\ u.request = s.request /\ next.request = s.request
    BY <2>3 DEF Processings
  <2>5. Placed(u) /\ Reached(u.heads, heard) /\ u.errors = s.errors
        /\ (Genuine(s) => Genuine(u)) /\ (Covered(s) => Covered(u))
    BY <2>1, <2>2
  <2>6. heard \in SUBSET Oid
    <3>1. \A q \in 1 .. i - 1 : q \in 1 .. N
      BY <1>1
    <3>2. \A q \in 1 .. i - 1 : var_binds[q] \in VarBind
      BY <3>1
    <3>3. \A b \in VarBind : b.oid \in Oid
      BY DEF VarBind
    <3>4. \A q \in 1 .. i - 1 : var_binds[q].oid \in Oid
      BY <3>2, <3>3
    <3> QED
      BY <3>4 DEF Heard
  <2>7. PICK v \in heard : var_binds[i] = Repetition(v)
    BY <1>5 DEF Chained
  <2>8. BindingOf(u, var_binds[i], next)
    BY <2>1, <2>4, ProcessVarBindIs
  <2>9. Heard(oids, var_binds, i + 1) = heard \cup {var_binds[i].oid}
    BY <1>5, HeardMore
  <2> HIDE DEF heard, next
  <2>10. /\ Placed(next) /\ Reached(next.heads, heard \cup {var_binds[i].oid})
         /\ next.errors = u.errors
         /\ Genuine(u) => Genuine(next)
         /\ Covered(u) => Covered(next)
    BY <2>1, <2>4, <2>5, <2>6, <2>7, <2>8, WalkBinding
  <2>11. next \in Good(i)
    BY <2>3, <2>5, <2>9, <2>10
  <2> QED
    BY <2>1, <2>11 DEF next
<1>6. VarBindProofs!Run(s, var_binds) \in inv[N]
  <2> HIDE DEF A, inv, N
  <2>1. N = Len(var_binds)
    BY DEF N
  <2> QED
    BY <1>1, <1>3, <1>4, <1>5, <2>1, VarBindProofs!RunInvariantAt
<1>7. t = VarBindProofs!Run(s, var_binds)
  BY DEF VarBindProofs!Run, VarBindLoop!Run
<1>8. t \in Good(N)
  <2>1. N \in 0 .. N
    BY <1>1
  <2> HIDE DEF Good
  <2> QED
    BY <1>6, <1>7, <2>1
<1> QED
  BY <1>8

\* The callback moves no head.
LEMMA EpiloguePlaced ==
  ASSUME NEW s \in SessionObject, Placed(s)
  PROVE  Placed(Epilogue(s))
<1> SUFFICES ASSUME NEW t, t = Epilogue(s) PROVE Placed(t)
  OBVIOUS
<1>1. t.request = s.request /\ Distinct(t.heads)
  BY EpilogueType, EpilogueKeeps DEF Placed
<1>2. ASSUME NEW j \in 1 .. Len(t.heads) PROVE PlainHead(s.request, t.heads[j])
  <2>1. PICK k \in 1 .. Len(s.heads) :
          ~Complete(s.heads[k]) /\ t.heads[j] = Resting(s.heads[k])
    BY EpilogueKeeps
  <2>2. s.heads[k] \in CollectionHead
    BY DEF SessionObject
  <2> QED
    BY <2>1, <2>2, RestingStays DEF Placed
<1> QED
  BY <1>1, <1>2 DEF Placed

\* A head that was asked for and has no answer has nothing ahead.
LEMMA NothingAhead ==
  ASSUME NEW heads \in Seq(CollectionHead),
         NEW oids \in Seq(Oid), NEW var_binds \in Seq(VarBind), FirstRow(oids, var_binds),
         Reached(heads, Heard(oids, var_binds, Len(var_binds) + 1)),
         NEW k \in 1 .. Len(heads), Active(heads[k]),
         IsRootOf(heads[k].root_oid, Position(heads[k])),
         NEW j \in 1 .. Len(oids), Position(heads[k]) = oids[j],
         NEW m \in Mib
  PROVE  ~Ahead(heads[k], m)
<1> SUFFICES ASSUME NEW head, head = heads[k], NEW v, v = oids[j], Ahead(head, m) PROVE FALSE
  OBVIOUS
<1>1. /\ head \in CollectionHead /\ v \in Oid /\ m \in Oid /\ Position(head) = v
      /\ head.root_oid \in Oid /\ IsRootOf(head.root_oid, v) /\ Active(head)
  BY HeadPosition, MibAssumption
<1>2. OidLT(v, m) /\ IsRootOf(head.root_oid, m)
  BY <1>1 DEF Ahead
<1>3. HasNext(v)
  BY <1>2 DEF HasNext
<1> DEFINE next == NextOid(v)
<1>4. next \in Oid /\ OidLT(v, next) /\ OidLE(next, m)
  BY <1>1, <1>2, <1>3, NextOidIs
<1>5. \E p \in 1 .. Len(var_binds) : var_binds[p].oid = next
  BY <1>3 DEF FirstRow
<1> HIDE DEF next
<1>6. IsRootOf(head.root_oid, next)
  BY <1>1, <1>2, <1>4, RootBetween DEF OidLE
<1>7. next \in Heard(oids, var_binds, Len(var_binds) + 1)
  <2>1. (Len(var_binds) + 1) - 1 = Len(var_binds)
    OBVIOUS
  <2> QED
    BY <1>5, <2>1 DEF Heard
<1>8. OidLE(next, v)
  BY <1>1, <1>6, <1>7 DEF Reached
<1> QED
  BY <1>1, <1>4, <1>8, OidLTAsymmetric DEF OidLE

\* The callback gives up no head that has something ahead.
LEMMA EpilogueCovers ==
  ASSUME NEW s \in SessionObject, PlainRequest(s.request), Placed(s), Covered(s),
         NEW oids \in Seq(Oid), NEW var_binds \in Seq(VarBind), FirstRow(oids, var_binds),
         Reached(s.heads, Heard(oids, var_binds, Len(var_binds) + 1)),
         \A k \in 1 .. Len(s.heads) : Active(s.heads[k]) =>
           \E j \in 1 .. Len(oids) : s.heads[k].req_oid = Some(oids[j])
  PROVE  Covered(Epilogue(s))
<1> SUFFICES ASSUME NEW t, t = Epilogue(s), NEW heads, heads = s.heads PROVE Covered(t)
  OBVIOUS
<1>1. t.request = s.request /\ t.results = s.results /\ heads \in Seq(CollectionHead)
  BY EpilogueType DEF SessionObject
<1>2. ASSUME NEW m \in Mib, NEW k \in 1 .. Len(heads), Ahead(heads[k], m)
      PROVE  \E j \in 1 .. Len(t.heads) : Ahead(t.heads[j], m)
  <2>1. heads[k] \in CollectionHead /\ PlainHead(s.request, heads[k])
    BY <1>1 DEF Placed
  <2>2. ~Complete(heads[k])
    <3>1. SUFFICES ASSUME Complete(heads[k]) PROVE FALSE
      OBVIOUS
    <3>2. Active(heads[k])
      BY <3>1 DEF Complete
    <3>3. PICK j \in 1 .. Len(oids) : heads[k].req_oid = Some(oids[j])
      BY <3>2
    <3>4. Position(heads[k]) = oids[j]
      BY <2>1, <3>1, <3>3, HeadPosition DEF Some
    <3> QED
      BY <1>1, <1>2, <2>1, <3>2, <3>4, NothingAhead DEF PlainHead
  <2>3. PICK j \in 1 .. Len(t.heads) : t.heads[j] = Resting(heads[k])
    BY <2>2, EpilogueKeepsAll
  <2>4. Position(t.heads[j]) = Position(heads[k]) /\ t.heads[j].root_oid = heads[k].root_oid
    BY <2>1, <2>2, <2>3, RestingStays, RestingEffect
  <2> QED
    BY <1>2, <2>4 DEF Ahead
<1>3. ASSUME NEW m \in Wanted(t.request)
      PROVE  m \in Held(t.results) \/ \E j \in 1 .. Len(t.heads) : Ahead(t.heads[j], m)
  <2>1. m \in Mib
    BY <1>1, WantedIs
  <2> QED
    BY <1>1, <1>2, <2>1 DEF Covered
<1> QED
  BY <1>3 DEF Covered

--------------------------------------------------------------------------------
(* What a get accounts for *)

\* The places at which an OID is named among the results and among the errors.
ResultsFor(s, oid) == { i \in 1 .. Len(s.results) : s.results[i].oid = oid }
ErrorsFor(s, oid)  == { i \in 1 .. Len(s.errors) : s.errors[i].oid = Some(oid) }

Unnamed(s, oid)  == ResultsFor(s, oid) = {} /\ ErrorsFor(s, oid) = {}
OnlyOnce(s, oid) ==
  \/ ErrorsFor(s, oid) = {} /\ \E i : ResultsFor(s, oid) = {i}
  \/ ResultsFor(s, oid) = {} /\ \E i : ErrorsFor(s, oid) = {i}

\* t has one result or one error more than s, and it names the OID.
Names(s, t, oid) ==
  \/ \E result : /\ result.oid = oid
                 /\ t.results = Append(s.results, result) /\ t.errors = s.errors
  \/ \E error : /\ error.oid = Some(oid)
                /\ t.errors = Append(s.errors, error) /\ t.results = s.results

\* Naming an OID settles it, and no other.
LEMMA Naming ==
  ASSUME NEW s \in SessionObject, NEW t, NEW x, Names(s, t, x), NEW oid
  PROVE  /\ oid = x /\ Unnamed(s, oid) => OnlyOnce(t, oid)
         /\ oid # x /\ Unnamed(s, oid) => Unnamed(t, oid)
         /\ oid # x /\ OnlyOnce(s, oid) => OnlyOnce(t, oid)
<1>1. s.results \in Seq(Result) /\ s.errors \in Seq(Error)
  BY DEF SessionObject
<1>2. ASSUME NEW result, result.oid = x, t.results = Append(s.results, result),
             t.errors = s.errors
      PROVE  /\ ErrorsFor(t, oid) = ErrorsFor(s, oid)
             /\ ResultsFor(t, oid) =
                  ResultsFor(s, oid) \cup IF oid = x THEN {Len(s.results) + 1} ELSE {}
  <2>1. /\ Len(t.results) = Len(s.results) + 1 /\ Len(s.results) \in Nat
        /\ t.results[Len(s.results) + 1] = result
        /\ \A i \in 1 .. Len(s.results) : t.results[i] = s.results[i]
    BY <1>1, <1>2
  <2>2. 1 .. Len(t.results) = (1 .. Len(s.results)) \cup {Len(s.results) + 1}
    BY <2>1
  <2> QED
    BY <1>2, <2>1, <2>2 DEF ErrorsFor, ResultsFor
<1>3. ASSUME NEW error, error.oid = Some(x), t.errors = Append(s.errors, error),
             t.results = s.results
      PROVE  /\ ResultsFor(t, oid) = ResultsFor(s, oid)
             /\ ErrorsFor(t, oid) =
                  ErrorsFor(s, oid) \cup IF oid = x THEN {Len(s.errors) + 1} ELSE {}
  <2>1. /\ Len(t.errors) = Len(s.errors) + 1 /\ Len(s.errors) \in Nat
        /\ t.errors[Len(s.errors) + 1] = error
        /\ \A i \in 1 .. Len(s.errors) : t.errors[i] = s.errors[i]
    BY <1>1, <1>3
  <2>2. 1 .. Len(t.errors) = (1 .. Len(s.errors)) \cup {Len(s.errors) + 1}
    BY <2>1
  <2>3. Some(oid) = Some(x) <=> oid = x
    BY DEF Some
  <2> QED
    BY <1>3, <2>1, <2>2, <2>3 DEF ErrorsFor, ResultsFor
<1>4. CASE \E result : /\ result.oid = x
                       /\ t.results = Append(s.results, result) /\ t.errors = s.errors
  BY <1>2, <1>4 DEF Unnamed, OnlyOnce
<1>5. CASE \E error : /\ error.oid = Some(x)
                      /\ t.errors = Append(s.errors, error) /\ t.results = s.results
  BY <1>3, <1>5 DEF Unnamed, OnlyOnce
<1> QED
  BY <1>4, <1>5 DEF Names

\* Nothing is settled where nothing is named.
LEMMA NotNamed ==
  ASSUME NEW s, NEW t, t.results = s.results, t.errors = s.errors, NEW oid
  PROVE  /\ Unnamed(t, oid) <=> Unnamed(s, oid)
         /\ OnlyOnce(t, oid) <=> OnlyOnce(s, oid)
BY DEF Unnamed, OnlyOnce, ResultsFor, ErrorsFor

AskedOids(request) == { request.oids[r] : r \in 1 .. Len(request.oids) }

Pursued(heads, oid) == \E k \in 1 .. Len(heads) : heads[k].root_oid = oid

\* Every OID of the request is either still the business of a head, and not named
\* yet, or named once, by a result or a warning; and nothing else is named.
Accounted(s) ==
  /\ \A i \in 1 .. Len(s.errors) : \E oid \in AskedOids(s.request) : s.errors[i].oid = Some(oid)
  /\ \A oid \in AskedOids(s.request) :
       IF Pursued(s.heads, oid) THEN Unnamed(s, oid) ELSE OnlyOnce(s, oid)

Valued(s) ==
  \A i \in 1 .. Len(s.results) :
    s.results[i].type = "VALUE" /\ s.results[i].oid \in AskedOids(s.request)

--------------------------------------------------------------------------------
(* What send keeps *)

\* What holds of a session between two steps.
Keeping(s) ==
  /\ Placed(s)
  /\ s.request.type = "WALK" => Genuine(s) /\ (s.errors = <<>> => Covered(s))
  /\ s.request.type = "GET" => Valued(s) /\ (Quiet(s.errors) => Accounted(s))

Alike(a, b) == a.root_oid = b.root_oid /\ Position(a) = Position(b)

\* The pass of the loop has left the heads where they are,
Rotates(s, t) ==
  /\ t.errors = s.errors
  /\ \A k \in 1 .. Len(s.heads) : \E j \in 1 .. Len(t.heads) : Alike(s.heads[k], t.heads[j])
  /\ \A j \in 1 .. Len(t.heads) : \E k \in 1 .. Len(s.heads) : Alike(s.heads[k], t.heads[j])

\* or has given one up.
Drops(s, t) ==
  \E l \in 1 .. Len(s.heads) :
    /\ t.errors = Append(s.errors, GivenUp(Some(Position(s.heads[l]))))
    /\ \A k \in 1 .. Len(s.heads) : k # l =>
         \E j \in 1 .. Len(t.heads) : t.heads[j] = s.heads[k]
    /\ \A j \in 1 .. Len(t.heads) : \E k \in 1 .. Len(s.heads) :
         k # l /\ t.heads[j] = s.heads[k]

\* Every pass of the loop of send is one of the two, or nothing.
LEMMA PassMoves ==
  ASSUME NEW s \in SessionObject, NEW f \in AskedFillings(s), Placed(f.session),
         NEW taken \in BOOLEAN, NEW t, t = AddVarBind(f, taken).session
  PROVE  /\ t \in SessionObject /\ t.request = f.session.request /\ t.results = f.session.results
         /\ Placed(t)
         /\ t = f.session \/ Rotates(f.session, t) \/ Drops(f.session, t)
<1> SUFFICES ASSUME NEW u, u = f.session, NEW heads, heads = u.heads,
                    NEW next, next = AddVarBind(f, taken)
             PROVE  /\ t \in SessionObject /\ t.request = u.request /\ t.results = u.results
                    /\ Placed(t)
                    /\ t = u \/ Rotates(u, t) \/ Drops(u, t)
  OBVIOUS
<1>1. /\ u \in SessionObject /\ heads \in Seq(CollectionHead) /\ f.oids \in Seq(Oid)
      /\ t \in SessionObject /\ t.request = u.request /\ t.results = u.results
      /\ next.session = t
  <2>1. f \in Fillings(s)
    BY DEF AskedFillings
  <2>2. next \in Fillings(s) /\ next.session.results = f.session.results
    BY <2>1, AddVarBindType, AddVarBindEffect
  <2> QED
    BY <2>1, <2>2 DEF Fillings, SessionObject
<1>2. Distinct(heads) /\ \A k \in 1 .. Len(heads) : PlainHead(u.request, heads[k])
  BY DEF Placed
<1>3. PassOf(f, next)
  BY AddVarBindHeads DEF AskedFillings
<1>4. CASE next = f
  BY <1>1, <1>4
<1> DEFINE front == Activate(Head(heads))
<1>5. ASSUME heads # <<>>, Len(f.oids) < Len(heads)
      PROVE  /\ Head(heads) = heads[1] /\ 1 \in 1 .. Len(heads) /\ heads[1] \in CollectionHead
             /\ Alike(heads[1], front) /\ front.root_oid_index = heads[1].root_oid_index
             /\ PlainHead(u.request, front) /\ front.req_oid = Some(Position(heads[1]))
  <2>1. Head(heads) = heads[1] /\ heads[1] \in CollectionHead /\ 1 \in 1 .. Len(heads)
    BY <1>1, <1>5
  <2>2. ~Active(heads[1])
    <3>1. AskedFor(heads, f.oids)
      BY DEF AskedFillings
    <3>2. 1 <= Len(heads) - Len(f.oids)
      BY <1>1, <1>5
    <3> QED
      BY <2>1, <3>1, <3>2 DEF AskedFor
  <2>3. /\ Position(front) = Position(heads[1]) /\ front.req_oid = Some(Position(heads[1]))
        /\ PlainHead(u.request, front)
    BY <1>2, <2>1, <2>2, ActivateStays
  <2>4. front.root_oid_index = heads[1].root_oid_index /\ front.root_oid = heads[1].root_oid
    BY <2>1, ActivateEffect
  <2> QED
    BY <2>1, <2>3, <2>4 DEF Alike
<1> HIDE DEF front
<1>6. ASSUME heads # <<>>, Len(f.oids) < Len(heads),
             t.heads = Append(Tail(heads), front), t.errors = u.errors
      PROVE  Placed(t) /\ Rotates(u, t)
  <2>1. /\ Len(t.heads) = Len(heads) /\ t.heads[Len(heads)] = front
        /\ \A j \in 1 .. Len(heads) : j # Len(heads) =>
             j + 1 \in 1 .. Len(heads) /\ t.heads[j] = heads[j + 1]
        /\ \A k \in 1 .. Len(heads) : k # 1 =>
             k - 1 \in 1 .. Len(heads) /\ t.heads[k - 1] = heads[k]
        /\ Len(heads) \in 1 .. Len(heads)
    BY <1>1, <1>6
  <2>2. Distinct(t.heads)
    BY <1>1, <1>2, <1>5, <1>6, DistinctRotated
  <2>3. \A j \in 1 .. Len(t.heads) : PlainHead(u.request, t.heads[j])
    BY <1>2, <1>5, <1>6, <2>1
  <2>4. \A head : Alike(head, head)
    BY DEF Alike
  <2>5. Rotates(u, t)
    <3>1. ASSUME NEW k \in 1 .. Len(heads)
          PROVE  \E j \in 1 .. Len(t.heads) : Alike(heads[k], t.heads[j])
      <4>1. CASE k = 1
        BY <1>5, <1>6, <2>1, <4>1
      <4>2. CASE k # 1
        <5>1. k - 1 \in 1 .. Len(t.heads) /\ t.heads[k - 1] = heads[k]
          BY <2>1, <4>2
        <5> QED
          BY <2>4, <5>1
      <4> QED
        BY <4>1, <4>2
    <3>2. ASSUME NEW j \in 1 .. Len(t.heads)
          PROVE  \E k \in 1 .. Len(heads) : Alike(heads[k], t.heads[j])
      BY <1>5, <1>6, <2>1, <2>4
    <3> QED
      BY <1>6, <3>1, <3>2 DEF Rotates
  <2> QED
    BY <1>1, <2>2, <2>3, <2>5 DEF Placed
<1>7. ASSUME heads # <<>>, Len(f.oids) < Len(heads),
             t.heads = Tail(heads), t.errors = Append(u.errors, GivenUp(front.req_oid))
      PROVE  Placed(t) /\ Drops(u, t)
  <2>1. /\ Len(t.heads) = Len(heads) - 1
        /\ \A j \in 1 .. Len(t.heads) :
             j + 1 \in 1 .. Len(heads) /\ j + 1 # 1 /\ t.heads[j] = heads[j + 1]
        /\ \A k \in 1 .. Len(heads) : k # 1 =>
             k - 1 \in 1 .. Len(t.heads) /\ t.heads[k - 1] = heads[k]
    BY <1>1, <1>7
  <2>2. Distinct(t.heads)
    BY <1>1, <1>2, <1>7, DistinctRest
  <2>3. \A j \in 1 .. Len(t.heads) : PlainHead(u.request, t.heads[j])
    BY <1>2, <2>1
  <2>4. t.errors = Append(u.errors, GivenUp(Some(Position(heads[1]))))
    BY <1>5, <1>7
  <2>5. Drops(u, t)
    BY <1>5, <1>7, <2>1, <2>4 DEF Drops
  <2> QED
    BY <1>1, <2>2, <2>3, <2>5 DEF Placed
<1>8. \/ next = f
      \/ /\ heads # <<>> /\ Len(f.oids) < Len(heads)
         /\ \/ t.heads = Append(Tail(heads), front) /\ t.errors = u.errors
            \/ t.heads = Tail(heads) /\ t.errors = Append(u.errors, GivenUp(front.req_oid))
  BY <1>1, <1>3 DEF PassOf, front
<1> QED
  BY <1>1, <1>4, <1>6, <1>7, <1>8

\* A head whose root lies above an OID is the only one.
LEMMA OnePursuer ==
  ASSUME NEW s \in SessionObject, PlainRequest(s.request), Placed(s),
         NEW k \in 1 .. Len(s.heads), NEW l \in 1 .. Len(s.heads),
         s.heads[k].root_oid = s.heads[l].root_oid
  PROVE  k = l
<1>1. s.heads \in Seq(CollectionHead)
  BY DEF SessionObject
<1>2. s.heads[k].root_oid \in Oid
  <2>1. s.heads[k] \in CollectionHead
    BY <1>1
  <2> QED
    BY <2>1 DEF CollectionHead
<1>3. IsRootOf(s.heads[k].root_oid, s.heads[k].root_oid)
  BY <1>2, RootArcs DEF Oid
<1> QED
  BY <1>1, <1>2, <1>3, SameHead DEF Placed

\* The heads of a get pursue OIDs of the request.
LEMMA PursuedAsked ==
  ASSUME NEW s, Placed(s), NEW k \in 1 .. Len(s.heads)
  PROVE  /\ s.heads[k].root_oid \in AskedOids(s.request)
         /\ s.request.type = "GET" => Position(s.heads[k]) = s.heads[k].root_oid
<1>1. PlainHead(s.request, s.heads[k])
  BY DEF Placed
<1> QED
  BY <1>1 DEF PlainHead, AskedOids

\* A session without a fatal error had none before.
LEMMA QuietBefore ==
  ASSUME NEW s \in SessionObject, NEW error, Quiet(Append(s.errors, error))
  PROVE  Quiet(s.errors)
<1>1. s.errors \in Seq(Error)
  BY DEF SessionObject
<1>2. /\ Len(Append(s.errors, error)) = Len(s.errors) + 1 /\ Len(s.errors) \in Nat
      /\ \A i \in 1 .. Len(s.errors) : Append(s.errors, error)[i] = s.errors[i]
  BY <1>1
<1>3. \A i \in 1 .. Len(s.errors) : i \in 1 .. Len(Append(s.errors, error))
  BY <1>2
<1> QED
  BY <1>2, <1>3 DEF Quiet

\* A pass that takes a head keeps what holds between two steps,
LEMMA RotationKeeps ==
  ASSUME NEW s \in SessionObject, NEW t, Keeping(s), Placed(t), Rotates(s, t),
         t.request = s.request, t.results = s.results
  PROVE  Keeping(t)
<1>1. t.errors = s.errors
  BY DEF Rotates
<1>2. ASSUME Covered(s) PROVE Covered(t)
  <2>1. \A k \in 1 .. Len(s.heads) : \A m : Ahead(s.heads[k], m) =>
          \E j \in 1 .. Len(t.heads) : Ahead(t.heads[j], m)
    BY DEF Rotates, Alike, Ahead
  <2> QED
    BY <1>2, <2>1 DEF Covered
<1>3. ASSUME NEW oid PROVE Pursued(t.heads, oid) <=> Pursued(s.heads, oid)
  <2>1. ASSUME NEW k \in 1 .. Len(s.heads), s.heads[k].root_oid = oid
        PROVE  \E j \in 1 .. Len(t.heads) : t.heads[j].root_oid = oid
    BY <2>1 DEF Rotates, Alike
  <2>2. ASSUME NEW j \in 1 .. Len(t.heads), t.heads[j].root_oid = oid
        PROVE  \E k \in 1 .. Len(s.heads) : s.heads[k].root_oid = oid
    BY <2>2 DEF Rotates, Alike
  <2> QED
    BY <2>1, <2>2 DEF Pursued
<1>4. ASSUME Accounted(s) PROVE Accounted(t)
  BY <1>1, <1>3, <1>4, NotNamed DEF Accounted
<1> QED
  BY <1>1, <1>2, <1>4 DEF Keeping, Genuine, Valued

\* and so does one that gives a head up: the error names its OID.
LEMMA DropKeeps ==
  ASSUME NEW s \in SessionObject, PlainRequest(s.request), NEW t, Keeping(s), Placed(t),
         Drops(s, t), t.request = s.request, t.results = s.results
  PROVE  Keeping(t)
<1>1. PICK l \in 1 .. Len(s.heads) :
        /\ t.errors = Append(s.errors, GivenUp(Some(Position(s.heads[l]))))
        /\ \A k \in 1 .. Len(s.heads) : k # l =>
             \E j \in 1 .. Len(t.heads) : t.heads[j] = s.heads[k]
        /\ \A j \in 1 .. Len(t.heads) : \E k \in 1 .. Len(s.heads) :
             k # l /\ t.heads[j] = s.heads[k]
  BY DEF Drops
<1>2. s.errors \in Seq(Error) /\ s.heads \in Seq(CollectionHead) /\ Placed(s)
  BY DEF SessionObject, Keeping
<1>3. t.errors # <<>>
  <2>1. ASSUME NEW error PROVE Append(s.errors, error) # <<>>
    BY <1>2
  <2> QED
    BY <1>1, <2>1
<1>4. ASSUME s.request.type = "GET", Quiet(t.errors), Accounted(s) PROVE Accounted(t)
  <2> DEFINE x == s.heads[l].root_oid
             error == GivenUp(Some(x))
  <2>1. t.errors = Append(s.errors, error)
    BY <1>1, <1>2, <1>4, PursuedAsked
  <2>2. error.oid = Some(x)
    BY DEF GivenUp
  <2> HIDE DEF error
  <2>3. Names(s, t, x)
    BY <2>1, <2>2 DEF Names
  <2>4. Pursued(s.heads, x) /\ x \in AskedOids(s.request)
    BY <1>2, PursuedAsked DEF Pursued
  <2>5. ~Pursued(t.heads, x)
    BY <1>1, <1>2, OnePursuer DEF Pursued
  <2>6. ASSUME NEW oid, oid # x PROVE Pursued(t.heads, oid) <=> Pursued(s.heads, oid)
    <3>1. ASSUME NEW k \in 1 .. Len(s.heads), s.heads[k].root_oid = oid
          PROVE  \E j \in 1 .. Len(t.heads) : t.heads[j].root_oid = oid
      BY <1>1, <2>6, <3>1
    <3>2. ASSUME NEW j \in 1 .. Len(t.heads), t.heads[j].root_oid = oid
          PROVE  \E k \in 1 .. Len(s.heads) : s.heads[k].root_oid = oid
      BY <1>1, <3>2
    <3> QED
      BY <3>1, <3>2 DEF Pursued
  <2> HIDE DEF x
  <2>7. ASSUME NEW oid \in AskedOids(t.request)
        PROVE  IF Pursued(t.heads, oid) THEN Unnamed(t, oid) ELSE OnlyOnce(t, oid)
    <3>1. IF Pursued(s.heads, oid) THEN Unnamed(s, oid) ELSE OnlyOnce(s, oid)
      BY <1>4, <2>7 DEF Accounted
    <3> QED
      BY <2>3, <2>4, <2>5, <2>6, <3>1, Naming
  <2>8. ASSUME NEW i \in 1 .. Len(t.errors)
        PROVE  \E oid \in AskedOids(t.request) : t.errors[i].oid = Some(oid)
    <3>1. CASE i \in 1 .. Len(s.errors)
      <4>1. t.errors[i] = s.errors[i]
        BY <1>2, <2>1, <3>1
      <4> QED
        BY <1>4, <3>1, <4>1 DEF Accounted
    <3>2. CASE i \notin 1 .. Len(s.errors)
      <4>1. t.errors[i] = error
        BY <1>2, <2>1, <2>8, <3>2
      <4> QED
        BY <2>2, <2>4, <4>1
    <3> QED
      BY <3>1, <3>2
  <2> QED
    BY <2>7, <2>8 DEF Accounted
<1>5. Quiet(t.errors) => Quiet(s.errors)
  BY <1>1, QuietBefore
<1> QED
  BY <1>3, <1>4, <1>5 DEF Keeping, Genuine, Valued

\* The whole loop of send.
LEMMA FillKeeps ==
  ASSUME NEW s \in SessionObject, PlainRequest(s.request), Keeping(s), NEW taken \in Seq(BOOLEAN),
         \A i \in 1 .. Len(s.heads) : ~Active(s.heads[i])
  PROVE  Keeping(Fill(s, taken).session)
<1> DEFINE first == [session |-> s, oids |-> <<>>]
           A == { f \in AskedFillings(s) : Keeping(f.session) }
<1>1. first \in A
  <2>1. AskedFor(s.heads, <<>>)
    BY DEF AskedFor, SessionObject
  <2> QED
    BY <2>1 DEF AskedFillings, Fillings, Oid
<1>2. ASSUME NEW f \in A, NEW taking \in BOOLEAN PROVE AddVarBind(f, taking) \in A
  <2>1. f \in AskedFillings(s) /\ Keeping(f.session) /\ Placed(f.session)
    BY DEF Keeping
  <2>2. f.session \in SessionObject /\ f.session.request = s.request
    BY <2>1 DEF AskedFillings, Fillings
  <2>3. AddVarBind(f, taking) \in AskedFillings(s)
    BY <2>1, AddVarBindAsks
  <2> SUFFICES ASSUME NEW t, t = AddVarBind(f, taking).session PROVE Keeping(t)
    BY <2>3
  <2>4. /\ t \in SessionObject /\ t.request = f.session.request /\ t.results = f.session.results
        /\ Placed(t)
        /\ t = f.session \/ Rotates(f.session, t) \/ Drops(f.session, t)
    BY <2>1, PassMoves
  <2> QED
    BY <2>1, <2>2, <2>4, RotationKeeps, DropKeeps
<1> HIDE DEF first, A
<1>3. FillProofs!Run(first, taken) \in A
  BY <1>1, <1>2, FillProofs!RunInvariant
<1> QED
  BY <1>3 DEF Fill, first, A, FillProofs!Run, FillLoop!Run

--------------------------------------------------------------------------------
(* A get and the bindings of an answer *)

ErrorsNamed(s) ==
  \A i \in 1 .. Len(s.errors) : \E oid \in AskedOids(s.request) : s.errors[i].oid = Some(oid)

\* Accounted, half-way through an answer: the OIDs answered are named already.
AccountedBut(s, answered) ==
  /\ ErrorsNamed(s)
  /\ \A oid \in AskedOids(s.request) :
       IF Pursued(s.heads, oid) /\ oid \notin answered THEN Unnamed(s, oid)
                                                       ELSE OnlyOnce(s, oid)

\* Nothing is answered before the first binding.
LEMMA AccountedIs ==
  ASSUME NEW s
  PROVE  Accounted(s) <=> AccountedBut(s, {})
BY DEF Accounted, AccountedBut, ErrorsNamed

\* The step of a get: a binding names its OID, by a result or a warning.
LEMMA GetBinding ==
  ASSUME NEW s \in SessionObject, s.request.type = "GET",
         NEW var_bind \in VarBind, NEW x \in AskedOids(s.request), var_bind.oid = x,
         NEW next, next.request = s.request, BindingOf(s, var_bind, next)
  PROVE  /\ next.heads = s.heads /\ Names(s, next, x)
         /\ Valued(s) => Valued(next)
         /\ ErrorsNamed(s) => ErrorsNamed(next)
<1>1. s.results \in Seq(Result) /\ s.errors \in Seq(Error)
  BY DEF SessionObject
<1>2. ASSUME next.heads = s.heads, next.results = s.results,
             NEW error, error = Warning(var_bind), next.errors = Append(s.errors, error)
      PROVE  /\ next.heads = s.heads /\ Names(s, next, x)
             /\ Valued(s) => Valued(next)
             /\ ErrorsNamed(s) => ErrorsNamed(next)
  <2>1. error.oid = Some(x)
    BY <1>2 DEF Warning
  <2>2. /\ Len(next.errors) = Len(s.errors) + 1 /\ Len(s.errors) \in Nat
        /\ next.errors[Len(s.errors) + 1] = error
        /\ \A i \in 1 .. Len(s.errors) : next.errors[i] = s.errors[i]
    BY <1>1, <1>2
  <2>3. ASSUME ErrorsNamed(s), NEW i \in 1 .. Len(next.errors)
        PROVE  \E oid \in AskedOids(next.request) : next.errors[i].oid = Some(oid)
    <3>1. i \in 1 .. Len(s.errors) \/ i = Len(s.errors) + 1
      BY <2>2
    <3> QED
      BY <2>1, <2>2, <2>3, <3>1 DEF ErrorsNamed
  <2> QED
    BY <1>2, <2>1, <2>3 DEF Names, Valued, ErrorsNamed
<1>3. ASSUME next.heads = s.heads, next.errors = s.errors, var_bind.type \notin WarningTypes,
             NEW result, result.oid = x, result.type = var_bind.type,
             next.results = Append(s.results, result)
      PROVE  /\ next.heads = s.heads /\ Names(s, next, x)
             /\ Valued(s) => Valued(next)
             /\ ErrorsNamed(s) => ErrorsNamed(next)
  <2>1. result.type = "VALUE"
    BY <1>3 DEF VarBind, ValueTypes
  <2>2. /\ Len(next.results) = Len(s.results) + 1 /\ Len(s.results) \in Nat
        /\ next.results[Len(s.results) + 1] = result
        /\ \A i \in 1 .. Len(s.results) : next.results[i] = s.results[i]
    BY <1>1, <1>3
  <2>3. ASSUME Valued(s), NEW i \in 1 .. Len(next.results)
        PROVE  next.results[i].type = "VALUE" /\ next.results[i].oid \in AskedOids(next.request)
    <3>1. i \in 1 .. Len(s.results) \/ i = Len(s.results) + 1
      BY <2>2
    <3> QED
      BY <1>3, <2>1, <2>2, <2>3, <3>1 DEF Valued
  <2> QED
    BY <1>3, <2>3 DEF Names, Valued, ErrorsNamed
<1>4. \/ /\ next.heads = s.heads /\ next.results = s.results
         /\ next.errors = Append(s.errors, Warning(var_bind))
      \/ \E k \in 1 .. Len(s.heads) :
           /\ next.results = Append(s.results, ResultOf(s.heads[k], var_bind))
           /\ next.errors = s.errors /\ next.heads = s.heads
           /\ var_bind.type \notin WarningTypes
  BY DEF BindingOf
<1>5. \A head : /\ ResultOf(head, var_bind).oid = x
                /\ ResultOf(head, var_bind).type = var_bind.type
  BY DEF ResultOf
<1> QED
  BY <1>2, <1>3, <1>4, <1>5

\* No PDU of a get asks for an OID twice.
LEMMA AskedOnce ==
  ASSUME NEW s \in SessionObject, PlainRequest(s.request), s.request.type = "GET", Placed(s),
         NEW oids \in Seq(Oid), AskedFor(s.heads, oids)
  PROVE  /\ \A j \in 1 .. Len(oids) :
              Pursued(s.heads, oids[j]) /\ oids[j] \in AskedOids(s.request)
         /\ \A i, j \in 1 .. Len(oids) : oids[i] = oids[j] => i = j
<1> SUFFICES ASSUME NEW heads, heads = s.heads, NEW m, m = Len(heads), NEW n, n = Len(oids)
             PROVE  /\ \A j \in 1 .. n : Pursued(heads, oids[j]) /\ oids[j] \in AskedOids(s.request)
                    /\ \A i, j \in 1 .. n : oids[i] = oids[j] => i = j
  OBVIOUS
<1>1. heads \in Seq(CollectionHead) /\ n \in Nat /\ m \in Nat /\ n <= m
  BY DEF SessionObject, AskedFor
<1>2. ASSUME NEW j \in 1 .. n
      PROVE  /\ (m - n) + j \in 1 .. m /\ heads[(m - n) + j].root_oid = oids[j]
             /\ oids[j] \in AskedOids(s.request)
  <2> DEFINE k == (m - n) + j
  <2>1. k \in 1 .. m /\ ~(k <= m - n) /\ k - (m - n) = j
    BY <1>1
  <2> HIDE DEF k
  <2>2. heads[k].req_oid = Some(oids[j]) /\ Complete(heads[k]) /\ heads[k] \in CollectionHead
    <3>1. heads[k].req_oid = Some(oids[k - (m - n)]) /\ Complete(heads[k])
      BY <2>1 DEF AskedFor
    <3>2. heads[k] \in CollectionHead
      BY <1>1, <2>1
    <3> QED
      BY <2>1, <3>1, <3>2
  <2>3. Position(heads[k]) = oids[j]
    BY <2>2, HeadPosition DEF Some
  <2> QED
    BY <2>1, <2>3, PursuedAsked DEF k
<1>3. ASSUME NEW i \in 1 .. n, NEW j \in 1 .. n, oids[i] = oids[j] PROVE i = j
  <2> DEFINE k == (m - n) + i
             l == (m - n) + j
  <2>1. k \in 1 .. m /\ l \in 1 .. m /\ heads[k].root_oid = heads[l].root_oid
    BY <1>2, <1>3
  <2> HIDE DEF k, l
  <2>2. k = l
    BY <2>1, OnePursuer
  <2>3. (m - n) + i = (m - n) + j
    BY <2>2 DEF k, l
  <2> QED
    BY <1>1, <2>3
<1> QED
  BY <1>2, <1>3 DEF Pursued

\* The whole answer.
LEMMA GetBindings ==
  ASSUME NEW s \in SessionObject, PlainRequest(s.request), s.request.type = "GET", Placed(s),
         NEW oids \in Seq(Oid), AskedFor(s.heads, oids),
         NEW var_binds \in Seq(VarBind), Len(var_binds) = Len(oids),
         \A j \in 1 .. Len(oids) : var_binds[j].oid = oids[j],
         NEW t, t = VarBindLoop!Run(s, var_binds)
  PROVE  /\ t.heads = s.heads
         /\ Valued(s) => Valued(t)
         /\ Accounted(s) => AccountedBut(t, { oids[j] : j \in 1 .. Len(oids) })
<1> DEFINE N == Len(var_binds)
           A == Processings(s)
           Asked(i) == { oids[j] : j \in 1 .. i }
           Good(i) == { u \in A : /\ u.heads = s.heads
                                  /\ Valued(s) => Valued(u)
                                  /\ Accounted(s) => AccountedBut(u, Asked(i)) }
           inv == [i \in 0 .. N |-> Good(i)]
<1>1. N \in Nat /\ s \in A /\ Asked(0) = {}
  BY DEF Processings
<1>2. s \in inv[0]
  <2>1. s \in Good(0)
    <3> HIDE DEF Asked, A
    <3> QED
      BY <1>1, AccountedIs
  <2> QED
    BY <1>1, <2>1
<1>3. ASSUME NEW u \in A, NEW var_bind \in VarBind PROVE ProcessVarBind(u, var_bind) \in A
  <2>1. u \in SessionObject /\ u.status = s.status /\ u.request = s.request
    BY DEF Processings
  <2>2. ProcessVarBind(u, var_bind) \in Processings(u)
    BY <2>1, GetVarBindType, WalkVarBindType DEF ProcessVarBind
  <2> QED
    BY <2>1, <2>2 DEF Processings
<1>4. ASSUME NEW i \in 1 .. N, NEW u \in A, u \in inv[i - 1]
      PROVE  ProcessVarBind(u, var_binds[i]) \in inv[i]
  <2> DEFINE next == ProcessVarBind(u, var_binds[i])
             x == oids[i]
             before == Asked(i - 1)
  <2>1. i - 1 \in 0 .. N /\ i \in 0 .. N /\ var_binds[i] \in VarBind /\ i \in 1 .. Len(oids)
    BY <1>1
  <2>2. u \in Good(i - 1)
    BY <1>4, <2>1
  <2>3. next \in A
    BY <1>3, <2>1
  <2>4. /\ u \in SessionObject /\ u.request = s.request /\ next.request = s.request
        /\ u.heads = s.heads
    BY <2>2, <2>3 DEF Processings
  <2>5. BindingOf(u, var_binds[i], next)
    BY <2>1, <2>4, ProcessVarBindIs
  <2>6. Pursued(s.heads, x) /\ x \in AskedOids(s.request) /\ x \notin before
    <3>1. \A j \in 1 .. i - 1 : j \in 1 .. Len(oids) /\ j # i
      BY <1>1
    <3> QED
      BY <2>1, <3>1, AskedOnce
  <2>7. Asked(i) = before \cup {x}
    <3>1. 1 .. i = (1 .. i - 1) \cup {i}
      BY <1>1
    <3> QED
      BY <3>1
  <2>8. (Valued(s) => Valued(u)) /\ (Accounted(s) => AccountedBut(u, before))
    BY <2>2
  <2>9. var_binds[i].oid = x
    BY <2>1
  <2> HIDE DEF next, x, before, Asked
  <2>10. /\ next.heads = u.heads /\ Names(u, next, x)
         /\ Valued(u) => Valued(next)
         /\ ErrorsNamed(u) => ErrorsNamed(next)
    BY <2>1, <2>4, <2>5, <2>6, <2>9, GetBinding
  <2>11. ASSUME AccountedBut(u, before) PROVE AccountedBut(next, before \cup {x})
    <3>1. ASSUME NEW oid \in AskedOids(s.request)
          PROVE  IF Pursued(s.heads, oid) /\ oid \notin before \cup {x}
                 THEN Unnamed(next, oid) ELSE OnlyOnce(next, oid)
      <4>1. IF Pursued(s.heads, oid) /\ oid \notin before THEN Unnamed(u, oid)
                                                          ELSE OnlyOnce(u, oid)
        BY <2>4, <2>11 DEF AccountedBut
      <4>2. CASE oid = x
        BY <2>4, <2>6, <2>10, <4>1, <4>2, Naming
      <4>3. CASE oid # x
        BY <2>4, <2>10, <4>1, <4>3, Naming
      <4> QED
        BY <4>2, <4>3
    <3> QED
      BY <2>4, <2>10, <2>11, <3>1 DEF AccountedBut
  <2>12. next \in Good(i)
    BY <2>3, <2>4, <2>7, <2>8, <2>10, <2>11
  <2> QED
    BY <2>1, <2>12 DEF next
<1>5. VarBindProofs!Run(s, var_binds) \in inv[N]
  <2> HIDE DEF A, inv, N
  <2>1. N = Len(var_binds)
    BY DEF N
  <2> QED
    BY <1>1, <1>2, <1>3, <1>4, <2>1, VarBindProofs!RunInvariantAt
<1>6. t = VarBindProofs!Run(s, var_binds)
  BY DEF VarBindProofs!Run, VarBindLoop!Run
<1>7. t \in Good(N)
  <2>1. N \in 0 .. N
    BY <1>1
  <2> HIDE DEF Good
  <2> QED
    BY <1>5, <1>6, <2>1
<1> QED
  BY <1>7

\* The callback gives up the heads that were answered, and no other.
LEMMA EpilogueAccounts ==
  ASSUME NEW s \in SessionObject, PlainRequest(s.request), s.request.type = "GET", Placed(s),
         NEW oids \in Seq(Oid), AskedFor(s.heads, oids),
         AccountedBut(s, { oids[j] : j \in 1 .. Len(oids) })
  PROVE  Accounted(Epilogue(s))
<1> SUFFICES ASSUME NEW t, t = Epilogue(s), NEW heads, heads = s.heads,
                    NEW answered, answered = { oids[j] : j \in 1 .. Len(oids) }
             PROVE  Accounted(t)
  OBVIOUS
<1>1. /\ t.request = s.request /\ t.results = s.results /\ t.errors = s.errors
      /\ heads \in Seq(CollectionHead)
  BY EpilogueType DEF SessionObject
<1>2. ASSUME NEW oid
      PROVE  Pursued(t.heads, oid) <=> Pursued(heads, oid) /\ oid \notin answered
  <2>1. ASSUME NEW j \in 1 .. Len(t.heads), t.heads[j].root_oid = oid
        PROVE  Pursued(heads, oid) /\ oid \notin answered
    <3>1. PICK k \in 1 .. Len(heads) : ~Complete(heads[k]) /\ t.heads[j] = Resting(heads[k])
      BY EpilogueKeeps
    <3>2. heads[k].root_oid = oid
      BY <1>1, <2>1, <3>1, RestingEffect
    <3>3. ASSUME oid \in answered PROVE FALSE
      <4>1. PICK i \in 1 .. Len(oids) : oid = oids[i]
        BY <3>3
      <4>2. PICK l \in 1 .. Len(heads) : Complete(heads[l]) /\ Position(heads[l]) = oids[i]
        BY <1>1, AskedHeads
      <4>3. heads[l].root_oid = oid
        BY <4>1, <4>2, PursuedAsked
      <4> QED
        BY <3>1, <3>2, <4>2, <4>3, OnePursuer
    <3> QED
      BY <3>2, <3>3 DEF Pursued
  <2>2. ASSUME NEW k \in 1 .. Len(heads), heads[k].root_oid = oid, oid \notin answered
        PROVE  Pursued(t.heads, oid)
    <3>1. ~Complete(heads[k])
      <4>1. SUFFICES ASSUME Complete(heads[k]) PROVE FALSE
        OBVIOUS
      <4>2. PICK i \in 1 .. Len(oids) : Position(heads[k]) = oids[i]
        BY <1>1, <4>1, AskedHeads DEF Complete
      <4> QED
        BY <2>2, <4>2, PursuedAsked
    <3>2. PICK j \in 1 .. Len(t.heads) : t.heads[j] = Resting(heads[k])
      BY <3>1, EpilogueKeepsAll
    <3>3. t.heads[j].root_oid = oid
      BY <1>1, <2>2, <3>2, RestingEffect
    <3> QED
      BY <3>3 DEF Pursued
  <2> QED
    BY <2>1, <2>2 DEF Pursued
<1>3. ASSUME NEW oid \in AskedOids(s.request)
      PROVE  IF Pursued(t.heads, oid) THEN Unnamed(t, oid) ELSE OnlyOnce(t, oid)
  <2>1. IF Pursued(heads, oid) /\ oid \notin answered THEN Unnamed(s, oid) ELSE OnlyOnce(s, oid)
    BY DEF AccountedBut
  <2> QED
    BY <1>1, <1>2, <2>1, NotNamed
<1>4. ErrorsNamed(t)
  BY <1>1 DEF AccountedBut, ErrorsNamed
<1> QED
  BY <1>1, <1>3, <1>4 DEF Accounted, ErrorsNamed

--------------------------------------------------------------------------------
(* What read keeps *)

\* A session that ends with a fatal error has nothing to show for.
LEMMA FailKeeps ==
  ASSUME NEW s \in SessionObject, Keeping(s),
         NEW type \in FatalErrors, NEW oid \in Optional(Oid),
         type = "CREATE_REQUEST_PDU_ERROR" => oid = None
  PROVE  Keeping(Fail(s, type, oid)) /\ Keeping(Epilogue(Fail(s, type, oid)))
<1> SUFFICES ASSUME NEW t, t = Fail(s, type, oid) PROVE Keeping(t) /\ Keeping(Epilogue(t))
  OBVIOUS
<1>1. type \in ErrorTypes
  BY DEF ErrorTypes
<1>2. /\ t \in SessionObject /\ t.request = s.request /\ t.heads = s.heads
      /\ t.results = s.results
  <2>1. /\ t \in SessionObject /\ t.request = s.request /\ t.heads = s.heads
    BY <1>1, FailType
  <2>2. t.results = s.results
    BY ZenonT(60), ErrorEffect
  <2> QED
    BY <2>1, <2>2
<1> DEFINE error == [type |-> type, oid |-> oid]
<1>3. t.errors = Append(s.errors, error)
  BY ErrorEffect
<1>4. Fatal(error)
  BY DEF Fatal
<1> HIDE DEF error
<1>5. t.errors # <<>> /\ ~Quiet(t.errors)
  <2>1. s.errors \in Seq(Error)
    BY DEF SessionObject
  <2>2. /\ Len(t.errors) = Len(s.errors) + 1 /\ Len(s.errors) \in Nat
        /\ t.errors[Len(s.errors) + 1] = error
    BY <1>3, <2>1
  <2>3. Len(s.errors) + 1 \in 1 .. Len(t.errors)
    BY <2>2
  <2>4. t.errors # <<>>
    BY <2>2
  <2> QED
    BY <1>4, <2>2, <2>3, <2>4 DEF Quiet
<1>6. Placed(t)
  BY <1>2 DEF Keeping, Placed
<1>7. Keeping(t)
  BY <1>2, <1>5, <1>6 DEF Keeping, Genuine, Valued
<1>8. Placed(Epilogue(t))
  BY <1>2, <1>6, EpiloguePlaced
<1>9. /\ Epilogue(t).request = t.request /\ Epilogue(t).results = t.results
      /\ Epilogue(t).errors = t.errors
  BY <1>2, EpilogueType
<1>10. Keeping(Epilogue(t))
  BY <1>5, <1>7, <1>8, <1>9 DEF Keeping, Genuine, Valued
<1> QED
  BY <1>7, <1>10

\* The answer to a walk.
LEMMA AnswerKeepsWalk ==
  ASSUME NEW s \in SessionObject, PlainRequest(s.request), s.request.type = "WALK", Keeping(s),
         NEW oids \in Seq(Oid), AskedFor(s.heads, oids),
         NEW var_binds \in Seq(VarBind), Chained(oids, var_binds), FirstRow(oids, var_binds),
         NEW t, t = VarBindLoop!Run(s, var_binds)
  PROVE  Keeping(Epilogue(t))
<1>1. /\ Placed(t) /\ Reached(t.heads, Heard(oids, var_binds, Len(var_binds) + 1))
      /\ t.errors = s.errors
      /\ Genuine(s) => Genuine(t)
      /\ Covered(s) => Covered(t)
  BY WalkBindings DEF Keeping
<1>2. t \in SessionObject /\ t.request = s.request
  BY VarBindsType DEF Processings
<1>3. s.heads \in Seq(CollectionHead)
  BY DEF SessionObject
<1>4. \A k \in 1 .. Len(s.heads) : Active(s.heads[k]) =>
        /\ s.heads[k].last_resp_oid = None
        /\ \E j \in 1 .. Len(oids) : s.heads[k].req_oid = Some(oids[j])
  BY <1>3, AskedHeads DEF Complete
<1>5. Advanced(s, t)
  <2>1. Advanced(s, s)
    BY <1>4 DEF Advanced
  <2> QED
    BY <2>1, VarBindsAdvance
<1>6. ASSUME NEW k \in 1 .. Len(t.heads), Active(t.heads[k])
      PROVE  \E j \in 1 .. Len(oids) : t.heads[k].req_oid = Some(oids[j])
  <2>1. k \in 1 .. Len(s.heads) /\ t.heads[k].req_oid = s.heads[k].req_oid
    BY <1>5 DEF Advanced
  <2> QED
    BY <1>4, <1>6, <2>1 DEF Active
<1>7. Covered(t) => Covered(Epilogue(t))
  BY <1>1, <1>2, <1>6, EpilogueCovers
<1>8. Placed(Epilogue(t))
  BY <1>1, <1>2, EpiloguePlaced
<1>9. /\ Epilogue(t).request = t.request /\ Epilogue(t).results = t.results
      /\ Epilogue(t).errors = t.errors
  BY <1>2, EpilogueType
<1> QED
  BY <1>1, <1>2, <1>7, <1>8, <1>9 DEF Keeping, Genuine

\* The answer to a get.
LEMMA AnswerKeepsGet ==
  ASSUME NEW s \in SessionObject, PlainRequest(s.request), s.request.type = "GET", Keeping(s),
         NEW oids \in Seq(Oid), AskedFor(s.heads, oids),
         NEW var_binds \in Seq(VarBind), Len(var_binds) = Len(oids),
         \A j \in 1 .. Len(oids) : var_binds[j].oid = oids[j],
         NEW t, t = VarBindLoop!Run(s, var_binds)
  PROVE  Keeping(Epilogue(t))
<1>1. Placed(s)
  BY DEF Keeping
<1>2. /\ t.heads = s.heads
      /\ Valued(s) => Valued(t)
      /\ Accounted(s) => AccountedBut(t, { oids[j] : j \in 1 .. Len(oids) })
  BY ZenonT(60), <1>1, GetBindings
<1>3. t \in SessionObject /\ t.request = s.request
  BY VarBindsType DEF Processings
<1>4. Placed(t)
  BY <1>1, <1>2, <1>3 DEF Placed
<1>5. Quiet(t.errors) => Quiet(s.errors)
  <2>1. Extends(t.errors, s.errors)
    BY VarBindsReport DEF ReportProcessings
  <2>2. s.errors \in Seq(Error) /\ t.errors \in Seq(Error)
    BY <1>3 DEF SessionObject
  <2>3. \A i \in 1 .. Len(s.errors) : i \in 1 .. Len(t.errors) /\ t.errors[i] = s.errors[i]
    BY <2>1, <2>2 DEF Extends
  <2> QED
    BY <2>3 DEF Quiet
<1>6. /\ Epilogue(t).request = t.request /\ Epilogue(t).results = t.results
      /\ Epilogue(t).errors = t.errors /\ Placed(Epilogue(t))
  BY <1>3, <1>4, EpilogueType, EpiloguePlaced
<1>7. Accounted(s) => Accounted(Epilogue(t))
  BY <1>2, <1>3, <1>4, EpilogueAccounts
<1> QED
  BY <1>2, <1>3, <1>5, <1>6, <1>7 DEF Keeping, Valued

--------------------------------------------------------------------------------
(* The invariant *)

\* The request is one of Requests, and no PDU is sent again.
Asking ==
  /\ session.request \in Requests
  /\ resends = 0
  /\ session.status = "WAIT" => in_flight[1].command = PduType(session.request)

KeepsAll == Asking /\ Keeping(session)

\* What Plain and the constructor of SnmpRequest leave of the requests.
LEMMA RequestIsPlain ==
  ASSUME Plain, NEW request \in Requests
  PROVE  PlainRequest(request) /\ request.oids # <<>> /\ request.config.retries = 0
<1>1. request \in Request /\ WellFormed(request)
  BY RequestsAssumption
<1> QED
  BY <1>1 DEF Plain, PlainRequest, WellFormed, RequestThrows

\* A head for every root OID, at its root.
LEMMA OpenedKeeps ==
  ASSUME NEW request, PlainRequest(request), request.oids # <<>>,
         NEW s, s = Opened(request)
  PROVE  Keeping(s)
<1> DEFINE heads == HeadsOf(request)
<1>1. request \in Request /\ request.oids \in Seq(Oid) /\ request.ranges = <<>>
  BY DEF PlainRequest, Request
<1>2. /\ s.request = request /\ s.heads = heads /\ s.results = <<>> /\ s.errors = <<>>
  BY DEF Opened, EmptySession
<1>3. /\ heads \in Seq(CollectionHead) /\ heads # <<>>
      /\ \A k \in 1 .. Len(heads) :
           /\ heads[k].root_oid_index = k - 1
           /\ heads[k].req_oid = None
           /\ heads[k].last_resp_oid = None
           /\ \E r \in DOMAIN request.oids, g \in Optional(OidRange) :
                /\ heads[k].root_oid = request.oids[r]
                /\ heads[k].range = RootedRange(request.oids[r], g)
                /\ request.ranges = <<>> => r = k
  BY SMTT(30), <1>1, HeadsOfEffect
<1>4. /\ Len(heads) = Len(request.oids)
      /\ \A k \in 1 .. Len(heads) : heads[k] = NewHead(k - 1, request.oids[k], None)
  <2>1. heads = [ k \in 1 .. Len(request.oids) * 1 |->
                    NewHead(k - 1, request.oids[((k - 1) \div 1) + 1], None) ]
    BY <1>1 DEF HeadsOf
  <2>2. Len(request.oids) * 1 = Len(request.oids) /\ Len(request.oids) \in Nat
    BY <1>1
  <2>3. \A k \in Nat \ {0} : ((k - 1) \div 1) + 1 = k
    OBVIOUS
  <2> HIDE DEF heads
  <2>4. DOMAIN heads = 1 .. Len(request.oids)
    BY <2>1, <2>2
  <2>5. Len(heads) = Len(request.oids)
    BY <1>3, <2>2, <2>4, LengthOf
  <2>6. ASSUME NEW k \in 1 .. Len(request.oids)
        PROVE  heads[k] = NewHead(k - 1, request.oids[k], None)
    <3>1. k \in Nat \ {0} /\ k \in 1 .. Len(request.oids) * 1
      BY <2>2
    <3> QED
      BY <2>1, <2>3, <3>1
  <2> QED
    BY <2>5, <2>6
<1> HIDE DEF heads
<1>5. ASSUME NEW k \in 1 .. Len(heads)
      PROVE  /\ heads[k].root_oid = request.oids[k] /\ k \in 1 .. Len(request.oids)
             /\ Position(heads[k]) = request.oids[k]
             /\ PlainHead(request, heads[k])
  <2>1. /\ heads[k].root_oid = request.oids[k]
        /\ heads[k].range = RootedRange(request.oids[k], None)
        /\ heads[k].root_oid_index = k - 1
        /\ heads[k].req_oid = None /\ heads[k].last_resp_oid = None
    <3>1. heads[k] = NewHead(k - 1, request.oids[k], None)
      BY <1>4
    <3> QED
      BY <3>1 DEF NewHead
  <2>2. request.oids[k] \in Oid /\ k \in 1 .. Len(request.oids)
    BY <1>1, <1>4
  <2>3. RootedRange(request.oids[k], None) = [start |-> request.oids[k], stop |-> request.oids[k]]
    BY <2>2, ConcatEmptySeq DEF RootedRange, ValueOr, Everything, Oid
  <2>4. Position(heads[k]) = request.oids[k]
    BY <2>1 DEF Position, ValueOr
  <2>5. IsRootOf(request.oids[k], request.oids[k])
    BY <2>2, RootArcs DEF Oid
  <2>6. (k - 1) + 1 = k
    BY <2>2
  <2> QED
    BY <2>1, <2>2, <2>3, <2>4, <2>5, <2>6 DEF PlainHead
<1>6. Placed(s)
  <2>1. Distinct(heads)
    BY <1>3 DEF Distinct
  <2> QED
    BY <1>2, <1>5, <2>1 DEF Placed
<1>7. Covered(s)
  <2>1. ASSUME NEW m \in Wanted(request)
        PROVE  \E k \in 1 .. Len(heads) : Ahead(heads[k], m)
    <3>1. m \in Mib /\ \E i \in 1 .. Len(request.oids) :
            request.oids[i] # m /\ IsRootOf(request.oids[i], m)
      BY WantedIs
    <3>2. PICK k \in 1 .. Len(heads) : request.oids[k] # m /\ IsRootOf(request.oids[k], m)
      BY <1>4, <3>1
    <3>3. OidLE(request.oids[k], m)
      <4>1. request.oids[k] \in Oid /\ m \in Oid
        BY <1>1, <1>5, <3>1, MibAssumption
      <4> QED
        BY <3>2, <4>1, RootFirst
    <3> QED
      BY <1>5, <3>2, <3>3 DEF Ahead, OidLE
  <2> QED
    BY <1>2, <2>1 DEF Covered
<1>8. Accounted(s)
  <2>1. ASSUME NEW oid \in AskedOids(request) PROVE Pursued(heads, oid)
    <3>1. PICK k \in 1 .. Len(heads) : oid = request.oids[k]
      BY <1>4 DEF AskedOids
    <3> QED
      BY <1>5, <3>1 DEF Pursued
  <2>2. \A oid : Unnamed(s, oid)
    BY <1>2 DEF Unnamed, ResultsFor, ErrorsFor
  <2> QED
    BY <1>2, <2>1, <2>2 DEF Accounted
<1> QED
  BY <1>2, <1>6, <1>7, <1>8 DEF Keeping, Genuine, Valued

\* The constructor, send and read establish and keep the invariant.
LEMMA InitKeeps ==
  ASSUME Plain, Init
  PROVE  KeepsAll
<1>1. PICK request \in Requests : session = Opened(request) \/ session = OpenFailed(request)
  BY DEF Init
<1>2. PlainRequest(request) /\ request.oids # <<>> /\ request \in Request
  BY <1>1, RequestIsPlain, RequestsAssumption
<1>3. CASE session = Opened(request)
  <2>1. session.request = request /\ session.status = "IDLE"
    BY <1>3 DEF Opened, EmptySession
  <2>2. Keeping(session)
    BY <1>2, <1>3, OpenedKeeps
  <2> QED
    BY <2>1, <2>2 DEF Init, KeepsAll, Asking
<1>4. CASE session = OpenFailed(request)
  <2> DEFINE empty == EmptySession(request)
  <2>1. /\ empty \in SessionObject /\ empty.request = request
        /\ empty.heads = <<>> /\ empty.results = <<>> /\ empty.errors = <<>>
    BY <1>2, EmptySessionType DEF EmptySession
  <2>2. session = Fail(empty, "SESSION_ERROR", None)
    BY <1>4 DEF OpenFailed
  <2> HIDE DEF empty
  <2>3. "SESSION_ERROR" \in FatalErrors /\ "SESSION_ERROR" \in ErrorTypes /\ None \in Optional(Oid)
    BY OptionalType DEF FatalErrors, ErrorTypes
  <2>4. /\ session.request = request /\ session.status = "CLOSED" /\ session.heads = <<>>
    BY <2>1, <2>2, <2>3, FailType
  <2>5. session.results = <<>>
    <3>1. Fail(empty, "SESSION_ERROR", None).results = empty.results
      BY ZenonT(60), <2>1, ErrorEffect
    <3> QED
      BY <2>1, <2>2, <3>1
  <2>6. session.errors # <<>> /\ ~Quiet(session.errors)
    <3> DEFINE error == [type |-> "SESSION_ERROR", oid |-> None]
    <3>1. session.errors = Append(empty.errors, error)
      BY <2>1, <2>2, ErrorEffect
    <3>2. Fatal(error)
      BY DEF Fatal, FatalErrors
    <3> HIDE DEF error
    <3>3. session.errors = <<error>>
      BY <2>1, <3>1
    <3> QED
      BY <3>2, <3>3 DEF Quiet
  <2>7. Placed(session)
    BY <2>4 DEF Placed, Distinct
  <2>8. Keeping(session)
    BY <2>5, <2>6, <2>7 DEF Keeping, Genuine, Valued
  <2> QED
    BY <2>4, <2>8 DEF Init, KeepsAll, Asking
<1> QED
  BY <1>1, <1>3, <1>4

\* send starts no PDU but that of the request's type.
LEMMA SendKeeps ==
  ASSUME Plain, IInv, HeadsAsked, KeepsAll, Send
  PROVE  KeepsAll'
<1>1. /\ session \in SessionObject /\ session.request \in Requests /\ resends = 0
      /\ Keeping(session) /\ session.status = "IDLE"
      /\ PlainRequest(session.request)
  BY SendFills, RequestIsPlain DEF IInv, TypeOK, KeepsAll, Asking
<1>2. {"CREATE_REQUEST_PDU_ERROR", "SEND_ERROR"} \subseteq FatalErrors /\ None \in Optional(Oid)
      /\ {"CREATE_REQUEST_PDU_ERROR", "SEND_ERROR"} \subseteq ErrorTypes
  BY OptionalType DEF FatalErrors, ErrorTypes
<1>3. CASE SendNoPdu
  <2>1. session' = Fail(session, "CREATE_REQUEST_PDU_ERROR", None) /\ resends' = resends
    BY <1>3 DEF SendNoPdu
  <2>2. session'.status = "CLOSED" /\ session'.request = session.request
    BY <1>1, <1>2, <2>1, FailType
  <2>3. Keeping(session')
    BY <1>1, <1>2, <2>1, FailKeeps
  <2> QED
    BY <1>1, <2>1, <2>2, <2>3 DEF KeepsAll, Asking
<1>4. ASSUME Idle, NEW taken \in Takings, NEW filled, filled = Fill(session, taken),
             SendDivides(filled) \/ SendRefused(filled) \/ SendTaken(filled)
      PROVE  KeepsAll'
  <2>1. /\ filled.session \in SessionObject /\ filled.session.status = "IDLE"
        /\ filled.session.request = session.request /\ filled.oids \in Seq(Oid)
    BY <1>4, Filled DEF IInv
  <2>2. Keeping(filled.session)
    <3>1. taken \in Seq(BOOLEAN)
      BY <1>1 DEF Takings, SessionObject
    <3>2. \A i \in 1 .. Len(session.heads) : ~Active(session.heads[i])
      BY <1>4 DEF HeadsAsked
    <3> QED
      BY <1>1, <1>4, <3>1, <3>2, FillKeeps
  <2> DEFINE s == filled.session
  <2>3. CASE SendDivides(filled)
    <3>1. session' = s /\ resends' = resends
      BY <2>3 DEF SendDivides
    <3> QED
      BY <1>1, <2>1, <2>2, <3>1 DEF KeepsAll, Asking
  <2>4. CASE SendRefused(filled)
    <3>1. session' = Fail(s, "SEND_ERROR", None) /\ resends' = resends
      BY <2>4 DEF SendRefused
    <3>2. session'.status = "CLOSED" /\ session'.request = session.request
      BY <1>2, <2>1, <3>1, FailType
    <3>3. Keeping(session')
      BY <1>2, <2>1, <2>2, <3>1, FailKeeps
    <3> QED
      BY <1>1, <3>1, <3>2, <3>3 DEF KeepsAll, Asking
  <2>5. CASE SendTaken(filled)
    <3>1. /\ session' = [s EXCEPT !.status = "WAIT"] /\ resends' = 0
          /\ in_flight' = Some(BuildPdu(s, filled.oids))
      BY <2>5 DEF SendTaken
    <3>2. /\ session'.request = s.request /\ session'.heads = s.heads
          /\ session'.results = s.results /\ session'.errors = s.errors
      BY <2>1, <3>1 DEF SessionObject
    <3>3. in_flight'[1].command = PduType(session'.request)
      BY <3>1, <3>2 DEF Some, BuildPdu
    <3>4. Keeping(session')
      BY <2>2, <3>2, NotNamed
         DEF Keeping, Placed, Genuine, Covered, Valued, Accounted
    <3> QED
      BY <1>1, <2>1, <3>1, <3>2, <3>3, <3>4 DEF KeepsAll, Asking
  <2> QED
    BY <1>4, <2>3, <2>4, <2>5
<1> QED
  BY <1>3, <1>4 DEF Send

\* read ends in an answer or in a fatal error: there is nothing to send again.
LEMMA ReadKeeps ==
  ASSUME WholeRows, Plain, IInv, HeadsAsked, KeepsAll, Read
  PROVE  KeepsAll'
<1>1. /\ session \in SessionObject /\ session.request \in Requests /\ resends = 0
      /\ Keeping(session) /\ session.status = "WAIT" /\ in_flight # None
      /\ in_flight[1].command = PduType(session.request)
      /\ PlainRequest(session.request) /\ session.request.config.retries = 0
  BY RequestIsPlain DEF IInv, TypeOK, KeepsAll, Asking, Read, Receive, ReceiveNull, Resend,
                        TimedOut, SendFailed, Disconnect, Waiting
<1>2. in_flight[1] \in RequestPdu
  BY <1>1, OptionalType DEF IInv, TypeOK
<1> DEFINE pdu == in_flight[1]
<1>3. AskedFor(session.heads, pdu.oids) /\ pdu.oids \in Seq(Oid)
  BY <1>1, <1>2 DEF HeadsAsked, Pending, RequestPdu
<1>4. ~Resend /\ ~SendFailed
  BY <1>1 DEF Resend, SendFailed
<1>5. in_flight' = None /\ resends' = resends
  BY <1>4 DEF Read, Receive, ReceiveNull, TimedOut, Disconnect
<1>6. session'.status # "WAIT"
  BY <1>5, ReadIInv DEF IInv, OneInFlight
<1> SUFFICES session'.request = session.request /\ Keeping(session')
  BY <1>1, <1>5, <1>6 DEF KeepsAll, Asking
<1>7. ASSUME NEW type \in FatalErrors, type # "CREATE_REQUEST_PDU_ERROR",
             NEW oid \in Optional(Oid), session' = Epilogue(Fail(session, type, oid))
      PROVE  session'.request = session.request /\ Keeping(session')
  <2>1. type \in ErrorTypes
    BY DEF ErrorTypes
  <2>2. Fail(session, type, oid) \in SessionObject
        /\ Fail(session, type, oid).request = session.request
    BY <1>1, <2>1, FailType
  <2> QED
    BY <1>1, <1>7, <2>2, FailKeeps, EpilogueType
<1>8. /\ None \in Optional(Oid)
      /\ {"CREATE_RESPONSE_PDU_ERROR", "BAD_RESPONSE_PDU_ERROR", "TIMEOUT_ERROR",
          "TRANSPORT_DISCONNECT_ERROR"} \subseteq FatalErrors
  BY OptionalType DEF FatalErrors
<1>9. CASE Receive
  <2>1. PICK reply \in Replies(pdu) :
          reply \in ReplyPdu /\ session' = Epilogue(Received(session, Some(reply)))
    BY <1>9 DEF Receive, ProcessReceived
  <2>2. Some(reply) # None /\ Some(reply)[1] = reply
    BY DEF Some, None
  <2>3. CASE reply.command # "RESPONSE"
    <3>1. Received(session, Some(reply)) = Fail(session, "BAD_RESPONSE_PDU_ERROR", None)
      BY <2>2, <2>3 DEF Received
    <3> QED
      BY <1>7, <1>8, <2>1, <3>1
  <2>4. CASE reply.command = "RESPONSE" /\ reply.errstat # 0
    <3>1. Received(session, Some(reply)) =
            Fail(session, "BAD_RESPONSE_PDU_ERROR", ErrorOid(reply))
      BY <2>2, <2>4 DEF Received
    <3> QED
      BY <1>7, <1>8, <2>1, <3>1, ErrorOidType
  <2>5. CASE reply.command = "RESPONSE" /\ reply.errstat = 0
    <3> DEFINE s == [session EXCEPT !.status = "IDLE"]
               var_binds == reply.var_binds
               t == VarBindLoop!Run(s, var_binds)
    <3>1. Received(session, Some(reply)) = t
      BY <2>2, <2>5 DEF Received
    <3>2. /\ s \in SessionObject /\ s.request = session.request /\ s.heads = session.heads
          /\ s.results = session.results /\ s.errors = session.errors
      BY <1>1 DEF SessionObject, Status
    <3>3. var_binds \in Seq(VarBind) /\ reply \in WholeRowReplies(pdu)
      BY <1>2, <2>1 DEF ReplyPdu, WholeRows
    <3> HIDE DEF s
    <3>4. Keeping(s)
      BY <1>1, <3>2, NotNamed DEF Keeping, Placed, Genuine, Covered, Valued, Accounted
    <3>5. t \in SessionObject /\ t.request = session.request
      BY <3>2, <3>3, VarBindsType DEF Processings
    <3>6. session.request \in Request /\ session.request.type \in {"WALK", "GET"}
      BY <1>1 DEF PlainRequest, Request
    <3>7. CASE session.request.type = "WALK"
      <4>1. pdu.command \in {"GETNEXT", "GETBULK"}
        BY <1>1, <3>6, <3>7 DEF PduType, Request
      <4>2. Chained(pdu.oids, var_binds) /\ FirstRow(pdu.oids, var_binds)
        BY <1>2, <2>5, <3>3, <4>1, WalkAnswer
      <4>3. AskedFor(s.heads, pdu.oids) /\ PlainRequest(s.request) /\ s.request.type = "WALK"
        BY <1>1, <1>3, <3>2, <3>7
      <4> HIDE DEF pdu, var_binds
      <4> QED
        BY <1>3, <2>1, <3>1, <3>2, <3>3, <3>4, <3>5, <4>2, <4>3, AnswerKeepsWalk, EpilogueType
    <3>8. CASE session.request.type = "GET"
      <4>1. pdu.command = "GET"
        BY <1>1, <3>8 DEF PduType
      <4>2. /\ Len(var_binds) = Len(pdu.oids)
            /\ \A j \in 1 .. Len(pdu.oids) : var_binds[j].oid = pdu.oids[j]
        BY <1>2, <2>5, <3>3, <4>1, GetAnswer
      <4>3. AskedFor(s.heads, pdu.oids) /\ PlainRequest(s.request) /\ s.request.type = "GET"
        BY <1>1, <1>3, <3>2, <3>8
      <4> HIDE DEF pdu, var_binds
      <4> QED
        BY <1>3, <2>1, <3>1, <3>2, <3>3, <3>4, <3>5, <4>2, <4>3, AnswerKeepsGet, EpilogueType
    <3> QED
      BY <3>6, <3>7, <3>8
  <2> QED
    BY <2>1, <2>3, <2>4, <2>5 DEF ReplyPdu
<1>10. CASE ReceiveNull
  <2>1. session' = Epilogue(Fail(session, "CREATE_RESPONSE_PDU_ERROR", None))
    BY <1>10 DEF ReceiveNull, ProcessReceived, Received
  <2> QED
    BY <1>7, <1>8, <2>1
<1>11. CASE TimedOut
  <2>1. session' = Epilogue(Fail(session, "TIMEOUT_ERROR", None))
    BY <1>11 DEF TimedOut, ProcessTimedOut
  <2> QED
    BY <1>7, <1>8, <2>1
<1>12. CASE Disconnect
  <2>1. session' = Epilogue(Fail(session, "TRANSPORT_DISCONNECT_ERROR", None))
    BY <1>12 DEF Disconnect, ProcessDisconnect
  <2> QED
    BY <1>7, <1>8, <2>1
<1> QED
  BY <1>4, <1>9, <1>10, <1>11, <1>12 DEF Read

\* The invariant holds in every state.
LEMMA InvariantKeepsAll ==
  ASSUME WholeRows, Plain
  PROVE  Spec => []KeepsAll
<1>1. Init => KeepsAll
  BY InitKeeps
<1>2. IInv /\ HeadsAsked /\ KeepsAll /\ [Next]_vars => KeepsAll'
  <2>1. ASSUME KeepsAll, UNCHANGED vars PROVE KeepsAll'
    BY <2>1 DEF vars, KeepsAll, Asking
  <2> QED
    BY <2>1, SendKeeps, ReadKeeps DEF Next, Done
<1> QED
  BY <1>1, <1>2, InvariantIInv, InvariantHeads, PTL DEF Spec

--------------------------------------------------------------------------------
(* What the response of a session that closed holds *)

\* The response in terms of the session.
LEMMA CollectedHeld ==
  ASSUME session \in SessionObject
  PROVE  /\ Collected = Held(session.results)
         /\ DOMAIN session.results = 1 .. Len(session.results)
         /\ DOMAIN session.errors = 1 .. Len(session.errors)
         /\ Reported = { session.errors[i].oid : i \in 1 .. Len(session.errors) }
<1>1. /\ DOMAIN session.results = 1 .. Len(session.results)
      /\ DOMAIN session.errors = 1 .. Len(session.errors)
  BY DEF SessionObject
<1>2. response.results = session.results /\ response.errors = session.errors
  BY DEF response, Response
<1> QED
  BY <1>1, <1>2 DEF Collected, Reported, Held

\* A session that closed without a fatal error has no heads left.
LEMMA NothingLeft ==
  ASSUME session \in SessionObject, Explained(session), Over, Quiet(session.errors)
  PROVE  session.heads = <<>>
<1>1. SUFFICES ASSUME session.heads # <<>> PROVE FALSE
  OBVIOUS
<1>2. session.errors # <<>> /\ Fatal(Last(session.errors))
  BY <1>1 DEF Explained, Over
<1>3. session.errors \in Seq(Error)
  BY DEF SessionObject
<1>4. /\ Last(session.errors) = session.errors[Len(session.errors)]
      /\ Len(session.errors) \in 1 .. Len(session.errors)
  BY <1>2, <1>3 DEF Last
<1> QED
  BY <1>2, <1>4 DEF Quiet

\* WalkComplete: process_var_bind and the loop behind the switch of process_pdu
\* take no head for complete while the agent holds instances below its root, so
\* that a walk that ends without an error has everything and nothing else.
THEOREM WalksComplete ==
  ASSUME WholeRows, Plain
  PROVE  Spec => []WalkComplete
<1>1. IInv /\ Explained(session) /\ KeepsAll => WalkComplete
  <2> SUFFICES ASSUME IInv, Explained(session), KeepsAll,
                      Over, session.request.type = "WALK", session.errors = <<>>
               PROVE  Collected = Wanted(session.request)
    BY DEF WalkComplete
  <2>1. session \in SessionObject /\ Genuine(session) /\ Covered(session)
    BY DEF IInv, TypeOK, KeepsAll, Keeping
  <2>2. session.heads = <<>>
    BY <2>1, NothingLeft DEF Quiet
  <2>3. Wanted(session.request) \subseteq Held(session.results)
    BY <2>1, <2>2 DEF Covered
  <2>4. Held(session.results) \subseteq Wanted(session.request)
    BY <2>1 DEF Genuine, Held
  <2> QED
    BY <2>1, <2>3, <2>4, CollectedHeld
<1> QED
  BY <1>1, InvariantIInv, InvariantExplained, InvariantKeepsAll, PTL

\* GetAnswered: send names the OIDs net-snmp would not take, process_var_bind
\* answers or reports every other one, and nothing is answered or reported twice.
THEOREM GetsAnswered ==
  ASSUME WholeRows, Plain
  PROVE  Spec => []GetAnswered
<1>1. IInv /\ Explained(session) /\ KeepsAll => GetAnswered
  <2> SUFFICES ASSUME IInv, Explained(session), KeepsAll,
                      Over, session.request.type = "GET",
                      \A k \in DOMAIN session.errors : ~Fatal(session.errors[k])
               PROVE  /\ Collected \cap { o[1] : o \in Reported } = {}
                      /\ \A i \in DOMAIN session.request.oids :
                           LET oid == session.request.oids[i]
                           IN  Cardinality({ j \in DOMAIN session.results :
                                               session.results[j].oid = oid })
                               + Cardinality({ j \in DOMAIN session.errors :
                                                 session.errors[j].oid = Some(oid) }) = 1
    BY DEF GetAnswered
  <2> DEFINE asked == AskedOids(session.request)
  <2>1. session \in SessionObject
    BY DEF IInv, TypeOK
  <2>2. Quiet(session.errors) /\ session.heads = <<>>
    BY <2>1, CollectedHeld, NothingLeft DEF Quiet
  <2>3. Valued(session) /\ Accounted(session)
    BY <2>2 DEF KeepsAll, Keeping
  <2>4. ASSUME NEW oid \in asked PROVE OnlyOnce(session, oid)
    BY <2>2, <2>3, <2>4 DEF Accounted, Pursued
  <2>5. ASSUME NEW x \in Collected, x \in { o[1] : o \in Reported } PROVE FALSE
    <3>1. PICK i \in 1 .. Len(session.results) : session.results[i].oid = x
      BY <2>1, <2>5, CollectedHeld DEF Held
    <3>2. PICK j \in 1 .. Len(session.errors) : session.errors[j].oid[1] = x
      BY <2>1, <2>5, CollectedHeld
    <3>3. session.errors[j].oid = Some(x)
      BY <2>3, <3>2 DEF Accounted, Some
    <3>4. x \in asked
      BY <2>3, <3>1 DEF Valued
    <3>5. i \in ResultsFor(session, x) /\ j \in ErrorsFor(session, x)
      BY <3>1, <3>3 DEF ResultsFor, ErrorsFor
    <3> QED
      BY <2>4, <3>4, <3>5 DEF OnlyOnce
  <2>6. ASSUME NEW i \in DOMAIN session.request.oids, NEW oid, oid = session.request.oids[i]
        PROVE  Cardinality({ j \in DOMAIN session.results : session.results[j].oid = oid })
               + Cardinality({ j \in DOMAIN session.errors :
                                 session.errors[j].oid = Some(oid) }) = 1
    <3>1. session.request.oids \in Seq(Oid)
      BY <2>1 DEF SessionObject, Request
    <3>2. OnlyOnce(session, oid)
      BY <2>4, <2>6, <3>1 DEF AskedOids
    <3>3. /\ { j \in DOMAIN session.results : session.results[j].oid = oid }
               = ResultsFor(session, oid)
          /\ { j \in DOMAIN session.errors : session.errors[j].oid = Some(oid) }
               = ErrorsFor(session, oid)
      BY <2>1, CollectedHeld DEF ResultsFor, ErrorsFor
    <3>4. Cardinality({}) = 0 /\ \A j : Cardinality({j}) = 1
      BY FS_EmptySet, FS_Singleton
    <3>5. Cardinality(ResultsFor(session, oid)) + Cardinality(ErrorsFor(session, oid)) = 1
      <4>1. CASE ErrorsFor(session, oid) = {} /\ \E j : ResultsFor(session, oid) = {j}
        <5>1. Cardinality(ErrorsFor(session, oid)) = 0 /\ Cardinality(ResultsFor(session, oid)) = 1
          BY <3>4, <4>1
        <5> QED
          BY <5>1
      <4>2. CASE ResultsFor(session, oid) = {} /\ \E j : ErrorsFor(session, oid) = {j}
        <5>1. Cardinality(ResultsFor(session, oid)) = 0 /\ Cardinality(ErrorsFor(session, oid)) = 1
          BY <3>4, <4>2
        <5> QED
          BY <5>1
      <4> QED
        BY <3>2, <4>1, <4>2 DEF OnlyOnce
    <3> QED
      BY <3>3, <3>5
  <2> QED
    BY <2>5, <2>6
<1> QED
  BY <1>1, InvariantIInv, InvariantExplained, InvariantKeepsAll, PTL

\* OnlyValuesCollected: although process_var_bind looks at the type of a binding
\* for a get only, no walk collects the end-of-view marker.
THEOREM OnlyValues ==
  ASSUME WholeRows, Plain
  PROVE  Spec => []OnlyValuesCollected
<1>1. IInv /\ KeepsAll => OnlyValuesCollected
  <2> SUFFICES ASSUME IInv, KeepsAll PROVE OnlyValuesCollected
    OBVIOUS
  <2>1. session \in SessionObject
    BY DEF IInv, TypeOK
  <2>2. session.request.type \in {"GET", "WALK"}
    BY <2>1 DEF SessionObject, Request
  <2>3. Genuine(session) \/ Valued(session)
    BY <2>2 DEF KeepsAll, Keeping
  <2> QED
    BY <2>1, <2>3, CollectedHeld DEF OnlyValuesCollected, Genuine, Valued
<1> QED
  BY <1>1, InvariantIInv, InvariantKeepsAll, PTL

================================================================================
