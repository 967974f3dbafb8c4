-------------------------------- MODULE LoopProofs --------------------------------
(*******************************************************************************)
(* What holds before a loop and is kept by every pass holds behind it, for any *)
(* body: a module with a loop instantiates this one with the body as Step.     *)
(* The property is given as the set of the loop states that have it.           *)
(*******************************************************************************)
EXTENDS Loop, WellFoundedInduction, TLAPS

\* Induction over the natural numbers, for a property given as a set.
LEMMA Induction ==
  ASSUME NEW T, 0 \in T, \A n \in Nat : n \in T => n + 1 \in T
  PROVE  \A n \in Nat : n \in T
<1> DEFINE bad == Nat \ T
<1>1. SUFFICES ASSUME bad # {} PROVE FALSE
  OBVIOUS
<1>2. PICK least \in bad : \A n \in bad : ~(<<n, least>> \in OpToRel(<, Nat))
  BY <1>1, WFMin, NatLessThanWellFounded, Zenon
<1>3. least \in Nat /\ least # 0
  OBVIOUS
<1>4. least - 1 \in Nat /\ least - 1 < least
  BY <1>3
<1>5. <<least - 1, least>> \in OpToRel(<, Nat)
  BY <1>3, <1>4 DEF OpToRel
<1>6. least - 1 \in T
  BY <1>2, <1>4, <1>5
<1>7. (least - 1) + 1 \in T
  BY <1>4, <1>6
<1> QED
  BY <1>3, <1>7

\* The functions defined by recursion over 0 .. N; there is one.
Iterations(A, first, N, F) ==
  { g \in [0 .. N -> A] : g[0] = first /\ \A i \in 1 .. N : g[i] = F[<<g[i - 1], i>>] }

LEMMA IterationExists ==
  ASSUME NEW A, NEW first \in A, NEW N \in Nat, NEW F \in [A \X (1 .. N) -> A]
  PROVE  Iterations(A, first, N, F) # {}
<1> DEFINE Upto(n) == \E g \in [0 .. n -> A] :
             g[0] = first /\ \A i \in 1 .. n : g[i] = F[<<g[i - 1], i>>]
           T == {n \in Nat : n <= N => Upto(n)}
<1>1. 0 \in T
  <2> DEFINE g == [i \in 0 .. 0 |-> first]
  <2>1. g \in [0 .. 0 -> A] /\ g[0] = first
    OBVIOUS
  <2>2. 1 .. 0 = {}
    OBVIOUS
  <2> HIDE DEF g
  <2>3. Upto(0)
    BY <2>1, <2>2
  <2> QED
    BY <2>3
<1>2. ASSUME NEW n \in Nat, n \in T PROVE n + 1 \in T
  <2>1. SUFFICES ASSUME n + 1 <= N PROVE Upto(n + 1)
    OBVIOUS
  <2>2. PICK g \in [0 .. n -> A] :
          g[0] = first /\ \A i \in 1 .. n : g[i] = F[<<g[i - 1], i>>]
    BY <1>2, <2>1
  <2> DEFINE h == [i \in 0 .. n + 1 |-> IF i = n + 1 THEN F[<<g[n], n + 1>>] ELSE g[i]]
  <2>3. F[<<g[n], n + 1>>] \in A
    BY <2>1
  <2>4. h \in [0 .. n + 1 -> A] /\ h[0] = first
    BY <2>2, <2>3
  <2>5. ASSUME NEW i \in 1 .. n + 1 PROVE h[i] = F[<<h[i - 1], i>>]
    <3>1. h[i - 1] = g[i - 1]
      OBVIOUS
    <3>2. CASE i = n + 1
      <4>1. h[i] = F[<<g[n], n + 1>>] /\ h[i - 1] = g[n]
        BY <3>1, <3>2
      <4> HIDE DEF h
      <4> QED
        BY <4>1, <3>2
    <3>3. CASE i # n + 1
      <4>1. i \in 1 .. n
        BY <3>3
      <4> QED
        BY <4>1, <3>1, <2>2, <3>3
    <3> QED
      BY <3>2, <3>3
  <2> HIDE DEF h
  <2> QED
    BY <2>4, <2>5
<1>3. N \in T
  BY <1>1, <1>2, Induction, Zenon
<1> QED
  BY <1>3 DEF Iterations

\* What the loop computes, as the sequence of its states.
LEMMA RunIterates ==
  ASSUME NEW A, NEW V, NEW init \in A, NEW seq \in Seq(V),
         \A a \in A, v \in V : Step(a, v) \in A
  PROVE  \E state \in [0 .. Len(seq) -> A] :
           /\ state[0] = init
           /\ \A i \in 1 .. Len(seq) : state[i] = Step(state[i - 1], seq[i])
           /\ Run(init, seq) = state[Len(seq)]
<1> DEFINE N == Len(seq)
           F == [p \in A \X (1 .. N) |-> Step(p[1], seq[p[2]])]
           Body(g) == [i \in 0 .. N |-> IF i = 0 THEN init ELSE Step(g[i - 1], seq[i])]
           state == CHOOSE g : g = Body(g)
<1>1. N \in Nat /\ \A i \in 1 .. N : seq[i] \in V
  OBVIOUS
<1>2. F \in [A \X (1 .. N) -> A]
  OBVIOUS
<1>3. PICK g \in [0 .. N -> A] :
        g[0] = init /\ \A i \in 1 .. N : g[i] = F[<<g[i - 1], i>>]
  <2> HIDE DEF F, N
  <2>1. Iterations(A, init, N, F) # {}
    BY <1>1, <1>2, IterationExists
  <2> QED
    BY <2>1 DEF Iterations
<1>4. ASSUME NEW i \in 1 .. N PROVE g[i] = Step(g[i - 1], seq[i])
  <2>1. <<g[i - 1], i>> \in A \X (1 .. N)
    OBVIOUS
  <2>2. F[<<g[i - 1], i>>] = Step(g[i - 1], seq[i])
    BY <2>1
  <2> QED
    BY <1>3, <2>2
<1> HIDE DEF state
<1>5. g = Body(g)
  <2>1. \A i \in 0 .. N : g[i] = IF i = 0 THEN init ELSE Step(g[i - 1], seq[i])
    <3> SUFFICES ASSUME NEW i \in 0 .. N
                 PROVE  g[i] = IF i = 0 THEN init ELSE Step(g[i - 1], seq[i])
      OBVIOUS
    <3>1. CASE i = 0
      BY <1>3, <3>1
    <3>2. CASE i # 0
      <4>1. i \in 1 .. N
        BY <3>2
      <4> QED
        BY <1>4, <3>2, <4>1
    <3> QED
      BY <3>1, <3>2
  <2> QED
    BY <2>1
<1>6. state = Body(state)
  <2> HIDE DEF Body
  <2> QED
    BY <1>5 DEF state
<1>7. state[0] = init /\ \A i \in 1 .. N : state[i] = Step(state[i - 1], seq[i])
  <2>1. state = [i \in 0 .. N |-> IF i = 0 THEN init ELSE Step(state[i - 1], seq[i])]
    BY <1>6
  <2>2. ASSUME NEW i \in 0 .. N
        PROVE  state[i] = IF i = 0 THEN init ELSE Step(state[i - 1], seq[i])
    BY <2>1, Zenon
  <2> HIDE DEF N
  <2> QED
    BY <2>2, <1>1
<1>8. Run(init, seq) = state[N]
  BY DEF Run, state
<1>9. state \in [0 .. N -> A]
  <2> DEFINE T == {n \in Nat : n <= N => state[n] \in A}
  <2>1. 0 \in T
    BY <1>7
  <2>2. ASSUME NEW n \in Nat, n \in T PROVE n + 1 \in T
    <3>1. CASE n + 1 <= N
      <4>1. state[n] \in A /\ n + 1 \in 1 .. N
        BY <2>2, <3>1
      <4>2. state[n + 1] = Step(state[n], seq[n + 1]) /\ seq[n + 1] \in V
        BY <1>7, <1>1, <4>1
      <4> QED
        BY <4>1, <4>2
    <3> QED
      BY <3>1
  <2>3. \A n \in Nat : n \in T
    <3> HIDE DEF T, N
    <3> QED
      BY <2>1, <2>2, Induction
  <2>4. \A n \in 0 .. N : state[n] \in A
    BY <2>3, <1>1
  <2>5. state = [i \in 0 .. N |-> IF i = 0 THEN init ELSE Step(state[i - 1], seq[i])]
    BY <1>6
  <2> HIDE DEF N
  <2> QED
    BY <2>4, <2>5
<1> HIDE DEF N
<1> QED
  BY <1>7, <1>8, <1>9 DEF N

\* The invariant rule of the loop: inv[i] is the set of the states that may
\* follow the i-th pass.
THEOREM RunInvariantAt ==
  ASSUME NEW A, NEW V, NEW init \in A, NEW seq \in Seq(V),
         \A a \in A, v \in V : Step(a, v) \in A,
         NEW inv
  PROVE  /\ init \in inv[0]
         /\ \A i \in 1 .. Len(seq), a \in A : a \in inv[i - 1] => Step(a, seq[i]) \in inv[i]
         => Run(init, seq) \in inv[Len(seq)]
<1>1. PICK state \in [0 .. Len(seq) -> A] :
        /\ state[0] = init
        /\ \A i \in 1 .. Len(seq) : state[i] = Step(state[i - 1], seq[i])
        /\ Run(init, seq) = state[Len(seq)]
  BY RunIterates
<1> HAVE /\ init \in inv[0]
         /\ \A i \in 1 .. Len(seq), a \in A : a \in inv[i - 1] => Step(a, seq[i]) \in inv[i]
<1> DEFINE N == Len(seq)
           T == {n \in Nat : n <= N => state[n] \in inv[n]}
<1>2. N \in Nat
  OBVIOUS
<1>3. 0 \in T
  BY <1>1
<1>4. ASSUME NEW n \in Nat, n \in T PROVE n + 1 \in T
  <2>1. CASE n + 1 <= N
    <3>1. n + 1 \in 1 .. N /\ n \in 0 .. N /\ (n + 1) - 1 = n /\ state[n] \in inv[n]
      BY <1>2, <1>4, <2>1
    <3>2. state[n] \in A /\ state[n + 1] = Step(state[n], seq[n + 1])
      BY <1>1, <3>1
    <3> QED
      BY <3>1, <3>2
  <2> QED
    BY <2>1
<1>5. N \in T
  <2> HIDE DEF T, N
  <2> QED
    BY <1>2, <1>3, <1>4, Induction
<1> QED
  BY <1>1, <1>2, <1>5

\* The same for one set of states throughout.
LEMMA RunInvariant ==
  ASSUME NEW A, NEW V, NEW init \in A, NEW seq \in Seq(V),
         \A a \in A, v \in V : Step(a, v) \in A
  PROVE  Run(init, seq) \in A
<1>1. PICK state \in [0 .. Len(seq) -> A] : Run(init, seq) = state[Len(seq)]
  BY RunIterates
<1>2. Len(seq) \in 0 .. Len(seq)
  OBVIOUS
<1> QED
  BY <1>1, <1>2

================================================================================
