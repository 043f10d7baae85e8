---------------------------- MODULE QueueProofs ----------------------------
(***************************************************************************)
(* Lemmas about the waiting lines of WaitQueue, for the proofs about the   *)
(* mutex and the semaphores: the walk from wait_head along wait_next, and  *)
(* with it Line(q), is the sequence of threads that wait_next chains.      *)
(*                                                                         *)
(* LineFrom is a recursive function, and no backend instantiates the       *)
(* library's induction theorems.  That it satisfies its equation is        *)
(* therefore shown from the well-foundedness of < on the naturals: every   *)
(* non-empty set of naturals has a least member.                           *)
(***************************************************************************)
EXTENDS WaitQueue, WellFoundedInduction, FiniteSetTheorems, TLAPS

\* A set of naturals has a least member.
LEMMA LeastNatural ==
    ASSUME NEW S \in SUBSET Nat, S # {}
    PROVE  \E n \in S : \A m \in S : n <= m
<1> DEFINE less == {p \in Nat \X Nat : p[1] < p[2]}
<1>1. IsWellFoundedOn(less, Nat)
  BY NatLessThanWellFounded DEF OpToRel
<1>2. PICK n \in S : \A m \in S : <<m, n>> \notin less
  <2> HIDE DEF less
  <2> QED
    BY <1>1, WFMin
<1>3. ASSUME NEW m \in S PROVE n <= m
  <2>1. n \in Nat /\ m \in Nat /\ <<m, n>> \in Nat \X Nat
    OBVIOUS
  <2>2. ~(<<m, n>>[1] < <<m, n>>[2])
    BY <1>2, <2>1
  <2> QED
    BY <2>1, <2>2
<1> QED
  BY <1>3

\* Induction over the naturals, on the set of those that have the property.
LEMMA SetInduction ==
    ASSUME NEW P \in SUBSET Nat, 0 \in P, \A n \in P : n + 1 \in P
    PROVE  P = Nat
<1> SUFFICES ASSUME Nat \ P # {} PROVE FALSE
  OBVIOUS
<1>1. PICK n \in Nat \ P : \A m \in Nat \ P : n <= m
  BY LeastNatural
<1>2. n # 0 /\ n - 1 \in Nat /\ ~(n <= n - 1)
  BY <1>1
<1>3. n - 1 \in P
  BY <1>1, <1>2
<1> QED
  BY <1>2, <1>3, <1>1

-----------------------------------------------------------------------------
(* Iterating a function.                                                   *)

Iterates(V, v0, G, n) ==
    {h \in [0..n -> V] : h[0] = v0 /\ \A m \in 0..(n - 1) : h[m + 1] = G[h[m]]}

LEMMA IteratesExist ==
    ASSUME NEW V, NEW v0 \in V, NEW G \in [V -> V]
    PROVE  \A n \in Nat : Iterates(V, v0, G, n) # {}
<1> DEFINE P == {n \in Nat : Iterates(V, v0, G, n) # {}}
<1>1. 0 \in P
  <2>1. [m \in 0..0 |-> v0] \in Iterates(V, v0, G, 0)
    BY DEF Iterates
  <2> QED
    BY <2>1
<1>2. ASSUME NEW n \in P PROVE n + 1 \in P
  <2>1. PICK h : h \in Iterates(V, v0, G, n)
    BY <1>2
  <2>2. /\ h \in [0..n -> V] /\ h[0] = v0 /\ n \in Nat
        /\ \A m \in 0..(n - 1) : h[m + 1] = G[h[m]]
    BY <2>1 DEF Iterates
  <2> DEFINE g == [m \in 0..(n + 1) |-> IF m = n + 1 THEN G[h[n]] ELSE h[m]]
  <2>3. h[n] \in V /\ G[h[n]] \in V
    BY <2>2
  <2>4. g \in [0..(n + 1) -> V] /\ g[0] = v0
    BY <2>2, <2>3
  <2>5. \A m \in 0..n : g[m + 1] = G[g[m]]
    BY <2>2
  <2>6. g \in Iterates(V, v0, G, n + 1)
    BY <2>2, <2>4, <2>5 DEF Iterates
  <2> QED
    BY <2>2, <2>6
<1>3. P = Nat
  <2> HIDE DEF P
  <2>1. P \in SUBSET Nat
    BY DEF P
  <2> QED
    BY <1>1, <1>2, <2>1, SetInduction
<1> QED
  BY <1>3

LEMMA IteratesAgree ==
    ASSUME NEW V, NEW v0 \in V, NEW G \in [V -> V], NEW n \in Nat, NEW k \in Nat,
           n <= k, NEW h \in Iterates(V, v0, G, n), NEW g \in Iterates(V, v0, G, k)
    PROVE  h[n] = g[n]
<1> DEFINE P == {m \in Nat : m <= n => h[m] = g[m]}
<1>1. /\ h[0] = v0 /\ \A m \in 0..(n - 1) : h[m + 1] = G[h[m]]
      /\ g[0] = v0 /\ \A m \in 0..(k - 1) : g[m + 1] = G[g[m]]
  BY DEF Iterates
<1>2. 0 \in P
  BY <1>1
<1>3. ASSUME NEW m \in P PROVE m + 1 \in P
  <2>1. CASE m + 1 <= n
    <3>1. m \in 0..(n - 1) /\ m \in 0..(k - 1) /\ h[m] = g[m]
      BY <1>3, <2>1
    <3> QED
      BY <1>1, <3>1
  <2> QED
    BY <2>1
<1>4. P = Nat
  <2> HIDE DEF P
  <2>1. P \in SUBSET Nat
    BY DEF P
  <2> QED
    BY <1>2, <1>3, <2>1, SetInduction
<1> QED
  BY <1>4

\* There is a function on all naturals that iterates G from v0.
Iterations(V, v0, G) == {h \in [Nat -> V] : h[0] = v0 /\ \A n \in Nat : h[n + 1] = G[h[n]]}

LEMMA IterationExists ==
    ASSUME NEW V, NEW v0 \in V, NEW G \in [V -> V]
    PROVE  \E h : h \in Iterations(V, v0, G)
<1> DEFINE upTo(n) == CHOOSE h : h \in Iterates(V, v0, G, n)
           all == [n \in Nat |-> upTo(n)[n]]
<1>1. \A n \in Nat : upTo(n) \in Iterates(V, v0, G, n)
  BY IteratesExist
<1> HIDE DEF upTo
<1>2. \A n \in Nat : upTo(n) \in [0..n -> V] /\ n \in 0..n
  BY <1>1 DEF Iterates
<1>3. all \in [Nat -> V]
  BY <1>2
<1>4. all[0] = v0
  BY <1>1 DEF Iterates
<1>5. ASSUME NEW n \in Nat PROVE all[n + 1] = G[all[n]]
  <2>1. upTo(n + 1)[n + 1] = G[upTo(n + 1)[n]]
    <3>1. n + 1 \in Nat /\ n \in 0..((n + 1) - 1)
      OBVIOUS
    <3> QED
      BY <1>1, <3>1 DEF Iterates
  <2>2. upTo(n)[n] = upTo(n + 1)[n]
    BY <1>1, IteratesAgree
  <2> QED
    BY <2>1, <2>2
<1>6. all \in Iterations(V, v0, G)
  <2> HIDE DEF all
  <2> QED
    BY <1>3, <1>4, <1>5 DEF Iterations
<1> QED
  BY <1>6

-----------------------------------------------------------------------------
(* The walk along nx, a value of wait_next.                                *)

Slots == Threads \cup {NULL}
Walks(nx, f) ==
    f = [n \in Nat |-> [t \in Slots |->
            IF n = 0 \/ t = NULL THEN << >> ELSE <<t>> \o f[n - 1][nx[t]]]]

\* Some function satisfies the equation of the walk.
LEMMA WalkExists ==
    ASSUME NEW nx \in [Threads -> Slots]
    PROVE  \E f : Walks(nx, f)
<1> DEFINE V == [Slots -> Seq(Threads)]
           v0 == [t \in Slots |-> << >>]
           step(v) == [t \in Slots |-> IF t = NULL THEN << >> ELSE <<t>> \o v[nx[t]]]
           G == [v \in V |-> step(v)]
<1>1. v0 \in V
  OBVIOUS
<1>2. ASSUME NEW v \in V PROVE step(v) \in V
  <2>1. ASSUME NEW t \in Threads PROVE <<t>> \o v[nx[t]] \in Seq(Threads)
    OBVIOUS
  <2> QED
    BY <2>1 DEF Slots
<1> HIDE DEF V
<1>3. G \in [V -> V]
  BY <1>2
<1>4. PICK h \in [Nat -> V] : h[0] = v0 /\ \A n \in Nat : h[n + 1] = G[h[n]]
  <2> HIDE DEF v0, G
  <2>1. \E h : h \in Iterations(V, v0, G)
    BY <1>1, <1>3, IterationExists
  <2> QED
    BY <2>1 DEF Iterations
<1>5. ASSUME NEW n \in Nat
      PROVE  h[n] = [t \in Slots |->
                IF n = 0 \/ t = NULL THEN << >> ELSE <<t>> \o h[n - 1][nx[t]]]
  <2>1. CASE n = 0
    BY <1>4, <2>1
  <2>2. CASE n # 0
    <3>1. n - 1 \in Nat /\ (n - 1) + 1 = n
      BY <2>2
    <3>2. h[n] = G[h[n - 1]] /\ h[n - 1] \in V
      BY <1>4, <3>1
    <3>3. h[n] = step(h[n - 1])
      BY <3>2
    <3> QED
      BY <2>2, <3>3
  <2> QED
    BY <2>1, <2>2
<1>6. h = [n \in Nat |-> [t \in Slots |->
             IF n = 0 \/ t = NULL THEN << >> ELSE <<t>> \o h[n - 1][nx[t]]]]
  BY <1>5
<1> QED
  BY <1>6 DEF Walks

\* The walk from the first of a chain is the chain.
LEMMA WalkOfChain ==
    ASSUME NEW nx, NEW f, Walks(nx, f), NEW N \in Nat,
           NEW chain \in Seq(Threads), Len(chain) <= N,
           \A k \in 1..Len(chain) :
              nx[chain[k]] = IF k = Len(chain) THEN NULL ELSE chain[k + 1]
    PROVE  f[N][IF chain = << >> THEN NULL ELSE chain[1]] = chain
<1> DEFINE L == Len(chain)
           M == N - L
           rest(j) == SubSeq(chain, (L - j) + 1, L)
           head(j) == IF j = 0 THEN NULL ELSE chain[(L - j) + 1]
           P == {j \in Nat : j <= L => f[M + j][head(j)] = rest(j)}
<1>1. /\ L \in Nat /\ M \in Nat /\ M + L = N
      /\ \A k \in 1..L : chain[k] \in Threads
  OBVIOUS
<1>2. /\ rest(0) = << >> /\ head(0) = NULL
      /\ rest(L) = chain /\ head(L) = IF chain = << >> THEN NULL ELSE chain[1]
  OBVIOUS
<1>3. ASSUME NEW j \in Nat, j + 1 <= L
      PROVE  /\ head(j + 1) \in Threads
             /\ nx[head(j + 1)] = head(j)
             /\ rest(j + 1) = <<head(j + 1)>> \o rest(j)
  <2> DEFINE k == L - j
  <2>1. k \in 1..L /\ (L - (j + 1)) + 1 = k /\ j + 1 # 0 /\ (L - j) + 1 = k + 1
    BY <1>1, <1>3
  <2>2. head(j + 1) = chain[k]
    <3> HIDE DEF L, k
    <3> QED
      BY <2>1
  <2>3. nx[chain[k]] = head(j)
    <3>1. k = L <=> j = 0
      BY <1>1, <1>3
    <3>2. nx[chain[k]] = IF k = L THEN NULL ELSE chain[k + 1]
      BY <2>1
    <3> HIDE DEF L, k
    <3> QED
      BY <2>1, <3>1, <3>2
  <2>4. rest(j + 1) = SubSeq(chain, k, L) /\ rest(j) = SubSeq(chain, k + 1, L)
    BY <2>1
  <2> HIDE DEF k
  <2>5. SubSeq(chain, k, L) = <<chain[k]>> \o SubSeq(chain, k + 1, L)
    BY <1>1, <2>1
  <2> QED
    BY <1>1, <2>1, <2>2, <2>3, <2>4, <2>5
<1> HIDE DEF L, M, rest, head
<1>4. ASSUME NEW n \in Nat, NEW t \in Slots
      PROVE  f[n][t] = IF n = 0 \/ t = NULL THEN << >> ELSE <<t>> \o f[n - 1][nx[t]]
  <2>1. f[n] = [u \in Slots |->
                  IF n = 0 \/ u = NULL THEN << >> ELSE <<u>> \o f[n - 1][nx[u]]]
    BY DEF Walks
  <2> QED
    BY <2>1
<1>5. 0 \in P
  <2>1. NULL \in Slots /\ M + 0 = M
    BY <1>1 DEF Slots
  <2> QED
    BY <1>1, <1>2, <1>4, <2>1
<1>6. ASSUME NEW j \in P PROVE j + 1 \in P
  <2> SUFFICES ASSUME j \in Nat, j + 1 <= L
               PROVE  f[M + (j + 1)][head(j + 1)] = rest(j + 1)
    OBVIOUS
  <2>1. f[M + j][head(j)] = rest(j)
    BY <1>1, <1>6
  <2>2. head(j + 1) \in Slots /\ head(j + 1) # NULL
    <3>1. head(j + 1) \in Threads
      BY <1>3
    <3>2. \A t \in Threads : t \in Slots /\ t # NULL
      BY DEF Slots, Threads, NULL
    <3> QED
      BY <3>1, <3>2
  <2>3. M + (j + 1) \in Nat /\ M + (j + 1) # 0 /\ (M + (j + 1)) - 1 = M + j
    BY <1>1
  <2>4. f[M + (j + 1)][head(j + 1)] = <<head(j + 1)>> \o f[M + j][nx[head(j + 1)]]
    BY <1>4, <2>2, <2>3
  <2> QED
    BY <1>3, <2>1, <2>4
<1>7. P = Nat
  <2> HIDE DEF P
  <2>1. P \in SUBSET Nat
    BY DEF P
  <2> QED
    BY <1>5, <1>6, <2>1, SetInduction
<1>8. f[M + L][head(L)] = rest(L)
  <2>1. L \in P /\ L <= L
    BY <1>1, <1>7
  <2> HIDE DEF L
  <2> QED
    BY <2>1
<1> QED
  BY <1>1, <1>2, <1>8

\* A sequence of distinct threads is no longer than the thread table.
LEMMA LineFits ==
    ASSUME NEW chain \in Seq(Threads), NoRepeats(chain)
    PROVE  Len(chain) <= MaxThreads
<1>1. chain \in [1..Len(chain) -> Threads] /\ Len(chain) \in Nat
  OBVIOUS
<1>2. chain \in Injection(1..Len(chain), Threads)
  BY <1>1 DEF NoRepeats, Injection, IsInjective
<1>3. MaxThreads \in Nat /\ 1 \in Int
  BY SchedulerAssumption
<1>4. IsFiniteSet(Threads) /\ Cardinality(Threads) = MaxThreads
  BY <1>3, FS_Interval DEF Threads
<1>5. Cardinality(1..Len(chain)) = Len(chain)
  <2>1. \A a, b \in Int : Cardinality(a..b) = IF a > b THEN 0 ELSE b - a + 1
    BY FS_Interval
  <2>2. \A n \in Nat : n \in Int /\ 1 \in Int /\ (IF 1 > n THEN 0 ELSE n - 1 + 1) = n
    OBVIOUS
  <2> QED
    BY <1>1, <2>1, <2>2
<1> QED
  BY <1>2, <1>4, <1>5, FS_Injection

\* What is left of a line when its first thread is taken out.
LEMMA TakeFirst ==
    ASSUME NEW S, NEW chain \in Seq(S), chain # << >>
    PROVE  /\ Tail(chain) \in Seq(S) /\ Len(Tail(chain)) = Len(chain) - 1
           /\ \A k \in 1..Len(Tail(chain)) :
                 Tail(chain)[k] = chain[k + 1] /\ k + 1 \in 1..Len(chain)
           /\ Tail(chain) # << >> <=> Len(chain) > 1
           /\ NoRepeats(chain) => NoRepeats(Tail(chain))
<1>1. /\ Tail(chain) \in Seq(S) /\ Len(Tail(chain)) = Len(chain) - 1
      /\ Len(chain) \in Nat \ {0}
      /\ \A k \in 1..(Len(chain) - 1) : Tail(chain)[k] = chain[k + 1]
  OBVIOUS
<1>2. Tail(chain) # << >> <=> Len(chain) > 1
  <2>1. \A s \in Seq(S) : s # << >> <=> Len(s) # 0
    OBVIOUS
  <2>2. Tail(chain) # << >> <=> Len(Tail(chain)) # 0
    BY <1>1, <2>1
  <2>3. \A n \in Nat \ {0} : n - 1 # 0 <=> n > 1
    OBVIOUS
  <2>4. Tail(chain) # << >> <=> Len(chain) - 1 # 0
    BY <1>1, <2>2, Zenon
  <2> QED
    BY <1>1, <2>3, <2>4, Zenon
<1>3. \A k \in 1..(Len(chain) - 1) : k + 1 \in 1..Len(chain)
  BY <1>1
<1>4. DOMAIN chain = 1..Len(chain) /\ DOMAIN Tail(chain) = 1..(Len(chain) - 1)
  BY <1>1
<1>5. NoRepeats(chain) => NoRepeats(Tail(chain))
  <2> QED
    BY <1>1, <1>3, <1>4 DEF NoRepeats
<1> QED
  BY <1>1, <1>2, <1>3, <1>5

\* What LineFrom is for a value nx of wait_next.
WalkFrom(nx) == CHOOSE f : Walks(nx, f)

LEMMA LineFromIsWalk ==
    /\ LineFrom = WalkFrom(wait_next)
    /\ LineFrom' = WalkFrom(wait_next')
BY DEF LineFrom, WalkFrom, Walks, Slots

\* The line is the chain of distinct threads that starts at wait_head.
IsChain(nx, chain) ==
    \A k \in 1..Len(chain) :
       nx[chain[k]] = IF k = Len(chain) THEN NULL ELSE chain[k + 1]
FirstOf(chain) == IF chain = << >> THEN NULL ELSE chain[1]

LEMMA WalkIsChain ==
    ASSUME NEW nx \in [Threads -> Slots], NEW chain \in Seq(Threads),
           NoRepeats(chain), IsChain(nx, chain)
    PROVE  WalkFrom(nx)[MaxThreads][FirstOf(chain)] = chain
<1>1. Walks(nx, WalkFrom(nx))
  BY WalkExists DEF WalkFrom
<1>2. MaxThreads \in Nat /\ Len(chain) <= MaxThreads
  BY SchedulerAssumption, LineFits
<1> QED
  BY <1>1, <1>2, WalkOfChain DEF IsChain, FirstOf

\* Line(q) in a state, and in the next one.
LEMMA LineIsChain ==
    ASSUME NEW q, NEW chain \in Seq(Threads), NoRepeats(chain)
    PROVE  /\ wait_next \in [Threads -> Slots] /\ wait_head[q] = FirstOf(chain)
              /\ IsChain(wait_next, chain) => Line(q) = chain
           /\ wait_next' \in [Threads -> Slots] /\ wait_head'[q] = FirstOf(chain)
              /\ IsChain(wait_next', chain) => Line(q)' = chain
BY WalkIsChain, LineFromIsWalk DEF Line

LEMMA ThreadsAreFinite == IsFiniteSet(Threads) /\ Cardinality(Threads) = MaxThreads
<1>1. MaxThreads \in Int /\ 1 \in Int /\ MaxThreads >= 0
  BY SchedulerAssumption
<1> QED
  BY <1>1, FS_Interval DEF Threads
=============================================================================
