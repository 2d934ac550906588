---------------------------- MODULE FiltersProofs ----------------------------
(***************************************************************************)
(* What a filtered sequence is and what a loop keeps, for sequences of any *)
(* length.                                                                 *)
(***************************************************************************)
EXTENDS Filters, WellFoundedInduction, TLAPS

\* A set of numbers that is not empty has a least one.
LEMMA LeastNumber ==
    ASSUME NEW V \in SUBSET Nat, V # {} PROVE \E m \in V : \A k \in V : m <= k
<1> DEFINE Less == {ss \in Nat \X Nat : ss[1] < ss[2]}
<1>1. IsWellFoundedOn(Less, Nat)
  BY NatLessThanWellFounded, Zenon DEF OpToRel
<1>2. PICK m \in V : \A k \in V : <<k, m>> \notin Less
  <2> HIDE DEF Less
  <2>1. \E m \in V : \A k \in V : ~ (<<k, m>> \in Less)
    BY <1>1, WFMin, Zenon
  <2> QED
    BY <2>1
<1>3. ASSUME NEW k \in V, k < m PROVE FALSE
  <2>1. <<k, m>> \in Less
    BY <1>3
  <2> HIDE DEF Less
  <2> QED
    BY <1>2, <2>1
<1> QED
  BY <1>3

\* Induction on a set of numbers.
LEMMA NatInductionSet ==
    ASSUME NEW P \in SUBSET Nat, 0 \in P, \A n \in P : n + 1 \in P
    PROVE  P = Nat
<1> SUFFICES ASSUME Nat \ P # {} PROVE FALSE
  OBVIOUS
<1>1. PICK m \in Nat \ P : \A k \in Nat \ P : m <= k
  BY LeastNumber
<1>2. m # 0 /\ m - 1 \in Nat
  OBVIOUS
<1>3. m - 1 \in P
  BY <1>1, <1>2
<1> QED
  BY <1>2, <1>3

\* A function may be defined by recursion on 0..n.
LEMMA Recursion ==
    ASSUME NEW A, NEW a \in A, NEW n \in Nat, NEW step \in [1..n -> [A -> A]]
    PROVE  \E f \in [0..n -> A] : f[0] = a /\ \A i \in 1..n : f[i] = step[i][f[i - 1]]
<1> DEFINE Upto(f, m) == f[0] = a /\ \A i \in 1..m : f[i] = step[i][f[i - 1]]
           Good(m) == m <= n => \E f \in [0..m -> A] : Upto(f, m)
           P == {m \in Nat : Good(m)}
<1>1. Good(0)
  <2>1. Upto([i \in 0..0 |-> a], 0) /\ [i \in 0..0 |-> a] \in [0..0 -> A]
    OBVIOUS
  <2> QED
    BY <2>1
<1>2. ASSUME NEW m \in Nat, Good(m) PROVE Good(m + 1)
  <2> SUFFICES ASSUME m + 1 <= n PROVE \E f \in [0..(m + 1) -> A] : Upto(f, m + 1)
    OBVIOUS
  <2>1. PICK f \in [0..m -> A] : Upto(f, m)
    BY <1>2
  <2> DEFINE g == [i \in 0..(m + 1) |-> IF i = m + 1 THEN step[m + 1][f[m]] ELSE f[i]]
  <2>2. g \in [0..(m + 1) -> A]
    OBVIOUS
  <2>3. Upto(g, m + 1)
    BY <2>1
  <2> QED
    BY <2>2, <2>3
<1>3. P = Nat
  <2> HIDE DEF Good
  <2>1. P \in SUBSET Nat /\ 0 \in P /\ \A m \in P : m + 1 \in P
    BY <1>1, <1>2
  <2> HIDE DEF P
  <2> QED
    BY <2>1, NatInductionSet
<1> QED
  BY <1>3

\* Recursion over numbers.
LEMMA NumberRecursion ==
    ASSUME NEW a \in Nat, NEW n \in Nat, NEW step \in [1..n -> [Nat -> Nat]]
    PROVE  \E f \in [0..n -> Nat] : f[0] = a /\ \A i \in 1..n : f[i] = step[i][f[i - 1]]
<1> DEFINE Good(A) == \A b \in A, m \in Nat : \A next \in [1..m -> [A -> A]] :
              \E f \in [0..m -> A] : f[0] = b /\ \A i \in 1..m : f[i] = next[i][f[i - 1]]
<1>1. \A A : Good(A)
  BY Recursion
<1>2. Good(Nat)
  <2> HIDE DEF Good
  <2> QED
    BY <1>1
<1> QED
  BY <1>2, ZenonT(40)

\* The entries of a sequence.
LEMMA Entries == ASSUME NEW S, NEW s \in Seq(S), NEW i \in 1..Len(s) PROVE s[i] \in S
OBVIOUS

\* f holds what the loop has kept of s after each element, Filter's result last.
Loops(f, S, s, T) ==
    /\ f \in [0..Len(s) -> Seq(S)]
    /\ f[0] = <<>>
    /\ \A i \in 1..Len(s) :
          f[i] = IF s[i] \in T THEN Append(f[i - 1], s[i]) ELSE f[i - 1]
    /\ Filter(s, T) = f[Len(s)]

LEMMA FilterLoop ==
    ASSUME NEW S, NEW s \in Seq(S), NEW T PROVE \E f : Loops(f, S, s, T)
<1> DEFINE step == [i \in 1..Len(s) |-> [kept \in Seq(S) |->
                        IF s[i] \in T THEN Append(kept, s[i]) ELSE kept]]
           Loop(f) == [i \in 0..Len(s) |->
                        IF i = 0 THEN <<>>
                        ELSE IF s[i] \in T THEN Append(f[i - 1], s[i]) ELSE f[i - 1]]
           kept == CHOOSE f : f = Loop(f)
<1>1. PICK f \in [0..Len(s) -> Seq(S)] :
          f[0] = <<>> /\ \A i \in 1..Len(s) : f[i] = step[i][f[i - 1]]
  <2>1. step \in [1..Len(s) -> [Seq(S) -> Seq(S)]]
    OBVIOUS
  <2>2. <<>> \in Seq(S) /\ Len(s) \in Nat
    OBVIOUS
  <2> DEFINE A == Seq(S)
             a == <<>>
             n == Len(s)
  <2>3. a \in A /\ n \in Nat /\ step \in [1..n -> [A -> A]]
    BY <2>1, <2>2
  <2> HIDE DEF step, A, a, n
  <2>4. \E f \in [0..n -> A] : f[0] = a /\ \A i \in 1..n : f[i] = step[i][f[i - 1]]
    BY <2>3, Recursion
  <2> QED
    BY <2>4 DEF A, a, n
<1>2. \A i \in 1..Len(s) :
          f[i] = IF s[i] \in T THEN Append(f[i - 1], s[i]) ELSE f[i - 1]
  <2> SUFFICES ASSUME NEW i \in 1..Len(s)
               PROVE  f[i] = IF s[i] \in T THEN Append(f[i - 1], s[i]) ELSE f[i - 1]
    OBVIOUS
  <2>1. f[i] = step[i][f[i - 1]]
    <3> HIDE DEF step
    <3> QED
      BY <1>1
  <2>2. f[i - 1] \in Seq(S)
    BY i - 1 \in 0..Len(s)
  <2> QED
    BY <2>1, <2>2
<1>3. f = Loop(f)
  <2>1. ASSUME NEW i \in 0..Len(s) PROVE f[i] = Loop(f)[i]
    <3>1. CASE i = 0
      BY <1>1, <3>1
    <3>2. CASE i # 0
      <4>1. i \in 1..Len(s)
        BY <3>2
      <4>2. f[i] = IF s[i] \in T THEN Append(f[i - 1], s[i]) ELSE f[i - 1]
        BY <1>2, <4>1
      <4>3. Loop(f)[i] = IF s[i] \in T THEN Append(f[i - 1], s[i]) ELSE f[i - 1]
        BY <4>1
      <4> QED
        BY <4>2, <4>3
    <3> QED
      BY <3>1, <3>2
  <2>2. Loop(f) = [i \in 0..Len(s) |-> Loop(f)[i]] /\ f = [i \in 0..Len(s) |-> f[i]]
    OBVIOUS
  <2> HIDE DEF Loop
  <2> QED
    BY <2>1, <2>2
<1>4. kept = Loop(kept)
  <2> HIDE DEF Loop
  <2> QED
    BY <1>3
<1>5. \A i \in 0..Len(s) :
          kept[i] = IF i = 0 THEN <<>>
                    ELSE IF s[i] \in T THEN Append(kept[i - 1], s[i]) ELSE kept[i - 1]
  <2> HIDE DEF kept
  <2>1. \A i \in 0..Len(s) : kept[i] = Loop(kept)[i]
    BY <1>4
  <2> QED
    BY <2>1
<1>6. Filter(s, T) = kept[Len(s)]
  BY DEF Filter
<1> HIDE DEF kept
<1> DEFINE P == {i \in Nat : i <= Len(s) => kept[i] = f[i]}
<1>7. 0 \in P
  BY <1>1, <1>5
<1>8. ASSUME NEW i \in P PROVE i + 1 \in P
  <2> SUFFICES ASSUME i + 1 <= Len(s) PROVE kept[i + 1] = f[i + 1]
    OBVIOUS
  <2>1. kept[i] = f[i] /\ i + 1 \in 1..Len(s) /\ (i + 1) - 1 = i
    OBVIOUS
  <2> QED
    BY <1>2, <1>5, <2>1
<1>9. P = Nat
  <2>1. P \subseteq Nat
    OBVIOUS
  <2> HIDE DEF P
  <2> QED
    BY <1>7, <1>8, <2>1, NatInductionSet
<1>10. kept[Len(s)] = f[Len(s)]
  <2>1. Len(s) \in P
    BY <1>9
  <2> QED
    BY <2>1
<1> QED
  BY <1>1, <1>2, <1>6, <1>10 DEF Loops

\* What is kept of a longer sequence.
LEMMA FilterAppend ==
    ASSUME NEW S, NEW s \in Seq(S), NEW e \in S, NEW T
    PROVE  Filter(Append(s, e), T) =
              IF e \in T THEN Append(Filter(s, T), e) ELSE Filter(s, T)
<1> DEFINE t == Append(s, e)
<1>1. t \in Seq(S) /\ Len(t) = Len(s) + 1 /\ t[Len(s) + 1] = e
      /\ \A i \in 1..Len(s) : t[i] = s[i]
  OBVIOUS
<1> HIDE DEF t
<1>2. PICK f : Loops(f, S, s, T)
  BY FilterLoop
<1>3. PICK g : Loops(g, S, t, T)
  BY <1>1, FilterLoop
<1> DEFINE P == {i \in Nat : i <= Len(s) => g[i] = f[i]}
<1>4. P = Nat
  <2>1. 0 \in P
    BY <1>2, <1>3 DEF Loops
  <2>2. ASSUME NEW i \in P PROVE i + 1 \in P
    <3> SUFFICES ASSUME i + 1 <= Len(s) PROVE g[i + 1] = f[i + 1]
      OBVIOUS
    <3>1. g[i] = f[i] /\ i + 1 \in 1..Len(s) /\ i + 1 \in 1..Len(t) /\ (i + 1) - 1 = i
      BY <1>1
    <3>2. f[i + 1] = IF s[i + 1] \in T THEN Append(f[i], s[i + 1]) ELSE f[i]
      BY <1>2, <3>1 DEF Loops
    <3>3. g[i + 1] = IF t[i + 1] \in T THEN Append(g[i], t[i + 1]) ELSE g[i]
      BY <1>3, <3>1 DEF Loops
    <3>4. t[i + 1] = s[i + 1]
      BY <1>1, <3>1
    <3> QED
      BY <3>1, <3>2, <3>3, <3>4
  <2>3. P \in SUBSET Nat
    OBVIOUS
  <2> HIDE DEF P
  <2> QED
    BY <2>1, <2>2, <2>3, NatInductionSet
<1>5. g[Len(s)] = f[Len(s)]
  <2>1. Len(s) \in P
    BY <1>4
  <2> QED
    BY <2>1
<1>6. g[Len(t)] = IF e \in T THEN Append(g[Len(s)], e) ELSE g[Len(s)]
  BY <1>1, <1>3 DEF Loops
<1> QED
  BY <1>2, <1>3, <1>5, <1>6 DEF t, Loops

LEMMA FilterEmpty == ASSUME NEW T PROVE Filter(<<>>, T) = <<>>
<1>1. PICK f : Loops(f, {}, <<>>, T)
  BY FilterLoop, <<>> \in Seq({})
<1> QED
  BY <1>1 DEF Loops

\* at gives the places in s of the elements of r, which are those in T.
Places(at, r, s, T) ==
    /\ \A k \in 1..Len(r) : at[k] \in 1..Len(s) /\ r[k] = s[at[k]] /\ r[k] \in T
    /\ \A j, k \in 1..Len(r) : j < k => at[j] < at[k]
    /\ \A i \in 1..Len(s) : s[i] \in T => \E k \in 1..Len(r) : at[k] = i

\* Induction on a set of sequences.
LEMMA SeqInductionSet ==
    ASSUME NEW S, NEW P \in SUBSET Seq(S), <<>> \in P,
           \A s \in P, e \in S : Append(s, e) \in P
    PROVE  P = Seq(S)
<1> DEFINE Q == {n \in Nat : \A s \in Seq(S) : Len(s) = n => s \in P}
<1>1. 0 \in Q
  OBVIOUS
<1>2. ASSUME NEW n \in Q PROVE n + 1 \in Q
  <2> SUFFICES ASSUME NEW s \in Seq(S), Len(s) = n + 1 PROVE s \in P
    OBVIOUS
  <2> DEFINE t == SubSeq(s, 1, n)
             e == s[n + 1]
  <2>1. n \in Nat /\ t \in Seq(S) /\ Len(t) = n /\ e \in S
    OBVIOUS
  <2>2. s = Append(t, e)
    <3> DEFINE u == Append(t, e)
    <3>1. u \in Seq(S) /\ Len(u) = n + 1 /\ \A i \in 1..(n + 1) : u[i] = s[i]
      BY <2>1, SMTT(20)
    <3>2. s = [i \in 1..(n + 1) |-> s[i]]
      OBVIOUS
    <3> HIDE DEF u
    <3>3. u = [i \in 1..(n + 1) |-> u[i]]
      BY <3>1
    <3>4. s = u
      BY <3>1, <3>2, <3>3
    <3> QED
      BY <3>4 DEF u
  <2>3. t \in P
    BY <2>1
  <2> QED
    BY <2>1, <2>2, <2>3
<1>3. Q = Nat
  <2>1. Q \in SUBSET Nat
    OBVIOUS
  <2> HIDE DEF Q
  <2> QED
    BY <1>1, <1>2, <2>1, NatInductionSet
<1> QED
  <2> SUFFICES ASSUME NEW s \in Seq(S) PROVE s \in P
    OBVIOUS
  <2>1. Len(s) \in Q
    BY <1>3
  <2> QED
    BY <2>1

LEMMA PlacesAppend ==
    ASSUME NEW S, NEW s \in Seq(S), NEW r \in Seq(S), NEW e \in S, NEW T, NEW at,
           Places(at, r, s, T)
    PROVE  IF e \in T THEN \E to : Places(to, Append(r, e), Append(s, e), T)
           ELSE Places(at, r, Append(s, e), T)
<1> DEFINE u == Append(s, e)
           q == Append(r, e)
           to == [k \in 1..Len(q) |-> IF k = Len(q) THEN Len(u) ELSE at[k]]
<1>1. /\ Len(u) = Len(s) + 1 /\ u[Len(u)] = e /\ \A i \in 1..Len(s) : u[i] = s[i]
      /\ Len(q) = Len(r) + 1 /\ q[Len(q)] = e /\ \A i \in 1..Len(r) : q[i] = r[i]
      /\ Len(r) \in Nat /\ Len(s) \in Nat
  OBVIOUS
<1>2. to[Len(q)] = Len(u) /\ \A k \in 1..Len(r) : to[k] = at[k]
  BY <1>1
<1> HIDE DEF u, q, to
<1>3. /\ \A k \in 1..Len(r) : at[k] \in 1..Len(s) /\ r[k] = s[at[k]] /\ r[k] \in T
      /\ \A j, k \in 1..Len(r) : j < k => at[j] < at[k]
      /\ \A i \in 1..Len(s) : s[i] \in T => \E k \in 1..Len(r) : at[k] = i
  BY DEF Places
<1>4. CASE e \notin T
  <2>1. ASSUME NEW k \in 1..Len(r)
        PROVE  at[k] \in 1..Len(u) /\ r[k] = u[at[k]] /\ r[k] \in T
    <3>1. at[k] \in 1..Len(s) /\ r[k] = s[at[k]] /\ r[k] \in T
      BY <1>3
    <3> QED
      BY <1>1, <3>1
  <2>2. \A i \in 1..Len(u) : u[i] \in T => \E k \in 1..Len(r) : at[k] = i
    BY <1>1, <1>3, <1>4
  <2>3. Places(at, r, u, T)
    BY <1>3, <2>1, <2>2 DEF Places
  <2> QED
    BY <1>4, <2>3 DEF u
<1>5. CASE e \in T
  <2>1. ASSUME NEW k \in 1..Len(q)
        PROVE  to[k] \in 1..Len(u) /\ q[k] = u[to[k]] /\ q[k] \in T
    BY <1>1, <1>2, <1>3, <1>5
  <2>2. ASSUME NEW j \in 1..Len(q), NEW k \in 1..Len(q), j < k PROVE to[j] < to[k]
    <3>1. j \in 1..Len(r) /\ to[j] = at[j] /\ at[j] \in 1..Len(s)
      BY <1>1, <1>2, <1>3, <2>2
    <3>2. CASE k = Len(q)
      BY <1>1, <1>2, <3>1, <3>2
    <3>3. CASE k \in 1..Len(r)
      BY <1>2, <1>3, <2>2, <3>1, <3>3
    <3> QED
      BY <1>1, <3>2, <3>3
  <2>3. ASSUME NEW i \in 1..Len(u), u[i] \in T PROVE \E k \in 1..Len(q) : to[k] = i
    <3>1. CASE i = Len(u)
      BY <1>1, <1>2, <3>1
    <3>2. CASE i \in 1..Len(s)
      <4>1. PICK k \in 1..Len(r) : at[k] = i
        BY <1>1, <1>3, <2>3, <3>2
      <4> QED
        BY <1>1, <1>2, <4>1
    <3> QED
      BY <1>1, <3>1, <3>2
  <2>4. Places(to, q, u, T)
    BY <2>1, <2>2, <2>3 DEF Places
  <2> QED
    BY <1>5, <2>4 DEF q, u
<1> QED
  BY <1>4, <1>5

\* What is kept is in T, keeps its order, and is all of s that is in T.
LEMMA FilterPlaces ==
    ASSUME NEW S, NEW s \in Seq(S), NEW T
    PROVE  Filter(s, T) \in Seq(S) /\ \E at : Places(at, Filter(s, T), s, T)
<1> DEFINE Placed(t) == Filter(t, T) \in Seq(S) /\ \E at : Places(at, Filter(t, T), t, T)
           P == {t \in Seq(S) : Placed(t)}
<1>1. Placed(<<>>)
  <2>1. Filter(<<>>, T) = <<>>
    BY FilterEmpty
  <2>2. Places(<<>>, <<>>, <<>>, T)
    BY DEF Places
  <2>3. <<>> \in Seq(S)
    OBVIOUS
  <2> QED
    BY <2>1, <2>2, <2>3
<1>2. ASSUME NEW t \in Seq(S), NEW e \in S, Placed(t) PROVE Placed(Append(t, e))
  <2>1. PICK at : Places(at, Filter(t, T), t, T)
    BY <1>2
  <2> DEFINE r == Filter(t, T)
             q == Filter(Append(t, e), T)
  <2>2. r \in Seq(S)
    BY <1>2
  <2>3. q = IF e \in T THEN Append(r, e) ELSE r
    BY FilterAppend
  <2> HIDE DEF r, q
  <2>4. Places(at, r, t, T)
    BY <2>1 DEF r
  <2>5. IF e \in T THEN \E to : Places(to, Append(r, e), Append(t, e), T)
        ELSE Places(at, r, Append(t, e), T)
    BY <2>2, <2>4, PlacesAppend
  <2>6. q \in Seq(S) /\ \E to : Places(to, q, Append(t, e), T)
    <3>1. CASE e \in T
      BY <2>2, <2>3, <2>5, <3>1
    <3>2. CASE e \notin T
      BY <2>2, <2>3, <2>5, <3>2
    <3> QED
      BY <3>1, <3>2
  <2> QED
    BY <2>6 DEF q
<1>3. P = Seq(S)
  <2> HIDE DEF Placed
  <2>1. P \in SUBSET Seq(S) /\ <<>> \in P /\ \A t \in P, e \in S : Append(t, e) \in P
    BY <1>1, <1>2
  <2> HIDE DEF P
  <2> QED
    BY <2>1, SeqInductionSet
<1>4. Placed(s)
  <2> HIDE DEF Placed
  <2> QED
    BY <1>3
<1> QED
  BY <1>4


\* One sequence after another.
LEMMA Concat ==
    ASSUME NEW S, NEW s \in Seq(S), NEW t \in Seq(S)
    PROVE  /\ s \o t \in Seq(S) /\ Len(s \o t) = Len(s) + Len(t)
           /\ \A i \in 1..Len(s) : (s \o t)[i] = s[i]
           /\ \A i \in 1..Len(t) : (s \o t)[i + Len(s)] = t[i]
           /\ Len(s) \in Nat /\ Len(t) \in Nat
OBVIOUS

\* f holds the state of the loop after each element, the loop's result last.
Iterates(f, A, step, start, s) ==
    /\ f \in [0..Len(s) -> A]
    /\ f[0] = start
    /\ \A i \in 1..Len(s) : f[i] = step[f[i - 1]][s[i]]
    /\ Iterate(step, start, s) = f[Len(s)]

LEMMA IterateSteps ==
    ASSUME NEW A, NEW E, NEW s \in Seq(E), NEW step, NEW start \in A,
           \A a \in A, e \in E : step[a][e] \in A
    PROVE  \E f : Iterates(f, A, step, start, s)
<1> DEFINE next == [i \in 1..Len(s) |-> [a \in A |-> step[a][s[i]]]]
           Looped(f) == [i \in 0..Len(s) |->
                           IF i = 0 THEN start ELSE step[f[i - 1]][s[i]]]
           after == CHOOSE f : f = Looped(f)
           n == Len(s)
<1>1. PICK f \in [0..Len(s) -> A] :
          f[0] = start /\ \A i \in 1..Len(s) : f[i] = step[f[i - 1]][s[i]]
  <2>1. next \in [1..n -> [A -> A]]
    <3>1. \A i \in 1..n : s[i] \in E
      BY Entries
    <3> QED
      BY <3>1
  <2>2. \A i \in 1..n, a \in A : next[i][a] = step[a][s[i]]
    OBVIOUS
  <2>3. n \in Nat
    OBVIOUS
  <2> HIDE DEF next, n
  <2>4. n \in Nat /\ start \in A /\ next \in [1..n -> [A -> A]]
    BY <2>1, <2>3
  <2>5. \E f \in [0..n -> A] : f[0] = start /\ \A i \in 1..n : f[i] = next[i][f[i - 1]]
    <3> HIDE DEF Looped, after
    <3> QED
      BY ONLY <2>4, Recursion
  <2>6. PICK f \in [0..n -> A] : f[0] = start /\ \A i \in 1..n : f[i] = next[i][f[i - 1]]
    BY <2>5
  <2>7. ASSUME NEW i \in 1..n PROVE f[i] = step[f[i - 1]][s[i]]
    <3>1. f[i - 1] \in A
      BY <2>3, i - 1 \in 0..n
    <3> QED
      BY <2>2, <2>6, <3>1
  <2> QED
    BY <2>6, <2>7 DEF n
<1> HIDE DEF next
<1>2. f = Looped(f)
  <2>1. ASSUME NEW i \in 0..Len(s) PROVE f[i] = Looped(f)[i]
    <3>1. CASE i = 0
      BY <1>1, <3>1
    <3>2. CASE i # 0
      <4>1. i \in 1..Len(s)
        BY <3>2
      <4> QED
        BY <1>1, <3>2, <4>1
    <3> QED
      BY <3>1, <3>2
  <2>2. Looped(f) = [i \in 0..Len(s) |-> Looped(f)[i]] /\ f = [i \in 0..Len(s) |-> f[i]]
    OBVIOUS
  <2> HIDE DEF Looped
  <2> QED
    BY <2>1, <2>2
<1>3. after = Looped(after)
  <2> HIDE DEF Looped
  <2> QED
    BY <1>2
<1>4. \A i \in 0..Len(s) :
          after[i] = IF i = 0 THEN start ELSE step[after[i - 1]][s[i]]
  <2> HIDE DEF after
  <2>1. \A i \in 0..Len(s) : after[i] = Looped(after)[i]
    BY <1>3
  <2> QED
    BY <2>1
<1>5. Iterate(step, start, s) = after[Len(s)]
  BY DEF Iterate
<1> HIDE DEF after
<1> DEFINE P == {i \in Nat : i <= Len(s) => after[i] = f[i]}
<1>6. 0 \in P
  BY <1>1, <1>4
<1>7. ASSUME NEW i \in P PROVE i + 1 \in P
  <2> SUFFICES ASSUME i + 1 <= Len(s) PROVE after[i + 1] = f[i + 1]
    OBVIOUS
  <2>1. after[i] = f[i] /\ i + 1 \in 1..Len(s) /\ (i + 1) - 1 = i
    OBVIOUS
  <2> QED
    BY <1>1, <1>4, <2>1
<1>8. P = Nat
  <2>1. P \subseteq Nat
    OBVIOUS
  <2> HIDE DEF P
  <2> QED
    BY <1>6, <1>7, <2>1, NatInductionSet
<1>9. after[Len(s)] = f[Len(s)]
  <2>1. Len(s) \in P
    BY <1>8
  <2> QED
    BY <2>1
<1> QED
  BY <1>1, <1>5, <1>9 DEF Iterates

\* A loop stays in a set that each of its steps stays in.
LEMMA IterateKeeps ==
    ASSUME NEW A, NEW E, NEW s \in Seq(E), NEW step, NEW start \in A,
           \A a \in A, e \in E : step[a][e] \in A
    PROVE  Iterate(step, start, s) \in A
<1>1. PICK f : Iterates(f, A, step, start, s)
  BY IterateSteps
<1>2. Len(s) \in 0..Len(s)
  OBVIOUS
<1> QED
  BY <1>1, <1>2 DEF Iterates

LEMMA IterateEmpty ==
    ASSUME NEW step, NEW start PROVE Iterate(step, start, <<>>) = start
<1> DEFINE A == {start}
           E == {}
<1>1. start \in A /\ <<>> \in Seq(E) /\ \A a \in A, e \in E : step[a][e] \in A
  OBVIOUS
<1> HIDE DEF A, E
<1>2. \E f : Iterates(f, A, step, start, <<>>)
  BY <1>1, IterateSteps
<1> QED
  BY <1>2 DEF Iterates

\* One more element is one more step.
LEMMA IterateAppend ==
    ASSUME NEW A, NEW E, NEW s \in Seq(E), NEW e \in E, NEW step, NEW start \in A,
           \A a \in A, x \in E : step[a][x] \in A
    PROVE  Iterate(step, start, Append(s, e)) = step[Iterate(step, start, s)][e]
<1> DEFINE t == Append(s, e)
<1>1. t \in Seq(E) /\ Len(t) = Len(s) + 1 /\ t[Len(s) + 1] = e
      /\ \A i \in 1..Len(s) : t[i] = s[i]
  OBVIOUS
<1> HIDE DEF t
<1>2. PICK f : Iterates(f, A, step, start, s)
  BY IterateSteps
<1>3. PICK g : Iterates(g, A, step, start, t)
  BY <1>1, IterateSteps
<1> DEFINE P == {i \in Nat : i <= Len(s) => g[i] = f[i]}
<1>4. P = Nat
  <2>1. 0 \in P
    BY <1>2, <1>3 DEF Iterates
  <2>2. ASSUME NEW i \in P PROVE i + 1 \in P
    <3> SUFFICES ASSUME i + 1 <= Len(s) PROVE g[i + 1] = f[i + 1]
      OBVIOUS
    <3>1. g[i] = f[i] /\ i + 1 \in 1..Len(s) /\ i + 1 \in 1..Len(t) /\ (i + 1) - 1 = i
      BY <1>1
    <3>2. f[i + 1] = step[f[i]][s[i + 1]]
      BY <1>2, <3>1 DEF Iterates
    <3>3. g[i + 1] = step[g[i]][t[i + 1]]
      BY <1>3, <3>1 DEF Iterates
    <3> QED
      BY <1>1, <3>1, <3>2, <3>3
  <2>3. P \in SUBSET Nat
    OBVIOUS
  <2> HIDE DEF P
  <2> QED
    BY <2>1, <2>2, <2>3, NatInductionSet
<1>5. g[Len(s)] = f[Len(s)]
  <2>1. Len(s) \in P
    BY <1>4
  <2> QED
    BY <2>1
<1>6. g[Len(t)] = step[g[Len(s)]][e]
  BY <1>1, <1>3 DEF Iterates
<1> QED
  BY <1>2, <1>3, <1>5, <1>6 DEF t, Iterates

LEMMA AppendConcat ==
    ASSUME NEW S, NEW s \in Seq(S), NEW t \in Seq(S), NEW e \in S
    PROVE  s \o Append(t, e) = Append(s \o t, e)
<1> DEFINE u == s \o Append(t, e)
           v == Append(s \o t, e)
           n == Len(s) + Len(t) + 1
<1>1. Append(t, e) \in Seq(S) /\ s \o t \in Seq(S)
  BY Concat
<1>2. u \in Seq(S) /\ v \in Seq(S) /\ Len(u) = n /\ Len(v) = n
  BY <1>1, SMTT(20)
<1>3. \A i \in 1..n : u[i] = v[i]
  BY SMTT(20)
<1>4. u = [i \in 1..n |-> u[i]] /\ v = [i \in 1..n |-> v[i]]
  <2> HIDE DEF u, v, n
  <2> QED
    BY <1>2
<1> HIDE DEF u, v
<1>5. u = v
  BY <1>3, <1>4
<1> QED
  BY <1>5 DEF u, v

\* What is kept of two sequences, one after the other.
LEMMA FilterConcat ==
    ASSUME NEW S, NEW s \in Seq(S), NEW t \in Seq(S), NEW T
    PROVE  Filter(s \o t, T) = Filter(s, T) \o Filter(t, T)
<1> DEFINE P == {u \in Seq(S) : Filter(s \o u, T) = Filter(s, T) \o Filter(u, T)}
<1>1. <<>> \in P
  <2>1. s \o <<>> = s /\ Filter(s, T) \in Seq(S)
    BY FilterPlaces
  <2>2. Filter(s, T) \o <<>> = Filter(s, T)
    BY <2>1
  <2> QED
    BY <2>1, <2>2, FilterEmpty
<1>2. ASSUME NEW u \in P, NEW e \in S PROVE Append(u, e) \in P
  <2> DEFINE r == Filter(s, T)
             q == Filter(u, T)
  <2>1. r \in Seq(S) /\ q \in Seq(S) /\ s \o u \in Seq(S) /\ u \in Seq(S)
    BY FilterPlaces
  <2>2. Filter(s \o u, T) = r \o q
    OBVIOUS
  <2>3. s \o Append(u, e) = Append(s \o u, e)
    BY AppendConcat
  <2>4. Filter(Append(s \o u, e), T) =
          IF e \in T THEN Append(Filter(s \o u, T), e) ELSE Filter(s \o u, T)
    <3> HIDE DEF r, q, P
    <3> DEFINE w == s \o u
    <3>1. w \in Seq(S)
      BY <2>1
    <3> HIDE DEF w
    <3>2. Filter(Append(w, e), T) = IF e \in T THEN Append(Filter(w, T), e) ELSE Filter(w, T)
      BY <3>1, FilterAppend
    <3> QED
      BY <3>2 DEF w
  <2>5. Filter(Append(u, e), T) = IF e \in T THEN Append(q, e) ELSE q
    BY <2>1, FilterAppend
  <2> HIDE DEF r, q
  <2>6. r \o Append(q, e) = Append(r \o q, e)
    BY <2>1, AppendConcat
  <2>7. Filter(s \o Append(u, e), T) = r \o Filter(Append(u, e), T)
    <3>1. CASE e \in T
      BY <2>2, <2>3, <2>4, <2>5, <2>6, <3>1
    <3>2. CASE e \notin T
      BY <2>2, <2>3, <2>4, <2>5, <3>2
    <3> QED
      BY <3>1, <3>2
  <2>8. Append(u, e) \in Seq(S)
    OBVIOUS
  <2> QED
    BY <2>7, <2>8 DEF r
<1>3. P = Seq(S)
  <2>1. P \in SUBSET Seq(S)
    OBVIOUS
  <2> HIDE DEF P
  <2> QED
    BY <1>1, <1>2, <2>1, SeqInductionSet
<1>4. t \in P
  BY <1>3
<1> QED
  BY <1>4

\* Nothing is kept of a sequence without elements of T.
LEMMA FilterNone ==
    ASSUME NEW S, NEW s \in Seq(S), NEW T, \A i \in 1..Len(s) : s[i] \notin T
    PROVE  Filter(s, T) = <<>>
<1> DEFINE r == Filter(s, T)
<1>1. PICK at : Places(at, r, s, T)
  BY FilterPlaces
<1>2. r \in Seq(S)
  BY FilterPlaces
<1> HIDE DEF r
<1>3. ASSUME Len(r) >= 1 PROVE FALSE
  <2>1. at[1] \in 1..Len(s) /\ r[1] = s[at[1]] /\ r[1] \in T
    BY <1>1, <1>2, <1>3 DEF Places
  <2> QED
    BY <2>1
<1>4. r = <<>>
  BY <1>2, <1>3
<1> QED
  BY <1>4 DEF r

=============================================================================
