------------------------------ MODULE LoopProofs ------------------------------
(***************************************************************************)
(* Facts about data that the proofs of several components rest on:         *)
(* induction over numbers, functions defined by recursion, sequences as    *)
(* functions, and what a selecting loop ends with.                         *)
(***************************************************************************)
EXTENDS Loops, FiniteSets, FiniteSetTheorems, SequenceTheorems, TLAPS

-----------------------------------------------------------------------------
(* Data: induction over numbers, and functions defined by recursion.         *)

\* Induction, with a set in the place of a predicate: the least number outside
\* of S would let n - 1 map a finite set into itself, but not onto it.
LEMMA SetInduction ==
    ASSUME NEW S, 0 \in S, \A n \in Nat : n \in S => n + 1 \in S
    PROVE  Nat \subseteq S
<1> SUFFICES ASSUME NEW m \in Nat, m \notin S PROVE FALSE OBVIOUS
<1> DEFINE T == {n \in 0 .. m : n \notin S}
           before == [n \in T |-> n - 1]
<1>1. 0 \notin T /\ m \in T OBVIOUS
<1>2. \A n \in T : n - 1 \in T
  <2> SUFFICES ASSUME NEW n \in T PROVE n - 1 \in T OBVIOUS
  <2>1. n \in Nat /\ n <= m /\ n \notin S /\ n # 0 OBVIOUS
  <2>2. n - 1 \in Nat /\ (n - 1) + 1 = n BY <2>1
  <2>3. n - 1 \notin S BY <2>1, <2>2
  <2> QED BY <2>1, <2>2, <2>3
<1>3. IsFiniteSet(T)
  <2>1. IsFiniteSet(0 .. m) BY FS_Interval
  <2>2. T \in SUBSET (0 .. m) OBVIOUS
  <2> HIDE DEF T
  <2> QED BY <2>1, <2>2, FS_Subset
<1>4. before \in Injection(T, T)
  <2>1. before \in [T -> T] BY <1>2
  <2>2. \A i, j \in T : i - 1 = j - 1 => i = j OBVIOUS
  <2> QED BY <2>1, <2>2 DEF Injection, IsInjective
<1>5. before \in Surjection(T, T) BY <1>3, <1>4, FS_Injection
<1>6. PICK n \in T : n - 1 = m BY <1>1, <1>5 DEF Surjection
<1> QED BY <1>6

\* A number is first among those that have a property.
LEMMA LeastExists ==
    ASSUME NEW T, T \subseteq Nat, T # {}
    PROVE  \E m \in T : \A n \in T : m <= n
<1> SUFFICES ASSUME \A m \in T : \E n \in T : ~(m <= n) PROVE FALSE OBVIOUS
<1> DEFINE S == {n \in Nat : \A m \in T : n < m}
<1>1. 0 \in S
  <2>1. \A m \in T : m # 0 OBVIOUS
  <2> QED BY <2>1
<1>2. ASSUME NEW n \in Nat, n \in S PROVE n + 1 \in S
  <2>1. \A m \in T : n + 1 <= m BY <1>2
  <2>2. n + 1 \notin T BY <2>1
  <2> QED BY <2>1, <2>2
<1> HIDE DEF S
<1>3. Nat \subseteq S BY <1>1, <1>2, SetInduction
<1>4. PICK m : m \in T OBVIOUS
<1> QED BY <1>3, <1>4 DEF S

Iterates(f, N, X, x, s) ==
    f \in [0 .. N -> X] /\ f[0] = x /\ \A n \in 1 .. N : f[n] = s[n][f[n - 1]]

\* A function on 0 .. N can be defined by its first value and a step.
LEMMA Recursion ==
    ASSUME NEW N \in Nat, NEW X, NEW x \in X, NEW s \in [Nat -> [X -> X]]
    PROVE  \E f : Iterates(f, N, X, x, s)
<1> DEFINE S == {n \in Nat : \E g : Iterates(g, n, X, x, s)}
<1>1. 0 \in S
  <2>1. Iterates([i \in 0 .. 0 |-> x], 0, X, x, s) BY DEF Iterates
  <2> QED BY <2>1
<1>2. ASSUME NEW n \in Nat, n \in S PROVE n + 1 \in S
  <2>1. PICK g : Iterates(g, n, X, x, s) BY <1>2
  <2>2. g \in [0 .. n -> X] /\ g[0] = x /\ \A i \in 1 .. n : g[i] = s[i][g[i - 1]]
    BY <2>1 DEF Iterates
  <2> DEFINE h == [i \in 0 .. n + 1 |-> IF i = n + 1 THEN s[n + 1][g[n]] ELSE g[i]]
  <2>3. g[n] \in X BY <2>2
  <2>4. s[n + 1][g[n]] \in X BY <2>3
  <2>5. h \in [0 .. n + 1 -> X] BY <2>2, <2>4
  <2>6. h[0] = x BY <2>2
  <2>7. ASSUME NEW i \in 1 .. n + 1 PROVE h[i] = s[i][h[i - 1]]
    <3>1. CASE i = n + 1 BY <3>1
    <3>2. CASE i # n + 1
      <4>1. i \in 1 .. n /\ i - 1 \in 0 .. n BY <3>2
      <4> QED BY <4>1, <2>2
    <3> QED BY <3>1, <3>2
  <2> HIDE DEF h
  <2>8. Iterates(h, n + 1, X, x, s) BY <2>5, <2>6, <2>7 DEF Iterates
  <2> QED BY <2>8
<1> HIDE DEF S
<1>3. N \in S BY <1>1, <1>2, SetInduction
<1> QED BY <1>3 DEF S

\* What every step keeps in X is in X throughout.
LEMMA StaysIn ==
    ASSUME NEW N \in Nat, NEW X, NEW f, f = [i \in 0 .. N |-> f[i]],
           f[0] \in X, \A i \in 1 .. N : f[i - 1] \in X => f[i] \in X
    PROVE  f \in [0 .. N -> X]
<1> DEFINE S == {n \in Nat : n <= N => f[n] \in X}
<1>1. 0 \in S OBVIOUS
<1>2. ASSUME NEW n \in Nat, n \in S PROVE n + 1 \in S
  <2> SUFFICES ASSUME n + 1 <= N PROVE f[n + 1] \in X OBVIOUS
  <2>1. n + 1 \in 1 .. N /\ (n + 1) - 1 = n /\ n <= N OBVIOUS
  <2>2. f[n] \in X BY <1>2, <2>1
  <2>3. f[(n + 1) - 1] \in X BY <2>1, <2>2
  <2> QED BY <2>1, <2>3
<1> HIDE DEF S
<1>3. Nat \subseteq S BY <1>1, <1>2, SetInduction
<1>4. \A i \in 0 .. N : f[i] \in X BY <1>3 DEF S
<1> QED BY <1>4

-----------------------------------------------------------------------------
(* Sequences.                                                                *)

\* A function on 1 .. n is a sequence of length n, and two of them can be joined.
LEMMA VectorIsSequence ==
    ASSUME NEW S, NEW n \in Nat, NEW f \in [1 .. n -> S]
    PROVE  f \in Seq(S) /\ Len(f) = n
<1>1. f \in Seq(S) BY SeqDef
<1>2. Len(f) \in Nat /\ DOMAIN f = 1 .. Len(f) BY <1>1, LenProperties
<1>3. 1 .. Len(f) = 1 .. n BY <1>2
<1>4. Len(f) = n BY <1>2, <1>3
<1> QED BY <1>1, <1>4

LEMMA Joined ==
    ASSUME NEW S, NEW m \in Nat, NEW n \in Nat,
           NEW f \in [1 .. m -> S], NEW g \in [1 .. n -> S]
    PROVE  /\ f \o g \in [1 .. m + n -> S]
           /\ \A i \in 1 .. m + n : (f \o g)[i] = IF i <= m THEN f[i] ELSE g[i - m]
<1>1. f \in Seq(S) /\ Len(f) = m BY VectorIsSequence
<1>2. g \in Seq(S) /\ Len(g) = n BY VectorIsSequence
<1>3. /\ f \o g \in Seq(S) /\ Len(f \o g) = m + n
      /\ \A i \in 1 .. m + n : (f \o g)[i] = IF i <= m THEN f[i] ELSE g[i - m]
  BY <1>1, <1>2, ConcatProperties
<1>4. f \o g \in [1 .. m + n -> S] BY <1>3, LenProperties
<1> QED BY <1>3, <1>4

-----------------------------------------------------------------------------
(* Selections.                                                               *)

(* t is what s has at the positions below n, by way of e: in order, and all. *)
Selects(t, e, s, n, positions, S) ==
    /\ t \in Seq(S)
    /\ e \in [1 .. Len(t) -> 1 .. n]
    /\ \A k \in 1 .. Len(t) : e[k] \in positions /\ t[k] = s[e[k]]
    /\ \A k, l \in 1 .. Len(t) : k < l => e[k] < e[l]
    /\ \A i \in 1 .. n : i \in positions => \E k \in 1 .. Len(t) : e[k] = i

\* One more element, kept or passed over.
LEMMA SelectsOneMore ==
    ASSUME NEW S, NEW s \in Seq(S), NEW positions, NEW n \in Nat, n + 1 \in 1 .. Len(s),
           NEW t, NEW e, Selects(t, e, s, n, positions, S)
    PROVE  \E d : Selects(IF n + 1 \in positions THEN Append(t, s[n + 1]) ELSE t,
                          d, s, n + 1, positions, S)
<1>0. /\ t \in Seq(S) /\ Len(t) \in Nat
      /\ e \in [1 .. Len(t) -> 1 .. n]
      /\ \A k \in 1 .. Len(t) : e[k] \in positions /\ t[k] = s[e[k]]
      /\ \A k, l \in 1 .. Len(t) : k < l => e[k] < e[l]
      /\ \A i \in 1 .. n : i \in positions => \E k \in 1 .. Len(t) : e[k] = i
  BY DEF Selects
<1>1. CASE n + 1 \notin positions
  <2>1. e \in [1 .. Len(t) -> 1 .. n + 1] BY <1>0
  <2>2. \A i \in 1 .. n + 1 : i \in positions => i \in 1 .. n BY <1>1
  <2>3. \A i \in 1 .. n + 1 : i \in positions => \E k \in 1 .. Len(t) : e[k] = i
    BY <1>0, <2>2
  <2>4. Selects(t, e, s, n + 1, positions, S) BY <1>0, <2>1, <2>3 DEF Selects
  <2> QED BY <1>1, <2>4
<1>2. CASE n + 1 \in positions
  <2> DEFINE u == Append(t, s[n + 1])
             m == Len(t) + 1
             d == [k \in 1 .. m |-> IF k = m THEN n + 1 ELSE e[k]]
  <2>1. s[n + 1] \in S BY ElementOfSeq
  <2>2. /\ u \in Seq(S) /\ Len(u) = m /\ m \in Nat
        /\ u[m] = s[n + 1] /\ \A k \in 1 .. Len(t) : u[k] = t[k]
    BY <1>0, <2>1, AppendProperties
  <2>3. \A k \in 1 .. m : k = m \/ k \in 1 .. Len(t) BY <1>0
  <2> HIDE DEF u
  <2>4. d \in [1 .. m -> 1 .. n + 1]
    <3>1. ASSUME NEW k \in 1 .. m PROVE d[k] \in 1 .. n + 1 BY <1>0, <2>3
    <3> QED BY <3>1
  <2>5. ASSUME NEW k \in 1 .. m PROVE d[k] \in positions /\ u[k] = s[d[k]]
    BY <1>0, <1>2, <2>2, <2>3
  <2>6. ASSUME NEW k \in 1 .. m, NEW l \in 1 .. m, k < l PROVE d[k] < d[l]
    <3>0. k # m /\ k \in 1 .. Len(t) BY <1>0, <2>6
    <3>1. k \in 1 .. Len(t) /\ d[k] = e[k] /\ e[k] \in 1 .. n BY <1>0, <3>0
    <3>2. CASE l = m BY <3>1, <3>2
    <3>3. CASE l # m BY <1>0, <2>3, <2>6, <3>1, <3>3
    <3> QED BY <3>2, <3>3
  <2>7. ASSUME NEW i \in 1 .. n + 1, i \in positions PROVE \E k \in 1 .. m : d[k] = i
    <3>1. CASE i = n + 1
      <4>1. m \in 1 .. m /\ d[m] = n + 1 BY <2>2
      <4> QED BY <3>1, <4>1
    <3>2. CASE i # n + 1
      <4>1. i \in 1 .. n BY <3>2
      <4>2. PICK k \in 1 .. Len(t) : e[k] = i BY <1>0, <2>7, <4>1
      <4>3. k \in 1 .. m /\ d[k] = e[k] BY <1>0, <4>2
      <4> QED BY <4>2, <4>3
    <3> QED BY <3>1, <3>2
  <2> HIDE DEF m, d
  <2>8. Selects(u, d, s, n + 1, positions, S)
    BY <2>2, <2>4, <2>5, <2>6, <2>7 DEF Selects
  <2> QED BY <1>2, <2>8 DEF u
<1> QED BY <1>1, <1>2

(* f is the loop of Selected: what has been kept after each element.         *)
Keeps(f, s, positions, S) ==
    /\ f \in [0 .. Len(s) -> Seq(S)] /\ f[0] = <<>>
    /\ \A i \in 1 .. Len(s) :
          f[i] = IF i \in positions THEN Append(f[i - 1], s[i]) ELSE f[i - 1]
    /\ Selected(s, positions) = f[Len(s)]

LEMMA SelectedKeeps ==
    ASSUME NEW S, NEW s \in Seq(S), NEW positions
    PROVE  \E f : Keeps(f, s, positions, S)
<1> DEFINE N == Len(s)
           X == Seq(S)
           step == [n \in Nat |-> [x \in X |->
                      IF n \in positions /\ n \in 1 .. N THEN Append(x, s[n]) ELSE x]]
           IsLoop(f) == f = [i \in 0 .. N |->
                               IF i = 0 THEN <<>>
                               ELSE IF i \in positions THEN Append(f[i - 1], s[i]) ELSE f[i - 1]]
           loop == CHOOSE f : IsLoop(f)
<1>1. N \in Nat BY LenProperties
<1>2. step \in [Nat -> [X -> X]]
  <2>1. ASSUME NEW n \in Nat, NEW x \in X
        PROVE  (IF n \in positions /\ n \in 1 .. N THEN Append(x, s[n]) ELSE x) \in X
    <3>1. n \in 1 .. N => s[n] \in S BY ElementOfSeq
    <3>2. n \in 1 .. N => Append(x, s[n]) \in X BY <3>1, AppendProperties
    <3> QED BY <3>2
  <2> QED BY <2>1
<1>3. <<>> \in X BY EmptySeq
<1>4. PICK g : Iterates(g, N, X, <<>>, step)
  <2> HIDE DEF N, X, step
  <2> QED BY <1>1, <1>2, <1>3, Recursion
<1>5. /\ g \in [0 .. N -> X] /\ g[0] = <<>>
      /\ \A n \in 1 .. N : g[n] = step[n][g[n - 1]]
  BY <1>4 DEF Iterates
<1>6. ASSUME NEW i \in 1 .. N
      PROVE  g[i] = IF i \in positions THEN Append(g[i - 1], s[i]) ELSE g[i - 1]
  <2>1. i \in Nat /\ i - 1 \in 0 .. N BY <1>1
  <2>2. g[i - 1] \in X BY <1>5, <2>1
  <2>3. step[i][g[i - 1]] = IF i \in positions /\ i \in 1 .. N THEN Append(g[i - 1], s[i])
                            ELSE g[i - 1]
    BY <2>1, <2>2
  <2> QED BY <1>5, <2>3
<1>7. IsLoop(g)
  <2>1. g = [i \in 0 .. N |-> g[i]] BY <1>5
  <2>2. \A i \in 0 .. N : i = 0 \/ i \in 1 .. N BY <1>1
  <2>3. ASSUME NEW i \in 0 .. N
        PROVE  g[i] = IF i = 0 THEN <<>>
                      ELSE IF i \in positions THEN Append(g[i - 1], s[i]) ELSE g[i - 1]
    BY <1>5, <1>6, <2>2
  <2> QED BY <2>1, <2>3
<1>8. IsLoop(loop)
  <2> HIDE DEF IsLoop
  <2> QED BY <1>7
<1>8a. loop = [i \in 0 .. N |-> loop[i]] /\ DOMAIN loop = 0 .. N BY <1>8
<1>9. Selected(s, positions) = loop[N] BY DEF Selected
<1> HIDE DEF loop, step
<1>10. /\ loop[0] = <<>>
       /\ \A i \in 1 .. N :
             loop[i] = IF i \in positions THEN Append(loop[i - 1], s[i]) ELSE loop[i - 1]
  <2>1. 0 \in 0 .. N /\ \A i \in 1 .. N : i \in 0 .. N /\ i # 0 BY <1>1
  <2> QED BY <1>8, <2>1
<1> HIDE DEF IsLoop
<1>11. ASSUME NEW i \in 1 .. N, loop[i - 1] \in X PROVE loop[i] \in X
  <2>1. s[i] \in S BY ElementOfSeq
  <2>2. Append(loop[i - 1], s[i]) \in X BY <1>11, <2>1, AppendProperties
  <2>3. loop[i] = IF i \in positions THEN Append(loop[i - 1], s[i]) ELSE loop[i - 1]
    BY <1>10
  <2> QED BY <1>11, <2>2, <2>3
<1>12. loop \in [0 .. N -> X]
  <2>1. loop[0] \in X BY <1>3, <1>10
  <2>2. \A i \in 1 .. N : loop[i - 1] \in X => loop[i] \in X BY <1>11
  <2>3. loop = [i \in 0 .. N |-> loop[i]] BY <1>8a
  <2> HIDE DEF N, X
  <2> QED BY <1>1, <2>1, <2>2, <2>3, StaysIn
<1> QED BY <1>9, <1>10, <1>12 DEF Keeps

\* What the loop of Selected ends with is the selection of those positions.
LEMMA SelectedSelects ==
    ASSUME NEW S, NEW s \in Seq(S), NEW positions
    PROVE  \E e : Selects(Selected(s, positions), e, s, Len(s), positions, S)
<1> DEFINE N == Len(s)
<1>1. N \in Nat BY LenProperties
<1>2. PICK loop : Keeps(loop, s, positions, S) BY SelectedKeeps
<1>9. Selected(s, positions) = loop[N] BY <1>2 DEF Keeps
<1>10. /\ loop[0] = <<>>
       /\ \A i \in 1 .. N :
             loop[i] = IF i \in positions THEN Append(loop[i - 1], s[i]) ELSE loop[i - 1]
  BY <1>2 DEF Keeps
<1> DEFINE done == {n \in Nat : n <= N => \E e : Selects(loop[n], e, s, n, positions, S)}
<1>11. 0 \in done
  <2>1. Selects(<<>>, <<>>, s, 0, positions, S)
    <3>1. <<>> \in Seq(S) /\ Len(<<>>) = 0 BY EmptySeq
    <3>2. <<>> \in [1 .. 0 -> 1 .. 0] OBVIOUS
    <3>3. 1 .. 0 = {} OBVIOUS
    <3> QED BY <3>1, <3>2, <3>3 DEF Selects
  <2> QED BY <1>10, <2>1
<1>12. ASSUME NEW n \in Nat, n \in done PROVE n + 1 \in done
  <2> SUFFICES ASSUME n + 1 <= N
               PROVE  \E e : Selects(loop[n + 1], e, s, n + 1, positions, S)
    OBVIOUS
  <2>1. n + 1 \in 1 .. N /\ (n + 1) - 1 = n BY <1>1
  <2>2. PICK e : Selects(loop[n], e, s, n, positions, S) BY <1>1, <1>12
  <2>3. loop[n + 1] = IF n + 1 \in positions THEN Append(loop[n], s[n + 1]) ELSE loop[n]
    BY <1>10, <2>1
  <2> QED BY <2>1, <2>2, <2>3, SelectsOneMore
<1> HIDE DEF done
<1>13. N \in done BY <1>1, <1>11, <1>12, SetInduction
<1> QED BY <1>1, <1>9, <1>13 DEF done

\* Two such loops over what begins alike have kept the same so far.
LEMMA KeepsAgree ==
    ASSUME NEW S, NEW s \in Seq(S), NEW t \in Seq(S), NEW P, NEW Q, NEW f, NEW g,
           Keeps(f, s, P, S), Keeps(g, t, Q, S), NEW n \in Nat, n <= Len(s), n <= Len(t),
           \A i \in 1 .. n : s[i] = t[i] /\ (i \in P <=> i \in Q)
    PROVE  f[n] = g[n]
<1> DEFINE alike == {k \in Nat : k <= n => f[k] = g[k]}
<1>1. Len(s) \in Nat /\ Len(t) \in Nat BY LenProperties
<1>2. 0 \in alike BY DEF Keeps
<1>3. ASSUME NEW k \in Nat, k \in alike PROVE k + 1 \in alike
  <2> SUFFICES ASSUME k + 1 <= n PROVE f[k + 1] = g[k + 1] OBVIOUS
  <2>1. /\ k + 1 \in 1 .. Len(s) /\ k + 1 \in 1 .. Len(t) /\ k + 1 \in 1 .. n
        /\ (k + 1) - 1 = k
    BY <1>1
  <2>2. f[k] = g[k] BY <1>3
  <2>3. f[k + 1] = IF k + 1 \in P THEN Append(f[k], s[k + 1]) ELSE f[k] BY <2>1 DEF Keeps
  <2>4. g[k + 1] = IF k + 1 \in Q THEN Append(g[k], t[k + 1]) ELSE g[k] BY <2>1 DEF Keeps
  <2> QED BY <2>1, <2>2, <2>3, <2>4
<1> HIDE DEF alike
<1>4. n \in alike BY <1>2, <1>3, SetInduction
<1> QED BY <1>4 DEF alike

LEMMA SelectedAgree ==
    ASSUME NEW S, NEW s \in Seq(S), NEW P, NEW Q,
           \A i \in 1 .. Len(s) : i \in P <=> i \in Q
    PROVE  Selected(s, P) = Selected(s, Q)
<1>1. Len(s) \in Nat BY LenProperties
<1>2. PICK f : Keeps(f, s, P, S) BY SelectedKeeps
<1>3. PICK g : Keeps(g, s, Q, S) BY SelectedKeeps
<1>4. f[Len(s)] = g[Len(s)] BY <1>1, <1>2, <1>3, KeepsAgree
<1> QED BY <1>2, <1>3, <1>4 DEF Keeps

LEMMA FilteredIsSeq ==
    ASSUME NEW S, NEW s \in Seq(S), NEW K
    PROVE  Filtered(s, K) \in Seq(S)
<1> DEFINE P == {i \in 1 .. Len(s) : s[i] \in K}
<1>1. Len(s) \in Nat BY LenProperties
<1>2. PICK f : Keeps(f, s, P, S)
  <2> HIDE DEF P
  <2> QED BY SelectedKeeps
<1>3. Selected(s, P) = f[Len(s)] /\ f[Len(s)] \in Seq(S) BY <1>1, <1>2 DEF Keeps
<1> QED BY <1>3 DEF Filtered

\* One more element at the end is kept at the end, or not at all.
LEMMA FilteredAppend ==
    ASSUME NEW S, NEW s \in Seq(S), NEW x \in S, NEW K
    PROVE  Filtered(Append(s, x), K) =
             IF x \in K THEN Append(Filtered(s, K), x) ELSE Filtered(s, K)
<1> DEFINE t == Append(s, x)
           P == {i \in 1 .. Len(s) : s[i] \in K}
           Q == {i \in 1 .. Len(t) : t[i] \in K}
<1>1. Len(s) \in Nat BY LenProperties
<1>2. /\ t \in Seq(S) /\ Len(t) = Len(s) + 1
      /\ \A i \in 1 .. Len(s) : t[i] = s[i]
      /\ t[Len(s) + 1] = x
  BY AppendProperties
<1> HIDE DEF t
<1>3. \A i \in 1 .. Len(s) : i \in P <=> i \in Q BY <1>1, <1>2
<1>4. Len(s) + 1 \in Q <=> x \in K BY <1>1, <1>2
<1> HIDE DEF P, Q
<1>5. PICK f : Keeps(f, s, P, S) BY SelectedKeeps
<1>6. PICK g : Keeps(g, t, Q, S) BY <1>2, SelectedKeeps
<1>7. f[Len(s)] = g[Len(s)] BY <1>1, <1>2, <1>3, <1>5, <1>6, KeepsAgree
<1>8. Len(s) + 1 \in 1 .. Len(t) /\ (Len(s) + 1) - 1 = Len(s) BY <1>1, <1>2
<1>9. g[Len(s) + 1] = IF Len(s) + 1 \in Q THEN Append(g[Len(s)], t[Len(s) + 1]) ELSE g[Len(s)]
  BY <1>6, <1>8 DEF Keeps
<1>10. Selected(s, P) = f[Len(s)] /\ Selected(t, Q) = g[Len(s) + 1]
  BY <1>2, <1>5, <1>6 DEF Keeps
<1> QED BY <1>2, <1>4, <1>7, <1>9, <1>10 DEF Filtered, P, Q, t

LEMMA FilteredEmpty == ASSUME NEW K PROVE Filtered(<<>>, K) = <<>>
<1> DEFINE P == {i \in 1 .. Len(<<>>) : <<>>[i] \in K}
<1>1. <<>> \in Seq({}) /\ Len(<<>>) = 0 BY EmptySeq
<1>2. PICK f : Keeps(f, <<>>, P, {})
  <2> HIDE DEF P
  <2> QED BY <1>1, SelectedKeeps
<1>3. Selected(<<>>, P) = f[0] /\ f[0] = <<>> BY <1>1, <1>2 DEF Keeps
<1> QED BY <1>3 DEF Filtered
=============================================================================
