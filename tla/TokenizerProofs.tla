--------------------------- MODULE TokenizerProofs ---------------------------
(* What sam3_tokenize makes of any texts, for any vocabularies and context   *)
(* length: how it splits them, what the merges make of the words, what its   *)
(* cache holds, and what it returns.                                         *)
(*                                                                           *)
(* The splitting loop and the loop over the tokens are invariants of the     *)
(* position they have come to.  The merges: a word under way is what the     *)
(* first k merges, each once and in the order of ranks, make of its symbols, *)
(* and it has no more pairs of those.  The best pair it has is the next of   *)
(* the merges that change it, and merging that leaves no pair of lower rank, *)
(* because a pair that is new has the new token in it and, in a list that    *)
(* training made, comes later.                                               *)
EXTENDS Tokenizer, LoopProofs, TLAPS

-----------------------------------------------------------------------------
(* Lists of lists.                                                           *)

(* f is the loop of FlattenSeq: what the first lists come to, joined.        *)
Flattens(f, seqs, S) ==
    /\ f \in [0 .. Len(seqs) -> Seq(S)] /\ f[0] = <<>>
    /\ \A i \in 1 .. Len(seqs) : f[i] = f[i - 1] \o seqs[i]
    /\ FlattenSeq(seqs) = f[Len(seqs)]

\* FlattenSeq is such a loop.
LEMMA SeqsFlatten ==
    ASSUME NEW S, NEW seqs \in Seq(Seq(S))
    PROVE  \E f : Flattens(f, seqs, S)
<1> DEFINE N == Len(seqs)
           X == Seq(S)
           step == [n \in Nat |-> [x \in X |-> IF n \in 1 .. N THEN x \o seqs[n] ELSE x]]
           IsLoop(f) == f = [i \in 1 .. N |->
                               IF i = 1 THEN seqs[i] ELSE f[i - 1] \o seqs[i]]
           loop == CHOOSE f : IsLoop(f)
           all == [i \in 0 .. N |-> IF i = 0 THEN <<>> ELSE loop[i]]
<1>1. N \in Nat BY LenProperties
<1>2. \A i \in 1 .. N : seqs[i] \in X BY ElementOfSeq
<1>3. <<>> \in X BY EmptySeq
<1>4. CASE N = 0
  <2>1. seqs = <<>> BY <1>4, EmptySeq
  <2>2. FlattenSeq(seqs) = <<>> BY <1>4, <2>1 DEF FlattenSeq
  <2>3. Flattens([i \in 0 .. 0 |-> <<>>], seqs, S) BY <1>3, <1>4, <2>2 DEF Flattens
  <2> QED BY <2>3
<1>5. CASE N # 0
  <2>1. step \in [Nat -> [X -> X]]
    <3>1. ASSUME NEW n \in Nat, NEW x \in X
          PROVE  (IF n \in 1 .. N THEN x \o seqs[n] ELSE x) \in X
      <4>1. n \in 1 .. N => x \o seqs[n] \in X BY <1>2, ConcatProperties
      <4> QED BY <4>1
    <3> QED BY <3>1
  <2>2. PICK g : Iterates(g, N, X, <<>>, step)
    <3> HIDE DEF N, X, step
    <3> QED BY <1>1, <1>3, <2>1, Recursion
  <2>3. /\ g \in [0 .. N -> X] /\ g[0] = <<>>
        /\ \A n \in 1 .. N : g[n] = step[n][g[n - 1]]
    BY <2>2 DEF Iterates
  <2>4. ASSUME NEW i \in 1 .. N PROVE g[i] = g[i - 1] \o seqs[i]
    <3>1. i \in Nat /\ i - 1 \in 0 .. N BY <1>1
    <3>2. g[i - 1] \in X BY <2>3, <3>1
    <3>3. step[i][g[i - 1]] = IF i \in 1 .. N THEN g[i - 1] \o seqs[i] ELSE g[i - 1]
      BY <3>1, <3>2
    <3> QED BY <2>3, <3>3
  <2>5. 1 \in 1 .. N BY <1>1, <1>5
  <2>6. seqs[1] \in X BY <1>2, <2>5
  <2>7. g[1] = seqs[1]
    <3>0. g[1 - 1] = <<>> BY <2>3
    <3>1. g[1] = <<>> \o seqs[1] BY <2>4, <2>5, <3>0
    <3> QED BY <2>6, <3>1, ConcatEmptySeq
  <2> DEFINE h == [i \in 1 .. N |-> g[i]]
  <2>8. IsLoop(h)
    <3>1. ASSUME NEW i \in 1 .. N
          PROVE  h[i] = IF i = 1 THEN seqs[i] ELSE h[i - 1] \o seqs[i]
      <4>1. i # 1 => i - 1 \in 1 .. N BY <1>1
      <4> QED BY <2>4, <2>7, <4>1
    <3> QED BY <3>1
  <2>9. IsLoop(loop)
    <3> HIDE DEF IsLoop, h
    <3> QED BY <2>8
  <2>10. FlattenSeq(seqs) = loop[N] BY <1>5 DEF FlattenSeq
  <2> HIDE DEF loop
  <2>11. ASSUME NEW i \in 1 .. N
         PROVE  loop[i] = IF i = 1 THEN seqs[i] ELSE loop[i - 1] \o seqs[i]
    BY <2>9
  <2> HIDE DEF IsLoop
  <2>12. all[0] = <<>> BY <1>1
  <2>13. ASSUME NEW i \in 1 .. N PROVE all[i] = all[i - 1] \o seqs[i]
    <3>1. i \in 0 .. N /\ i # 0 /\ all[i] = loop[i] BY <1>1
    <3>2. CASE i = 1
      <4>1. all[i - 1] = <<>> /\ all[i] = seqs[1] BY <2>11, <2>12, <3>1, <3>2
      <4> QED BY <2>6, <3>2, <4>1, ConcatEmptySeq
    <3>3. CASE i # 1
      <4>1. i - 1 \in 0 .. N /\ i - 1 # 0 BY <1>1, <3>3
      <4>2. all[i - 1] = loop[i - 1] BY <4>1
      <4> QED BY <2>11, <3>1, <3>3, <4>2
    <3> QED BY <3>2, <3>3
  <2>14. ASSUME NEW i \in 1 .. N, all[i - 1] \in X PROVE all[i] \in X
    <3>1. all[i] = all[i - 1] \o seqs[i] BY <2>13
    <3>2. seqs[i] \in X BY <1>2
    <3> HIDE DEF all
    <3> QED BY <2>14, <3>1, <3>2, ConcatProperties
  <2>15. all = [i \in 0 .. N |-> all[i]] OBVIOUS
  <2>16. FlattenSeq(seqs) = all[N] BY <1>1, <1>5, <2>10
  <2> HIDE DEF all
  <2>17. all \in [0 .. N -> X]
    <3>1. all[0] \in X BY <1>3, <2>12
    <3>2. \A i \in 1 .. N : all[i - 1] \in X => all[i] \in X BY <2>14
    <3> HIDE DEF N, X
    <3> QED BY <1>1, <2>15, <3>1, <3>2, StaysIn
  <2> QED BY <2>12, <2>13, <2>16, <2>17 DEF Flattens
<1> QED BY <1>4, <1>5

\* Lists that begin with the same lists begin alike when joined.
LEMMA FlattensAgree ==
    ASSUME NEW S, NEW s \in Seq(Seq(S)), NEW t \in Seq(Seq(S)), NEW f, NEW g,
           Flattens(f, s, S), Flattens(g, t, S), NEW n \in Nat, n <= Len(s), n <= Len(t),
           \A i \in 1 .. n : s[i] = t[i]
    PROVE  f[n] = g[n]
<1> DEFINE alike == {k \in Nat : k <= n => f[k] = g[k]}
<1>1. Len(s) \in Nat /\ Len(t) \in Nat BY LenProperties
<1>2. 0 \in alike BY DEF Flattens
<1>3. ASSUME NEW k \in Nat, k \in alike PROVE k + 1 \in alike
  <2> SUFFICES ASSUME k + 1 <= n PROVE f[k + 1] = g[k + 1] OBVIOUS
  <2>1. /\ k + 1 \in 1 .. Len(s) /\ k + 1 \in 1 .. Len(t) /\ k + 1 \in 1 .. n
        /\ (k + 1) - 1 = k
    BY <1>1
  <2>2. f[k] = g[k] BY <1>3
  <2>3. f[k + 1] = f[k] \o s[k + 1] BY <2>1 DEF Flattens
  <2>4. g[k + 1] = g[k] \o t[k + 1] BY <2>1 DEF Flattens
  <2> QED BY <2>1, <2>2, <2>3, <2>4
<1> HIDE DEF alike
<1>4. n \in alike BY <1>2, <1>3, SetInduction
<1> QED BY <1>4 DEF alike

LEMMA FlatIsSeq ==
    ASSUME NEW S, NEW seqs \in Seq(Seq(S))
    PROVE  FlattenSeq(seqs) \in Seq(S)
<1>1. Len(seqs) \in Nat BY LenProperties
<1>2. PICK f : Flattens(f, seqs, S) BY SeqsFlatten
<1> QED BY <1>1, <1>2 DEF Flattens

LEMMA FlattenEmpty == FlattenSeq(<<>>) = <<>>
BY DEF FlattenSeq

\* One list more is joined at the end.
LEMMA FlattenAppend ==
    ASSUME NEW S, NEW seqs \in Seq(Seq(S)), NEW w \in Seq(S)
    PROVE  FlattenSeq(Append(seqs, w)) = FlattenSeq(seqs) \o w
<1> DEFINE t == Append(seqs, w)
<1>1. Len(seqs) \in Nat BY LenProperties
<1>2. /\ t \in Seq(Seq(S)) /\ Len(t) = Len(seqs) + 1
      /\ \A i \in 1 .. Len(seqs) : t[i] = seqs[i]
      /\ t[Len(seqs) + 1] = w
  BY AppendProperties
<1> HIDE DEF t
<1>3. PICK f : Flattens(f, seqs, S) BY SeqsFlatten
<1>4. PICK g : Flattens(g, t, S) BY <1>2, SeqsFlatten
<1>5. \A i \in 1 .. Len(seqs) : seqs[i] = t[i] BY <1>2
<1>6. f[Len(seqs)] = g[Len(seqs)]
  <2>1. Len(seqs) <= Len(seqs) /\ Len(seqs) <= Len(t) BY <1>1, <1>2
  <2>2. t \in Seq(Seq(S)) BY <1>2
  <2> QED BY <1>1, <1>3, <1>4, <1>5, <2>1, <2>2, FlattensAgree
<1>7. Len(seqs) + 1 \in 1 .. Len(t) /\ (Len(seqs) + 1) - 1 = Len(seqs) BY <1>1, <1>2
<1>8. g[Len(seqs) + 1] = g[Len(seqs)] \o w BY <1>2, <1>4, <1>7 DEF Flattens
<1>9. FlattenSeq(seqs) = f[Len(seqs)] /\ FlattenSeq(t) = g[Len(seqs) + 1]
  BY <1>2, <1>3, <1>4 DEF Flattens
<1> QED BY <1>6, <1>8, <1>9 DEF t

-----------------------------------------------------------------------------
(* Merging.                                                                  *)

(* With the mark named, as the provers do not know it for a string.          *)
Symbol == STRING \cup {"</w>"}
Token == Seq(Symbol)

LEMMA TokensJoin == ASSUME NEW a \in Token, NEW b \in Token PROVE a \o b \in Token
BY ConcatProperties DEF Token

\* What a list ends with, and what is before that.
LEMMA LastAndFront ==
    ASSUME NEW S, NEW s \in Seq(S), s # <<>>
    PROVE  /\ Len(s) \in Nat \ {0} /\ Last(s) = s[Len(s)] /\ Last(s) \in S
           /\ Front(s) \in Seq(S) /\ Len(Front(s)) = Len(s) - 1
           /\ \A i \in 1 .. Len(s) - 1 : Front(s)[i] = s[i]
<1>1. Len(s) \in Nat \ {0} BY EmptySeq
<1>2. \A i \in 1 .. Len(s) : s[i] \in S BY ElementOfSeq
<1>3. Last(s) = s[Len(s)] BY DEF Last
<1>4. Front(s) = SubSeq(s, 1, Len(s) - 1) BY DEF Front
<1>5. \A i \in 1 .. Len(s) - 1 : s[i] \in S BY <1>1, <1>2
<1>6. /\ Front(s) \in Seq(S)
      /\ Len(Front(s)) = IF 1 <= Len(s) - 1 THEN (Len(s) - 1) - 1 + 1 ELSE 0
      /\ \A i \in 1 .. (Len(s) - 1) - 1 + 1 : Front(s)[i] = s[1 + i - 1]
  BY <1>1, <1>4, <1>5, SubSeqProperties
<1>7. Len(Front(s)) = Len(s) - 1
  <2>1. Len(Front(s)) = IF 1 <= Len(s) - 1 THEN (Len(s) - 1) - 1 + 1 ELSE 0 BY <1>6
  <2>2. PICK n \in Nat \ {0} : n = Len(s) BY <1>1
  <2>3. Len(Front(s)) = IF 1 <= n - 1 THEN (n - 1) - 1 + 1 ELSE 0 BY <2>1, <2>2
  <2>4. (IF 1 <= n - 1 THEN (n - 1) - 1 + 1 ELSE 0) = n - 1 OBVIOUS
  <2> QED BY <2>2, <2>3, <2>4
<1>8. (Len(s) - 1) - 1 + 1 = Len(s) - 1 BY <1>1
<1>9. ASSUME NEW i \in 1 .. Len(s) - 1 PROVE Front(s)[i] = s[i]
  <2>1. 1 + i - 1 = i BY <1>1
  <2> QED BY <1>6, <1>8, <2>1
<1>10. Last(s) \in S BY <1>1, <1>2, <1>3
<1> QED BY <1>1, <1>3, <1>6, <1>7, <1>9, <1>10

\* One turn of the loop of MergeAll.
MergeStep(s, x, pair) ==
    IF s # <<>> /\ Last(s) = pair[1] /\ x = pair[2]
    THEN Append(Front(s), pair[1] \o pair[2]) ELSE Append(s, x)

(* f is the loop of MergeAll: what the first tokens come to.                 *)
Merging(f, word, pair) ==
    /\ f \in [0 .. Len(word) -> Seq(Token)] /\ f[0] = <<>>
    /\ \A i \in 1 .. Len(word) : f[i] = MergeStep(f[i - 1], word[i], pair)
    /\ MergeAll(word, pair) = f[Len(word)]

LEMMA StepIsWord ==
    ASSUME NEW s \in Seq(Token), NEW x \in Token, NEW pair \in Token \X Token
    PROVE  MergeStep(s, x, pair) \in Seq(Token)
<1>1. pair[1] \o pair[2] \in Token BY TokensJoin
<1>2. s # <<>> => Front(s) \in Seq(Token) BY LastAndFront
<1>3. s # <<>> => Append(Front(s), pair[1] \o pair[2]) \in Seq(Token)
  BY <1>1, <1>2, AppendProperties
<1>4. Append(s, x) \in Seq(Token) BY AppendProperties
<1> QED BY <1>3, <1>4 DEF MergeStep

\* MergeAll is such a loop.
LEMMA WordsMerge ==
    ASSUME NEW word \in Seq(Token), NEW pair \in Token \X Token
    PROVE  \E f : Merging(f, word, pair)
<1> DEFINE N == Len(word)
           X == Seq(Token)
           step == [n \in Nat |-> [x \in X |->
                      IF n \in 1 .. N THEN MergeStep(x, word[n], pair) ELSE x]]
           IsLoop(f) == f = [i \in 0 .. N |->
                               IF i = 0 THEN <<>> ELSE MergeStep(f[i - 1], word[i], pair)]
           loop == CHOOSE f : IsLoop(f)
<1>1. N \in Nat BY LenProperties
<1>2. \A n \in 1 .. N : word[n] \in Token BY ElementOfSeq
<1>3. <<>> \in X BY EmptySeq
<1>4. step \in [Nat -> [X -> X]]
  <2>1. ASSUME NEW n \in Nat, NEW x \in X
        PROVE  (IF n \in 1 .. N THEN MergeStep(x, word[n], pair) ELSE x) \in X
    BY <1>2, StepIsWord
  <2> QED BY <2>1
<1>5. PICK g : Iterates(g, N, X, <<>>, step)
  <2> HIDE DEF N, X, step
  <2> QED BY <1>1, <1>3, <1>4, Recursion
<1>6. /\ g \in [0 .. N -> X] /\ g[0] = <<>>
      /\ \A n \in 1 .. N : g[n] = step[n][g[n - 1]]
  BY <1>5 DEF Iterates
<1>7. ASSUME NEW i \in 1 .. N PROVE g[i] = MergeStep(g[i - 1], word[i], pair)
  <2>1. i \in Nat /\ i - 1 \in 0 .. N BY <1>1
  <2>2. g[i - 1] \in X BY <1>6, <2>1
  <2>3. step[i][g[i - 1]] =
          IF i \in 1 .. N THEN MergeStep(g[i - 1], word[i], pair) ELSE g[i - 1]
    BY <2>1, <2>2
  <2> QED BY <1>6, <2>3
<1>8. IsLoop(g)
  <2>1. g = [i \in 0 .. N |-> g[i]] BY <1>6
  <2>2. \A i \in 0 .. N : i = 0 \/ i \in 1 .. N BY <1>1
  <2>3. ASSUME NEW i \in 0 .. N
        PROVE  g[i] = IF i = 0 THEN <<>> ELSE MergeStep(g[i - 1], word[i], pair)
    BY <1>6, <1>7, <2>2
  <2> QED BY <2>1, <2>3
<1>9. IsLoop(loop)
  <2> HIDE DEF IsLoop
  <2> QED BY <1>8
<1>10. MergeAll(word, pair) = loop[N] BY DEF MergeAll, MergeStep
<1> HIDE DEF loop, step
<1>11. loop = [i \in 0 .. N |-> loop[i]] BY <1>9
<1>12. loop[0] = <<>> /\ \A i \in 1 .. N : loop[i] = MergeStep(loop[i - 1], word[i], pair)
  <2>1. 0 \in 0 .. N /\ \A i \in 1 .. N : i \in 0 .. N /\ i # 0 BY <1>1
  <2> QED BY <1>9, <2>1
<1> HIDE DEF IsLoop
<1>13. ASSUME NEW i \in 1 .. N, loop[i - 1] \in X PROVE loop[i] \in X
  BY <1>2, <1>12, <1>13, StepIsWord
<1>14. loop \in [0 .. N -> X]
  <2>1. loop[0] \in X BY <1>3, <1>12
  <2>2. \A i \in 1 .. N : loop[i - 1] \in X => loop[i] \in X BY <1>13
  <2> HIDE DEF N, X
  <2> QED BY <1>1, <1>11, <2>1, <2>2, StaysIn
<1> QED BY <1>10, <1>12, <1>14 DEF Merging

\* The pairs of tokens that are next to each other.
Neighbours(word) == {<<word[i], word[i + 1]>> : i \in 1 .. Len(word) - 1}

(* s is the word up to i with the pair merged: it ends with a token of the   *)
(* word or with a new one, and no two neighbours of it are the pair.         *)
MergedUpTo(s, i, word, pair) ==
    /\ s \in Seq(Token)
    /\ i > 0 => s # <<>> /\ Last(s) \in {word[i], pair[1] \o pair[2]}
    /\ i = 0 => s = <<>>
    /\ \A n \in Neighbours(s) :
          \/ n \in Neighbours(word) /\ n # pair
          \/ pair[1] \o pair[2] \in {n[1], n[2]}

\* One turn of the loop keeps to that.
LEMMA MergeStepMerges ==
    ASSUME NEW word \in Seq(Token), NEW pair \in Token \X Token, NEW i \in Nat,
           i + 1 \in 1 .. Len(word), NEW s, MergedUpTo(s, i, word, pair)
    PROVE  MergedUpTo(MergeStep(s, word[i + 1], pair), i + 1, word, pair)
<1> DEFINE new == pair[1] \o pair[2]
           x == word[i + 1]
           t == MergeStep(s, x, pair)
           Fine(n) == (n \in Neighbours(word) /\ n # pair) \/ new \in {n[1], n[2]}
<1>1. /\ s \in Seq(Token) /\ Len(s) \in Nat /\ x \in Token /\ new \in Token
      /\ Len(word) \in Nat
  BY TokensJoin, LenProperties, ElementOfSeq DEF MergedUpTo
<1>2. \A k \in 1 .. Len(s) - 1 : Fine(<<s[k], s[k + 1]>>)
  BY DEF MergedUpTo, Neighbours
<1>3. pair = <<pair[1], pair[2]>> OBVIOUS
<1> HIDE DEF new, x
<1>4. CASE s # <<>> /\ Last(s) = pair[1] /\ x = pair[2]
  <2>1. t = Append(Front(s), new) BY <1>4 DEF MergeStep, new
  <2>2. /\ Front(s) \in Seq(Token) /\ Len(Front(s)) = Len(s) - 1 /\ Len(s) \in Nat \ {0}
        /\ \A k \in 1 .. Len(s) - 1 : Front(s)[k] = s[k]
    BY <1>1, <1>4, LastAndFront
  <2>3. /\ t \in Seq(Token) /\ t # <<>> /\ Len(t) = Len(s)
        /\ \A k \in 1 .. Len(s) - 1 : t[k] = s[k]
        /\ t[Len(s)] = new
    BY <1>1, <2>1, <2>2, AppendProperties
  <2> HIDE DEF t
  <2>4. Last(t) = new BY <2>3 DEF Last
  <2>5. ASSUME NEW k \in 1 .. Len(t) - 1 PROVE Fine(<<t[k], t[k + 1]>>)
    <3>1. CASE k + 1 = Len(s) BY <2>3, <3>1
    <3>2. CASE k + 1 # Len(s)
      <4>1. k \in 1 .. Len(s) - 1 /\ k + 1 \in 1 .. Len(s) - 1 BY <2>2, <2>3, <3>2
      <4>2. t[k] = s[k] /\ t[k + 1] = s[k + 1] BY <2>3, <4>1
      <4> HIDE DEF Fine
      <4> QED BY <1>2, <4>1, <4>2
    <3> QED BY <3>1, <3>2
  <2>6. \A n \in Neighbours(t) : Fine(n)
    <3> HIDE DEF Fine
    <3> QED BY <2>5 DEF Neighbours
  <2> QED BY <2>3, <2>4, <2>6 DEF MergedUpTo, t, x, new
<1>5. CASE ~(s # <<>> /\ Last(s) = pair[1] /\ x = pair[2])
  <2>1. t = Append(s, x) BY <1>5 DEF MergeStep
  <2>2. /\ t \in Seq(Token) /\ t # <<>> /\ Len(t) = Len(s) + 1
        /\ \A k \in 1 .. Len(s) : t[k] = s[k]
        /\ t[Len(s) + 1] = x
    BY <1>1, <2>1, AppendProperties
  <2> HIDE DEF t
  <2>3. Last(t) = x BY <2>2 DEF Last
  <2>4. ASSUME NEW k \in 1 .. Len(t) - 1 PROVE Fine(<<t[k], t[k + 1]>>)
    <3>1. CASE k = Len(s)
      <4>1. k \in 1 .. Len(s) /\ s # <<>> BY <1>1, <2>2, <3>1, EmptySeq
      <4>2. i > 0 BY <4>1 DEF MergedUpTo
      <4>3. Last(s) = s[k] /\ Last(s) \in {word[i], new}
        BY <1>1, <3>1, <4>1, <4>2, LastAndFront DEF MergedUpTo, new
      <4>4. t[k] = s[k] /\ t[k + 1] = x BY <2>2, <3>1, <4>1
      <4>5. CASE Last(s) = new BY <4>3, <4>4, <4>5
      <4>6. CASE Last(s) = word[i]
        <5>1. i \in 1 .. Len(word) - 1 BY <1>1, <4>2
        <5>2. <<word[i], word[i + 1]>> \in Neighbours(word) BY <5>1 DEF Neighbours
        <5>3. <<t[k], t[k + 1]>> = <<word[i], word[i + 1]>> BY <4>3, <4>4, <4>6 DEF x
        <5>4. <<t[k], t[k + 1]>> # pair BY <1>3, <1>5, <4>1, <4>3, <4>4
        <5> QED BY <5>2, <5>3, <5>4
      <4> QED BY <4>3, <4>5, <4>6
    <3>2. CASE k # Len(s)
      <4>1. k \in 1 .. Len(s) - 1 /\ k + 1 \in 1 .. Len(s) /\ k \in 1 .. Len(s)
        BY <1>1, <2>2, <3>2
      <4>2. t[k] = s[k] /\ t[k + 1] = s[k + 1] BY <2>2, <4>1
      <4> HIDE DEF Fine
      <4> QED BY <1>2, <4>1, <4>2
    <3> QED BY <3>1, <3>2
  <2>5. \A n \in Neighbours(t) : Fine(n)
    <3> HIDE DEF Fine
    <3> QED BY <2>4 DEF Neighbours
  <2> QED BY <2>2, <2>3, <2>5 DEF MergedUpTo, t, x, new
<1> QED BY <1>4, <1>5

\* Merging a pair leaves none of it, and makes no neighbours but with the new token.
LEMMA MergeAllMerges ==
    ASSUME NEW word \in Seq(Token), NEW pair \in Token \X Token
    PROVE  MergedUpTo(MergeAll(word, pair), Len(word), word, pair)
<1>1. Len(word) \in Nat BY LenProperties
<1>2. PICK f : Merging(f, word, pair) BY WordsMerge
<1> DEFINE done == {n \in Nat : n <= Len(word) => MergedUpTo(f[n], n, word, pair)}
<1>3. 0 \in done
  <2>1. f[0] = <<>> BY <1>2 DEF Merging
  <2>2. <<>> \in Seq(Token) /\ Len(<<>>) = 0 BY EmptySeq
  <2>3. Neighbours(<<>>) = {} BY <2>2 DEF Neighbours
  <2>4. MergedUpTo(<<>>, 0, word, pair) BY <2>2, <2>3 DEF MergedUpTo
  <2> QED BY <2>1, <2>4
<1>4. ASSUME NEW n \in Nat, n \in done PROVE n + 1 \in done
  <2> SUFFICES ASSUME n + 1 <= Len(word) PROVE MergedUpTo(f[n + 1], n + 1, word, pair)
    OBVIOUS
  <2>1. n + 1 \in 1 .. Len(word) /\ (n + 1) - 1 = n BY <1>1
  <2>2. MergedUpTo(f[n], n, word, pair) BY <1>1, <1>4
  <2>3. f[n + 1] = MergeStep(f[n], word[n + 1], pair) BY <1>2, <2>1 DEF Merging
  <2> QED BY <2>1, <2>2, <2>3, MergeStepMerges
<1> HIDE DEF done
<1>5. Len(word) \in done BY <1>1, <1>3, <1>4, SetInduction
<1>6. MergedUpTo(f[Len(word)], Len(word), word, pair) BY <1>1, <1>5 DEF done
<1> QED BY <1>2, <1>6 DEF Merging

\* What was appended is last.
LEMMA LastOfAppend ==
    ASSUME NEW S, NEW s \in Seq(S), NEW x \in S
    PROVE  Append(s, x) # <<>> /\ Last(Append(s, x)) = x /\ Front(Append(s, x)) = s
<1> DEFINE t == Append(s, x)
<1>1. Len(s) \in Nat BY LenProperties
<1>2. /\ t \in Seq(S) /\ t # <<>> /\ Len(t) = Len(s) + 1 /\ t[Len(s) + 1] = x
      /\ \A i \in 1 .. Len(s) : t[i] = s[i]
  BY AppendProperties
<1> HIDE DEF t
<1>3. /\ Last(t) = t[Len(t)] /\ Front(t) \in Seq(S) /\ Len(Front(t)) = Len(t) - 1
      /\ \A i \in 1 .. Len(t) - 1 : Front(t)[i] = t[i]
  BY <1>2, LastAndFront
<1>4. Len(Front(t)) = Len(s) /\ \A i \in 1 .. Len(Front(t)) : Front(t)[i] = s[i]
  BY <1>1, <1>2, <1>3
<1>5. Front(t) = s BY <1>3, <1>4, SeqEqual
<1> QED BY <1>2, <1>3, <1>5 DEF t

-----------------------------------------------------------------------------
(* Merging by definition.                                                    *)

(* S are the places where occurrences of the pair start, from the left.      *)
StartsOf(S, word, pair) ==
    /\ S \subseteq 1 .. Len(word)
    /\ \A i \in 1 .. Len(word) :
          i \in S <=> i < Len(word) /\ <<word[i], word[i + 1]>> = pair /\ i - 1 \notin S

\* What each token of the word becomes.
Pieces(word, pair, S) ==
    [i \in 1 .. Len(word) |->
        IF i \in S THEN <<pair[1] \o pair[2]>>
        ELSE IF i - 1 \in S THEN <<>> ELSE <<word[i]>>]

\* One turn of the loop of AllMerged.
NextStarts(s, i, word, pair) ==
    IF i < Len(word) /\ <<word[i], word[i + 1]>> = pair /\ i - 1 \notin s
    THEN s \cup {i} ELSE s

\* AllMerged joins the pieces for the starts it finds.
LEMMA StartsExist ==
    ASSUME NEW word \in Seq(Token), NEW pair
    PROVE  \E S : StartsOf(S, word, pair)
                  /\ AllMerged(word, pair) = FlattenSeq(Pieces(word, pair, S))
<1> DEFINE N == Len(word)
           X == SUBSET Nat
           step == [n \in Nat |-> [x \in X |-> NextStarts(x, n, word, pair)]]
           IsLoop(f) == f = [i \in 0 .. N |->
                               IF i = 0 THEN {} ELSE NextStarts(f[i - 1], i, word, pair)]
           loop == CHOOSE f : IsLoop(f)
<1>1. N \in Nat BY LenProperties
<1>2. step \in [Nat -> [X -> X]]
  <2>1. ASSUME NEW n \in Nat, NEW x \in X PROVE NextStarts(x, n, word, pair) \in X
    BY DEF NextStarts
  <2> QED BY <2>1
<1>3. {} \in X OBVIOUS
<1>4. PICK g : Iterates(g, N, X, {}, step)
  <2> HIDE DEF N, X, step
  <2> QED BY <1>1, <1>2, <1>3, Recursion
<1>5. /\ g \in [0 .. N -> X] /\ g[0] = {}
      /\ \A n \in 1 .. N : g[n] = step[n][g[n - 1]]
  BY <1>4 DEF Iterates
<1>6. ASSUME NEW i \in 1 .. N PROVE g[i] = NextStarts(g[i - 1], i, word, pair)
  <2>1. i \in Nat /\ i - 1 \in 0 .. N BY <1>1
  <2>2. g[i - 1] \in X BY <1>5, <2>1
  <2>3. step[i][g[i - 1]] = NextStarts(g[i - 1], i, word, pair)
    BY <2>1, <2>2
  <2> QED BY <1>5, <2>3
<1>7. IsLoop(g)
  <2>1. g = [i \in 0 .. N |-> g[i]] BY <1>5
  <2>2. \A i \in 0 .. N : i = 0 \/ i \in 1 .. N BY <1>1
  <2>3. ASSUME NEW i \in 0 .. N
        PROVE  g[i] = IF i = 0 THEN {} ELSE NextStarts(g[i - 1], i, word, pair)
    BY <1>5, <1>6, <2>2
  <2> QED BY <2>1, <2>3
<1>8. IsLoop(loop)
  <2> HIDE DEF IsLoop
  <2> QED BY <1>7
<1>9. AllMerged(word, pair) = FlattenSeq(Pieces(word, pair, loop[N]))
  BY DEF AllMerged, Pieces, NextStarts
<1> HIDE DEF loop, step
<1>10. loop[0] = {} /\ \A i \in 1 .. N : loop[i] = NextStarts(loop[i - 1], i, word, pair)
  <2>1. 0 \in 0 .. N /\ \A i \in 1 .. N : i \in 0 .. N /\ i # 0 BY <1>1
  <2> QED BY <1>8, <2>1
<1> HIDE DEF IsLoop
\* What is decided of the first i places stays so.
<1> DEFINE Decided(i) ==
             /\ loop[i] \subseteq 1 .. i
             /\ \A j \in 1 .. i : j \in loop[i]
                  <=> j < N /\ <<word[j], word[j + 1]>> = pair /\ j - 1 \notin loop[i]
           done == {n \in Nat : n <= N => Decided(n)}
<1>11. 0 \in done BY <1>10
<1>12. ASSUME NEW n \in Nat, n \in done PROVE n + 1 \in done
  <2> SUFFICES ASSUME n + 1 <= N PROVE Decided(n + 1) OBVIOUS
  <2>1. n + 1 \in 1 .. N /\ (n + 1) - 1 = n BY <1>1
  <2>2. Decided(n) BY <1>1, <1>12
  <2>3. loop[n + 1] = NextStarts(loop[n], n + 1, word, pair) BY <1>10, <2>1
  <2>4. \A j \in 1 .. n : j \in loop[n + 1] <=> j \in loop[n]
    BY <2>2, <2>3 DEF NextStarts
  <2>5. n + 1 \in loop[n + 1]
          <=> n + 1 < N /\ <<word[n + 1], word[n + 2]>> = pair /\ n \notin loop[n]
    <3>1. n + 1 \notin loop[n] BY <2>2
    <3>2. (n + 1) + 1 = n + 2 OBVIOUS
    <3> QED BY <2>1, <2>3, <3>1, <3>2 DEF NextStarts
  <2>6. loop[n + 1] \subseteq 1 .. n + 1 BY <2>2, <2>3 DEF NextStarts
  <2>7. n \in loop[n + 1] <=> n \in loop[n]
    <3>1. n = 0 => n \notin loop[n + 1] /\ n \notin loop[n] BY <2>2, <2>6
    <3>2. n # 0 => n \in 1 .. n OBVIOUS
    <3> QED BY <2>4, <3>1, <3>2
  <2>8. ASSUME NEW j \in 1 .. n + 1
        PROVE  j \in loop[n + 1]
                 <=> j < N /\ <<word[j], word[j + 1]>> = pair /\ j - 1 \notin loop[n + 1]
    <3>1. CASE j = n + 1
      <4>1. j - 1 = n /\ j + 1 = n + 2 BY <3>1
      <4> QED BY <2>5, <2>7, <3>1, <4>1
    <3>2. CASE j # n + 1
      <4>1. j \in 1 .. n BY <3>2
      <4>2. j - 1 \in loop[n + 1] <=> j - 1 \in loop[n]
        <5>1. j - 1 = 0 => j - 1 \notin loop[n + 1] /\ j - 1 \notin loop[n] BY <2>2, <2>6
        <5>2. j - 1 # 0 => j - 1 \in 1 .. n BY <4>1
        <5> QED BY <2>4, <5>1, <5>2
      <4>3. j \in loop[n + 1] <=> j \in loop[n] BY <2>4, <4>1
      <4>4. j \in loop[n]
              <=> j < N /\ <<word[j], word[j + 1]>> = pair /\ j - 1 \notin loop[n]
        BY <2>2, <4>1
      <4> QED BY <4>2, <4>3, <4>4
    <3> QED BY <3>1, <3>2
  <2> QED BY <2>6, <2>8
<1> HIDE DEF done
<1>13. N \in done BY <1>1, <1>11, <1>12, SetInduction
<1>14. Decided(N) BY <1>1, <1>13 DEF done
<1>15. StartsOf(loop[N], word, pair) BY <1>14 DEF StartsOf
<1> QED BY <1>9, <1>15

LEMMA PiecesAreWords ==
    ASSUME NEW word \in Seq(Token), NEW pair \in Token \X Token, NEW S
    PROVE  /\ Pieces(word, pair, S) \in Seq(Seq(Token))
           /\ Len(Pieces(word, pair, S)) = Len(word)
<1> DEFINE N == Len(word)
           p == Pieces(word, pair, S)
<1>1. N \in Nat /\ \A i \in 1 .. N : word[i] \in Token BY LenProperties, ElementOfSeq
<1>2. pair[1] \o pair[2] \in Token BY TokensJoin
<1>3. ASSUME NEW t \in Token PROVE <<t>> \in Seq(Token)
  <2>1. <<t>> = Append(<<>>, t) OBVIOUS
  <2> QED BY <2>1, EmptySeq, AppendProperties
<1>4. <<>> \in Seq(Token) BY EmptySeq
<1>5. \A i \in 1 .. N : p[i] \in Seq(Token) BY <1>1, <1>2, <1>3, <1>4 DEF Pieces
<1>6. p \in [1 .. N -> Seq(Token)] BY <1>5 DEF Pieces
<1> HIDE DEF p, N
<1> QED BY <1>1, <1>6, VectorIsSequence DEF p, N

\* The loop that merges from the left does what the definition says.
LEMMA MergeAllIsAllMerged ==
    ASSUME NEW word \in Seq(Token), NEW pair \in Token \X Token,
           pair[1] \o pair[2] # pair[1]
    PROVE  MergeAll(word, pair) = AllMerged(word, pair)
<1> DEFINE N == Len(word)
           new == pair[1] \o pair[2]
<1>1. N \in Nat /\ \A i \in 1 .. N : word[i] \in Token BY LenProperties, ElementOfSeq
<1>2. new \in Token BY TokensJoin
<1>3. PICK f : Merging(f, word, pair) BY WordsMerge
<1>4. PICK S : StartsOf(S, word, pair)
               /\ AllMerged(word, pair) = FlattenSeq(Pieces(word, pair, S))
  BY StartsExist
<1> DEFINE P == Pieces(word, pair, S)
<1>5. P \in Seq(Seq(Token)) /\ Len(P) = N BY PiecesAreWords
<1>6. PICK g : Flattens(g, P, Token)
  <2> HIDE DEF P
  <2> QED BY <1>5, SeqsFlatten
<1>7. /\ f[0] = <<>> /\ f \in [0 .. N -> Seq(Token)]
      /\ \A i \in 1 .. N : f[i] = MergeStep(f[i - 1], word[i], pair)
      /\ MergeAll(word, pair) = f[N]
  BY <1>3 DEF Merging
<1>8. /\ g[0] = <<>> /\ g \in [0 .. N -> Seq(Token)]
      /\ \A i \in 1 .. N : g[i] = g[i - 1] \o P[i]
      /\ FlattenSeq(P) = g[N]
  BY <1>5, <1>6 DEF Flattens
<1>9. \A i \in 1 .. N : P[i] = IF i \in S THEN <<new>>
                               ELSE IF i - 1 \in S THEN <<>> ELSE <<word[i]>>
  BY DEF Pieces
<1>10. /\ S \subseteq 1 .. N
       /\ \A i \in 1 .. N :
             i \in S <=> i < N /\ <<word[i], word[i + 1]>> = pair /\ i - 1 \notin S
  BY <1>4 DEF StartsOf
<1>11. AllMerged(word, pair) = FlattenSeq(P) BY <1>4
<1>12. pair = <<pair[1], pair[2]>> OBVIOUS
<1> HIDE DEF P, new
\* The scan has met an occurrence half, or is where the definition is; its last
\* token is then a new one or the last that was met.
<1> DEFINE Fits(i) ==
             /\ i \in S => f[i] = Append(g[i - 1], word[i])
             /\ i \notin S => f[i] = g[i]
             /\ i \notin S /\ i > 0 => g[i] # <<>>
                  /\ Last(g[i]) = IF i - 1 \in S THEN new ELSE word[i]
             /\ i \in S => g[i] = Append(g[i - 1], new)
           done == {n \in Nat : n <= N => Fits(n)}
<1>13. 0 \in done
  <2>1. 0 \notin S BY <1>10
  <2> QED BY <1>7, <1>8, <2>1
<1>14. ASSUME NEW n \in Nat, n \in done PROVE n + 1 \in done
  <2> SUFFICES ASSUME n + 1 <= N PROVE Fits(n + 1) OBVIOUS
  <2> DEFINE m == n + 1
             x == word[m]
  <2>1. m \in 1 .. N /\ m - 1 = n /\ n \in 0 .. N /\ m \in Nat /\ m > 0 BY <1>1
  <2>2. Fits(n) BY <1>1, <1>14
  <2>3. f[m] = MergeStep(f[n], x, pair) BY <1>7, <2>1
  <2>4. g[m] = g[n] \o P[m] BY <1>8, <2>1
  <2>5. g[n] \in Seq(Token) /\ x \in Token BY <1>1, <1>8, <2>1
  <2>6. m \in S <=> m < N /\ <<x, word[m + 1]>> = pair /\ n \notin S BY <1>10, <2>1
  <2>7. P[m] = IF m \in S THEN <<new>> ELSE IF n \in S THEN <<>> ELSE <<x>> BY <1>9, <2>1
  <2>8. \A t \in Token : g[n] \o <<t>> = Append(g[n], t)
    <3> SUFFICES ASSUME NEW t \in Token PROVE g[n] \o <<t>> = Append(g[n], t) OBVIOUS
    <3> QED BY <2>5, AppendIsConcat
  <2>9. CASE n \in S
    <3>1. n \in 1 .. N /\ n < N /\ <<word[n], x>> = pair /\ n - 1 \in 0 .. N
      BY <1>1, <1>10, <2>9
    <3>2. m \notin S BY <2>6, <2>9
    <3>3. f[n] = Append(g[n - 1], word[n]) /\ g[n] = Append(g[n - 1], new) BY <2>2, <2>9
    <3>4. g[n - 1] \in Seq(Token) /\ word[n] \in Token BY <1>1, <1>8, <3>1
    <3>5. f[n] # <<>> /\ Last(f[n]) = word[n] /\ Front(f[n]) = g[n - 1]
      BY <3>3, <3>4, LastOfAppend
    <3>6. word[n] = pair[1] /\ x = pair[2] BY <1>12, <3>1
    <3>7. f[m] = Append(g[n - 1], new) BY <2>3, <3>5, <3>6 DEF MergeStep, new
    <3>8. g[m] = g[n] BY <2>4, <2>5, <2>7, <2>9, <3>2, ConcatEmptySeq
    <3>9. g[n] # <<>> /\ Last(g[n]) = new
      <4>1. Append(g[n - 1], new) # <<>> /\ Last(Append(g[n - 1], new)) = new
        BY <1>2, <3>4, LastOfAppend
      <4> QED BY <3>3, <4>1
    <3> QED BY <2>1, <2>9, <3>2, <3>3, <3>7, <3>8, <3>9
  <2>10. CASE n \notin S
    <3>1. f[n] = g[n] BY <2>2, <2>10
    <3>2. ~(g[n] # <<>> /\ Last(g[n]) = pair[1] /\ x = pair[2])
      <4> SUFFICES ASSUME g[n] # <<>>, Last(g[n]) = pair[1], x = pair[2] PROVE FALSE
        OBVIOUS
      <4>1. n > 0 BY <1>8
      <4>2. Last(g[n]) = IF n - 1 \in S THEN new ELSE word[n] BY <2>2, <2>10, <4>1
      <4>3. n - 1 \notin S /\ word[n] = pair[1] BY <4>2 DEF new
      <4>4. n \in 1 .. N /\ n < N BY <1>1, <2>1, <4>1
      <4>5. <<word[n], word[n + 1]>> = pair BY <1>12, <4>3
      <4> QED BY <1>10, <2>10, <4>3, <4>4, <4>5
    <3>3. f[m] = Append(g[n], x) BY <2>3, <3>1, <3>2 DEF MergeStep
    <3>4. CASE m \in S
      <4>1. g[m] = Append(g[n], new) BY <1>2, <2>4, <2>7, <2>8, <3>4
      <4> QED BY <2>1, <3>3, <3>4, <4>1
    <3>5. CASE m \notin S
      <4>1. g[m] = Append(g[n], x) BY <2>4, <2>5, <2>7, <2>8, <2>10, <3>5
      <4>2. g[m] # <<>> /\ Last(g[m]) = x
        <5>1. Append(g[n], x) # <<>> /\ Last(Append(g[n], x)) = x BY <2>5, LastOfAppend
        <5> QED BY <4>1, <5>1
      <4> QED BY <2>1, <2>10, <3>3, <3>5, <4>1, <4>2
    <3> QED BY <3>4, <3>5
  <2> QED BY <2>9, <2>10
<1> HIDE DEF done
<1>15. N \in done BY <1>1, <1>13, <1>14, SetInduction
<1>16. Fits(N) BY <1>1, <1>15 DEF done
<1>17. N \notin S
  <2>1. CASE N = 0 BY <1>10, <2>1
  <2>2. CASE N # 0 BY <1>1, <1>10, <2>2
  <2> QED BY <2>1, <2>2
<1>18. f[N] = g[N] BY <1>16, <1>17
<1> QED BY <1>7, <1>8, <1>11, <1>18

\* A pair that the word has not is not merged.
LEMMA AbsentPair ==
    ASSUME NEW word \in Seq(Token), NEW pair \in Token \X Token, pair \notin Neighbours(word)
    PROVE  AllMerged(word, pair) = word
<1> DEFINE N == Len(word)
<1>1. N \in Nat /\ \A i \in 1 .. N : word[i] \in Token BY LenProperties, ElementOfSeq
<1>2. PICK S : StartsOf(S, word, pair)
               /\ AllMerged(word, pair) = FlattenSeq(Pieces(word, pair, S))
  BY StartsExist
<1>3. S = {}
  <2> SUFFICES ASSUME NEW i \in S PROVE FALSE OBVIOUS
  <2>1. i \in 1 .. N /\ i < N /\ <<word[i], word[i + 1]>> = pair BY <1>2 DEF StartsOf
  <2>2. i \in 1 .. N - 1 BY <1>1, <2>1
  <2> QED BY <2>1, <2>2 DEF Neighbours
<1> DEFINE P == Pieces(word, pair, S)
<1>4. P \in Seq(Seq(Token)) /\ Len(P) = N BY PiecesAreWords
<1>5. PICK g : Flattens(g, P, Token)
  <2> HIDE DEF P
  <2> QED BY <1>4, SeqsFlatten
<1>6. /\ g[0] = <<>> /\ g \in [0 .. N -> Seq(Token)]
      /\ \A i \in 1 .. N : g[i] = g[i - 1] \o P[i]
      /\ FlattenSeq(P) = g[N]
  BY <1>4, <1>5 DEF Flattens
<1>7. \A i \in 1 .. N : P[i] = <<word[i]>> BY <1>3 DEF Pieces
<1>8. AllMerged(word, pair) = FlattenSeq(P) BY <1>2
<1> HIDE DEF P
<1> DEFINE Same(i) == Len(g[i]) = i /\ \A k \in 1 .. i : g[i][k] = word[k]
           done == {n \in Nat : n <= N => Same(n)}
<1>9. 0 \in done BY <1>6, EmptySeq
<1>10. ASSUME NEW n \in Nat, n \in done PROVE n + 1 \in done
  <2> SUFFICES ASSUME n + 1 <= N PROVE Same(n + 1) OBVIOUS
  <2>1. n + 1 \in 1 .. N /\ (n + 1) - 1 = n /\ n \in 0 .. N BY <1>1
  <2>2. Same(n) BY <1>1, <1>10
  <2>3. g[n + 1] = g[n] \o <<word[n + 1]>> BY <1>6, <1>7, <2>1
  <2>4. g[n] \in Seq(Token) /\ word[n + 1] \in Token BY <1>1, <1>6, <2>1
  <2>5. g[n + 1] = Append(g[n], word[n + 1]) BY <2>3, <2>4, AppendIsConcat
  <2>6. /\ Len(g[n + 1]) = n + 1
        /\ \A k \in 1 .. n : g[n + 1][k] = g[n][k]
        /\ g[n + 1][n + 1] = word[n + 1]
    BY <2>2, <2>4, <2>5, AppendProperties
  <2>7. ASSUME NEW k \in 1 .. n + 1 PROVE g[n + 1][k] = word[k]
    <3>1. k = n + 1 \/ k \in 1 .. n OBVIOUS
    <3> QED BY <2>2, <2>6, <3>1
  <2> QED BY <2>6, <2>7
<1> HIDE DEF done
<1>11. N \in done BY <1>1, <1>9, <1>10, SetInduction
<1>12. Same(N) BY <1>1, <1>11 DEF done
<1>13. g[N] \in Seq(Token) BY <1>1, <1>6
<1>14. g[N] = word
  <2>1. Len(g[N]) = Len(word) /\ \A k \in 1 .. Len(g[N]) : g[N][k] = word[k] BY <1>12
  <2> HIDE DEF N, Same
  <2> QED BY <1>13, <2>1, SeqEqual
<1> QED BY <1>6, <1>8, <1>14

-----------------------------------------------------------------------------
(* The merges by rank, and the best pair first.                              *)

MergesTyped(merges) == merges \in Seq(Token \X Token)

(* f is the word of e after each of the merges in their order.               *)
Ranking(f, e, merges) ==
    /\ f \in [0 .. Len(merges) -> Seq(Token)] /\ f[0] = Symbols(e)
    /\ \A r \in 1 .. Len(merges) : f[r] = AllMerged(f[r - 1], merges[r])
    /\ ByRank(e, merges) = f[Len(merges)]

LEMMA AllMergedIsWord ==
    ASSUME NEW word \in Seq(Token), NEW pair \in Token \X Token
    PROVE  AllMerged(word, pair) \in Seq(Token)
<1>1. PICK S : AllMerged(word, pair) = FlattenSeq(Pieces(word, pair, S)) BY StartsExist
<1>2. Pieces(word, pair, S) \in Seq(Seq(Token)) BY PiecesAreWords
<1> QED BY <1>1, <1>2, FlatIsSeq

\* The merges in their order can be followed one by one.
LEMMA RankingExists ==
    ASSUME NEW merges, MergesTyped(merges), NEW e, Symbols(e) \in Seq(Token)
    PROVE  \E f : Ranking(f, e, merges)
<1> DEFINE X == Seq(Token)
           step == [n \in Nat |-> [x \in X |->
                      IF n \in 1 .. Len(merges) THEN AllMerged(x, merges[n]) ELSE x]]
           IsLoop(f) == f = [r \in 0 .. Len(merges) |->
                               IF r = 0 THEN Symbols(e)
                               ELSE AllMerged(f[r - 1], merges[r])]
           loop == CHOOSE f : IsLoop(f)
<1>1. Len(merges) \in Nat BY LenProperties DEF MergesTyped
<1>2. \A r \in 1 .. Len(merges) : merges[r] \in Token \X Token
  BY ElementOfSeq DEF MergesTyped
<1>3. step \in [Nat -> [X -> X]]
  <2>1. ASSUME NEW n \in Nat, NEW x \in X
        PROVE  (IF n \in 1 .. Len(merges) THEN AllMerged(x, merges[n]) ELSE x) \in X
    BY <1>2, AllMergedIsWord
  <2> QED BY <2>1
<1>4. PICK g : Iterates(g, Len(merges), X, Symbols(e), step)
  <2> HIDE DEF X, step
  <2>1. Symbols(e) \in X BY DEF X
  <2> QED BY <1>1, <1>3, <2>1, Recursion
<1>5. /\ g \in [0 .. Len(merges) -> X] /\ g[0] = Symbols(e)
      /\ \A n \in 1 .. Len(merges) : g[n] = step[n][g[n - 1]]
  BY <1>4 DEF Iterates
<1>6. ASSUME NEW r \in 1 .. Len(merges) PROVE g[r] = AllMerged(g[r - 1], merges[r])
  <2>1. r \in Nat /\ r - 1 \in 0 .. Len(merges) BY <1>1
  <2>2. g[r - 1] \in X BY <1>5, <2>1
  <2>3. step[r][g[r - 1]] =
          IF r \in 1 .. Len(merges) THEN AllMerged(g[r - 1], merges[r]) ELSE g[r - 1]
    BY <2>1, <2>2
  <2> QED BY <1>5, <2>3
<1>7. IsLoop(g)
  <2>1. g = [r \in 0 .. Len(merges) |-> g[r]] BY <1>5
  <2>2. \A r \in 0 .. Len(merges) : r = 0 \/ r \in 1 .. Len(merges) BY <1>1
  <2>3. ASSUME NEW r \in 0 .. Len(merges)
        PROVE  g[r] = IF r = 0 THEN Symbols(e) ELSE AllMerged(g[r - 1], merges[r])
    BY <1>5, <1>6, <2>2
  <2> QED BY <2>1, <2>3
<1>8. IsLoop(loop)
  <2> HIDE DEF IsLoop
  <2> QED BY <1>7
<1>9. ByRank(e, merges) = loop[Len(merges)] BY DEF ByRank
<1> HIDE DEF loop, step
<1>10. loop = [r \in 0 .. Len(merges) |-> loop[r]] BY <1>8
<1>11. /\ loop[0] = Symbols(e)
       /\ \A r \in 1 .. Len(merges) : loop[r] = AllMerged(loop[r - 1], merges[r])
  <2>1. 0 \in 0 .. Len(merges) /\ \A r \in 1 .. Len(merges) : r \in 0 .. Len(merges) /\ r # 0 BY <1>1
  <2> QED BY <1>8, <2>1
<1> HIDE DEF IsLoop
<1>12. ASSUME NEW r \in 1 .. Len(merges), loop[r - 1] \in X PROVE loop[r] \in X
  BY <1>2, <1>11, <1>12, AllMergedIsWord
<1>13. loop \in [0 .. Len(merges) -> X]
  <2>1. loop[0] \in X BY <1>11
  <2>2. \A r \in 1 .. Len(merges) : loop[r - 1] \in X => loop[r] \in X BY <1>12
  <2> HIDE DEF X
  <2> QED BY <1>1, <1>10, <2>1, <2>2, StaysIn
<1> QED BY <1>9, <1>11, <1>13 DEF Ranking

\* Ranks, for a list of merges.
RanksOf(word, merges) ==
    {r \in 1 .. Len(merges) :
        /\ \E i \in 1 .. Len(word) - 1 : merges[r] = <<word[i], word[i + 1]>>
        /\ \A q \in r + 1 .. Len(merges) : merges[q] # merges[r]}

LEMMA RanksAre ==
    ASSUME NEW word, NEW merges
    PROVE  /\ RanksOf(word, merges) \subseteq 1 .. Len(merges)
           /\ \A r \in 1 .. Len(merges) :
                 r \in RanksOf(word, merges) <=>
                    /\ merges[r] \in Neighbours(word)
                    /\ \A q \in r + 1 .. Len(merges) : merges[q] # merges[r]
BY DEF RanksOf, Neighbours

(* The word is that of e after the first k merges, and what it has pairs for *)
(* comes later.                                                              *)
UnderWay(word, e, merges) ==
    \E f : Ranking(f, e, merges) /\ \E k \in 0 .. Len(merges) : word = f[k] /\ \A r \in RanksOf(word, merges) : k < r

\* Merges that the word has no pair for leave it as it is.
LEMMA Skipped ==
    ASSUME NEW merges, MergesTyped(merges), InOrder(merges), NEW e, NEW f, Ranking(f, e, merges),
           NEW k \in 0 .. Len(merges), NEW l \in k .. Len(merges),
           \A r \in k + 1 .. l : r \notin RanksOf(f[k], merges)
    PROVE  f[l] = f[k]
<1>1. Len(merges) \in Nat BY LenProperties DEF MergesTyped
<1>2. \A r \in 1 .. Len(merges) : merges[r] \in Token \X Token
  BY ElementOfSeq DEF MergesTyped
<1>3. /\ f \in [0 .. Len(merges) -> Seq(Token)]
      /\ \A r \in 1 .. Len(merges) : f[r] = AllMerged(f[r - 1], merges[r])
  BY DEF Ranking
<1> DEFINE same == {n \in Nat : k + n <= l => f[k + n] = f[k]}
<1>4. 0 \in same
  <2>1. k + 0 = k BY <1>1
  <2> QED BY <2>1
<1>5. ASSUME NEW n \in Nat, n \in same PROVE n + 1 \in same
  <2> SUFFICES ASSUME k + (n + 1) <= l PROVE f[k + (n + 1)] = f[k] OBVIOUS
  <2> DEFINE r == k + (n + 1)
  <2>1. r \in 1 .. Len(merges) /\ r - 1 = k + n /\ k + n <= l /\ r \in k + 1 .. l BY <1>1
  <2>2. f[r - 1] = f[k] BY <1>5, <2>1
  <2>3. f[r] = AllMerged(f[k], merges[r]) BY <1>3, <2>1, <2>2
  <2>4. r \notin RanksOf(f[k], merges) BY <2>1
  <2>5. \A q \in r + 1 .. Len(merges) : merges[q] # merges[r]
    <3> SUFFICES ASSUME NEW q \in r + 1 .. Len(merges), merges[q] = merges[r] PROVE FALSE
      OBVIOUS
    <3>1. q \in 1 .. Len(merges) /\ q # r BY <1>1, <2>1
    <3> QED BY <2>1, <3>1 DEF InOrder
  <2>6. merges[r] \notin Neighbours(f[k]) BY <2>1, <2>4, <2>5, RanksAre
  <2>7. f[k] \in Seq(Token) BY <1>3
  <2>8. merges[r] \in Token \X Token BY <1>2, <2>1
  <2> HIDE DEF r
  <2>9. AllMerged(f[k], merges[r]) = f[k] BY <2>6, <2>7, <2>8, AbsentPair
  <2> QED BY <2>3, <2>9 DEF r
<1> HIDE DEF same
<1>6. l - k \in Nat /\ k + (l - k) = l BY <1>1
<1>7. l - k \in same BY <1>4, <1>5, <1>6, SetInduction
<1>8. k + (l - k) <= l => f[k + (l - k)] = f[k] BY <1>7 DEF same
<1> QED BY <1>1, <1>6, <1>8

\* Merging the best pair is the next of the merges that do something.
LEMMA BestIsNext ==
    ASSUME NEW merges, MergesTyped(merges), InOrder(merges), NEW e, NEW word, UnderWay(word, e, merges),
           NEW b \in RanksOf(word, merges), \A q \in RanksOf(word, merges) : b <= q
    PROVE  UnderWay(MergeAll(word, merges[b]), e, merges)
<1>1. Len(merges) \in Nat BY LenProperties DEF MergesTyped
<1>2. PICK f : Ranking(f, e, merges)
        /\ \E k \in 0 .. Len(merges) : word = f[k] /\ \A r \in RanksOf(word, merges) : k < r
  BY DEF UnderWay
<1>3. PICK k \in 0 .. Len(merges) : word = f[k] /\ \A r \in RanksOf(word, merges) : k < r BY <1>2
<1>4. RanksOf(word, merges) \subseteq 1 .. Len(merges) BY RanksAre
<1>6. b \in RanksOf(word, merges) /\ \A q \in RanksOf(word, merges) : b <= q OBVIOUS
<1>7. b \in 1 .. Len(merges) /\ k < b /\ b - 1 \in k .. Len(merges) BY <1>1, <1>3, <1>4, <1>6
<1>8. f[b - 1] = word
  <2>1. \A r \in k + 1 .. b - 1 : r \notin RanksOf(f[k], merges) BY <1>1, <1>3, <1>6, <1>7
  <2> QED BY <1>2, <1>3, <1>7, <2>1, Skipped
<1>9. /\ f \in [0 .. Len(merges) -> Seq(Token)]
      /\ \A r \in 1 .. Len(merges) : f[r] = AllMerged(f[r - 1], merges[r])
  BY <1>2 DEF Ranking
<1>10. PICK pair \in Token \X Token : pair = merges[b]
  BY <1>7, ElementOfSeq DEF MergesTyped
<1>11. word \in Seq(Token) BY <1>3, <1>9
<1>12. \A q \in 1 .. Len(merges) : pair[1] \o pair[2] \in {merges[q][1], merges[q][2]} => b < q
  BY <1>7, <1>10 DEF InOrder
<1>13. pair[1] \o pair[2] # pair[1]
  <2> SUFFICES ASSUME pair[1] \o pair[2] = pair[1] PROVE FALSE OBVIOUS
  <2>1. pair[1] \o pair[2] \in {merges[b][1], merges[b][2]} BY <1>10
  <2>2. b < b BY <1>7, <1>12, <2>1
  <2> QED BY <1>1, <1>7, <2>2
<1>14. PICK next : next = MergeAll(word, pair) OBVIOUS
<1>15. f[b] = next BY <1>7, <1>8, <1>9, <1>10, <1>11, <1>13, <1>14, MergeAllIsAllMerged
<1>16. MergedUpTo(next, Len(word), word, pair) BY <1>11, <1>14, MergeAllMerges
<1>17. ASSUME NEW r \in RanksOf(next, merges) PROVE b < r
  <2>1. /\ r \in 1 .. Len(merges) /\ merges[r] \in Neighbours(next)
        /\ \A q \in r + 1 .. Len(merges) : merges[q] # merges[r]
    BY RanksAre
  <2>2. CASE merges[r] \in Neighbours(word) /\ merges[r] # pair
    <3>1. r \in RanksOf(word, merges) BY <2>1, <2>2, RanksAre
    <3>2. r # b BY <1>10, <2>2
    <3> QED BY <1>1, <1>6, <1>7, <2>1, <3>1, <3>2
  <2>3. CASE pair[1] \o pair[2] \in {merges[r][1], merges[r][2]}
    BY <1>12, <2>1, <2>3
  <2> QED BY <1>16, <2>1, <2>2, <2>3 DEF MergedUpTo
<1>18. b \in 0 .. Len(merges) BY <1>7
<1>19. UnderWay(next, e, merges) BY <1>2, <1>15, <1>17, <1>18 DEF UnderWay
<1> QED BY <1>10, <1>14, <1>19

\* A word with no pair left is what all the merges make of its symbols.
LEMMA NothingLeft ==
    ASSUME NEW merges, MergesTyped(merges), InOrder(merges), NEW e, NEW word, UnderWay(word, e, merges),
           RanksOf(word, merges) = {}
    PROVE  word = ByRank(e, merges)
<1>1. Len(merges) \in Nat BY LenProperties DEF MergesTyped
<1>2. PICK f : Ranking(f, e, merges)
        /\ \E k \in 0 .. Len(merges) : word = f[k] /\ \A r \in RanksOf(word, merges) : k < r
  BY DEF UnderWay
<1>3. PICK k \in 0 .. Len(merges) : word = f[k] BY <1>2
<1>4. Len(merges) \in k .. Len(merges) BY <1>1
<1>5. \A r \in k + 1 .. Len(merges) : r \notin RanksOf(f[k], merges) BY <1>3
<1>6. f[Len(merges)] = f[k] BY <1>2, <1>3, <1>4, <1>5, Skipped
<1> QED BY <1>2, <1>3, <1>6 DEF Ranking

\* A word begins as its symbols, before the first merge.
LEMMA SymbolsUnderWay ==
    ASSUME NEW merges, MergesTyped(merges), NEW e, Symbols(e) \in Seq(Token)
    PROVE  UnderWay(Symbols(e), e, merges)
<1>1. Len(merges) \in Nat BY LenProperties DEF MergesTyped
<1>2. PICK f : Ranking(f, e, merges) BY RankingExists
<1>3. 0 \in 0 .. Len(merges) /\ f[0] = Symbols(e) BY <1>1, <1>2 DEF Ranking
<1>4. \A r \in RanksOf(Symbols(e), merges) : 0 < r BY <1>1, RanksAre
<1> QED BY <1>2, <1>3, <1>4 DEF UnderWay

LEMMA SymbolsAreTokens ==
    ASSUME NEW e \in Seq(Symbol)
    PROVE  Symbols(e) \in Seq(Token) /\ Len(Symbols(e)) = Len(e)
<1> DEFINE N == Len(e)
<1>1. N \in Nat /\ \A i \in 1 .. N : e[i] \in Symbol BY LenProperties, ElementOfSeq
<1>2. "</w>" \in Symbol BY DEF Symbol
<1>3. ASSUME NEW i \in 1 .. N PROVE <<e[i], "</w>">> \in Token /\ <<e[i]>> \in Token
  BY <1>1, <1>2 DEF Token
<1>4. Symbols(e) = [i \in 1 .. N |-> IF i = N THEN <<e[i], "</w>">> ELSE <<e[i]>>]
  BY DEF Symbols
<1>5. Symbols(e) \in [1 .. N -> Token] BY <1>3, <1>4
<1> HIDE DEF N
<1> QED BY <1>1, <1>5, VectorIsSequence DEF N

LEMMA ByRankIsWord ==
    ASSUME NEW merges, MergesTyped(merges), NEW e \in Seq(Symbol)
    PROVE  ByRank(e, merges) \in Seq(Token)
<1>1. Len(merges) \in Nat BY LenProperties DEF MergesTyped
<1>2. PICK f : Ranking(f, e, merges) BY SymbolsAreTokens, RankingExists
<1> QED BY <1>1, <1>2 DEF Ranking

-----------------------------------------------------------------------------
(* Splitting.                                                                *)

\* Characters are of one kind.
LEMMA KindsDiffer ==
    ASSUME NEW c
    PROVE  /\ c \in Letter <=> KindOf(c) = "letter"
           /\ c \in Digit <=> KindOf(c) = "digit"
           /\ c \in Space <=> KindOf(c) = "space"
           /\ c \notin Letter \cup Digit \cup Space <=> KindOf(c) = "other"
<1>1. Letter \cap Digit = {} /\ (Letter \cup Digit) \cap Space = {} BY CharsAssumption
<1>2. CASE c \in Letter BY <1>1, <1>2 DEF KindOf
<1>3. CASE c \in Digit BY <1>1, <1>3 DEF KindOf
<1>4. CASE c \in Space BY <1>1, <1>4 DEF KindOf
<1>5. CASE c \notin Letter \cup Digit \cup Space BY <1>5 DEF KindOf
<1> QED BY <1>2, <1>3, <1>4, <1>5

(* w is the n characters of the text from i on, no space among them.         *)
CutOut(w, n, text, i) ==
    /\ n \in Nat \ {0} /\ i + n - 1 <= Len(text)
    /\ w = SubSeq(text, i, i + n - 1)
    /\ \A k \in i .. i + n - 1 : text[k] \notin Space

\* Special tokens and contractions have no spaces.
LEMMA FixedWords ==
    ASSUME NEW w \in Fixed
    PROVE  Len(w) \in Nat \ {0} /\ \A i \in 1 .. Len(w) : w[i] \notin Space
<1>1. CASE w \in Specials
  <2> DEFINE Str == STRING
  <2>1. w \in Seq(Str) /\ w # <<>> /\ \A i \in 1 .. Len(w) : w[i] \notin Space
    BY <1>1, CharsAssumption
  <2> HIDE DEF Str
  <2> QED BY <2>1, EmptySeq
<1>2. CASE w \in Contractions
  <2>1. \A c \in {"'", "s", "t", "m", "d", "r", "e", "v", "l"} : c \notin Space
    BY CharsAssumption
  <2>2. \/ \E c \in {"s", "t", "m", "d"} : w = <<"'", c>>
        \/ \E c, d \in {"r", "e", "v", "l"} : w = <<"'", c, d>>
    BY <1>2 DEF Contractions
  <2>3. ASSUME NEW c \in {"s", "t", "m", "d"}, w = <<"'", c>>
        PROVE  Len(w) \in Nat \ {0} /\ \A i \in 1 .. Len(w) : w[i] \notin Space
    <3>1. Len(w) = 2 /\ w[1] = "'" /\ w[2] = c BY <2>3
    <3>2. \A i \in 1 .. Len(w) : i = 1 \/ i = 2 BY <3>1
    <3>3. w[1] \notin Space /\ w[2] \notin Space BY <2>1, <3>1
    <3> QED BY <3>1, <3>2, <3>3
  <2>4. ASSUME NEW c \in {"r", "e", "v", "l"}, NEW d \in {"r", "e", "v", "l"},
               w = <<"'", c, d>>
        PROVE  Len(w) \in Nat \ {0} /\ \A i \in 1 .. Len(w) : w[i] \notin Space
    <3>1. Len(w) = 3 /\ w[1] = "'" /\ w[2] = c /\ w[3] = d BY <2>4
    <3>2. \A i \in 1 .. Len(w) : i = 1 \/ i = 2 \/ i = 3 BY <3>1
    <3>3. w[1] \notin Space /\ w[2] \notin Space /\ w[3] \notin Space BY <2>1, <3>1
    <3> QED BY <3>1, <3>2, <3>3
  <2> QED BY <2>2, <2>3, <2>4
<1> QED BY <1>1, <1>2 DEF Fixed

\* They are cut out of the text where they start.
LEMMA FixedCut ==
    ASSUME NEW text \in Seq(Char), NEW i \in 1 .. Len(text), NEW S, S \subseteq Fixed,
           NEW w \in Starting(S, text, i)
    PROVE  w \in Fixed /\ \E n : CutOut(w, n, text, i)
<1>1. w \in Fixed /\ i + Len(w) - 1 <= Len(text) /\ SubSeq(text, i, i + Len(w) - 1) = w
  BY DEF Starting
<1>2. Len(w) \in Nat \ {0} /\ \A k \in 1 .. Len(w) : w[k] \notin Space
  BY <1>1, FixedWords
<1>3. PICK n \in Nat \ {0} : n = Len(w) BY <1>2
<1>4. Len(text) \in Nat /\ \A k \in 1 .. Len(text) : text[k] \in Char
  BY LenProperties, ElementOfSeq
<1>5. ASSUME NEW k \in i .. i + n - 1 PROVE text[k] \notin Space
  <2>1. \A j \in i .. i + n - 1 : text[j] \in Char BY <1>1, <1>3, <1>4
  <2>2. i \in Int /\ i + n - 1 \in Int BY <1>3
  <2>3. \A j \in 1 .. (i + n - 1) - i + 1 : SubSeq(text, i, i + n - 1)[j] = text[i + j - 1]
    BY <2>1, <2>2, SubSeqProperties
  <2> DEFINE j == k - i + 1
  <2>4. j \in 1 .. (i + n - 1) - i + 1 /\ i + j - 1 = k /\ j \in 1 .. n BY <1>3
  <2>5. w[j] = text[k] BY <1>1, <1>3, <2>3, <2>4
  <2> QED BY <1>2, <1>3, <2>4, <2>5
<1>6. CutOut(w, n, text, i) BY <1>1, <1>3, <1>5 DEF CutOut
<1> QED BY <1>1, <1>6

\* A run ends where the text ends, or before a character that is not in S.
LEMMA RunCut ==
    ASSUME NEW text \in Seq(Char), NEW i \in 1 .. Len(text), NEW S, text[i] \in S
    PROVE  \E n \in Nat \ {0} :
              /\ i + n - 1 <= Len(text)
              /\ Run(text, i, S) = SubSeq(text, i, i + n - 1)
              /\ \A k \in i .. i + n - 1 : text[k] \in S
              /\ i + n <= Len(text) => text[i + n] \notin S
<1>1. Len(text) \in Nat BY LenProperties
<1> DEFINE L == Len(text)
           T == {j \in i .. L + 1 : j = L + 1 \/ text[j] \notin S}
           ends == {j \in i .. L : \A k \in i .. j : text[k] \in S}
<1>2. L + 1 \in T /\ T \subseteq Nat BY <1>1
<1>3. PICK m \in T : \A j \in T : m <= j
  <2> HIDE DEF T
  <2> QED BY <1>2, LeastExists
<1>4. m \in i .. L + 1 /\ (m = L + 1 \/ text[m] \notin S) /\ m # i BY <1>1, <1>3
<1>5. ASSUME NEW j \in i .. m - 1 PROVE text[j] \in S
  <2>1. j \in i .. L + 1 /\ j # L + 1 /\ ~(m <= j) BY <1>1, <1>4
  <2> QED BY <1>3, <2>1
<1>6. ends = i .. m - 1
  <2>1. ASSUME NEW j \in ends PROVE j \in i .. m - 1
    <3>1. j \in i .. L /\ \A k \in i .. j : text[k] \in S OBVIOUS
    <3>2. ~(m <= j)
      <4> SUFFICES ASSUME m <= j PROVE FALSE OBVIOUS
      <4>1. m \in i .. j /\ m # L + 1 BY <1>1, <1>4, <3>1
      <4> QED BY <1>4, <3>1, <4>1
    <3> QED BY <1>1, <1>4, <3>1, <3>2
  <2>2. ASSUME NEW j \in i .. m - 1 PROVE j \in ends
    <3>1. j \in i .. L BY <1>1, <1>4
    <3>2. \A k \in i .. j : k \in i .. m - 1 BY <1>1, <1>4
    <3> QED BY <1>5, <3>1, <3>2
  <2> QED BY <2>1, <2>2
<1>7. Cardinality(ends) = m - i
  <2>1. Cardinality(i .. m - 1) = IF i > m - 1 THEN 0 ELSE (m - 1) - i + 1
    <3>1. i \in Int /\ m - 1 \in Int BY <1>1, <1>4
    <3> QED BY <3>1, FS_Interval
  <2>2. ~(i > m - 1) /\ (m - 1) - i + 1 = m - i BY <1>1, <1>4
  <2> QED BY <1>6, <2>1, <2>2
<1>8. Run(text, i, S) = SubSeq(text, i, i + (m - i) - 1) BY <1>7 DEF Run
<1>9. /\ m - i \in Nat \ {0} /\ i + (m - i) - 1 <= Len(text)
      /\ i + (m - i) - 1 = m - 1 /\ i + (m - i) = m
  BY <1>1, <1>4
<1>10. i + (m - i) <= Len(text) => text[i + (m - i)] \notin S BY <1>1, <1>4, <1>9
<1>11. \A k \in i .. i + (m - i) - 1 : text[k] \in S BY <1>5, <1>9
<1> HIDE DEF T, ends
<1>12. PICK n \in Nat \ {0} : n = m - i BY <1>9
<1> QED BY <1>8, <1>9, <1>10, <1>11, <1>12

\* What is cut out, character by character.
LEMMA CutIsWord ==
    ASSUME NEW text \in Seq(Char), NEW i \in 1 .. Len(text), NEW w, NEW n,
           CutOut(w, n, text, i)
    PROVE  /\ w \in Seq(Char) /\ Len(w) = n /\ w # <<>>
           /\ \A j \in 1 .. n : w[j] = text[i + j - 1] /\ i + j - 1 \in i .. i + n - 1
<1>1. n \in Nat \ {0} /\ i + n - 1 <= Len(text) /\ w = SubSeq(text, i, i + n - 1)
  BY DEF CutOut
<1>2. Len(text) \in Nat /\ \A k \in 1 .. Len(text) : text[k] \in Char
  BY LenProperties, ElementOfSeq
<1>3. \A k \in i .. i + n - 1 : text[k] \in Char BY <1>1, <1>2
<1>4. i \in Int /\ i + n - 1 \in Int BY <1>1
<1>5. /\ w \in Seq(Char)
      /\ Len(w) = IF i <= i + n - 1 THEN (i + n - 1) - i + 1 ELSE 0
      /\ \A j \in 1 .. (i + n - 1) - i + 1 : w[j] = text[i + j - 1]
  BY <1>1, <1>3, <1>4, SubSeqProperties
<1>6. (i + n - 1) - i + 1 = n /\ i <= i + n - 1 BY <1>1
<1>7. Len(w) = n BY <1>5, <1>6
<1>8. w # <<>> BY <1>1, <1>7, EmptySeq
<1>9. ASSUME NEW j \in 1 .. n PROVE w[j] = text[i + j - 1] /\ i + j - 1 \in i .. i + n - 1
  BY <1>1, <1>5, <1>6
<1> QED BY <1>5, <1>7, <1>8, <1>9

\* What is split off is cut out of the text, and follows the pattern.
LEMMA PieceCut ==
    ASSUME NEW text \in Seq(Char), NEW i \in 1 .. Len(text), text[i] \notin Space
    PROVE  \E n : /\ CutOut(Piece(text, i), n, text, i)
                  /\ Shaped(Piece(text, i)) /\ EndsWell(Piece(text, i), text, i + n)
<1> DEFINE special == Starting(Specials, text, i)
           contraction == Starting(Contractions, text, i)
<1>1. PICK w : w = Piece(text, i) OBVIOUS
<1>2. CASE w \in Fixed /\ \E n : CutOut(w, n, text, i)
  <2>1. PICK n : CutOut(w, n, text, i) BY <1>2
  <2>2. Shaped(w) BY <1>2 DEF Shaped
  <2>3. EndsWell(w, text, i + n) BY <1>2 DEF EndsWell
  <2> QED BY <1>1, <2>1, <2>2, <2>3
<1>3. CASE special # {}
  <2>1. w \in special BY <1>1, <1>3 DEF Piece
  <2> QED BY <1>2, <2>1, FixedCut DEF Fixed
<1>4. CASE special = {} /\ contraction # {}
  <2>1. w \in contraction BY <1>1, <1>4 DEF Piece
  <2> QED BY <1>2, <2>1, FixedCut DEF Fixed
<1>5. CASE special = {} /\ contraction = {}
  <2>1. w = IF text[i] \in Letter THEN Run(text, i, Letter)
            ELSE IF text[i] \in Digit THEN <<text[i]>>
            ELSE Run(text, i, Others(text))
    BY <1>1, <1>5 DEF Piece
  <2>2. Len(text) \in Nat /\ \A k \in 1 .. Len(text) : text[k] \in Char
    BY LenProperties, ElementOfSeq
  <2>3. CASE text[i] \in Letter
    <3>1. PICK n \in Nat \ {0} :
            /\ i + n - 1 <= Len(text)
            /\ Run(text, i, Letter) = SubSeq(text, i, i + n - 1)
            /\ \A k \in i .. i + n - 1 : text[k] \in Letter
            /\ i + n <= Len(text) => text[i + n] \notin Letter
      BY <2>3, RunCut
    <3>2. \A c \in Letter : c \notin Space BY CharsAssumption
    <3>3. CutOut(w, n, text, i) BY <2>1, <2>3, <3>1, <3>2 DEF CutOut
    <3>4. /\ w \in Seq(Char) /\ Len(w) = n /\ w # <<>>
          /\ \A j \in 1 .. n : w[j] = text[i + j - 1] /\ i + j - 1 \in i .. i + n - 1
      BY <3>3, CutIsWord
    <3>5. \A j \in 1 .. Len(w) : KindOf(w[j]) = "letter" BY <3>1, <3>4, KindsDiffer
    <3>6. AllOf(w, "letter") BY <3>4, <3>5 DEF AllOf
    <3>7. Last(w) = w[n] /\ KindOf(Last(w)) = "letter" BY <3>1, <3>4, <3>5 DEF Last
    <3>8. i + n <= Len(text) => KindOf(text[i + n]) # "letter" BY <3>1, KindsDiffer
    <3>9. Shaped(w) /\ EndsWell(w, text, i + n)
      <4>1. Shaped(w) BY <3>6 DEF Shaped
      <4>2. EndsWell(w, text, i + n) BY <3>7, <3>8 DEF EndsWell
      <4> QED BY <4>1, <4>2
    <3> QED BY <1>1, <3>3, <3>9
  <2>4. CASE text[i] \notin Letter /\ text[i] \in Digit
    <3>1. w = <<text[i]>> BY <2>1, <2>4
    <3>2. SubSeq(text, i, i) = <<text[i]>>
      <4>1. i \in i .. Len(text) /\ text[i] \in Char BY <2>2
      <4>2. SubSeq(text, i, i) = <<text[i]>> \o SubSeq(text, i + 1, i)
        BY <4>1, SubSeqRecursiveFirst
      <4>3. SubSeq(text, i + 1, i) = <<>> BY SubSeqEmpty
      <4>4. <<text[i]>> \in Seq(Char) BY <4>1
      <4> QED BY <4>2, <4>3, <4>4, ConcatEmptySeq
    <3>3. \A k \in i .. i : text[k] \notin Space
      <4>1. \A k \in i .. i : k = i OBVIOUS
      <4> QED BY <4>1
    <3>4. i + 1 - 1 = i /\ i <= Len(text) BY <2>2
    <3>5. CutOut(w, 1, text, i) BY <3>1, <3>2, <3>3, <3>4 DEF CutOut
    <3>6. Len(w) = 1 /\ w[1] = text[i] /\ w # <<>> BY <3>1
    <3>7. KindOf(w[1]) = "digit" BY <2>4, <3>6, KindsDiffer
    <3>8. AllOf(w, "digit") BY <3>6, <3>7 DEF AllOf
    <3>9. ~AllOf(w, "letter") /\ ~AllOf(w, "other") BY <3>6, <3>7 DEF AllOf
    <3>10. Shaped(w) /\ EndsWell(w, text, i + 1) BY <3>6, <3>8, <3>9 DEF Shaped, EndsWell
    <3> QED BY <1>1, <3>5, <3>10
  <2>5. CASE text[i] \notin Letter /\ text[i] \notin Digit
    <3>0. \A k \in 1 .. Len(text) :
             text[k] \in Others(text) <=> text[k] \notin Letter \cup Digit \cup Space
      <4>1. DOMAIN text = 1 .. Len(text) BY LenProperties
      <4> QED BY <4>1 DEF Others, ToSet
    <3>1. PICK n \in Nat \ {0} :
            /\ i + n - 1 <= Len(text)
            /\ Run(text, i, Others(text)) = SubSeq(text, i, i + n - 1)
            /\ \A k \in i .. i + n - 1 : text[k] \in Others(text)
            /\ i + n <= Len(text) => text[i + n] \notin Others(text)
      BY <2>5, <3>0, RunCut
    <3>2. \A k \in i .. i + n - 1 : text[k] \notin Letter \cup Digit \cup Space
      BY <3>1 DEF Others
    <3>3. CutOut(w, n, text, i) BY <2>1, <2>5, <3>1, <3>2 DEF CutOut
    <3>4. /\ w \in Seq(Char) /\ Len(w) = n /\ w # <<>>
          /\ \A j \in 1 .. n : w[j] = text[i + j - 1] /\ i + j - 1 \in i .. i + n - 1
      BY <3>3, CutIsWord
    <3>5. \A j \in 1 .. Len(w) : KindOf(w[j]) = "other" BY <3>2, <3>4, KindsDiffer
    <3>6. AllOf(w, "other") BY <3>4, <3>5 DEF AllOf
    <3>7. Last(w) = w[n] /\ KindOf(Last(w)) = "other" BY <3>1, <3>4, <3>5 DEF Last
    <3>8. i + n <= Len(text) => KindOf(text[i + n]) # "other"
      <4> SUFFICES ASSUME i + n <= Len(text) PROVE KindOf(text[i + n]) # "other" OBVIOUS
      <4>1. i + n \in 1 .. Len(text) BY <2>2, <3>1
      <4> QED BY <3>0, <3>1, <4>1, KindsDiffer
    <3>9. Shaped(w) /\ EndsWell(w, text, i + n)
      <4>1. Shaped(w) BY <3>6 DEF Shaped
      <4>2. EndsWell(w, text, i + n) BY <3>7, <3>8 DEF EndsWell
      <4> QED BY <4>1, <4>2
    <3> QED BY <1>1, <3>3, <3>9
  <2> QED BY <2>3, <2>4, <2>5
<1> QED BY <1>3, <1>4, <1>5

LEMMA PiecesJoin ==
    ASSUME NEW a \in Seq(Char), NEW b \in Seq(Char), NEW c \in Seq(Char)
    PROVE  (a \o b) \o c = a \o (b \o c)
BY ConcatAssociative

(* The characters that are no spaces, up to the kth of a piece w at i.       *)
CutSoFar(text, i, w, k) ==
    Filtered(SubSeq(text, 1, i + k - 1), Char \ Space)
      = Filtered(SubSeq(text, 1, i - 1), Char \ Space) \o SubSeq(w, 1, k)

\* A piece cut out adds its characters to those that are no spaces.
LEMMA FilteredCut ==
    ASSUME NEW text \in Seq(Char), NEW i \in 1 .. Len(text), NEW w, NEW n,
           CutOut(w, n, text, i)
    PROVE  Filtered(SubSeq(text, 1, i + n - 1), Char \ Space)
             = Filtered(SubSeq(text, 1, i - 1), Char \ Space) \o w
<1> DEFINE K == Char \ Space
           before == Filtered(SubSeq(text, 1, i - 1), K)
<1>1. /\ Len(text) \in Nat /\ \A k \in 1 .. Len(text) : text[k] \in Char
  BY LenProperties, ElementOfSeq
<1>2. /\ n \in Nat \ {0} /\ i + n - 1 <= Len(text)
      /\ \A k \in i .. i + n - 1 : text[k] \notin Space
  BY DEF CutOut
<1>3. /\ w \in Seq(Char) /\ Len(w) = n
      /\ \A j \in 1 .. n : w[j] = text[i + j - 1] /\ i + j - 1 \in i .. i + n - 1
  BY CutIsWord
<1>4. ASSUME NEW m \in 0 .. Len(text) PROVE SubSeq(text, 1, m) \in Seq(Char)
  <2>1. \A k \in 1 .. m : text[k] \in Char BY <1>1
  <2> QED BY <2>1, SubSeqProperties
<1>5. before \in Seq(Char)
  <2>1. i - 1 \in 0 .. Len(text) BY <1>1
  <2>2. SubSeq(text, 1, i - 1) \in Seq(Char) BY <1>4, <2>1
  <2> QED BY <2>2, FilteredIsSeq
<1>6. ASSUME NEW k \in 0 .. n PROVE SubSeq(w, 1, k) \in Seq(Char)
  <2>1. \A j \in 1 .. k : w[j] \in Char BY <1>2, <1>3, ElementOfSeq
  <2> QED BY <2>1, SubSeqProperties
<1> DEFINE done == {k \in Nat : k <= n => CutSoFar(text, i, w, k)}
<1>7. 0 \in done
  <2>1. i + 0 - 1 = i - 1 OBVIOUS
  <2>2. SubSeq(w, 1, 0) = <<>> BY SubSeqEmpty
  <2>3. before \o <<>> = before BY <1>5, ConcatEmptySeq
  <2>4. CutSoFar(text, i, w, 0) BY <2>1, <2>2, <2>3 DEF CutSoFar
  <2> QED BY <2>4
<1>8. ASSUME NEW k \in Nat, k \in done PROVE k + 1 \in done
  <2> SUFFICES ASSUME k + 1 <= n PROVE CutSoFar(text, i, w, k + 1) OBVIOUS
  <2> DEFINE m == i + k
             head == SubSeq(text, 1, m - 1)
             part == SubSeq(w, 1, k)
  <2>1. /\ m \in 1 .. Len(text) /\ m - 1 \in 0 .. Len(text) /\ i + (k + 1) - 1 = m
        /\ i + k - 1 = m - 1 /\ m \in i .. i + n - 1
        /\ k + 1 \in 1 .. n /\ k \in 0 .. n
    BY <1>1, <1>2
  <2>2. Filtered(head, K) = before \o part
    <3>1. CutSoFar(text, i, w, k) BY <1>2, <1>8, <2>1
    <3> QED BY <2>1, <3>1 DEF CutSoFar
  <2>3. head \in Seq(Char) /\ part \in Seq(Char) BY <1>4, <1>6, <2>1
  <2>4. text[m] \in Char /\ text[m] \in K BY <1>1, <1>2, <2>1
  <2>5. w[k + 1] = text[m]
    <3>1. w[k + 1] = text[i + (k + 1) - 1] BY <1>3, <2>1
    <3> QED BY <2>1, <3>1
  <2>6. SubSeq(text, 1, m) = head \o <<text[m]>>
    <3>1. 1 \in 1 .. Len(text) /\ m \in 1 .. Len(text) BY <2>1
    <3> QED BY <3>1, SubSeqRecursiveSecond
  <2>7. SubSeq(w, 1, k + 1) = part \o <<w[k + 1]>>
    <3>1. 1 \in 1 .. Len(w) /\ k + 1 \in 1 .. Len(w) /\ (k + 1) - 1 = k BY <1>2, <1>3, <2>1
    <3> QED BY <1>3, <3>1, SubSeqRecursiveSecond
  <2> HIDE DEF head, part, m, before, K
  <2>x. PICK x \in Char : x = text[m] /\ x \in K BY <2>4
  <2>8. SubSeq(text, 1, m) = Append(head, x) BY <2>3, <2>6, <2>x, AppendIsConcat
  <2>9. Filtered(SubSeq(text, 1, m), K) = Append(Filtered(head, K), x)
    <3>1. Filtered(Append(head, x), K) = Append(Filtered(head, K), x)
      BY <2>3, <2>x, FilteredAppend
    <3> QED BY <2>8, <3>1
  <2>10. PICK one \in Seq(Char) : one = <<x>>
    <3>1. <<x>> \in Seq(Char) OBVIOUS
    <3> QED BY <3>1
  <2>11. before \o part \in Seq(Char) BY <1>5, <2>3, ConcatProperties
  <2>12. Append(before \o part, x) = (before \o part) \o one
    BY <2>10, <2>11, AppendIsConcat
  <2>13. (before \o part) \o one = before \o (part \o one)
    <3>1. part \in Seq(Char) /\ before \in Seq(Char) BY <1>5, <2>3
    <3> QED BY <3>1, PiecesJoin
  <2>14. Filtered(SubSeq(text, 1, m), K) = before \o SubSeq(w, 1, k + 1)
    BY <2>2, <2>5, <2>7, <2>9, <2>x, <2>10, <2>12, <2>13
  <2> QED BY <2>1, <2>14 DEF CutSoFar, K, before
<1> HIDE DEF done
<1>9. n \in done BY <1>2, <1>7, <1>8, SetInduction
<1>10. CutSoFar(text, i, w, n) BY <1>2, <1>9 DEF done
<1>11. SubSeq(w, 1, n) = w BY <1>3, SubSeqFull
<1> QED BY <1>10, <1>11 DEF CutSoFar

\* Cleaning makes a text of a text.
LEMMA CleanIsText ==
    ASSUME NEW text \in Seq(Char)
    PROVE  Clean(text) \in Seq(Char)
<1> DEFINE P == {i \in 1 .. Len(text) : text[i] \in Space => i > 1 /\ text[i - 1] \notin Space}
           kept == Selected(text, P)
           line == [i \in 1 .. Len(kept) |->
                      IF kept[i] \in Space THEN " " ELSE Lower[kept[i]]]
<1>1. PICK f : Keeps(f, text, P, Char)
  <2> HIDE DEF P
  <2> QED BY SelectedKeeps
<1>2. Len(text) \in Nat BY LenProperties
<1>3. kept \in Seq(Char) BY <1>1, <1>2 DEF Keeps
<1> HIDE DEF kept
<1>4. Len(kept) \in Nat /\ \A i \in 1 .. Len(kept) : kept[i] \in Char
  BY <1>3, LenProperties, ElementOfSeq
<1>5. Lower \in [Char -> Char] /\ " " \in Char BY CharsAssumption
<1>6. line \in [1 .. Len(kept) -> Char]
  <2>1. ASSUME NEW i \in 1 .. Len(kept)
        PROVE  (IF kept[i] \in Space THEN " " ELSE Lower[kept[i]]) \in Char
    BY <1>4, <1>5
  <2> QED BY <2>1
<1>7. Clean(text) = IF line # <<>> /\ Last(line) \in Space THEN Front(line) ELSE line
  BY DEF Clean, kept
<1> HIDE DEF line
<1>8. line \in Seq(Char) BY <1>4, <1>6, VectorIsSequence
<1>9. line # <<>> => Front(line) \in Seq(Char) BY <1>8, LastAndFront
<1> QED BY <1>7, <1>8, <1>9

CallTyped == call = [at |-> call.at, text |-> call.text, pos |-> call.pos,
                     words |-> call.words, word |-> call.word]

\* Where the splitting loop has come to.
TextInv ==
    /\ CallTyped
    /\ call.text \in Seq(Char) /\ call.pos \in Nat \ {0} /\ call.words \in Seq(Seq(Char))
    /\ SplitFollowsPattern

(* What the splitting loop has done before position p.                       *)
SplitUpTo(text, p, words) ==
    /\ FlattenSeq(words) = Filtered(SubSeq(text, 1, p - 1), Char \ Space)
    /\ \A i \in 1 .. Len(words) : Shaped(words[i])
    /\ words # <<>> /\ text[p - 1] \notin Space
         => EndsWell(Last(words), text, p)

LEMMA SplitIs ==
    SplitFollowsPattern <=> (call.at = "split" => SplitUpTo(call.text, call.pos, call.words))
BY DEF SplitFollowsPattern, SplitUpTo

\* One turn of the loop, over a space or over a piece.
LEMMA SplitStep ==
    ASSUME NEW text \in Seq(Char), NEW p \in 1 .. Len(text), NEW words \in Seq(Seq(Char)),
           SplitUpTo(text, p, words)
    PROVE  /\ text[p] \in Space => SplitUpTo(text, p + 1, words)
           /\ text[p] \notin Space =>
                LET w == Piece(text, p) IN
                /\ w \in Seq(Char) /\ Len(w) \in Nat \ {0}
                /\ Append(words, w) \in Seq(Seq(Char))
                /\ SplitUpTo(text, p + Len(w), Append(words, w))
<1>1. Len(text) \in Nat /\ \A k \in 1 .. Len(text) : text[k] \in Char
  BY LenProperties, ElementOfSeq
<1>2. ASSUME text[p] \in Space PROVE SplitUpTo(text, p + 1, words)
  <2> DEFINE head == SubSeq(text, 1, p - 1)
             K == Char \ Space
  <2>1. head \in Seq(Char)
    <3>1. \A k \in 1 .. p - 1 : text[k] \in Char BY <1>1
    <3> QED BY <3>1, SubSeqProperties
  <2>2. text[p] \in Char /\ text[p] \notin K BY <1>1, <1>2
  <2>3. SubSeq(text, 1, p) = head \o <<text[p]>>
    <3>1. 1 \in 1 .. Len(text) BY <1>1
    <3>2. p \in 1 .. Len(text) OBVIOUS
    <3> QED BY <3>1, <3>2, SubSeqRecursiveSecond
  <2> HIDE DEF head, K
  <2>x. PICK x \in Char : x = text[p] /\ x \notin K BY <2>2
  <2>4. SubSeq(text, 1, p) = Append(head, x) BY <2>1, <2>3, <2>x, AppendIsConcat
  <2>5. Filtered(SubSeq(text, 1, p), K) = Filtered(head, K)
    <3>1. Filtered(Append(head, x), K) = Filtered(head, K)
      BY <2>1, <2>x, FilteredAppend
    <3> QED BY <2>4, <3>1
  <2>6. FlattenSeq(words) = Filtered(SubSeq(text, 1, (p + 1) - 1), Char \ Space)
    <3>1. (p + 1) - 1 = p OBVIOUS
    <3> QED BY <2>5, <3>1 DEF SplitUpTo, head, K
  <2>7. (p + 1) - 1 = p OBVIOUS
  <2> QED BY <1>2, <2>6, <2>7 DEF SplitUpTo
<1>3. ASSUME text[p] \notin Space
      PROVE  LET w == Piece(text, p) IN
             /\ w \in Seq(Char) /\ Len(w) \in Nat \ {0}
             /\ Append(words, w) \in Seq(Seq(Char))
             /\ SplitUpTo(text, p + Len(w), Append(words, w))
  <2>1. PICK w : w = Piece(text, p) OBVIOUS
  <2>2. PICK n : CutOut(w, n, text, p) /\ Shaped(w) /\ EndsWell(w, text, p + n)
    BY <1>3, <2>1, PieceCut
  <2>3. w \in Seq(Char) /\ Len(w) = n /\ w # <<>> BY <2>2, CutIsWord
  <2>4. n \in Nat \ {0} BY <2>2 DEF CutOut
  <2> DEFINE more == Append(words, w)
  <2>5. /\ more \in Seq(Seq(Char)) /\ Len(more) = Len(words) + 1 /\ more # <<>>
        /\ \A i \in 1 .. Len(words) : more[i] = words[i]
        /\ more[Len(words) + 1] = w
    BY <2>3, AppendProperties
  <2>6. Last(more) = w BY <2>3, LastOfAppend
  <2>7. FlattenSeq(more) = FlattenSeq(words) \o w BY <2>3, FlattenAppend
  <2> HIDE DEF more
  <2>8. FlattenSeq(more) = Filtered(SubSeq(text, 1, (p + n) - 1), Char \ Space)
    <3>1. (p + n) - 1 = p + n - 1 BY <2>4
    <3>2. Filtered(SubSeq(text, 1, p + n - 1), Char \ Space)
            = Filtered(SubSeq(text, 1, p - 1), Char \ Space) \o w
      BY <2>2, FilteredCut
    <3> QED BY <2>7, <3>1, <3>2 DEF SplitUpTo
  <2>9. ASSUME NEW i \in 1 .. Len(more) PROVE Shaped(more[i])
    <3>1. Len(words) \in Nat BY LenProperties
    <3>2. i = Len(words) + 1 \/ i \in 1 .. Len(words) BY <2>5, <3>1
    <3> QED BY <2>2, <2>5, <3>2 DEF SplitUpTo
  <2>10. SplitUpTo(text, p + n, more) BY <2>2, <2>6, <2>8, <2>9 DEF SplitUpTo
  <2> QED BY <2>1, <2>3, <2>4, <2>5, <2>10 DEF more
<1> QED BY <1>2, <1>3

LEMMA InitTextInv == Init => TextInv
<1> SUFFICES ASSUME Init PROVE TextInv OBVIOUS
<1>1. call.at = "idle" /\ call.text = <<>> /\ call.pos = 1 /\ call.words = <<>>
  BY DEF Init, NoCall
<1>2. <<>> \in Seq(Char) /\ <<>> \in Seq(Seq(Char)) BY EmptySeq
<1> QED BY <1>1, <1>2 DEF TextInv, SplitFollowsPattern, CallTyped, Init, NoCall

LEMMA NextTextInv == TextInv /\ [Next]_vars => TextInv'
<1> SUFFICES ASSUME TextInv, [Next]_vars PROVE TextInv' OBVIOUS
<1>1. call.text \in Seq(Char) /\ call.pos \in Nat \ {0} /\ call.words \in Seq(Seq(Char))
  BY DEF TextInv
<1>2. ASSUME call'.text = call.text, call'.words = call.words, call'.pos \in Nat \ {0},
             call'.at # "split", CallTyped'
      PROVE  TextInv'
  BY <1>1, <1>2 DEF TextInv, SplitFollowsPattern
<1>3. CASE UNCHANGED call BY <1>3 DEF TextInv, SplitFollowsPattern, CallTyped
<1>4. CASE Begin
  <2>1. PICK text \in Texts : call' = [NoCall EXCEPT !.at = "split", !.text = Clean(text)]
    BY <1>4 DEF Begin
  <2>2. call'.at = "split" /\ call'.text = Clean(text) /\ call'.pos = 1 /\ call'.words = <<>>
    BY <2>1 DEF NoCall
  <2>3. Clean(text) \in Seq(Char) BY CharsAssumption, CleanIsText
  <2>4. SplitUpTo(Clean(text), 1, <<>>)
    <3>1. SubSeq(Clean(text), 1, 1 - 1) = <<>> BY SubSeqEmpty
    <3>2. \A i \in 1 .. Len(<<>>) : Shaped(<<>>[i]) OBVIOUS
    <3>3. Filtered(<<>>, Char \ Space) = <<>> BY FilteredEmpty
    <3> QED BY <3>1, <3>2, <3>3, FlattenEmpty DEF SplitUpTo
  <2>5. <<>> \in Seq(Seq(Char)) BY EmptySeq
  <2>6. SplitFollowsPattern' BY <2>2, <2>4 DEF SplitFollowsPattern, SplitUpTo
  <2>7. CallTyped' BY <2>1 DEF NoCall, CallTyped
  <2> QED BY <2>2, <2>3, <2>5, <2>6, <2>7 DEF TextInv
<1>5. CASE Split
  <2>1. PICK text, p, words : text = call.text /\ p = call.pos /\ words = call.words OBVIOUS
  <2>2. Len(text) \in Nat /\ text \in Seq(Char) /\ words \in Seq(Seq(Char))
    BY <1>1, <2>1, LenProperties
  <2>3. call.at = "split" /\ p \in 1 .. Len(text) BY <1>1, <1>5, <2>1, <2>2 DEF Split
  <2>4. SplitUpTo(text, p, words) BY <2>1, <2>3, SplitIs DEF TextInv
  <2>5. ASSUME NEW q \in Nat \ {0}, NEW more \in Seq(Seq(Char)), SplitUpTo(text, q, more),
               call'.at = "split", call'.text = text, call'.pos = q, call'.words = more, CallTyped'
        PROVE  TextInv'
    <3>1. SplitFollowsPattern' BY <2>5 DEF SplitFollowsPattern, SplitUpTo
    <3> QED BY <2>2, <2>5, <3>1 DEF TextInv
  <2>6. CASE text[p] \in Space
    <3>1. call' = [call EXCEPT !.pos = @ + 1] BY <1>5, <2>1, <2>6 DEF Split
    <3>2. call'.at = "split" /\ call'.text = text /\ call'.words = words /\ call'.pos = p + 1 /\ CallTyped'
      BY <2>1, <2>3, <3>1 DEF CallTyped, TextInv
    <3>3. SplitUpTo(text, p + 1, words) BY <2>2, <2>3, <2>4, <2>6, SplitStep
    <3>4. p + 1 \in Nat \ {0} BY <2>3
    <3> QED BY <2>2, <2>5, <3>2, <3>3, <3>4
  <2>7. CASE text[p] \notin Space
    <3>1. PICK w : w = Piece(text, p) OBVIOUS
    <3>2. call' = [call EXCEPT !.pos = @ + Len(w), !.words = Append(@, w)]
      BY <1>5, <2>1, <2>7, <3>1 DEF Split
    <3>3. /\ w \in Seq(Char) /\ Len(w) \in Nat \ {0}
          /\ Append(words, w) \in Seq(Seq(Char))
          /\ SplitUpTo(text, p + Len(w), Append(words, w))
      BY <2>2, <2>3, <2>4, <2>7, <3>1, SplitStep
    <3>4. call'.at = "split" /\ call'.text = text /\ call'.words = Append(words, w)
          /\ call'.pos = p + Len(w) /\ CallTyped'
      BY <2>1, <2>3, <3>2 DEF CallTyped, TextInv
    <3>5. p + Len(w) \in Nat \ {0} BY <2>3, <3>3
    <3> QED BY <2>5, <3>3, <3>4, <3>5
  <2> QED BY <2>6, <2>7
<1>6. CASE EndSplit
  <2>1. call' = [call EXCEPT !.at = "words", !.pos = 1] BY <1>6 DEF EndSplit
  <2>2. /\ call'.at = "words" /\ call'.pos = 1 /\ call'.text = call.text
        /\ call'.words = call.words /\ CallTyped'
    BY <2>1 DEF TextInv, CallTyped
  <2> QED BY <1>2, <2>2
<1>7. CASE NextWord
  <2>1. \E word : call' = [call EXCEPT !.at = "emit", !.word = word]
               \/ call' = [call EXCEPT !.at = "merge", !.word = word]
    BY <1>7 DEF NextWord
  <2> QED BY <1>1, <1>2, <2>1 DEF TextInv, CallTyped
<1>8. CASE MergeOnce
  <2>1. call.at = "merge" /\ \E word : call' = [call EXCEPT !.word = word]
    BY <1>8 DEF MergeOnce
  <2> QED BY <1>1, <1>2, <2>1 DEF TextInv, CallTyped
<1>9. CASE FinishWord BY <1>1, <1>2, <1>9 DEF FinishWord, TextInv, CallTyped
<1>10. CASE Emit
  <2>1. call.at = "emit" /\ \E word : call' = [call EXCEPT !.word = word]
    BY <1>10 DEF Emit
  <2> QED BY <1>1, <1>2, <2>1 DEF TextInv, CallTyped
<1>11. CASE EndWord
  <2>1. call' = [call EXCEPT !.at = "words", !.pos = @ + 1] BY <1>11 DEF EndWord
  <2>2. call.pos + 1 \in Nat \ {0} BY <1>1
  <2> QED BY <1>1, <1>2, <2>1, <2>2 DEF TextInv, CallTyped
<1>12. CASE Return BY <1>1, <1>2, <1>12 DEF Return, TextInv, CallTyped
<1>13. CASE sam3_test_load_tokenizer BY <1>3, <1>13 DEF sam3_test_load_tokenizer
<1>14. CASE UNCHANGED vars BY <1>3, <1>14 DEF vars
<1> QED
    BY <1>4, <1>5, <1>6, <1>7, <1>8, <1>9, <1>10, <1>11, <1>12, <1>13, <1>14 DEF Next, Step

-----------------------------------------------------------------------------
(* The ids of a text.                                                        *)

(* The ids when the tokens of s have been looked up.                         *)
Emitted(s, id) ==
    LET known == Filtered(s, DOMAIN id)
    IN  [i \in 1 .. Len(known) + 1 |-> IF i = 1 THEN Sot ELSE id[known[i - 1]]]

\* The ids begin with the start of text, and one follows for each known token.
LEMMA EmittedIs ==
    ASSUME NEW s \in Seq(Token), NEW id, id \in [DOMAIN id -> Nat]
    PROVE  LET known == Filtered(s, DOMAIN id) IN
           /\ known \in Seq(Token) /\ Len(known) \in Nat
           /\ \A i \in 1 .. Len(known) : known[i] \in DOMAIN id
           /\ Emitted(s, id) \in Seq(Nat) /\ Len(Emitted(s, id)) = Len(known) + 1
           /\ Emitted(s, id)[1] = Sot
           /\ \A i \in 1 .. Len(known) : Emitted(s, id)[i + 1] = id[known[i]]
<1> DEFINE P == {i \in 1 .. Len(s) : s[i] \in DOMAIN id}
           known == Filtered(s, DOMAIN id)
<1>1. known \in Seq(Token) BY FilteredIsSeq
<1>2. Len(known) \in Nat BY <1>1, LenProperties
<1>3. ASSUME NEW i \in 1 .. Len(known) PROVE known[i] \in DOMAIN id
  <2>1. known = Selected(s, P) BY DEF Filtered
  <2>2. PICK e : Selects(Selected(s, P), e, s, Len(s), P, Token)
    <3> HIDE DEF P
    <3> QED BY SelectedSelects
  <2>3. e[i] \in P /\ known[i] = s[e[i]]
    <3> HIDE DEF P, known
    <3> QED BY <2>1, <2>2 DEF Selects
  <2> QED BY <2>3
<1> HIDE DEF P, known
<1>4. Emitted(s, id) = [i \in 1 .. Len(known) + 1 |-> IF i = 1 THEN Sot ELSE id[known[i - 1]]]
  BY DEF Emitted, known
<1>5. Sot \in Nat BY IdsAssumption
<1>6. ASSUME NEW i \in 1 .. Len(known) + 1
      PROVE  (IF i = 1 THEN Sot ELSE id[known[i - 1]]) \in Nat
  <2>1. CASE i = 1 BY <1>5, <2>1
  <2>2. CASE i # 1
    <3>1. i - 1 \in 1 .. Len(known) BY <1>2, <2>2
    <3> QED BY <1>3, <2>2, <3>1
  <2> QED BY <2>1, <2>2
<1>7. Emitted(s, id) \in [1 .. Len(known) + 1 -> Nat] BY <1>4, <1>6
<1>8. Len(known) + 1 \in Nat BY <1>2
<1>9. Emitted(s, id) \in Seq(Nat) /\ Len(Emitted(s, id)) = Len(known) + 1
  BY <1>7, <1>8, VectorIsSequence
<1>10. Emitted(s, id)[1] = Sot BY <1>2, <1>4
<1>11. ASSUME NEW i \in 1 .. Len(known) PROVE Emitted(s, id)[i + 1] = id[known[i]]
  <2>1. i + 1 \in 1 .. Len(known) + 1 /\ i + 1 # 1 /\ (i + 1) - 1 = i BY <1>2
  <2>2. Emitted(s, id)[i + 1] = id[known[(i + 1) - 1]] BY <1>4, <2>1
  <2> QED BY <2>1, <2>2
<1> QED BY <1>1, <1>2, <1>3, <1>9, <1>10, <1>11 DEF known

LEMMA EmittedEmpty ==
    ASSUME NEW id, id \in [DOMAIN id -> Nat]
    PROVE  Emitted(<<>>, id) = <<Sot>>
<1>1. Filtered(<<>>, DOMAIN id) = <<>> BY FilteredEmpty
<1>2. <<>> \in Seq(Token) /\ Len(<<>>) = 0 BY EmptySeq
<1>3. /\ Emitted(<<>>, id) \in Seq(Nat) /\ Len(Emitted(<<>>, id)) = 0 + 1
      /\ Emitted(<<>>, id)[1] = Sot
  BY <1>1, <1>2, EmittedIs
<1>4. <<Sot>> \in Seq(Nat) /\ Len(<<Sot>>) = 1 /\ <<Sot>>[1] = Sot BY IdsAssumption
<1>5. \A i \in 1 .. 0 + 1 : i = 1 OBVIOUS
<1> QED BY <1>3, <1>4, <1>5, SeqEqual

\* Looking one token more up appends its id, or nothing.
LEMMA EmittedAppend ==
    ASSUME NEW s \in Seq(Token), NEW t \in Token, NEW id, id \in [DOMAIN id -> Nat]
    PROVE  Emitted(Append(s, t), id) =
             IF t \in DOMAIN id THEN Append(Emitted(s, id), id[t]) ELSE Emitted(s, id)
<1> DEFINE known == Filtered(s, DOMAIN id)
           more == Filtered(Append(s, t), DOMAIN id)
<1>1. more = IF t \in DOMAIN id THEN Append(known, t) ELSE known BY FilteredAppend
<1>2. CASE t \notin DOMAIN id BY <1>1, <1>2 DEF Emitted
<1>3. CASE t \in DOMAIN id
  <2>1. Append(s, t) \in Seq(Token) BY AppendProperties
  <2>2. /\ known \in Seq(Token) /\ Len(known) \in Nat
        /\ Emitted(s, id) \in Seq(Nat) /\ Len(Emitted(s, id)) = Len(known) + 1
        /\ Emitted(s, id)[1] = Sot
        /\ \A i \in 1 .. Len(known) : Emitted(s, id)[i + 1] = id[known[i]]
    BY EmittedIs
  <2>3. /\ Emitted(Append(s, t), id) \in Seq(Nat)
        /\ Len(Emitted(Append(s, t), id)) = Len(more) + 1
        /\ Emitted(Append(s, t), id)[1] = Sot
        /\ \A i \in 1 .. Len(more) : Emitted(Append(s, t), id)[i + 1] = id[more[i]]
    BY <2>1, EmittedIs
  <2> HIDE DEF known, more
  <2>4. /\ Len(more) = Len(known) + 1
        /\ \A i \in 1 .. Len(known) : more[i] = known[i]
        /\ more[Len(known) + 1] = t
    BY <1>1, <1>3, <2>2, AppendProperties
  <2> DEFINE a == Emitted(Append(s, t), id)
             b == Append(Emitted(s, id), id[t])
  <2>5. id[t] \in Nat BY <1>3
  <2>6. /\ b \in Seq(Nat) /\ Len(b) = Len(known) + 2
        /\ \A i \in 1 .. Len(known) + 1 : b[i] = Emitted(s, id)[i]
        /\ b[Len(known) + 2] = id[t]
    <3>1. PICK e \in Seq(Nat) : e = Emitted(s, id) BY <2>2
    <3>2. /\ Append(e, id[t]) \in Seq(Nat) /\ Len(Append(e, id[t])) = Len(e) + 1
          /\ \A i \in 1 .. Len(e) : Append(e, id[t])[i] = e[i]
          /\ Append(e, id[t])[Len(e) + 1] = id[t]
      BY <2>5, AppendProperties
    <3>3. Len(e) = Len(known) + 1 /\ Len(e) + 1 = Len(known) + 2 BY <2>2, <3>1
    <3> QED BY <3>1, <3>2, <3>3
  <2>7. a \in Seq(Nat) /\ Len(a) = Len(known) + 2 BY <2>2, <2>3, <2>4
  <2>8. ASSUME NEW i \in 1 .. Len(known) + 2 PROVE a[i] = b[i]
    <3>1. CASE i = 1
      <4>1. 1 \in 1 .. Len(known) + 1 BY <2>2
      <4> QED BY <2>2, <2>3, <2>6, <3>1, <4>1
    <3>2. CASE i # 1
      <4> DEFINE k == i - 1
      <4>1. k \in 1 .. Len(more) /\ k + 1 = i /\ k \in 1 .. Len(known) + 1 BY <2>2, <2>4, <3>2
      <4>2. a[i] = id[more[k]] BY <2>3, <4>1
      <4>3. CASE k = Len(known) + 1
        <5>1. i = Len(known) + 2 BY <2>2, <4>3
        <5> QED BY <2>4, <2>6, <4>2, <4>3, <5>1
      <4>4. CASE k # Len(known) + 1
        <5>1. k \in 1 .. Len(known) /\ i \in 1 .. Len(known) + 1 BY <2>2, <4>1, <4>4
        <5>2. Emitted(s, id)[i] = id[known[k]] BY <2>2, <4>1, <5>1
        <5> QED BY <2>4, <2>6, <4>2, <5>1, <5>2
      <4> QED BY <4>3, <4>4
    <3> QED BY <3>1, <3>2
  <2> HIDE DEF a, b
  <2>9. a = b BY <2>6, <2>7, <2>8, SeqEqual
  <2> QED BY <1>3, <2>9 DEF a, b
<1> QED BY <1>2, <1>3

LEMMA StringsAreTokens == ASSUME NEW t \in Seq(STRING) PROVE t \in Token
<1> DEFINE S == STRING
<1>1. S \subseteq Symbol BY DEF Symbol
<1>2. t \in Seq(S) OBVIOUS
<1> HIDE DEF S
<1> QED BY <1>1, <1>2, SeqMonotonic DEF Token

\* The bytes of a word.
LEMMA EncodedIsSeq == ASSUME NEW w \in Seq(Char) PROVE Encoded(w) \in Seq(Symbol)
<1> DEFINE N == Len(w)
           bytes == [i \in 1 .. N |-> Bytes[w[i]]]
<1>1. N \in Nat /\ \A i \in 1 .. N : w[i] \in Char BY LenProperties, ElementOfSeq
<1>2. ASSUME NEW c \in Char PROVE Bytes[c] \in Seq(Symbol)
  <2>1. Bytes[c] \in Seq(STRING) BY CharsAssumption
  <2> QED BY <2>1, StringsAreTokens DEF Token
<1>3. bytes \in [1 .. N -> Seq(Symbol)] BY <1>1, <1>2
<1>4. Encoded(w) = FlattenSeq(bytes) BY DEF Encoded
<1> HIDE DEF bytes, N
<1>5. bytes \in Seq(Seq(Symbol)) BY <1>1, <1>3, VectorIsSequence
<1> QED BY <1>4, <1>5, FlatIsSeq

LEMMA ListsAreTyped ==
    ASSUME NEW merges \in Seq(Seq(STRING) \X Seq(STRING))
    PROVE  MergesTyped(merges)
<1> DEFINE S == Seq(STRING)
<1>1. S \X S \subseteq Token \X Token BY StringsAreTokens
<1>2. merges \in Seq(S \X S) OBVIOUS
<1> HIDE DEF S
<1> QED BY <1>1, <1>2, SeqMonotonic DEF MergesTyped

(* The tokens of the first n words.                                          *)
Before(words, n, merges) ==
    FlattenSeq([i \in 1 .. n |-> ByRank(Encoded(words[i]), merges)])

LEMMA BeforeNone == ASSUME NEW words, NEW merges PROVE Before(words, 0, merges) = <<>>
<1>1. [i \in 1 .. 0 |-> ByRank(Encoded(words[i]), merges)] = <<>> OBVIOUS
<1> QED BY <1>1, FlattenEmpty DEF Before

LEMMA WordIsWord ==
    ASSUME NEW words \in Seq(Seq(Char)), NEW i \in 1 .. Len(words),
           NEW merges, MergesTyped(merges)
    PROVE  /\ Encoded(words[i]) \in Seq(Symbol)
           /\ ByRank(Encoded(words[i]), merges) \in Seq(Token)
<1>1. words[i] \in Seq(Char) BY ElementOfSeq
<1>2. Encoded(words[i]) \in Seq(Symbol) BY <1>1, EncodedIsSeq
<1> QED BY <1>2, ByRankIsWord

\* The tokens of one word more.
LEMMA BeforeMore ==
    ASSUME NEW words \in Seq(Seq(Char)), NEW n \in 0 .. Len(words),
           NEW merges, MergesTyped(merges)
    PROVE  /\ Before(words, n, merges) \in Seq(Token)
           /\ n < Len(words) =>
                Before(words, n + 1, merges) =
                  Before(words, n, merges) \o ByRank(Encoded(words[n + 1]), merges)
<1> DEFINE list(m) == [i \in 1 .. m |-> ByRank(Encoded(words[i]), merges)]
<1>1. Len(words) \in Nat BY LenProperties
<1>2. ASSUME NEW m \in 0 .. Len(words) PROVE list(m) \in Seq(Seq(Token)) /\ Len(list(m)) = m
  <2>1. m \in Nat /\ \A i \in 1 .. m : i \in 1 .. Len(words) BY <1>1
  <2>2. \A i \in 1 .. m : ByRank(Encoded(words[i]), merges) \in Seq(Token)
    BY <2>1, WordIsWord
  <2>3. list(m) \in [1 .. m -> Seq(Token)] BY <2>2
  <2> HIDE DEF list
  <2> QED BY <2>1, <2>3, VectorIsSequence
<1>3. Before(words, n, merges) \in Seq(Token)
  <2>1. list(n) \in Seq(Seq(Token)) BY <1>2
  <2>2. Before(words, n, merges) = FlattenSeq(list(n)) BY DEF Before
  <2> HIDE DEF list
  <2> QED BY <2>1, <2>2, FlatIsSeq
<1>4. ASSUME n < Len(words)
      PROVE  Before(words, n + 1, merges) =
               Before(words, n, merges) \o ByRank(Encoded(words[n + 1]), merges)
  <2> DEFINE x == ByRank(Encoded(words[n + 1]), merges)
  <2>1. n \in Nat /\ n + 1 \in 0 .. Len(words) /\ n + 1 \in 1 .. Len(words) BY <1>1, <1>4
  <2>2. x \in Seq(Token) BY <2>1, WordIsWord
  <2>3. list(n) \in Seq(Seq(Token)) /\ Len(list(n)) = n BY <1>2
  <2>4. list(n + 1) \in Seq(Seq(Token)) /\ Len(list(n + 1)) = n + 1 BY <1>2, <2>1
  <2>5. /\ Append(list(n), x) \in Seq(Seq(Token)) /\ Len(Append(list(n), x)) = n + 1
        /\ \A i \in 1 .. n : Append(list(n), x)[i] = list(n)[i]
        /\ Append(list(n), x)[n + 1] = x
    <3> HIDE DEF list, x
    <3> QED BY <2>2, <2>3, AppendProperties
  <2>6. ASSUME NEW i \in 1 .. n + 1 PROVE list(n + 1)[i] = Append(list(n), x)[i]
    <3>1. CASE i = n + 1 BY <2>5, <3>1
    <3>2. CASE i # n + 1
      <4>1. i \in 1 .. n BY <2>1, <3>2
      <4>2. list(n)[i] = list(n + 1)[i] BY <4>1
      <4> QED BY <2>5, <4>1, <4>2
    <3> QED BY <3>1, <3>2
  <2>7. Before(words, n + 1, merges) = FlattenSeq(list(n + 1))
        /\ Before(words, n, merges) = FlattenSeq(list(n))
    BY DEF Before
  <2> HIDE DEF list, x
  <2>8. list(n + 1) = Append(list(n), x) BY <2>4, <2>5, <2>6, SeqEqual
  <2>9. FlattenSeq(Append(list(n), x)) = FlattenSeq(list(n)) \o x
    BY <2>2, <2>3, FlattenAppend
  <2> QED BY <2>7, <2>8, <2>9 DEF x
<1> QED BY <1>3, <1>4

(* What sam3_tokenize returns for the tokens of a text: ResultAsDefined.     *)
Result(s, all, id) ==
    LET tokens == Filtered(all, DOMAIN id)
        n == IF Len(tokens) < CtxLen - 2 THEN Len(tokens) ELSE CtxLen - 2
    IN  /\ Len(s) = CtxLen
        /\ s[1] = Sot
        /\ \A i \in 1 .. n : s[i + 1] = id[tokens[i]]
        /\ s[n + 2] = Eot
        /\ \A i \in n + 3 .. CtxLen : s[i] = 0

\* Fitting the ids to the context length makes the result as it is defined.
LEMMA FittedResult ==
    ASSUME NEW all \in Seq(Token), NEW id, id \in [DOMAIN id -> Nat]
    PROVE  Result(Fitted(Append(Emitted(all, id), Eot)), all, id)
<1> DEFINE tokens == Filtered(all, DOMAIN id)
           emitted == Emitted(all, id)
           a == Append(emitted, Eot)
           f == Fitted(a)
           n == IF Len(tokens) < CtxLen - 2 THEN Len(tokens) ELSE CtxLen - 2
<1>1. CtxLen \in Nat /\ CtxLen >= 2 /\ Eot \in Nat BY CtxLenAssumption, IdsAssumption
<1>2. /\ Len(tokens) \in Nat
      /\ emitted \in Seq(Nat) /\ Len(emitted) = Len(tokens) + 1 /\ emitted[1] = Sot
      /\ \A i \in 1 .. Len(tokens) : emitted[i + 1] = id[tokens[i]]
  BY EmittedIs
<1> HIDE DEF emitted, tokens
<1>3. /\ Len(a) = Len(tokens) + 2 /\ a[Len(tokens) + 2] = Eot
      /\ \A i \in 1 .. Len(tokens) + 1 : a[i] = emitted[i]
  <2>1. /\ Len(a) = Len(emitted) + 1 /\ a[Len(emitted) + 1] = Eot
        /\ \A i \in 1 .. Len(emitted) : a[i] = emitted[i]
    BY <1>1, <1>2, AppendProperties
  <2>2. Len(emitted) + 1 = Len(tokens) + 2 BY <1>2
  <2> HIDE DEF a
  <2> QED BY <1>2, <2>1, <2>2
<1>4. a[1] = Sot BY <1>2, <1>3
<1>5. \A i \in 1 .. Len(tokens) : a[i + 1] = id[tokens[i]]
  <2>1. \A i \in 1 .. Len(tokens) : i + 1 \in 1 .. Len(tokens) + 1 BY <1>2
  <2> HIDE DEF a
  <2> QED BY <1>2, <1>3, <2>1
<1> HIDE DEF a
<1>6. PICK N \in Nat : N = Len(tokens) BY <1>2
<1>7. CASE N + 2 > CtxLen
  <2>1. n = CtxLen - 2 /\ n + 2 = CtxLen /\ n <= N /\ n \in Nat BY <1>1, <1>6, <1>7
  <2>2. f = [i \in 1 .. CtxLen |-> IF i = CtxLen THEN Eot ELSE a[i]]
    BY <1>3, <1>6, <1>7 DEF Fitted
  <2>3. Len(f) = CtxLen BY <1>1, <2>2
  <2>4. f[1] = Sot BY <1>1, <1>4, <2>2
  <2>5. f[n + 2] = Eot BY <1>1, <2>1, <2>2
  <2>6. ASSUME NEW i \in 1 .. n PROVE f[i + 1] = id[tokens[i]]
    <3>1. i \in 1 .. Len(tokens) /\ i + 1 \in 1 .. CtxLen /\ i + 1 # CtxLen
      BY <1>1, <1>6, <2>1
    <3> QED BY <1>5, <2>2, <3>1
  <2>7. \A i \in n + 3 .. CtxLen : f[i] = 0 BY <1>1, <2>1
  <2> QED BY <2>3, <2>4, <2>5, <2>6, <2>7 DEF Result, tokens, emitted, a
<1>8. CASE ~(N + 2 > CtxLen)
  <2>1. n = N /\ n + 2 \in 1 .. CtxLen
    <3>1. CASE N < CtxLen - 2 BY <1>1, <1>6, <3>1
    <3>2. CASE ~(N < CtxLen - 2) BY <1>1, <1>6, <1>8, <3>2
    <3> QED BY <3>1, <3>2
  <2>2. f = [i \in 1 .. CtxLen |-> IF i <= N + 2 THEN a[i] ELSE 0]
    BY <1>3, <1>6, <1>8 DEF Fitted
  <2>3. Len(f) = CtxLen BY <1>1, <2>2
  <2>4. f[1] = Sot BY <1>1, <1>4, <2>2
  <2>5. f[n + 2] = Eot BY <1>3, <1>6, <2>1, <2>2
  <2>6. ASSUME NEW i \in 1 .. n PROVE f[i + 1] = id[tokens[i]]
    <3>1. i \in 1 .. Len(tokens) /\ i + 1 \in 1 .. CtxLen /\ i + 1 <= N + 2
      BY <1>1, <1>6, <2>1
    <3> QED BY <1>5, <2>2, <3>1
  <2>7. \A i \in n + 3 .. CtxLen : f[i] = 0 BY <1>1, <2>1, <2>2
  <2> QED BY <2>3, <2>4, <2>5, <2>6, <2>7 DEF Result, tokens, emitted, a
<1> QED BY <1>7, <1>8

-----------------------------------------------------------------------------
(* A vocabulary was read once, and whole.                                    *)
OneRead == loads = 1 /\ loaded

\* What the record of the tokenizer has.
TokTyped == tok = [id |-> tok.id, merges |-> tok.merges, cache |-> tok.cache]

(* Nothing is tokenized before a vocabulary was read.                        *)
ReadInv ==
    /\ TokTyped
    /\ loads \in Nat /\ (loads = 0 => ~loaded)
    /\ ~loaded => call.at = "idle" /\ DOMAIN tok.cache = {} /\ calls = 0
    /\ OneRead => MergesTyped(tok.merges) /\ InOrder(tok.merges)

LEMMA InitReadInv == Init => ReadInv
<1> SUFFICES ASSUME Init PROVE ReadInv OBVIOUS
<1>1. loads = 0 /\ loaded = FALSE /\ call.at = "idle" /\ calls = 0 BY DEF Init, NoCall
<1>2. TokTyped BY DEF Init, NoVocabulary, TokTyped
<1>3. DOMAIN tok.cache = {} BY DEF Init, NoVocabulary
<1> QED BY <1>1, <1>2, <1>3 DEF ReadInv, OneRead

LEMMA NextReadInv ==
    ASSUME MergesInOrder, ReadInv, [Next]_vars
    PROVE  ReadInv'
<1>1. ASSUME TokTyped', UNCHANGED <<loaded, loads>>, tok'.merges = tok.merges,
             loaded \/ (call'.at = "idle" /\ DOMAIN tok'.cache = {} /\ calls' = 0)
      PROVE  ReadInv'
  BY <1>1 DEF ReadInv, OneRead
<1>2. CASE UNCHANGED <<tok, loaded, loads>> /\ loaded BY <1>1, <1>2 DEF ReadInv, TokTyped
<1>3. CASE Begin BY <1>2, <1>3 DEF Begin
<1>4. ASSUME UNCHANGED <<tok, loaded, loads>>, call.at # "idle"
      PROVE  ReadInv'
  BY <1>2, <1>4 DEF ReadInv
<1>5. CASE Split BY <1>4, <1>5 DEF Split
<1>6. CASE EndSplit BY <1>4, <1>6 DEF EndSplit
<1>7. CASE NextWord BY <1>4, <1>7 DEF NextWord
<1>8. CASE MergeOnce BY <1>4, <1>8 DEF MergeOnce
<1>9. CASE FinishWord
  <2>1. loaded BY <1>9 DEF FinishWord, ReadInv
  <2>2. TokTyped' /\ tok'.merges = tok.merges
    BY <1>9 DEF FinishWord, Cached, ReadInv, TokTyped
  <2> QED BY <1>1, <1>9, <2>1, <2>2 DEF FinishWord
<1>10. CASE Emit BY <1>4, <1>10 DEF Emit
<1>11. CASE EndWord BY <1>4, <1>11 DEF EndWord
<1>12. CASE Return BY <1>4, <1>12 DEF Return
<1>13. CASE sam3_test_load_tokenizer
  <2>1. PICK v \in Vocabularies :
          (Refill(v) /\ loaded' = TRUE) \/ ((\E t \in Torn(v) : Refill(t)) /\ UNCHANGED loaded)
    BY <1>13 DEF sam3_test_load_tokenizer
  <2>2. loads' = loads + 1 /\ UNCHANGED <<call, ids, calls>> /\ call.at = "idle"
    BY <1>13 DEF sam3_test_load_tokenizer
  <2>3. \E t : Refill(t) BY <2>1
  <2>4. TokTyped' /\ tok'.cache = tok.cache BY <2>3 DEF Refill, TokTyped
  <2>5. loads' \in Nat /\ loads' # 0 BY <2>2 DEF ReadInv
  <2>6. ~loaded' => ~loaded BY <2>1
  <2>7. ASSUME OneRead' PROVE MergesTyped(tok'.merges) /\ InOrder(tok'.merges)
    <3>1. loads = 0 /\ ~loaded BY <2>2, <2>7 DEF ReadInv, OneRead
    <3>2. Refill(v)
      <4>1. loaded' # loaded BY <2>7, <3>1 DEF OneRead
      <4> QED BY <2>1, <4>1
    <3>3. v.merges \in Seq(Seq(STRING) \X Seq(STRING)) BY IdsAssumption
    <3>4. PICK merges \in Seq(Seq(STRING) \X Seq(STRING)) : merges = v.merges BY <3>3
    <3>5. MergesTyped(merges) BY ListsAreTyped
    <3>6. InOrder(v.merges) BY DEF MergesInOrder
    <3>7. tok'.merges = v.merges BY <3>2 DEF Refill
    <3> QED BY <3>4, <3>5, <3>6, <3>7
  <2> QED BY <2>2, <2>4, <2>5, <2>6, <2>7 DEF ReadInv
<1>14. CASE UNCHANGED vars
  BY <1>1, <1>14 DEF vars, ReadInv, TokTyped
<1> QED
    BY <1>3, <1>5, <1>6, <1>7, <1>8, <1>9, <1>10, <1>11, <1>12, <1>13, <1>14 DEF Next, Step

-----------------------------------------------------------------------------
(* A suffix of W is left to look up.                                         *)
Emitting(s, word, done, W, id) ==
    \E j \in 0 .. Len(W) :
        word = SubSeq(W, j + 1, Len(W)) /\ s = Emitted(done \o SubSeq(W, 1, j), id)

\* At first all of W is left.
LEMMA EmittingStarts ==
    ASSUME NEW done \in Seq(Token), NEW W \in Seq(Token), NEW id
    PROVE  Emitting(Emitted(done, id), W, done, W, id)
<1>1. Len(W) \in Nat BY LenProperties
<1>2. 0 \in 0 .. Len(W) BY <1>1
<1>3. SubSeq(W, 0 + 1, Len(W)) = W
  <2>1. 0 + 1 = 1 OBVIOUS
  <2>2. SubSeq(W, 1, Len(W)) = W BY SubSeqFull
  <2> QED BY <2>1, <2>2
<1>4. SubSeq(W, 1, 0) = <<>> BY SubSeqEmpty
<1>5. done \o SubSeq(W, 1, 0) = done BY <1>4, ConcatEmptySeq
<1> QED BY <1>2, <1>3, <1>5 DEF Emitting

LEMMA WordsJoin ==
    ASSUME NEW a \in Seq(Token), NEW b \in Seq(Token), NEW c \in Seq(Token)
    PROVE  (a \o b) \o c = a \o (b \o c)
BY ConcatAssociative

\* One token is looked up.
LEMMA EmittingGoesOn ==
    ASSUME NEW done \in Seq(Token), NEW W \in Seq(Token), NEW id, id \in [DOMAIN id -> Nat],
           NEW s, NEW word, Emitting(s, word, done, W, id), word # <<>>
    PROVE  Emitting(IF Head(word) \in DOMAIN id THEN Append(s, id[Head(word)]) ELSE s,
                    Tail(word), done, W, id)
<1>1. Len(W) \in Nat BY LenProperties
<1>2. PICK j \in 0 .. Len(W) :
        word = SubSeq(W, j + 1, Len(W)) /\ s = Emitted(done \o SubSeq(W, 1, j), id)
  BY DEF Emitting
<1>3. j # Len(W)
  <2> SUFFICES ASSUME j = Len(W) PROVE FALSE OBVIOUS
  <2>1. Len(W) < j + 1 /\ j + 1 \in Int /\ Len(W) \in Int BY <1>1
  <2>2. SubSeq(W, j + 1, Len(W)) = <<>> BY <2>1, SubSeqEmpty
  <2> QED BY <1>2, <2>2
<1>4. j + 1 \in 1 .. Len(W) /\ Len(W) \in j + 1 .. Len(W) BY <1>1, <1>3
<1>5. /\ Head(word) = W[j + 1] /\ Tail(word) = SubSeq(W, (j + 1) + 1, Len(W))
  BY <1>2, <1>4, HeadTailOfSubSeq
<1>6. PICK x \in Token : x = W[j + 1] BY <1>4, ElementOfSeq
<1>7. PICK p \in Seq(Token) : p = SubSeq(W, 1, j)
  <2>1. \A i \in 1 .. j : W[i] \in Token BY <1>1, ElementOfSeq
  <2>2. SubSeq(W, 1, j) \in Seq(Token) BY <2>1, SubSeqProperties
  <2> QED BY <2>2
<1>8. SubSeq(W, 1, j + 1) = p \o <<x>>
  <2>1. 1 \in 1 .. Len(W) /\ j + 1 \in 1 .. Len(W) /\ (j + 1) - 1 = j BY <1>1, <1>4
  <2>2. SubSeq(W, 1, j + 1) = SubSeq(W, 1, (j + 1) - 1) \o <<W[j + 1]>>
    BY <2>1, SubSeqRecursiveSecond
  <2> QED BY <1>6, <1>7, <2>1, <2>2
<1>9. PICK q \in Seq(Token) : q = done \o p
  <2>1. done \o p \in Seq(Token) BY ConcatProperties
  <2> QED BY <2>1
<1>10. done \o SubSeq(W, 1, j + 1) = Append(q, x)
  <2>1. PICK one \in Seq(Token) : one = <<x>>
    <3>1. <<x>> \in Seq(Token) OBVIOUS
    <3> QED BY <3>1
  <2>2. (done \o p) \o one = done \o (p \o one) BY WordsJoin
  <2>3. Append(q, x) = q \o <<x>> BY AppendIsConcat
  <2> QED BY <1>8, <1>9, <2>1, <2>2, <2>3
<1>11. Emitted(done \o SubSeq(W, 1, j + 1), id)
         = IF x \in DOMAIN id THEN Append(Emitted(q, id), id[x]) ELSE Emitted(q, id)
  <2>1. Emitted(Append(q, x), id)
          = IF x \in DOMAIN id THEN Append(Emitted(q, id), id[x]) ELSE Emitted(q, id)
    BY EmittedAppend
  <2> QED BY <1>10, <2>1
<1>12. s = Emitted(q, id) BY <1>2, <1>7, <1>9
<1>13. j + 1 \in 0 .. Len(W) BY <1>4
<1> QED BY <1>5, <1>6, <1>11, <1>12, <1>13 DEF Emitting

\* When none is left, W was looked up.
LEMMA EmittingEnds ==
    ASSUME NEW done \in Seq(Token), NEW W \in Seq(Token), NEW id,
           NEW s, Emitting(s, <<>>, done, W, id)
    PROVE  s = Emitted(done \o W, id)
<1>1. Len(W) \in Nat BY LenProperties
<1>2. PICK j \in 0 .. Len(W) :
        <<>> = SubSeq(W, j + 1, Len(W)) /\ s = Emitted(done \o SubSeq(W, 1, j), id)
  BY DEF Emitting
<1>3. j = Len(W)
  <2> SUFFICES ASSUME j # Len(W) PROVE FALSE OBVIOUS
  <2>1. /\ \A i \in j + 1 .. Len(W) : i \in 1 .. Len(W)
        /\ j + 1 \in Int /\ Len(W) \in Int /\ j + 1 <= Len(W)
    BY <1>1
  <2>2. \A i \in j + 1 .. Len(W) : W[i] \in Token BY <2>1, ElementOfSeq
  <2>3. Len(SubSeq(W, j + 1, Len(W)))
          = IF j + 1 <= Len(W) THEN Len(W) - (j + 1) + 1 ELSE 0
    BY <2>1, <2>2, SubSeqProperties
  <2>4. Len(<<>>) = 0 BY EmptySeq
  <2>5. Len(W) - (j + 1) + 1 = 0 BY <1>2, <2>1, <2>3, <2>4
  <2> QED BY <1>1, <2>1, <2>5
<1>4. SubSeq(W, 1, Len(W)) = W BY SubSeqFull
<1> QED BY <1>2, <1>3, <1>4

-----------------------------------------------------------------------------
(* A line of a vocabulary file.                                              *)
Entries == [token : Seq(STRING), id : Nat]

(* Any beginning of a list of tokens has numbers for its tokens.             *)
LEMMA IdsAreNumbers ==
    ASSUME NEW entries \in Seq(Entries)
    PROVE  Ids(entries) \in [DOMAIN Ids(entries) -> Nat]
<1> DEFINE tokens == {e.token : e \in ToSet(entries)}
           at(t) == {k \in 1 .. Len(entries) : entries[k].token = t}
           last(t) == CHOOSE k \in at(t) : \A j \in at(t) : j <= k
<1>1. Len(entries) \in Nat /\ \A k \in 1 .. Len(entries) : entries[k].id \in Nat
  <2>1. \A k \in 1 .. Len(entries) : entries[k] \in Entries OBVIOUS
  <2> QED BY <2>1 DEF Entries
<1>2. ASSUME NEW t \in tokens PROVE last(t) \in 1 .. Len(entries)
  <2> DEFINE back == {Len(entries) - k : k \in at(t)}
  <2>1. at(t) # {} BY DEF ToSet
  <2>2. back \subseteq Nat /\ back # {} BY <1>1, <2>1
  <2>3. PICK m \in back : \A n \in back : m <= n
    <3> HIDE DEF back
    <3> QED BY <2>2, LeastExists
  <2>4. PICK k \in at(t) : m = Len(entries) - k BY <2>3
  <2>5. ASSUME NEW j \in at(t) PROVE j <= k
    <3>1. Len(entries) - j \in back OBVIOUS
    <3>2. m <= Len(entries) - j
      <4> HIDE DEF back
      <4> QED BY <2>3, <3>1
    <3>3. j \in Nat /\ k \in Nat OBVIOUS
    <3> QED BY <1>1, <2>4, <3>2, <3>3
  <2> HIDE DEF at, back
  <2>6. last(t) \in at(t) BY <2>5
  <2> QED BY <2>6 DEF at
<1>3. Ids(entries) = [t \in tokens |-> entries[last(t)].id] BY DEF Ids
<1> HIDE DEF tokens, last
<1> QED BY <1>1, <1>2, <1>3

\* So do those of a file that ends early.
LEMMA TornEntries ==
    ASSUME NEW v \in Vocabularies, NEW t \in Torn(v)
    PROVE  t.entries \in Seq(Entries)
<1>1. v.entries \in Seq(Entries) BY IdsAssumption DEF Entries
<1>2. ASSUME NEW k \in 0 .. Len(v.entries) - 1,
             t = [entries |-> SubSeq(v.entries, 1, k), merges |-> <<>>]
      PROVE  t.entries \in Seq(Entries)
  <2>1. Len(v.entries) \in Nat /\ k \in Nat /\ k <= Len(v.entries) BY <1>1
  <2>2. \A i \in 1 .. k : v.entries[i] \in Entries BY <1>1, <2>1
  <2> QED BY <1>1, <1>2, <2>1, <2>2
<1>3. ASSUME NEW k, t = [v EXCEPT !.merges = SubSeq(@, 1, k)]
      PROVE  t.entries \in Seq(Entries)
  BY <1>1, <1>3
<1> QED BY <1>2, <1>3 DEF Torn

-----------------------------------------------------------------------------
Running == call.at # "idle"

\* While a call runs the ids are numbers after the start of text.
IInv ==
    /\ tok.id \in [DOMAIN tok.id -> Nat]
    /\ calls \in Nat
    /\ Running => calls > 0
    /\ Running => /\ ids \in Seq(Nat) /\ Len(ids) > 0 /\ ids[1] = Sot
    /\ ResultFormat

(* Fitting keeps the beginning and makes an end.                             *)
LEMMA FittedFormat ==
    ASSUME NEW s \in Seq(Nat), Len(s) > 0, s[1] = Sot
    PROVE  LET f == Fitted(Append(s, Eot)) IN
           /\ Len(f) = CtxLen /\ f[1] = Sot
           /\ \E e \in 2 .. CtxLen : f[e] = Eot /\ \A i \in e + 1 .. CtxLen : f[i] = 0
<1> DEFINE a == Append(s, Eot)
<1>1. CtxLen \in Nat /\ CtxLen >= 2 /\ Eot \in Nat BY CtxLenAssumption, IdsAssumption
<1>2. /\ a \in Seq(Nat) /\ Len(a) = Len(s) + 1 /\ Len(s) \in Nat
      /\ a[1] = Sot /\ a[Len(s) + 1] = Eot
  BY <1>1
<1> HIDE DEF a
<1>3. CASE Len(a) > CtxLen
  <2>1. Fitted(a) = [i \in 1 .. CtxLen |-> IF i = CtxLen THEN Eot ELSE a[i]]
    BY <1>3 DEF Fitted
  <2>2. Len(Fitted(a)) = CtxLen BY <1>1, <2>1
  <2>3. Fitted(a)[1] = Sot BY <1>1, <1>2, <2>1
  <2>4. CtxLen \in 2 .. CtxLen /\ Fitted(a)[CtxLen] = Eot BY <1>1, <2>1
  <2>5. \A i \in CtxLen + 1 .. CtxLen : Fitted(a)[i] = 0 BY <1>1
  <2> QED BY <2>2, <2>3, <2>4, <2>5 DEF a
<1>4. CASE ~(Len(a) > CtxLen)
  <2>1. Fitted(a) = [i \in 1 .. CtxLen |-> IF i <= Len(a) THEN a[i] ELSE 0]
    BY <1>4 DEF Fitted
  <2>2. Len(Fitted(a)) = CtxLen BY <1>1, <2>1
  <2>3. Fitted(a)[1] = Sot BY <1>1, <1>2, <2>1
  <2>4. Len(a) \in 2 .. CtxLen /\ Fitted(a)[Len(a)] = Eot BY <1>1, <1>2, <1>4, <2>1
  <2>5. \A i \in Len(a) + 1 .. CtxLen : Fitted(a)[i] = 0 BY <1>1, <1>2, <2>1
  <2> QED BY <2>2, <2>3, <2>4, <2>5 DEF a
<1> QED BY <1>3, <1>4

LEMMA InitIInv == Init => IInv
<1> SUFFICES ASSUME Init PROVE IInv OBVIOUS
<1>1. tok.id = <<>> /\ calls = 0 /\ call.at = "idle" BY DEF Init, NoVocabulary, NoCall
<1>2. tok.id \in [DOMAIN tok.id -> Nat] BY <1>1
<1> QED BY <1>1, <1>2 DEF IInv, Running, ResultFormat

LEMMA RefillIInv ==
    ASSUME IInv, sam3_test_load_tokenizer
    PROVE  IInv'
<1>1. PICK v \in Vocabularies : Refill(v) \/ \E t \in Torn(v) : Refill(t)
    BY DEF sam3_test_load_tokenizer
<1>2. v.entries \in Seq(Entries) BY IdsAssumption DEF Entries
<1>3. \E entries \in Seq(Entries) : tok'.id = Ids(entries)
    BY <1>1, <1>2, TornEntries DEF Refill
<1>4. (tok.id \in [DOMAIN tok.id -> Nat])' BY <1>3, IdsAreNumbers
<1>5. UNCHANGED <<call, ids, calls>> BY DEF sam3_test_load_tokenizer
<1> QED BY <1>4, <1>5 DEF IInv, Running, ResultFormat

(* A step within a call that neither ends it nor touches the ids.            *)
LEMMA QuietStepIInv ==
    ASSUME IInv, Running, Running', UNCHANGED <<ids, calls>>, tok'.id = tok.id
    PROVE  IInv'
BY DEF IInv, ResultFormat, Running

LEMMA NextIInv == IInv /\ [Next]_vars => IInv'
<1> SUFFICES ASSUME IInv, [Next]_vars PROVE IInv' OBVIOUS
<1>1. CASE sam3_test_load_tokenizer BY <1>1, RefillIInv
<1>2. CASE Begin
  <2>1. /\ ids' = <<Sot>> /\ calls' = calls + 1 /\ tok' = tok /\ call'.at = "split"
    BY <1>2 DEF Begin, NoCall
  <2>2. ids' \in Seq(Nat) /\ Len(ids') = 1 /\ ids'[1] = Sot BY <2>1, IdsAssumption
  <2> QED BY <2>1, <2>2 DEF IInv, Running, ResultFormat
<1>3. CASE Split BY <1>3, QuietStepIInv DEF Split, Running, IInv
<1>4. CASE EndSplit BY <1>4, QuietStepIInv DEF EndSplit, Running
<1>5. CASE NextWord BY <1>5, QuietStepIInv DEF NextWord, Running
<1>6. CASE MergeOnce BY <1>6, QuietStepIInv DEF MergeOnce, Running
<1>7. CASE FinishWord BY <1>7, QuietStepIInv DEF FinishWord, Running, Cached
<1>8. CASE EndWord BY <1>8, QuietStepIInv DEF EndWord, Running
<1>9. CASE Emit
  <2>1. Running /\ Running' /\ tok' = tok /\ calls' = calls BY <1>9 DEF Emit, Running
  <2>2. ids' = ids \/ \E n \in Nat : ids' = Append(ids, n) BY <1>9 DEF Emit, IInv
  <2>3. ids' \in Seq(Nat) /\ Len(ids') > 0 /\ ids'[1] = Sot BY <2>1, <2>2 DEF IInv
  <2> QED BY <2>1, <2>3 DEF IInv, ResultFormat, Running
<1>10. CASE Return
  <2>1. Running /\ ids' = Fitted(Append(ids, Eot)) /\ call'.at = "idle" /\ tok' = tok /\ calls' = calls
    BY <1>10 DEF Return, Running
  <2>2. ids \in Seq(Nat) /\ Len(ids) > 0 /\ ids[1] = Sot BY <2>1 DEF IInv
  <2>3. ResultFormat' BY <2>1, <2>2, FittedFormat DEF ResultFormat
  <2> QED BY <2>1, <2>3 DEF IInv, Running
<1>11. CASE UNCHANGED vars BY <1>11 DEF vars, IInv, Running, ResultFormat
<1> QED
    BY <1>1, <1>2, <1>3, <1>4, <1>5, <1>6, <1>7, <1>8, <1>9, <1>10, <1>11 DEF Next, Step

(* Whatever was read for a vocabulary and whatever the cache holds, the      *)
(* tokens that sam3_tokenize returns are of the length the text encoder      *)
(* takes, begin with the start of text and have an end, and nothing after.   *)
THEOREM ResultsHaveFormat == Spec => []ResultFormat
<1>1. IInv => ResultFormat BY DEF IInv
<1> QED BY InitIInv, NextIInv, <1>1, PTL DEF Spec

-----------------------------------------------------------------------------
(* What a running call has come to.                                          *)
Done(t, c, n) == Before(c.words, n, t.merges)
WordOf(t, c) == ByRank(Encoded(c.words[c.pos]), t.merges)

\* Where the loops over the words and their tokens have come to.
Work(t, c, s) ==
    /\ c.at = "split" => s = <<Sot>>
    /\ c.at = "words" => c.pos <= Len(c.words) + 1
    /\ c.at \in {"merge", "emit"} => c.pos <= Len(c.words)
    /\ c.at \in {"words", "merge"} => s = Emitted(Done(t, c, c.pos - 1), t.id)
    /\ c.at = "merge" => UnderWay(c.word, Encoded(c.words[c.pos]), t.merges)
    /\ c.at = "emit" => Emitting(s, c.word, Done(t, c, c.pos - 1), WordOf(t, c), t.id)

CacheRanked(cache, merges) == \A e \in DOMAIN cache : cache[e] = ByRank(e, merges)

WorkInv ==
    /\ OneRead => CacheRanked(tok.cache, tok.merges) /\ Work(tok, call, ids)
    /\ ResultAsDefined

\* ResultAsDefined says that the result is the one of the words that were split.
LEMMA AnswerIs ==
    ResultAsDefined <=>
      (call.at = "idle" /\ calls > 0 /\ loads = 1
         => Result(ids, Before(call.words, Len(call.words), tok.merges), tok.id))
BY DEF ResultAsDefined, Result, TokensOf, Before

LEMMA InitWorkInv == Init => WorkInv
<1> SUFFICES ASSUME Init PROVE WorkInv OBVIOUS
<1>1. loads = 0 /\ calls = 0 BY DEF Init
<1>2. ~OneRead /\ ~(calls > 0) BY <1>1 DEF OneRead
<1> QED BY <1>2 DEF WorkInv, ResultAsDefined

(* What the other invariants say of a state.                                 *)
Context ==
    /\ ReadInv /\ TextInv
    /\ tok.id \in [DOMAIN tok.id -> Nat] /\ calls \in Nat

\* A step of a call, of which the last conjunct is to be shown.
LEMMA CallGoesOn ==
    ASSUME Context, WorkInv, UNCHANGED <<loaded, loads>>, call'.at # "idle",
           OneRead => CacheRanked(tok'.cache, tok'.merges) /\ Work(tok', call', ids')
    PROVE  WorkInv'
BY DEF WorkInv, OneRead, ResultAsDefined

\* The word at the position is one more of those that are done.
LEMMA DoneSoFar ==
    ASSUME Context, OneRead, call.pos <= Len(call.words)
    PROVE  /\ call.pos \in 1 .. Len(call.words) /\ call.pos - 1 \in 0 .. Len(call.words)
           /\ Done(tok, call, call.pos - 1) \in Seq(Token)
           /\ WordOf(tok, call) \in Seq(Token)
           /\ Encoded(call.words[call.pos]) \in Seq(Symbol)
           /\ Done(tok, call, call.pos)
                = Done(tok, call, call.pos - 1) \o WordOf(tok, call)
<1>1. PICK words \in Seq(Seq(Char)), p \in Nat \ {0} : words = call.words /\ p = call.pos
  BY DEF Context, TextInv
<1>2. PICK merges : merges = tok.merges /\ MergesTyped(merges)
  BY DEF Context, ReadInv
<1>3. Len(words) \in Nat BY LenProperties
<1>4. p \in 1 .. Len(words) /\ p - 1 \in 0 .. Len(words) /\ p - 1 < Len(words) /\ (p - 1) + 1 = p
  BY <1>1, <1>3
<1>5. PICK n \in 0 .. Len(words) : n = p - 1 BY <1>4
<1>6. /\ Before(words, n, merges) \in Seq(Token)
      /\ Before(words, n + 1, merges)
           = Before(words, n, merges) \o ByRank(Encoded(words[n + 1]), merges)
  BY <1>2, <1>4, <1>5, BeforeMore
<1>7. Encoded(words[p]) \in Seq(Symbol) /\ ByRank(Encoded(words[p]), merges) \in Seq(Token)
  BY <1>2, <1>4, WordIsWord
<1>8. n + 1 = p BY <1>4, <1>5
<1> QED BY <1>1, <1>2, <1>4, <1>5, <1>6, <1>7, <1>8 DEF Done, WordOf

LEMMA EndSplitWorks == ASSUME Context, WorkInv, EndSplit PROVE WorkInv'
<1>1. /\ call.at = "split" /\ call' = [call EXCEPT !.at = "words", !.pos = 1]
      /\ UNCHANGED <<tok, loaded, loads, ids, calls>>
  BY DEF EndSplit
<1>2. call'.at = "words" /\ call'.pos = 1 /\ call'.words = call.words
  BY <1>1 DEF Context, TextInv, CallTyped
<1>3. ASSUME OneRead PROVE Work(tok, call', ids)
  <2>1. ids = <<Sot>> BY <1>1, <1>3 DEF WorkInv, Work
  <2>2. PICK id : id = tok.id /\ id \in [DOMAIN id -> Nat] BY DEF Context
  <2>3. Done(tok, call', 1 - 1) = <<>>
    <3>1. 1 - 1 = 0 OBVIOUS
    <3> QED BY <3>1, BeforeNone DEF Done
  <2>4. Emitted(<<>>, id) = <<Sot>> BY <2>2, EmittedEmpty
  <2>5. Len(call.words) \in Nat
    <3>1. call.words \in Seq(Seq(Char)) BY DEF Context, TextInv
    <3> QED BY <3>1, LenProperties
  <2>6. call'.pos <= Len(call'.words) + 1 BY <1>2, <2>5
  <2> QED BY <1>2, <2>1, <2>2, <2>3, <2>4, <2>6 DEF Work
<1> QED BY <1>1, <1>2, <1>3, CallGoesOn DEF WorkInv

\* A word from the cache is merged already.
LEMMA NextWordWorks == ASSUME Context, WorkInv, NextWord PROVE WorkInv'
<1> DEFINE e == Encoded(call.words[call.pos])
<1>1. /\ call.at = "words" /\ call.pos <= Len(call.words)
      /\ call' = IF e \in DOMAIN tok.cache
                 THEN [call EXCEPT !.at = "emit", !.word = tok.cache[e]]
                 ELSE [call EXCEPT !.at = "merge", !.word = Symbols(e)]
      /\ UNCHANGED <<tok, loaded, loads, ids, calls>>
  BY DEF NextWord
<1> HIDE DEF e
<1>2. /\ call'.pos = call.pos /\ call'.words = call.words
      /\ IF e \in DOMAIN tok.cache
         THEN call'.at = "emit" /\ call'.word = tok.cache[e]
         ELSE call'.at = "merge" /\ call'.word = Symbols(e)
  BY <1>1 DEF Context, TextInv, CallTyped
<1>3. ASSUME OneRead PROVE Work(tok, call', ids)
  <2>1. /\ Done(tok, call, call.pos - 1) \in Seq(Token)
        /\ WordOf(tok, call) \in Seq(Token) /\ e \in Seq(Symbol)
    BY <1>1, <1>3, DoneSoFar DEF e
  <2>2. ids = Emitted(Done(tok, call, call.pos - 1), tok.id) BY <1>1, <1>3 DEF WorkInv, Work
  <2>3. /\ Done(tok, call', call'.pos - 1) = Done(tok, call, call.pos - 1)
        /\ WordOf(tok, call') = WordOf(tok, call)
    BY <1>2 DEF Done, WordOf
  <2>4. CASE e \in DOMAIN tok.cache
    <3>1. call'.word = WordOf(tok, call)
      BY <1>2, <1>3, <2>4 DEF WorkInv, CacheRanked, WordOf, e
    <3>2. PICK done \in Seq(Token), W \in Seq(Token) :
            done = Done(tok, call, call.pos - 1) /\ W = WordOf(tok, call)
      BY <2>1
    <3>3. Emitting(Emitted(done, tok.id), W, done, W, tok.id) BY EmittingStarts
    <3>4. Emitting(ids, call'.word, Done(tok, call', call'.pos - 1), WordOf(tok, call'), tok.id)
      BY <2>2, <2>3, <3>1, <3>2, <3>3
    <3>5. call'.at = "emit" BY <1>2, <2>4
    <3> QED BY <1>1, <1>2, <3>4, <3>5 DEF Work
  <2>5. CASE e \notin DOMAIN tok.cache
    <3>1. PICK merges : merges = tok.merges /\ MergesTyped(merges)
      BY <1>3 DEF Context, ReadInv
    <3>2. UnderWay(Symbols(e), e, merges) BY <2>1, <3>1, SymbolsAreTokens, SymbolsUnderWay
    <3>3. UnderWay(call'.word, Encoded(call'.words[call'.pos]), tok.merges)
      BY <1>2, <2>5, <3>1, <3>2 DEF e
    <3>4. call'.at = "merge" BY <1>2, <2>5
    <3>5. ids = Emitted(Done(tok, call', call'.pos - 1), tok.id) BY <2>2, <2>3
    <3> QED BY <1>1, <1>2, <3>3, <3>4, <3>5 DEF Work
  <2> QED BY <2>4, <2>5
<1>4. call'.at # "idle" BY <1>2
<1> QED BY <1>1, <1>3, <1>4, CallGoesOn DEF WorkInv

\* The best pair is the next merge that changes the word.
LEMMA MergeOnceWorks == ASSUME Context, WorkInv, MergeOnce PROVE WorkInv'
<1>1. /\ call.at = "merge" /\ Ranks(call.word) # {}
      /\ call' = [call EXCEPT !.word = MergeAll(@, tok.merges[Best(@)])]
      /\ UNCHANGED <<tok, loaded, loads, ids, calls>>
  BY DEF MergeOnce
<1>2. /\ call'.at = "merge" /\ call'.pos = call.pos /\ call'.words = call.words
      /\ call'.word = MergeAll(call.word, tok.merges[Best(call.word)])
  BY <1>1 DEF Context, TextInv, CallTyped
<1>3. ASSUME OneRead PROVE Work(tok, call', ids)
  <2>1. PICK merges, word, e :
          /\ merges = tok.merges /\ word = call.word /\ e = Encoded(call.words[call.pos])
    OBVIOUS
  <2>2. MergesTyped(merges) /\ InOrder(merges) BY <1>3, <2>1 DEF Context, ReadInv
  <2>3. UnderWay(word, e, merges) BY <1>1, <1>3, <2>1 DEF WorkInv, Work
  <2>4. Ranks(word) = RanksOf(word, merges) BY <2>1 DEF Ranks, RanksOf
  <2>5. RanksOf(word, merges) \subseteq Nat
    <3>1. Len(merges) \in Nat BY <2>2, LenProperties DEF MergesTyped
    <3> QED BY <3>1 DEF RanksOf
  <2>6. \E b \in Ranks(word) : \A q \in Ranks(word) : b <= q
    BY <1>1, <2>1, <2>4, <2>5, LeastExists
  <2>7. PICK b : b = Best(word) OBVIOUS
  <2>8. b \in RanksOf(word, merges) /\ \A q \in RanksOf(word, merges) : b <= q
    BY <2>4, <2>6, <2>7 DEF Best
  <2>9. UnderWay(MergeAll(word, merges[b]), e, merges) BY <2>2, <2>3, <2>8, BestIsNext
  <2>10. UnderWay(call'.word, Encoded(call'.words[call'.pos]), tok.merges)
    BY <1>2, <2>1, <2>7, <2>9
  <2>11. /\ ids = Emitted(Done(tok, call, call.pos - 1), tok.id) /\ call.pos <= Len(call.words)
    BY <1>1, <1>3 DEF WorkInv, Work
  <2>12. Done(tok, call', call'.pos - 1) = Done(tok, call, call.pos - 1) BY <1>2 DEF Done
  <2> QED BY <1>2, <2>10, <2>11, <2>12 DEF Work
<1> QED BY <1>1, <1>2, <1>3, CallGoesOn DEF WorkInv

\* What the cache is given is the word with all merges.
LEMMA FinishWordWorks == ASSUME Context, WorkInv, FinishWord PROVE WorkInv'
<1> DEFINE e == Encoded(call.words[call.pos])
<1>1. /\ call.at = "merge" /\ Ranks(call.word) = {}
      /\ tok' = Cached(e, call.word)
      /\ call' = [call EXCEPT !.at = "emit"]
      /\ UNCHANGED <<loaded, loads, ids, calls>>
  BY DEF FinishWord
<1> HIDE DEF e
<1>2. /\ call'.at = "emit" /\ call'.pos = call.pos /\ call'.words = call.words
      /\ call'.word = call.word
  BY <1>1 DEF Context, TextInv, CallTyped
<1>3. /\ tok'.merges = tok.merges /\ tok'.id = tok.id
      /\ tok'.cache = [x \in DOMAIN tok.cache \cup {e} |->
                          IF x = e THEN call.word ELSE tok.cache[x]]
  BY <1>1 DEF Cached, Context, ReadInv, TokTyped
<1>4. ASSUME OneRead PROVE CacheRanked(tok'.cache, tok'.merges) /\ Work(tok', call', ids)
  <2>1. PICK merges, word :
          merges = tok.merges /\ word = call.word
    OBVIOUS
  <2>2. MergesTyped(merges) /\ InOrder(merges) BY <1>4, <2>1 DEF Context, ReadInv
  <2>3. UnderWay(word, e, merges) BY <1>1, <1>4, <2>1 DEF WorkInv, Work, e
  <2>4. RanksOf(word, merges) = {} BY <1>1, <2>1 DEF Ranks, RanksOf
  <2>5. word = ByRank(e, merges) BY <2>2, <2>3, <2>4, NothingLeft
  <2>6. CacheRanked(tok.cache, merges) BY <1>4, <2>1 DEF WorkInv
  <2>7. CacheRanked(tok'.cache, tok'.merges) BY <1>3, <2>1, <2>5, <2>6 DEF CacheRanked
  <2>8. ids = Emitted(Done(tok, call, call.pos - 1), tok.id) /\ call.pos <= Len(call.words)
    BY <1>1, <1>4 DEF WorkInv, Work
  <2>9. /\ Done(tok', call', call'.pos - 1) = Done(tok, call, call.pos - 1)
        /\ WordOf(tok', call') = WordOf(tok, call)
    BY <1>2, <1>3 DEF Done, WordOf
  <2>10. PICK done \in Seq(Token), W \in Seq(Token) :
            done = Done(tok, call, call.pos - 1) /\ W = WordOf(tok, call)
    BY <1>4, <2>8, DoneSoFar
  <2>11. Emitting(Emitted(done, tok.id), W, done, W, tok.id) BY EmittingStarts
  <2>12. W = call.word BY <2>1, <2>5, <2>10 DEF WordOf, e
  <2>13. Emitting(ids, call'.word, Done(tok', call', call'.pos - 1), WordOf(tok', call'), tok'.id)
    BY <1>2, <1>3, <2>8, <2>9, <2>10, <2>11, <2>12
  <2>14. Work(tok', call', ids) BY <1>2, <2>8, <2>13 DEF Work
  <2> QED BY <2>7, <2>14
<1> QED BY <1>1, <1>2, <1>4, CallGoesOn

LEMMA EmitWorks == ASSUME Context, WorkInv, Emit PROVE WorkInv'
<1>1. /\ call.at = "emit" /\ call.word # <<>>
      /\ ids' = IF Head(call.word) \in DOMAIN tok.id
                THEN Append(ids, tok.id[Head(call.word)]) ELSE ids
      /\ call' = [call EXCEPT !.word = Tail(@)]
      /\ UNCHANGED <<tok, loaded, loads, calls>>
  BY DEF Emit
<1>2. /\ call'.at = "emit" /\ call'.pos = call.pos /\ call'.words = call.words
      /\ call'.word = Tail(call.word)
  BY <1>1 DEF Context, TextInv, CallTyped
<1>3. ASSUME OneRead PROVE Work(tok, call', ids')
  <2>1. call.pos <= Len(call.words)
        /\ Emitting(ids, call.word, Done(tok, call, call.pos - 1), WordOf(tok, call), tok.id)
    BY <1>1, <1>3 DEF WorkInv, Work
  <2>0. PICK id : id = tok.id /\ id \in [DOMAIN id -> Nat] BY DEF Context
  <2>2. PICK done \in Seq(Token), W \in Seq(Token) :
          done = Done(tok, call, call.pos - 1) /\ W = WordOf(tok, call)
    BY <1>3, <2>1, DoneSoFar
  <2>3. PICK word, s : word = call.word /\ s = ids OBVIOUS
  <2>4. Emitting(s, word, done, W, id) /\ word # <<>> BY <1>1, <2>0, <2>1, <2>2, <2>3
  <2>5. Emitting(IF Head(word) \in DOMAIN id THEN Append(s, id[Head(word)]) ELSE s,
                 Tail(word), done, W, id)
    BY <2>0, <2>4, EmittingGoesOn
  <2>6. ids' = IF Head(word) \in DOMAIN id THEN Append(s, id[Head(word)]) ELSE s
    BY <1>1, <2>0, <2>3
  <2>7. Emitting(ids', Tail(word), done, W, id) BY <2>5, <2>6
  <2>8. /\ Done(tok, call', call'.pos - 1) = Done(tok, call, call.pos - 1)
        /\ WordOf(tok, call') = WordOf(tok, call)
    BY <1>2 DEF Done, WordOf
  <2>9. Emitting(ids', call'.word, Done(tok, call', call'.pos - 1), WordOf(tok, call'), tok.id)
    BY <1>2, <2>0, <2>2, <2>3, <2>7, <2>8
  <2> QED BY <1>2, <2>1, <2>9 DEF Work
<1> QED BY <1>1, <1>2, <1>3, CallGoesOn DEF WorkInv

LEMMA EndWordWorks == ASSUME Context, WorkInv, EndWord PROVE WorkInv'
<1>1. /\ call.at = "emit" /\ call.word = <<>>
      /\ call' = [call EXCEPT !.at = "words", !.pos = @ + 1]
      /\ UNCHANGED <<tok, loaded, loads, ids, calls>>
  BY DEF EndWord
<1>2. /\ call'.at = "words" /\ call'.pos = call.pos + 1 /\ call'.words = call.words
  BY <1>1 DEF Context, TextInv, CallTyped
<1>3. ASSUME OneRead PROVE Work(tok, call', ids)
  <2>1. call.pos <= Len(call.words)
        /\ Emitting(ids, <<>>, Done(tok, call, call.pos - 1), WordOf(tok, call), tok.id)
    BY <1>1, <1>3 DEF WorkInv, Work
  <2>2. PICK done \in Seq(Token), W \in Seq(Token) :
          done = Done(tok, call, call.pos - 1) /\ W = WordOf(tok, call)
    BY <1>3, <2>1, DoneSoFar
  <2>3. ids = Emitted(done \o W, tok.id) BY <2>1, <2>2, EmittingEnds
  <2>4. Done(tok, call, call.pos) = done \o W /\ call.pos \in 1 .. Len(call.words)
    BY <1>3, <2>1, <2>2, DoneSoFar
  <2>5. Len(call.words) \in Nat
    <3>1. call.words \in Seq(Seq(Char)) BY DEF Context, TextInv
    <3> QED BY <3>1, LenProperties
  <2>6. call'.pos - 1 = call.pos /\ call'.pos <= Len(call'.words) + 1 BY <1>2, <2>4, <2>5
  <2>7. Done(tok, call', call'.pos - 1) = Done(tok, call, call.pos) BY <1>2, <2>6 DEF Done
  <2> QED BY <1>2, <2>3, <2>4, <2>6, <2>7 DEF Work
<1> QED BY <1>1, <1>2, <1>3, CallGoesOn DEF WorkInv

LEMMA ReturnWorks == ASSUME Context, WorkInv, Return PROVE WorkInv'
<1>1. /\ call.at = "words" /\ call.pos > Len(call.words)
      /\ ids' = Fitted(Append(ids, Eot))
      /\ call' = [call EXCEPT !.at = "idle"]
      /\ UNCHANGED <<tok, loaded, loads, calls>>
  BY DEF Return
<1>2. call'.at = "idle" /\ call'.words = call.words BY <1>1 DEF Context, TextInv, CallTyped
<1>3. loads = 1 => OneRead BY <1>1 DEF OneRead, Context, ReadInv
<1>4. ASSUME OneRead PROVE Result(ids', Before(call.words, Len(call.words), tok.merges), tok.id)
  <2>1. PICK words \in Seq(Seq(Char)), p \in Nat \ {0} : words = call.words /\ p = call.pos
    BY DEF Context, TextInv
  <2>2. PICK merges, id : /\ merges = tok.merges /\ MergesTyped(merges)
                          /\ id = tok.id /\ id \in [DOMAIN id -> Nat]
    BY <1>4 DEF Context, ReadInv
  <2>3. Len(words) \in Nat BY LenProperties
  <2>4. p <= Len(words) + 1 BY <1>1, <1>4, <2>1 DEF WorkInv, Work
  <2>5. p - 1 = Len(words) BY <1>1, <2>1, <2>3, <2>4
  <2>6. ids = Emitted(Before(words, Len(words), merges), id)
    BY <1>1, <1>4, <2>1, <2>2, <2>5 DEF WorkInv, Work, Done
  <2>7. Before(words, Len(words), merges) \in Seq(Token)
    <3>1. Len(words) \in 0 .. Len(words) BY <2>3
    <3> QED BY <2>2, <3>1, BeforeMore
  <2>8. PICK all \in Seq(Token) : all = Before(words, Len(words), merges) BY <2>7
  <2>9. Result(Fitted(Append(Emitted(all, id), Eot)), all, id) BY <2>2, FittedResult
  <2> QED BY <1>1, <2>1, <2>2, <2>6, <2>8, <2>9
<1>5. Before(call'.words, Len(call'.words), tok'.merges)
        = Before(call.words, Len(call.words), tok.merges)
  BY <1>1, <1>2
<1>6. ResultAsDefined'
  <2>1. ResultAsDefined' <=>
          (call'.at = "idle" /\ calls' > 0 /\ loads' = 1
             => Result(ids', Before(call'.words, Len(call'.words), tok'.merges), tok'.id))
    BY DEF ResultAsDefined, Result, TokensOf, Before
  <2> QED BY <1>1, <1>3, <1>4, <1>5, <2>1
<1>7. OneRead' => CacheRanked(tok'.cache, tok'.merges) /\ Work(tok', call', ids')
  BY <1>1, <1>2 DEF WorkInv, OneRead, Work
<1> QED BY <1>6, <1>7 DEF WorkInv

LEMMA NextWorkInv ==
    ASSUME MergesInOrder, Context, WorkInv, [Next]_vars
    PROVE  WorkInv'
<1>1. CASE sam3_test_load_tokenizer
  <2>1. call.at = "idle" /\ loads' = loads + 1 /\ UNCHANGED <<call, ids, calls>>
    BY <1>1 DEF sam3_test_load_tokenizer
  <2>2. \E t : Refill(t) BY <1>1 DEF sam3_test_load_tokenizer
  <2>3. tok'.cache = tok.cache BY <2>2 DEF Refill
  <2>4. loads' = 1 => ~loaded BY <2>1 DEF Context, ReadInv
  <2>5. ResultAsDefined' BY <2>1, <2>4 DEF ResultAsDefined, Context, ReadInv
  <2>6. ASSUME OneRead' PROVE CacheRanked(tok'.cache, tok'.merges) /\ Work(tok', call', ids')
    <3>1. DOMAIN tok.cache = {} BY <2>4, <2>6 DEF OneRead, Context, ReadInv
    <3>2. call'.at = "idle" BY <2>1
    <3>3. CacheRanked(tok'.cache, tok'.merges) BY <2>3, <3>1 DEF CacheRanked
    <3> QED BY <3>2, <3>3 DEF Work
  <2> QED BY <2>5, <2>6 DEF WorkInv
<1>2. CASE Begin
  <2>1. PICK text : call' = [NoCall EXCEPT !.at = "split", !.text = text]
    BY <1>2 DEF Begin
  <2>2. call'.at = "split" /\ ids' = <<Sot>> /\ UNCHANGED <<tok, loaded, loads>>
    BY <1>2, <2>1 DEF Begin, NoCall
  <2>3. Work(tok, call', ids') BY <2>2 DEF Work
  <2> QED BY <2>2, <2>3, CallGoesOn DEF WorkInv
<1>3. CASE Split
  <2>1. call.at = "split" /\ UNCHANGED <<tok, loaded, loads, ids, calls>> BY <1>3 DEF Split
  <2>2. call'.at = "split" BY <1>3 DEF Split, Context, TextInv, CallTyped
  <2>3. OneRead => Work(tok, call', ids) BY <2>1, <2>2 DEF Work, WorkInv
  <2> QED BY <2>1, <2>2, <2>3, CallGoesOn DEF WorkInv
<1>4. CASE EndSplit BY <1>4, EndSplitWorks
<1>5. CASE NextWord BY <1>5, NextWordWorks
<1>6. CASE MergeOnce BY <1>6, MergeOnceWorks
<1>7. CASE FinishWord BY <1>7, FinishWordWorks
<1>8. CASE Emit BY <1>8, EmitWorks
<1>9. CASE EndWord BY <1>9, EndWordWorks
<1>10. CASE Return BY <1>10, ReturnWorks
<1>11. CASE UNCHANGED vars
  <2>1. UNCHANGED <<tok, loaded, loads, call, ids, calls>> BY <1>11 DEF vars
  <2>2. ResultAsDefined' BY <2>1 DEF WorkInv, ResultAsDefined
  <2> QED BY <2>1, <2>2 DEF WorkInv, OneRead
<1> QED
    BY <1>1, <1>2, <1>3, <1>4, <1>5, <1>6, <1>7, <1>8, <1>9, <1>10, <1>11 DEF Next, Step

-----------------------------------------------------------------------------
(* sam3_pretokenize, wherever it has come to: nothing but spaces is lost,    *)
(* all words are of the CLIP pattern, and each ends where its kind ends.     *)
THEOREM SplitsFollowPattern == Spec => []SplitFollowsPattern
<1>1. TextInv => SplitFollowsPattern BY DEF TextInv
<1> QED BY InitTextInv, NextTextInv, <1>1, PTL DEF Spec

\* All the invariants together.
LEMMA WorkGoesOn == ASSUME MergesInOrder PROVE Spec => []WorkInv /\ []ReadInv
<1>1. Init => IInv /\ TextInv /\ ReadInv /\ WorkInv
  BY InitIInv, InitTextInv, InitReadInv, InitWorkInv
<1>2. IInv /\ TextInv /\ ReadInv /\ WorkInv /\ [Next]_vars
        => (IInv /\ TextInv /\ ReadInv /\ WorkInv)'
  <2> SUFFICES ASSUME IInv, TextInv, ReadInv, WorkInv, [Next]_vars
               PROVE  IInv' /\ TextInv' /\ ReadInv' /\ WorkInv'
    OBVIOUS
  <2>1. Context BY DEF Context, IInv
  <2> QED BY <2>1, NextIInv, NextTextInv, NextReadInv, NextWorkInv
<1> QED BY <1>1, <1>2, PTL DEF Spec

(* The best pair first, found again after every merge, makes of a word what  *)
(* the merges in the order of their ranks make of it, for any list in which  *)
(* a pair comes once and after the merges that make its tokens; and that is  *)
(* all the cache holds until a second vocabulary is read.                    *)
THEOREM CacheHoldsRankedMerges ==
    ASSUME MergesInOrder
    PROVE  Spec => []CacheHoldsMerges
<1>1. WorkInv /\ ReadInv => CacheHoldsMerges
  <2> SUFFICES ASSUME WorkInv, ReadInv, loads <= 1 PROVE
        \A e \in DOMAIN tok.cache : tok.cache[e] = ByRank(e, tok.merges)
    BY DEF CacheHoldsMerges
  <2>1. CASE ~loaded BY <2>1 DEF ReadInv
  <2>2. CASE loaded
    <3>1. OneRead BY <2>2 DEF ReadInv, OneRead
    <3> QED BY <3>1 DEF WorkInv, CacheRanked
  <2> QED BY <2>1, <2>2
<1> QED BY WorkGoesOn, <1>1, PTL

(* With such a list, what sam3_tokenize returns depends on the text and the  *)
(* vocabulary alone, whatever texts were tokenized before: the ids of the    *)
(* tokens in their order, as many as there is room for, and the end of text. *)
THEOREM ResultsAreDefined ==
    ASSUME MergesInOrder
    PROVE  Spec => []ResultAsDefined
<1>1. WorkInv => ResultAsDefined BY DEF WorkInv
<1> QED BY WorkGoesOn, <1>1, PTL

-----------------------------------------------------------------------------
(* The loops move on.                                                        *)

(* One turn of the loop of MergeAll makes the word no longer; a list that is *)
(* as long as the part of the word it was made of still ends with its token. *)
NotLonger(s, i, word) ==
    /\ s \in Seq(Token) /\ Len(s) <= i
    /\ Len(s) = i /\ i > 0 => s # <<>> /\ Last(s) = word[i]

LEMMA MergeStepLen ==
    ASSUME NEW word \in Seq(Token), NEW pair \in Token \X Token, NEW i \in Nat,
           i + 1 \in 1 .. Len(word), NEW s, NotLonger(s, i, word)
    PROVE  /\ NotLonger(MergeStep(s, word[i + 1], pair), i + 1, word)
           /\ Len(s) < i \/ (i > 0 /\ <<word[i], word[i + 1]>> = pair)
                => Len(MergeStep(s, word[i + 1], pair)) < i + 1
<1> DEFINE x == word[i + 1]
           t == MergeStep(s, x, pair)
<1>1. /\ s \in Seq(Token) /\ Len(s) \in Nat /\ Len(s) <= i
      /\ Len(s) = i /\ i > 0 => s # <<>> /\ Last(s) = word[i]
  BY LenProperties DEF NotLonger
<1>2. x \in Token /\ t \in Seq(Token)
  <2>1. x \in Token BY ElementOfSeq
  <2> QED BY <1>1, <2>1, StepIsWord
<1> HIDE DEF x
<1>3. CASE s # <<>> /\ Last(s) = pair[1] /\ x = pair[2]
  <2>1. t = Append(Front(s), pair[1] \o pair[2]) BY <1>3 DEF MergeStep
  <2>2. Front(s) \in Seq(Token) /\ Len(Front(s)) = Len(s) - 1 BY <1>1, <1>3, LastAndFront
  <2>3. pair[1] \o pair[2] \in Token BY TokensJoin
  <2>4. Len(t) = Len(Front(s)) + 1 BY <2>1, <2>2, <2>3, AppendProperties
  <2> HIDE DEF t
  <2>5. Len(t) < i + 1 BY <1>1, <2>2, <2>4
  <2>6. Len(t) \in Nat BY <1>2, LenProperties
  <2> QED BY <1>2, <2>5, <2>6 DEF NotLonger, t, x
<1>4. CASE ~(s # <<>> /\ Last(s) = pair[1] /\ x = pair[2])
  <2>1. t = Append(s, x) BY <1>4 DEF MergeStep
  <2>2. Len(t) = Len(s) + 1 /\ t # <<>> /\ Last(t) = x
    <3>1. Len(t) = Len(s) + 1 BY <1>1, <1>2, <2>1, AppendProperties
    <3>2. t # <<>> BY <1>1, <3>1, EmptySeq
    <3>3. Last(t) = x BY <1>1, <1>2, <2>1, LastOfAppend
    <3> QED BY <3>1, <3>2, <3>3
  <2> HIDE DEF t
  <2>3. NotLonger(t, i + 1, word) BY <1>1, <1>2, <2>2 DEF NotLonger, x
  <2>4. ASSUME i > 0, <<word[i], word[i + 1]>> = pair PROVE Len(s) < i
    <3> SUFFICES ASSUME Len(s) = i PROVE FALSE BY <1>1
    <3>1. s # <<>> /\ Last(s) = word[i] BY <1>1, <2>4
    <3>2. word[i] = pair[1] /\ x = pair[2] BY <2>4 DEF x
    <3> QED BY <1>4, <3>1, <3>2
  <2>5. Len(s) < i => Len(t) < i + 1 BY <1>1, <2>2
  <2> QED BY <2>3, <2>4, <2>5 DEF t, x
<1> QED BY <1>3, <1>4

\* Merging a pair that the word has makes the word shorter.
LEMMA MergeAllShortens ==
    ASSUME NEW word \in Seq(Token), NEW pair \in Token \X Token, pair \in Neighbours(word)
    PROVE  Len(MergeAll(word, pair)) < Len(word)
<1>1. Len(word) \in Nat BY LenProperties
<1>2. PICK f : Merging(f, word, pair) BY WordsMerge
<1>3. /\ f[0] = <<>> /\ MergeAll(word, pair) = f[Len(word)]
      /\ \A i \in 1 .. Len(word) : f[i] = MergeStep(f[i - 1], word[i], pair)
  BY <1>2 DEF Merging
<1>4. PICK j \in 1 .. Len(word) - 1 : pair = <<word[j], word[j + 1]>> BY DEF Neighbours
<1> DEFINE done == {i \in Nat : i <= Len(word) =>
                      NotLonger(f[i], i, word) /\ (i > j => Len(f[i]) < i)}
<1>5. 0 \in done
  <2>1. <<>> \in Seq(Token) /\ Len(<<>>) = 0 BY EmptySeq
  <2>2. NotLonger(f[0], 0, word) BY <1>3, <2>1 DEF NotLonger
  <2> QED BY <1>1, <2>2
<1>6. ASSUME NEW i \in Nat, i \in done PROVE i + 1 \in done
  <2> SUFFICES ASSUME i + 1 <= Len(word)
               PROVE  NotLonger(f[i + 1], i + 1, word) /\ (i + 1 > j => Len(f[i + 1]) < i + 1)
    OBVIOUS
  <2>1. i + 1 \in 1 .. Len(word) /\ (i + 1) - 1 = i BY <1>1
  <2>2. NotLonger(f[i], i, word) /\ (i > j => Len(f[i]) < i) BY <1>1, <1>6
  <2>3. f[i + 1] = MergeStep(f[i], word[i + 1], pair) BY <1>3, <2>1
  <2>4. PICK s : s = f[i] OBVIOUS
  <2>5. /\ NotLonger(MergeStep(s, word[i + 1], pair), i + 1, word)
        /\ Len(s) < i \/ (i > 0 /\ <<word[i], word[i + 1]>> = pair)
             => Len(MergeStep(s, word[i + 1], pair)) < i + 1
    BY <2>1, <2>2, <2>4, MergeStepLen
  <2>6. ASSUME i + 1 > j PROVE Len(f[i]) < i \/ (i > 0 /\ <<word[i], word[i + 1]>> = pair)
    <3>1. i > j \/ i = j BY <1>1, <2>6
    <3> QED BY <1>1, <1>4, <2>2, <3>1
  <2> QED BY <2>3, <2>4, <2>5, <2>6
<1> HIDE DEF done
<1>7. Len(word) \in done BY <1>1, <1>5, <1>6, SetInduction
<1>8. Len(word) > j BY <1>1
<1>9. Len(f[Len(word)]) < Len(word) BY <1>1, <1>7, <1>8 DEF done
<1> QED BY <1>3, <1>9

\* What a file that ends early leaves of the merges is a list of them too.
LEMMA TornMerges ==
    ASSUME NEW v \in Vocabularies, NEW t \in Torn(v)
    PROVE  MergesTyped(t.merges)
<1> DEFINE S == Seq(STRING) \X Seq(STRING)
<1>1. v.merges \in Seq(S) BY IdsAssumption
<1>2. ASSUME NEW k \in 0 .. Len(v.entries) - 1,
             t = [entries |-> SubSeq(v.entries, 1, k), merges |-> <<>>]
      PROVE  MergesTyped(t.merges)
  <2>1. <<>> \in Seq(Token \X Token) BY EmptySeq
  <2> QED BY <1>2, <2>1 DEF MergesTyped
<1>3. ASSUME NEW k \in 0 .. Len(v.merges) - 1, t = [v EXCEPT !.merges = SubSeq(@, 1, k)]
      PROVE  MergesTyped(t.merges)
  <2>1. v.entries \in Seq([token : Seq(STRING), id : Nat]) BY IdsAssumption
  <2>2. t.merges = SubSeq(v.merges, 1, k) \/ t.merges = v.merges BY <1>3
  <2> HIDE DEF S
  <2>3. PICK merges \in Seq(S) : merges = v.merges BY <1>1
  <2>4. Len(merges) \in Nat /\ k <= Len(merges) BY <1>3, <2>3, LenProperties
  <2>5. \A i \in 1 .. k : merges[i] \in S BY <2>4, ElementOfSeq
  <2>6. SubSeq(merges, 1, k) \in Seq(S) BY <2>5, SubSeqProperties
  <2>7. \A m \in Seq(S) : MergesTyped(m) BY ListsAreTyped DEF S
  <2> QED BY <2>2, <2>3, <2>6, <2>7
<1> QED BY <1>2, <1>3 DEF Torn

(* What is merged is a word, whatever was read for a vocabulary.             *)
MergeInv == MergesTyped(tok.merges) /\ (call.at = "merge" => call.word \in Seq(Token))

LEMMA BestIsPair ==
    ASSUME MergeInv, MergeOnce
    PROVE  /\ tok.merges[Best(call.word)] \in Token \X Token
           /\ tok.merges[Best(call.word)] \in Neighbours(call.word)
<1>1. PICK merges, word : merges = tok.merges /\ word = call.word OBVIOUS
<1>2. MergesTyped(merges) BY <1>1 DEF MergeInv
<1>3. Len(merges) \in Nat BY <1>2, LenProperties DEF MergesTyped
<1>4. Ranks(word) = RanksOf(word, merges) BY <1>1 DEF Ranks, RanksOf
<1>5. Ranks(word) # {} /\ Ranks(word) \subseteq Nat
  <2>1. Ranks(word) # {} BY <1>1 DEF MergeOnce
  <2>2. RanksOf(word, merges) \subseteq 1 .. Len(merges) BY RanksAre
  <2>3. Ranks(word) \subseteq Nat BY <1>3, <1>4, <2>2
  <2> QED BY <2>1, <2>3
<1>6. \E b \in Ranks(word) : \A q \in Ranks(word) : b <= q BY <1>5, LeastExists
<1>7. PICK b : b = Best(word) OBVIOUS
<1>8. b \in RanksOf(word, merges) BY <1>4, <1>6, <1>7 DEF Best
<1>9. b \in 1 .. Len(merges) /\ merges[b] \in Neighbours(word) BY <1>8, RanksAre
<1>10. merges[b] \in Token \X Token BY <1>2, <1>9, ElementOfSeq DEF MergesTyped
<1> QED BY <1>1, <1>7, <1>9, <1>10

LEMMA NextMergeInv == MergeInv /\ TextInv /\ [Next]_vars => MergeInv'
<1> SUFFICES ASSUME MergeInv, TextInv, [Next]_vars PROVE MergeInv' OBVIOUS
<1>1. ASSUME tok'.merges = tok.merges, call'.at # "merge" PROVE MergeInv'
  BY <1>1 DEF MergeInv
<1>2. CASE sam3_test_load_tokenizer
  <2>1. PICK v \in Vocabularies : Refill(v) \/ \E t \in Torn(v) : Refill(t)
    BY <1>2 DEF sam3_test_load_tokenizer
  <2>2. call'.at = "idle" BY <1>2 DEF sam3_test_load_tokenizer
  <2>3. MergesTyped(v.merges)
    <3>1. v.merges \in Seq(Seq(STRING) \X Seq(STRING)) BY IdsAssumption
    <3>2. PICK merges \in Seq(Seq(STRING) \X Seq(STRING)) : merges = v.merges BY <3>1
    <3> QED BY <3>2, ListsAreTyped
  <2>4. \E m : MergesTyped(m) /\ tok'.merges = m BY <2>1, <2>3, TornMerges DEF Refill
  <2> QED BY <2>2, <2>4 DEF MergeInv
<1>3. CASE Begin
  <2>1. PICK text : call' = [NoCall EXCEPT !.at = "split", !.text = text]
    BY <1>3 DEF Begin
  <2> QED BY <1>1, <1>3, <2>1 DEF Begin, NoCall
<1>4. CASE Split BY <1>1, <1>4 DEF Split, TextInv, CallTyped
<1>5. CASE EndSplit BY <1>1, <1>5 DEF EndSplit, TextInv, CallTyped
<1>6. CASE NextWord
  <2> DEFINE e == Encoded(call.words[call.pos])
  <2>1. /\ call.pos <= Len(call.words) /\ tok' = tok
        /\ call' = IF e \in DOMAIN tok.cache
                   THEN [call EXCEPT !.at = "emit", !.word = tok.cache[e]]
                   ELSE [call EXCEPT !.at = "merge", !.word = Symbols(e)]
    BY <1>6 DEF NextWord
  <2>2. e \in Seq(Symbol)
    <3>1. PICK words \in Seq(Seq(Char)), p \in Nat \ {0} : words = call.words /\ p = call.pos
      BY DEF TextInv
    <3>2. p \in 1 .. Len(words)
      <4>1. Len(words) \in Nat BY LenProperties
      <4> QED BY <2>1, <3>1, <4>1
    <3>3. words[p] \in Seq(Char) BY <3>2, ElementOfSeq
    <3> QED BY <3>1, <3>3, EncodedIsSeq
  <2>3. Symbols(e) \in Seq(Token) BY <2>2, SymbolsAreTokens
  <2> HIDE DEF e
  <2>4. call'.at = "emit" \/ call'.word = Symbols(e) BY <2>1 DEF TextInv, CallTyped
  <2> QED BY <2>1, <2>3, <2>4 DEF MergeInv
<1>7. CASE MergeOnce
  <2>1. call.at = "merge" /\ tok' = tok
        /\ call'.word = MergeAll(call.word, tok.merges[Best(call.word)])
    BY <1>7 DEF MergeOnce, TextInv, CallTyped
  <2>2. PICK word \in Seq(Token), pair \in Token \X Token :
          word = call.word /\ pair = tok.merges[Best(call.word)]
    BY <1>7, <2>1, BestIsPair DEF MergeInv
  <2>3. MergeAll(word, pair) \in Seq(Token)
    <3>1. Len(word) \in Nat BY LenProperties
    <3>2. PICK f : Merging(f, word, pair) BY WordsMerge
    <3> QED BY <3>1, <3>2 DEF Merging
  <2> QED BY <2>1, <2>2, <2>3 DEF MergeInv
<1>8. CASE FinishWord
  <2>1. call'.at = "emit" BY <1>8 DEF FinishWord, TextInv, CallTyped
  <2>2. tok'.merges = tok.merges BY <1>8 DEF FinishWord, Cached
  <2> QED BY <1>1, <2>1, <2>2
<1>9. CASE Emit BY <1>1, <1>9 DEF Emit, TextInv, CallTyped
<1>10. CASE EndWord BY <1>1, <1>10 DEF EndWord, TextInv, CallTyped
<1>11. CASE Return BY <1>1, <1>11 DEF Return, TextInv, CallTyped
<1>12. CASE UNCHANGED vars BY <1>12 DEF vars, MergeInv
<1> QED
    BY <1>2, <1>3, <1>4, <1>5, <1>6, <1>7, <1>8, <1>9, <1>10, <1>11, <1>12 DEF Next, Step

(* Each pass of the splitting loop moves on in the text, and no further than *)
(* to its end; each pass of the merging loop shortens the word.              *)
MovesOn ==
    /\ Split => call'.pos > call.pos /\ call'.pos <= Len(call'.text) + 1
    /\ MergeOnce => Len(call'.word) < Len(call.word)

LEMMA SplitMovesOn ==
    ASSUME TextInv, Split
    PROVE  call'.pos > call.pos /\ call'.pos <= Len(call'.text) + 1
<1>1. PICK text \in Seq(Char), p \in Nat \ {0} : text = call.text /\ p = call.pos
  BY DEF TextInv
<1>2. Len(text) \in Nat BY LenProperties
<1>3. p \in 1 .. Len(text) BY <1>1, <1>2 DEF Split
<1>4. CASE text[p] \in Space
  <2>1. call' = [call EXCEPT !.pos = @ + 1] BY <1>1, <1>4 DEF Split
  <2>2. call'.pos = p + 1 /\ call'.text = text BY <1>1, <2>1 DEF TextInv, CallTyped
  <2> QED BY <1>1, <1>2, <1>3, <2>2
<1>5. CASE text[p] \notin Space
  <2>1. PICK w : w = Piece(text, p) OBVIOUS
  <2>2. call' = [call EXCEPT !.pos = @ + Len(w), !.words = Append(@, w)]
    BY <1>1, <1>5, <2>1 DEF Split
  <2>3. call'.pos = p + Len(w) /\ call'.text = text BY <1>1, <2>2 DEF TextInv, CallTyped
  <2>4. PICK n : CutOut(w, n, text, p) BY <1>3, <1>5, <2>1, PieceCut
  <2>5. Len(w) = n /\ n \in Nat \ {0} /\ p + n - 1 <= Len(text)
    BY <1>3, <2>4, CutIsWord DEF CutOut
  <2> QED BY <1>1, <1>2, <1>3, <2>3, <2>5
<1> QED BY <1>4, <1>5

(* The two loops of sam3_tokenize without a counter end: whatever was read   *)
(* for a vocabulary, splitting moves on to the end of the text, and merging  *)
(* until no pair is left makes the word shorter each time.                   *)
THEOREM LoopsMoveOn == Spec => [][MovesOn]_vars
<1>1. Init => MergeInv
  <2>1. <<>> \in Seq(Token \X Token) BY EmptySeq
  <2> QED BY <2>1 DEF Init, NoVocabulary, NoCall, MergeInv, MergesTyped
<1>2. MergeInv /\ TextInv /\ [Next]_vars => [MovesOn]_vars
  <2> SUFFICES ASSUME MergeInv, TextInv PROVE MovesOn BY DEF vars
  <2>1. ASSUME MergeOnce PROVE Len(call'.word) < Len(call.word)
    <3>1. call.at = "merge"
          /\ call'.word = MergeAll(call.word, tok.merges[Best(call.word)])
      BY <2>1 DEF MergeOnce, TextInv, CallTyped
    <3>2. PICK word \in Seq(Token), pair \in Token \X Token :
            word = call.word /\ pair = tok.merges[Best(call.word)] /\ pair \in Neighbours(word)
      BY <2>1, <3>1, BestIsPair DEF MergeInv
    <3>3. Len(MergeAll(word, pair)) < Len(word) BY <3>2, MergeAllShortens
    <3> QED BY <3>1, <3>2, <3>3
  <2> QED BY <2>1, SplitMovesOn DEF MovesOn
<1> QED BY InitTextInv, NextTextInv, NextMergeInv, <1>1, <1>2, PTL DEF Spec
=============================================================================
