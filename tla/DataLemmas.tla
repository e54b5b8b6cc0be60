----------------------------- MODULE DataLemmas -----------------------------
(* Facts about data that the proofs of the batch programs share: induction, *)
(* and what the recursive definitions compute.  An induction is over a set: *)
(* the members for which the fact holds are the numbers, or the subsets,    *)
(* one is taken through, and the set is all of them.                        *)
EXTENDS Integers, Sequences, FiniteSets, SequencesExt, FiniteSetTheorems, SequenceTheorems,
        WellFoundedInduction, TLAPS

-----------------------------------------------------------------------------
(* Induction *)

\* A set of subsets of a finite set has a smallest.
LEMMA SmallestSubset ==
  ASSUME NEW S, IsFiniteSet(S), NEW T, T \subseteq SUBSET S, T # {}
  PROVE  \E x \in T : \A y \in T : y \subseteq x => y = x
<1>1. T \subseteq FiniteSubsetsOf(S)
  BY FS_Subset DEF FiniteSubsetsOf
<1>2. PICK x \in T : \A y \in T : <<y, x>> \notin StrictSubsetOrdering(S)
  BY <1>1, FS_StrictSubsetOrderingWellFounded, WFMin
<1>3. ASSUME NEW y \in T, y \subseteq x, y # x PROVE FALSE
  <2>1. <<y, x>> \in (SUBSET S) \X (SUBSET S)
    OBVIOUS
  <2>2. <<y, x>> \in StrictSubsetOrdering(S)
    BY <1>3, <2>1 DEF StrictSubsetOrdering
  <2> QED BY <1>2, <2>2
<1> QED BY <1>3

\* What holds of the empty set, and of a set with one more member, holds of
\* every finite set.
LEMMA OneByOne ==
  ASSUME NEW S, IsFiniteSet(S), NEW T, {} \in T,
         \A U \in SUBSET S : \A x \in S \ U : U \in T => U \cup {x} \in T
  PROVE  S \in T
<1> SUFFICES ASSUME S \notin T PROVE FALSE
  OBVIOUS
<1> DEFINE Left == {S \ U : U \in T \cap SUBSET S}
<1>1. Left \subseteq SUBSET S /\ Left # {}
  OBVIOUS
<1>2. PICK x \in Left : \A y \in Left : y \subseteq x => y = x
  <2> HIDE DEF Left
  <2> QED BY <1>1, SmallestSubset
<1>3. PICK U \in T \cap SUBSET S : x = S \ U
  OBVIOUS
<1>4. PICK e \in S : e \notin U
  <2> HIDE DEF Left
  <2>1. U \subseteq S /\ U # S
    OBVIOUS
  <2> QED BY <2>1
<1>5. U \cup {e} \in T \cap SUBSET S
  BY <1>4
<1>6. S \ (U \cup {e}) \in Left /\ S \ (U \cup {e}) \subseteq x
  BY <1>3, <1>5
<1>7. S \ (U \cup {e}) = x
  <2> HIDE DEF Left
  <2> QED BY <1>2, <1>6
<1> QED BY <1>3, <1>4, <1>7

\* A set of natural numbers has a least.
LEMMA LeastNumber ==
  ASSUME NEW T, T \subseteq Nat, T # {}
  PROVE  \E x \in T : \A y \in T : x <= y
<1>1. PICK b \in T : TRUE
  OBVIOUS
<1> DEFINE Low == {m \in T : m <= b}
           Up(n) == {m \in Low : m <= n}
           Ups == {Up(n) : n \in Low}
<1>a. \A y \in T : y \in Nat
  OBVIOUS
<1>2. b \in Nat /\ IsFiniteSet(0 .. b) /\ Low \subseteq 0 .. b
  <2>1. b \in Nat
    BY <1>a
  <2>2. IsFiniteSet(0 .. b)
    BY <2>1, FS_Interval
  <2>3. ASSUME NEW m \in T, m <= b PROVE m \in 0 .. b
    BY <1>a, <2>1, <2>3
  <2> QED BY <2>1, <2>2, <2>3
<1>3. IsFiniteSet(Low)
  BY <1>2, FS_Subset
<1>4. Ups \subseteq SUBSET Low /\ Ups # {}
  <2>1. Up(b) \in Ups
    BY <1>1, <1>2
  <2> QED BY <2>1
<1>5. PICK x \in Ups : \A y \in Ups : y \subseteq x => y = x
  <2> HIDE DEF Ups, Low
  <2> QED BY <1>3, <1>4, SmallestSubset
<1>6. PICK n \in Low : x = Up(n)
  OBVIOUS
<1>7. ASSUME NEW m \in Low, m < n PROVE FALSE
  <2>1. \A y \in Low : y \in Nat
    BY <1>2
  <2>2. Up(m) \subseteq Up(n)
    <3>1. \A y \in Low : y <= m => y <= n
      BY <1>7, <2>1
    <3> QED BY <3>1
  <2>3. n \in Up(n) /\ n \notin Up(m)
    BY <1>7, <2>1
  <2>4. Up(m) \in Ups
    OBVIOUS
  <2> HIDE DEF Ups, Up
  <2> QED BY <1>5, <1>6, <2>2, <2>3, <2>4
<1>8. \A y \in T : n <= y
  <2>1. n \in Nat /\ n <= b
    BY <1>2
  <2>2. \A y \in T : y \in Nat
    OBVIOUS
  <2> QED BY <1>1, <1>7, <2>1, <2>2
<1> QED BY <1>8

\* A finite set of integers has a greatest.
LEMMA IntegersHaveAGreatest ==
  ASSUME NEW S, IsFiniteSet(S), S \subseteq Int, S # {}
  PROVE  \E x \in S : \A y \in S : y <= x
<1> DEFINE HasOne(U) == \E x \in U : \A y \in U : y <= x
           T == {U \in SUBSET S : U # {} => HasOne(U)}
<1>1. \A x \in S : x \in Int
  OBVIOUS
<1>2. {} \in T
  OBVIOUS
<1>3. ASSUME NEW U \in SUBSET S, NEW x \in S \ U, U \in T PROVE U \cup {x} \in T
  <2>1. CASE U = {}
    <3>1. \A y \in U \cup {x} : y <= x
      BY <1>1, <2>1
    <3> QED BY <3>1
  <2>2. CASE U # {}
    <3>1. PICK m \in U : \A y \in U : y <= m
      BY <1>3, <2>2
    <3>2. m \in Int /\ x \in Int /\ \A y \in U : y \in Int
      BY <1>1
    <3>3. CASE x <= m
      <4>1. \A y \in U \cup {x} : y <= m
        BY <3>1, <3>3
      <4> QED BY <4>1
    <3>4. CASE m < x
      <4>1. \A y \in U \cup {x} : y <= x
        BY <3>1, <3>2, <3>4
      <4> QED BY <4>1
    <3> QED BY <3>2, <3>3, <3>4
  <2> QED BY <2>1, <2>2
<1>4. S \in T
  <2> HIDE DEF T
  <2> QED BY <1>2, <1>3, OneByOne
<1> QED BY <1>4

\* What holds of zero, and of the number after one it holds of, holds of all.
LEMMA FromZeroUp ==
  ASSUME NEW T, 0 \in T, \A n \in Nat : n \in T => n + 1 \in T
  PROVE  Nat \subseteq T
<1> SUFFICES ASSUME NEW k \in Nat, k \notin T PROVE FALSE
  OBVIOUS
<1> DEFINE Out == {n \in Nat : n \notin T}
<1>1. PICK x \in Out : \A y \in Out : x <= y
  <2>1. Out \subseteq Nat /\ Out # {}
    OBVIOUS
  <2> HIDE DEF Out
  <2> QED BY <2>1, LeastNumber
<1>2. x # 0 /\ x - 1 \in Nat /\ x - 1 \notin Out
  BY <1>1
<1>3. x - 1 \in T /\ (x - 1) + 1 = x
  BY <1>2
<1> QED BY <1>2, <1>3

\* F is the step of a recursion over D: it looks only at places of lower rank,
\* and ranks are bounded.
IsRecursion(F, D, V, rank, n) ==
    /\ V # {} /\ n \in Nat /\ rank \in [D -> 0 .. n]
    /\ F \in [D \X [D -> V] -> V]
    /\ \A d \in D : \A g, h \in [D -> V] :
          (\A e \in D : rank[e] < rank[d] => g[e] = h[e]) => F[<<d, g>>] = F[<<d, h>>]

\* A function whose value at each place depends on its values at places of lower
\* rank only is there to be chosen, and has its values in the expected set.
LEMMA RecursionIsSound ==
  ASSUME NEW F, NEW D, NEW V, NEW rank, NEW n, IsRecursion(F, D, V, rank, n)
  PROVE  \E g \in [D -> V] : \A d \in D : g[d] = F[<<d, g>>]
<1> DEFINE Below(k, g) == \A d \in D : rank[d] < k => g[d] = F[<<d, g>>]
           T == {k \in Nat : \E g \in [D -> V] : Below(k, g)}
<1>1. n \in Nat /\ \A d \in D : rank[d] \in Nat /\ rank[d] < n + 1
  BY DEF IsRecursion
<1>2. 0 \in T
  <2>0. PICK v0 \in V : TRUE
    BY DEF IsRecursion
  <2>1. [d \in D |-> v0] \in [D -> V]
    OBVIOUS
  <2>2. Below(0, [d \in D |-> v0])
    BY <1>1
  <2> HIDE DEF Below
  <2> QED BY <2>1, <2>2
<1>3. ASSUME NEW k \in Nat, k \in T PROVE k + 1 \in T
  <2>1. PICK g \in [D -> V] : Below(k, g)
    BY <1>3
  <2> DEFINE h == [d \in D |-> IF rank[d] < k THEN g[d] ELSE F[<<d, g>>]]
  <2>2. h \in [D -> V]
    BY DEF IsRecursion
  <2>3. ASSUME NEW d \in D, rank[d] < k + 1 PROVE h[d] = F[<<d, h>>]
    <3>1. h[d] = F[<<d, g>>]
      BY <2>1
    <3>2. \A e \in D : rank[e] < rank[d] => g[e] = h[e]
      BY <1>1, <2>3
    <3> HIDE DEF h
    <3> QED BY <2>2, <3>1, <3>2 DEF IsRecursion
  <2> HIDE DEF h
  <2>4. Below(k + 1, h)
    BY <2>3
  <2> HIDE DEF Below
  <2> QED BY <2>2, <2>4
<1>4. n + 1 \in T
  <2> HIDE DEF T
  <2>1. Nat \subseteq T
    BY <1>2, <1>3, FromZeroUp
  <2> QED BY <1>1, <2>1
<1> QED BY <1>1, <1>4

-----------------------------------------------------------------------------
(* Sequences laid end to end *)

LEMMA FunctionIsList ==
  ASSUME NEW n \in Nat, NEW S, NEW f \in [1 .. n -> S]
  PROVE  f \in Seq(S) /\ Len(f) = n /\ DOMAIN f = 1 .. n
  OBVIOUS

\* The joins of the first, the first two, ... of a list of sequences.
Joins(seqs, S) ==
    CHOOSE fl \in [1 .. Len(seqs) -> Seq(S)] :
        \A i \in 1 .. Len(seqs) : fl[i] = IF i = 1 THEN seqs[i] ELSE fl[i - 1] \o seqs[i]

LEMMA JoinsExist ==
  ASSUME NEW S, NEW seqs \in Seq(Seq(S)), seqs # <<>>
  PROVE  /\ Joins(seqs, S) \in [1 .. Len(seqs) -> Seq(S)]
         /\ Joins(seqs, S)[1] = seqs[1]
         /\ \A i \in 2 .. Len(seqs) : Joins(seqs, S)[i] = Joins(seqs, S)[i - 1] \o seqs[i]
         /\ FlattenSeq(seqs) = Joins(seqs, S)[Len(seqs)]
<1> DEFINE n == Len(seqs)
           D == 1 .. n
           V == Seq(S)
           rank == [i \in D |-> i]
           Step(i, g) == IF i = 1 THEN seqs[i] ELSE g[i - 1] \o seqs[i]
           F == [p \in D \X [D -> V] |-> Step(p[1], p[2])]
<1>1. n \in Nat \ {0} /\ seqs \in [D -> V]
  BY EmptySeq, LenProperties
<1>2. <<>> \in V
  BY EmptySeq
<1>3. rank \in [D -> 0 .. n]
  BY <1>1
<1>4. ASSUME NEW i \in D, NEW g \in [D -> V] PROVE Step(i, g) \in V
  <2>1. i # 1 => i - 1 \in D
    BY <1>1
  <2>2. i # 1 => g[i - 1] \in V
    BY <2>1
  <2> QED BY <1>1, <2>2, ConcatProperties
<1>5. F \in [D \X [D -> V] -> V]
  BY <1>4
<1>6. ASSUME NEW i \in D, NEW g \in [D -> V], NEW h \in [D -> V],
             \A e \in D : rank[e] < rank[i] => g[e] = h[e]
      PROVE  F[<<i, g>>] = F[<<i, h>>]
  <2>1. i # 1 => i - 1 \in D /\ rank[i - 1] < rank[i]
    BY <1>1
  <2> QED BY <1>6, <2>1
<1>7. \E g \in [D -> V] : \A i \in D : g[i] = F[<<i, g>>]
  <2>1. \A i \in D : \A g, h \in [D -> V] :
           (\A e \in D : rank[e] < rank[i] => g[e] = h[e]) => F[<<i, g>>] = F[<<i, h>>]
    BY <1>6
  <2>2. n \in Nat
    BY <1>1
  <2>3. IsRecursion(F, D, V, rank, n)
    <3> HIDE DEF F, rank, D, V, n
    <3> QED BY <1>2, <1>3, <1>5, <2>1, <2>2 DEF IsRecursion
  <2> HIDE DEF F, rank, D, V, n
  <2> QED BY <2>3, RecursionIsSound
<1>8. PICK g \in [D -> V] : \A i \in D : g[i] = Step(i, g)
  BY <1>7
<1> DEFINE fl == Joins(seqs, S)
<1>9. fl \in [D -> V] /\ \A i \in D : fl[i] = Step(i, fl)
  BY <1>8 DEF Joins
<1> DEFINE IsJoin(f) == f = [i \in D |-> Step(i, f)]
           ch == CHOOSE f : IsJoin(f)
<1>10. IsJoin(fl)
  BY <1>9
<1>11. IsJoin(ch)
  BY <1>10
<1>12. FlattenSeq(seqs) = ch[n]
  BY <1>1 DEF FlattenSeq
<1>13. \A k \in Nat : k \in D => ch[k] = fl[k]
  <2> DEFINE T == {k \in Nat : k \in D => ch[k] = fl[k]}
  <2>1. 0 \in T
    OBVIOUS
  <2>2. ASSUME NEW k \in Nat, k \in T PROVE k + 1 \in T
    <3>1. CASE k = 0
      <4>1. 1 \in D
        BY <1>1
      <4>2. ch[1] = seqs[1] /\ fl[1] = seqs[1]
        BY <1>9, <1>11, <4>1
      <4> QED BY <3>1, <4>2
    <3>2. CASE k # 0 /\ k + 1 \in D
      <4>1. k \in D /\ (k + 1) - 1 = k /\ k + 1 # 1
        BY <1>1, <3>2
      <4>2. ch[k + 1] = ch[k] \o seqs[k + 1]
        BY <1>11, <3>2, <4>1
      <4>3. fl[k + 1] = fl[k] \o seqs[k + 1]
        BY <1>9, <3>2, <4>1
      <4>4. ch[k] = fl[k]
        BY <2>2, <4>1
      <4>5. ch[k + 1] = fl[k + 1]
        <5> HIDE DEF ch, fl
        <5> QED BY <4>2, <4>3, <4>4
      <4> QED BY <4>5
    <3> QED BY <3>1, <3>2
  <2> HIDE DEF T
  <2>3. Nat \subseteq T
    BY <2>1, <2>2, FromZeroUp
  <2> QED BY <2>3 DEF T
<1> HIDE DEF fl, ch
<1>14. FlattenSeq(seqs) = fl[n]
  BY <1>1, <1>12, <1>13
<1>15. fl[1] = seqs[1] /\ \A i \in 2 .. n : fl[i] = fl[i - 1] \o seqs[i]
  <2>1. 1 \in D /\ \A i \in 2 .. n : i \in D /\ i # 1
    BY <1>1
  <2> QED BY <1>9, <2>1
<1> QED BY <1>9, <1>14, <1>15 DEF fl

\* `at` lists the places of the first m sequences in order, and flat has what is there.
LaidOut(flat, seqs, m, at) ==
    /\ \A k \in 1 .. Len(flat) :
          /\ at[k] = <<at[k][1], at[k][2]>>
          /\ at[k][1] \in 1 .. m /\ at[k][2] \in 1 .. Len(seqs[at[k][1]])
          /\ flat[k] = seqs[at[k][1]][at[k][2]]
    /\ \A k, l \in 1 .. Len(flat) : k < l =>
          at[k][1] < at[l][1] \/ (at[k][1] = at[l][1] /\ at[k][2] < at[l][2])
    /\ \A b \in 1 .. m : \A o \in 1 .. Len(seqs[b]) : \E k \in 1 .. Len(flat) : at[k] = <<b, o>>

LEMMA LaidOutOneMore ==
  ASSUME NEW S, NEW seqs \in Seq(Seq(S)), NEW m \in Nat, m + 1 \in 1 .. Len(seqs),
         NEW flat \in Seq(S), NEW at, LaidOut(flat, seqs, m, at)
  PROVE  \E wider : LaidOut(flat \o seqs[m + 1], seqs, m + 1, wider)
<1> DEFINE s == seqs[m + 1]
           n == Len(flat)
           long == flat \o s
           wider == [k \in 1 .. Len(long) |-> IF k <= n THEN at[k] ELSE <<m + 1, k - n>>]
<1>1. s \in Seq(S)
  BY LenProperties
<1>2. /\ n \in Nat /\ Len(s) \in Nat /\ Len(long) = n + Len(s)
      /\ \A k \in 1 .. n + Len(s) : long[k] = IF k <= n THEN flat[k] ELSE s[k - n]
  BY <1>1, ConcatProperties, LenProperties
<1> HIDE DEF long, n
<1>3. ASSUME NEW k \in 1 .. Len(long)
      PROVE  /\ k \in Int
             /\ k <= n => k \in 1 .. n /\ wider[k] = at[k] /\ long[k] = flat[k]
             /\ k > n => /\ k - n \in 1 .. Len(s) /\ long[k] = s[k - n]
                         /\ wider[k] = <<m + 1, k - n>>
  BY <1>2
<1>4. ASSUME NEW k \in 1 .. n
      PROVE  /\ at[k] = <<at[k][1], at[k][2]>>
             /\ at[k][1] \in 1 .. m /\ at[k][2] \in 1 .. Len(seqs[at[k][1]])
             /\ flat[k] = seqs[at[k][1]][at[k][2]]
  BY DEF LaidOut, n
<1> HIDE DEF wider, s
<1>5. ASSUME NEW k \in 1 .. Len(long)
      PROVE  /\ wider[k] = <<wider[k][1], wider[k][2]>>
             /\ wider[k][1] \in 1 .. m + 1 /\ wider[k][2] \in 1 .. Len(seqs[wider[k][1]])
             /\ long[k] = seqs[wider[k][1]][wider[k][2]]
  <2>1. CASE k <= n
    <3>1. at[k][1] \in 1 .. m + 1
      BY <1>3, <1>4, <2>1
    <3> QED BY <1>3, <1>4, <2>1, <3>1
  <2>2. CASE k > n
    <3>1. m + 1 \in 1 .. m + 1
      OBVIOUS
    <3> QED BY <1>3, <2>2, <3>1 DEF s
  <2> QED BY <1>2, <1>3, <2>1, <2>2
<1>6. ASSUME NEW k \in 1 .. Len(long), NEW l \in 1 .. Len(long), k < l
      PROVE  wider[k][1] < wider[l][1] \/ (wider[k][1] = wider[l][1] /\ wider[k][2] < wider[l][2])
  <2>1. CASE l <= n
    <3>1. k <= n
      BY <1>2, <1>3, <1>6, <2>1
    <3>2. wider[k] = at[k] /\ wider[l] = at[l] /\ k \in 1 .. n /\ l \in 1 .. n
      BY <1>3, <2>1, <3>1
    <3> QED BY <1>6, <3>2 DEF LaidOut, n
  <2>2. CASE l > n /\ k <= n
    <3>1. k \in 1 .. n /\ wider[k] = at[k] /\ wider[l] = <<m + 1, l - n>>
      BY <1>3, <2>2
    <3>2. wider[k][1] \in 1 .. m
      BY <1>4, <3>1
    <3>3. wider[l][1] = m + 1
      BY <3>1
    <3> QED BY <3>2, <3>3
  <2>3. CASE l > n /\ k > n
    <3>1. /\ wider[k][1] = m + 1 /\ wider[l][1] = m + 1
          /\ wider[k][2] = k - n /\ wider[l][2] = l - n
      BY <1>3, <2>3
    <3> QED BY <1>2, <1>3, <1>6, <3>1
  <2> QED BY <1>2, <1>3, <2>1, <2>2, <2>3
<1>7. ASSUME NEW b \in 1 .. m + 1, NEW o \in 1 .. Len(seqs[b])
      PROVE  \E k \in 1 .. Len(long) : wider[k] = <<b, o>>
  <2>1. CASE b \in 1 .. m
    <3>1. PICK k \in 1 .. n : at[k] = <<b, o>>
      BY <2>1 DEF LaidOut, n
    <3>2. k \in 1 .. Len(long) /\ k <= n
      BY <1>2
    <3> QED BY <1>3, <3>1, <3>2
  <2>2. CASE b = m + 1
    <3>1. o \in 1 .. Len(s)
      BY <2>2 DEF s
    <3>2. n + o \in 1 .. Len(long) /\ n + o > n /\ (n + o) - n = o
      <4>1. n \in Nat /\ Len(s) \in Nat /\ Len(long) = n + Len(s)
        BY <1>2
      <4> QED BY <3>1, <4>1
    <3> QED BY <1>3, <2>2, <3>2
  <2>3. b \in 1 .. m \/ b = m + 1
    OBVIOUS
  <2> QED BY <2>1, <2>2, <2>3
<1>8. LaidOut(long, seqs, m + 1, wider)
  BY <1>5, <1>6, <1>7 DEF LaidOut
<1> QED BY <1>8 DEF long, s

\* A flattened list has what its parts have, part by part and each in its order.
LEMMA FlattenIsLaidOut ==
  ASSUME NEW S, NEW seqs \in Seq(Seq(S))
  PROVE  /\ FlattenSeq(seqs) \in Seq(S)
         /\ \E at : LaidOut(FlattenSeq(seqs), seqs, Len(seqs), at)
<1>0. Len(seqs) \in Nat
  BY LenProperties
<1>1. CASE seqs = <<>>
  <2>1. FlattenSeq(seqs) = <<>> /\ Len(seqs) = 0
    BY <1>1 DEF FlattenSeq
  <2>2. LaidOut(<<>>, seqs, 0, <<>>)
    BY DEF LaidOut
  <2> QED BY <2>1, <2>2, EmptySeq
<1>2. CASE seqs # <<>>
  <2> DEFINE fl == Joins(seqs, S)
             T == {k \in Nat : k \in 1 .. Len(seqs) => \E at : LaidOut(fl[k], seqs, k, at)}
  <2>1. /\ fl \in [1 .. Len(seqs) -> Seq(S)] /\ fl[1] = seqs[1]
        /\ \A i \in 2 .. Len(seqs) : fl[i] = fl[i - 1] \o seqs[i]
        /\ FlattenSeq(seqs) = fl[Len(seqs)]
    BY <1>2, JoinsExist
  <2>2. Len(seqs) # 0
    BY <1>2, EmptySeq
  <2> HIDE DEF fl
  <2>3. ASSUME NEW k \in Nat, k \in T PROVE k + 1 \in T
    <3>1. SUFFICES ASSUME k + 1 \in 1 .. Len(seqs)
                   PROVE  \E at : LaidOut(fl[k + 1], seqs, k + 1, at)
      OBVIOUS
    <3>2. CASE k = 0
      <4>1. LaidOut(<<>>, seqs, 0, <<>>)
        BY DEF LaidOut
      <4>2. \E at : LaidOut(<<>> \o seqs[0 + 1], seqs, 0 + 1, at)
        BY <3>1, <3>2, <4>1, EmptySeq, LaidOutOneMore
      <4>3. seqs[1] \in Seq(S)
        BY <3>1, <3>2, LenProperties
      <4> QED BY <2>1, <3>2, <4>2, <4>3, ConcatEmptySeq
    <3>3. CASE k # 0
      <4>1. k \in 1 .. Len(seqs) /\ k + 1 \in 2 .. Len(seqs) /\ (k + 1) - 1 = k
        BY <1>0, <3>1, <3>3
      <4>2. PICK at : LaidOut(fl[k], seqs, k, at)
        BY <2>3, <4>1
      <4>3. fl[k] \in Seq(S) /\ fl[k + 1] = fl[k] \o seqs[k + 1]
        BY <2>1, <4>1
      <4>4. \E wider : LaidOut(fl[k] \o seqs[k + 1], seqs, k + 1, wider)
        BY <3>1, <4>2, <4>3, LaidOutOneMore
      <4> QED BY <4>3, <4>4
    <3> QED BY <3>2, <3>3
  <2>4. 0 \in T
    OBVIOUS
  <2>5. Len(seqs) \in T
    <3> HIDE DEF T
    <3>1. Nat \subseteq T
      BY <2>3, <2>4, FromZeroUp
    <3> QED BY <1>0, <3>1
  <2>6. Len(seqs) \in 1 .. Len(seqs)
    BY <1>0, <2>2
  <2> QED BY <2>1, <2>5, <2>6
<1> QED BY <1>1, <1>2

-----------------------------------------------------------------------------
(* Sums of natural numbers over a finite set *)

Some(s) == CHOOSE x \in s : TRUE

\* What the sum over S is folded by: a value for every part of S.
PartSums(f, S) ==
    CHOOSE g \in [SUBSET S -> Nat] :
        \A s \in SUBSET S : g[s] = IF s = {} THEN 0 ELSE f[Some(s)] + g[s \ {Some(s)}]

AreSums(a, f, S) ==
    /\ a \in [SUBSET S -> Nat]
    /\ \A s \in SUBSET S : a[s] = IF s = {} THEN 0 ELSE f[Some(s)] + a[s \ {Some(s)}]

LEMMA PartSumsExist ==
  ASSUME NEW S, IsFiniteSet(S), NEW f, \A x \in S : f[x] \in Nat
  PROVE  AreSums(PartSums(f, S), f, S) /\ SumFunctionOnSet(f, S) = PartSums(f, S)[S]
<1> DEFINE n == Cardinality(S)
           D == SUBSET S
           V == Nat
           rank == [s \in D |-> Cardinality(s)]
           Step(s, g) == IF s = {} THEN 0 ELSE f[Some(s)] + g[s \ {Some(s)}]
           F == [p \in D \X [D -> V] |-> Step(p[1], p[2])]
<1>1. n \in Nat /\ \A s \in D : IsFiniteSet(s) /\ Cardinality(s) \in 0 .. n
  <2>1. n \in Nat
    BY FS_CardinalityType
  <2>2. ASSUME NEW s \in D PROVE IsFiniteSet(s) /\ Cardinality(s) \in 0 .. n
    <3>1. IsFiniteSet(s) /\ Cardinality(s) <= n
      BY FS_Subset
    <3>2. Cardinality(s) \in Nat
      BY <3>1, FS_CardinalityType
    <3> QED BY <2>1, <3>1, <3>2
  <2> QED BY <2>1, <2>2
<1>2. rank \in [D -> 0 .. n]
  BY <1>1
<1>3. ASSUME NEW s \in D, s # {}
      PROVE  /\ Some(s) \in s /\ s \ {Some(s)} \in D
             /\ Cardinality(s \ {Some(s)}) = Cardinality(s) - 1
  <2>1. Some(s) \in s
    BY <1>3 DEF Some
  <2> QED BY <1>1, <2>1, FS_RemoveElement
<1>4. ASSUME NEW s \in D, NEW g \in [D -> V] PROVE Step(s, g) \in V
  BY <1>3
<1>5. F \in [D \X [D -> V] -> V]
  BY <1>4
<1>6. ASSUME NEW s \in D, NEW g \in [D -> V], NEW h \in [D -> V],
             \A e \in D : rank[e] < rank[s] => g[e] = h[e]
      PROVE  F[<<s, g>>] = F[<<s, h>>]
  <2>1. CASE s # {}
    <3> DEFINE t == s \ {Some(s)}
    <3>1. t \in D /\ rank[t] < rank[s]
      BY <1>1, <1>3, <2>1
    <3>2. g[t] = h[t]
      BY <1>6, <3>1
    <3> QED BY <3>2
  <2>2. CASE s = {}
    BY <2>2
  <2> QED BY <2>1, <2>2
<1>7. \E g \in [D -> V] : \A s \in D : g[s] = F[<<s, g>>]
  <2>1. \A s \in D : \A g, h \in [D -> V] :
           (\A e \in D : rank[e] < rank[s] => g[e] = h[e]) => F[<<s, g>>] = F[<<s, h>>]
    BY <1>6
  <2>2. n \in Nat /\ V # {}
    BY <1>1
  <2>3. IsRecursion(F, D, V, rank, n)
    <3> HIDE DEF F, rank, D, V, n
    <3> QED BY <1>2, <1>5, <2>1, <2>2 DEF IsRecursion
  <2> HIDE DEF F, rank, D, V, n
  <2> QED BY <2>3, RecursionIsSound
<1>8. \E g \in [D -> V] : \A s \in D : g[s] = Step(s, g)
  <2>1. PICK g \in [D -> V] : \A s \in D : g[s] = F[<<s, g>>]
    BY <1>7
  <2>2. \A s \in D : F[<<s, g>>] = Step(s, g)
    OBVIOUS
  <2> HIDE DEF F
  <2> QED BY <2>1, <2>2
<1> DEFINE parts == PartSums(f, S)
<1>9. parts \in [D -> V] /\ \A s \in D : parts[s] = Step(s, parts)
  BY <1>8 DEF PartSums
<1> DEFINE IsFold(h) == h = [s \in D |-> Step(s, h)]
           ch == CHOOSE h : IsFold(h)
<1>10. IsFold(parts)
  BY <1>9
<1>11. IsFold(ch)
  BY <1>10
<1>12. SumFunctionOnSet(f, S) = ch[S]
  BY DEF SumFunctionOnSet, FoldFunctionOnSet, MapThenFoldSet, Some
<1>13. ch[S] = parts[S]
  <2> DEFINE Odd == {s \in D : ch[s] # parts[s]}
  <2>1. SUFFICES ASSUME Odd # {} PROVE FALSE
    BY <1>9
  <2>2. PICK s \in Odd : \A t \in Odd : t \subseteq s => t = s
    <3>1. Odd \subseteq SUBSET S
      OBVIOUS
    <3> HIDE DEF Odd
    <3> QED BY <2>1, <3>1, SmallestSubset
  <2>3. s # {}
    BY <1>10, <1>11
  <2> DEFINE t == s \ {Some(s)}
  <2>4. t \in D /\ t \subseteq s /\ t # s
    BY <1>3, <2>3
  <2>5. ch[t] = parts[t]
    BY <2>2, <2>4
  <2>6. ch[s] = f[Some(s)] + ch[t] /\ parts[s] = f[Some(s)] + parts[t]
    BY <1>10, <1>11, <2>3
  <2> HIDE DEF ch, parts, t
  <2>7. ch[s] = parts[s]
    BY <2>5, <2>6
  <2> QED BY <2>7
<1>14. AreSums(parts, f, S)
  BY <1>9 DEF AreSums
<1> QED BY <1>12, <1>13, <1>14

LEMMA SumOfNone == ASSUME NEW f PROVE SumFunctionOnSet(f, {}) = 0
<1>1. IsFiniteSet({}) /\ \A x \in {} : f[x] \in Nat
  BY FS_EmptySet
<1>2. SumFunctionOnSet(f, {}) = PartSums(f, {})[{}] /\ \A s \in SUBSET {} : s = {} => PartSums(f, {})[s] = 0
  BY <1>1, PartSumsExist DEF AreSums
<1> QED BY <1>2

\* A part of the set is summed alike, alone or on the way to the whole.
LEMMA PartIsSum ==
  ASSUME NEW S, IsFiniteSet(S), NEW f, \A x \in S : f[x] \in Nat, NEW P \in SUBSET S
  PROVE  PartSums(f, S)[P] = SumFunctionOnSet(f, P) /\ SumFunctionOnSet(f, P) \in Nat
<1>1. IsFiniteSet(P) /\ \A x \in P : f[x] \in Nat
  BY FS_Subset
<1> DEFINE a == PartSums(f, S)
           b == PartSums(f, P)
<1>2. /\ a \in [SUBSET S -> Nat]
      /\ \A s \in SUBSET S : a[s] = IF s = {} THEN 0 ELSE f[Some(s)] + a[s \ {Some(s)}]
  <2>1. AreSums(a, f, S)
    BY PartSumsExist
  <2> QED BY <2>1 DEF AreSums
<1>3. /\ b \in [SUBSET P -> Nat]
      /\ \A s \in SUBSET P : b[s] = IF s = {} THEN 0 ELSE f[Some(s)] + b[s \ {Some(s)}]
      /\ SumFunctionOnSet(f, P) = b[P]
  <2>1. AreSums(b, f, P) /\ SumFunctionOnSet(f, P) = b[P]
    BY <1>1, PartSumsExist
  <2> QED BY <2>1 DEF AreSums
<1> HIDE DEF a, b
<1>4. \A s \in SUBSET P : a[s] = b[s]
  <2> DEFINE Odd == {s \in SUBSET P : a[s] # b[s]}
  <2>1. SUFFICES ASSUME Odd # {} PROVE FALSE
    OBVIOUS
  <2>2. PICK s \in Odd : \A t \in Odd : t \subseteq s => t = s
    <3>1. Odd \subseteq SUBSET P
      OBVIOUS
    <3> HIDE DEF Odd
    <3> QED BY <1>1, <2>1, <3>1, SmallestSubset
  <2>3. s \in SUBSET P /\ s \in SUBSET S
    OBVIOUS
  <2>4. s # {}
    BY <1>2, <1>3, <2>3
  <2> DEFINE t == s \ {Some(s)}
  <2>5. t \in SUBSET P /\ t \subseteq s /\ t # s
    BY <2>4 DEF Some
  <2>6. a[t] = b[t]
    BY <2>2, <2>5
  <2>7. a[s] = f[Some(s)] + a[t] /\ b[s] = f[Some(s)] + b[t]
    BY <1>2, <1>3, <2>3, <2>4
  <2> HIDE DEF t
  <2>8. a[s] = b[s]
    BY <2>6, <2>7
  <2> QED BY <2>8
<1> QED BY <1>3, <1>4 DEF a

\* Some member is the first to be taken.
LEMMA SumTakesOne ==
  ASSUME NEW S, IsFiniteSet(S), S # {}, NEW f, \A x \in S : f[x] \in Nat
  PROVE  Some(S) \in S /\ SumFunctionOnSet(f, S) = f[Some(S)] + SumFunctionOnSet(f, S \ {Some(S)})
<1>1. Some(S) \in S /\ S \ {Some(S)} \in SUBSET S /\ S \in SUBSET S
  BY DEF Some
<1>2. PartSums(f, S)[S] = f[Some(S)] + PartSums(f, S)[S \ {Some(S)}]
  <2>1. AreSums(PartSums(f, S), f, S)
    BY PartSumsExist
  <2> QED BY <1>1, <2>1 DEF AreSums
<1>3. PartSums(f, S)[S] = SumFunctionOnSet(f, S)
      /\ PartSums(f, S)[S \ {Some(S)}] = SumFunctionOnSet(f, S \ {Some(S)})
  BY <1>1, PartIsSum
<1> QED BY <1>1, <1>2, <1>3

\* It makes no difference which.
LEMMA SumTakesAny ==
  ASSUME NEW S, IsFiniteSet(S), NEW f, \A x \in S : f[x] \in Nat
  PROVE  \A x \in S : SumFunctionOnSet(f, S) = f[x] + SumFunctionOnSet(f, S \ {x})
<1> DEFINE sum(s) == SumFunctionOnSet(f, s)
           Fair(s) == \A x \in s : sum(s) = f[x] + sum(s \ {x})
           Odd == {s \in SUBSET S : ~Fair(s)}
<1>1. SUFFICES ASSUME Odd # {} PROVE FALSE
  OBVIOUS
<1>2. PICK s \in Odd : \A t \in Odd : t \subseteq s => t = s
  <2>1. Odd \subseteq SUBSET S
    OBVIOUS
  <2> HIDE DEF Odd
  <2> QED BY <1>1, <2>1, SmallestSubset
<1>3. PICK x \in s : sum(s) # f[x] + sum(s \ {x})
  OBVIOUS
<1>4. \A t \in SUBSET S : sum(t) \in Nat
  BY PartIsSum
<1> DEFINE y == Some(s)
<1>5. y \in s /\ sum(s) = f[y] + sum(s \ {y})
  <2>1. IsFiniteSet(s) /\ s # {} /\ \A z \in s : f[z] \in Nat
    BY <1>3, FS_Subset
  <2> QED BY <2>1, SumTakesOne
<1> HIDE DEF y
<1>6. x # y
  BY <1>3, <1>5
<1>7. Fair(s \ {y}) /\ Fair(s \ {x})
  <2>1. /\ s \ {y} \in SUBSET S /\ s \ {y} \subseteq s /\ s \ {y} # s
        /\ s \ {x} \in SUBSET S /\ s \ {x} \subseteq s /\ s \ {x} # s
    BY <1>3, <1>5
  <2> HIDE DEF Fair
  <2> QED BY <1>2, <2>1
<1>8. x \in s \ {y} /\ y \in s \ {x} /\ (s \ {y}) \ {x} = (s \ {x}) \ {y}
  BY <1>3, <1>5, <1>6
<1>9. sum(s \ {y}) = f[x] + sum((s \ {x}) \ {y}) /\ sum(s \ {x}) = f[y] + sum((s \ {x}) \ {y})
  BY <1>7, <1>8
<1>10. f[x] \in Nat /\ f[y] \in Nat /\ sum((s \ {x}) \ {y}) \in Nat
  BY <1>3, <1>4, <1>5
<1> HIDE DEF sum
<1> QED BY <1>3, <1>5, <1>9, <1>10

\* One more.
LEMMA SumOfOneMore ==
  ASSUME NEW S, IsFiniteSet(S), NEW x, x \notin S, NEW f, \A y \in S \cup {x} : f[y] \in Nat
  PROVE  SumFunctionOnSet(f, S \cup {x}) = f[x] + SumFunctionOnSet(f, S) /\ SumFunctionOnSet(f, S) \in Nat
<1>1. IsFiniteSet(S \cup {x}) /\ (S \cup {x}) \ {x} = S /\ x \in S \cup {x} /\ S \in SUBSET (S \cup {x})
  BY FS_AddElement
<1>2. SumFunctionOnSet(f, S \cup {x}) = f[x] + SumFunctionOnSet(f, (S \cup {x}) \ {x})
  BY <1>1, SumTakesAny
<1>3. SumFunctionOnSet(f, S) \in Nat
  BY <1>1, PartIsSum
<1> QED BY <1>1, <1>2, <1>3

\* More members with no less each sum to no less.
LEMMA SumIsMonotone ==
  ASSUME NEW S, IsFiniteSet(S), NEW P \in SUBSET S, NEW f, NEW g,
         \A x \in P : f[x] \in Nat /\ f[x] <= g[x], \A x \in S : g[x] \in Nat
  PROVE  /\ SumFunctionOnSet(f, P) \in Nat /\ SumFunctionOnSet(g, S) \in Nat
         /\ SumFunctionOnSet(f, P) <= SumFunctionOnSet(g, S)
<1> DEFINE T == {U \in SUBSET S : /\ SumFunctionOnSet(f, U \cap P) \in Nat
                                  /\ SumFunctionOnSet(g, U) \in Nat
                                  /\ SumFunctionOnSet(f, U \cap P) <= SumFunctionOnSet(g, U)}
<1>1. {} \in T
  BY SumOfNone
<1>2. ASSUME NEW U \in SUBSET S, NEW x \in S \ U, U \in T PROVE U \cup {x} \in T
  <2>1. IsFiniteSet(U) /\ IsFiniteSet(U \cap P)
    BY FS_Subset
  <2>2. SumFunctionOnSet(g, U \cup {x}) = g[x] + SumFunctionOnSet(g, U) /\ g[x] \in Nat
    BY <2>1, SumOfOneMore
  <2>3. /\ SumFunctionOnSet(f, U \cap P) \in Nat /\ SumFunctionOnSet(g, U) \in Nat
        /\ SumFunctionOnSet(f, U \cap P) <= SumFunctionOnSet(g, U)
    BY <1>2
  <2>4. CASE x \in P
    <3>1. (U \cup {x}) \cap P = (U \cap P) \cup {x} /\ x \notin U \cap P
      BY <2>4
    <3>2. SumFunctionOnSet(f, (U \cap P) \cup {x}) = f[x] + SumFunctionOnSet(f, U \cap P)
      BY <2>1, <2>4, <3>1, SumOfOneMore
    <3>3. f[x] \in Nat /\ f[x] <= g[x]
      BY <2>4
    <3> QED BY <2>2, <2>3, <3>1, <3>2, <3>3
  <2>5. CASE x \notin P
    <3>1. (U \cup {x}) \cap P = U \cap P
      BY <2>5
    <3>2. SumFunctionOnSet(f, U \cap P) <= SumFunctionOnSet(g, U \cup {x}) /\ SumFunctionOnSet(g, U \cup {x}) \in Nat
      BY <2>2, <2>3
    <3> QED BY <2>3, <3>1, <3>2
  <2> QED BY <2>4, <2>5
<1>3. S \in T
  <2> HIDE DEF T
  <2> QED BY <1>1, <1>2, OneByOne
<1>4. S \cap P = P
  OBVIOUS
<1> QED BY <1>3, <1>4

-----------------------------------------------------------------------------
(* The places of the members of a finite set in an order of them *)

\* R puts the members of S in one line: <<x, y>> when x comes no later than y.
IsLine(R, S) ==
    /\ \A x \in S : <<x, x>> \in R
    /\ \A x, y \in S : <<x, y>> \in R \/ <<y, x>> \in R
    /\ \A x, y \in S : <<x, y>> \in R /\ <<y, x>> \in R => x = y
    /\ \A x, y, z \in S : <<x, y>> \in R /\ <<y, z>> \in R => <<x, z>> \in R

NoLater(R, S, x) == {y \in S : <<y, x>> \in R}

ArePlaces(place, R, S) ==
    /\ place \in [S -> 1 .. Cardinality(S)]
    /\ \A x, y \in S : place[x] <= place[y] <=> <<x, y>> \in R
    /\ \A x, y \in S : place[x] = place[y] => x = y
    /\ \A k \in 1 .. Cardinality(S) : \E x \in S : place[x] = k

\* Counting who comes no later gives each member a number of its own, in order.
LEMMA PlacesInALine ==
  ASSUME NEW S, IsFiniteSet(S), NEW R, IsLine(R, S)
  PROVE  Cardinality(S) \in Nat /\ ArePlaces([x \in S |-> Cardinality(NoLater(R, S, x))], R, S)
<1> DEFINE n == Cardinality(S)
           place == [x \in S |-> Cardinality(NoLater(R, S, x))]
<1>1. n \in Nat
  BY FS_CardinalityType
<1>2. ASSUME NEW x \in S
      PROVE  IsFiniteSet(NoLater(R, S, x)) /\ place[x] = Cardinality(NoLater(R, S, x)) /\ place[x] \in 1 .. n
  <2>1. NoLater(R, S, x) \in SUBSET S /\ x \in NoLater(R, S, x)
    BY DEF NoLater, IsLine
  <2>2. IsFiniteSet(NoLater(R, S, x)) /\ Cardinality(NoLater(R, S, x)) <= n
    BY <2>1, FS_Subset
  <2>3. Cardinality(NoLater(R, S, x)) \in Nat /\ Cardinality(NoLater(R, S, x)) # 0
    BY <2>1, <2>2, FS_CardinalityType, FS_EmptySet
  <2> QED BY <1>1, <2>2, <2>3
<1>3. ASSUME NEW x \in S, NEW y \in S, <<x, y>> \in R
      PROVE  place[x] <= place[y] /\ (place[x] = place[y] => x = y)
  <2>1. NoLater(R, S, x) \in SUBSET NoLater(R, S, y)
    BY <1>3 DEF NoLater, IsLine
  <2>2. Cardinality(NoLater(R, S, x)) <= Cardinality(NoLater(R, S, y))
        /\ (Cardinality(NoLater(R, S, x)) = Cardinality(NoLater(R, S, y)) => NoLater(R, S, x) = NoLater(R, S, y))
    BY <1>2, <2>1, FS_Subset
  <2>3. NoLater(R, S, x) = NoLater(R, S, y) => x = y
    BY <1>3 DEF NoLater, IsLine
  <2> QED BY <1>2, <2>2, <2>3
<1> DEFINE p == place
<1>4. p = [x \in S |-> p[x]] /\ p \in [S -> 1 .. n]
  BY <1>2
<1>5. ASSUME NEW x \in S, NEW y \in S
      PROVE  (p[x] <= p[y] <=> <<x, y>> \in R) /\ (p[x] = p[y] => x = y)
  <2>1. <<x, y>> \in R \/ <<y, x>> \in R
    BY DEF IsLine
  <2> HIDE DEF place, n
  <2>2. p[x] \in Int /\ p[y] \in Int
    BY <1>4
  <2>3. <<x, y>> \in R => p[x] <= p[y] /\ (p[x] = p[y] => x = y)
    BY <1>3
  <2>4. <<y, x>> \in R => p[y] <= p[x] /\ (p[x] = p[y] => x = y)
    BY <1>3
  <2>5. <<x, x>> \in R
    BY DEF IsLine
  <2> QED BY <2>1, <2>2, <2>3, <2>4, <2>5
<1>6. ASSUME NEW k \in 1 .. n PROVE \E x \in S : p[x] = k
  <2> HIDE DEF place
  <2>1. p \in Injection(S, 1 .. n)
    BY <1>4, <1>5 DEF Injection, IsInjective
  <2>2. IsFiniteSet(1 .. n) /\ Cardinality(1 .. n) = n
    BY <1>1, FS_Interval
  <2>3. p \in Surjection(S, 1 .. n)
    BY <2>1, <2>2, FS_Injection
  <2> QED BY <2>3 DEF Surjection
<1>7. ArePlaces(p, R, S)
  <2> HIDE DEF p
  <2> QED BY <1>4, <1>5, <1>6 DEF ArePlaces
<1> QED BY <1>1, <1>7
=============================================================================
