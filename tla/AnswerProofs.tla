---------------------------- MODULE AnswerProofs ----------------------------
(* What RootEngine answers, for whatever corpus was written and whatever is  *)
(* asked: by what a root came to be on an answer, in what order, and that    *)
(* peeling and reading a shape undo what they undo.                          *)
EXTENDS RootEngine, DataLemmas

-----------------------------------------------------------------------------
(* Sets in a line *)

\* s goes through S, each member once, along R.
GoesThrough(s, S, R) ==
    /\ Cardinality(S) \in Nat /\ s \in Seq(S) /\ Len(s) = Cardinality(S)
    /\ s \in [1 .. Len(s) -> S] /\ DOMAIN s = 1 .. Len(s)
    /\ Range(s) = S
    /\ \A x \in S : \E k \in DOMAIN s : s[k] = x
    /\ \A i, j \in DOMAIN s : i <= j <=> <<s[i], s[j]>> \in R
    /\ \A i, j \in DOMAIN s : s[i] = s[j] => i = j

LEMMA LineIsGoneThrough ==
  ASSUME NEW S, IsFiniteSet(S), NEW R, IsLine(R, S)
  PROVE  GoesThrough(InLine(S, R), S, R)
<1> DEFINE place == [x \in S |-> Cardinality(NoLater(R, S, x))]
           n == Cardinality(S)
           s == InLine(S, R)
<1>1. n \in Nat /\ ArePlaces(place, R, S)
  BY PlacesInALine
<1>2. ASSUME NEW x \in S PROVE place[x] = Cardinality({y \in S : <<y, x>> \in R})
  BY DEF NoLater
<1> HIDE DEF place
<1>3. ASSUME NEW k \in 1 .. n PROVE s[k] \in S /\ place[s[k]] = k
  <2> DEFINE Q(x) == Cardinality({y \in S : <<y, x>> \in R}) = k
  <2>1. PICK x \in S : place[x] = k
    BY <1>1 DEF ArePlaces
  <2>2. Q(x)
    BY <1>2, <2>1
  <2>3. s[k] = CHOOSE z \in S : Q(z)
    BY DEF InLine
  <2> HIDE DEF Q, s
  <2>4. s[k] \in S /\ Q(s[k])
    BY <2>2, <2>3, Zenon
  <2> QED BY <1>2, <2>4 DEF Q
<1>4. s \in [1 .. n -> S]
  <2> DEFINE e(k) == CHOOSE x \in S : Cardinality({y \in S : <<y, x>> \in R}) = k
  <2>1. s = [k \in 1 .. n |-> e(k)]
    BY DEF InLine
  <2> HIDE DEF s, e
  <2>2. \A k \in 1 .. n : s[k] = e(k)
    BY <2>1
  <2> QED BY <1>3, <2>1, <2>2
<1> HIDE DEF s, n
<1>5. s \in Seq(S) /\ Len(s) = n /\ DOMAIN s = 1 .. n
  BY <1>1, <1>4, FunctionIsList
<1>6. ASSUME NEW x \in S PROVE \E k \in DOMAIN s : s[k] = x
  <2>1. place[x] \in 1 .. n
    BY <1>1 DEF ArePlaces, n
  <2>2. s[place[x]] \in S /\ place[s[place[x]]] = place[x]
    BY <1>3, <2>1
  <2>3. s[place[x]] = x
    BY <1>1, <2>2 DEF ArePlaces
  <2> QED BY <1>5, <2>1, <2>3
<1>7. ASSUME NEW i \in DOMAIN s, NEW j \in DOMAIN s
      PROVE  (i <= j <=> <<s[i], s[j]>> \in R) /\ (s[i] = s[j] => i = j)
  BY <1>1, <1>3, <1>5 DEF ArePlaces
<1>8. Range(s) = S
  <2>1. Range(s) \subseteq S
    BY <1>4 DEF Range
  <2>2. S \subseteq Range(s)
    BY <1>6 DEF Range
  <2> QED BY <2>1, <2>2
<1>9. n = Cardinality(S)
  BY DEF n
<1> QED BY <1>1, <1>4, <1>5, <1>6, <1>7, <1>8, <1>9 DEF GoesThrough, s

LEMMA NumbersAreALine ==
  ASSUME NEW S, S \subseteq Int
  PROVE  IsLine({p \in S \X S : p[1] <= p[2]}, S)
<1>1. \A x \in S : x \in Int
  OBVIOUS
<1>2. \A x, y \in S : <<x, y>> \in {p \in S \X S : p[1] <= p[2]} <=> x <= y
  OBVIOUS
<1> DEFINE R == {p \in S \X S : p[1] <= p[2]}
<1> HIDE DEF R
<1> QED BY <1>1, <1>2 DEF IsLine, R

\* s is S from its least number up.
Rises(s, S) ==
    /\ s \in Seq(S) /\ Len(s) = Cardinality(S) /\ DOMAIN s = 1 .. Len(s) /\ s \in [1 .. Len(s) -> S]
    /\ Range(s) = S
    /\ \A x \in S : \E k \in DOMAIN s : s[k] = x
    /\ \A i, j \in DOMAIN s : i < j <=> s[i] < s[j]

LEMMA AscendingRises ==
  ASSUME NEW S, S \subseteq Int, IsFiniteSet(S)
  PROVE  Rises(Ascending(S), S)
<1> DEFINE R == {p \in S \X S : p[1] <= p[2]}
           s == Ascending(S)
<1>1. GoesThrough(s, S, R)
  <2> HIDE DEF R
  <2>1. IsLine(R, S)
    BY NumbersAreALine DEF R
  <2> QED BY <2>1, LineIsGoneThrough DEF Ascending, R
<1>2. \A x, y \in S : <<x, y>> \in R <=> x <= y
  OBVIOUS
<1>3. \A x \in S : x \in Int
  OBVIOUS
<1> HIDE DEF R, s
<1>4. ASSUME NEW i \in DOMAIN s, NEW j \in DOMAIN s PROVE i < j <=> s[i] < s[j]
  <2>1. i \in Int /\ j \in Int /\ s[i] \in S /\ s[j] \in S
    BY <1>1 DEF GoesThrough
  <2>2. (i <= j <=> <<s[i], s[j]>> \in R) /\ (j <= i <=> <<s[j], s[i]>> \in R)
    BY <1>1 DEF GoesThrough
  <2>3. (i <= j <=> s[i] <= s[j]) /\ (j <= i <=> s[j] <= s[i])
    BY <1>2, <2>1, <2>2
  <2>4. s[i] \in Int /\ s[j] \in Int
    BY <1>3, <2>1
  <2> QED BY <2>1, <2>3, <2>4
<1> QED BY <1>1, <1>4 DEF Rises, GoesThrough, s

\* What rises through S is S ascending.
LEMMA AscendingIs ==
  ASSUME NEW n \in Nat, NEW S, S \subseteq Int, NEW t \in [1 .. n -> S],
         \A x \in S : \E k \in 1 .. n : t[k] = x,
         \A i, j \in 1 .. n : i < j => t[i] < t[j]
  PROVE  Ascending(S) = t /\ IsFiniteSet(S) /\ Cardinality(S) = n
<1> DEFINE R == {p \in S \X S : p[1] <= p[2]}
           UpTo(x) == {y \in S : <<y, x>> \in R}
           First(k) == {t[i] : i \in 1 .. k}
<1>1. \A x \in S : x \in Int
  OBVIOUS
<1>2. ASSUME NEW i \in 1 .. n, NEW j \in 1 .. n PROVE (t[i] = t[j] => i = j) /\ (t[i] <= t[j] <=> i <= j)
  <2>1. i < j \/ i = j \/ j < i
    OBVIOUS
  <2>2. t[i] \in Int /\ t[j] \in Int
    BY <1>1
  <2> QED BY <2>1, <2>2
<1>3. \A x, y \in S : <<x, y>> \in R <=> x <= y
  OBVIOUS
<1> HIDE DEF R
<1>4. ASSUME NEW k \in 0 .. n
      PROVE  IsFiniteSet(First(k)) /\ Cardinality(First(k)) = k
  <2> DEFINE U == First(k)
             f == [i \in 1 .. k |-> t[i]]
  <2>1. f \in Bijection(1 .. k, U)
    <3>1. f \in [1 .. k -> U] /\ \A i, j \in 1 .. k : f[i] = f[j] => i = j
      BY <1>2
    <3>2. \A u \in U : \E i \in 1 .. k : f[i] = u
      OBVIOUS
    <3> HIDE DEF f, U
    <3> QED BY <3>1, <3>2 DEF Bijection, Injection, IsInjective, Surjection
  <2>2. IsFiniteSet(1 .. k) /\ Cardinality(1 .. k) = k
    BY FS_Interval
  <2> HIDE DEF f, U
  <2>3. IsFiniteSet(U) /\ Cardinality(1 .. k) = Cardinality(U)
    BY <2>1, <2>2, FS_Bijection DEF ExistsBijection
  <2> QED BY <2>2, <2>3 DEF U
<1>5. S = First(n)
  OBVIOUS
<1>6. IsFiniteSet(S) /\ Cardinality(S) = n
  <2> HIDE DEF First
  <2>1. n \in 0 .. n
    OBVIOUS
  <2> QED BY <1>4, <1>5, <2>1
<1>7. ASSUME NEW k \in 1 .. n PROVE t[k] \in S /\ Cardinality(UpTo(t[k])) = k
  <2>1. UpTo(t[k]) \subseteq First(k)
    <3> SUFFICES ASSUME NEW y \in S, <<y, t[k]>> \in R PROVE \E i \in 1 .. k : y = t[i]
      OBVIOUS
    <3>1. PICK i \in 1 .. n : t[i] = y
      OBVIOUS
    <3>2. t[i] <= t[k]
      BY <1>3, <3>1
    <3>3. i <= k
      BY <1>2, <3>2
    <3> QED BY <3>1, <3>3
  <2>2. First(k) \subseteq UpTo(t[k])
    <3> SUFFICES ASSUME NEW i \in 1 .. k PROVE t[i] \in S /\ <<t[i], t[k]>> \in R
      OBVIOUS
    <3>1. i \in 1 .. n /\ i <= k
      OBVIOUS
    <3>2. t[i] <= t[k] /\ t[i] \in S /\ t[k] \in S
      BY <1>2, <3>1
    <3> QED BY <1>3, <3>2
  <2>3. UpTo(t[k]) = First(k)
    BY <2>1, <2>2
  <2>4. k \in 0 .. n
    OBVIOUS
  <2> HIDE DEF UpTo, First
  <2> QED BY <1>4, <2>3, <2>4
<1>8. GoesThrough(InLine(S, R), S, R)
  <2>1. IsLine(R, S)
    BY NumbersAreALine DEF R
  <2> QED BY <1>6, <2>1, LineIsGoneThrough
<1>9. ASSUME NEW k \in 1 .. n PROVE InLine(S, R)[k] = t[k]
  <2> DEFINE Q(x) == Cardinality(UpTo(x)) = k
  <2>1. t[k] \in S /\ Q(t[k])
    BY <1>7
  <2>2. InLine(S, R)[k] = CHOOSE x \in S : Q(x)
    BY <1>6 DEF InLine
  <2>3. ASSUME NEW x \in S, Q(x) PROVE x = t[k]
    <3>1. PICK i \in 1 .. n : t[i] = x
      OBVIOUS
    <3>2. Cardinality(UpTo(t[i])) = i
      BY <1>7
    <3> HIDE DEF UpTo
    <3> QED BY <2>3, <3>1, <3>2
  <2> HIDE DEF Q
  <2> QED BY <2>1, <2>2, <2>3
<1>10. InLine(S, R) = t
  <2> HIDE DEF R
  <2>1. InLine(S, R) \in [1 .. n -> S]
    BY <1>6, <1>8 DEF GoesThrough
  <2> QED BY <1>9, <2>1
<1> QED BY <1>6, <1>10 DEF Ascending, R

-----------------------------------------------------------------------------
(* Forms *)

\* t is form but for what is dropped of it.
Keeps(t, form, dropped) ==
    /\ t \in Seq(Signs) /\ Len(t) <= Len(form)
    /\ \A k \in DOMAIN t : t[k] \notin dropped /\ \E i \in DOMAIN form : t[k] = form[i]
    /\ \A i \in DOMAIN form : form[i] \notin dropped => \E k \in DOMAIN t : t[k] = form[i]

LEMMA WithoutKeeps ==
  ASSUME NEW form \in Seq(Signs), NEW dropped
  PROVE  Keeps(Without(form, dropped), form, dropped)
<1> DEFINE S == {i \in DOMAIN form : form[i] \notin dropped}
           kept == Ascending(S)
           t == Without(form, dropped)
<1>1. IsFiniteSet(DOMAIN form) /\ DOMAIN form \subseteq Int /\ Cardinality(DOMAIN form) = Len(form)
  <2>1. DOMAIN form = 1 .. Len(form) /\ Len(form) \in Nat
    OBVIOUS
  <2> QED BY <2>1, FS_Interval
<1>2. IsFiniteSet(S) /\ S \subseteq Int /\ Cardinality(S) <= Len(form)
  BY <1>1, FS_Subset
<1>3. Rises(kept, S)
  <2> HIDE DEF S
  <2> QED BY <1>2, AscendingRises
<1>4. t = [k \in DOMAIN kept |-> form[kept[k]]]
  BY DEF Without
<1>5. \A k \in DOMAIN kept : kept[k] \in S
  <2> HIDE DEF S, kept
  <2> QED BY <1>3 DEF Rises
<1>6. \A k \in DOMAIN kept : kept[k] \in DOMAIN form /\ form[kept[k]] \notin dropped
  BY <1>5
<1>7. \A i \in S : \E k \in DOMAIN kept : kept[k] = i
  <2> HIDE DEF S, kept
  <2> QED BY <1>3 DEF Rises
<1>8. Len(kept) \in Nat /\ DOMAIN kept = 1 .. Len(kept) /\ Len(kept) <= Len(form)
  <2> HIDE DEF S, kept
  <2> QED BY <1>2, <1>3, LenProperties DEF Rises
<1> HIDE DEF kept, t
<1>9. t \in [1 .. Len(kept) -> Signs]
  BY <1>4, <1>6, <1>8
<1>10. t \in Seq(Signs) /\ Len(t) = Len(kept) /\ DOMAIN t = DOMAIN kept
  BY <1>8, <1>9, FunctionIsList
<1>11. ASSUME NEW i \in DOMAIN form, form[i] \notin dropped PROVE \E k \in DOMAIN t : t[k] = form[i]
  BY <1>4, <1>7, <1>11
<1>12. ASSUME NEW k \in DOMAIN t PROVE t[k] \notin dropped /\ \E i \in DOMAIN form : t[k] = form[i]
  BY <1>4, <1>6, <1>10
<1> QED BY <1>8, <1>10, <1>11, <1>12 DEF Keeps, t

LEMMA NothingToDrop ==
  ASSUME NEW form \in Seq(Signs), NEW dropped, \A i \in DOMAIN form : form[i] \notin dropped
  PROVE  Without(form, dropped) = form
<1> DEFINE n == Len(form)
           t == [k \in 1 .. n |-> k]
<1>1. n \in Nat /\ DOMAIN form = 1 .. n /\ {i \in DOMAIN form : form[i] \notin dropped} = 1 .. n
  OBVIOUS
<1>2. 1 .. n \subseteq Int
  OBVIOUS
<1>3. t \in [1 .. n -> 1 .. n] /\ (\A x \in 1 .. n : \E k \in 1 .. n : t[k] = x)
      /\ \A i, j \in 1 .. n : i < j => t[i] < t[j]
  OBVIOUS
<1>4. Ascending(1 .. n) = t
  <2> HIDE DEF t
  <2> QED BY <1>1, <1>2, <1>3, AscendingIs
<1>5. Without(form, dropped) = [k \in DOMAIN t |-> form[t[k]]]
  BY <1>1, <1>4 DEF Without
<1>6. Without(form, dropped) = [k \in 1 .. n |-> form[k]]
  BY <1>5
<1> QED BY <1>1, <1>6

LEMMA FoldedAreSigns == {"A", "w", "y", "h"} \subseteq Signs
<1>1. Alphabet[2] = "A" /\ Alphabet[17] = "w" /\ Alphabet[18] = "y" /\ Alphabet[16] = "h"
  BY DEF Alphabet
<1>2. DOMAIN Alphabet = 1 .. 18
  BY DEF Alphabet
<1>3. {2, 16, 17, 18} \subseteq 1 .. 18
  OBVIOUS
<1> QED BY <1>1, <1>2, <1>3 DEF Signs, Range

LEMMA FormsAreLists ==
  ASSUME NEW form \in Seq(Signs)
  PROVE  /\ Len(form) \in Nat /\ DOMAIN form = 1 .. Len(form) /\ DOMAIN form \subseteq Nat
         /\ DOMAIN form \subseteq Int /\ IsFiniteSet(DOMAIN form)
         /\ form # <<>> => 1 \in DOMAIN form /\ Len(form) \in DOMAIN form
         /\ \A i \in DOMAIN form : form[i] \in Signs /\ i \in Int /\ 1 <= i /\ i <= Len(form)
<1>1. Len(form) \in Nat /\ DOMAIN form = 1 .. Len(form) /\ \A i \in DOMAIN form : form[i] \in Signs
  OBVIOUS
<1>2. form # <<>> => Len(form) # 0
  BY EmptySeq
<1>3. DOMAIN form \subseteq Nat /\ DOMAIN form \subseteq Int
      /\ \A i \in DOMAIN form : i \in Int /\ 1 <= i /\ i <= Len(form)
  BY <1>1
<1> QED BY <1>1, <1>2, <1>3, FS_Interval

\* t is the letters of form from lo to hi.
IsSpan(t, form, lo, hi) ==
    /\ t \in Seq(Signs) /\ Len(t) = hi - lo + 1 /\ DOMAIN t = 1 .. Len(t)
    /\ \A i \in 1 .. Len(t) : t[i] = form[lo + i - 1] /\ lo + i - 1 \in DOMAIN form
    /\ \A i \in lo .. hi : i - lo + 1 \in 1 .. Len(t) /\ t[i - lo + 1] = form[i] /\ i \in DOMAIN form

LEMMA SubSeqIsSpan ==
  ASSUME NEW form \in Seq(Signs), NEW lo \in Int, NEW hi \in Int, 1 <= lo, hi <= Len(form), lo <= hi + 1
  PROVE  IsSpan(SubSeq(form, lo, hi), form, lo, hi)
<1> DEFINE t == SubSeq(form, lo, hi)
           n == hi - lo + 1
<1>1. Len(form) \in Nat /\ DOMAIN form = 1 .. Len(form) /\ n \in Nat
  BY FormsAreLists
<1>2. t = [i \in 1 .. n |-> form[lo + i - 1]]
  BY <1>1
<1>3. \A i \in 1 .. n : lo + i - 1 \in DOMAIN form /\ form[lo + i - 1] \in Signs
  BY <1>1
<1> HIDE DEF t
<1>4. t \in [1 .. n -> Signs] /\ \A i \in 1 .. n : t[i] = form[lo + i - 1]
  BY <1>2, <1>3
<1>5. t \in Seq(Signs) /\ Len(t) = n /\ DOMAIN t = 1 .. n
  BY <1>1, <1>4, FunctionIsList
<1>6. ASSUME NEW i \in lo .. hi PROVE i - lo + 1 \in 1 .. n /\ t[i - lo + 1] = form[i] /\ i \in DOMAIN form
  <2>1. i - lo + 1 \in 1 .. n /\ lo + (i - lo + 1) - 1 = i
    OBVIOUS
  <2> QED BY <1>1, <1>4, <2>1
<1> QED BY <1>3, <1>4, <1>5, <1>6 DEF IsSpan, t

\* t is form without the space around it.
IsTrim(t, form) ==
    /\ t \in Seq(Signs)
    /\ \/ t = <<>> /\ \A i \in DOMAIN form : form[i] = " "
       \/ \E lo, hi \in DOMAIN form :
             /\ lo <= hi /\ form[lo] # " " /\ form[hi] # " "
             /\ \A i \in DOMAIN form : form[i] # " " => lo <= i /\ i <= hi
             /\ t = SubSeq(form, lo, hi)

LEMMA TrimSpaceTrims ==
  ASSUME NEW form \in Seq(Signs)
  PROVE  IsTrim(TrimSpace(form), form)
<1> DEFINE solid == {i \in DOMAIN form : form[i] # " "}
<1>0. /\ Len(form) \in Nat /\ DOMAIN form = 1 .. Len(form) /\ DOMAIN form \subseteq Nat
      /\ DOMAIN form \subseteq Int /\ IsFiniteSet(DOMAIN form)
      /\ \A i \in DOMAIN form : i \in Int /\ 1 <= i /\ i <= Len(form)
  BY FormsAreLists
<1>1. CASE solid = {}
  <2>1. TrimSpace(form) = <<>>
    BY <1>1 DEF TrimSpace
  <2>2. \A i \in DOMAIN form : form[i] = " "
    BY <1>1
  <2>3. <<>> \in Seq(Signs)
    OBVIOUS
  <2> QED BY <2>1, <2>2, <2>3 DEF IsTrim
<1>2. CASE solid # {}
  <2> DEFINE lo == CHOOSE i \in solid : \A j \in solid : i <= j
             hi == CHOOSE i \in solid : \A j \in solid : i >= j
  <2>1. solid \subseteq Nat /\ solid \subseteq Int /\ IsFiniteSet(solid)
    <3>1. solid \subseteq DOMAIN form
      OBVIOUS
    <3> HIDE DEF solid
    <3> QED BY <1>0, <3>1, FS_Subset
  <2>2. lo \in solid /\ \A j \in solid : lo <= j
    <3> HIDE DEF solid
    <3>1. \E i \in solid : \A j \in solid : i <= j
      BY <1>2, <2>1, LeastNumber
    <3> QED BY <3>1
  <2>3. hi \in solid /\ \A j \in solid : hi >= j
    <3> HIDE DEF solid
    <3>1. \E i \in solid : \A j \in solid : j <= i
      BY <1>2, <2>1, IntegersHaveAGreatest
    <3>2. \A i \in solid : i \in Int
      BY <2>1
    <3>3. \E i \in solid : \A j \in solid : i >= j
      BY <3>1, <3>2
    <3> QED BY <3>3
  <2>4. TrimSpace(form) = SubSeq(form, lo, hi)
    BY <1>2 DEF TrimSpace
  <2> HIDE DEF lo, hi
  <2>5. lo <= hi /\ lo \in DOMAIN form /\ hi \in DOMAIN form /\ form[lo] # " " /\ form[hi] # " "
    BY <2>2, <2>3
  <2>6. \A i \in DOMAIN form : form[i] # " " => lo <= i /\ i <= hi
    <3> SUFFICES ASSUME NEW i \in DOMAIN form, form[i] # " " PROVE lo <= i /\ i <= hi
      OBVIOUS
    <3>1. i \in solid
      OBVIOUS
    <3> HIDE DEF solid
    <3>2. i \in Int /\ hi \in Int
      BY <2>1, <2>3, <3>1
    <3> QED BY <2>2, <2>3, <3>1, <3>2
  <2>7. SubSeq(form, lo, hi) \in Seq(Signs)
    <3>0. lo \in Int /\ hi \in Int /\ 1 <= lo /\ hi <= Len(form) /\ lo <= hi
      BY <2>5, FormsAreLists
    <3>1. lo <= hi + 1
      BY <3>0
    <3> QED BY <3>0, <3>1, SubSeqIsSpan DEF IsSpan
  <2> QED BY <2>4, <2>5, <2>6, <2>7 DEF IsTrim
<1> QED BY <1>1, <1>2

\* No space around it.
Firm(form) == form # <<>> => form[1] # " " /\ form[Len(form)] # " "

\* A form with no space around it stays as it is.
LEMMA TrimmedStays ==
  ASSUME NEW form \in Seq(Signs), Firm(form)
  PROVE  TrimSpace(form) = form
<1>1. IsTrim(TrimSpace(form), form)
  BY TrimSpaceTrims
<1>2. CASE form = <<>>
  BY <1>1, <1>2 DEF IsTrim
<1>3. CASE form # <<>>
  <2>1. 1 \in DOMAIN form /\ Len(form) \in DOMAIN form /\ Len(form) \in Nat /\ DOMAIN form = 1 .. Len(form)
    BY <1>3, FormsAreLists
  <2>2. PICK lo, hi \in DOMAIN form :
            /\ \A i \in DOMAIN form : form[i] # " " => lo <= i /\ i <= hi
            /\ TrimSpace(form) = SubSeq(form, lo, hi)
    <3>1. ~ \A i \in DOMAIN form : form[i] = " "
      BY <1>3, <2>1 DEF Firm
    <3> QED BY <1>1, <3>1 DEF IsTrim
  <2>3. lo = 1 /\ hi = Len(form)
    <3>1. form[1] # " " /\ form[Len(form)] # " "
      BY <1>3 DEF Firm
    <3>2. lo <= 1 /\ Len(form) <= hi
      BY <2>1, <2>2, <3>1
    <3>3. lo \in Int /\ hi \in Int /\ 1 <= lo /\ hi <= Len(form) /\ Len(form) \in Int
      BY FormsAreLists
    <3> QED BY <3>2, <3>3
  <2>4. SubSeq(form, 1, Len(form)) = form
    BY SubSeqFull
  <2> QED BY <2>2, <2>3, <2>4
<1> QED BY <1>2, <1>3

\* The ends of what is trimmed are signs, and every sign of it is in both.
Solid(t, form) ==
    /\ t \in Seq(Signs)
    /\ Firm(t)
    /\ Range(t) \subseteq Range(form) /\ Range(form) \ {" "} \subseteq Range(t)

LEMMA NothingHasNoSigns == Range(<<>>) = {}
  BY DEF Range

LEMMA TrimIsSolid ==
  ASSUME NEW form \in Seq(Signs)
  PROVE  Solid(TrimSpace(form), form)
<1> DEFINE t == TrimSpace(form)
<1>1. IsTrim(t, form)
  BY TrimSpaceTrims
<1> HIDE DEF t
<1>2. CASE t = <<>> /\ \A i \in DOMAIN form : form[i] = " "
  <2>1. \A x \in Range(form) : x = " "
    BY <1>2 DEF Range
  <2>2. Range(t) = {}
    BY <1>2, NothingHasNoSigns
  <2>3. t \in Seq(Signs) /\ Firm(t)
    BY <1>1, <1>2 DEF IsTrim, Firm
  <2>4. Range(form) \ {" "} = {}
    BY <2>1
  <2> QED BY <2>2, <2>3, <2>4 DEF Solid, t
<1>3. ASSUME NEW lo \in DOMAIN form, NEW hi \in DOMAIN form, lo <= hi, form[lo] # " ", form[hi] # " ",
             \A i \in DOMAIN form : form[i] # " " => lo <= i /\ i <= hi,
             t = SubSeq(form, lo, hi)
      PROVE  Solid(t, form)
  <2>1. lo \in Int /\ hi \in Int /\ 1 <= lo /\ hi <= Len(form) /\ DOMAIN form = 1 .. Len(form)
    BY FormsAreLists
  <2>2. IsSpan(t, form, lo, hi)
    <3>1. lo \in Int /\ hi \in Int /\ lo <= hi
      BY <1>3, <2>1
    <3>2. lo <= hi + 1
      BY <3>1
    <3> QED BY <1>3, <2>1, <3>2, SubSeqIsSpan
  <2>3. t[1] = form[lo] /\ t[Len(t)] = form[hi]
    <3>0. Len(t) = hi - lo + 1 /\ lo <= hi
      BY <1>3, <2>2 DEF IsSpan
    <3>1. 1 \in 1 .. Len(t) /\ Len(t) \in 1 .. Len(t)
      BY <2>1, <3>0
    <3>2. t[1] = form[lo + 1 - 1] /\ t[Len(t)] = form[lo + Len(t) - 1]
      BY <2>2, <3>1 DEF IsSpan
    <3>3. lo + 1 - 1 = lo /\ lo + Len(t) - 1 = hi
      BY <2>1, <2>2 DEF IsSpan
    <3> QED BY <3>2, <3>3
  <2>4. ASSUME NEW i \in DOMAIN t PROVE t[i] \in Range(form)
    <3>1. lo + i - 1 \in DOMAIN form /\ t[i] = form[lo + i - 1]
      BY <2>2 DEF IsSpan
    <3> QED BY <3>1 DEF Range
  <2>5. ASSUME NEW i \in DOMAIN form, form[i] # " " PROVE form[i] \in Range(t)
    <3>0. lo <= i /\ i <= hi /\ i \in Int
      BY <1>3, <2>5, FormsAreLists
    <3>1. i \in lo .. hi
      BY <2>1, <3>0
    <3>2. i - lo + 1 \in DOMAIN t /\ t[i - lo + 1] = form[i]
      BY <2>2, <3>1 DEF IsSpan
    <3> QED BY <3>2 DEF Range
  <2>6. Range(t) \subseteq Range(form)
    BY <2>4 DEF Range
  <2>7. Range(form) \ {" "} \subseteq Range(t)
    BY <2>5 DEF Range
  <2> QED BY <1>1, <1>3, <2>3, <2>6, <2>7 DEF Solid, IsTrim, Firm
<1> QED BY <1>1, <1>2, <1>3 DEF IsTrim, t

LEMMA WithoutSigns ==
  ASSUME NEW form \in Seq(Signs), NEW dropped
  PROVE  Without(form, dropped) \in Seq(Signs) /\ Range(Without(form, dropped)) = Range(form) \ dropped
<1> DEFINE t == Without(form, dropped)
<1>1. Keeps(t, form, dropped)
  BY WithoutKeeps
<1> HIDE DEF t
<1>2. Range(t) \subseteq Range(form) \ dropped
  BY <1>1 DEF Keeps, Range
<1>3. Range(form) \ dropped \subseteq Range(t)
  BY <1>1 DEF Keeps, Range
<1> QED BY <1>1, <1>2, <1>3 DEF Keeps, t

LEMMA MarksAreTrimmed ==
  ASSUME NEW form \in Seq(Signs)
  PROVE  /\ TrimMarks(form) \in Seq(Signs) /\ Firm(TrimMarks(form))
         /\ "." \notin Range(TrimMarks(form))
         /\ Range(TrimMarks(form)) \ {" "} = Range(form) \ {".", " "}
<1> DEFINE g == Without(form, {"."})
<1>1. g \in Seq(Signs) /\ Range(g) = Range(form) \ {"."}
  BY WithoutSigns
<1>2. Solid(TrimSpace(g), g)
  BY <1>1, TrimIsSolid
<1>3. TrimMarks(form) = TrimSpace(g)
  BY DEF TrimMarks
<1> HIDE DEF g
<1> QED BY <1>1, <1>2, <1>3 DEF Solid

\* What the recitation marks are off stays as it is.
LEMMA TrimmedOnce ==
  ASSUME NEW form \in Seq(Signs)
  PROVE  TrimMarks(TrimMarks(form)) = TrimMarks(form)
<1> DEFINE t == TrimMarks(form)
<1>1. t \in Seq(Signs) /\ Firm(t) /\ "." \notin Range(t)
  BY MarksAreTrimmed
<1> HIDE DEF t
<1>2. \A i \in DOMAIN t : t[i] \notin {"."}
  BY <1>1 DEF Range
<1>3. Without(t, {"."}) = t
  BY <1>1, <1>2, NothingToDrop
<1>4. TrimSpace(t) = t
  BY <1>1, TrimmedStays
<1>5. TrimMarks(t) = t
  BY <1>3, <1>4 DEF TrimMarks
<1> QED BY <1>5 DEF t

LEMMA DaggersSpeltIsAForm ==
  ASSUME NEW form \in Seq(Signs)
  PROVE  /\ DaggersSpelt(form) \in Seq(Signs) /\ Len(DaggersSpelt(form)) = Len(form)
         /\ DOMAIN DaggersSpelt(form) = DOMAIN form
         /\ \A i \in DOMAIN form : DaggersSpelt(form)[i] = IF form[i] = "D" THEN "A" ELSE form[i]
<1> DEFINE d == DaggersSpelt(form)
<1>1. Len(form) \in Nat /\ DOMAIN form = 1 .. Len(form) /\ \A i \in DOMAIN form : form[i] \in Signs
  BY FormsAreLists
<1>2. d = [i \in DOMAIN form |-> IF form[i] = "D" THEN "A" ELSE form[i]]
  BY DEF DaggersSpelt
<1> HIDE DEF d
<1>3. d \in [1 .. Len(form) -> Signs]
  <2>1. ASSUME NEW i \in DOMAIN form PROVE (IF form[i] = "D" THEN "A" ELSE form[i]) \in Signs
    <3>1. "A" \in Signs
      BY FoldedAreSigns
    <3>2. form[i] \in Signs
      BY <1>1
    <3> QED BY <3>1, <3>2, Zenon
  <2>2. d \in [DOMAIN form -> Signs]
    BY <1>2, <2>1
  <2> QED BY <1>1, <2>2
<1>4. d \in Seq(Signs) /\ Len(d) = Len(form) /\ DOMAIN d = 1 .. Len(form)
  BY <1>1, <1>3, FunctionIsList
<1> QED BY <1>1, <1>2, <1>4 DEF d

\* A dagger alef is spelt out alike before the marks are off and after.
LEMMA DaggersAndMarks ==
  ASSUME NEW form \in Seq(Signs)
  PROVE  DaggersSpelt(TrimMarks(form)) = TrimMarks(DaggersSpelt(form))
<1> DEFINE g == Without(form, {"."})
           d == DaggersSpelt(form)
           dg == DaggersSpelt(g)
<1>1. g \in Seq(Signs) /\ Keeps(g, form, {"."})
  BY WithoutSigns, WithoutKeeps
<1>2. /\ d \in Seq(Signs) /\ DOMAIN d = DOMAIN form
      /\ \A i \in DOMAIN form : d[i] = IF form[i] = "D" THEN "A" ELSE form[i]
  BY DaggersSpeltIsAForm
<1>3. Without(d, {"."}) = dg
  <2> DEFINE S == {i \in DOMAIN form : form[i] \notin {"."}}
             kept == Ascending(S)
  <2>1. {i \in DOMAIN d : d[i] \notin {"."}} = S
    <3> HIDE DEF d
    <3> QED BY <1>2
  <2>2. Without(d, {"."}) = [k \in DOMAIN kept |-> d[kept[k]]]
    BY <2>1 DEF Without
  <2>3. g = [k \in DOMAIN kept |-> form[kept[k]]]
    BY DEF Without
  <2>4. \A k \in DOMAIN kept : kept[k] \in DOMAIN form
    <3>1. IsFiniteSet(DOMAIN form) /\ DOMAIN form \subseteq Int /\ S \subseteq DOMAIN form
      BY FormsAreLists
    <3> HIDE DEF S
    <3>2. Rises(kept, S)
      BY <3>1, AscendingRises, FS_Subset
    <3> HIDE DEF kept
    <3> QED BY <3>1, <3>2 DEF Rises
  <2> HIDE DEF kept, d, g
  <2>5. dg = [k \in DOMAIN kept |-> IF form[kept[k]] = "D" THEN "A" ELSE form[kept[k]]]
    BY <2>3 DEF DaggersSpelt
  <2>6. \A k \in DOMAIN kept : d[kept[k]] = IF form[kept[k]] = "D" THEN "A" ELSE form[kept[k]]
    BY <1>2, <2>4
  <2> HIDE DEF dg
  <2> QED BY <2>2, <2>5, <2>6
<1> HIDE DEF g
<1>4. /\ dg \in Seq(Signs) /\ Len(dg) = Len(g) /\ DOMAIN dg = DOMAIN g
      /\ \A i \in DOMAIN g : dg[i] = IF g[i] = "D" THEN "A" ELSE g[i]
  BY <1>1, DaggersSpeltIsAForm
<1> HIDE DEF dg, d
<1> DEFINE t == TrimSpace(g)
           u == TrimSpace(dg)
<1>5. IsTrim(t, g) /\ IsTrim(u, dg)
  BY <1>1, <1>4, TrimSpaceTrims
<1> HIDE DEF t, u
<1>6. \A i \in DOMAIN g : dg[i] = " " <=> g[i] = " "
  BY <1>4
<1>7. CASE t = <<>> /\ \A i \in DOMAIN g : g[i] = " "
  <2>1. u = <<>>
    BY <1>4, <1>5, <1>6, <1>7 DEF IsTrim
  <2>2. DaggersSpelt(<<>>) = <<>>
    BY DEF DaggersSpelt
  <2> QED BY <1>3, <1>7, <2>1, <2>2 DEF TrimMarks, t, u, d, g
<1>8. ASSUME NEW lo \in DOMAIN g, NEW hi \in DOMAIN g, lo <= hi, g[lo] # " ", g[hi] # " ",
             \A i \in DOMAIN g : g[i] # " " => lo <= i /\ i <= hi,
             t = SubSeq(g, lo, hi)
      PROVE  DaggersSpelt(t) = u
  <2>1. PICK lo2, hi2 \in DOMAIN dg :
          /\ lo2 <= hi2 /\ dg[lo2] # " " /\ dg[hi2] # " "
          /\ \A i \in DOMAIN dg : dg[i] # " " => lo2 <= i /\ i <= hi2
          /\ u = SubSeq(dg, lo2, hi2)
    BY <1>4, <1>5, <1>6, <1>8 DEF IsTrim
  <2>2. lo <= lo2 /\ lo2 <= lo /\ hi <= hi2 /\ hi2 <= hi
    BY <1>4, <1>6, <1>8, <2>1
  <2>3. lo \in Int /\ hi \in Int /\ lo2 \in Int /\ hi2 \in Int /\ 1 <= lo /\ hi <= Len(g) /\ hi2 <= Len(dg)
    BY <1>1, <1>4, <2>1, FormsAreLists
  <2>4. lo2 = lo /\ hi2 = hi /\ lo <= hi + 1
    <3>1. lo <= hi
      BY <1>8
    <3>2. \A a, b \in Int : (a <= b /\ b <= a => a = b) /\ (a <= b => a <= b + 1)
      OBVIOUS
    <3> QED BY <2>2, <2>3, <3>1, <3>2, Zenon
  <2>5. IsSpan(t, g, lo, hi) /\ IsSpan(u, dg, lo, hi)
    BY <1>1, <1>4, <1>8, <2>1, <2>3, <2>4, SubSeqIsSpan
  <2>6. /\ DaggersSpelt(t) \in Seq(Signs) /\ Len(DaggersSpelt(t)) = Len(t) /\ DOMAIN DaggersSpelt(t) = DOMAIN t
        /\ \A i \in DOMAIN t : DaggersSpelt(t)[i] = IF t[i] = "D" THEN "A" ELSE t[i]
    BY <2>5, DaggersSpeltIsAForm DEF IsSpan
  <2>7. DOMAIN u = DOMAIN t
    BY <2>5 DEF IsSpan
  <2>8. \A i \in DOMAIN t : u[i] = DaggersSpelt(t)[i]
    <3> SUFFICES ASSUME NEW i \in DOMAIN t PROVE u[i] = DaggersSpelt(t)[i]
      OBVIOUS
    <3>1. t[i] = g[lo + i - 1] /\ lo + i - 1 \in DOMAIN g /\ u[i] = dg[lo + i - 1]
      BY <2>5, <2>7 DEF IsSpan
    <3> QED BY <1>4, <2>6, <3>1
  <2>9. u \in Seq(Signs)
    BY <2>5 DEF IsSpan
  <2> QED BY <2>6, <2>7, <2>8, <2>9, SeqEqual
<1> QED BY <1>3, <1>5, <1>7, <1>8 DEF TrimMarks, IsTrim, t, u, d, g, dg

LettersOf(form) == Range(form) \ NotLetters

LEMMA FoldedSigns ==
  ASSUME NEW c \in Signs
  PROVE  /\ Folded(c) \in Signs
         /\ Folded(c) = " " <=> c = " "
         /\ Folded(c) \in Foreign <=> c \in Foreign
<1>1. Folded(c) \in {"A", "w", "y", "h", c}
  BY DEF Folded
<1> QED BY <1>1, FoldedAreSigns DEF Folded, Foreign

\* The signs of a key are the letters of the form, folded.
LEMMA KeySigns ==
  ASSUME NEW form \in Seq(Signs)
  PROVE  /\ Key(form) \in Seq(Signs) /\ Firm(Key(form))
         /\ Range(Key(form)) \ {" "} = {Folded(c) : c \in LettersOf(form)}
<1> DEFINE t == TrimMarks(form)
           kept == Without(t, Dropped)
           n == Normalize(t)
<1>1. t \in Seq(Signs) /\ Range(t) \ {" "} = Range(form) \ {".", " "}
  BY MarksAreTrimmed
<1> HIDE DEF t
<1>2. kept \in Seq(Signs) /\ Range(kept) = Range(t) \ Dropped
  BY <1>1, WithoutSigns
<1>3. Range(kept) \ {" "} = LettersOf(form)
  BY <1>1, <1>2 DEF LettersOf, NotLetters, Dropped
<1>4. n = [i \in DOMAIN kept |-> Folded(kept[i])]
  BY DEF Normalize
<1> HIDE DEF kept, n
<1>5. Len(kept) \in Nat /\ DOMAIN kept = 1 .. Len(kept) /\ \A i \in DOMAIN kept : kept[i] \in Signs
  BY <1>2, FormsAreLists
<1>6. \A i \in DOMAIN kept : Folded(kept[i]) \in Signs /\ (Folded(kept[i]) = " " <=> kept[i] = " ")
  BY <1>5, FoldedSigns
<1>7. n \in Seq(Signs)
  <2>1. n \in [1 .. Len(kept) -> Signs]
    BY <1>4, <1>5, <1>6
  <2> QED BY <1>5, <2>1, FunctionIsList
<1>8. Range(n) \ {" "} = {Folded(c) : c \in Range(kept) \ {" "}}
  BY <1>4, <1>6 DEF Range
<1>9. Solid(TrimSpace(n), n)
  BY <1>7, TrimIsSolid
<1>10. Key(form) = TrimSpace(n)
  BY DEF Key, n, t
<1>11. Range(TrimSpace(n)) \ {" "} = Range(n) \ {" "}
  BY <1>9 DEF Solid
<1> QED BY <1>3, <1>8, <1>9, <1>10, <1>11 DEF Solid

LEMMA NoSignsNoForm ==
  ASSUME NEW form \in Seq(Signs), Firm(form)
  PROVE  form = <<>> <=> Range(form) \ {" "} = {}
<1>1. form = <<>> => Range(form) \ {" "} = {}
  BY NothingHasNoSigns
<1>2. ASSUME form # <<>> PROVE Range(form) \ {" "} # {}
  <2>1. 1 \in DOMAIN form /\ form[1] # " "
    BY <1>2, FormsAreLists DEF Firm
  <2> QED BY <2>1 DEF Range
<1> QED BY <1>1, <1>2

LEMMA KeysAreOfTheSpelling ==
  ASSUME NEW form \in Seq(Signs)
  PROVE  Key(TrimMarks(form)) = Key(form) /\ IndexKeys(TrimMarks(form)) = IndexKeys(form)
<1>1. \A f \in Seq(Signs) : Key(TrimMarks(f)) = Key(f)
  BY TrimmedOnce DEF Key
<1>2. DaggersSpelt(form) \in Seq(Signs) /\ DaggersSpelt(TrimMarks(form)) = TrimMarks(DaggersSpelt(form))
  BY DaggersSpeltIsAForm, DaggersAndMarks
<1>3. Key(DaggersSpelt(TrimMarks(form))) = Key(DaggersSpelt(form))
  BY <1>1, <1>2
<1> QED BY <1>1, <1>3 DEF IndexKeys

LEMMA ArabicByItsLetters ==
  ASSUME NEW form \in Seq(Signs)
  PROVE  IsArabicWord(form) <=> LettersOf(form) # {} /\ LettersOf(form) \cap Foreign = {}
BY DEF IsArabicWord, LettersOf, Range

LEMMA SpellingIsAsArabic ==
  ASSUME NEW form \in Seq(Signs)
  PROVE  IsArabicWord(TrimMarks(form)) <=> IsArabicWord(form)
<1>1. TrimMarks(form) \in Seq(Signs) /\ Range(TrimMarks(form)) \ {" "} = Range(form) \ {".", " "}
      /\ "." \notin Range(TrimMarks(form))
  BY MarksAreTrimmed
<1>2. LettersOf(TrimMarks(form)) = LettersOf(form)
  BY <1>1 DEF LettersOf, NotLetters
<1> QED BY <1>1, <1>2, ArabicByItsLetters

\* An Arabic word is found under its key.
LEMMA WordHasItsKey ==
  ASSUME NEW form \in Seq(Signs), IsArabicWord(form)
  PROVE  Key(form) # <<>> /\ Key(form) \in IndexKeys(form) /\ TrimMarks(form) # <<>>
<1>1. LettersOf(form) # {}
  BY ArabicByItsLetters
<1>2. Range(Key(form)) \ {" "} # {} /\ Key(form) \in Seq(Signs) /\ Firm(Key(form))
  <2>1. Range(Key(form)) \ {" "} = {Folded(c) : c \in LettersOf(form)} /\ Key(form) \in Seq(Signs) /\ Firm(Key(form))
    BY KeySigns
  <2> QED BY <1>1, <2>1
<1>3. Key(form) # <<>>
  BY <1>2, NoSignsNoForm
<1>4. LettersOf(TrimMarks(form)) # {}
  BY SpellingIsAsArabic, MarksAreTrimmed, ArabicByItsLetters
<1>5. TrimMarks(form) # <<>>
  BY <1>4, NothingHasNoSigns DEF LettersOf
<1> QED BY <1>3, <1>5 DEF IndexKeys

\* What is no Arabic word is under no key of one.
LEMMA NoWordHasNoKey ==
  ASSUME NEW form \in Seq(Signs), ~IsArabicWord(form), NEW other \in Seq(Signs), IsArabicWord(other)
  PROVE  Key(form) \notin IndexKeys(other)
<1>1. LettersOf(other) \cap Foreign = {} /\ (LettersOf(form) = {} \/ LettersOf(form) \cap Foreign # {})
  BY ArabicByItsLetters
<1> DEFINE d == DaggersSpelt(other)
<1>2. d \in Seq(Signs) /\ LettersOf(d) \cap Foreign = {}
  <2>1. /\ d \in Seq(Signs) /\ DOMAIN d = DOMAIN other
        /\ \A i \in DOMAIN other : d[i] = IF other[i] = "D" THEN "A" ELSE other[i]
    BY DaggersSpeltIsAForm
  <2> HIDE DEF d
  <2>2. \A i \in DOMAIN d : d[i] \in Foreign => d[i] = other[i]
    BY <2>1 DEF Foreign
  <2> QED BY <1>1, <2>1, <2>2 DEF LettersOf, Range
<1> HIDE DEF d
<1>3. ASSUME NEW f \in Seq(Signs), LettersOf(f) \cap Foreign = {} PROVE Range(Key(f)) \cap Foreign = {}
  <2>1. Range(Key(f)) \ {" "} = {Folded(c) : c \in LettersOf(f)}
    BY KeySigns
  <2>2. \A c \in LettersOf(f) : Folded(c) \notin Foreign
    <3>1. LettersOf(f) \subseteq Signs
      BY FormsAreLists DEF LettersOf, Range
    <3> QED BY <1>3, <3>1, FoldedSigns
  <2>3. " " \notin Foreign
    BY DEF Foreign
  <2> QED BY <2>1, <2>2, <2>3
<1>4. CASE LettersOf(form) = {}
  <2>1. Range(Key(form)) \ {" "} = {} /\ Key(form) \in Seq(Signs) /\ Firm(Key(form))
    BY <1>4, KeySigns
  <2>2. Key(form) = <<>>
    BY <2>1, NoSignsNoForm
  <2> QED BY <2>2 DEF IndexKeys
<1>5. CASE LettersOf(form) \cap Foreign # {}
  <2>1. PICK c \in LettersOf(form) : c \in Foreign
    BY <1>5
  <2>2. c \in Signs /\ Folded(c) \in Foreign
    <3>1. LettersOf(form) \subseteq Signs
      BY FormsAreLists DEF LettersOf, Range
    <3> QED BY <2>1, <3>1, FoldedSigns
  <2>3. Folded(c) \in Range(Key(form))
    BY <2>1, KeySigns
  <2> QED BY <1>1, <1>2, <1>3, <2>2, <2>3 DEF IndexKeys, d
<1> QED BY <1>1, <1>4, <1>5

-----------------------------------------------------------------------------
(* The order of the roots that share a key *)

LEMMA PlacesOfLetters ==
  ASSUME NEW c \in Range(Alphabet), NEW d \in Range(Alphabet)
  PROVE  Place(c) \in Int /\ (Place(c) = Place(d) => c = d)
<1>1. DOMAIN Alphabet \subseteq Int
  BY DEF Alphabet
<1>2. \A x \in Range(Alphabet) : \E i \in DOMAIN Alphabet : Alphabet[i] = x
  BY DEF Range
<1>3. \A x \in Range(Alphabet) : Place(x) \in DOMAIN Alphabet /\ Alphabet[Place(x)] = x
  BY <1>2 DEF Place
<1> QED BY <1>1, <1>3

Letters3 == [1 .. 3 -> Range(Alphabet)]

\* a is before b at the first letter in which they differ.
Before(a, b) ==
    \/ Place(a[1]) < Place(b[1])
    \/ a[1] = b[1] /\ Place(a[2]) < Place(b[2])
    \/ a[1] = b[1] /\ a[2] = b[2] /\ Place(a[3]) < Place(b[3])

LEMMA CompareIsBefore ==
  ASSUME NEW a, NEW b
  PROVE  Compare(a, b) <=> Before(a, b)
<1>1. 1 .. 3 = {1, 2, 3}
  OBVIOUS
<1>2. 1 .. (1 - 1) = {} /\ 1 .. (2 - 1) = {1} /\ 1 .. (3 - 1) = {1, 2}
  OBVIOUS
<1> QED BY <1>1, <1>2 DEF Compare, Before

\* Of two roots one is before the other, and being before goes on.
LEMMA BeforeIsAnOrder ==
  /\ \A a, b \in Letters3 : a = b \/ Before(a, b) \/ Before(b, a)
  /\ \A a, b \in Letters3 : ~(Before(a, b) /\ Before(b, a))
  /\ \A a, b, c \in Letters3 : Before(a, b) /\ Before(b, c) => Before(a, c)
<1>1. \A a \in Letters3 : \A i \in 1 .. 3 : a[i] \in Range(Alphabet) /\ Place(a[i]) \in Int
  BY PlacesOfLetters DEF Letters3
<1>2. \A a, b \in Letters3 : \A i \in 1 .. 3 : Place(a[i]) = Place(b[i]) <=> a[i] = b[i]
  BY <1>1, PlacesOfLetters
<1>3. 1 \in 1 .. 3 /\ 2 \in 1 .. 3 /\ 3 \in 1 .. 3
  OBVIOUS
<1>4. ASSUME NEW a \in Letters3, NEW b \in Letters3, a[1] = b[1], a[2] = b[2], a[3] = b[3] PROVE a = b
  BY <1>4 DEF Letters3
<1>5. ASSUME NEW a \in Letters3, NEW b \in Letters3 PROVE a = b \/ Before(a, b) \/ Before(b, a)
  <2>1. /\ Place(a[1]) < Place(b[1]) \/ Place(b[1]) < Place(a[1]) \/ a[1] = b[1]
        /\ Place(a[2]) < Place(b[2]) \/ Place(b[2]) < Place(a[2]) \/ a[2] = b[2]
        /\ Place(a[3]) < Place(b[3]) \/ Place(b[3]) < Place(a[3]) \/ a[3] = b[3]
    BY <1>1, <1>2, <1>3
  <2> QED BY <1>4, <2>1 DEF Before
<1>6. ASSUME NEW a \in Letters3, NEW b \in Letters3 PROVE ~(Before(a, b) /\ Before(b, a))
  BY <1>1, <1>3 DEF Before
<1>7. ASSUME NEW a \in Letters3, NEW b \in Letters3, NEW c \in Letters3, Before(a, b), Before(b, c)
      PROVE  Before(a, c)
  BY <1>1, <1>3, <1>7 DEF Before
<1> QED BY <1>5, <1>6, <1>7

LEMMA MostUsedIsALine ==
  ASSUME database \in Databases, NEW roots, roots \subseteq DOMAIN database.uses
  PROVE  IsLine(MostUsed(roots), roots)
<1>1. \A r \in roots : r \in Letters3 /\ Uses(r) \in Int
  BY JidhrAssumption DEF Uses, Letters3
<1> DEFINE Leads(a, b) == a = b \/ Uses(a) > Uses(b) \/ (Uses(a) = Uses(b) /\ Before(a, b))
<1>2. \A a, b \in roots : <<a, b>> \in MostUsed(roots) <=> Leads(a, b)
  BY CompareIsBefore DEF MostUsed
<1>3. \A a \in roots : Leads(a, a)
  OBVIOUS
<1>4. \A a, b \in roots : Leads(a, b) \/ Leads(b, a)
  BY <1>1, BeforeIsAnOrder
<1>5. \A a, b \in roots : Leads(a, b) /\ Leads(b, a) => a = b
  BY <1>1, BeforeIsAnOrder
<1>6. ASSUME NEW a \in roots, NEW b \in roots, NEW c \in roots, Leads(a, b), Leads(b, c) PROVE Leads(a, c)
  <2>1. a \in Letters3 /\ b \in Letters3 /\ c \in Letters3
    BY <1>1
  <2>2. Before(a, b) /\ Before(b, c) => Before(a, c)
    BY <2>1, BeforeIsAnOrder
  <2>3. Uses(a) \in Int /\ Uses(b) \in Int /\ Uses(c) \in Int
    BY <1>1
  <2> QED BY <1>6, <2>2, <2>3
<1> HIDE DEF Leads
<1> QED BY <1>2, <1>3, <1>4, <1>5, <1>6 DEF IsLine

-----------------------------------------------------------------------------
(* The index *)

\* The roots of the forms a key is of.
UnderKey(keys, k) == {o.root : o \in {p \in jcorpus.attested : k \in keys[p]}}

\* The table has under every key the roots of the forms it is of, in order.
TableRight(table, keys) ==
    \A k : GoesThrough(At(table, k), UnderKey(keys, k), MostUsed(UnderKey(keys, k)))

KeysOf == [o \in jcorpus.attested |-> IndexKeys(o.form)]
SpellingOf == [o \in jcorpus.attested |-> {o.form}]
IndexRight == TableRight(index.attested, KeysOf) /\ TableRight(index.bySpelling, SpellingOf)

FormsKnown ==
    /\ database \in Databases /\ IsFiniteSet(jcorpus.attested)
    /\ \A o \in jcorpus.attested : o.root \in DOMAIN database.uses

LEMMA OrderHasThemAll ==
  ASSUME NEW S, IsFiniteSet(S), NEW order \in SetToSeqs(S)
  PROVE  /\ DOMAIN order \subseteq Int /\ IsFiniteSet(DOMAIN order) /\ Range(order) = S
         /\ \A i \in DOMAIN order : order[i] \in S
         /\ \A o \in S : \E i \in DOMAIN order : order[i] = o
<1> DEFINE n == Cardinality(S)
<1>1. n \in Nat /\ IsFiniteSet(1 .. n) /\ Cardinality(1 .. n) = n
  BY FS_CardinalityType, FS_Interval
<1>2. order \in [1 .. n -> S] /\ \A i, j \in 1 .. n : i # j => order[i] # order[j]
  BY DEF SetToSeqs
<1> HIDE DEF n
<1>3. order \in Injection(1 .. n, S)
  BY <1>2 DEF Injection, IsInjective
<1>4. order \in Surjection(1 .. n, S)
  BY <1>1, <1>3, FS_Injection DEF n
<1>5. \A o \in S : \E i \in 1 .. n : order[i] = o
  BY <1>4 DEF Surjection
<1>6. DOMAIN order = 1 .. n /\ 1 .. n \subseteq Int
  BY <1>1, <1>2
<1>7. Range(order) = S
  BY <1>2, <1>5, <1>6 DEF Range
<1> QED BY <1>1, <1>2, <1>5, <1>6, <1>7

LEMMA EnteredIsRight ==
  ASSUME FormsKnown, NEW order \in SetToSeqs(jcorpus.attested), NEW keys, DOMAIN keys = jcorpus.attested
  PROVE  TableRight(Entered(order, keys), keys)
<1> DEFINE S == jcorpus.attested
           table == Entered(order, keys)
           here(k) == {i \in DOMAIN order : k \in keys[order[i]]}
<1>1. /\ DOMAIN order \subseteq Int /\ IsFiniteSet(DOMAIN order) /\ Range(order) = S
      /\ \A i \in DOMAIN order : order[i] \in S
      /\ \A o \in S : \E i \in DOMAIN order : order[i] = o
  BY OrderHasThemAll DEF FormsKnown
<1> SUFFICES ASSUME NEW k PROVE GoesThrough(At(table, k), UnderKey(keys, k), MostUsed(UnderKey(keys, k)))
  BY DEF TableRight
<1>2. {order[i].root : i \in here(k)} = UnderKey(keys, k)
  BY <1>1 DEF UnderKey
<1>3. IsFiniteSet(UnderKey(keys, k)) /\ UnderKey(keys, k) \subseteq DOMAIN database.uses
  <2> DEFINE f == [o \in S |-> o.root]
             P == {p \in S : k \in keys[p]}
  <2>1. IsFiniteSet(P)
    BY FS_Subset DEF FormsKnown
  <2>2. UnderKey(keys, k) = {o.root : o \in P} /\ \A o \in P : o.root \in DOMAIN database.uses
    BY DEF UnderKey, FormsKnown
  <2>3. [o \in P |-> o.root] \in Surjection(P, UnderKey(keys, k))
    BY <2>2 DEF Surjection
  <2> HIDE DEF P
  <2>4. IsFiniteSet(UnderKey(keys, k))
    BY <2>1, <2>3, FS_Surjection
  <2> QED BY <2>2, <2>4
<1>4. GoesThrough(InLine(UnderKey(keys, k), MostUsed(UnderKey(keys, k))), UnderKey(keys, k), MostUsed(UnderKey(keys, k)))
  BY <1>3, MostUsedIsALine, LineIsGoneThrough DEF FormsKnown
<1>5. SortByUse(order, here(k)) = InLine(UnderKey(keys, k), MostUsed(UnderKey(keys, k)))
  BY <1>2 DEF SortByUse
<1>6. CASE k \in UNION {keys[o] : o \in Range(order)}
  <2>1. table[k] = SortByUse(order, here(k)) /\ k \in DOMAIN table
    BY <1>6 DEF Entered
  <2> HIDE DEF table, here
  <2> QED BY <1>4, <1>5, <2>1 DEF At
<1>7. CASE k \notin UNION {keys[o] : o \in Range(order)}
  <2>1. k \notin DOMAIN table
    BY <1>7 DEF Entered
  <2>2. UnderKey(keys, k) = {}
    BY <1>1, <1>7 DEF UnderKey
  <2>3. Cardinality({}) = 0
    BY FS_EmptySet
  <2>4. InLine({}, MostUsed({})) = <<>>
    BY <2>3 DEF InLine
  <2>5. At(table, k) = <<>>
    BY <2>1 DEF At
  <2> HIDE DEF table
  <2> QED BY <1>4, <2>2, <2>4, <2>5
<1> QED BY <1>6, <1>7

-----------------------------------------------------------------------------
(* The corpus file *)

SpellingsOf(d) == {[form |-> TrimMarks(w.text), root |-> w.root] : w \in d.words}
FileOf(d) ==
    [attested |-> {w \in SpellingsOf(d) : w.root # NoLetters /\ w.form # <<>>},
     rootless |-> {w.form : w \in {v \in SpellingsOf(d) : v.root = NoLetters /\ v.form # <<>>}},
     entries |-> d.entries]
RootsKnown(d) == \A w \in d.words : w.root = NoLetters \/ w.root \in DOMAIN d.uses

CorpusRight == jcorpus = NoCorpus \/ (jcorpus = FileOf(database) /\ RootsKnown(database))

\* The entries are a list, and the forms have their roots.
LEMMA CorpusIsKnown ==
  ASSUME database \in Databases, CorpusRight
  PROVE  /\ FormsKnown
         /\ \E n \in Nat : DOMAIN jcorpus.entries = 1 .. n
         /\ \A i \in DOMAIN jcorpus.entries :
               jcorpus.entries[i].surface \in Seq(Signs) /\ jcorpus.entries[i].lemma \in Seq(Signs)
<1>1. CASE jcorpus = NoCorpus
  <2>1. jcorpus.attested = {} /\ jcorpus.entries = <<>>
    BY <1>1 DEF NoCorpus
  <2>2. DOMAIN <<>> = 1 .. 0 /\ 1 .. 0 = {}
    OBVIOUS
  <2>3. FormsKnown
    BY <2>1, FS_EmptySet DEF FormsKnown
  <2>4. DOMAIN jcorpus.entries = 1 .. 0 /\ DOMAIN jcorpus.entries = {}
    BY <2>1, <2>2
  <2> QED BY <2>3, <2>4
<1>2. CASE jcorpus = FileOf(database) /\ RootsKnown(database)
  <2>1. /\ jcorpus.attested = {w \in SpellingsOf(database) : w.root # NoLetters /\ w.form # <<>>}
        /\ jcorpus.entries = database.entries
    BY <1>2 DEF FileOf
  <2>2. IsFiniteSet(database.words)
    BY JidhrAssumption
  <2>3. IsFiniteSet(SpellingsOf(database))
    <3> DEFINE f == [w \in database.words |-> [form |-> TrimMarks(w.text), root |-> w.root]]
    <3>1. f \in Surjection(database.words, SpellingsOf(database))
      BY DEF Surjection, SpellingsOf
    <3> HIDE DEF f
    <3> QED BY <2>2, <3>1, FS_Surjection
  <2>4. IsFiniteSet(jcorpus.attested)
    BY <2>1, <2>3, FS_Subset
  <2>5. \A o \in jcorpus.attested : o.root \in DOMAIN database.uses
    BY <1>2, <2>1 DEF SpellingsOf, RootsKnown
  <2>6. /\ database.entries \in Seq(Range(database.entries))
        /\ \A e \in Range(database.entries) : e.surface \in Seq(Signs) /\ e.lemma \in Seq(Signs)
    BY JidhrAssumption
  <2>7. Len(database.entries) \in Nat /\ DOMAIN database.entries = 1 .. Len(database.entries)
    BY <2>6
  <2>8. \A i \in DOMAIN database.entries : database.entries[i] \in Range(database.entries)
    BY DEF Range
  <2> QED BY <2>1, <2>4, <2>5, <2>6, <2>7, <2>8 DEF FormsKnown
<1> QED BY <1>1, <1>2 DEF CorpusRight

-----------------------------------------------------------------------------
(* Down the ladder *)

Asking == {"surface", "lookup", "strip", "attested", "patterns"}

\* What a word has been found not to be.
Passed ==
    /\ rung \in Asking \ {"surface"} => ~(RootlessSurface(word) /\ AttestsSurface(word) = <<>>)
    /\ rung = "patterns" => Attests(Key(word)) = <<>>

JInv ==
    /\ database \in Databases
    /\ rung \in {"database", "file", "ready", "answered"} \cup Asking
    /\ CorpusRight
    /\ rung \notin {"database", "file"} => IndexRight
    /\ rung \in Asking \cup {"answered"} => word \in Seq(Signs)
    /\ rung \in Asking => IsArabicWord(word)
    /\ Passed

LEMMA JInvFirst == JInit => JInv
BY DEF JInit, JInv, CorpusRight, Passed, Asking

\* The same, of the database, the corpus and the index of any state.
UsesIn(d, r) == IF r \in DOMAIN d.uses THEN d.uses[r] ELSE 0
MostUsedIn(d, roots) ==
    {p \in roots \X roots : \/ p[1] = p[2] \/ UsesIn(d, p[1]) > UsesIn(d, p[2])
                            \/ UsesIn(d, p[1]) = UsesIn(d, p[2]) /\ Compare(p[1], p[2])}
UnderKeyIn(c, keys, k) == {o.root : o \in {p \in c.attested : k \in keys[p]}}
TableRightIn(d, c, table, keys) ==
    \A k : GoesThrough(At(table, k), UnderKeyIn(c, keys, k), MostUsedIn(d, UnderKeyIn(c, keys, k)))
IndexRightIn(d, c, x) ==
    /\ TableRightIn(d, c, x.attested, [o \in c.attested |-> IndexKeys(o.form)])
    /\ TableRightIn(d, c, x.bySpelling, [o \in c.attested |-> {o.form}])

LEMMA IndexStays ==
  ASSUME IndexRight, UNCHANGED <<database, jcorpus, index>>
  PROVE  IndexRight'
<1>1. IndexRightIn(database, jcorpus, index)
  BY DEF IndexRight, TableRight, UnderKey, KeysOf, SpellingOf, MostUsed, Uses,
         IndexRightIn, TableRightIn, UnderKeyIn, MostUsedIn, UsesIn
<1>2. IndexRightIn(database', jcorpus', index')
  BY <1>1
<1> QED BY <1>2 DEF IndexRight, TableRight, UnderKey, KeysOf, SpellingOf, MostUsed, Uses,
                    IndexRightIn, TableRightIn, UnderKeyIn, MostUsedIn, UsesIn

LEMMA JInvStays ==
  ASSUME JInv, UNCHANGED <<database, jcorpus, index, word>>,
         rung \in Asking, rung' \in Asking \cup {"answered"},
         Passed'
  PROVE  JInv'
<1>1. IndexRight'
  BY IndexStays DEF JInv, Asking
<1>2. CorpusRight'
  BY DEF JInv, CorpusRight
<1> QED BY <1>1, <1>2 DEF JInv, Asking

LEMMA JInvKept == JInv /\ [JNext]_jvars => JInv'
<1> SUFFICES ASSUME JInv, [JNext]_jvars PROVE JInv'
  OBVIOUS
<1>1. CASE WriteCorpus
  <2>1. CorpusRight'
    <3>1. UNCHANGED database /\ (jcorpus' = NoCorpus \/ (RootsKnown(database) /\ jcorpus' = FileOf(database)))
      BY <1>1 DEF WriteCorpus, RootsKnown, FileOf, SpellingsOf
    <3>2. RootsKnown(database') <=> RootsKnown(database)
      BY <3>1
    <3>3. FileOf(database') = FileOf(database)
      BY <3>1
    <3> QED BY <3>1, <3>2, <3>3 DEF CorpusRight
  <2>2. rung' = "file" /\ UNCHANGED <<database, index, word>>
    BY <1>1 DEF WriteCorpus
  <2> QED BY <2>1, <2>2 DEF JInv, Passed, Asking
<1>2. CASE Index
  <2>1. FormsKnown
    BY CorpusIsKnown DEF JInv
  <2>2. PICK order \in SetToSeqs(jcorpus.attested) :
           index' = [attested |-> Entered(order, KeysOf), bySpelling |-> Entered(order, SpellingOf)]
    BY <1>2 DEF Index, KeysOf, SpellingOf
  <2>3. rung' = "ready" /\ UNCHANGED <<database, jcorpus, word>>
    BY <1>2 DEF Index
  <2>4. TableRight(Entered(order, KeysOf), KeysOf) /\ TableRight(Entered(order, SpellingOf), SpellingOf)
    <3>1. DOMAIN KeysOf = jcorpus.attested /\ DOMAIN SpellingOf = jcorpus.attested
      BY DEF KeysOf, SpellingOf
    <3> QED BY <2>1, <3>1, EnteredIsRight
  <2>5. TableRight(index'.attested, KeysOf) /\ TableRight(index'.bySpelling, SpellingOf)
    BY <2>2, <2>4
  <2>6. IndexRightIn(database, jcorpus, index')
    BY <2>5 DEF TableRight, UnderKey, KeysOf, SpellingOf, MostUsed, Uses,
                IndexRightIn, TableRightIn, UnderKeyIn, MostUsedIn, UsesIn
  <2>7. IndexRightIn(database', jcorpus', index')
    BY <2>3, <2>6
  <2>8. IndexRight'
    BY <2>7 DEF IndexRight, TableRight, UnderKey, KeysOf, SpellingOf, MostUsed, Uses,
                IndexRightIn, TableRightIn, UnderKeyIn, MostUsedIn, UsesIn
  <2>9. CorpusRight'
    BY <2>3 DEF JInv, CorpusRight
  <2> QED BY <2>3, <2>8, <2>9 DEF JInv, Passed, Asking
<1>3. ASSUME NEW form \in Asked, Question(form) PROVE JInv'
  <2>1. rung = "ready" /\ UNCHANGED <<database, jcorpus, index>> /\ word' = TrimSpace(form)
        /\ ((rung' = "surface" /\ IsArabicWord(word')) \/ rung' = "answered")
    BY <1>3 DEF Question
  <2>2. IndexRight' /\ CorpusRight'
    BY <2>1, IndexStays DEF JInv, CorpusRight
  <2>3. word' \in Seq(Signs)
    BY <2>1, TrimSpaceTrims, JidhrAssumption DEF IsTrim
  <2> QED BY <2>1, <2>2, <2>3 DEF JInv, Passed, Asking
<1>4. CASE SurfaceRung
  <2>1. /\ rung = "surface" /\ Stay
        /\ \/ rung' = "lookup" /\ ~(RootlessSurface(word) /\ AttestsSurface(word) = <<>>)
           \/ rung' = "answered"
    BY <1>4 DEF SurfaceRung, Answers
  <2>2. Passed'
    BY <2>1 DEF Passed, Stay, Asking, RootlessSurface, AttestsSurface
  <2> QED BY <2>1, <2>2, JInvStays DEF Stay, Asking
<1>5. CASE LookupRung
  <2>1. rung = "lookup" /\ Stay /\ (rung' = "strip" \/ rung' = "answered")
    BY <1>5 DEF LookupRung, Answers
  <2>2. Passed'
    BY <2>1 DEF JInv, Passed, Stay, Asking, RootlessSurface, AttestsSurface
  <2> QED BY <2>1, <2>2, JInvStays DEF Stay, Asking
<1>6. CASE StripRung
  <2>1. rung = "strip" /\ Stay /\ (rung' = "attested" \/ rung' = "answered")
    BY <1>6 DEF StripRung, Answers
  <2>2. Passed'
    BY <2>1 DEF JInv, Passed, Stay, Asking, RootlessSurface, AttestsSurface
  <2> QED BY <2>1, <2>2, JInvStays DEF Stay, Asking
<1>7. CASE AttestedRung
  <2>1. rung = "attested" /\ Stay /\ ((rung' = "patterns" /\ Attests(Key(word)) = <<>>) \/ rung' = "answered")
    BY <1>7 DEF AttestedRung, Answers
  <2>2. Passed'
    BY <2>1 DEF JInv, Passed, Stay, Asking, RootlessSurface, AttestsSurface, Attests
  <2> QED BY <2>1, <2>2, JInvStays DEF Stay, Asking
<1>8. CASE PatternRung
  <2>1. rung = "patterns" /\ Stay /\ rung' = "answered"
    BY <1>8 DEF PatternRung
  <2>2. Passed'
    BY <2>1 DEF Passed, Asking
  <2> QED BY <2>1, <2>2, JInvStays DEF Stay, Asking
<1>9. CASE UNCHANGED jvars
  <2>1. IndexRight => IndexRight'
    BY <1>9, IndexStays DEF jvars
  <2> QED BY <1>9, <2>1 DEF JInv, jvars, CorpusRight, Passed, RootlessSurface, AttestsSurface, Attests
<1> QED BY <1>1, <1>2, <1>3, <1>4, <1>5, <1>6, <1>7, <1>8, <1>9 DEF JNext

\* An answer has been given: nothing more is done.
LEMMA AnsweredStays ==
  ASSUME [JNext]_jvars, rung = "answered"
  PROVE  UNCHANGED jvars
BY DEF JNext, WriteCorpus, Index, Question, SurfaceRung, LookupRung, StripRung, AttestedRung, PatternRung

-----------------------------------------------------------------------------
(* A word finds its root *)

SpeltRoots(d, wd) == {w.root : w \in {v \in d.words : TrimMarks(v.text) = TrimMarks(wd)}}
LetteredRoots(d, wd) == {w.root : w \in {v \in d.words : Key(wd) \in IndexKeys(v.text)}}
Found(d, wd, ans) ==
    IF Cardinality(SpeltRoots(d, wd)) = 1
    THEN /\ Range(ans.roots) = SpeltRoots(d, wd) \ {NoLetters}
         /\ ans.rootless = (SpeltRoots(d, wd) = {NoLetters})
    ELSE Range(ans.roots) = LetteredRoots(d, wd) \ {NoLetters}

LEMMA FoundIsThatRoot ==
  WordFindsItsRoot <=> (Answered /\ jcorpus # NoCorpus /\ database.entries = <<>> => Found(database, word, answer))
BY DEF WordFindsItsRoot, Found, SpeltRoots, LetteredRoots

LEMMA ListOfOne ==
  ASSUME NEW s, NEW S, NEW R, GoesThrough(s, S, R)
  PROVE  /\ Len(s) = 1 => S = {s[1]}
         /\ \A r : S = {r} => Len(s) = 1 /\ s[1] = r
         /\ s = <<>> <=> S = {}
         /\ Len(s) \in Nat /\ Range(s) = S
<1>1. Len(s) = Cardinality(S) /\ Len(s) \in Nat /\ DOMAIN s = 1 .. Len(s) /\ Range(s) = S /\ s \in Seq(S)
      /\ (\A x \in S : \E k \in DOMAIN s : s[k] = x) /\ \A k \in DOMAIN s : s[k] \in S
  BY DEF GoesThrough
<1>2. ASSUME Len(s) = 1 PROVE S = {s[1]}
  <2>1. DOMAIN s = {1}
    BY <1>1, <1>2
  <2> QED BY <1>1, <2>1
<1>3. ASSUME NEW r, S = {r} PROVE Len(s) = 1 /\ s[1] = r
  <2>1. Len(s) = 1
    BY <1>1, <1>3, FS_Singleton
  <2> QED BY <1>2, <1>3, <2>1
<1>4. s = <<>> => S = {}
  BY <1>1, NothingHasNoSigns
<1>5. S = {} => s = <<>>
  BY <1>1, EmptySeq
<1> QED BY <1>1, <1>2, <1>3, <1>4, <1>5

LEMMA OneIsListed ==
  ASSUME NEW s, NEW R, NEW r, GoesThrough(s, {r}, R)
  PROVE  Len(s) = 1 /\ s[1] = r
BY ListOfOne

\* What the store says of an Arabic word is what the mushaf writes.
LEMMA StoreSaysTheMushaf ==
  ASSUME database \in Databases, jcorpus = FileOf(database), IndexRight,
         NEW wd \in Seq(Signs), IsArabicWord(wd)
  PROVE  /\ GoesThrough(AttestsSurface(wd), SpeltRoots(database, wd) \ {NoLetters},
                         MostUsed(SpeltRoots(database, wd) \ {NoLetters}))
         /\ GoesThrough(Attests(Key(wd)), LetteredRoots(database, wd) \ {NoLetters},
                         MostUsed(LetteredRoots(database, wd) \ {NoLetters}))
         /\ RootlessSurface(wd) <=> NoLetters \in SpeltRoots(database, wd)
         /\ Rootless(Key(wd)) <=> NoLetters \in LetteredRoots(database, wd)
         /\ SpeltRoots(database, wd) \subseteq LetteredRoots(database, wd)
<1> DEFINE k == Key(wd)
           f == TrimMarks(wd)
           ws == database.words
<1>1. f # <<>> /\ k \in IndexKeys(wd) /\ f \in Seq(Signs)
  BY WordHasItsKey, MarksAreTrimmed
<1>2. \A w \in ws : w.text \in Seq(Signs) /\ IndexKeys(TrimMarks(w.text)) = IndexKeys(w.text)
  BY JidhrAssumption, KeysAreOfTheSpelling
<1>3. IndexKeys(f) = IndexKeys(wd)
  BY KeysAreOfTheSpelling
<1>4. \A w \in ws : TrimMarks(w.text) = f => k \in IndexKeys(w.text)
  BY <1>1, <1>2, <1>3
<1>5. \A w \in ws : k \in IndexKeys(w.text) => TrimMarks(w.text) # <<>>
  <2>1. Key(<<>>) = <<>> /\ IndexKeys(<<>>) = {}
    <3>1. Without(<<>>, {"."}) = <<>> /\ Without(<<>>, Dropped) = <<>>
      <4> SUFFICES ASSUME NEW dropped PROVE Without(<<>>, dropped) = <<>>
        OBVIOUS
      <4> DEFINE t == Without(<<>>, dropped)
      <4>1. <<>> \in Seq(Signs)
        OBVIOUS
      <4>2. t \in Seq(Signs) /\ Range(t) = {}
        BY <4>1, WithoutSigns, NothingHasNoSigns
      <4> HIDE DEF t
      <4>3. t # <<>> => 1 \in DOMAIN t
        BY <4>2, FormsAreLists
      <4>4. t = <<>>
        BY <4>2, <4>3 DEF Range
      <4> QED BY <4>4 DEF t
    <3>2. TrimSpace(<<>>) = <<>> /\ DaggersSpelt(<<>>) = <<>>
      BY DEF TrimSpace, DaggersSpelt
    <3>3. Normalize(<<>>) = <<>>
      BY <3>1 DEF Normalize
    <3>4. Key(<<>>) = <<>>
      BY <3>1, <3>2, <3>3 DEF Key, TrimMarks
    <3> QED BY <3>2, <3>4 DEF IndexKeys
  <2> QED BY <1>2, <2>1
<1> DEFINE A == jcorpus.attested
           B == jcorpus.rootless
<1>6. A = {w \in SpellingsOf(database) : w.root # NoLetters /\ w.form # <<>>}
      /\ B = {w.form : w \in {v \in SpellingsOf(database) : v.root = NoLetters /\ v.form # <<>>}}
  BY DEF FileOf
<1>7. \A o \in A : \E w \in ws : o.form = TrimMarks(w.text) /\ o.root = w.root /\ o.root # NoLetters
  BY <1>6 DEF SpellingsOf
<1>8. ASSUME NEW w \in ws, w.root # NoLetters, TrimMarks(w.text) # <<>>
      PROVE  \E o \in A : o.form = TrimMarks(w.text) /\ o.root = w.root
  <2> DEFINE o == [form |-> TrimMarks(w.text), root |-> w.root]
  <2>1. o \in SpellingsOf(database) /\ o.form = TrimMarks(w.text) /\ o.root = w.root
    BY DEF SpellingsOf
  <2> HIDE DEF o
  <2> QED BY <1>6, <1>8, <2>1
<1>9. \A g : g \in B <=> \E w \in ws : g = TrimMarks(w.text) /\ w.root = NoLetters /\ g # <<>>
  <2>1. \A o \in SpellingsOf(database) : \E w \in ws : o.form = TrimMarks(w.text) /\ o.root = w.root
    BY DEF SpellingsOf
  <2>2. ASSUME NEW w \in ws PROVE \E o \in SpellingsOf(database) : o.form = TrimMarks(w.text) /\ o.root = w.root
    <3> DEFINE o == [form |-> TrimMarks(w.text), root |-> w.root]
    <3>1. o \in SpellingsOf(database) /\ o.form = TrimMarks(w.text) /\ o.root = w.root
      BY DEF SpellingsOf
    <3> HIDE DEF o
    <3> QED BY <3>1
  <2>3. \A g : g \in B <=> \E o \in SpellingsOf(database) : g = o.form /\ o.root = NoLetters /\ o.form # <<>>
    BY <1>6
  <2> HIDE DEF B
  <2> QED BY <2>1, <2>2, <2>3
<1> HIDE DEF A, B, f, k
<1>10. UnderKey(SpellingOf, f) = SpeltRoots(database, wd) \ {NoLetters}
  <2>1. UnderKey(SpellingOf, f) = {o.root : o \in {p \in A : f = p.form}}
    BY DEF UnderKey, SpellingOf, A
  <2>2. SpeltRoots(database, wd) = {w.root : w \in {v \in ws : TrimMarks(v.text) = f}}
    BY DEF SpeltRoots, f
  <2> QED BY <1>1, <1>7, <1>8, <2>1, <2>2
<1>11. UnderKey(KeysOf, k) = LetteredRoots(database, wd) \ {NoLetters}
  <2>1. UnderKey(KeysOf, k) = {o.root : o \in {p \in A : k \in IndexKeys(p.form)}}
    BY DEF UnderKey, KeysOf, A
  <2>2. LetteredRoots(database, wd) = {w.root : w \in {v \in ws : k \in IndexKeys(v.text)}}
    BY DEF LetteredRoots, k
  <2> QED BY <1>2, <1>5, <1>7, <1>8, <2>1, <2>2
<1>12. AttestsSurface(wd) = At(index.bySpelling, f) /\ Attests(k) = At(index.attested, k)
  BY DEF AttestsSurface, Attests, f
<1>13. GoesThrough(At(index.bySpelling, f), UnderKey(SpellingOf, f), MostUsed(UnderKey(SpellingOf, f)))
       /\ GoesThrough(At(index.attested, k), UnderKey(KeysOf, k), MostUsed(UnderKey(KeysOf, k)))
  BY DEF IndexRight, TableRight
<1>14. RootlessSurface(wd) <=> NoLetters \in SpeltRoots(database, wd)
  BY <1>1, <1>9 DEF RootlessSurface, SpeltRoots, f, B
<1>15. Rootless(k) <=> NoLetters \in LetteredRoots(database, wd)
  <2>1. Rootless(k) <=> \E g \in B : k \in IndexKeys(g)
    BY DEF Rootless, B
  <2>2. NoLetters \in LetteredRoots(database, wd) <=> \E w \in ws : w.root = NoLetters /\ k \in IndexKeys(w.text)
    BY DEF LetteredRoots, k
  <2> QED BY <1>2, <1>5, <1>9, <2>1, <2>2
<1>16. SpeltRoots(database, wd) \subseteq LetteredRoots(database, wd)
  BY <1>4 DEF SpeltRoots, LetteredRoots, f, k
<1> QED BY <1>10, <1>11, <1>12, <1>13, <1>14, <1>15, <1>16 DEF k

LEMMA SpeltIsFinite ==
  ASSUME NEW d \in Databases, NEW wd
  PROVE  IsFiniteSet(SpeltRoots(d, wd))
<1> DEFINE P == {v \in d.words : TrimMarks(v.text) = TrimMarks(wd)}
<1>1. IsFiniteSet(P)
  BY JidhrAssumption, FS_Subset
<1>2. SpeltRoots(d, wd) = {w.root : w \in P}
  BY DEF SpeltRoots
<1> HIDE DEF P
<1>3. [w \in P |-> w.root] \in Surjection(P, SpeltRoots(d, wd))
  BY <1>2 DEF Surjection
<1> QED BY <1>1, <1>3, FS_Surjection

\* With no entries, no key has a claim.
LEMMA NoEntriesNoClaim ==
  ASSUME jcorpus.entries = <<>>
  PROVE  \A f : BySurface(f) = NoLetters /\ ByKey(f) = NoLetters
<1>1. \A claims : claims \subseteq DOMAIN jcorpus.entries => claims = {}
  <2>1. DOMAIN <<>> = {}
    OBVIOUS
  <2> QED BY <2>1
<1>2. FirstEntry({}) = NoLetters
  BY DEF FirstEntry
<1>3. ASSUME NEW f PROVE {i \in DOMAIN jcorpus.entries : jcorpus.entries[i].surface = f} = {}
  BY <1>1
<1>4. ASSUME NEW k PROVE /\ {i \in DOMAIN jcorpus.entries : k \in IndexKeys(jcorpus.entries[i].surface)} = {}
                         /\ {i \in DOMAIN jcorpus.entries : k \in IndexKeys(jcorpus.entries[i].lemma)} = {}
  BY <1>1
<1> QED BY <1>2, <1>3, <1>4 DEF BySurface, ByKey

LEMMA AnswerIsGiven ==
  ASSUME NEW m, NEW r, NEW b, Answers(m, r, b)
  PROVE  answer'.method = m /\ answer'.roots = r /\ answer'.rootless = b /\ rung' = "answered"
BY DEF Answers, Unanswered

\* What the rung of attested forms answers with, when it does.
LEMMA AttestedGives ==
  ASSUME AttestedRung, rung' = "answered"
  PROVE  LET roots == Attests(Key(word))
             exact == AttestsSurface(word)
             settled == ~RootlessSurface(word) /\ Len(exact) = 1 /\ exact[1] \in Range(roots)
         IN  \/ roots = <<>> /\ Rootless(Key(word)) /\ answer'.roots = <<>> /\ answer'.rootless = TRUE
             \/ Len(roots) = 1 /\ ~Rootless(Key(word)) /\ answer'.roots = roots /\ answer'.rootless = FALSE
             \/ settled /\ answer'.roots = exact /\ answer'.rootless = FALSE
             \/ roots # <<>> /\ (Len(roots) # 1 \/ Rootless(Key(word))) /\ ~settled /\ answer'.roots = roots
                   /\ answer'.method = "shared"
<1> DEFINE roots == Attests(Key(word))
           exact == AttestsSurface(word)
           settled == ~RootlessSurface(word) /\ Len(exact) = 1 /\ exact[1] \in Range(roots)
<1>1. \/ roots = <<>> /\ Rootless(Key(word)) /\ Answers("no root", <<>>, TRUE)
      \/ Len(roots) = 1 /\ ~Rootless(Key(word)) /\ Answers("pattern", roots, FALSE)
      \/ settled /\ Answers("lexicon", exact, FALSE)
      \/ roots # <<>> /\ (Len(roots) # 1 \/ Rootless(Key(word))) /\ ~settled
            /\ Answers("shared", roots, Rootless(Key(word)))
  BY Zenon DEF AttestedRung
<1>2. CASE roots = <<>> /\ Rootless(Key(word)) /\ Answers("no root", <<>>, TRUE)
  BY <1>2, AnswerIsGiven, Zenon
<1>3. CASE Len(roots) = 1 /\ ~Rootless(Key(word)) /\ Answers("pattern", roots, FALSE)
  BY <1>3, AnswerIsGiven, Zenon
<1>4. CASE settled /\ Answers("lexicon", exact, FALSE)
  BY <1>4, AnswerIsGiven, Zenon
<1>5. CASE roots # <<>> /\ (Len(roots) # 1 \/ Rootless(Key(word))) /\ ~settled
            /\ Answers("shared", roots, Rootless(Key(word)))
  BY <1>5, AnswerIsGiven, Zenon
<1> QED BY <1>1, <1>2, <1>3, <1>4, <1>5

\* Of a corpus without entries, the step that answers has found the roots.
LEMMA WordIsFoundWhenAnswered ==
  ASSUME JInv, JNext, rung' = "answered", jcorpus # NoCorpus, database.entries = <<>>
  PROVE  Found(database, word', answer')
<1>1. jcorpus = FileOf(database) /\ jcorpus.entries = <<>> /\ database \in Databases
  BY DEF JInv, CorpusRight, FileOf
<1> DEFINE spelt == SpeltRoots(database, word)
           lettered == LetteredRoots(database, word)
           exact == AttestsSurface(word)
           roots == Attests(Key(word))
<1>2. ASSUME rung \in Asking
      PROVE  /\ GoesThrough(exact, spelt \ {NoLetters}, MostUsed(spelt \ {NoLetters}))
             /\ GoesThrough(roots, lettered \ {NoLetters}, MostUsed(lettered \ {NoLetters}))
             /\ RootlessSurface(word) <=> NoLetters \in spelt
             /\ Rootless(Key(word)) <=> NoLetters \in lettered
             /\ spelt \subseteq lettered
  BY <1>1, <1>2, StoreSaysTheMushaf DEF JInv, Asking
<1>3. ASSUME NEW wd PROVE Cardinality(SpeltRoots(database, wd)) = 1 <=> \E r : SpeltRoots(database, wd) = {r}
  BY <1>1, SpeltIsFinite, FS_Singleton
<1>4. ASSUME NEW form \in Asked, Question(form) PROVE Found(database, word', answer')
  <2>1. word' = TrimSpace(form) /\ ~IsArabicWord(word') /\ answer' = [Unanswered EXCEPT !.method = "not Arabic"]
    BY <1>4 DEF Question
  <2>2. word' \in Seq(Signs)
    BY <2>1, TrimSpaceTrims, JidhrAssumption DEF IsTrim
  <2>3. ASSUME NEW w \in database.words
        PROVE  TrimMarks(w.text) # TrimMarks(word') /\ Key(word') \notin IndexKeys(w.text)
    <3>1. w.text \in Seq(Signs) /\ IsArabicWord(w.text)
      BY <1>1, JidhrAssumption
    <3>2. Key(word') \notin IndexKeys(w.text)
      BY <2>1, <2>2, <3>1, NoWordHasNoKey
    <3>3. IsArabicWord(TrimMarks(w.text)) /\ ~IsArabicWord(TrimMarks(word'))
      BY <2>1, <2>2, <3>1, SpellingIsAsArabic
    <3> QED BY <3>2, <3>3
  <2>4. SpeltRoots(database, word') = {} /\ LetteredRoots(database, word') = {}
    BY <2>3 DEF SpeltRoots, LetteredRoots
  <2>5. answer'.roots = <<>>
    BY <2>1 DEF Unanswered
  <2>6. Cardinality(SpeltRoots(database, word')) # 1
    BY <2>4, FS_EmptySet
  <2> QED BY <2>4, <2>5, <2>6, NothingHasNoSigns DEF Found
<1>5. CASE SurfaceRung
  <2>1. rung \in Asking /\ word' = word /\ RootlessSurface(word) /\ exact = <<>> /\ Answers("no root", <<>>, TRUE)
    BY <1>5 DEF SurfaceRung, Stay, Asking
  <2>2. answer'.roots = <<>> /\ answer'.rootless = TRUE
    BY <2>1, AnswerIsGiven
  <2>3. spelt = {NoLetters}
    <3>1. spelt \ {NoLetters} = {} /\ NoLetters \in spelt
      BY <1>2, <2>1, ListOfOne
    <3> QED BY <3>1
  <2>4. Cardinality(spelt) = 1
    BY <1>3, <2>3
  <2> QED BY <2>1, <2>2, <2>3, <2>4, NothingHasNoSigns DEF Found
<1>6. CASE LookupRung
  <2>1. BySurface(word) = NoLetters /\ ByKey(Key(word)) = NoLetters
    BY <1>1, NoEntriesNoClaim
  <2>2. rung' = "strip"
    BY <1>6, <2>1 DEF LookupRung
  <2> QED BY <2>2
<1>7. CASE StripRung
  <2>1. \A f : ByKey(f) = NoLetters
    BY <1>1, NoEntriesNoClaim
  <2>2. rung' = "attested"
    BY <1>7, <2>1 DEF StripRung
  <2> QED BY <2>2
<1>8. ASSUME rung \in Asking \ {"surface"} PROVE spelt # {NoLetters}
  <2>1. ~(RootlessSurface(word) /\ exact = <<>>)
    BY <1>8 DEF JInv, Passed
  <2>2. spelt = {NoLetters} => spelt \ {NoLetters} = {}
    OBVIOUS
  <2> QED BY <1>2, <1>8, <2>1, <2>2, ListOfOne
<1>9. CASE AttestedRung
  <2>1. rung = "attested" /\ word' = word
    BY <1>9 DEF AttestedRung, Stay
  <2>2. rung \in Asking /\ rung \in Asking \ {"surface"}
    BY <2>1 DEF Asking
  <2>3. spelt # {NoLetters}
    BY <1>8, <2>2
  <2> DEFINE settled == ~RootlessSurface(word) /\ Len(exact) = 1 /\ exact[1] \in Range(roots)
  <2>4. \/ roots = <<>> /\ Rootless(Key(word)) /\ answer'.roots = <<>> /\ answer'.rootless = TRUE
        \/ Len(roots) = 1 /\ ~Rootless(Key(word)) /\ answer'.roots = roots /\ answer'.rootless = FALSE
        \/ settled /\ answer'.roots = exact /\ answer'.rootless = FALSE
        \/ roots # <<>> /\ (Len(roots) # 1 \/ Rootless(Key(word))) /\ ~settled /\ answer'.roots = roots
    BY <1>9, AttestedGives
  <2>5. Range(exact) = spelt \ {NoLetters} /\ Range(roots) = lettered \ {NoLetters}
    BY <1>2, <2>2, ListOfOne
  <2>6. spelt \subseteq lettered /\ (RootlessSurface(word) <=> NoLetters \in spelt)
        /\ (Rootless(Key(word)) <=> NoLetters \in lettered)
    BY <1>2, <2>2
  <2>7. ASSUME NEW r, spelt = {r}
        PROVE  r # NoLetters /\ settled /\ exact[1] = r /\ roots # <<>> /\ spelt \ {NoLetters} = {r}
    <3>1. r # NoLetters /\ spelt \ {NoLetters} = {r}
      BY <2>3, <2>7
    <3>2. Len(exact) = 1 /\ exact[1] = r
      <4>1. GoesThrough(exact, {r}, MostUsed(spelt \ {NoLetters}))
        BY <1>2, <2>2, <3>1
      <4> HIDE DEF exact, spelt
      <4> QED BY <4>1, OneIsListed
    <3>3. r \in Range(roots)
      BY <2>5, <2>6, <2>7, <3>1
    <3>4. roots # <<>>
      BY <3>3, NothingHasNoSigns
    <3> QED BY <2>6, <2>7, <3>1, <3>2, <3>3, <3>4
  <2>8. ASSUME settled PROVE \E r : spelt = {r}
    <3>1. spelt \ {NoLetters} = {exact[1]}
      BY <1>2, <2>2, <2>8, ListOfOne
    <3> QED BY <2>6, <2>8, <3>1
  <2>9. ASSUME Len(roots) = 1, NEW r, spelt = {r} PROVE lettered \ {NoLetters} = {r}
    <3>1. lettered \ {NoLetters} = {roots[1]}
      BY <1>2, <2>2, <2>9, ListOfOne
    <3>2. r \in lettered \ {NoLetters}
      BY <2>6, <2>7, <2>9
    <3> QED BY <3>1, <3>2
  <2>10. CASE \E r : spelt = {r}
    <3>1. PICK r : spelt = {r}
      BY <2>10
    <3>2. r # NoLetters /\ settled /\ roots # <<>> /\ spelt \ {NoLetters} = {r}
      BY <2>7, <3>1
    <3>3. \/ Len(roots) = 1 /\ answer'.roots = roots /\ answer'.rootless = FALSE
          \/ answer'.roots = exact /\ answer'.rootless = FALSE
      BY <2>4, <3>2
    <3>4. Range(answer'.roots) = {r} /\ answer'.rootless = FALSE
      BY <2>5, <2>9, <3>1, <3>2, <3>3
    <3>5. Cardinality(spelt) = 1
      BY <1>3, <3>1
    <3> QED BY <2>1, <2>3, <3>2, <3>4, <3>5 DEF Found
  <2>11. CASE ~ \E r : spelt = {r}
    <3>1. Cardinality(spelt) # 1
      BY <1>3, <2>11
    <3>2. ~settled
      BY <2>8, <2>11
    <3>3. answer'.roots = roots
      BY <2>4, <3>2
    <3> QED BY <2>1, <2>5, <3>1, <3>3 DEF Found
  <2> QED BY <2>10, <2>11
<1>10. CASE PatternRung
  <2>1. rung = "patterns" /\ word' = word /\ answer'.roots = <<>>
    BY <1>10 DEF PatternRung, Stay, Unanswered
  <2>2. rung \in Asking /\ rung \in Asking \ {"surface"} /\ roots = <<>>
    BY <2>1 DEF JInv, Passed, Asking
  <2>3. lettered \ {NoLetters} = {} /\ spelt \subseteq lettered
    BY <1>2, <2>2, ListOfOne
  <2>4. spelt # {NoLetters}
    BY <1>8, <2>2
  <2>5. ~ \E r : spelt = {r}
    BY <2>3, <2>4
  <2>6. Cardinality(spelt) # 1
    BY <1>3, <2>5
  <2> QED BY <2>1, <2>3, <2>6, NothingHasNoSigns DEF Found
<1> QED BY <1>4, <1>5, <1>6, <1>7, <1>9, <1>10 DEF JNext, WriteCorpus, Index

\* WordFindsItsRoot: resolve (jidhr/pkg/root/root.go) gives a word written as the
\* mushaf writes it the one root written there, and of letters two words share
\* every root of theirs and no other, for every mushaf and every form asked.
THEOREM WordsFindTheirRoots == JSpec => []WordFindsItsRoot
<1>1. JInit => JInv /\ WordFindsItsRoot
  BY JInvFirst DEF JInit, WordFindsItsRoot, Answered
<1>2. JInv /\ WordFindsItsRoot /\ [JNext]_jvars => JInv' /\ WordFindsItsRoot'
  <2> SUFFICES ASSUME JInv, WordFindsItsRoot, [JNext]_jvars PROVE WordFindsItsRoot'
    BY JInvKept
  <2>1. CASE UNCHANGED jvars
    BY <2>1 DEF jvars, WordFindsItsRoot, Answered
  <2>2. CASE JNext /\ rung # "answered"
    <3> SUFFICES ASSUME rung' = "answered", jcorpus' # NoCorpus, database'.entries = <<>>
                 PROVE  Found(database', word', answer')
      BY DEF WordFindsItsRoot, Answered, Found, SpeltRoots, LetteredRoots
    <3>1. UNCHANGED <<database, jcorpus>>
      BY <2>2 DEF JNext, WriteCorpus, Index, Question, SurfaceRung, LookupRung, StripRung, AttestedRung,
                  PatternRung, Stay
    <3> QED BY <2>2, <3>1, WordIsFoundWhenAnswered
  <2> QED BY <2>1, <2>2, AnsweredStays
<1> QED BY <1>1, <1>2, PTL DEF JSpec

-----------------------------------------------------------------------------
(* The same on every run *)

InOrder(d, roots) ==
    \A i, j \in DOMAIN roots : i < j =>
        /\ UsesIn(d, roots[i]) >= UsesIn(d, roots[j])
        /\ UsesIn(d, roots[i]) = UsesIn(d, roots[j]) => Compare(roots[i], roots[j])

LEMMA SharedAreInOrder ==
  ASSUME JInv, IndexRight, NEW k
  PROVE  InOrder(database, Attests(k))
<1> DEFINE s == Attests(k)
           S == UnderKey(KeysOf, k)
<1>1. GoesThrough(s, S, MostUsed(S))
  BY DEF IndexRight, TableRight, Attests
<1>2. \A r \in S : UsesIn(database, r) \in Int
  BY CorpusIsKnown, JidhrAssumption DEF JInv, FormsKnown, UnderKey, UsesIn, KeysOf
<1> HIDE DEF s, S
<1>3. ASSUME NEW i \in DOMAIN s, NEW j \in DOMAIN s, i < j
      PROVE  /\ UsesIn(database, s[i]) >= UsesIn(database, s[j])
             /\ UsesIn(database, s[i]) = UsesIn(database, s[j]) => Compare(s[i], s[j])
  <2>1. i \in Int /\ j \in Int /\ s[i] \in S /\ s[j] \in S /\ (s[i] = s[j] => i = j)
    BY <1>1 DEF GoesThrough
  <2>2. <<s[i], s[j]>> \in MostUsed(S) /\ s[i] # s[j]
    BY <1>1, <1>3, <2>1 DEF GoesThrough
  <2>3. UsesIn(database, s[i]) > UsesIn(database, s[j])
        \/ (UsesIn(database, s[i]) = UsesIn(database, s[j]) /\ Compare(s[i], s[j]))
    BY <2>2 DEF MostUsed, UsesIn, Uses
  <2> QED BY <1>2, <2>1, <2>3
<1> QED BY <1>3 DEF InOrder, s

\* SameOnEveryRun: the roots that share a spelling are answered with in one
\* order (jidhr/pkg/root/store.go, sortByUse), whatever order the forms came in.
THEOREM AnswersAreTheSame == JSpec => []SameOnEveryRun
<1>1. JInit => JInv /\ SameOnEveryRun
  BY JInvFirst DEF JInit, SameOnEveryRun, Answered
<1>2. JInv /\ SameOnEveryRun /\ [JNext]_jvars => JInv' /\ SameOnEveryRun'
  <2> SUFFICES ASSUME JInv, SameOnEveryRun, [JNext]_jvars PROVE SameOnEveryRun'
    BY JInvKept
  <2>1. CASE UNCHANGED jvars
    BY <2>1 DEF jvars, SameOnEveryRun, Answered, Uses
  <2>2. CASE JNext /\ rung # "answered"
    <3> SUFFICES ASSUME rung' = "answered", answer'.method = "shared"
                 PROVE  InOrder(database', answer'.roots)
      BY DEF SameOnEveryRun, Answered, InOrder, Uses, UsesIn
    <3>1. CASE AttestedRung
      <4>1. IndexRight
        BY <3>1 DEF JInv, AttestedRung
      <4>2. answer'.roots = Attests(Key(word)) /\ UNCHANGED database
        <5>1. Answers("shared", Attests(Key(word)), Rootless(Key(word))) \/ answer'.method # "shared"
          <6>1. \/ Answers("no root", <<>>, TRUE)
                \/ Answers("pattern", Attests(Key(word)), FALSE)
                \/ Answers("lexicon", AttestsSurface(word), FALSE)
                \/ Answers("shared", Attests(Key(word)), Rootless(Key(word)))
            BY <3>1, Zenon DEF AttestedRung
          <6>2. "no root" # "shared" /\ "pattern" # "shared" /\ "lexicon" # "shared"
            OBVIOUS
          <6> QED BY <6>1, <6>2, AnswerIsGiven, Zenon
        <5>2. UNCHANGED database
          BY <3>1 DEF AttestedRung, Stay
        <5> QED BY <5>1, <5>2, AnswerIsGiven
      <4> QED BY <4>1, <4>2, SharedAreInOrder
    <3>2. ASSUME NEW form \in Asked, Question(form) PROVE FALSE
      BY <3>2 DEF Question, Unanswered
    <3>3. CASE SurfaceRung
      <4>1. Answers("no root", <<>>, TRUE)
        BY <3>3 DEF SurfaceRung
      <4>2. answer'.method = "no root"
        BY <4>1, AnswerIsGiven, Zenon
      <4> QED BY <4>2
    <3>4. CASE LookupRung
      <4>1. \/ Answers("lexicon", <<BySurface(word)>>, FALSE)
            \/ Answers("key", <<ByKey(Key(word))>>, Rootless(Key(word)))
        BY <3>4 DEF LookupRung
      <4>2. answer'.method = "lexicon" \/ answer'.method = "key"
        BY <4>1, AnswerIsGiven, Zenon
      <4> QED BY <4>2
    <3>5. CASE StripRung
      <4>1. PICK r : Answers("stripped", r, Rootless(Key(word)))
        BY <3>5 DEF StripRung
      <4> QED BY <4>1, AnswerIsGiven
    <3>6. CASE PatternRung
      BY <3>6 DEF PatternRung, Unanswered
    <3> QED BY <2>2, <3>1, <3>2, <3>3, <3>4, <3>5, <3>6 DEF JNext, WriteCorpus, Index
  <2> QED BY <2>1, <2>2, AnsweredStays
<1> QED BY <1>1, <1>2, PTL DEF JSpec

-----------------------------------------------------------------------------
(* Peeling *)

LEMMA AffixesAreShort ==
  /\ \A p \in StripPrefixes : Len(p) \in 1 .. 2
  /\ \A q \in StripSuffixes : Len(q) \in 1 .. 3
BY DEF StripPrefixes, StripSuffixes

\* Spans of a form of n letters.
SpansIn(n) == {s \in (0 .. n) \X (0 .. n) : s[1] <= s[2]}

LEMMA SpansAreFinite ==
  ASSUME NEW n \in Nat
  PROVE  IsFiniteSet(SpansIn(n))
<1>1. IsFiniteSet((0 .. n) \X (0 .. n))
  <2>1. IsFiniteSet(0 .. n)
    BY FS_Interval
  <2> QED BY <2>1, FS_Product
<1> QED BY <1>1, FS_Subset DEF SpansIn

LEMMA SpeltIsTheSpan ==
  ASSUME NEW form \in Seq(Signs), NEW s \in SpansIn(Len(form))
  PROVE  /\ s[1] \in Int /\ s[2] \in Int /\ 0 <= s[1] /\ s[1] <= s[2] /\ s[2] <= Len(form)
         /\ s = <<s[1], s[2]>>
         /\ IsSpan(Spelt(form, s), form, s[1] + 1, s[2])
         /\ Spelt(form, s) \in Seq(Signs) /\ Len(Spelt(form, s)) = s[2] - s[1]
<1>1. s[1] \in Int /\ s[2] \in Int /\ 0 <= s[1] /\ s[1] <= s[2] /\ s[2] <= Len(form) /\ s = <<s[1], s[2]>>
  BY FormsAreLists DEF SpansIn
<1>2. s[1] + 1 \in Int /\ 1 <= s[1] + 1 /\ s[1] + 1 <= s[2] + 1
  BY <1>1
<1>3. IsSpan(Spelt(form, s), form, s[1] + 1, s[2])
  BY <1>1, <1>2, SubSeqIsSpan DEF Spelt
<1>4. Len(Spelt(form, s)) = s[2] - (s[1] + 1) + 1 /\ Spelt(form, s) \in Seq(Signs)
  BY <1>3 DEF IsSpan
<1>5. s[2] - (s[1] + 1) + 1 = s[2] - s[1]
  BY <1>1
<1> QED BY <1>1, <1>3, <1>4, <1>5

LEMMA PeelsAreSpans ==
  ASSUME NEW form \in Seq(Signs), NEW s \in SpansIn(Len(form))
  PROVE  Peels(form, s) \subseteq SpansIn(Len(form))
<1> DEFINE text == Spelt(form, s)
           n == Len(form)
<1>1. s[1] \in Int /\ s[2] \in Int /\ 0 <= s[1] /\ s[1] <= s[2] /\ s[2] <= n /\ Len(text) = s[2] - s[1] /\ n \in Nat
  BY SpeltIsTheSpan, FormsAreLists
<1>2. ASSUME NEW p \in StripPrefixes, Len(text) - Len(p) >= minStem PROVE <<s[1] + Len(p), s[2]>> \in SpansIn(n)
  <2>1. Len(p) \in 1 .. 2
    BY AffixesAreShort
  <2>2. s[1] + Len(p) \in 0 .. n /\ s[2] \in 0 .. n /\ s[1] + Len(p) <= s[2]
    BY <1>1, <1>2, <2>1 DEF minStem
  <2> QED BY <2>2 DEF SpansIn
<1>3. ASSUME NEW q \in StripSuffixes, Len(text) - Len(q) >= minStem PROVE <<s[1], s[2] - Len(q)>> \in SpansIn(n)
  <2>1. Len(q) \in 1 .. 3
    BY AffixesAreShort
  <2>2. s[1] \in 0 .. n /\ s[2] - Len(q) \in 0 .. n /\ s[1] <= s[2] - Len(q)
    BY <1>1, <1>3, <2>1 DEF minStem
  <2> QED BY <2>2 DEF SpansIn
<1> QED BY <1>2, <1>3 DEF Peels

\* Spans in order: the longer, and of as long the one from further back.
LEMMA LeastPeeledIsALine ==
  ASSUME NEW n \in Nat, NEW spans, spans \subseteq SpansIn(n), NEW part, part \subseteq spans
  PROVE  /\ IsLine(LeastPeeled(spans), part)
         /\ \A a, b \in spans : <<a, b>> \in LeastPeeled(spans) => a[2] - a[1] >= b[2] - b[1]
<1> DEFINE Leads(a, b) == LET lost == (a[2] - a[1]) - (b[2] - b[1])
                          IN  lost > 0 \/ (lost = 0 /\ a[1] <= b[1])
<1>1. \A a \in spans : a[1] \in Int /\ a[2] \in Int /\ a = <<a[1], a[2]>>
  BY DEF SpansIn
<1>2. \A a, b \in spans : <<a, b>> \in LeastPeeled(spans) <=> Leads(a, b)
  BY DEF LeastPeeled
<1>3. \A a \in spans : Leads(a, a)
  BY <1>1
<1>4. \A a, b \in spans : Leads(a, b) \/ Leads(b, a)
  BY <1>1
<1>5. ASSUME NEW a \in spans, NEW b \in spans, Leads(a, b), Leads(b, a) PROVE a = b
  <2>1. a[1] = b[1] /\ a[2] = b[2]
    BY <1>1, <1>5
  <2>2. a = <<a[1], a[2]>> /\ b = <<b[1], b[2]>>
    BY <1>1
  <2> QED BY <2>1, <2>2, Zenon
<1>6. \A a, b, c \in spans : Leads(a, b) /\ Leads(b, c) => Leads(a, c)
  BY <1>1
<1>7. \A a, b \in spans : Leads(a, b) => a[2] - a[1] >= b[2] - b[1]
  BY <1>1
<1> HIDE DEF Leads
<1>8. IsLine(LeastPeeled(spans), part)
  BY <1>2, <1>3, <1>4, <1>5, <1>6 DEF IsLine
<1> QED BY <1>2, <1>7, <1>8

\* Of a finite set in a line one comes first.
LEMMA LineHasAFirst ==
  ASSUME NEW S, IsFiniteSet(S), S # {}, NEW R, IsLine(R, S)
  PROVE  \E x \in S : \A y \in S : <<x, y>> \in R
<1> DEFINE s == InLine(S, R)
<1>1. GoesThrough(s, S, R)
  BY LineIsGoneThrough
<1> HIDE DEF s
<1>2. Len(s) \in Nat /\ Len(s) # 0 /\ DOMAIN s = 1 .. Len(s)
  BY <1>1, FS_EmptySet DEF GoesThrough
<1>3. 1 \in DOMAIN s /\ \A k \in DOMAIN s : 1 <= k
  BY <1>2
<1>4. s[1] \in S /\ \A y \in S : \E k \in DOMAIN s : s[k] = y
  BY <1>1, <1>3 DEF GoesThrough
<1>5. \A k \in DOMAIN s : <<s[1], s[k]>> \in R
  BY <1>1, <1>3 DEF GoesThrough
<1> QED BY <1>4, <1>5

\* The stems of spans: their texts, each once, none before a longer.
AreStems(stems, form, spans) ==
    /\ DOMAIN stems \subseteq Nat
    /\ Range(stems) = {Spelt(form, s) : s \in spans}
    /\ \A i, j \in DOMAIN stems : i < j => Len(stems[i]) >= Len(stems[j])
    /\ \A i, j \in DOMAIN stems : stems[i] = stems[j] => i = j

LEMMA StemsAreStems ==
  ASSUME NEW form \in Seq(Signs), NEW spans, spans \subseteq SpansIn(Len(form))
  PROVE  AreStems(StemsOf(form, spans), form, spans)
<1> DEFINE line == LeastPeeled(spans)
           T(s) == Spelt(form, s)
           firsts == {s \in spans : \A r \in spans : T(r) = T(s) => <<s, r>> \in line}
           found == InLine(firsts, line)
           stems == StemsOf(form, spans)
           n == Len(form)
<1>1. n \in Nat
  BY FormsAreLists
<1>2. IsFiniteSet(spans)
  BY <1>1, SpansAreFinite, FS_Subset
<1> HIDE DEF line, n
<1>3. firsts \subseteq spans /\ IsFiniteSet(firsts)
  <2>1. firsts \subseteq spans
    OBVIOUS
  <2> HIDE DEF firsts
  <2> QED BY <1>2, <2>1, FS_Subset
<1>4. IsLine(line, firsts) /\ \A a, b \in spans : <<a, b>> \in line => a[2] - a[1] >= b[2] - b[1]
  <2> HIDE DEF firsts
  <2> QED BY <1>1, <1>3, LeastPeeledIsALine DEF line, n
<1>5. GoesThrough(found, firsts, line)
  <2> HIDE DEF firsts
  <2> QED BY <1>3, <1>4, LineIsGoneThrough
<1>6. stems = [k \in DOMAIN found |-> T(found[k])]
  BY DEF StemsOf, line
<1>7. \A x, y \in firsts : T(x) = T(y) => x = y
  <2>1. \A x, y \in firsts : T(x) = T(y) => <<x, y>> \in line /\ <<y, x>> \in line
    OBVIOUS
  <2> HIDE DEF firsts, T
  <2> QED BY <1>4, <2>1 DEF IsLine
<1>8. ASSUME NEW s \in spans PROVE \E x \in firsts : T(x) = T(s)
  <2> DEFINE alike == {r \in spans : T(r) = T(s)}
  <2>1. alike \subseteq spans /\ s \in alike
    OBVIOUS
  <2>2. IsFiniteSet(alike) /\ IsLine(line, alike)
    <3> HIDE DEF alike
    <3> QED BY <1>1, <1>2, <2>1, FS_Subset, LeastPeeledIsALine DEF line, n
  <2>3. PICK x \in alike : \A y \in alike : <<x, y>> \in line
    <3> HIDE DEF alike
    <3> QED BY <2>1, <2>2, LineHasAFirst
  <2>4. x \in firsts /\ T(x) = T(s)
    BY <2>3
  <2> HIDE DEF firsts, T
  <2> QED BY <2>4
<1> HIDE DEF stems, found
<1>9. \A k \in DOMAIN found : found[k] \in firsts /\ k \in Nat
  <2> HIDE DEF firsts
  <2> QED BY <1>5 DEF GoesThrough
<1>10. Range(stems) = {T(s) : s \in spans}
  <2>1. \A x \in firsts : \E k \in DOMAIN found : found[k] = x
    <3> HIDE DEF firsts
    <3> QED BY <1>5 DEF GoesThrough
  <2> HIDE DEF firsts, T
  <2>2. Range(stems) = {T(x) : x \in firsts}
    BY <1>6, <1>9, <2>1 DEF Range
  <2> QED BY <1>3, <1>8, <2>2
<1>11. ASSUME NEW i \in DOMAIN stems, NEW j \in DOMAIN stems
       PROVE  (i < j => Len(stems[i]) >= Len(stems[j])) /\ (stems[i] = stems[j] => i = j)
  <2>1. i \in DOMAIN found /\ j \in DOMAIN found /\ stems[i] = T(found[i]) /\ stems[j] = T(found[j])
        /\ found[i] \in firsts /\ found[j] \in firsts /\ found[i] \in spans /\ found[j] \in spans
    BY <1>6, <1>9
  <2> HIDE DEF firsts
  <2>2. found[i] = found[j] => i = j
    BY <1>5, <2>1 DEF GoesThrough
  <2>3. i < j => <<found[i], found[j]>> \in line
    <3>1. i \in Nat /\ j \in Nat
      BY <1>9, <2>1
    <3>2. i < j => i <= j
      BY <3>1
    <3> QED BY <1>5, <2>1, <3>2 DEF GoesThrough
  <2>4. Len(T(found[i])) = found[i][2] - found[i][1] /\ Len(T(found[j])) = found[j][2] - found[j][1]
    BY <2>1, SpeltIsTheSpan DEF n
  <2>5. i < j => Len(stems[i]) >= Len(stems[j])
    BY <1>4, <2>1, <2>3, <2>4
  <2>6. stems[i] = stems[j] => found[i] = found[j]
    BY <1>7, <2>1
  <2> QED BY <2>2, <2>5, <2>6
<1>12. DOMAIN stems \subseteq Nat
  BY <1>6, <1>9
<1> QED BY <1>10, <1>11, <1>12 DEF AreStems, stems

\* A step of peeling from the spans there are.
OnePeel(form, spans) == spans \cup UNION {Peels(form, s) : s \in spans}
Reach(form) ==
    CHOOSE g \in [0 .. Len(form) -> SUBSET SpansIn(Len(form))] :
        \A i \in 0 .. Len(form) : g[i] = IF i = 0 THEN {<<0, Len(form)>>} ELSE OnePeel(form, g[i - 1])

LEMMA ReachIsReached ==
  ASSUME NEW form \in Seq(Signs)
  PROVE  /\ Reach(form) \in [0 .. Len(form) -> SUBSET SpansIn(Len(form))]
         /\ Reach(form)[0] = {<<0, Len(form)>>}
         /\ \A i \in 1 .. Len(form) : Reach(form)[i] = OnePeel(form, Reach(form)[i - 1])
         /\ StripAffixes(form) = StemsOf(form, Reach(form)[Len(form)] \ {<<0, Len(form)>>})
<1> DEFINE n == Len(form)
           D == 0 .. n
           V == SUBSET SpansIn(n)
           whole == <<0, n>>
           rank == [i \in D |-> i]
           Step(i, g) == IF i = 0 THEN {whole} ELSE OnePeel(form, g[i - 1])
           F == [p \in D \X [D -> V] |-> Step(p[1], p[2])]
<1>1. n \in Nat /\ {whole} \in V
  BY FormsAreLists DEF SpansIn
<1>2. \A i \in D : i # 0 => i - 1 \in D
  BY <1>1
<1>3. rank \in [D -> 0 .. n]
  BY <1>1
<1>4. ASSUME NEW i \in D, NEW g \in [D -> V] PROVE Step(i, g) \in V
  <2>1. \A spans \in V : OnePeel(form, spans) \in V
    BY PeelsAreSpans DEF OnePeel
  <2>2. i # 0 => g[i - 1] \in V
    BY <1>2
  <2> HIDE DEF V, D
  <2> QED BY <1>1, <2>1, <2>2
<1>5. F \in [D \X [D -> V] -> V]
  <2> HIDE DEF Step, D, V
  <2> QED BY <1>4
<1>6. ASSUME NEW i \in D, NEW g \in [D -> V], NEW h \in [D -> V],
             \A e \in D : rank[e] < rank[i] => g[e] = h[e]
      PROVE  F[<<i, g>>] = F[<<i, h>>]
  <2>1. i # 0 => i - 1 \in D /\ rank[i - 1] < rank[i]
    BY <1>1
  <2> QED BY <1>6, <2>1
<1>7. \E g \in [D -> V] : \A i \in D : g[i] = F[<<i, g>>]
  <2>1. \A i \in D : \A g, h \in [D -> V] :
           (\A e \in D : rank[e] < rank[i] => g[e] = h[e]) => F[<<i, g>>] = F[<<i, h>>]
    BY <1>6
  <2>2. n \in Nat /\ V # {}
    BY <1>1
  <2>3. IsRecursion(F, D, V, rank, n)
    <3> HIDE DEF F, rank, D, V, n
    <3> QED BY <1>3, <1>5, <2>1, <2>2 DEF IsRecursion
  <2> HIDE DEF F, rank, D, V, n
  <2> QED BY <2>3, RecursionIsSound
<1>8. PICK g \in [D -> V] : \A i \in D : g[i] = Step(i, g)
  <2> HIDE DEF Step, V, D
  <2> QED BY <1>7
<1> DEFINE fl == Reach(form)
<1>9. fl \in [D -> V] /\ \A i \in D : fl[i] = Step(i, fl)
  BY <1>8 DEF Reach
<1> DEFINE IsReach(f) == f = [i \in D |-> Step(i, f)]
           ch == CHOOSE f : IsReach(f)
<1>10. IsReach(fl)
  <2> HIDE DEF fl, Step
  <2> QED BY <1>9
<1>11. IsReach(ch)
  <2> HIDE DEF IsReach
  <2> QED BY <1>10
<1>12. StripAffixes(form) = StemsOf(form, ch[n] \ {whole})
  BY DEF StripAffixes, OnePeel
<1>13. \A k \in Nat : k \in D => ch[k] = fl[k]
  <2> DEFINE T == {k \in Nat : k \in D => ch[k] = fl[k]}
  <2> HIDE DEF ch, fl
  <2>1. 0 \in T
    <3>1. 0 \in D
      BY <1>1
    <3> QED BY <1>9, <1>11, <3>1
  <2>2. ASSUME NEW k \in Nat, k \in T PROVE k + 1 \in T
    <3> SUFFICES ASSUME k + 1 \in D PROVE ch[k + 1] = fl[k + 1]
      OBVIOUS
    <3>1. k \in D /\ (k + 1) - 1 = k /\ k + 1 # 0
      BY <1>1
    <3>2. ch[k + 1] = OnePeel(form, ch[k]) /\ fl[k + 1] = OnePeel(form, fl[k])
      BY <1>9, <1>11, <3>1
    <3>3. ch[k] = fl[k]
      BY <2>2, <3>1
    <3> QED BY <3>2, <3>3
  <2> HIDE DEF T
  <2>3. Nat \subseteq T
    BY <2>1, <2>2, FromZeroUp
  <2> QED BY <2>3 DEF T
<1> HIDE DEF ch
<1>14. StripAffixes(form) = StemsOf(form, fl[n] \ {whole})
  <2>1. n \in D
    BY <1>1
  <2> HIDE DEF fl
  <2> QED BY <1>1, <1>12, <1>13, <2>1
<1>15. fl[0] = {whole} /\ \A i \in 1 .. n : fl[i] = OnePeel(form, fl[i - 1])
  <2>1. 0 \in D /\ \A i \in 1 .. n : i \in D /\ i # 0
    BY <1>1
  <2> HIDE DEF fl
  <2> QED BY <1>9, <2>1
<1> QED BY <1>9, <1>14, <1>15 DEF fl

LEMMA StripsAreStems ==
  ASSUME NEW form \in Seq(Signs)
  PROVE  AreStems(StripAffixes(form), form, Reach(form)[Len(form)] \ {<<0, Len(form)>>})
<1>1. Len(form) \in 0 .. Len(form)
  BY FormsAreLists
<1>2. Reach(form)[Len(form)] \subseteq SpansIn(Len(form))
  BY <1>1, ReachIsReached
<1> DEFINE spans == Reach(form)[Len(form)] \ {<<0, Len(form)>>}
<1>3. spans \subseteq SpansIn(Len(form))
  BY <1>2
<1> HIDE DEF spans
<1>4. AreStems(StemsOf(form, spans), form, spans)
  BY <1>3, StemsAreStems
<1> QED BY <1>4, ReachIsReached DEF spans

-----------------------------------------------------------------------------
(* Never a guess *)

OfItsLetters(c, wd, r) == \E o \in c.attested : o.root = r /\ Key(wd) \in IndexKeys(o.form)
OfAnEntry(c, wd, r) ==
    \E i \in DOMAIN c.entries : LET e == c.entries[i] IN
        /\ e.root = r
        /\ \/ e.surface = wd
           \/ (IndexKeys(e.surface) \cup IndexKeys(e.lemma)) \cap ({Key(wd)} \cup Range(StripAffixes(Key(wd)))) # {}
AllWritten(c, wd, roots) == \A r \in Range(roots) : OfItsLetters(c, wd, r) \/ OfAnEntry(c, wd, r)

LEMMA FirstEntryIsAnEntry ==
  ASSUME JInv, NEW claims, claims \subseteq DOMAIN jcorpus.entries, FirstEntry(claims) # NoLetters
  PROVE  \E i \in claims : jcorpus.entries[i].root = FirstEntry(claims)
<1>1. claims # {}
  BY DEF FirstEntry
<1>2. claims \subseteq Nat
  <2>1. PICK n \in Nat : DOMAIN jcorpus.entries = 1 .. n
    BY CorpusIsKnown DEF JInv
  <2> QED BY <2>1
<1>3. \E i \in claims : \A j \in claims : i <= j
  BY <1>1, <1>2, LeastNumber
<1> DEFINE i == CHOOSE i \in claims : \A j \in claims : i <= j
<1>4. i \in claims
  BY <1>3
<1>5. FirstEntry(claims) = jcorpus.entries[i].root
  BY <1>1 DEF FirstEntry
<1> HIDE DEF i
<1> QED BY <1>4, <1>5

LEMMA BySurfaceIsWritten ==
  ASSUME JInv, NEW wd, BySurface(wd) # NoLetters
  PROVE  OfAnEntry(jcorpus, wd, BySurface(wd))
<1> DEFINE claims == {i \in DOMAIN jcorpus.entries : jcorpus.entries[i].surface = wd}
<1>1. BySurface(wd) = FirstEntry(claims) /\ claims \subseteq DOMAIN jcorpus.entries
  BY DEF BySurface
<1>2. \A i \in claims : jcorpus.entries[i].surface = wd
  OBVIOUS
<1> HIDE DEF claims
<1>3. PICK i \in claims : jcorpus.entries[i].root = BySurface(wd)
  BY <1>1, FirstEntryIsAnEntry
<1> QED BY <1>1, <1>2, <1>3 DEF OfAnEntry

LEMMA ByKeyIsWritten ==
  ASSUME JInv, NEW wd, NEW k \in {Key(wd)} \cup Range(StripAffixes(Key(wd))), ByKey(k) # NoLetters
  PROVE  OfAnEntry(jcorpus, wd, ByKey(k))
<1> DEFINE spelt == {i \in DOMAIN jcorpus.entries : k \in IndexKeys(jcorpus.entries[i].surface)}
           lemma == {i \in DOMAIN jcorpus.entries : k \in IndexKeys(jcorpus.entries[i].lemma)}
<1>1. ByKey(k) = IF FirstEntry(spelt) # NoLetters THEN FirstEntry(spelt) ELSE FirstEntry(lemma)
  BY DEF ByKey
<1>2. /\ spelt \subseteq DOMAIN jcorpus.entries /\ lemma \subseteq DOMAIN jcorpus.entries
      /\ \A i \in spelt : k \in IndexKeys(jcorpus.entries[i].surface)
      /\ \A i \in lemma : k \in IndexKeys(jcorpus.entries[i].lemma)
  OBVIOUS
<1> HIDE DEF spelt, lemma
<1>3. \E i \in spelt \cup lemma : jcorpus.entries[i].root = ByKey(k)
  <2>1. CASE FirstEntry(spelt) # NoLetters
    BY <1>1, <1>2, <2>1, FirstEntryIsAnEntry
  <2>2. CASE FirstEntry(spelt) = NoLetters
    <3>1. ByKey(k) = FirstEntry(lemma)
      BY <1>1, <2>2
    <3> QED BY <1>2, <3>1, FirstEntryIsAnEntry
  <2> QED BY <2>1, <2>2
<1>4. PICK i \in spelt \cup lemma : jcorpus.entries[i].root = ByKey(k)
  BY <1>3
<1>5. i \in DOMAIN jcorpus.entries
      /\ k \in IndexKeys(jcorpus.entries[i].surface) \cup IndexKeys(jcorpus.entries[i].lemma)
  BY <1>2
<1> QED BY <1>4, <1>5 DEF OfAnEntry

\* The roots the index has for a word are of its letters.
LEMMA AttestedAreWritten ==
  ASSUME IndexRight, NEW wd, NEW r \in Range(Attests(Key(wd)))
  PROVE  OfItsLetters(jcorpus, wd, r)
<1>1. GoesThrough(Attests(Key(wd)), UnderKey(KeysOf, Key(wd)), MostUsed(UnderKey(KeysOf, Key(wd))))
  BY DEF IndexRight, TableRight, Attests
<1>2. r \in UnderKey(KeysOf, Key(wd))
  BY <1>1 DEF GoesThrough
<1> QED BY <1>2 DEF UnderKey, KeysOf, OfItsLetters

LEMMA OneSign ==
  ASSUME NEW r
  PROVE  Range(<<r>>) = {r}
BY DEF Range

LEMMA WrittenWhenAnswered ==
  ASSUME JInv, JNext, rung # "answered", rung' = "answered"
  PROVE  AllWritten(jcorpus', word', answer'.roots)
<1>1. ASSUME NEW form \in Asked, Question(form) PROVE AllWritten(jcorpus', word', answer'.roots)
  <2>1. answer'.roots = <<>>
    BY <1>1 DEF Question, Unanswered
  <2> QED BY <2>1, NothingHasNoSigns DEF AllWritten
<1>2. CASE SurfaceRung
  <2>1. Answers("no root", <<>>, TRUE)
    BY <1>2 DEF SurfaceRung
  <2>2. answer'.roots = <<>>
    BY <2>1, AnswerIsGiven, Zenon
  <2> QED BY <2>2, NothingHasNoSigns DEF AllWritten
<1>3. CASE LookupRung
  <2>1. PICK r : OfAnEntry(jcorpus, word, r) /\ answer'.roots = <<r>>
    <3>1. CASE BySurface(word) # NoLetters /\ Answers("lexicon", <<BySurface(word)>>, FALSE)
      <4>1. answer'.roots = <<BySurface(word)>>
        BY <3>1, AnswerIsGiven, Zenon
      <4> QED BY <3>1, <4>1, BySurfaceIsWritten
    <3>2. CASE ByKey(Key(word)) # NoLetters /\ Answers("key", <<ByKey(Key(word))>>, Rootless(Key(word)))
      <4>1. answer'.roots = <<ByKey(Key(word))>>
        BY <3>2, AnswerIsGiven, Zenon
      <4> QED BY <3>2, <4>1, ByKeyIsWritten
    <3> QED BY <1>3, <3>1, <3>2, Zenon DEF LookupRung
  <2>2. UNCHANGED <<jcorpus, word>>
    BY <1>3 DEF LookupRung, Stay
  <2> QED BY <2>1, <2>2, OneSign DEF AllWritten
<1>4. CASE StripRung
  <2> DEFINE stems == StripAffixes(Key(word))
             hits == {i \in DOMAIN stems : ByKey(stems[i]) # NoLetters}
             i == CHOOSE i \in hits : \A j \in hits : i <= j
  <2>1. hits # {} /\ Answers("stripped", <<ByKey(stems[i])>>, Rootless(Key(word)))
    BY <1>4 DEF StripRung
  <2>2. DOMAIN stems \subseteq Nat
    <3>1. Key(word) \in Seq(Signs)
      BY <1>4, KeySigns DEF StripRung, JInv, Asking
    <3> QED BY <3>1, StripsAreStems DEF AreStems
  <2> HIDE DEF stems
  <2>3. hits \subseteq DOMAIN stems /\ hits \subseteq Nat
    BY <2>2
  <2>4. i \in hits
    <3> HIDE DEF hits
    <3>1. \E j \in hits : \A k \in hits : j <= k
      BY <2>1, <2>3, LeastNumber
    <3> QED BY <3>1
  <2> HIDE DEF i
  <2>5. i \in DOMAIN stems /\ ByKey(stems[i]) # NoLetters /\ stems[i] \in Range(stems)
    BY <2>4 DEF Range
  <2> HIDE DEF hits
  <2>6. OfAnEntry(jcorpus, word, ByKey(stems[i]))
    BY <2>5, ByKeyIsWritten DEF stems
  <2>7. answer'.roots = <<ByKey(stems[i])>>
    BY <2>1, AnswerIsGiven
  <2>8. UNCHANGED <<jcorpus, word>>
    BY <1>4 DEF StripRung, Stay
  <2> QED BY <2>6, <2>7, <2>8, OneSign DEF AllWritten
<1>5. CASE AttestedRung
  <2>1. rung = "attested" /\ UNCHANGED <<jcorpus, word>>
    BY <1>5 DEF AttestedRung, Stay
  <2>2. IndexRight
    BY <2>1 DEF JInv
  <2>3. Range(answer'.roots) \subseteq Range(Attests(Key(word)))
    <3>1. \/ answer'.roots = <<>>
          \/ answer'.roots = Attests(Key(word))
          \/ /\ answer'.roots = AttestsSurface(word) /\ Len(AttestsSurface(word)) = 1
             /\ AttestsSurface(word)[1] \in Range(Attests(Key(word)))
      BY <1>5, AttestedGives
    <3>2. Len(AttestsSurface(word)) = 1 => Range(AttestsSurface(word)) = {AttestsSurface(word)[1]}
      <4>1. PICK S, R : GoesThrough(AttestsSurface(word), S, R)
        BY <2>2 DEF IndexRight, TableRight, AttestsSurface
      <4> QED BY <4>1, ListOfOne
    <3> QED BY <3>1, <3>2, NothingHasNoSigns
  <2> QED BY <2>1, <2>2, <2>3, AttestedAreWritten DEF AllWritten
<1>6. CASE PatternRung
  <2>1. answer'.roots = <<>>
    BY <1>6 DEF PatternRung, Unanswered
  <2> QED BY <2>1, NothingHasNoSigns DEF AllWritten
<1> QED BY <1>1, <1>2, <1>3, <1>4, <1>5, <1>6 DEF JNext, WriteCorpus, Index

\* NeverAGuess: resolve (jidhr/pkg/root/root.go) answers with no root that was
\* not written down for a form of the word's letters or a stem of it, for every
\* corpus and every form asked: a template or a root of the language is no answer.
THEOREM NoAnswerIsAGuess == JSpec => []NeverAGuess
<1>1. JInit => JInv /\ NeverAGuess
  BY JInvFirst DEF JInit, NeverAGuess, Answered
<1>2. JInv /\ NeverAGuess /\ [JNext]_jvars => JInv' /\ NeverAGuess'
  <2> SUFFICES ASSUME JInv, NeverAGuess, [JNext]_jvars PROVE NeverAGuess'
    BY JInvKept
  <2>0. NeverAGuess <=> (rung = "answered" => AllWritten(jcorpus, word, answer.roots))
    BY DEF NeverAGuess, Answered, AllWritten, OfItsLetters, OfAnEntry
  <2>1. CASE UNCHANGED jvars
    BY <2>1 DEF jvars, NeverAGuess, Answered
  <2>2. CASE JNext /\ rung # "answered"
    <3>1. rung' = "answered" => AllWritten(jcorpus', word', answer'.roots)
      BY <2>2, WrittenWhenAnswered
    <3> QED BY <3>1 DEF NeverAGuess, Answered, AllWritten, OfItsLetters, OfAnEntry
  <2> QED BY <2>1, <2>2, AnsweredStays
<1> QED BY <1>1, <1>2, PTL DEF JSpec

-----------------------------------------------------------------------------
(* What an affix was put on is proposed *)

LEMMA PrefixIs ==
  ASSUME NEW p \in Seq(Signs), NEW t \in Seq(Signs), Len(p) <= Len(t), \A i \in 1 .. Len(p) : p[i] = t[i]
  PROVE  IsPrefix(p, t)
<1>1. Len(p) \in Nat /\ Len(t) \in Nat
  OBVIOUS
<1>2. SubSeq(p, 1, Len(p)) = [i \in 1 .. Len(p) |-> p[i]] /\ SubSeq(t, 1, Len(p)) = [i \in 1 .. Len(p) |-> t[i]]
  BY <1>1
<1>3. [i \in 1 .. Len(p) |-> p[i]] = [i \in 1 .. Len(p) |-> t[i]]
  OBVIOUS
<1> QED BY <1>2, <1>3 DEF IsPrefix

LEMMA BackwardsIs ==
  ASSUME NEW p \in Seq(Signs)
  PROVE  Reverse(p) \in Seq(Signs) /\ Len(Reverse(p)) = Len(p) /\ \A i \in 1 .. Len(p) : Reverse(p)[i] = p[Len(p) - i + 1]
<1>1. Len(p) \in Nat /\ \A i \in 1 .. Len(p) : Len(p) - i + 1 \in 1 .. Len(p)
  OBVIOUS
<1>2. Reverse(p) \in [1 .. Len(p) -> Signs] /\ \A i \in 1 .. Len(p) : Reverse(p)[i] = p[Len(p) - i + 1]
  BY <1>1 DEF Reverse
<1> QED BY <1>1, <1>2, FunctionIsList

LEMMA SuffixIs ==
  ASSUME NEW q \in Seq(Signs), NEW t \in Seq(Signs), Len(q) <= Len(t),
         \A i \in 1 .. Len(q) : q[i] = t[Len(t) - Len(q) + i]
  PROVE  IsSuffix(q, t)
<1> DEFINE a == Reverse(q)
           b == Reverse(t)
<1>1. a \in Seq(Signs) /\ Len(a) = Len(q) /\ \A i \in 1 .. Len(q) : a[i] = q[Len(q) - i + 1]
  BY BackwardsIs
<1>2. b \in Seq(Signs) /\ Len(b) = Len(t) /\ \A i \in 1 .. Len(t) : b[i] = t[Len(t) - i + 1]
  BY BackwardsIs
<1>3. Len(q) \in Nat /\ Len(t) \in Nat
  OBVIOUS
<1> HIDE DEF a, b
<1>4. ASSUME NEW i \in 1 .. Len(q) PROVE a[i] = b[i]
  <2>1. i \in 1 .. Len(t) /\ Len(q) - i + 1 \in 1 .. Len(q) /\ Len(t) - Len(q) + (Len(q) - i + 1) = Len(t) - i + 1
    BY <1>3
  <2>2. q[Len(q) - i + 1] = t[Len(t) - i + 1]
    BY <2>1
  <2> QED BY <1>1, <1>2, <2>1, <2>2
<1>5. IsPrefix(a, b)
  BY <1>1, <1>2, <1>4, PrefixIs
<1> QED BY <1>5 DEF IsSuffix, a, b

LEMMA PlacesInASpan ==
  ASSUME NEW a \in Int, NEW b \in Int, NEW n \in Int, n = b - a, NEW m \in Int, m <= n, NEW i \in 1 .. m
  PROVE  /\ i \in 1 .. n /\ (a + 1) + i - 1 = a + i
         /\ n - m + i \in 1 .. n /\ (a + 1) + (n - m + i) - 1 = b - m + i
OBVIOUS

LEMMA PeeledInFront ==
  ASSUME NEW form \in Seq(Signs), NEW s \in SpansIn(Len(form)), NEW p \in StripPrefixes \cap Seq(Signs), p # <<"s">>,
         s[2] - s[1] - Len(p) >= minStem, \A i \in 1 .. Len(p) : p[i] = form[s[1] + i]
  PROVE  <<s[1] + Len(p), s[2]>> \in Peels(form, s)
<1> DEFINE text == Spelt(form, s)
<1>1. /\ s[1] \in Int /\ s[2] \in Int /\ text \in Seq(Signs) /\ Len(text) = s[2] - s[1]
      /\ IsSpan(text, form, s[1] + 1, s[2])
  BY SpeltIsTheSpan
<1>2. \A i \in 1 .. Len(text) : text[i] = form[(s[1] + 1) + i - 1]
  BY <1>1 DEF IsSpan
<1>3. Len(p) \in 1 .. 2 /\ Len(text) \in Int
  BY AffixesAreShort, <1>1
<1> HIDE DEF text
<1>4. Len(p) <= Len(text) /\ Len(text) - Len(p) >= minStem
  BY <1>1, <1>3 DEF minStem
<1> DEFINE a == s[1]
           b == s[2]
           n == Len(text)
           m == Len(p)
<1>5. a \in Int /\ b \in Int /\ n \in Int /\ n = b - a /\ m \in Int /\ m <= n
  BY <1>1, <1>3, <1>4
<1>6. ASSUME NEW i \in 1 .. m PROVE p[i] = text[i]
  <2>1. n = b - a /\ m <= n
    BY <1>5
  <2>2. p[i] = form[a + i]
    OBVIOUS
  <2>3. \A j \in 1 .. n : text[j] = form[(a + 1) + j - 1]
    BY <1>2
  <2> HIDE DEF a, b, n, m
  <2>4. /\ i \in 1 .. n /\ (a + 1) + i - 1 = a + i
        /\ n - m + i \in 1 .. n /\ (a + 1) + (n - m + i) - 1 = b - m + i
    BY <1>5, PlacesInASpan
  <2> QED BY <2>2, <2>3, <2>4
<1>7. Begins(p, text)
  BY <1>1, <1>4, <1>6, PrefixIs DEF Begins
<1> QED BY <1>4, <1>7 DEF Peels, text

LEMMA PeeledBehind ==
  ASSUME NEW form \in Seq(Signs), NEW s \in SpansIn(Len(form)), NEW q \in StripSuffixes \cap Seq(Signs),
         s[2] - s[1] - Len(q) >= minStem, \A i \in 1 .. Len(q) : q[i] = form[s[2] - Len(q) + i]
  PROVE  <<s[1], s[2] - Len(q)>> \in Peels(form, s)
<1> DEFINE text == Spelt(form, s)
<1>1. /\ s[1] \in Int /\ s[2] \in Int /\ text \in Seq(Signs) /\ Len(text) = s[2] - s[1]
      /\ IsSpan(text, form, s[1] + 1, s[2])
  BY SpeltIsTheSpan
<1>2. \A i \in 1 .. Len(text) : text[i] = form[(s[1] + 1) + i - 1]
  BY <1>1 DEF IsSpan
<1>3. Len(q) \in 1 .. 3 /\ Len(text) \in Int
  BY AffixesAreShort, <1>1
<1> HIDE DEF text
<1>4. Len(q) <= Len(text) /\ Len(text) - Len(q) >= minStem
  BY <1>1, <1>3 DEF minStem
<1> DEFINE a == s[1]
           b == s[2]
           n == Len(text)
           m == Len(q)
<1>5. a \in Int /\ b \in Int /\ n \in Int /\ n = b - a /\ m \in Int /\ m <= n
  BY <1>1, <1>3, <1>4
<1>6. ASSUME NEW i \in 1 .. m PROVE q[i] = text[n - m + i]
  <2>1. n = b - a /\ m <= n
    BY <1>5
  <2>2. q[i] = form[b - m + i]
    OBVIOUS
  <2>3. \A j \in 1 .. n : text[j] = form[(a + 1) + j - 1]
    BY <1>2
  <2> HIDE DEF a, b, n, m
  <2>4. /\ i \in 1 .. n /\ (a + 1) + i - 1 = a + i
        /\ n - m + i \in 1 .. n /\ (a + 1) + (n - m + i) - 1 = b - m + i
    BY <1>5, PlacesInASpan
  <2> QED BY <2>2, <2>3, <2>4
<1>7. IsSuffix(q, text)
  BY <1>1, <1>4, <1>6, SuffixIs
<1> QED BY <1>4, <1>7 DEF Peels, text

InFront(p) == p = <<>> \/ (p \in StripPrefixes \cap Seq(Signs) /\ p # <<"s">>)
Behind(q) == q = <<>> \/ q \in StripSuffixes \cap Seq(Signs)

LEMMA CliticsAreAffixes ==
  ASSUME NEW c \in Clitics
  PROVE  /\ InFront(c[1]) /\ c[1] \in Seq(Signs) /\ Len(c[1]) \in Nat
         /\ InFront(c[2]) /\ c[2] \in Seq(Signs) /\ Len(c[2]) \in Nat
         /\ Behind(c[3]) /\ c[3] \in Seq(Signs) /\ Len(c[3]) \in Nat
<1>1. {"w", "f", "b", "A", "l", "h", "m", "t"} \subseteq Signs
  <2>1. Range(Alphabet) \subseteq Signs
    BY DEF Signs
  <2>2. \A i \in 1 .. 18 : Alphabet[i] \in Range(Alphabet)
    BY DEF Range, Alphabet
  <2>3. /\ Alphabet[2] = "A" /\ Alphabet[3] = "b" /\ Alphabet[4] = "t" /\ Alphabet[10] = "f" /\ Alphabet[13] = "l"
        /\ Alphabet[14] = "m" /\ Alphabet[16] = "h" /\ Alphabet[17] = "w"
    BY DEF Alphabet
  <2>4. {2, 3, 4, 10, 13, 14, 16, 17} \subseteq 1 .. 18
    OBVIOUS
  <2> QED BY <2>1, <2>2, <2>3, <2>4
<1>2. /\ c[1] \in {<<"w">>, <<"f">>, <<>>} /\ c[2] \in {<<"A", "l">>, <<"b">>, <<>>}
      /\ c[3] \in {<<"h", "m">>, <<"A", "t">>, <<"h">>, <<>>}
  BY DEF Clitics
<1>3. /\ <<"w">> \in Seq(Signs) /\ <<"f">> \in Seq(Signs) /\ <<>> \in Seq(Signs) /\ <<"b">> \in Seq(Signs)
      /\ <<"A", "l">> \in Seq(Signs) /\ <<"h", "m">> \in Seq(Signs) /\ <<"A", "t">> \in Seq(Signs)
      /\ <<"h">> \in Seq(Signs)
  BY <1>1
<1>4. c[1] \in Seq(Signs) /\ c[2] \in Seq(Signs) /\ c[3] \in Seq(Signs)
  BY <1>2, <1>3
<1>5. c[1] = <<>> \/ (c[1] \in StripPrefixes /\ c[1] # <<"s">>)
  BY <1>2 DEF StripPrefixes
<1>6. c[2] = <<>> \/ (c[2] \in StripPrefixes /\ c[2] # <<"s">>)
  BY <1>2 DEF StripPrefixes
<1>7. c[3] = <<>> \/ c[3] \in StripSuffixes
  BY <1>2 DEF StripSuffixes
<1> QED BY <1>4, <1>5, <1>6, <1>7 DEF InFront, Behind

LEMMA OneMoreInFront ==
  ASSUME NEW form \in Seq(Signs), NEW spans, spans \subseteq SpansIn(Len(form)), NEW s \in spans,
         NEW p, InFront(p), s[2] - s[1] - Len(p) >= minStem, \A i \in 1 .. Len(p) : p[i] = form[s[1] + i]
  PROVE  <<s[1] + Len(p), s[2]>> \in OnePeel(form, spans)
<1>1. s \in SpansIn(Len(form)) /\ s = <<s[1], s[2]>> /\ s[1] \in Int
  BY SpeltIsTheSpan
<1>2. CASE p = <<>>
  <2>1. Len(p) = 0 /\ s[1] + 0 = s[1]
    BY <1>1, <1>2
  <2>2. <<s[1] + Len(p), s[2]>> = s
    BY <1>1, <2>1
  <2> QED BY <2>2 DEF OnePeel
<1>3. CASE p \in StripPrefixes \cap Seq(Signs) /\ p # <<"s">>
  BY <1>1, <1>3, PeeledInFront DEF OnePeel
<1> QED BY <1>2, <1>3 DEF InFront

LEMMA OneMoreBehind ==
  ASSUME NEW form \in Seq(Signs), NEW spans, spans \subseteq SpansIn(Len(form)), NEW s \in spans,
         NEW q, Behind(q), s[2] - s[1] - Len(q) >= minStem, \A i \in 1 .. Len(q) : q[i] = form[s[2] - Len(q) + i]
  PROVE  <<s[1], s[2] - Len(q)>> \in OnePeel(form, spans)
<1>1. s \in SpansIn(Len(form)) /\ s = <<s[1], s[2]>> /\ s[2] \in Int
  BY SpeltIsTheSpan
<1>2. CASE q = <<>>
  <2>1. Len(q) = 0 /\ s[2] - 0 = s[2]
    BY <1>1, <1>2
  <2>2. <<s[1], s[2] - Len(q)>> = s
    BY <1>1, <2>1
  <2> QED BY <2>2 DEF OnePeel
<1>3. CASE q \in StripSuffixes \cap Seq(Signs)
  BY <1>1, <1>3, PeeledBehind DEF OnePeel
<1> QED BY <1>2, <1>3 DEF Behind

\* What is reached is not lost.
LEMMA ReachedStays ==
  ASSUME NEW form \in Seq(Signs), NEW j \in 0 .. Len(form)
  PROVE  Reach(form)[j] \subseteq Reach(form)[Len(form)]
<1> DEFINE n == Len(form)
           g == Reach(form)
           T == {m \in Nat : j + m <= n => g[j] \subseteq g[j + m]}
<1>1. n \in Nat /\ j \in Int /\ j <= n /\ 0 <= j
  BY FormsAreLists
<1>2. \A i \in 1 .. n : g[i - 1] \subseteq g[i]
  <2>1. \A i \in 1 .. n : g[i] = OnePeel(form, g[i - 1])
    BY ReachIsReached
  <2>2. \A spans : spans \subseteq OnePeel(form, spans)
    BY DEF OnePeel
  <2> HIDE DEF g, n
  <2> QED BY <2>1, <2>2
<1> HIDE DEF g, n
<1>3. 0 \in T
  <2>1. j + 0 = j
    BY <1>1
  <2> QED BY <2>1
<1>4. ASSUME NEW m \in Nat, m \in T PROVE m + 1 \in T
  <2> SUFFICES ASSUME j + (m + 1) <= n PROVE g[j] \subseteq g[j + (m + 1)]
    OBVIOUS
  <2>1. j + m <= n /\ j + (m + 1) \in 1 .. n /\ (j + (m + 1)) - 1 = j + m
    BY <1>1
  <2>2. g[j] \subseteq g[j + m]
    BY <1>4, <2>1
  <2>3. g[j + m] \subseteq g[j + (m + 1)]
    BY <1>2, <2>1
  <2> QED BY <2>2, <2>3
<1>5. Nat \subseteq T
  <2> HIDE DEF T
  <2> QED BY <1>3, <1>4, FromZeroUp
<1>6. n - j \in Nat /\ j + (n - j) = n /\ n <= n
  BY <1>1
<1>7. n - j \in T
  <2> HIDE DEF T
  <2> QED BY <1>5, <1>6
<1>8. g[j] \subseteq g[j + (n - j)]
  BY <1>6, <1>7
<1> QED BY <1>6, <1>8 DEF g, n

\* A word that is its stem with these put on it.
Wears(k, c, n, a, b, e) ==
    /\ a = Len(c[1]) /\ b = Len(c[2]) /\ e = Len(c[3]) /\ a + b + e + minStem <= n
    /\ \A i \in 1 .. a : c[1][i] = k[0 + i]
    /\ \A i \in 1 .. b : c[2][i] = k[a + i]
    /\ \A i \in 1 .. e : c[3][i] = k[n - e + i]

\* u is s with t after it.
IsJoin(u, s, t) ==
    /\ u \in Seq(Signs) /\ Len(u) = Len(s) + Len(t)
    /\ \A i \in 1 .. Len(s) : u[i] = s[i]
    /\ \A i \in 1 .. Len(t) : u[Len(s) + i] = t[i]

LEMMA JoinedAre ==
  ASSUME NEW s \in Seq(Signs), NEW t \in Seq(Signs)
  PROVE  IsJoin(s \o t, s, t)
BY DEF IsJoin

LEMMA PartIsAForm ==
  ASSUME NEW form \in Seq(Signs), NEW b \in Nat, NEW e \in Nat
  PROVE  SubSeq(form, b + 1, Len(form) - e) \in Seq(Signs)
<1> DEFINE lo == b + 1
           hi == Len(form) - e
<1>1. lo \in Int /\ hi \in Int /\ 1 <= lo /\ hi <= Len(form)
  BY FormsAreLists
<1> HIDE DEF lo, hi
<1>2. CASE lo <= hi + 1
  <2>1. IsSpan(SubSeq(form, lo, hi), form, lo, hi)
    BY <1>1, <1>2, SubSeqIsSpan
  <2> QED BY <2>1 DEF IsSpan, lo, hi
<1>3. CASE ~(lo <= hi + 1)
  <2>1. SubSeq(form, lo, hi) = <<>>
    BY <1>1, <1>3
  <2> QED BY <2>1 DEF lo, hi
<1> QED BY <1>2, <1>3

LEMMA WornIsReached ==
  ASSUME NEW k \in Seq(Signs), NEW c \in Clitics, NEW n, n = Len(k), NEW a, NEW b, NEW e, Wears(k, c, n, a, b, e)
  PROVE  <<a + b, n - e>> \in Reach(k)[n]
<1> DEFINE g == Reach(k)
           s0 == <<0, n>>
           s1 == <<a, n>>
           s2 == <<a + b, n>>
           s3 == <<a + b, n - e>>
<1>1. /\ InFront(c[1]) /\ InFront(c[2]) /\ Behind(c[3])
      /\ a \in Nat /\ b \in Nat /\ e \in Nat /\ n \in Nat /\ a + b + e + 3 <= n
  BY CliticsAreAffixes, FormsAreLists DEF Wears, minStem
<1>2. a = Len(c[1]) /\ b = Len(c[2]) /\ e = Len(c[3])
  BY DEF Wears
<1>3. /\ 0 \in 0 .. n /\ 1 \in 0 .. n /\ 2 \in 0 .. n /\ 3 \in 0 .. n /\ 1 \in 1 .. n /\ 2 \in 1 .. n /\ 3 \in 1 .. n
      /\ 1 - 1 = 0 /\ 2 - 1 = 1 /\ 3 - 1 = 2
  BY <1>1
<1>4. /\ g[0] = {s0} /\ g[1] = OnePeel(k, g[0]) /\ g[2] = OnePeel(k, g[1]) /\ g[3] = OnePeel(k, g[2])
      /\ g[0] \subseteq SpansIn(Len(k)) /\ g[1] \subseteq SpansIn(Len(k)) /\ g[2] \subseteq SpansIn(Len(k))
  <2>1. g \in [0 .. n -> SUBSET SpansIn(Len(k))] /\ g[0] = {s0} /\ \A i \in 1 .. n : g[i] = OnePeel(k, g[i - 1])
    BY ReachIsReached
  <2> HIDE DEF g
  <2> QED BY <1>3, <2>1
<1> HIDE DEF g
<1>5. s1 \in g[1]
  <2>1. s0 \in g[0] /\ s0[1] = 0 /\ s0[2] = n
    BY <1>4
  <2>2. s0[2] - s0[1] - Len(c[1]) >= minStem /\ s0[1] + Len(c[1]) = a
    <3>1. n - 0 - a >= 3 /\ 0 + a = a
      BY <1>1
    <3> HIDE DEF s0
    <3> QED BY <1>2, <2>1, <3>1 DEF minStem
  <2>3. \A i \in 1 .. Len(c[1]) : c[1][i] = k[s0[1] + i]
    BY <1>2, <2>1 DEF Wears
  <2> HIDE DEF s0
  <2>4. <<s0[1] + Len(c[1]), s0[2]>> \in OnePeel(k, g[0])
    BY <1>1, <1>4, <2>1, <2>2, <2>3, OneMoreInFront
  <2> QED BY <1>4, <2>1, <2>2, <2>4
<1>6. s2 \in g[2]
  <2>1. s1 \in g[1] /\ s1[1] = a /\ s1[2] = n
    BY <1>5
  <2>2. s1[2] - s1[1] - Len(c[2]) >= minStem /\ s1[1] + Len(c[2]) = a + b
    <3>1. n - a - b >= 3
      BY <1>1
    <3> HIDE DEF s1
    <3> QED BY <1>2, <2>1, <3>1 DEF minStem
  <2>3. \A i \in 1 .. Len(c[2]) : c[2][i] = k[s1[1] + i]
    BY <1>2, <2>1 DEF Wears
  <2> HIDE DEF s1
  <2>4. <<s1[1] + Len(c[2]), s1[2]>> \in OnePeel(k, g[1])
    BY <1>1, <1>4, <2>1, <2>2, <2>3, OneMoreInFront
  <2> QED BY <1>4, <2>1, <2>2, <2>4
<1>7. s3 \in g[3]
  <2>1. s2 \in g[2] /\ s2[1] = a + b /\ s2[2] = n
    BY <1>6
  <2>2. s2[2] - s2[1] - Len(c[3]) >= minStem /\ s2[2] - Len(c[3]) = n - e
    <3>1. n - (a + b) - e >= 3
      BY <1>1
    <3> HIDE DEF s2
    <3> QED BY <1>2, <2>1, <3>1 DEF minStem
  <2>3. \A i \in 1 .. Len(c[3]) : c[3][i] = k[s2[2] - Len(c[3]) + i]
    BY <1>2, <2>1 DEF Wears
  <2> HIDE DEF s2
  <2>4. <<s2[1], s2[2] - Len(c[3])>> \in OnePeel(k, g[2])
    BY <1>1, <1>4, <2>1, <2>2, <2>3, OneMoreBehind
  <2> QED BY <1>4, <2>1, <2>2, <2>4
<1> HIDE DEF s3
<1>8. g[3] \subseteq g[n]
  BY <1>3, ReachedStays DEF g
<1> QED BY <1>7, <1>8 DEF g, s3

\* before, stem and after laid end to end are the word.
LEMMA LaidOnAreWorn ==
  ASSUME NEW k \in Seq(Signs), NEW c \in Clitics, NEW stem \in Seq(Signs), Len(stem) >= minStem,
         (c[1] \o c[2]) \o stem \o c[3] = k
  PROVE  Wears(k, c, Len(k), Len(c[1]), Len(c[2]), Len(c[3])) /\ Len(c[1] \o c[2]) = Len(c[1]) + Len(c[2])
<1> DEFINE x == c[1]
           y == c[2]
           z == c[3]
           before == x \o y
           most == before \o stem
           a == Len(x)
           b == Len(y)
           e == Len(z)
           n == Len(k)
           m == Len(stem)
<1>1. x \in Seq(Signs) /\ y \in Seq(Signs) /\ z \in Seq(Signs)
  BY CliticsAreAffixes
<1>2. most \o z = k
  OBVIOUS
<1> HIDE DEF x, y, z
<1>3. /\ before \in Seq(Signs) /\ Len(before) = a + b
      /\ \A i \in 1 .. a : before[i] = x[i]
      /\ \A i \in 1 .. b : before[a + i] = y[i]
  BY <1>1, JoinedAre DEF IsJoin
<1> HIDE DEF before
<1>4. most \in Seq(Signs) /\ Len(most) = Len(before) + m /\ \A i \in 1 .. Len(before) : most[i] = before[i]
  BY <1>3, JoinedAre DEF IsJoin
<1> HIDE DEF most
<1>5. /\ n = Len(most) + e /\ \A i \in 1 .. Len(most) : k[i] = most[i]
      /\ \A i \in 1 .. e : k[Len(most) + i] = z[i]
  <2>1. IsJoin(k, most, z)
    BY <1>1, <1>2, <1>4, JoinedAre
  <2> QED BY <2>1 DEF IsJoin
<1>6. a \in Nat /\ b \in Nat /\ e \in Nat /\ m \in Nat /\ n \in Nat /\ m >= 3 /\ Len(before) = a + b /\ Len(most) = (a + b) + m
      /\ n = ((a + b) + m) + e
  <2>1. a \in Nat /\ b \in Nat /\ e \in Nat /\ m \in Nat /\ n \in Nat
    BY <1>1
  <2> QED BY <1>3, <1>4, <1>5, <2>1 DEF minStem
<1> HIDE DEF a, b, e, m, n
<1>7. ASSUME NEW i \in 1 .. a PROVE x[i] = k[0 + i]
  <2>1. i \in 1 .. a + b /\ i \in 1 .. (a + b) + m /\ 0 + i = i
    BY <1>6
  <2> QED BY <1>3, <1>4, <1>5, <1>6, <2>1
<1>8. ASSUME NEW i \in 1 .. b PROVE y[i] = k[a + i]
  <2>1. a + i \in 1 .. a + b /\ a + i \in 1 .. (a + b) + m
    BY <1>6
  <2> QED BY <1>3, <1>4, <1>5, <1>6, <2>1
<1>9. ASSUME NEW i \in 1 .. e PROVE z[i] = k[n - e + i]
  <2>1. n - e + i = ((a + b) + m) + i
    BY <1>6
  <2> QED BY <1>5, <1>6, <2>1
<1>10. a + b + e + 3 <= n
  BY <1>6
<1> QED BY <1>3, <1>7, <1>8, <1>9, <1>10 DEF Wears, minStem, a, b, e, n, x, y, z, before

\* What is left of k between c's front and its end, with c put back on it.
IsStemUnder(stem, k, c) ==
    LET before == c[1] \o c[2]
    IN  /\ stem = SubSeq(k, Len(before) + 1, Len(k) - Len(c[3]))
        /\ Len(stem) >= minStem /\ stem # k /\ before \o stem \o c[3] = k

LEMMA WholeIsItself ==
  ASSUME NEW form \in Seq(Signs)
  PROVE  SubSeq(form, 1, Len(form)) = form
OBVIOUS

LEMMA WornIsStripped ==
  ASSUME NEW k \in Seq(Signs), NEW c \in Clitics, NEW stem, IsStemUnder(stem, k, c)
  PROVE  stem \in Range(StripAffixes(k))
<1> DEFINE before == c[1] \o c[2]
           n == Len(k)
           a == Len(c[1])
           b == Len(c[2])
           e == Len(c[3])
           s == <<a + b, n - e>>
<1>1. c[1] \in Seq(Signs) /\ c[2] \in Seq(Signs) /\ a \in Nat /\ b \in Nat /\ e \in Nat /\ n \in Nat
  BY CliticsAreAffixes, FormsAreLists
<1>2. Len(before) = a + b
  BY <1>1, JoinedAre DEF IsJoin
<1>3. /\ stem = SubSeq(k, Len(before) + 1, n - e) /\ stem # k
      /\ Len(stem) >= minStem /\ (c[1] \o c[2]) \o stem \o c[3] = k
  BY DEF IsStemUnder
<1> HIDE DEF before
<1>4. stem = SubSeq(k, a + b + 1, n - e)
  BY <1>2, <1>3
<1>5. stem \in Seq(Signs)
  <2> HIDE DEF a, b
  <2>1. a + b \in Nat
    BY <1>1
  <2> QED BY <1>1, <1>4, <2>1, PartIsAForm
<1>6. Wears(k, c, n, a, b, e)
  BY <1>3, <1>5, LaidOnAreWorn
<1>7. s \in Reach(k)[n]
  BY <1>6, WornIsReached
<1>8. Spelt(k, s) = stem
  BY <1>4 DEF Spelt
<1>9. s # <<0, n>>
  <2> SUFFICES ASSUME s = <<0, n>> PROVE FALSE
    OBVIOUS
  <2>1. a + b = 0 /\ n - e = n
    OBVIOUS
  <2> HIDE DEF a, b, e, n
  <2>2. a + b + 1 = 1
    BY <1>1, <2>1
  <2>3. stem = SubSeq(k, 1, n)
    BY <1>4, <2>1, <2>2
  <2> QED BY <1>3, <2>3, WholeIsItself DEF n
<1> HIDE DEF s
<1>10. Range(StripAffixes(k)) = {Spelt(k, r) : r \in Reach(k)[n] \ {<<0, n>>}}
  BY StripsAreStems DEF AreStems
<1> QED BY <1>7, <1>8, <1>9, <1>10

\* StripsWhatWasAdded: StripAffixes (jidhr/pkg/root/strip.go) proposes the stem
\* that a conjunction, an article and an ending were put on, and none after one
\* it is longer than, for every word of every length.
THEOREM StemsAreProposed == JSpec => []StripsWhatWasAdded
<1>1. JInv => StripsWhatWasAdded
  <2> SUFFICES ASSUME JInv, rung = "surface" PROVE StripsWhatWasAdded
    BY DEF StripsWhatWasAdded
  <2> DEFINE k == Key(word)
             stems == StripAffixes(k)
  <2>1. k \in Seq(Signs)
    BY KeySigns DEF JInv, Asking
  <2> HIDE DEF k
  <2>2. \A i, j \in DOMAIN stems : i < j => Len(stems[i]) >= Len(stems[j])
    BY <2>1, StripsAreStems DEF AreStems
  <2>3. ASSUME NEW c \in Clitics
        PROVE  LET before == c[1] \o c[2]
                   stem == SubSeq(k, Len(before) + 1, Len(k) - Len(c[3]))
               IN  Len(stem) >= minStem /\ stem # k /\ before \o stem \o c[3] = k => stem \in Range(stems)
    BY <2>1, WornIsStripped DEF IsStemUnder
  <2> QED BY <2>2, <2>3 DEF StripsWhatWasAdded, k
<1>2. JInit => JInv
  BY JInvFirst
<1>3. JInv /\ [JNext]_jvars => JInv'
  BY JInvKept
<1> QED BY <1>1, <1>2, <1>3, PTL DEF JSpec

-----------------------------------------------------------------------------
(* Shapes are read back *)

\* f, E and l stand at these three places of a shape, in this order, and letters
\* that are none of them at the others.
IsShape(s, n, f, e, l) ==
    /\ n \in Nat /\ DOMAIN s = 1 .. n /\ Len(s) = n
    /\ f \in 1 .. n /\ e \in 1 .. n /\ l \in 1 .. n /\ f < e /\ e < l
    /\ s[f] = "f" /\ s[e] = "E" /\ s[l] = "l"
    /\ \A i \in 1 .. n : i \notin {f, e, l} => s[i] \in Range(Alphabet) \ Radical

LEMMA LettersOfShapes == {"A", "b", "t", "s", "n", "m", "w", "h"} \subseteq Range(Alphabet) \ Radical
<1>1. \A i \in 1 .. 18 : Alphabet[i] \in Range(Alphabet)
  BY DEF Range, Alphabet
<1>2. /\ Alphabet[2] = "A" /\ Alphabet[3] = "b" /\ Alphabet[4] = "t" /\ Alphabet[8] = "s" /\ Alphabet[15] = "n"
      /\ Alphabet[14] = "m" /\ Alphabet[17] = "w" /\ Alphabet[16] = "h"
  BY DEF Alphabet
<1>3. {2, 3, 4, 8, 15, 14, 17, 16} \subseteq 1 .. 18
  OBVIOUS
<1>4. {"A", "b", "t", "s", "n", "m", "w", "h"} \subseteq Range(Alphabet)
  BY <1>1, <1>2, <1>3
<1> QED BY <1>4 DEF Radical

LEMMA LettersAreThere == {"f", "E", "l"} \subseteq Range(Alphabet)
<1>1. \A i \in 1 .. 18 : Alphabet[i] \in Range(Alphabet)
  BY DEF Range, Alphabet
<1>2. Alphabet[10] = "f" /\ Alphabet[9] = "E" /\ Alphabet[13] = "l"
  BY DEF Alphabet
<1>3. {10, 9, 13} \subseteq 1 .. 18
  OBVIOUS
<1> QED BY <1>1, <1>2, <1>3

LEMMA BaseTemplatesAreShapes ==
  ASSUME NEW s \in BaseTemplates
  PROVE  \E n, f, e, l : IsShape(s, n, f, e, l)
<1> DEFINE Fixed == Range(Alphabet) \ Radical
<1>1. {"A", "b", "t", "s", "n", "m", "w", "h"} \subseteq Fixed
  BY LettersOfShapes
<1> HIDE DEF Fixed
<1> DEFINE Is(n, f, e, l) ==
             /\ n \in Nat /\ DOMAIN s = 1 .. n /\ Len(s) = n
             /\ f \in 1 .. n /\ e \in 1 .. n /\ l \in 1 .. n /\ f < e /\ e < l
             /\ s[f] = "f" /\ s[e] = "E" /\ s[l] = "l"
             /\ \A i \in 1 .. n : i \notin {f, e, l} => s[i] \in Fixed
<1>2. CASE s = <<"f", "A", "E", "l">>
  <2>1. Is(4, 1, 3, 4)
    BY <1>1, <1>2
  <2> QED BY <2>1 DEF IsShape, Fixed
<1>3. CASE s = <<"A", "f", "E", "l">> \/ s = <<"t", "f", "E", "l">> \/ s = <<"m", "f", "E", "l">>
  <2>1. Is(4, 2, 3, 4)
    BY <1>1, <1>3
  <2> QED BY <2>1 DEF IsShape, Fixed
<1>4. CASE s = <<"t", "f", "A", "E", "l">>
  <2>1. Is(5, 2, 4, 5)
    BY <1>1, <1>4
  <2> QED BY <2>1 DEF IsShape, Fixed
<1>5. CASE s = <<"A", "n", "f", "E", "l">>
  <2>1. Is(5, 3, 4, 5)
    BY <1>1, <1>5
  <2> QED BY <2>1 DEF IsShape, Fixed
<1>6. CASE s = <<"A", "f", "t", "E", "l">>
  <2>1. Is(5, 2, 4, 5)
    BY <1>1, <1>6
  <2> QED BY <2>1 DEF IsShape, Fixed
<1>7. CASE s = <<"A", "s", "t", "f", "E", "l">>
  <2>1. Is(6, 4, 5, 6)
    BY <1>1, <1>7
  <2> QED BY <2>1 DEF IsShape, Fixed
<1>8. CASE s = <<"m", "f", "E", "w", "l">>
  <2>1. Is(5, 2, 3, 5)
    BY <1>1, <1>8
  <2> QED BY <2>1 DEF IsShape, Fixed
<1>9. CASE s = <<"f", "E", "A", "l">>
  <2>1. Is(4, 1, 2, 4)
    BY <1>1, <1>9
  <2> QED BY <2>1 DEF IsShape, Fixed
<1>10. CASE s = <<"A", "s", "t", "f", "E", "A", "l">>
  <2>1. Is(7, 4, 5, 7)
    BY <1>1, <1>10
  <2> QED BY <2>1 DEF IsShape, Fixed
<1>11. CASE s = <<"m", "f", "A", "E", "l", "h">>
  <2>1. Is(6, 2, 4, 5)
    BY <1>1, <1>11
  <2> QED BY <2>1 DEF IsShape, Fixed
<1> QED BY <1>2, <1>3, <1>4, <1>5, <1>6, <1>7, <1>8, <1>9, <1>10, <1>11 DEF BaseTemplates

LEMMA LettersAreLetters ==
  ASSUME NEW c \in Range(Alphabet)
  PROVE  c \notin NotLetters \cup Foreign
<1>1. PICK i \in 1 .. 18 : c = Alphabet[i]
  BY DEF Range, Alphabet
<1>2. \/ i = 1 \/ i = 2 \/ i = 3 \/ i = 4 \/ i = 5 \/ i = 6 \/ i = 7 \/ i = 8 \/ i = 9 \/ i = 10
      \/ i = 11 \/ i = 12 \/ i = 13 \/ i = 14 \/ i = 15 \/ i = 16 \/ i = 17 \/ i = 18
  OBVIOUS
<1>3. c \in {"e", "A", "b", "t", "H", "d", "r", "s", "E", "f", "q", "k", "l", "m", "n", "h", "w", "y"}
  BY <1>1, <1>2 DEF Alphabet
<1> QED BY <1>3 DEF NotLetters, Foreign, Vowels

\* No A among its radicals.
Sound(r) == r \in [1 .. 3 -> Range(Alphabet)] /\ r[1] # "A" /\ r[2] # "A" /\ r[3] # "A"

\* What the second and the third letter can be read as.
Seconds(stem, at) == IF stem[at[2]] = "A" THEN Weak ELSE RadicalReadings(stem[at[2]], FALSE)
Thirds(stem, at) ==
    LET final == at[3] = Len(stem) /\ at[3] # at[2]
    IN  RadicalReadings(stem[at[3]], final)
        \cup (IF final /\ OneReadingAmongSeveral(stem, at[3]) THEN Weak ELSE {})

LEMMA TriplesAre ==
  ASSUME NEW A, NEW B, NEW C, NEW x \in A, NEW y \in B, NEW z \in C
  PROVE  <<x, y, z>> \in {<<f, s, l>> : f \in A, s \in B, l \in C}
OBVIOUS

LEMMA ReadAs ==
  ASSUME NEW r, NEW C, r \in [1 .. 3 -> C], NEW stem, NEW at, stem[at[1]] = r[1], stem[at[3]] = r[3],
         r[1] # "A", r[3] # "A", r[2] \in Seconds(stem, at)
  PROVE  r \in RootsAt(stem, at)
<1>1. \A c, final : c \in RadicalReadings(c, final)
  BY DEF RadicalReadings
<1>2. r = <<r[1], r[2], r[3]>>
  OBVIOUS
<1> DEFINE A == RadicalReadings(stem[at[1]], FALSE)
           B == Seconds(stem, at)
           L == Thirds(stem, at)
<1>3. r[1] \in A
  BY <1>1
<1>4. r[3] \in L
  <2> DEFINE final == at[3] = Len(stem) /\ at[3] # at[2]
  <2>1. r[3] \in RadicalReadings(stem[at[3]], final)
    BY <1>1
  <2> QED BY <2>1 DEF Thirds
<1>5. RootsAt(stem, at) = IF stem[at[1]] = "A" \/ stem[at[3]] = "A" THEN {}
                          ELSE {<<f, s, l>> : f \in A, s \in B, l \in L}
  BY DEF RootsAt, Seconds, Thirds
<1> HIDE DEF A, B, L
<1>6. <<r[1], r[2], r[3]>> \in {<<f, s, l>> : f \in A, s \in B, l \in L}
  BY <1>3, <1>4, TriplesAre DEF B
<1> DEFINE all == {<<f, s, l>> : f \in A, s \in B, l \in L}
<1>7. r \in all
  BY <1>2, <1>6
<1> HIDE DEF all
<1>8. RootsAt(stem, at) = all
  <2>1. ~(stem[at[1]] = "A" \/ stem[at[3]] = "A")
    OBVIOUS
  <2> QED BY <1>5, <2>1 DEF all
<1> QED BY <1>7, <1>8

LEMMA LettersStand ==
  ASSUME NEW r, Sound(r), NEW stem, NEW at, stem[at[1]] = r[1], stem[at[2]] = r[2], stem[at[3]] = r[3]
  PROVE  r \in RootsAt(stem, at)
<1>1. r[2] \in Seconds(stem, at)
  BY DEF Seconds, RadicalReadings, Sound
<1> QED BY <1>1, ReadAs DEF Sound

LEMMA LettersStandInAHollow ==
  ASSUME NEW r, r \in [1 .. 3 -> Range(Alphabet)], r[1] # "A", r[3] # "A", r[2] \in Weak,
         NEW stem, NEW at, stem = <<r[1], "A", r[3]>>, at = <<1, 2, 3>>
  PROVE  r \in RootsAt(stem, at)
<1>1. stem[at[1]] = r[1] /\ stem[at[2]] = "A" /\ stem[at[3]] = r[3]
  OBVIOUS
<1>2. r[2] \in Seconds(stem, at)
  BY <1>1 DEF Seconds
<1> QED BY <1>1, <1>2, ReadAs

\* What is put where a letter of a shape stands.
Put(c, r) == CASE c = "f" -> r[1] [] c = "E" -> r[2] [] c = "l" -> r[3] [] OTHER -> c

LEMMA PutIs ==
  ASSUME NEW r, Sound(r), NEW c
  PROVE  /\ Put("f", r) = r[1] /\ Put("E", r) = r[2] /\ Put("l", r) = r[3]
         /\ c \notin Radical => Put(c, r) = c
         /\ c \in Range(Alphabet) => Put(c, r) \in Range(Alphabet)
<1>1. Put("f", r) = r[1] /\ Put("E", r) = r[2] /\ Put("l", r) = r[3]
  BY DEF Put
<1>2. c \notin Radical => Put(c, r) = c
  BY DEF Put, Radical
<1>3. r[1] \in Range(Alphabet) /\ r[2] \in Range(Alphabet) /\ r[3] \in Range(Alphabet)
  BY DEF Sound
<1>4. c \in Radical => c = "f" \/ c = "E" \/ c = "l"
  BY DEF Radical
<1> QED BY <1>1, <1>2, <1>3, <1>4

LEMMA SameIntervals ==
  ASSUME NEW m \in Nat, NEW n \in Nat, 1 .. m = 1 .. n
  PROVE  m = n
<1>1. CASE m < n
  <2>1. n \in 1 .. n /\ n \notin 1 .. m
    BY <1>1
  <2> QED BY <2>1
<1>2. CASE n < m
  <2>1. m \in 1 .. m /\ m \notin 1 .. n
    BY <1>2
  <2> QED BY <2>1
<1> QED BY <1>1, <1>2

\* A root in a shape of n letters: at every place what is put there.
LEMMA DerivedIs ==
  ASSUME NEW r, Sound(r), NEW n \in Nat, NEW s, DOMAIN s = 1 .. n, NEW k \in Seq(Signs), Derive(s, r) = k
  PROVE  /\ Len(k) = n /\ DOMAIN k = 1 .. n
         /\ \A i \in 1 .. n : k[i] = Put(s[i], r)
<1>1. k = [i \in 1 .. n |-> Put(s[i], r)]
  BY DEF Derive, Put
<1>2. DOMAIN k = 1 .. n /\ \A i \in 1 .. n : k[i] = Put(s[i], r)
  BY <1>1
<1>3. Len(k) \in Nat /\ 1 .. Len(k) = 1 .. n
  BY <1>2, FormsAreLists
<1> QED BY <1>2, <1>3, SameIntervals

LEMMA ThreeInARow ==
  ASSUME NEW x \in Int, NEW y \in Int, NEW z \in Int, x < y, y < z
  PROVE  LET g == Ascending({x, y, z}) IN g[1] = x /\ g[2] = y /\ g[3] = z
<1> DEFINE t == [i \in 1 .. 3 |-> IF i = 1 THEN x ELSE IF i = 2 THEN y ELSE z]
           S == {x, y, z}
<1>1. S \subseteq Int /\ t \in [1 .. 3 -> S] /\ t[1] = x /\ t[2] = y /\ t[3] = z /\ 3 \in Nat
  OBVIOUS
<1> HIDE DEF t
<1>2. \A w \in S : \E k \in 1 .. 3 : t[k] = w
  <2>1. 1 \in 1 .. 3 /\ 2 \in 1 .. 3 /\ 3 \in 1 .. 3
    OBVIOUS
  <2> QED BY <1>1, <2>1
<1>3. ASSUME NEW i \in 1 .. 3, NEW j \in 1 .. 3, i < j PROVE t[i] < t[j]
  <2>1. (i = 1 /\ j = 2) \/ (i = 1 /\ j = 3) \/ (i = 2 /\ j = 3)
    BY <1>3
  <2> QED BY <1>1, <2>1
<1> HIDE DEF S
<1>4. Ascending(S) = t
  BY <1>1, <1>2, <1>3, AscendingIs
<1> QED BY <1>1, <1>4 DEF S

LEMMA TwoInARow ==
  ASSUME NEW x \in Int, NEW y \in Int, x < y
  PROVE  LET g == Ascending({x, y}) IN g[1] = x /\ g[2] = y /\ g \in Seq(Int) /\ Len(g) = 2
<1> DEFINE t == [i \in 1 .. 2 |-> IF i = 1 THEN x ELSE y]
           S == {x, y}
<1>1. S \subseteq Int /\ t \in [1 .. 2 -> S] /\ t \in [1 .. 2 -> Int] /\ t[1] = x /\ t[2] = y /\ 2 \in Nat
  OBVIOUS
<1> HIDE DEF t
<1>2. \A w \in S : \E k \in 1 .. 2 : t[k] = w
  <2>1. 1 \in 1 .. 2 /\ 2 \in 1 .. 2
    OBVIOUS
  <2> QED BY <1>1, <2>1
<1>3. ASSUME NEW i \in 1 .. 2, NEW j \in 1 .. 2, i < j PROVE t[i] < t[j]
  <2>1. i = 1 /\ j = 2
    BY <1>3
  <2> QED BY <1>1, <2>1
<1> HIDE DEF S
<1>4. Ascending(S) = t
  BY <1>1, <1>2, <1>3, AscendingIs
<1>5. t \in Seq(Int) /\ Len(t) = 2
  BY <1>1, FunctionIsList
<1> QED BY <1>1, <1>4, <1>5 DEF S

\* The places of a template's radicals, the second of a doubled one twice.
Slots(s) == Ascending({i \in DOMAIN s : s[i] \in Radical})

LEMMA OwnPlacesAreRead ==
  ASSUME NEW s, NEW two \in BOOLEAN, NEW stem, Len(s) = Len(stem),
         \A i \in DOMAIN s : s[i] \notin Radical => stem[i] = s[i],
         NEW at, at = IF two THEN Append(Slots(s), Slots(s)[2]) ELSE Slots(s)
  PROVE  RootsAt(stem, at) \subseteq Apply([shape |-> s, doubled |-> two], stem)
<1> DEFINE t == [shape |-> s, doubled |-> two]
           slots == Ascending({i \in DOMAIN t.shape : t.shape[i] \in Radical})
           fixed == {i \in DOMAIN t.shape : t.shape[i] \notin Radical}
           own == IF t.doubled THEN Append(slots, slots[2]) ELSE slots
           swapped(k, f) == Ascending((Range(slots) \ {slots[k]}) \cup {f})
           others == IF t.doubled THEN {}
                     ELSE {swapped(k, f) : k \in {j \in 1 .. 3 : stem[slots[j]] \in LongVowels}, f \in fixed}
<1>1. t.shape = s /\ t.doubled = two
  OBVIOUS
<1>2. own = at
  BY <1>1, Zenon DEF Slots
<1>3. ~(Len(t.shape) # Len(stem) \/ \E i \in fixed : stem[i] # t.shape[i])
  BY <1>1
<1>4. Apply(t, stem) = IF Len(t.shape) # Len(stem) \/ \E i \in fixed : stem[i] # t.shape[i] THEN {}
                       ELSE UNION {RootsAt(stem, p) : p \in {own} \cup others}
  BY DEF Apply
<1> HIDE DEF own, others, fixed
<1>5. Apply(t, stem) = UNION {RootsAt(stem, p) : p \in {own} \cup others}
  BY <1>3, <1>4
<1> QED BY <1>2, <1>5

LEMMA TemplatesAreTried ==
  ASSUME NEW t \in Templates, NEW k, \A i \in DOMAIN k : k[i] \notin NotLetters \cup Foreign
  PROVE  Apply(t, k) \subseteq MatchPattern(k)
BY DEF MatchPattern

LEMMA ShapesAreReadBack ==
  ASSUME NEW r, Sound(r), NEW k \in Seq(Signs), NEW s \in BaseTemplates, Derive(s, r) = k
  PROVE  r \in MatchPattern(k)
<1>1. PICK n, f, e, l : IsShape(s, n, f, e, l)
  BY BaseTemplatesAreShapes
<1>2. /\ n \in Nat /\ DOMAIN s = 1 .. n /\ Len(s) = n
      /\ f \in Int /\ e \in Int /\ l \in Int /\ f < e /\ e < l
      /\ f \in DOMAIN s /\ e \in DOMAIN s /\ l \in DOMAIN s
      /\ s[f] = "f" /\ s[e] = "E" /\ s[l] = "l"
  BY <1>1 DEF IsShape
<1>3. Len(k) = n /\ DOMAIN k = 1 .. n /\ \A i \in DOMAIN s : k[i] = Put(s[i], r)
  BY <1>2, DerivedIs
<1>4. {i \in DOMAIN s : s[i] \in Radical} = {f, e, l}
  BY <1>1, <1>2 DEF IsShape, Radical
<1>5. Slots(s)[1] = f /\ Slots(s)[2] = e /\ Slots(s)[3] = l
  BY <1>2, <1>4, ThreeInARow DEF Slots
<1>6. k[f] = r[1] /\ k[e] = r[2] /\ k[l] = r[3]
  BY <1>2, <1>3, PutIs
<1>7. \A i \in DOMAIN s : s[i] \notin Radical => k[i] = s[i]
  BY <1>3, PutIs
<1>8. \A i \in DOMAIN s : s[i] \in Range(Alphabet)
  <2>1. {"f", "E", "l"} \subseteq Range(Alphabet)
    BY LettersAreThere
  <2> QED BY <1>1, <1>2, <2>1 DEF IsShape
<1>9. \A i \in DOMAIN k : k[i] \notin NotLetters \cup Foreign
  <2>1. \A i \in DOMAIN k : k[i] \in Range(Alphabet)
    BY <1>2, <1>3, <1>8, PutIs
  <2> QED BY <2>1, LettersAreLetters
<1> DEFINE t == [shape |-> s, doubled |-> FALSE]
           at == Slots(s)
<1>10. t \in Templates
  BY DEF Templates
<1>11. r \in RootsAt(k, at)
  <2>1. k[at[1]] = r[1] /\ k[at[2]] = r[2] /\ k[at[3]] = r[3]
    BY <1>5, <1>6
  <2> HIDE DEF at
  <2> QED BY <2>1, LettersStand
<1>12. RootsAt(k, at) \subseteq Apply(t, k)
  <2>1. at = IF FALSE THEN Append(Slots(s), Slots(s)[2]) ELSE Slots(s)
    OBVIOUS
  <2> HIDE DEF at
  <2> QED BY <1>2, <1>3, <1>7, <2>1, OwnPlacesAreRead
<1> HIDE DEF t, at
<1>13. Apply(t, k) \subseteq MatchPattern(k)
  BY <1>9, <1>10, TemplatesAreTried
<1> QED BY <1>11, <1>12, <1>13

\* A shape of m letters without its l.
IsHalf(u, m, f, e) ==
    /\ m \in Nat /\ DOMAIN u = 1 .. m /\ Len(u) = m
    /\ f \in 1 .. m /\ e \in 1 .. m /\ f < e /\ u[f] = "f" /\ u[e] = "E"
    /\ \A i \in 1 .. m : u[i] \in Range(Alphabet) /\ (i \notin {f, e} => u[i] \notin Radical)

LEMMA DoubledIsHalf ==
  ASSUME NEW s, NEW n, NEW f, NEW e, NEW l, IsShape(s, n, f, e, l)
  PROVE  IsHalf(Doubled(s), n - 1, f, e)
<1> DEFINE S == {i \in DOMAIN s : s[i] \notin {"l"}}
           t == [k \in 1 .. n - 1 |-> IF k < l THEN k ELSE k + 1]
           u == Doubled(s)
           m == n - 1
<1>1. /\ n \in Nat /\ DOMAIN s = 1 .. n /\ f \in Int /\ e \in Int /\ l \in Int
      /\ 1 <= f /\ f < e /\ e < l /\ l <= n /\ s[f] = "f" /\ s[e] = "E" /\ s[l] = "l"
      /\ f \in 1 .. n /\ e \in 1 .. n
  BY DEF IsShape
<1>2. \A i \in 1 .. n : s[i] \in Range(Alphabet) /\ (i \notin {f, e, l} => s[i] \notin Radical)
  BY LettersAreThere, <1>1 DEF IsShape
<1>3. S = (1 .. n) \ {l}
  <2>1. \A i \in 1 .. n : i \notin {f, e, l} => s[i] # "l"
    BY <1>2 DEF Radical
  <2> QED BY <1>1, <2>1
<1>4. m \in Nat
  BY <1>1
<1>5. S \subseteq Int
  BY <1>3
<1>6. t \in [1 .. m -> S] /\ \A k \in 1 .. m : t[k] = IF k < l THEN k ELSE k + 1
  <2>1. \A k \in 1 .. m : (IF k < l THEN k ELSE k + 1) \in (1 .. n) \ {l}
    BY <1>1
  <2> HIDE DEF S
  <2> QED BY <1>3, <2>1
<1>7. \A x \in S : \E k \in 1 .. m : t[k] = x
  <2> SUFFICES ASSUME NEW x \in (1 .. n) \ {l} PROVE \E k \in 1 .. m : t[k] = x
    BY <1>3
  <2>1. CASE x < l
    <3>1. x \in 1 .. m
      BY <1>1, <2>1
    <3> QED BY <1>6, <2>1, <3>1
  <2>2. CASE l < x
    <3>1. x - 1 \in 1 .. m /\ ~(x - 1 < l) /\ (x - 1) + 1 = x
      BY <1>1, <2>2
    <3> QED BY <1>6, <3>1
  <2> QED BY <1>1, <2>1, <2>2
<1>8. \A i, j \in 1 .. m : i < j => t[i] < t[j]
  BY <1>1, <1>6
<1>9. Ascending(S) = t
  <2> HIDE DEF S, t, m
  <2> QED BY <1>4, <1>5, <1>6, <1>7, <1>8, AscendingIs
<1>10. u = [k \in 1 .. m |-> s[t[k]]]
  <2>1. DOMAIN t = 1 .. m
    OBVIOUS
  <2>2. u = [k \in DOMAIN Ascending(S) |-> s[Ascending(S)[k]]]
    BY DEF Doubled, Without
  <2> HIDE DEF u, t, S
  <2> QED BY <1>9, <2>1, <2>2
<1>11. \A k \in 1 .. m : t[k] \in 1 .. n /\ t[k] # l
  BY <1>3, <1>6
<1> HIDE DEF t, u, m
<1>12. u \in [1 .. m -> Range(Alphabet)] /\ \A k \in 1 .. m : u[k] = s[t[k]]
  BY <1>2, <1>10, <1>11
<1>13. Len(u) = m /\ DOMAIN u = 1 .. m
  BY <1>4, <1>12, FunctionIsList
<1>14. f \in 1 .. m /\ e \in 1 .. m /\ f < l
  BY <1>1 DEF m
<1>15. t[f] = f /\ t[e] = e
  BY <1>1, <1>6, <1>14
<1>16. ASSUME NEW i \in 1 .. m, i \notin {f, e} PROVE u[i] \notin Radical
  <2>1. t[i] # f /\ t[i] # e
    BY <1>1, <1>6, <1>16
  <2> QED BY <1>2, <1>11, <1>12, <2>1
<1> QED BY <1>1, <1>4, <1>12, <1>13, <1>14, <1>15, <1>16 DEF IsHalf, u, m

LEMMA OneMoreAtTheEnd ==
  ASSUME NEW S, NEW g \in Seq(S), Len(g) = 2, NEW x \in S
  PROVE  Append(g, x)[1] = g[1] /\ Append(g, x)[2] = g[2] /\ Append(g, x)[3] = x
<1> DEFINE h == Append(g, x)
           n == Len(g)
<1>1. \A i \in 1 .. n : h[i] = g[i]
  BY AppendProperties
<1>2. h[n + 1] = x
  BY AppendProperties
<1>3. n = 2
  OBVIOUS
<1> HIDE DEF h, n
<1>4. 1 \in 1 .. n /\ 2 \in 1 .. n /\ n + 1 = 3
  BY <1>3
<1>5. h[1] = g[1] /\ h[2] = g[2]
  BY <1>1, <1>4
<1>6. h[3] = x
  BY <1>2, <1>4
<1> QED BY <1>5, <1>6 DEF h

LEMMA DoubledAreReadBack ==
  ASSUME NEW r, Sound(r), r[2] = r[3], NEW k \in Seq(Signs), NEW s \in BaseTemplates, Derive(Doubled(s), r) = k,
         Doubled(s) \in {t.shape : t \in Templates}
  PROVE  r \in MatchPattern(k)
<1> DEFINE u == Doubled(s)
<1>1. PICK m, f, e : IsHalf(u, m, f, e)
  BY BaseTemplatesAreShapes, DoubledIsHalf
<1> HIDE DEF u
<1>2. /\ m \in Nat /\ DOMAIN u = 1 .. m /\ Len(u) = m
      /\ f \in Int /\ e \in Int /\ f < e /\ f \in DOMAIN u /\ e \in DOMAIN u /\ u[f] = "f" /\ u[e] = "E"
  BY <1>1 DEF IsHalf
<1>3. Len(k) = m /\ DOMAIN k = 1 .. m /\ \A i \in DOMAIN u : k[i] = Put(u[i], r)
  BY <1>2, DerivedIs DEF u
<1>4. {i \in DOMAIN u : u[i] \in Radical} = {f, e}
  BY <1>1, <1>2 DEF IsHalf, Radical
<1>5. Slots(u)[1] = f /\ Slots(u)[2] = e /\ Slots(u) \in Seq(Int) /\ Len(Slots(u)) = 2
  BY <1>2, <1>4, TwoInARow DEF Slots
<1>6. k[f] = r[1] /\ k[e] = r[2] /\ k[e] = r[3]
  BY <1>2, <1>3, PutIs
<1>7. \A i \in DOMAIN u : u[i] \notin Radical => k[i] = u[i]
  BY <1>3, PutIs
<1>8. \A i \in DOMAIN k : k[i] \notin NotLetters \cup Foreign
  <2>1. \A i \in DOMAIN u : u[i] \in Range(Alphabet)
    BY <1>1, <1>2 DEF IsHalf
  <2>2. \A i \in DOMAIN k : k[i] \in Range(Alphabet)
    BY <1>2, <1>3, <2>1, PutIs
  <2> QED BY <2>2, LettersAreLetters
<1> DEFINE t == [shape |-> u, doubled |-> TRUE]
           at == Append(Slots(u), Slots(u)[2])
<1>9. t \in Templates
  <2>1. PICK v \in Templates : v.shape = u
    BY DEF u
  <2>2. CASE v \in {[shape |-> q, doubled |-> FALSE] : q \in BaseTemplates}
    <3>1. u \in BaseTemplates
      BY <2>1, <2>2
    <3>2. PICK i \in DOMAIN u : u[i] = "l"
      BY <3>1, BaseTemplatesAreShapes DEF IsShape
    <3>3. i \in {f, e}
      BY <1>4, <3>2 DEF Radical
    <3> QED BY <1>2, <3>2, <3>3
  <2>3. CASE v \in {[shape |-> Doubled(q), doubled |-> TRUE] :
                      q \in {w \in BaseTemplates : Len(w) > 4 /\ \E i \in 1 .. Len(w) - 1 : w[i] = "E" /\ w[i + 1] = "l"}}
    <3>1. PICK q \in {w \in BaseTemplates : Len(w) > 4 /\ \E i \in 1 .. Len(w) - 1 : w[i] = "E" /\ w[i + 1] = "l"} :
             v = [shape |-> Doubled(q), doubled |-> TRUE]
      BY <2>3
    <3>2. v = t
      BY <2>1, <3>1
    <3> QED BY <3>2
  <2> QED BY <2>1, <2>2, <2>3 DEF Templates
<1>10. at[1] = f /\ at[2] = e /\ at[3] = e
  <2> DEFINE g == Slots(u)
  <2>1. g \in Seq(Int) /\ Len(g) = 2 /\ g[1] = f /\ g[2] = e
    BY <1>5
  <2> HIDE DEF g
  <2>2. Append(g, e)[1] = g[1] /\ Append(g, e)[2] = g[2] /\ Append(g, e)[3] = e
    BY <1>2, <2>1, OneMoreAtTheEnd
  <2> QED BY <2>1, <2>2 DEF g
<1>11. r \in RootsAt(k, at)
  <2> HIDE DEF at
  <2>1. k[at[1]] = r[1] /\ k[at[2]] = r[2] /\ k[at[3]] = r[3]
    BY <1>6, <1>10
  <2> QED BY <2>1, LettersStand
<1>12. RootsAt(k, at) \subseteq Apply(t, k)
  <2>1. at = IF TRUE THEN Append(Slots(u), Slots(u)[2]) ELSE Slots(u)
    OBVIOUS
  <2> HIDE DEF at
  <2> QED BY <1>2, <1>3, <1>7, <2>1, OwnPlacesAreRead
<1> HIDE DEF t, at
<1>13. Apply(t, k) \subseteq MatchPattern(k)
  BY <1>8, <1>9, TemplatesAreTried
<1> QED BY <1>11, <1>12, <1>13

LEMMA HollowsAreReadBack ==
  ASSUME NEW r, Sound(r), r[2] \in Weak, NEW k, k = <<r[1], "A", r[3]>>
  PROVE  r \in MatchPattern(k)
<1>1. \A i \in DOMAIN k : k[i] \in Range(Alphabet)
  <2>1. r[1] \in Range(Alphabet) /\ r[3] \in Range(Alphabet) /\ "A" \in Range(Alphabet)
    BY LettersOfShapes DEF Sound
  <2>2. DOMAIN k = 1 .. 3 /\ k[1] = r[1] /\ k[2] = "A" /\ k[3] = r[3]
    OBVIOUS
  <2> QED BY <2>1, <2>2
<1>2. \A i \in DOMAIN k : k[i] \notin NotLetters \cup Foreign
  BY <1>1, LettersAreLetters
<1> DEFINE at == <<1, 2, 3>>
<1>3. r \in RootsAt(k, at)
  <2>1. at = <<1, 2, 3>>
    OBVIOUS
  <2> HIDE DEF at
  <2> QED BY <2>1, LettersStandInAHollow DEF Sound
<1>4. Len(k) = 3 /\ k[2] = "A"
  OBVIOUS
<1>5. RootsAt(k, at) \subseteq MatchPattern(k)
  BY <1>2, <1>4 DEF MatchPattern
<1> QED BY <1>3, <1>5

\* PatternsReadBack: MatchPattern (jidhr/pkg/root/pattern.go) reads back a root
\* from every shape it is put into, with the second and third radical the same
\* and written once as well, and a hollow root written with an alef, for every
\* root of three letters.
THEOREM RootsAreReadBack == JSpec => []PatternsReadBack
<1>1. JInv => PatternsReadBack
  <2> SUFFICES ASSUME JInv, rung = "surface", NEW r \in DOMAIN database.uses, r[1] # "A", r[2] # "A", r[3] # "A"
               PROVE  LET k == Key(word) IN
                      /\ \A s \in BaseTemplates : Derive(s, r) = k => r \in MatchPattern(k)
                      /\ r[2] = r[3] => \A s \in BaseTemplates : Len(s) > 4 /\ Derive(Doubled(s), r) = k
                                            /\ Doubled(s) \in {t.shape : t \in Templates} => r \in MatchPattern(k)
                      /\ r[2] \in Weak /\ k = <<r[1], "A", r[3]>> => r \in MatchPattern(k)
    BY DEF PatternsReadBack
  <2> DEFINE k == Key(word)
  <2>1. k \in Seq(Signs)
    BY KeySigns DEF JInv, Asking
  <2>2. Sound(r)
    BY JidhrAssumption DEF Sound, JInv
  <2> HIDE DEF k
  <2>3. \A s \in BaseTemplates : Derive(s, r) = k => r \in MatchPattern(k)
    BY <2>1, <2>2, ShapesAreReadBack
  <2>4. r[2] = r[3] => \A s \in BaseTemplates : Len(s) > 4 /\ Derive(Doubled(s), r) = k
                           /\ Doubled(s) \in {t.shape : t \in Templates} => r \in MatchPattern(k)
    BY <2>1, <2>2, DoubledAreReadBack
  <2>5. r[2] \in Weak /\ k = <<r[1], "A", r[3]>> => r \in MatchPattern(k)
    BY <2>2, HollowsAreReadBack
  <2> QED BY <2>3, <2>4, <2>5 DEF k
<1>2. JInit => JInv
  BY JInvFirst
<1>3. JInv /\ [JNext]_jvars => JInv'
  BY JInvKept
<1> QED BY <1>1, <1>2, <1>3, PTL DEF JSpec
=============================================================================
