------------------------------ MODULE FeedProofs ------------------------------
(***************************************************************************)
(* The change stream implements the feed, for every set of readers, ops,   *)
(* rows, handlers and devices and every page size.                         *)
(***************************************************************************)
EXTENDS ChangeStreamFeed, ChangeStreamProofs, FiniteSetTheorems, SequenceTheorems

-----------------------------------------------------------------------------
(***************************************************************************)
(* Listing a finite set by ascending number.                               *)
(***************************************************************************)

\* An injection of a finite set into as long an interval reaches all of it.
LEMMA InjectionIsOnto ==
  ASSUME NEW S, IsFiniteSet(S), NEW f \in [S -> 1..Cardinality(S)],
         \A a, b \in S : f[a] = f[b] => a = b
  PROVE  \A i \in 1..Cardinality(S) : \E a \in S : f[a] = i
<1>1. Cardinality(S) \in Nat BY FS_CardinalityType
<1>2. IsFiniteSet(1..Cardinality(S)) /\ Cardinality(1..Cardinality(S)) = Cardinality(S)
  BY <1>1, FS_Interval
<1>3. f \in Injection(S, 1..Cardinality(S)) BY DEF Injection, IsInjective
<1>4. f \in Surjection(S, 1..Cardinality(S)) BY <1>2, <1>3, FS_Injection
<1> QED BY <1>4 DEF Surjection

\* A set whose members have numbers of their own can be listed: an entry's
\* place is how many are numbered no higher.
LEMMA ListingExists ==
  ASSUME NEW S, IsFiniteSet(S),
         \A e \in S : e.seq \in Nat,
         \A e, f \in S : e.seq = f.seq => e = f
  PROVE  \E es \in [1..Cardinality(S) -> S] : Lists(es, S)
<1> DEFINE N == Cardinality(S)
           UpTo(e) == {f \in S : f.seq <= e.seq}
           place == [e \in S |-> Cardinality(UpTo(e))]
<1>1. N \in Nat BY FS_CardinalityType
<1>2. ASSUME NEW e \in S PROVE IsFiniteSet(UpTo(e)) /\ place[e] \in 1..N
  <2>1. UpTo(e) \in SUBSET S OBVIOUS
  <2>2. IsFiniteSet(UpTo(e)) /\ Cardinality(UpTo(e)) <= N BY <2>1, FS_Subset
  <2>3. Cardinality(UpTo(e)) \in Nat BY <2>2, FS_CardinalityType
  <2>4. e \in UpTo(e) OBVIOUS
  <2>5. Cardinality(UpTo(e)) # 0 BY <2>2, <2>4, FS_EmptySet
  <2> QED BY <1>1, <2>2, <2>3, <2>5
<1>3. ASSUME NEW e \in S, NEW f \in S, e.seq < f.seq PROVE place[e] < place[f]
  <2>1. UpTo(e) \in SUBSET UpTo(f) BY <1>3
  <2>2. f \in UpTo(f) /\ f \notin UpTo(e) BY <1>3
  <2>3. UpTo(e) # UpTo(f) BY <2>2
  <2>4. /\ Cardinality(UpTo(e)) <= Cardinality(UpTo(f))
        /\ Cardinality(UpTo(f)) = Cardinality(UpTo(e)) => UpTo(f) = UpTo(e)
    <3>1. IsFiniteSet(UpTo(f)) BY <1>2
    <3> HIDE DEF UpTo
    <3> QED BY <2>1, <3>1, FS_Subset
  <2>5. place[e] \in 1..N /\ place[f] \in 1..N BY <1>2
  <2> QED BY <1>1, <2>3, <2>4, <2>5
<1>4. place \in [S -> 1..N] BY <1>2
<1>5. \A e, f \in S : place[e] = place[f] => e = f
  <2> SUFFICES ASSUME NEW e \in S, NEW f \in S, place[e] = place[f] PROVE e = f
    OBVIOUS
  <2> HIDE DEF place
  <2>1. place[e] \in 1..N /\ place[f] \in 1..N BY <1>2
  <2>2. ~(e.seq < f.seq) BY <1>1, <1>3, <2>1
  <2>3. ~(f.seq < e.seq) BY <1>1, <1>3, <2>1
  <2>4. e.seq = f.seq BY <2>2, <2>3
  <2> QED BY <2>4
<1> HIDE DEF place
<1>6. \A i \in 1..N : \E e \in S : place[e] = i BY <1>4, <1>5, InjectionIsOnto
<1> DEFINE es == [i \in 1..N |-> CHOOSE e \in S : place[e] = i]
<1>7. ASSUME NEW i \in 1..N PROVE es[i] \in S /\ place[es[i]] = i BY <1>6
<1>8. es \in [1..N -> S] BY <1>7
<1> HIDE DEF es
<1>9. ASSUME NEW i \in 1..N, NEW j \in 1..N, i < j PROVE es[i].seq < es[j].seq
  <2>1. place[es[i]] = i /\ place[es[j]] = j /\ es[i] \in S /\ es[j] \in S BY <1>7
  <2>2. ~(es[j].seq < es[i].seq) BY <1>1, <1>3, <1>9, <2>1
  <2>3. es[i].seq # es[j].seq BY <1>9, <2>1
  <2> QED BY <2>1, <2>2, <2>3
<1> QED BY <1>8, <1>9 DEF Lists

\* A listing leaves nothing out.
LEMMA ListingCovers ==
  ASSUME NEW S, IsFiniteSet(S), \A e \in S : e.seq \in Nat, NEW es, Lists(es, S)
  PROVE  \A e \in S : \E i \in 1..Cardinality(S) : es[i] = e
<1> DEFINE N == Cardinality(S)
<1>1. N \in Nat BY FS_CardinalityType
<1>2. IsFiniteSet(1..N) /\ Cardinality(1..N) = N BY <1>1, FS_Interval
<1>3. es \in [1..N -> S] BY DEF Lists
<1>4. ASSUME NEW i \in 1..N, NEW j \in 1..N, es[i] = es[j] PROVE i = j
  <2>1. ~(i < j) /\ ~(j < i) BY <1>3, <1>4 DEF Lists
  <2> QED BY <1>1, <2>1
<1>5. es \in Injection(1..N, S) BY <1>3, <1>4 DEF Injection, IsInjective
<1>6. es \in Surjection(1..N, S) BY <1>2, <1>5, FS_Injection
<1> QED BY <1>6 DEF Surjection

\* The places at or below one of a set of places, counted.
LEMMA InitialPart ==
  ASSUME NEW n \in Nat, NEW S \in SUBSET (1..n),
         \A i \in S : \A j \in 1..i : j \in S
  PROVE  Cardinality(S) \in 0..n /\ S = 1..Cardinality(S)
<1>1. IsFiniteSet(1..n) /\ Cardinality(1..n) = n BY FS_Interval
<1>2. IsFiniteSet(S) /\ Cardinality(S) <= n BY <1>1, FS_Subset
<1>3. Cardinality(S) \in Nat BY <1>2, FS_CardinalityType
<1>4. ASSUME NEW i \in S PROVE i <= Cardinality(S)
  <2>1. 1..i \in SUBSET S OBVIOUS
  <2>2. Cardinality(1..i) = i BY FS_Interval
  <2> QED BY <1>2, <2>1, <2>2, FS_Subset
<1>5. S \in SUBSET (1..Cardinality(S)) BY <1>3, <1>4
<1>6. IsFiniteSet(1..Cardinality(S)) /\ Cardinality(1..Cardinality(S)) = Cardinality(S)
  BY <1>3, FS_Interval
<1>7. 1..Cardinality(S) = S BY <1>5, <1>6, FS_Subset
<1> QED BY <1>2, <1>3, <1>7

-----------------------------------------------------------------------------
(***************************************************************************)
(* What the history keeps.                                                 *)
(***************************************************************************)
Entry == [row : Row, seq : Nat]

\* A transaction stages what the statements it has run name, so finitely many
\* rows, each at a number of its own.
LEMMA StagedEntriesFinite ==
  ASSUME TypeOK, StreamInv, ParentInv, NEW t \in Txn, phase[t] = "writing"
  PROVE  /\ IsFiniteSet(StagedEntries(t))
         /\ StagedEntries(t) \subseteq Entry
         /\ \A e, f \in StagedEntries(t) : e.seq = f.seq => e = f
<1> USE ConstantsAssumption
<1> DEFINE S == StagedEntries(t)
           stmts == OpRows[op[t]]
           D == {i \in 1..done[t] : staged[t][stmts[i]] > 0}
           entry == [i \in D |-> [row |-> stmts[i], seq |-> staged[t][stmts[i]]]]
<1>1. staged[t] \in [Row -> Nat] /\ op[t] \in Op /\ done[t] \in Nat
  BY DEF TypeOK
<1>2. stmts \in Seq(Row) BY <1>1
<1>3. done[t] <= Len(stmts) BY DEF ParentInv
<1>4. \A r \in Row : staged[t][r] > 0 => \E i \in 1..done[t] : r = stmts[i]
  BY DEF ParentInv
<1>5. \A i \in D : stmts[i] \in Row BY <1>1, <1>2, <1>3
<1>6. entry \in [D -> S] BY <1>5 DEF StagedEntries
<1>7. ASSUME NEW e \in S PROVE \E i \in D : entry[i] = e
  <2>1. PICK r \in Row : staged[t][r] > 0 /\ e = [row |-> r, seq |-> staged[t][r]]
    BY DEF StagedEntries
  <2>2. PICK i \in 1..done[t] : r = stmts[i] BY <1>4, <2>1
  <2> QED BY <2>1, <2>2
<1>8. entry \in Surjection(D, S) BY <1>6, <1>7 DEF Surjection
<1>9. IsFiniteSet(1..done[t]) BY <1>1, FS_Interval
<1>10. IsFiniteSet(D) BY <1>9, FS_Subset
<1>11. IsFiniteSet(S) BY <1>8, <1>10, FS_Surjection
<1>12. S \subseteq Entry BY <1>1 DEF StagedEntries, Entry
<1>13. ASSUME NEW e \in S, NEW f \in S, e.seq = f.seq PROVE e = f
  <2>1. PICK r \in Row : staged[t][r] > 0 /\ e = [row |-> r, seq |-> staged[t][r]]
    BY DEF StagedEntries
  <2>2. PICK q \in Row : staged[t][q] > 0 /\ f = [row |-> q, seq |-> staged[t][q]]
    BY DEF StagedEntries
  <2>3. staged[t][r] = staged[t][q] BY <1>13, <2>1, <2>2
  <2>4. r = q BY <2>1, <2>3 DEF StreamInv, SeqUnique
  <2> QED BY <2>1, <2>2, <2>4
<1> QED BY <1>11, <1>12, <1>13

\* What a commit publishes: the rows it staged, all of them, by number.
LEMMA EntriesListed ==
  ASSUME TypeOK, StreamInv, ParentInv, NEW t \in Txn, phase[t] = "writing"
  PROVE  /\ Entries(t) \in Seq(Entry)
         /\ \A i \in 1..Len(Entries(t)) :
              /\ Entries(t)[i].row \in Row
              /\ Entries(t)[i].seq = staged[t][Entries(t)[i].row]
              /\ Entries(t)[i].seq \in Nat /\ Entries(t)[i].seq > 0
         /\ \A i, j \in 1..Len(Entries(t)) :
              i < j => Entries(t)[i].seq < Entries(t)[j].seq
         /\ \A r \in Row : staged[t][r] > 0 =>
              \E i \in 1..Len(Entries(t)) :
                Entries(t)[i] = [row |-> r, seq |-> staged[t][r]]
<1> DEFINE S == StagedEntries(t)
           es == Entries(t)
<1>1. /\ IsFiniteSet(S) /\ S \subseteq Entry
      /\ \A e, f \in S : e.seq = f.seq => e = f
  BY StagedEntriesFinite
<1>2. \A e \in S : e.seq \in Nat BY <1>1 DEF Entry
<1>3. \E x \in [1..Cardinality(S) -> S] : Lists(x, S)
  <2> HIDE DEF S
  <2> QED BY <1>1, <1>2, ListingExists
<1>4. Lists(es, S) BY <1>3 DEF Entries
<1>5. Cardinality(S) \in Nat BY <1>1, FS_CardinalityType
<1>6. es \in [1..Cardinality(S) -> S] BY <1>4 DEF Lists
<1>7. es \in Seq(Entry) /\ Len(es) = Cardinality(S)
  <2> HIDE DEF es, S
  <2>1. es \in [1..Cardinality(S) -> Entry] BY <1>1, <1>6
  <2> QED BY <1>5, <2>1
<1>8. \A e \in S : \E i \in 1..Cardinality(S) : es[i] = e
  <2> HIDE DEF es, S
  <2> QED BY <1>1, <1>2, <1>4, ListingCovers
<1>9. ASSUME NEW i \in 1..Len(es)
      PROVE  /\ es[i].row \in Row /\ es[i].seq = staged[t][es[i].row]
             /\ es[i].seq \in Nat /\ es[i].seq > 0
  <2>1. es[i] \in S BY <1>6, <1>7
  <2>2. PICK r \in Row : staged[t][r] > 0 /\ es[i] = [row |-> r, seq |-> staged[t][r]]
    BY <2>1 DEF StagedEntries
  <2>3. staged[t][r] \in Nat BY DEF TypeOK
  <2> HIDE DEF es
  <2> QED BY <2>2, <2>3
<1>10. \A i, j \in 1..Len(es) : i < j => es[i].seq < es[j].seq
  BY <1>4, <1>7 DEF Lists
<1>11. ASSUME NEW r \in Row, staged[t][r] > 0
       PROVE  \E i \in 1..Len(es) : es[i] = [row |-> r, seq |-> staged[t][r]]
  <2>1. [row |-> r, seq |-> staged[t][r]] \in S BY <1>11 DEF StagedEntries
  <2> HIDE DEF es
  <2> QED BY <1>7, <1>8, <2>1
<1> QED BY <1>7, <1>9, <1>10, <1>11

Ascends(s) == \A i, j \in DOMAIN s : i < j => s[i].seq < s[j].seq
VersionsOf(u, s) ==
  \A i \in DOMAIN s :
    RowReader[s[i].row] = u /\ 0 < s[i].seq /\ s[i].seq <= rows[s[i].row]

LEMMA FeedInvParts ==
  FeedInv <=>
    /\ published \in [Reader -> Seq(Entry)]
    /\ \A u \in Reader : VersionsOf(u, published[u]) /\ Ascends(published[u])
    /\ \A r \in Row : rows[r] > 0 => IsPublished(RowReader[r], r, rows[r])
    /\ \A d \in Device, r \in Row :
         /\ stage[d] # "idle" /\ page[d][r] > 0 => IsPublished(DeviceReader[d], r, page[d][r])
         /\ held[d][r] > 0 => IsPublished(DeviceReader[d], r, held[d][r])
BY DEF FeedInv, Ascends, VersionsOf, Entry

LEMMA InitFeedInv == PInit => FeedInv
<1> SUFFICES ASSUME PInit PROVE FeedInv
  OBVIOUS
<1> USE ConstantsAssumption DEF PInit, Init, Nothing
<1>1. published \in [Reader -> Seq(Entry)] BY EmptySeq
<1>2. \A u \in Reader : DOMAIN published[u] = {} OBVIOUS
<1>3. \A u \in Reader : VersionsOf(u, published[u]) /\ Ascends(published[u])
  BY <1>2 DEF VersionsOf, Ascends
<1> QED BY <1>1, <1>3, FeedInvParts

\* A commit appends what it publishes to its reader's history and touches no
\* other: all the proofs below need of it.
LEMMA CommitPublishes ==
  ASSUME TypeOK, StreamInv, ParentInv, FeedInv, NEW t \in Txn, Commit(t),
         published' = [published EXCEPT ![OpReader[op[t]]] = @ \o Entries(t)]
  PROVE  /\ phase[t] = "writing" /\ OpReader[op[t]] \in Reader
         /\ published' \in [Reader -> Seq(Entry)]
         /\ \A u \in Reader \ {OpReader[op[t]]} : published'[u] = published[u]
         /\ published'[OpReader[op[t]]] = published[OpReader[op[t]]] \o Entries(t)
         /\ \A u \in Reader :
              /\ Len(published[u]) \in Nat /\ Len(published'[u]) \in Nat
              /\ Len(published[u]) <= Len(published'[u])
              /\ DOMAIN published[u] = 1..Len(published[u])
              /\ DOMAIN published'[u] = 1..Len(published'[u])
              /\ \A i \in 1..Len(published[u]) : published'[u][i] = published[u][i]
         /\ \A i \in (Len(published[OpReader[op[t]]]) + 1)..Len(published'[OpReader[op[t]]]) :
              LET e == published'[OpReader[op[t]]][i] IN
              /\ e \in Entry /\ e.seq > 0 /\ e.seq = staged[t][e.row]
              /\ RowReader[e.row] = OpReader[op[t]]
<1> USE ConstantsAssumption
<1> DEFINE u == OpReader[op[t]]
           P == published[u]
           E == Entries(t)
<1>1. phase[t] = "writing" /\ op[t] \in Op BY DEF Commit, TypeOK
<1>2. u \in Reader BY <1>1
<1>3. published \in [Reader -> Seq(Entry)] BY FeedInvParts
<1>4. /\ E \in Seq(Entry)
      /\ \A i \in 1..Len(E) :
           /\ E[i].row \in Row /\ E[i].seq = staged[t][E[i].row] /\ E[i].seq > 0
  BY <1>1, EntriesListed
<1>5. P \in Seq(Entry) BY <1>2, <1>3
<1>6. /\ published' = [published EXCEPT ![u] = P \o E]
      /\ published'[u] = P \o E
      /\ \A v \in Reader \ {u} : published'[v] = published[v]
  BY <1>2, <1>3
<1> HIDE DEF E
<1>7. /\ P \o E \in Seq(Entry) /\ Len(P \o E) = Len(P) + Len(E)
      /\ \A i \in 1..Len(P) + Len(E) :
           (P \o E)[i] = IF i <= Len(P) THEN P[i] ELSE E[i - Len(P)]
  BY <1>4, <1>5, ConcatProperties
<1>8. published' \in [Reader -> Seq(Entry)]
  <2> HIDE DEF P, u
  <2> QED BY <1>2, <1>3, <1>6, <1>7
<1>9. \A v \in Reader :
        /\ Len(published[v]) \in Nat /\ Len(published'[v]) \in Nat
        /\ DOMAIN published[v] = 1..Len(published[v])
        /\ DOMAIN published'[v] = 1..Len(published'[v])
  BY <1>3, <1>8, LenProperties
<1>10. Len(P) \in Nat /\ Len(E) \in Nat BY <1>4, <1>5, LenProperties
<1>11. ASSUME NEW v \in Reader
       PROVE  /\ Len(published[v]) <= Len(published'[v])
              /\ \A i \in 1..Len(published[v]) : published'[v][i] = published[v][i]
  <2>1. CASE v = u
    <3>1. published[v] = P /\ published'[v] = P \o E BY <2>1, <1>6
    <3> HIDE DEF P, u
    <3>2. Len(P) <= Len(P \o E) BY <1>7, <1>10
    <3>3. \A i \in 1..Len(P) : (P \o E)[i] = P[i] BY <1>7, <1>10
    <3> QED BY <3>1, <3>2, <3>3
  <2>2. CASE v # u BY <2>2, <1>6, <1>9
  <2> QED BY <2>1, <2>2
<1>12. ASSUME NEW i \in (Len(P) + 1)..Len(published'[u])
       PROVE  LET e == published'[u][i] IN
              /\ e \in Entry /\ e.seq > 0 /\ e.seq = staged[t][e.row]
              /\ RowReader[e.row] = u
  <2>1. i - Len(P) \in 1..Len(E) /\ published'[u][i] = E[i - Len(P)]
    <3>1. i \in (Len(P) + 1)..Len(P \o E) /\ published'[u][i] = (P \o E)[i] BY <1>6
    <3> HIDE DEF P, u
    <3> QED BY <3>1, <1>7, <1>10
  <2>2. E[i - Len(P)] \in Entry BY <2>1, <1>4, ElementOfSeq
  <2>3. RowReader[E[i - Len(P)].row] = u
    BY <2>1, <1>4 DEF StreamInv, StagedMine
  <2> QED BY <2>1, <2>2, <2>3, <1>4
<1>13. \A v \in Reader \ {u} : published'[v] = published[v] BY <1>6
<1>14. published'[u] = P \o E BY <1>6
<1>15. \A i \in (Len(P) + 1)..Len(published'[u]) :
         LET e == published'[u][i] IN
         /\ e \in Entry /\ e.seq > 0 /\ e.seq = staged[t][e.row]
         /\ RowReader[e.row] = u
  BY <1>12
<1> QED BY <1>1, <1>2, <1>8, <1>9, <1>11, <1>13, <1>14, <1>15, Zenon DEF E

LEMMA CommitFeedInv ==
  ASSUME TypeOK, StreamInv, ParentInv, FeedInv, NEW t \in Txn, Commit(t),
         published' = [published EXCEPT ![OpReader[op[t]]] = @ \o Entries(t)]
  PROVE  FeedInv'
<1> DEFINE u == OpReader[op[t]]
           n(v) == Len(published[v])
<1>1. /\ phase[t] = "writing" /\ u \in Reader
      /\ published' \in [Reader -> Seq(Entry)]
      /\ \A v \in Reader \ {u} : published'[v] = published[v]
      /\ published'[u] = published[u] \o Entries(t)
  BY CommitPublishes
<1>2. \A v \in Reader :
        /\ n(v) \in Nat /\ Len(published'[v]) \in Nat
        /\ n(v) <= Len(published'[v])
        /\ DOMAIN published[v] = 1..n(v)
        /\ DOMAIN published'[v] = 1..Len(published'[v])
        /\ \A i \in 1..n(v) : published'[v][i] = published[v][i]
  BY CommitPublishes
<1>3. \A i \in (n(u) + 1)..Len(published'[u]) :
        LET e == published'[u][i] IN
        /\ e \in Entry /\ e.seq > 0 /\ e.seq = staged[t][e.row]
        /\ RowReader[e.row] = u
  BY CommitPublishes
<1>4. /\ published \in [Reader -> Seq(Entry)]
      /\ \A v \in Reader : VersionsOf(v, published[v]) /\ Ascends(published[v])
      /\ \A r \in Row : rows[r] > 0 => IsPublished(RowReader[r], r, rows[r])
      /\ \A d \in Device, r \in Row :
           /\ stage[d] # "idle" /\ page[d][r] > 0 => IsPublished(DeviceReader[d], r, page[d][r])
           /\ held[d][r] > 0 => IsPublished(DeviceReader[d], r, held[d][r])
  BY FeedInvParts
<1>5. /\ UNCHANGED <<page, stage, held>>
      /\ \A r \in Row : rows'[r] = IF staged[t][r] > 0 THEN staged[t][r] ELSE rows[r]
  BY DEF Commit, deviceVars
<1>6. \A r \in Row : rows[r] \in Nat /\ staged[t][r] \in Nat /\ rows'[r] \in Nat
  BY <1>5 DEF TypeOK
<1>14. \A r, q \in Row :
         staged[t][r] > 0 /\ RowReader[q] = RowReader[r] => rows[q] < staged[t][r]
  BY DEF StreamInv, CommitsInOrder
<1>7. \A r \in Row : rows[r] <= rows'[r] BY <1>5, <1>6, <1>14
<1>8. \A v \in Reader : \A i \in 1..n(v) : published[v][i] \in Entry
  BY <1>4, ElementOfSeq
<1> HIDE DEF n, u
<1>9. ASSUME NEW v \in Reader PROVE VersionsOf(v, published[v])'
  <2> DEFINE Version(e) == RowReader[e.row] = v /\ 0 < e.seq /\ e.seq <= rows'[e.row]
  <2>1. ASSUME NEW i \in 1..n(v) PROVE Version(published'[v][i])
    <3>1. published'[v][i] = published[v][i] BY <1>2
    <3>2. /\ RowReader[published[v][i].row] = v /\ 0 < published[v][i].seq
          /\ published[v][i].seq <= rows[published[v][i].row]
      BY <1>2, <1>4 DEF VersionsOf
    <3>3. published[v][i].row \in Row /\ published[v][i].seq \in Nat
      BY <1>8 DEF Entry
    <3>4. published[v][i].seq <= rows'[published[v][i].row] BY <3>2, <3>3, <1>6, <1>7
    <3>5. Version(published[v][i]) BY <3>2, <3>4
    <3> QED BY <3>1, <3>5
  <2>2. ASSUME NEW i \in (n(v) + 1)..Len(published'[v]) PROVE Version(published'[v][i])
    <3>1. v = u
      <4>1. CASE v # u BY <4>1, <1>1, <1>2 DEF n
      <4> QED BY <4>1
    <3> DEFINE e == published'[v][i]
    <3>2. e \in Entry /\ e.seq > 0 /\ e.seq = staged[t][e.row] /\ RowReader[e.row] = v
      BY <3>1, <1>3
    <3> HIDE DEF e
    <3>3. e.row \in Row /\ e.seq \in Nat BY <3>2 DEF Entry
    <3>4. rows'[e.row] = e.seq BY <3>2, <3>3, <1>5
    <3>5. Version(e) BY <3>2, <3>3, <3>4
    <3> QED BY <3>5 DEF e
  <2> HIDE DEF Version
  <2>3. ASSUME NEW i \in DOMAIN published'[v] PROVE Version(published'[v][i])
    <3>1. i \in 1..n(v) \/ i \in (n(v) + 1)..Len(published'[v]) BY <1>2
    <3> QED BY <3>1, <2>1, <2>2
  <2> QED BY <2>3 DEF VersionsOf, Version
<1>10. ASSUME NEW v \in Reader PROVE Ascends(published[v])'
  <2> SUFFICES ASSUME NEW i \in DOMAIN published'[v], NEW j \in DOMAIN published'[v], i < j
               PROVE  published'[v][i].seq < published'[v][j].seq
    BY DEF Ascends
  <2>1. CASE j <= n(v)
    <3>1. i \in 1..n(v) /\ j \in 1..n(v) BY <2>1, <1>2
    <3>2. published[v][i].seq < published[v][j].seq BY <3>1, <1>2, <1>4 DEF Ascends
    <3> QED BY <3>1, <3>2, <1>2
  <2>2. CASE i <= n(v) /\ j > n(v)
    <3>1. v = u BY <2>2, <1>1, <1>2
    <3>2. j \in (n(u) + 1)..Len(published'[u]) BY <2>2, <3>1, <1>2
    <3> DEFINE e == published[v][i]
           f == published'[v][j]
    <3>3. f \in Entry /\ f.seq = staged[t][f.row] /\ f.seq > 0 /\ RowReader[f.row] = v
      BY <3>1, <3>2, <1>3
    <3>4. i \in 1..n(v) /\ published'[v][i] = e BY <2>2, <1>2
    <3>5. RowReader[e.row] = v /\ e.seq <= rows[e.row]
      BY <3>4, <1>2, <1>4 DEF VersionsOf
    <3>6. e \in Entry BY <3>4, <1>8
    <3> HIDE DEF e, f
    <3>7. e.row \in Row /\ e.seq \in Nat /\ f.row \in Row /\ f.seq \in Nat
      BY <3>3, <3>6 DEF Entry
    <3>8. rows[e.row] < f.seq BY <3>3, <3>5, <3>7, <1>14
    <3>9. rows[e.row] \in Nat BY <3>7, <1>6
    <3>10. e.seq < f.seq BY <3>5, <3>7, <3>8, <3>9
    <3> QED BY <3>4, <3>10 DEF f
  <2>3. CASE i > n(v)
    <3>1. v = u BY <2>3, <1>1, <1>2
    <3> DEFINE E == Entries(t)
    <3>2. /\ E \in Seq(Entry) /\ published[u] \in Seq(Entry)
          /\ \A a, b \in 1..Len(E) : a < b => E[a].seq < E[b].seq
      BY <1>1, <1>4, EntriesListed
    <3>3. published'[v] = published[u] \o E BY <3>1, <1>1
    <3> HIDE DEF E
    <3>4. /\ Len(published[u] \o E) = n(u) + Len(E)
          /\ \A k \in 1..n(u) + Len(E) :
               (published[u] \o E)[k] = IF k <= n(u) THEN published[u][k] ELSE E[k - n(u)]
      BY <3>2, ConcatProperties DEF n
    <3>5. Len(E) \in Nat /\ n(u) \in Nat BY <3>2, LenProperties DEF n
    <3>6. i \in 1..n(u) + Len(E) /\ j \in 1..n(u) + Len(E) BY <3>1, <3>3, <3>4, <1>2
    <3>7. i - n(u) \in 1..Len(E) /\ j - n(u) \in 1..Len(E) /\ i - n(u) < j - n(u)
      BY <2>3, <3>1, <3>5, <3>6
    <3>8. published'[v][i] = E[i - n(u)] /\ published'[v][j] = E[j - n(u)]
      <4>1. ~(i <= n(u)) /\ ~(j <= n(u)) BY <3>1, <3>5, <3>6, <3>7
      <4> QED BY <3>3, <3>4, <3>6, <4>1
    <3> QED BY <3>2, <3>7, <3>8
  <2>4. n(v) \in Nat /\ i \in Nat /\ j \in Nat BY <1>2
  <2> QED BY <2>1, <2>2, <2>3, <2>4
<1>11. ASSUME NEW v \in Reader, NEW r, NEW m, IsPublished(v, r, m)
       PROVE  IsPublished(v, r, m)'
  <2>1. PICK i \in 1..n(v) : published[v][i] = [row |-> r, seq |-> m]
    BY <1>2, <1>11 DEF IsPublished
  <2>2. i \in DOMAIN published'[v] /\ published'[v][i] = published[v][i] BY <1>2
  <2> QED BY <2>1, <2>2 DEF IsPublished
<1>12. ASSUME NEW r \in Row, rows'[r] > 0 PROVE IsPublished(RowReader[r], r, rows[r])'
  <2>1. CASE staged[t][r] > 0
    <3> DEFINE E == Entries(t)
    <3>1. /\ E \in Seq(Entry) /\ published[u] \in Seq(Entry)
          /\ \E i \in 1..Len(E) : E[i] = [row |-> r, seq |-> staged[t][r]]
      BY <2>1, <1>1, <1>4, EntriesListed
    <3>2. RowReader[r] = u BY <2>1 DEF StreamInv, StagedMine, u
    <3>3. published'[u] = published[u] \o E BY <1>1
    <3> HIDE DEF E
    <3>4. PICK i \in 1..Len(E) : E[i] = [row |-> r, seq |-> staged[t][r]] BY <3>1
    <3>5. /\ Len(published[u] \o E) = n(u) + Len(E)
          /\ \A k \in 1..n(u) + Len(E) :
               (published[u] \o E)[k] = IF k <= n(u) THEN published[u][k] ELSE E[k - n(u)]
      BY <3>1, ConcatProperties DEF n
    <3>6. Len(E) \in Nat /\ n(u) \in Nat BY <3>1, LenProperties DEF n
    <3>7. n(u) + i \in 1..n(u) + Len(E) /\ (published[u] \o E)[n(u) + i] = E[i]
      BY <3>5, <3>6
    <3>8. n(u) + i \in DOMAIN published'[u]
      <4>1. published[u] \o E \in Seq(Entry) BY <3>1, ConcatProperties
      <4>2. DOMAIN (published[u] \o E) = 1..n(u) + Len(E) BY <4>1, <3>5, LenProperties
      <4> QED BY <3>3, <3>7, <4>2
    <3>9. rows'[r] = staged[t][r] BY <2>1, <1>5
    <3>10. published'[u][n(u) + i] = [row |-> r, seq |-> rows'[r]]
      BY <3>3, <3>4, <3>7, <3>9
    <3> QED BY <3>2, <3>8, <3>10 DEF IsPublished
  <2>2. CASE ~(staged[t][r] > 0)
    <3>1. rows'[r] = rows[r] /\ RowReader[r] \in Reader BY <2>2, <1>5, ConstantsAssumption
    <3>2. IsPublished(RowReader[r], r, rows[r]) BY <3>1, <1>4, <1>12
    <3> QED BY <3>1, <3>2, <1>11 DEF IsPublished
  <2> QED BY <2>1, <2>2
<1>13. ASSUME NEW d \in Device, NEW r \in Row
       PROVE  /\ stage'[d] # "idle" /\ page'[d][r] > 0 =>
                   IsPublished(DeviceReader[d], r, page[d][r])'
              /\ held'[d][r] > 0 => IsPublished(DeviceReader[d], r, held[d][r])'
  <2>1. DeviceReader[d] \in Reader BY ConstantsAssumption
  <2>2. \A m : IsPublished(DeviceReader[d], r, m) => IsPublished(DeviceReader[d], r, m)'
    BY <2>1, <1>11
  <2>3. stage'[d] = stage[d] /\ page'[d] = page[d] /\ held'[d] = held[d] BY <1>5
  <2>4. ASSUME stage'[d] # "idle", page'[d][r] > 0
        PROVE  IsPublished(DeviceReader[d], r, page[d][r])'
    <3>1. IsPublished(DeviceReader[d], r, page[d][r]) BY <2>3, <2>4, <1>4
    <3> QED BY <2>2, <2>3, <3>1 DEF IsPublished
  <2>5. ASSUME held'[d][r] > 0 PROVE IsPublished(DeviceReader[d], r, held[d][r])'
    <3>1. IsPublished(DeviceReader[d], r, held[d][r]) BY <2>3, <2>5, <1>4
    <3> QED BY <2>2, <2>3, <3>1 DEF IsPublished
  <2> QED BY <2>4, <2>5
<1>15. FeedInv'
  <2>1. published' \in [Reader -> Seq([row : Row, seq : Nat])] BY <1>1 DEF Entry
  <2> QED BY <2>1, <1>9, <1>10, <1>12, <1>13 DEF FeedInv, VersionsOf, Ascends
<1> QED BY <1>15

\* A step that publishes nothing keeps the history's part, if it leaves the
\* rows alone and what it brings into a page or onto a device was published.
LEMMA QuietFeedStep ==
  ASSUME FeedInv, UNCHANGED <<rows, published>>,
         \A d \in Device, r \in Row :
           /\ stage'[d] # "idle" /\ page'[d][r] > 0 => IsPublished(DeviceReader[d], r, page'[d][r])
           /\ held'[d][r] > 0 => IsPublished(DeviceReader[d], r, held'[d][r])
  PROVE  FeedInv'
<1>1. /\ published \in [Reader -> Seq([row : Row, seq : Nat])]
      /\ \A u \in Reader :
           /\ \A i \in DOMAIN published[u] :
                RowReader[published[u][i].row] = u /\ 0 < published[u][i].seq
                /\ published[u][i].seq <= rows[published[u][i].row]
           /\ \A i, j \in DOMAIN published[u] :
                i < j => published[u][i].seq < published[u][j].seq
      /\ \A r \in Row : rows[r] > 0 => IsPublished(RowReader[r], r, rows[r])
  BY Zenon DEF FeedInv
<1>2. \A u, r, m : IsPublished(u, r, m)' <=> IsPublished(u, r, m) BY DEF IsPublished
<1>3. \A r \in Row : rows'[r] > 0 => IsPublished(RowReader[r], r, rows[r])'
  BY <1>1, <1>2 DEF IsPublished
<1>4. \A d \in Device, r \in Row :
        /\ stage'[d] # "idle" /\ page'[d][r] > 0 => IsPublished(DeviceReader[d], r, page[d][r])'
        /\ held'[d][r] > 0 => IsPublished(DeviceReader[d], r, held[d][r])'
  BY <1>2 DEF IsPublished
<1> QED BY <1>1, <1>3, <1>4, Zenon DEF FeedInv

LEMMA DeviceFeedInv ==
  ASSUME TypeOK, FeedInv, NEW d \in Device, UNCHANGED published,
         Pull(d) \/ Apply(d) \/ SaveCursor(d) \/ Lose(d)
  PROVE  FeedInv'
<1> USE ConstantsAssumption
<1>1. UNCHANGED <<rows, published>> BY DeviceStepIsLocal DEF serverVars
<1>2. \A r \in Row : rows[r] > 0 => IsPublished(RowReader[r], r, rows[r])
  BY FeedInvParts
<1>3. \A e \in Device, r \in Row :
        /\ stage[e] # "idle" /\ page[e][r] > 0 => IsPublished(DeviceReader[e], r, page[e][r])
        /\ held[e][r] > 0 => IsPublished(DeviceReader[e], r, held[e][r])
  BY FeedInvParts
<1>4. ASSUME NEW e \in Device, NEW r \in Row, stage'[e] # "idle", page'[e][r] > 0
      PROVE  IsPublished(DeviceReader[e], r, page'[e][r])
  <2>1. CASE Pull(d) /\ e = d
    <3>1. PICK P \in SUBSET PendingFrom(d, Since(d)) :
            page' = [page EXCEPT ![d] = [q \in Row |-> IF q \in P THEN rows[q] ELSE 0]]
      BY <2>1 DEF Pull
    <3>2. page'[d][r] = IF r \in P THEN rows[r] ELSE 0 BY <3>1 DEF TypeOK
    <3>3. r \in P BY <1>4, <2>1, <3>2
    <3>4. RowReader[r] = DeviceReader[d] /\ page'[d][r] = rows[r]
      BY <3>1, <3>2, <3>3 DEF PendingFrom, Mine
    <3> QED BY <1>2, <1>4, <2>1, <3>4
  <2>2. CASE ~(Pull(d) /\ e = d)
    <3>1. stage[e] # "idle" /\ page'[e][r] = page[e][r]
      <4>1. CASE Pull(d) BY <4>1, <1>4, <2>2 DEF Pull, TypeOK
      <4>2. CASE Apply(d) BY <4>2, <1>4 DEF Apply, TypeOK
      <4>3. CASE SaveCursor(d) \/ Lose(d)
        <5>1. stage'[d] = "idle" BY <4>3 DEF SaveCursor, Lose, TypeOK
        <5>2. e # d BY <1>4, <5>1
        <5> QED BY <4>3, <1>4, <5>2 DEF SaveCursor, Lose, TypeOK
      <4> QED BY <4>1, <4>2, <4>3
    <3> QED BY <1>3, <1>4, <3>1
  <2> QED BY <2>1, <2>2
<1>5. ASSUME NEW e \in Device, NEW r \in Row, held'[e][r] > 0
      PROVE  IsPublished(DeviceReader[e], r, held'[e][r])
  <2>1. CASE Apply(d) /\ e = d
    <3>1. /\ stage[d] = "got"
          /\ held'[d][r] = IF page[d][r] > 0 THEN page[d][r] ELSE held[d][r]
      BY <2>1 DEF Apply, TypeOK
    <3> QED BY <1>3, <1>5, <2>1, <3>1
  <2>2. CASE ~(Apply(d) /\ e = d)
    <3>1. held'[e][r] = held[e][r]
      BY <2>2 DEF Pull, Apply, SaveCursor, Lose, TypeOK
    <3> QED BY <1>3, <1>5, <3>1
  <2> QED BY <2>1, <2>2
<1> QED BY <1>1, <1>4, <1>5, QuietFeedStep

LEMMA NextFeedInv ==
  TypeOK /\ StreamInv /\ ParentInv /\ FeedInv /\ [PNext]_feedStreamVars => FeedInv'
<1> SUFFICES ASSUME TypeOK, StreamInv, ParentInv, FeedInv, [PNext]_feedStreamVars
             PROVE  FeedInv'
  OBVIOUS
<1>1. ASSUME NEW t \in Txn, Commit(t),
             published' = [published EXCEPT ![OpReader[op[t]]] = @ \o Entries(t)]
      PROVE  FeedInv'
  BY <1>1, CommitFeedInv
<1>2. ASSUME UNCHANGED <<rows, published, stage, page, held>> PROVE FeedInv'
  <2>1. \A d \in Device, r \in Row :
          /\ stage[d] # "idle" /\ page[d][r] > 0 => IsPublished(DeviceReader[d], r, page[d][r])
          /\ held[d][r] > 0 => IsPublished(DeviceReader[d], r, held[d][r])
    BY FeedInvParts
  <2> QED BY <1>2, <2>1, QuietFeedStep
<1>3. ASSUME NEW t \in Txn, NEW o \in Op, Begin(t, o), UNCHANGED published PROVE FeedInv'
  BY <1>2, <1>3 DEF Begin, deviceVars
<1>4. ASSUME NEW t \in Txn, UNCHANGED published,
             LockReader(t) \/ Duplicate(t) \/ RecordOp(t) \/ Write(t) \/ Rollback(t)
      PROVE  FeedInv'
  BY <1>2, <1>4 DEF LockReader, Duplicate, RecordOp, Write, Rollback, deviceVars
<1>5. ASSUME NEW d \in Device, UNCHANGED published,
             Pull(d) \/ Apply(d) \/ SaveCursor(d) \/ Lose(d)
      PROVE  FeedInv'
  BY <1>5, DeviceFeedInv
<1>6. CASE UNCHANGED feedStreamVars BY <1>2, <1>6 DEF feedStreamVars, vars
<1> QED BY <1>1, <1>3, <1>4, <1>5, <1>6 DEF PNext

\* The history adds nothing to the stream: every step of the two is a step of it.
LEMMA HistoryOnly == PSpec => Spec
<1>1. PInit => Init BY DEF PInit
<1>2. [PNext]_feedStreamVars => [Next]_vars
  BY DEF PNext, Next, TxnStep, feedStreamVars
<1> QED BY <1>1, <1>2, PTL DEF PSpec, Spec

\* What was ever published is what a row had, in the order of its numbers, and
\* no device has anything else.
THEOREM HistoryInvariant == PSpec => []FeedInv
<1>1. Spec => []TypeOK BY TypeCorrect
<1>2. Spec => []StreamInv BY StreamInvariant
<1>3. Spec => []ParentInv BY ParentInvariant
<1> QED
  BY <1>1, <1>2, <1>3, HistoryOnly, InitFeedInv, NextFeedInv, PTL DEF PSpec

-----------------------------------------------------------------------------
(***************************************************************************)
(* The refinement mapping, and the steps under it.                         *)
(***************************************************************************)

\* A cursor's place: the entries numbered no higher come first, that many.
LEMMA PlaceOfCursor ==
  ASSUME NEW s \in Seq(Entry), Ascends(s), NEW c \in Nat
  PROVE  LET k == Cardinality({i \in DOMAIN s : s[i].seq <= c}) IN
         k \in 0..Len(s) /\ \A i \in 1..Len(s) : s[i].seq <= c <=> i <= k
<1> DEFINE S == {i \in DOMAIN s : s[i].seq <= c}
<1>1. Len(s) \in Nat /\ DOMAIN s = 1..Len(s) BY LenProperties
<1>2. ASSUME NEW i \in 1..Len(s) PROVE s[i].seq \in Nat
  <2>1. s[i] \in Entry BY ElementOfSeq
  <2> QED BY <2>1 DEF Entry
<1>3. S \in SUBSET (1..Len(s)) BY <1>1
<1>4. ASSUME NEW i \in S, NEW j \in 1..i PROVE j \in S
  <2>1. i \in 1..Len(s) /\ j \in 1..Len(s) /\ s[i].seq <= c BY <1>1
  <2>2. j = i \/ j < i BY <2>1
  <2>3. j < i => s[j].seq < s[i].seq BY <1>1, <2>1 DEF Ascends
  <2>4. s[j].seq <= c BY <1>2, <2>1, <2>2, <2>3
  <2> QED BY <1>1, <2>1, <2>4
<1>5. Cardinality(S) \in 0..Len(s) /\ S = 1..Cardinality(S)
  <2> HIDE DEF S
  <2> QED BY <1>1, <1>3, <1>4, InitialPart
<1>6. ASSUME NEW i \in 1..Len(s) PROVE s[i].seq <= c <=> i <= Cardinality(S)
  <2>1. s[i].seq <= c <=> i \in S BY <1>1
  <2> HIDE DEF S
  <2> QED BY <1>1, <1>5, <2>1
<1> QED BY <1>5, <1>6

\* A version has one place.
LEMMA PlaceOfVersion ==
  ASSUME NEW s \in Seq(Entry), Ascends(s), NEW i \in DOMAIN s
  PROVE  (CHOOSE j \in DOMAIN s : s[j] = s[i]) = i
<1>1. Len(s) \in Nat /\ DOMAIN s = 1..Len(s) BY LenProperties
<1>2. ASSUME NEW j \in DOMAIN s, s[j] = s[i] PROVE j = i
  <2>3. s[i] \in Entry BY <1>1, ElementOfSeq
  <2>1. s[i].seq \in Nat BY <2>3 DEF Entry
  <2>2. ~(i < j) /\ ~(j < i) BY <1>2, <2>1 DEF Ascends
  <2> QED BY <1>1, <2>2
<1> QED BY <1>2

\* The mapping, device by device.
LEMMA MappingOf ==
  ASSUME TypeOK, FeedInv, NEW d \in Device
  PROVE  /\ DeviceReader[d] \in Reader
         /\ Published(d) \in Seq(Entry) /\ Ascends(Published(d))
         /\ VersionsOf(DeviceReader[d], Published(d))
         /\ Len(Published(d)) \in Nat /\ DOMAIN Published(d) = 1..Len(Published(d))
         /\ MappedAt[d] \in 0..Len(Published(d))
         /\ \A i \in 1..Len(Published(d)) : Published(d)[i].seq <= cursor[d] <=> i <= MappedAt[d]
         /\ Abstract!Feed(d) = [i \in 1..Len(Published(d)) |-> Published(d)[i].row]
         /\ Len(Abstract!Feed(d)) = Len(Published(d))
<1> USE ConstantsAssumption
<1> DEFINE s == Published(d)
<1>1. DeviceReader[d] \in Reader OBVIOUS
<1>2. s \in Seq(Entry) /\ Ascends(s) /\ VersionsOf(DeviceReader[d], s)
  BY <1>1, FeedInvParts DEF Published
<1>3. Len(s) \in Nat /\ DOMAIN s = 1..Len(s) BY <1>2, LenProperties
<1>4. MappedAt[d] = Cardinality({i \in DOMAIN s : s[i].seq <= cursor[d]}) BY DEF MappedAt
<1>5. cursor[d] \in Nat BY DEF TypeOK
<1>6. Abstract!Feed(d) = [i \in 1..Len(s) |-> s[i].row]
  BY <1>1, <1>3 DEF Abstract!Feed, MappedFeed, Published
<1>7. Len(Abstract!Feed(d)) = Len(s)
  <2> HIDE DEF s
  <2> QED BY <1>3, <1>6
<1> HIDE DEF s
<1> DEFINE k == Cardinality({i \in DOMAIN s : s[i].seq <= cursor[d]})
<1>9. k \in 0..Len(s) /\ \A i \in 1..Len(s) : s[i].seq <= cursor[d] <=> i <= k
  BY <1>2, <1>5, PlaceOfCursor
<1>8. MappedAt[d] \in 0..Len(s) /\ \A i \in 1..Len(s) : s[i].seq <= cursor[d] <=> i <= MappedAt[d]
  <2> HIDE DEF k
  <2> QED BY <1>4, <1>9 DEF k
<1> QED BY <1>1, <1>2, <1>3, <1>6, <1>7, <1>8 DEF s

\* What a device holds has the place it was published at.
LEMMA HoldingOf ==
  ASSUME TypeOK, FeedInv, NEW d \in Device, NEW r \in Row,
         NEW i \in DOMAIN Published(d),
         held[d][r] > 0, Published(d)[i] = [row |-> r, seq |-> held[d][r]]
  PROVE  MappedHolding[d][r] = i
<1> DEFINE s == Published(d)
<1>1. s \in Seq(Entry) /\ Ascends(s) BY MappingOf
<1>2. held[d][r] # 0 BY DEF TypeOK
<1>3. MappedHolding[d][r] = CHOOSE j \in DOMAIN s : s[j] = [row |-> r, seq |-> held[d][r]]
  BY <1>2 DEF MappedHolding
<1>4. MappedHolding[d][r] = CHOOSE j \in DOMAIN s : s[j] = s[i] BY <1>3
<1> HIDE DEF s
<1>5. (CHOOSE j \in DOMAIN s : s[j] = s[i]) = i BY <1>1, PlaceOfVersion DEF s
<1> QED BY <1>4, <1>5

LEMMA MappingUnchanged ==
  ASSUME UNCHANGED <<published, cursor, held>>
  PROVE  UNCHANGED Abstract!feedVars
BY DEF Abstract!feedVars, MappedFeed, MappedAt, MappedHolding, Published

\* A commit publishes, or changes nothing of the feed: no place moves, because
\* every entry it adds is numbered past every cursor.
LEMMA CommitRefines ==
  ASSUME TypeOK, StreamInv, ParentInv, FeedInv, NEW t \in Txn, Commit(t),
         published' = [published EXCEPT ![OpReader[op[t]]] = @ \o Entries(t)]
  PROVE  Abstract!Publish(OpReader[op[t]]) \/ UNCHANGED Abstract!feedVars
<1> DEFINE u == OpReader[op[t]]
           n(v) == Len(published[v])
           m(v) == Len(published'[v])
<1>1. /\ u \in Reader
      /\ published' \in [Reader -> Seq(Entry)]
      /\ \A v \in Reader \ {u} : published'[v] = published[v]
  BY CommitPublishes
<1>2. \A v \in Reader :
        /\ n(v) \in Nat /\ m(v) \in Nat /\ n(v) <= m(v)
        /\ DOMAIN published[v] = 1..n(v) /\ DOMAIN published'[v] = 1..m(v)
        /\ \A i \in 1..n(v) : published'[v][i] = published[v][i]
  BY CommitPublishes
<1>3. \A i \in (n(u) + 1)..m(u) :
        LET e == published'[u][i] IN
        /\ e \in Entry /\ e.seq > 0 /\ e.seq = staged[t][e.row]
        /\ RowReader[e.row] = u
  BY CommitPublishes
<1>4. published \in [Reader -> Seq(Entry)] BY FeedInvParts
<1>5. UNCHANGED <<cursor, held>> BY DEF Commit, deviceVars
<1>6. \A d \in Device : DeviceReader[d] \in Reader BY ConstantsAssumption
<1>7. CASE m(u) = n(u)
  <2>1. published[u] \in Seq(Entry) /\ published'[u] \in Seq(Entry) BY <1>1, <1>4
  <2>2. published'[u] = published[u]
    <3>1. \A i \in 1..Len(published'[u]) : published'[u][i] = published[u][i]
      BY <1>1, <1>2, <1>7
    <3> QED BY <2>1, <3>1, <1>7, SeqEqual
  <2>3. \A v \in Reader : published'[v] = published[v] BY <2>2, <1>1
  <2>4. published' = published BY <2>3, <1>1, <1>4
  <2> QED BY <2>4, <1>5, MappingUnchanged
<1>8. CASE m(u) # n(u)
  <2> HIDE DEF u, n, m
  <2>1. n(u) < m(u) BY <1>1, <1>2, <1>8
  <2>2. MappedFeed = [v \in Reader |-> [i \in 1..n(v) |-> published[v][i].row]]
    BY <1>2 DEF MappedFeed
  <2>3. MappedFeed' = [v \in Reader |-> [i \in 1..m(v) |-> published'[v][i].row]]
    BY <1>2 DEF MappedFeed
  <2>4. ASSUME NEW v \in Reader \ {u} PROVE MappedFeed'[v] = MappedFeed[v]
    BY <1>1 DEF MappedFeed
  <2>5. MappedFeed' = [MappedFeed EXCEPT ![u] = MappedFeed'[u]]
    <3> DEFINE F == MappedFeed
               G == MappedFeed'
    <3>1. F = [v \in Reader |-> F[v]] /\ G = [v \in Reader |-> G[v]]
      BY <2>2, <2>3
    <3>2. \A v \in Reader \ {u} : G[v] = F[v] BY <2>4
    <3> HIDE DEF F, G
    <3>3. G = [F EXCEPT ![u] = G[u]] BY <3>1, <3>2, <1>1
    <3> QED BY <3>3 DEF F, G
  <2>6. /\ MappedFeed[u] \in Seq(Row) /\ Len(MappedFeed[u]) = n(u)
        /\ MappedFeed'[u] \in Seq(Row) /\ Len(MappedFeed'[u]) = m(u)
    <3>1. published[u] \in Seq(Entry) /\ published'[u] \in Seq(Entry) BY <1>1, <1>4
    <3>2. \A i \in 1..n(u) : published[u][i] \in Entry BY <3>1, ElementOfSeq DEF n
    <3>3. \A i \in 1..m(u) : published'[u][i] \in Entry BY <3>1, ElementOfSeq DEF m
    <3>4. MappedFeed[u] \in [1..n(u) -> Row] BY <3>2, <2>2, <1>1 DEF Entry
    <3>5. MappedFeed'[u] \in [1..m(u) -> Row] BY <3>3, <2>3, <1>1 DEF Entry
    <3>6. n(u) \in Nat /\ m(u) \in Nat BY <1>1, <1>2
    <3> QED BY <3>4, <3>5, <3>6
  <2>7. \A i \in 1..n(u) : MappedFeed'[u][i] = MappedFeed[u][i]
    BY <2>1, <2>2, <2>3, <1>1, <1>2
  <2>8. SubSeq(MappedFeed'[u], 1, n(u)) = MappedFeed[u]
    <3> DEFINE F == MappedFeed[u]
               G == MappedFeed'[u]
    <3>1. /\ F \in Seq(Row) /\ G \in Seq(Row) /\ Len(F) = n(u) /\ Len(G) = m(u)
          /\ n(u) \in Nat /\ m(u) \in Nat /\ n(u) < m(u)
          /\ \A i \in 1..n(u) : G[i] = F[i]
      BY <2>1, <2>6, <2>7, <1>1, <1>2
    <3> HIDE DEF F, G
    <3>2. \A i \in 1..n(u) : G[i] \in Row BY <3>1, ElementOfSeq
    <3>3. /\ SubSeq(G, 1, n(u)) \in Seq(Row)
          /\ Len(SubSeq(G, 1, n(u))) = n(u)
          /\ \A i \in 1..n(u) : SubSeq(G, 1, n(u))[i] = G[i]
      BY <3>1, <3>2, SubSeqProperties
    <3>4. SubSeq(G, 1, n(u)) = F BY <3>1, <3>3, SeqEqual
    <3> QED BY <3>4 DEF F, G
  <2>9. MappedAt' = MappedAt
    <3> DEFINE Then(d) == {i \in DOMAIN published'[DeviceReader[d]] :
                             published'[DeviceReader[d]][i].seq <= cursor[d]}
               Before(d) == {i \in DOMAIN published[DeviceReader[d]] :
                               published[DeviceReader[d]][i].seq <= cursor[d]}
    <3>1. ASSUME NEW d \in Device PROVE Then(d) = Before(d)
      <4> DEFINE v == DeviceReader[d]
      <4>1. v \in Reader BY <1>6
      <4>2. ASSUME NEW i \in (n(v) + 1)..m(v) PROVE ~(published'[v][i].seq <= cursor[d])
        <5>1. v = u BY <1>1, <1>2, <4>1 DEF n, m
        <5> DEFINE e == published'[v][i]
        <5>2. e \in Entry /\ e.seq > 0 /\ e.seq = staged[t][e.row] /\ RowReader[e.row] = v
          BY <5>1, <1>3
        <5> HIDE DEF e
        <5>3. e.row \in Row /\ e.seq \in Nat BY <5>2 DEF Entry
        <5>4. e.row \in Mine(d) BY <5>2, <5>3 DEF Mine
        <5>5. cursor[d] < e.seq BY <5>2, <5>3, <5>4 DEF StreamInv, CommitsInOrder
        <5>6. cursor[d] \in Nat BY DEF TypeOK
        <5>7. ~(e.seq <= cursor[d]) BY <5>3, <5>5, <5>6
        <5> QED BY <5>7 DEF e
      <4>3. \A i \in 1..m(v) : i \in 1..n(v) \/ i \in (n(v) + 1)..m(v) BY <4>1, <1>2
      <4>4. 1..n(v) \subseteq 1..m(v) BY <4>1, <1>2
      <4> HIDE DEF v
      <4>5. {i \in 1..m(v) : published'[v][i].seq <= cursor[d]}
            = {i \in 1..n(v) : published[v][i].seq <= cursor[d]}
        BY <4>1, <4>2, <4>3, <4>4, <1>2, Zenon
      <4> QED BY <4>1, <4>5, <1>2 DEF v
    <3>2. MappedAt' = [d \in Device |-> Cardinality(Then(d))]
      <4>1. cursor' = cursor BY <1>5
      <4> QED BY <4>1 DEF MappedAt, Published
    <3>3. MappedAt = [d \in Device |-> Cardinality(Before(d))] BY DEF MappedAt, Published
    <3> HIDE DEF Then, Before
    <3> QED BY <3>1, <3>2, <3>3
  <2>10. MappedHolding' = MappedHolding
    <3>1. ASSUME NEW d \in Device, NEW r \in Row PROVE MappedHolding'[d][r] = MappedHolding[d][r]
      <4>1. CASE held[d][r] = 0 BY <4>1, <1>5 DEF MappedHolding
      <4>2. CASE held[d][r] # 0
        <5> DEFINE v == DeviceReader[d]
        <5>1. held[d][r] > 0 BY <4>2 DEF TypeOK
        <5>2. IsPublished(v, r, held[d][r]) BY <5>1, FeedInvParts
        <5>3. PICK i \in 1..n(v) : published[v][i] = [row |-> r, seq |-> held[d][r]]
          BY <5>2, <1>2, <1>6 DEF IsPublished
        <5>4. MappedHolding[d][r] = i
          BY <5>1, <5>3, <1>2, <1>6, HoldingOf DEF Published
        <5>5. i \in DOMAIN published'[v] /\ published'[v][i] = published[v][i]
          BY <1>2, <1>6
        <5>6. published'[v] \in Seq(Entry) /\ Ascends(published'[v])
          <6>1. FeedInv' BY CommitFeedInv
          <6>2. Ascends(published[v])' BY <6>1, <1>6 DEF FeedInv, Ascends
          <6> QED BY <6>2, <1>1, <1>6 DEF Ascends
        <5>7. (CHOOSE j \in DOMAIN published'[v] : published'[v][j] = published'[v][i]) = i
          BY <5>5, <5>6, PlaceOfVersion
        <5>8. MappedHolding'[d][r] =
                CHOOSE j \in DOMAIN published'[v] : published'[v][j] = published'[v][i]
          BY <4>2, <5>3, <5>5, <1>5 DEF MappedHolding, Published
        <5> QED BY <5>4, <5>7, <5>8
      <4> QED BY <4>1, <4>2
    <3>2. MappedHolding' = [d \in Device |-> [r \in Row |-> MappedHolding'[d][r]]]
      BY DEF MappedHolding
    <3>3. MappedHolding = [d \in Device |-> [r \in Row |-> MappedHolding[d][r]]]
      BY DEF MappedHolding
    <3>4. [d \in Device |-> [r \in Row |-> MappedHolding'[d][r]]]
            = [d \in Device |-> [r \in Row |-> MappedHolding[d][r]]] BY <3>1
    <3> QED BY <3>2, <3>3, <3>4
  <2>11. Len(MappedFeed[u]) < Len(MappedFeed'[u])
         /\ SubSeq(MappedFeed'[u], 1, Len(MappedFeed[u])) = MappedFeed[u]
    BY <2>1, <2>6, <2>8
  <2> QED BY <2>5, <2>9, <2>10, <2>11 DEF Abstract!Publish, u
<1> QED BY <1>7, <1>8

\* Applying a page receives entries that lie past the device's place.
LEMMA ApplyRefines ==
  ASSUME TypeOK, StreamInv, FeedInv, NEW d \in Device, Apply(d), UNCHANGED published
  PROVE  Abstract!Receive(d)
<1>1. /\ stage[d] = "got" /\ cursor' = cursor
      /\ \A r \in Row : held'[d][r] = IF page[d][r] > 0 THEN page[d][r] ELSE held[d][r]
      /\ \A e \in Device \ {d} : held'[e] = held[e]
  BY DEF Apply, TypeOK
<1>2. MappedFeed' = MappedFeed BY DEF MappedFeed
<1>3. MappedAt' = MappedAt BY <1>1 DEF MappedAt, Published
<1> DEFINE Place(e, r, n) ==
             CHOOSE i \in DOMAIN Published(e) : Published(e)[i] = [row |-> r, seq |-> n]
           At(e, r, n) == IF n = 0 THEN 0 ELSE Place(e, r, n)
<1>7. MappedHolding = [e \in Device |-> [r \in Row |-> At(e, r, held[e][r])]]
  BY DEF MappedHolding
<1>8. MappedHolding' = [e \in Device |-> [r \in Row |-> At(e, r, held'[e][r])]]
  BY DEF MappedHolding, Published
<1>4. ASSUME NEW e \in Device \ {d} PROVE MappedHolding'[e] = MappedHolding[e]
  <2> HIDE DEF At
  <2> QED BY <1>1, <1>7, <1>8
<1>5. MappedHolding' = [MappedHolding EXCEPT ![d] = MappedHolding'[d]]
  <2> DEFINE F == MappedHolding
             G == MappedHolding'
  <2>1. F = [e \in Device |-> F[e]] /\ G = [e \in Device |-> G[e]] BY DEF MappedHolding
  <2>2. \A e \in Device \ {d} : G[e] = F[e] BY <1>4
  <2> HIDE DEF F, G
  <2>3. G = [F EXCEPT ![d] = G[d]] BY <2>1, <2>2
  <2> QED BY <2>3 DEF F, G
<1>6. ASSUME NEW r \in Row, MappedHolding'[d][r] # MappedHolding[d][r]
      PROVE  /\ MappedAt[d] < MappedHolding'[d][r]
             /\ MappedHolding'[d][r] <= Len(Abstract!Feed(d))
             /\ Abstract!Feed(d)[MappedHolding'[d][r]] = r
  <2> DEFINE s == Published(d)
  <2>1. page[d][r] > 0
    <3> HIDE DEF At
    <3>1. held'[d][r] # held[d][r] BY <1>6, <1>7, <1>8
    <3> QED BY <3>1, <1>1
  <2>2. IsPublished(DeviceReader[d], r, page[d][r]) BY <1>1, <2>1, FeedInvParts
  <2>3. PICK i \in DOMAIN s : s[i] = [row |-> r, seq |-> page[d][r]]
    BY <2>2 DEF IsPublished, Published
  <2>4. held'[d][r] = page[d][r] /\ page[d][r] # 0 BY <1>1, <2>1 DEF TypeOK
  <2>5. MappedHolding'[d][r] = CHOOSE j \in DOMAIN s : s[j] = s[i]
    BY <2>3, <2>4 DEF MappedHolding, Published
  <2>6. /\ s \in Seq(Entry) /\ Ascends(s) /\ Len(s) \in Nat /\ DOMAIN s = 1..Len(s)
        /\ MappedAt[d] \in 0..Len(s)
        /\ \A j \in 1..Len(s) : s[j].seq <= cursor[d] <=> j <= MappedAt[d]
        /\ Abstract!Feed(d) = [j \in 1..Len(s) |-> s[j].row]
        /\ Len(Abstract!Feed(d)) = Len(s)
    BY MappingOf
  <2>7. cursor[d] < page[d][r] BY <1>1, <2>1 DEF StreamInv, PageHonest
  <2>8. cursor[d] \in Nat /\ page[d][r] \in Nat BY DEF TypeOK
  <2> HIDE DEF s
  <2>9. MappedHolding'[d][r] = i BY <2>5, <2>6, <2>3, PlaceOfVersion
  <2>10. ~(s[i].seq <= cursor[d]) BY <2>3, <2>7, <2>8
  <2>11. MappedAt[d] < i /\ i <= Len(s) BY <2>3, <2>6, <2>10
  <2> QED BY <2>3, <2>6, <2>9, <2>11
<1> QED BY <1>2, <1>3, <1>5, <1>6 DEF Abstract!Receive

\* Saving the cursor moves the device on, or leaves it where it is: whatever it
\* moves past, it holds at its last version.
LEMMA SaveCursorRefines ==
  ASSUME TypeOK, StreamInv, FeedInv, NEW d \in Device, SaveCursor(d), UNCHANGED published
  PROVE  Abstract!Advance(d) \/ UNCHANGED Abstract!feedVars
<1> DEFINE s == Published(d)
           k == Cardinality({i \in DOMAIN s : s[i].seq <= cursor'[d]})
<1>1. /\ stage[d] = "applied" /\ held' = held /\ cursor'[d] = upto[d]
      /\ \A e \in Device \ {d} : cursor'[e] = cursor[e]
  BY DEF SaveCursor, TypeOK
<1>2. MappedFeed' = MappedFeed BY DEF MappedFeed
<1>3. MappedHolding' = MappedHolding BY <1>1 DEF MappedHolding, Published
<1>4. MappedAt'[d] = k BY DEF MappedAt, Published
<1>5. MappedAt' = [MappedAt EXCEPT ![d] = MappedAt'[d]]
  <2> DEFINE F == MappedAt
             G == MappedAt'
  <2>1. F = [e \in Device |-> F[e]] /\ G = [e \in Device |-> G[e]] BY DEF MappedAt
  <2>2. \A e \in Device \ {d} : G[e] = F[e] BY <1>1 DEF MappedAt, Published
  <2> HIDE DEF F, G
  <2>3. G = [F EXCEPT ![d] = G[d]] BY <2>1, <2>2
  <2> QED BY <2>3 DEF F, G
<1>6. /\ s \in Seq(Entry) /\ Ascends(s) /\ VersionsOf(DeviceReader[d], s)
      /\ Len(s) \in Nat /\ DOMAIN s = 1..Len(s)
      /\ MappedAt[d] \in 0..Len(s)
      /\ \A j \in 1..Len(s) : s[j].seq <= cursor[d] <=> j <= MappedAt[d]
      /\ Abstract!Feed(d) = [j \in 1..Len(s) |-> s[j].row]
      /\ Len(Abstract!Feed(d)) = Len(s)
  BY MappingOf
<1>7. cursor'[d] \in Nat /\ cursor[d] \in Nat /\ upto[d] \in Nat BY <1>1 DEF TypeOK
<1>8. cursor[d] <= cursor'[d] BY <1>1 DEF StreamInv, PageHonest
<1>9. k \in 0..Len(s) /\ \A j \in 1..Len(s) : s[j].seq <= cursor'[d] <=> j <= k
  <2> HIDE DEF s
  <2> QED BY <1>6, <1>7, PlaceOfCursor
<1>10. ASSUME NEW i \in 1..k, Abstract!IsLastOfItsRow(Abstract!Feed(d), i)
       PROVE  MappedHolding[d][Abstract!Feed(d)[i]] = i
  <2> DEFINE r == s[i].row
  <2>1. i \in 1..Len(s) /\ s[i].seq <= cursor'[d] BY <1>6, <1>9
  <2>2. s[i] \in Entry BY <1>6, <2>1, ElementOfSeq
  <2>3. r \in Row /\ s[i].seq \in Nat /\ s[i] = [row |-> r, seq |-> s[i].seq]
    BY <2>2 DEF Entry
  <2>4. RowReader[r] = DeviceReader[d] /\ 0 < s[i].seq /\ s[i].seq <= rows[r]
    BY <1>6, <2>1 DEF VersionsOf
  <2>5. rows[r] \in Nat /\ rows[r] > 0 BY <2>3, <2>4 DEF TypeOK
  <2>6. IsPublished(DeviceReader[d], r, rows[r])
    <3>1. IsPublished(RowReader[r], r, rows[r]) BY <2>3, <2>5, FeedInvParts
    <3> QED BY <2>4, <3>1
  <2>7. PICK j \in DOMAIN s : s[j] = [row |-> r, seq |-> rows[r]]
    BY <2>6 DEF IsPublished, Published
  <2> HIDE DEF s
  <2>8. ASSUME NEW l \in (i + 1)..Len(s) PROVE s[l].row # r
    <3>1. l \in 1..Len(s) BY <1>6, <2>1
    <3>2. Abstract!Feed(d)[l] # Abstract!Feed(d)[i]
      BY <1>6, <1>10 DEF Abstract!IsLastOfItsRow
    <3> QED BY <3>1, <3>2, <1>6, <2>1
  <2>9. ~(i < j) BY <1>6, <2>1, <2>7, <2>8
  <2>10. ~(j < i) BY <1>6, <2>1, <2>3, <2>4, <2>5, <2>7 DEF Ascends
  <2>11. j = i BY <1>6, <2>1, <2>9, <2>10
  <2>12. s[i].seq = rows[r] BY <2>7, <2>11
  <2>13. r \in Mine(d) BY <2>3, <2>4 DEF Mine
  <2>14. held[d][r] = rows[r]
    <3>1. CASE rows[r] <= cursor[d]
      BY <3>1, <2>5, <2>13 DEF StreamInv, NothingMissed
    <3>2. CASE ~(rows[r] <= cursor[d])
      <4>1. cursor[d] < rows[r] /\ rows[r] <= upto[d] BY <3>2, <1>1, <1>7, <2>1, <2>5, <2>12
      <4> QED BY <4>1, <1>1, <2>13 DEF StreamInv, PageHonest
    <3> QED BY <3>1, <3>2
  <2>15. MappedHolding[d][r] = i
    BY <2>3, <2>5, <2>7, <2>11, <2>14, HoldingOf DEF s
  <2>16. Abstract!Feed(d)[i] = r BY <1>6, <2>1
  <2> QED BY <2>15, <2>16
<1> HIDE DEF s, k
<1>11. CASE k = MappedAt[d]
  <2>1. MappedAt' = MappedAt
    <3>1. MappedAt = [e \in Device |-> MappedAt[e]] BY DEF MappedAt
    <3> QED BY <3>1, <1>4, <1>5, <1>11
  <2> QED BY <2>1, <1>2, <1>3 DEF Abstract!feedVars
<1>12. CASE k # MappedAt[d]
  <2>1. MappedAt[d] <= k
    <3>1. CASE MappedAt[d] = 0 BY <3>1, <1>9
    <3>2. CASE MappedAt[d] # 0
      <4>1. MappedAt[d] \in 1..Len(s) BY <3>2, <1>6
      <4>2. s[MappedAt[d]] \in Entry BY <4>1, <1>6, ElementOfSeq
      <4>3. s[MappedAt[d]].seq \in Nat BY <4>2 DEF Entry
      <4>4. s[MappedAt[d]].seq <= cursor[d] BY <4>1, <1>6
      <4>5. s[MappedAt[d]].seq <= cursor'[d] BY <4>3, <4>4, <1>7, <1>8
      <4> QED BY <4>1, <4>5, <1>9
    <3> QED BY <3>1, <3>2
  <2>2. k \in (MappedAt[d] + 1)..Len(Abstract!Feed(d)) BY <2>1, <1>6, <1>9, <1>12
  <2> QED BY <2>2, <1>2, <1>3, <1>4, <1>5, <1>10 DEF Abstract!Advance
<1> QED BY <1>11, <1>12

LEMMA InitRefines == PInit => Abstract!FeedInit
<1> SUFFICES ASSUME PInit PROVE Abstract!FeedInit
  OBVIOUS
<1> USE ConstantsAssumption
<1>1. /\ \A u \in Reader : published[u] = <<>>
      /\ \A d \in Device : Published(d) = <<>>
      /\ \A d \in Device : \A r \in Row : held[d][r] = 0
  BY DEF PInit, Init, Nothing, Published
<1>2. MappedFeed = [u \in Reader |-> <<>>]
  <2>1. ASSUME NEW u \in Reader PROVE [i \in DOMAIN published[u] |-> published[u][i].row] = <<>>
    BY <1>1
  <2> QED BY <2>1 DEF MappedFeed
<1>3. MappedAt = [d \in Device |-> 0]
  <2>1. ASSUME NEW d \in Device
        PROVE  Cardinality({i \in DOMAIN Published(d) : Published(d)[i].seq <= cursor[d]}) = 0
    <3>1. {i \in DOMAIN Published(d) : Published(d)[i].seq <= cursor[d]} = {} BY <1>1
    <3> QED BY <3>1, FS_EmptySet
  <2> QED BY <2>1 DEF MappedAt
<1>4. MappedHolding = [d \in Device |-> [r \in Row |-> 0]] BY <1>1 DEF MappedHolding
<1> QED BY <1>2, <1>3, <1>4 DEF Abstract!FeedInit

LEMMA NextRefines ==
  TypeOK /\ StreamInv /\ ParentInv /\ FeedInv /\ [PNext]_feedStreamVars
    => [Abstract!FeedNext]_(Abstract!feedVars)
<1> SUFFICES ASSUME TypeOK, StreamInv, ParentInv, FeedInv, [PNext]_feedStreamVars
             PROVE  Abstract!FeedNext \/ UNCHANGED Abstract!feedVars
  OBVIOUS
<1>1. ASSUME NEW t \in Txn, Commit(t),
             published' = [published EXCEPT ![OpReader[op[t]]] = @ \o Entries(t)]
      PROVE  Abstract!FeedNext \/ UNCHANGED Abstract!feedVars
  <2>1. OpReader[op[t]] \in Reader BY <1>1, CommitPublishes
  <2>2. Abstract!Publish(OpReader[op[t]]) \/ UNCHANGED Abstract!feedVars BY <1>1, CommitRefines
  <2> QED BY <2>1, <2>2 DEF Abstract!FeedNext
<1>2. ASSUME NEW t \in Txn, NEW o \in Op, Begin(t, o), UNCHANGED published
      PROVE  UNCHANGED Abstract!feedVars
  BY <1>2, MappingUnchanged DEF Begin, deviceVars
<1>3. ASSUME NEW t \in Txn, UNCHANGED published,
             LockReader(t) \/ Duplicate(t) \/ RecordOp(t) \/ Write(t) \/ Rollback(t)
      PROVE  UNCHANGED Abstract!feedVars
  BY <1>3, MappingUnchanged DEF LockReader, Duplicate, RecordOp, Write, Rollback, deviceVars
<1>4. ASSUME NEW d \in Device, UNCHANGED published, Pull(d) \/ Lose(d)
      PROVE  UNCHANGED Abstract!feedVars
  BY <1>4, MappingUnchanged DEF Pull, Lose
<1>5. ASSUME NEW d \in Device, UNCHANGED published, Apply(d) PROVE Abstract!FeedNext
  BY <1>5, ApplyRefines DEF Abstract!FeedNext
<1>6. ASSUME NEW d \in Device, UNCHANGED published, SaveCursor(d)
      PROVE  Abstract!FeedNext \/ UNCHANGED Abstract!feedVars
  BY <1>6, SaveCursorRefines DEF Abstract!FeedNext
<1>7. CASE UNCHANGED feedStreamVars
  BY <1>7, MappingUnchanged DEF feedStreamVars, vars
<1> QED BY <1>1, <1>2, <1>3, <1>4, <1>5, <1>6, <1>7 DEF PNext

\* The handlers and the devices implement the feed: nothing is ever published
\* before a place a device has passed, and no cursor passes a row the device
\* lacks, whatever the interleaving, the page size, the lost answers and the
\* restarts.  No fairness is used.
THEOREM StreamImplementsFeed == PSpec => ImplementsFeed
<1>1. PSpec => [](TypeOK /\ StreamInv /\ ParentInv)
  BY TypeCorrect, StreamInvariant, ParentInvariant, HistoryOnly, PTL
<1>2. PSpec => []FeedInv BY HistoryInvariant
<1> QED
  BY <1>1, <1>2, InitRefines, NextRefines, PTL DEF PSpec, ImplementsFeed, Abstract!FeedSpec
=============================================================================
