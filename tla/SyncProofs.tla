----------------------------- MODULE SyncProofs -----------------------------
(***************************************************************************)
(* A reader's devices and the server, for any devices, rows and retry      *)
(* budget: no write is lost and an op costs one attempt a flush, whatever  *)
(* the clocks say; and when the clocks agree, what is forgotten stays so   *)
(* and a device that is caught up shows what the server has.               *)
(*                                                                         *)
(* An op leaves its outbox in two ways: Discard, which the history notes,  *)
(* and Settle, which believes the answer.  So what carries the first proof *)
(* is that an answer in hand is true: what it says was applied, or was a   *)
(* duplicate, is in the op log - and the op log never forgets.             *)
(*                                                                         *)
(* The last two rest on what a row can be (Explained): an item's row is    *)
(* its one keep, until a tombstone that is later; a register's row is one  *)
(* of the writes.  Then what one row has of another (Covers) only grows,   *)
(* at the server by an op and on a device by a write or a page, and a      *)
(* cursor never passes a row the device does not cover.                    *)
(***************************************************************************)
EXTENDS Sync, FiniteSetTheorems, SequenceTheorems, TLAPS

Queues ==
  /\ outbox = [d \in Device |-> outbox[d]]
  /\ said = [d \in Device |-> said[d]]
  /\ \A o \in written : o.dev \in Device

AnswersAreTrue ==
  \A d \in Device : \A o \in Landed(d) : o \in opLog

LossInv == Queues /\ AnswersAreTrue /\ NoWriteLost

LEMMA InitLossInv == Init => LossInv
BY DEF Init, LossInv, Queues, AnswersAreTrue, NoWriteLost, Landed, Told

\* Whatever the server does with an op, the log only grows.
LEMMA OutcomeLogs ==
  ASSUME NEW o, NEW status, Outcome(o, status)
  PROVE  /\ opLog \subseteq opLog'
         /\ status \in {"applied", "duplicate"} => o \in opLog'
BY DEF Outcome, Land, serverVars

\* An entry of the queue is changed where it stands.
LEMMA KeepsItsPlace ==
  ASSUME Queues, NEW d \in Device, NEW o \in DOMAIN outbox[d], NEW e,
         outbox' = [outbox EXCEPT ![d][o] = e]
  PROVE  /\ outbox' = [c \in Device |-> outbox'[c]]
         /\ \A c \in Device : DOMAIN outbox'[c] = DOMAIN outbox[c]
BY DEF Queues

\* A step that touches neither the answers nor the server, and takes no op out
\* of a queue that is not accounted for.
LEMMA QuietLossStep ==
  ASSUME LossInv, opLog \subseteq opLog', discarded \subseteq discarded',
         outbox' = [d \in Device |-> outbox'[d]],
         said' = [d \in Device |-> said'[d]],
         \A d \in Device : said'[d] = said[d] \/ said'[d] = {},
         \A o \in written' \ written : o.dev \in Device /\ o \in DOMAIN outbox'[o.dev],
         \A d \in Device : \A o \in DOMAIN outbox[d] :
           o \in DOMAIN outbox'[d] \/ o \in opLog' \/ o \in discarded'
  PROVE  LossInv'
<1>1. Queues' BY DEF LossInv, Queues
<1>2. AnswersAreTrue' BY DEF LossInv, AnswersAreTrue, Landed, Told
<1>3. NoWriteLost'
  <2> SUFFICES ASSUME NEW o \in written'
               PROVE  o \in DOMAIN outbox'[o.dev] \/ o \in opLog' \/ o \in discarded'
    BY DEF NoWriteLost, Ops
  <2>1. CASE o \in written
    BY <2>1 DEF LossInv, NoWriteLost, Ops, Queues
  <2>2. CASE o \notin written BY <2>2
  <2> QED BY <2>1, <2>2
<1> QED BY <1>1, <1>2, <1>3 DEF LossInv

\* A local write queues its op with the row.
LEMMA EnqueueLossInv ==
  ASSUME LossInv, NEW d \in Device, NEW kind, NEW k, Enqueue(d, kind, k)
  PROVE  LossInv'
<1> DEFINE o == [dev |-> d, kind |-> kind, key |-> k, n |-> clock + 1]
<1>1. /\ written' = written \cup {o} /\ o.dev = d
      /\ UNCHANGED <<said, opLog, discarded>>
  BY DEF Enqueue, serverVars
<1>2. /\ outbox' = [c \in Device |-> outbox'[c]]
      /\ DOMAIN outbox'[d] = DOMAIN outbox[d] \cup {o}
      /\ \A c \in Device \ {d} : outbox'[c] = outbox[c]
  BY DEF Enqueue, LossInv, Queues
<1> HIDE DEF o
<1>3. \A c \in Device : \A p \in DOMAIN outbox[c] : p \in DOMAIN outbox'[c]
  BY <1>2
<1>4. said' = [c \in Device |-> said'[c]]
  BY <1>1 DEF LossInv, Queues
<1> QED BY <1>1, <1>2, <1>3, <1>4, QuietLossStep

LEMMA NextLossInv == LossInv /\ [Next]_vars => LossInv'
<1> SUFFICES ASSUME LossInv, [Next]_vars PROVE LossInv'
  OBVIOUS
<1>0. /\ outbox = [c \in Device |-> outbox[c]]
      /\ said = [c \in Device |-> said[c]]
  BY DEF LossInv, Queues
<1>1. ASSUME NEW d \in Device, LocalWrite(d) PROVE LossInv'
  BY <1>1, EnqueueLossInv DEF LocalWrite, MarkUnderstood, Keep, Forget, Put
<1>2. ASSUME NEW d \in Device, NEW o \in DOMAIN outbox[d], Retry(d, o) \/ BackoffOver(d, o)
      PROVE  LossInv'
  <2>1. /\ outbox' = [c \in Device |-> outbox'[c]]
        /\ \A c \in Device : DOMAIN outbox'[c] = DOMAIN outbox[c]
    BY <1>0, <1>2 DEF Retry, BackoffOver
  <2>2. UNCHANGED <<said, opLog, written, discarded>>
    BY <1>2 DEF Retry, BackoffOver, serverVars, readerVars
  <2> QED BY <1>0, <2>1, <2>2, QuietLossStep
<1>3. ASSUME NEW d \in Device, NEW o \in DOMAIN outbox[d], Discard(d, o) PROVE LossInv'
  <2>1. /\ outbox' = [c \in Device |-> outbox'[c]]
        /\ DOMAIN outbox'[d] = DOMAIN outbox[d] \ {o}
        /\ \A c \in Device \ {d} : outbox'[c] = outbox[c]
    BY <1>0, <1>3 DEF Discard, Without
  <2>2. UNCHANGED <<said, opLog, written>> /\ discarded' = discarded \cup {o}
    BY <1>3 DEF Discard, serverVars
  <2>3. \A c \in Device : \A p \in DOMAIN outbox[c] :
          p \in DOMAIN outbox'[c] \/ p \in discarded'
    BY <2>1, <2>2
  <2> QED BY <1>0, <2>1, <2>2, <2>3, QuietLossStep
<1>4. ASSUME NEW d \in Device, Settle(d) PROVE LossInv'
  <2>1. /\ outbox' = [c \in Device |-> outbox'[c]]
        /\ DOMAIN outbox'[d] = DOMAIN outbox[d] \ Landed(d)
        /\ \A c \in Device \ {d} : outbox'[c] = outbox[c]
    BY <1>0, <1>4 DEF Settle
  <2>2. /\ UNCHANGED <<opLog, written, discarded>>
        /\ said' = [c \in Device |-> IF c = d THEN {} ELSE said[c]]
    BY <1>0, <1>4 DEF Settle, serverVars, readerVars
  <2>3. \A o \in Landed(d) : o \in opLog
    BY DEF LossInv, AnswersAreTrue
  <2>4. \A c \in Device : \A p \in DOMAIN outbox[c] :
          p \in DOMAIN outbox'[c] \/ p \in opLog'
    BY <2>1, <2>2, <2>3
  <2>5. /\ said' = [c \in Device |-> said'[c]]
        /\ \A c \in Device : said'[c] = said[c] \/ said'[c] = {}
    BY <2>2
  <2> QED BY <2>1, <2>2, <2>4, <2>5, QuietLossStep
<1>5. ASSUME NEW d \in Device,
             \/ StartFlush(d) \/ Push(d) \/ Pull(d) \/ Apply(d) \/ SaveCursor(d) \/ GiveUp(d)
      PROVE  LossInv'
  <2>1. UNCHANGED <<outbox, opLog, written, discarded>>
    BY <1>5 DEF StartFlush, Push, Pull, Apply, SaveCursor, GiveUp, serverVars, readerVars
  <2>2. said' = said \/ said' = [said EXCEPT ![d] = {}]
    BY <1>5 DEF StartFlush, Push, Pull, Apply, SaveCursor, GiveUp, EndFlush
  <2>3. /\ said' = [c \in Device |-> said'[c]]
        /\ \A c \in Device : said'[c] = said[c] \/ said'[c] = {}
    BY <1>0, <2>2
  <2> QED BY <1>0, <2>1, <2>3, QuietLossStep
<1>6. ASSUME NEW d \in Device, Serve(d) PROVE LossInv'
  <2> DEFINE o == Head(request[d])
  <2>1. PICK status \in Status :
          Outcome(o, status) /\ said' = [said EXCEPT ![d] = @ \cup {<<o, status>>}]
    BY <1>6 DEF Serve
  <2>2. UNCHANGED <<outbox, written, discarded>>
    BY <1>6 DEF Serve, readerVars
  <2>3. opLog \subseteq opLog' /\ (status \in {"applied", "duplicate"} => o \in opLog')
    BY <2>1, OutcomeLogs
  <2> HIDE DEF o
  <2>4. said' = [c \in Device |-> IF c = d THEN said[c] \cup {<<o, status>>} ELSE said[c]]
    BY <1>0, <2>1
  <2>5. Queues'
    BY <2>2, <2>4 DEF LossInv, Queues
  <2>6. AnswersAreTrue'
    <3> SUFFICES ASSUME NEW c \in Device, NEW p \in Landed(c)' PROVE p \in opLog'
      BY DEF AnswersAreTrue
    <3>1. PICK v \in said'[c] : v[1] = p /\ v[2] \in {"applied", "duplicate"}
      BY DEF Landed, Told
    <3>2. CASE v \in said[c]
      BY <2>3, <3>1, <3>2 DEF LossInv, AnswersAreTrue, Landed, Told
    <3>3. CASE v = <<o, status>>
      BY <2>3, <3>1, <3>3
    <3> QED BY <2>4, <3>2, <3>3
  <2>7. NoWriteLost'
    BY <2>2, <2>3 DEF LossInv, NoWriteLost, Ops
  <2> QED BY <2>5, <2>6, <2>7 DEF LossInv
<1>7. ASSUME NEW d \in Device, ServeOrphan(d) PROVE LossInv'
  <2>1. opLog \subseteq opLog'
    BY <1>7, OutcomeLogs DEF ServeOrphan
  <2>2. UNCHANGED <<outbox, said, written, discarded>>
    BY <1>7 DEF ServeOrphan, readerVars
  <2> QED BY <1>0, <2>1, <2>2, QuietLossStep
<1>8. CASE UNCHANGED vars
  BY <1>0, <1>8, QuietLossStep DEF vars
<1> QED BY <1>1, <1>2, <1>3, <1>4, <1>5, <1>6, <1>7, <1>8 DEF Next, FlushStep

\* A queued write is in its outbox, or on the server, or was thrown away by the
\* reader: whatever is lost, answered wrongly late, retried or sent twice.
THEOREM NothingIsLost == Spec => []NoWriteLost
<1>1. LossInv => NoWriteLost BY DEF LossInv
<1> QED BY <1>1, InitLossInv, NextLossInv, PTL DEF Spec

(***************************************************************************)
(* What is queued, asked and said.                                         *)
(***************************************************************************)
Entry == [attempts : Nat, waits : BOOLEAN, dead : BOOLEAN]

\* Every op is a device's own, and the device's queue, requests and answers are
\* of ops that were written.
QueueTypes ==
  /\ clock \in Nat
  /\ IsFiniteSet(written)
  /\ opLog \subseteq written
  /\ outbox = [d \in Device |-> outbox[d]]
  /\ \A d \in Device :
       /\ outbox[d] \in [DOMAIN outbox[d] -> Entry]
       /\ \A o \in DOMAIN outbox[d] : o \in written /\ o.dev = d
  /\ phase \in [Device -> {"idle", "push", "wait", "got", "applied"}]
  /\ sent \in [Device -> SUBSET written]
  /\ charged \in [Device -> SUBSET written]
  /\ said \in [Device -> SUBSET (written \X Status)]
  /\ request \in [Device -> Seq(written)]
  /\ orphan \in [Device -> Seq(written)]

\* Ops are told apart by when they were written; an item is kept once, and
\* everything else that is said of it is that it is forgotten, later.
WrittenOps ==
  /\ \A o \in written :
       /\ o.dev \in Device /\ o.n \in 1..clock
       /\ \/ o.kind = "mark" /\ o.key \in Mark
          \/ o.kind \in {"keep", "forget"} /\ o.key \in Kept
          \/ o.kind = "put" /\ o.key \in Prefs \cup Position
  /\ \A o, p \in written :
       /\ o.n = p.n => o = p
       /\ o.kind = "keep" /\ p.key = o.key /\ p # o => p.kind = "forget" /\ o.n < p.n

QueueInv == QueueTypes /\ WrittenOps

LEMMA InitQueueInv == Init => QueueInv
<1> SUFFICES ASSUME Init PROVE QueueInv OBVIOUS
<1> USE DEF Init
<1>1. IsFiniteSet(written) BY FS_EmptySet
<1>2. QueueTypes BY <1>1 DEF QueueTypes
<1>3. WrittenOps BY DEF WrittenOps
<1> QED BY <1>2, <1>3 DEF QueueInv

\* A set whose members have times of their own can be put in order: a member's
\* place is how many are no later.
LEMMA InjectionIsOnto ==
  ASSUME NEW S, IsFiniteSet(S), NEW f \in [S -> 1..Cardinality(S)],
         \A a, b \in S : f[a] = f[b] => a = b
  PROVE  \A i \in 1..Cardinality(S) : \E a \in S : f[a] = i
<1>1. Cardinality(S) \in Nat BY FS_CardinalityType
<1>2. IsFiniteSet(1..Cardinality(S)) /\ Cardinality(1..Cardinality(S)) = Cardinality(S)
  BY <1>1, FS_Interval
<1>3. f \in Injection(S, 1..Cardinality(S)) BY DEF Injection, IsInjective
<1>4. f \in Surjection(S, 1..Cardinality(S)) BY <1>2, <1>3, FS_Injection
<1> QED BY <1>4 DEF Surjection

LEMMA OldestFirstExists ==
  ASSUME NEW S, IsFiniteSet(S),
         \A e \in S : e.n \in Nat,
         \A e, f \in S : e.n = f.n => e = f
  PROVE  OldestFirst(S) \in [1..Cardinality(S) -> S]
<1> DEFINE N == Cardinality(S)
           NoLater(e) == {f \in S : f.n <= e.n}
           place == [e \in S |-> Cardinality(NoLater(e))]
<1>1. N \in Nat BY FS_CardinalityType
<1>2. ASSUME NEW e \in S PROVE IsFiniteSet(NoLater(e)) /\ place[e] \in 1..N
  <2>1. NoLater(e) \in SUBSET S OBVIOUS
  <2>2. IsFiniteSet(NoLater(e)) /\ Cardinality(NoLater(e)) <= N BY <2>1, FS_Subset
  <2>3. Cardinality(NoLater(e)) \in Nat BY <2>2, FS_CardinalityType
  <2>4. e \in NoLater(e) OBVIOUS
  <2>5. Cardinality(NoLater(e)) # 0 BY <2>2, <2>4, FS_EmptySet
  <2> QED BY <1>1, <2>2, <2>3, <2>5
<1>3. ASSUME NEW e \in S, NEW f \in S, e.n < f.n PROVE place[e] < place[f]
  <2>1. NoLater(e) \in SUBSET NoLater(f) BY <1>3
  <2>2. f \in NoLater(f) /\ f \notin NoLater(e) BY <1>3
  <2>3. NoLater(e) # NoLater(f) BY <2>2
  <2>4. /\ Cardinality(NoLater(e)) <= Cardinality(NoLater(f))
        /\ Cardinality(NoLater(f)) = Cardinality(NoLater(e)) => NoLater(f) = NoLater(e)
    <3>1. IsFiniteSet(NoLater(f)) BY <1>2
    <3> HIDE DEF NoLater
    <3> QED BY <2>1, <3>1, FS_Subset
  <2>5. place[e] \in 1..N /\ place[f] \in 1..N BY <1>2
  <2> QED BY <1>1, <2>3, <2>4, <2>5
<1>4. place \in [S -> 1..N] BY <1>2
<1>5. \A e, f \in S : place[e] = place[f] => e = f
  <2> SUFFICES ASSUME NEW e \in S, NEW f \in S, place[e] = place[f] PROVE e = f
    OBVIOUS
  <2> HIDE DEF place
  <2>1. place[e] \in 1..N /\ place[f] \in 1..N BY <1>2
  <2>2. ~(e.n < f.n) BY <1>1, <1>3, <2>1
  <2>3. ~(f.n < e.n) BY <1>1, <1>3, <2>1
  <2>4. e.n = f.n BY <2>2, <2>3
  <2> QED BY <2>4
<1> HIDE DEF place
<1>6. \A i \in 1..N : \E e \in S : place[e] = i BY <1>4, <1>5, InjectionIsOnto
<1> DEFINE es == [i \in 1..N |-> CHOOSE e \in S : place[e] = i]
<1>7. ASSUME NEW i \in 1..N PROVE es[i] \in S /\ place[es[i]] = i BY <1>6
<1>8. es \in [1..N -> S] BY <1>7
<1> HIDE DEF es
<1>9. ASSUME NEW i \in 1..N, NEW j \in 1..N, i < j PROVE es[i].n < es[j].n
  <2>1. place[es[i]] = i /\ place[es[j]] = j /\ es[i] \in S /\ es[j] \in S BY <1>7
  <2>2. ~(es[j].n < es[i].n) BY <1>1, <1>3, <1>9, <2>1
  <2>3. es[i].n # es[j].n BY <1>9, <2>1
  <2> QED BY <2>1, <2>2, <2>3
<1>10. \A i, j \in DOMAIN es : i < j => es[i].n < es[j].n BY <1>8, <1>9
<1> QED BY <1>8, <1>10 DEF OldestFirst

LEMMA QueueListed ==
  ASSUME QueueInv, NEW d \in Device
  PROVE  /\ OldestFirst(Queue(d)) \in Seq(written)
         /\ \A i \in DOMAIN OldestFirst(Queue(d)) : OldestFirst(Queue(d))[i] \in Queue(d)
<1> DEFINE S == Queue(d)
           q == OldestFirst(S)
<1>1. S \subseteq written BY DEF Queue, Pending, QueueInv, QueueTypes
<1>2. IsFiniteSet(S) BY <1>1, FS_Subset DEF QueueInv, QueueTypes
<1>3. /\ \A e \in S : e.n \in Nat
      /\ \A e, f \in S : e.n = f.n => e = f
  BY <1>1 DEF QueueInv, WrittenOps, QueueTypes
<1> HIDE DEF S
<1>4. q \in [1..Cardinality(S) -> S] BY <1>2, <1>3, OldestFirstExists
<1> HIDE DEF q
<1>5. Cardinality(S) \in Nat BY <1>2, FS_CardinalityType
<1>6. q \in [1..Cardinality(S) -> written] BY <1>1, <1>4
<1>7. q \in Seq(written)  BY <1>5, <1>6
<1>8. \A i \in DOMAIN q : q[i] \in S BY <1>4
<1> QED BY <1>7, <1>8 DEF S, q

\* A local write makes an op of its own, later than every other.
LEMMA EnqueueQueueInv ==
  ASSUME QueueInv, NEW d \in Device, LocalWrite(d)
  PROVE  /\ QueueInv'
         /\ \E o \in written' :
              /\ written' = written \cup {o} /\ o.n = clock + 1 /\ o.dev = d /\ o \notin written
              /\ o = [dev |-> d, kind |-> o.kind, key |-> o.key, n |-> clock + 1]
<1>1. PICK kind, k :
        /\ Enqueue(d, kind, k)
        /\ \/ kind = "mark" /\ k \in Mark
           \/ kind = "keep" /\ k \in Kept /\ \A p \in written : p.key # k
           \/ kind = "forget" /\ k \in Kept
           \/ kind = "put" /\ k \in Prefs \cup Position
  BY DEF LocalWrite, MarkUnderstood, Keep, Forget, Put
<1> DEFINE o == [dev |-> d, kind |-> kind, key |-> k, n |-> clock + 1]
<1>2. /\ clock' = clock + 1 /\ written' = written \cup {o}
      /\ outbox' = [outbox EXCEPT ![d] =
           [p \in DOMAIN @ \cup {o} |-> IF p = o THEN Fresh ELSE @[p]]]
      /\ UNCHANGED <<phase, sent, request, said, orphan, opLog, charged>>
  BY <1>1 DEF Enqueue, serverVars
<1>3. o.dev = d /\ o.kind = kind /\ o.key = k /\ o.n = clock + 1 OBVIOUS
<1>4. clock \in Nat /\ \A p \in written : p.n \in 1..clock
  BY DEF QueueInv, QueueTypes, WrittenOps
<1> HIDE DEF o
<1>5. o \notin written BY <1>3, <1>4
<1>6. WrittenOps'
  <2>1. \A p \in written' :
       /\ p.dev \in Device /\ p.n \in 1..clock'
       /\ \/ p.kind = "mark" /\ p.key \in Mark
          \/ p.kind \in {"keep", "forget"} /\ p.key \in Kept
          \/ p.kind = "put" /\ p.key \in Prefs \cup Position
    BY <1>1, <1>2, <1>3, <1>4 DEF QueueInv, WrittenOps
  <2>2. ASSUME NEW p \in written', NEW q \in written', p.n = q.n PROVE p = q
    <3>1. p \in written /\ q \in written => p = q BY <2>2 DEF QueueInv, WrittenOps
    <3>2. p = o /\ q \in written => FALSE BY <1>3, <1>4, <2>2
    <3>3. q = o /\ p \in written => FALSE BY <1>3, <1>4, <2>2
    <3> QED BY <1>2, <3>1, <3>2, <3>3
  <2>3. ASSUME NEW p \in written', NEW q \in written',
               p.kind = "keep", q.key = p.key, q # p
        PROVE  q.kind = "forget" /\ p.n < q.n
    <3>1. CASE p \in written /\ q \in written BY <2>3, <3>1 DEF QueueInv, WrittenOps
    <3>2. CASE p = o BY <1>1, <1>2, <1>3, <2>3, <3>2
    <3>3. CASE p \in written /\ q = o
      <4>1. p.key \in Kept BY <2>3, <3>3 DEF QueueInv, WrittenOps
      <4>2. kind = "forget" BY <1>1, <1>3, <2>3, <3>3, <4>1, KeysApart
      <4> QED BY <1>3, <1>4, <3>3, <4>2
    <3> QED BY <1>2, <3>1, <3>2, <3>3
  <2> QED BY <2>1, <2>2, <2>3 DEF WrittenOps
<1>7. QueueTypes'
  <2>1. IsFiniteSet(written') BY <1>2, FS_AddElement DEF QueueInv, QueueTypes
  <2>2. /\ outbox' = [c \in Device |-> outbox'[c]]
        /\ \A c \in Device \ {d} : outbox'[c] = outbox[c]
        /\ outbox'[d] = [p \in DOMAIN outbox[d] \cup {o} |-> IF p = o THEN Fresh ELSE outbox[d][p]]
    BY <1>2 DEF QueueInv, QueueTypes
  <2>3. Fresh \in Entry BY DEF Fresh, Entry
  <2>4. \A c \in Device : outbox'[c] \in [DOMAIN outbox'[c] -> Entry]
    <3>1. \A c \in Device \ {d} : outbox'[c] \in [DOMAIN outbox'[c] -> Entry]
      BY <2>2 DEF QueueInv, QueueTypes
    <3>2. outbox[d] \in [DOMAIN outbox[d] -> Entry] BY DEF QueueInv, QueueTypes
    <3>3. outbox'[d] \in [DOMAIN outbox'[d] -> Entry] BY <2>2, <2>3, <3>2
    <3> QED BY <3>1, <3>3
  <2>5. \A c \in Device : \A p \in DOMAIN outbox'[c] : p \in written' /\ p.dev = c
    BY <1>2, <1>3, <2>2 DEF QueueInv, QueueTypes
  <2>6. clock' \in Nat /\ written \subseteq written' BY <1>2 DEF QueueInv, QueueTypes
  <2>7. /\ sent' \in [Device -> SUBSET written'] /\ charged' \in [Device -> SUBSET written']
        /\ said' \in [Device -> SUBSET (written' \X Status)]
    BY <1>2, <2>6 DEF QueueInv, QueueTypes
  <2>8. Seq(written) \subseteq Seq(written') BY <2>6
  <2>9. request' \in [Device -> Seq(written')] /\ orphan' \in [Device -> Seq(written')]
    BY <1>2, <2>8 DEF QueueInv, QueueTypes
  <2> QED BY <1>2, <2>1, <2>2, <2>4, <2>5, <2>6, <2>7, <2>9 DEF QueueInv, QueueTypes
<1>8. o = [dev |-> d, kind |-> o.kind, key |-> o.key, n |-> clock + 1] BY DEF o
<1> QED BY <1>2, <1>3, <1>5, <1>6, <1>7, <1>8 DEF QueueInv

\* A step that writes nothing.
LEMMA SameOps ==
  ASSUME QueueInv, UNCHANGED <<clock, written>>, QueueTypes'
  PROVE  QueueInv'
BY DEF QueueInv, WrittenOps

\* The reader deals with an entry of the queue, or its time has come.
LEMMA EntryQueueInv ==
  ASSUME QueueInv, NEW d \in Device, NEW o \in DOMAIN outbox[d],
         Retry(d, o) \/ Discard(d, o) \/ BackoffOver(d, o)
  PROVE  QueueInv'
<1>1. UNCHANGED <<clock, written, opLog, phase, sent, charged, said, request, orphan>>
  BY DEF Retry, Discard, BackoffOver, serverVars, readerVars
<1>2. /\ outbox' = [c \in Device |-> outbox'[c]]
      /\ \A c \in Device \ {d} : outbox'[c] = outbox[c]
      /\ outbox'[d] \in [DOMAIN outbox'[d] -> Entry]
      /\ DOMAIN outbox'[d] \subseteq DOMAIN outbox[d]
  <2>1. outbox = [c \in Device |-> outbox[c]] /\ outbox[d] \in [DOMAIN outbox[d] -> Entry]
    BY DEF QueueInv, QueueTypes
  <2>2. CASE Retry(d, o)
    <3>1. outbox' = [outbox EXCEPT ![d][o] = Fresh] BY <2>2 DEF Retry
    <3>2. Fresh \in Entry BY DEF Fresh, Entry
    <3> QED BY <2>1, <3>1, <3>2
  <2>3. CASE Discard(d, o)
    <3>1. outbox' = [outbox EXCEPT ![d] = [p \in DOMAIN outbox[d] \ {o} |-> outbox[d][p]]]
      BY <2>1, <2>3 DEF Discard, Without
    <3> QED BY <2>1, <3>1
  <2>4. CASE BackoffOver(d, o)
    <3>1. outbox' = [outbox EXCEPT ![d][o] = [outbox[d][o] EXCEPT !.waits = FALSE]]
      BY <2>1, <2>4 DEF BackoffOver
    <3>2. [outbox[d][o] EXCEPT !.waits = FALSE] \in Entry BY <2>1 DEF Entry
    <3> QED BY <2>1, <3>1, <3>2
  <2> QED BY <2>2, <2>3, <2>4
<1>3. QueueTypes' BY <1>1, <1>2 DEF QueueInv, QueueTypes
<1> QED BY <1>1, <1>3, SameOps

\* What the answers leave of the queue.
LEMMA SettleQueueInv ==
  ASSUME QueueInv, NEW d \in Device, Settle(d)
  PROVE  /\ QueueInv'
         /\ DOMAIN outbox'[d] = DOMAIN outbox[d] \ Landed(d)
         /\ \A o \in DOMAIN outbox'[d] : outbox'[d][o] = SettledEntry(d, o)
         /\ \A c \in Device \ {d} : outbox'[c] = outbox[c]
<1>1. UNCHANGED <<clock, written, opLog, sent, request, orphan>>
  BY DEF Settle, serverVars, readerVars
<1>2. /\ outbox' = [c \in Device |-> outbox'[c]]
      /\ \A c \in Device \ {d} : outbox'[c] = outbox[c]
      /\ outbox'[d] = [o \in DOMAIN outbox[d] \ Landed(d) |-> SettledEntry(d, o)]
  BY DEF Settle, QueueInv, QueueTypes
<1>3. \A o \in DOMAIN outbox[d] : SettledEntry(d, o) \in Entry
  <2> SUFFICES ASSUME NEW o \in DOMAIN outbox[d] PROVE SettledEntry(d, o) \in Entry OBVIOUS
  <2> DEFINE e == outbox[d][o]
  <2>1. e \in Entry BY DEF QueueInv, QueueTypes
  <2>2. maxAttempts \in Nat BY SyncAssumption DEF SyncAssumption
  <2>3. /\ [e EXCEPT !.dead = TRUE] \in Entry
        /\ [attempts |-> e.attempts + 1, waits |-> TRUE,
            dead |-> e.dead \/ e.attempts + 1 >= maxAttempts] \in Entry
    <3> DEFINE spent == e.dead \/ e.attempts + 1 >= maxAttempts
    <3> HIDE DEF e
    <3>1. spent \in BOOLEAN OBVIOUS
    <3> HIDE DEF spent
    <3>2. [e EXCEPT !.dead = TRUE] \in Entry BY <2>1 DEF Entry
    <3>3. e.attempts \in Nat BY <2>1 DEF Entry
    <3>4. [attempts |-> e.attempts + 1, waits |-> TRUE, dead |-> spent] \in Entry
      BY <3>1, <3>3 DEF Entry
    <3> QED BY <3>2, <3>4 DEF spent
  <2> HIDE DEF Entry
  <2> QED BY <2>1, <2>3 DEF SettledEntry
<1>4. /\ outbox'[d] \in [DOMAIN outbox'[d] -> Entry] /\ DOMAIN outbox'[d] \subseteq DOMAIN outbox[d]
  BY <1>2, <1>3
<1>5. Told(d, "failed") \subseteq written BY DEF Told, QueueInv, QueueTypes
<1>6. charged' \in [Device -> SUBSET written] /\ said' \in [Device -> SUBSET (written \X Status)]
  BY <1>5 DEF Settle, QueueInv, QueueTypes
<1>7. phase' \in [Device -> {"idle", "push", "wait", "got", "applied"}]
  BY DEF Settle, QueueInv, QueueTypes
<1>8. QueueTypes' BY <1>1, <1>2, <1>4, <1>6, <1>7 DEF QueueInv, QueueTypes
<1> QED BY <1>1, <1>2, <1>8, SameOps

LEMMA FlushQueueInv ==
  ASSUME QueueInv, NEW d \in Device,
         \/ StartFlush(d) \/ Push(d) \/ Pull(d) \/ Apply(d) \/ SaveCursor(d) \/ GiveUp(d)
  PROVE  QueueInv'
<1>1. UNCHANGED <<clock, written, opLog, outbox>>
  BY DEF StartFlush, Push, Pull, Apply, SaveCursor, GiveUp, serverVars, readerVars
<1>2. <<>> \in Seq(written) OBVIOUS
<1>3. phase' \in [Device -> {"idle", "push", "wait", "got", "applied"}]
  <2>1. \E where \in {"idle", "push", "wait", "got", "applied"} :
          phase' = [phase EXCEPT ![d] = where]
    BY DEF StartFlush, Push, Pull, Apply, SaveCursor, GiveUp, EndFlush
  <2>2. phase \in [Device -> {"idle", "push", "wait", "got", "applied"}]
    BY DEF QueueInv, QueueTypes
  <2> QED BY <2>1, <2>2
<1>4. sent' \in [Device -> SUBSET written] /\ charged' \in [Device -> SUBSET written]
  <2>1. CASE Push(d)
    <3>1. Queue(d) \subseteq written BY DEF Queue, Pending, QueueInv, QueueTypes
    <3>2. sent' = [sent EXCEPT ![d] = @ \cup Queue(d)] /\ charged' = charged
      BY <2>1 DEF Push
    <3> QED BY <3>1, <3>2 DEF QueueInv, QueueTypes
  <2>2. CASE StartFlush(d) \/ Pull(d) \/ Apply(d)
    BY <2>2 DEF StartFlush, Pull, Apply, QueueInv, QueueTypes
  <2>3. CASE SaveCursor(d) \/ GiveUp(d)
    BY <2>3 DEF SaveCursor, GiveUp, EndFlush, QueueInv, QueueTypes
  <2> QED BY <2>1, <2>2, <2>3
<1>5. said' \in [Device -> SUBSET (written \X Status)]
  <2>1. said' = said \/ said' = [said EXCEPT ![d] = {}]
    BY DEF StartFlush, Push, Pull, Apply, SaveCursor, GiveUp, EndFlush
  <2>2. said \in [Device -> SUBSET (written \X Status)] BY DEF QueueInv, QueueTypes
  <2> QED BY <2>1, <2>2
<1>6. request' \in [Device -> Seq(written)]
  <2>1. CASE Push(d)
    <3>1. OldestFirst(Queue(d)) \in Seq(written) BY QueueListed
    <3> QED BY <2>1, <3>1 DEF Push, QueueInv, QueueTypes
  <2>2. CASE StartFlush(d) \/ Pull(d) \/ Apply(d)
    BY <2>2 DEF StartFlush, Pull, Apply, QueueInv, QueueTypes
  <2>3. CASE SaveCursor(d) \/ GiveUp(d)
    BY <1>2, <2>3 DEF SaveCursor, GiveUp, EndFlush, QueueInv, QueueTypes
  <2> QED BY <2>1, <2>2, <2>3
<1>7. orphan' \in [Device -> Seq(written)]
  <2>1. /\ orphan \in [Device -> Seq(written)]
        /\ orphan[d] \in Seq(written) /\ request[d] \in Seq(written)
    BY DEF QueueInv, QueueTypes
  <2>2. CASE GiveUp(d)
    <3>1. PICK s \in {<<>>, orphan[d], request[d]} : orphan' = [orphan EXCEPT ![d] = s]
      BY <2>2 DEF GiveUp
    <3>2. s \in Seq(written) BY <1>2, <2>1, <3>1
    <3> QED BY <2>1, <3>1, <3>2
  <2>3. CASE ~GiveUp(d)
    <3>1. orphan' = orphan BY <2>3 DEF StartFlush, Push, Pull, Apply, SaveCursor
    <3> QED BY <2>1, <3>1
  <2> QED BY <2>2, <2>3
<1>8. QueueTypes' BY <1>1, <1>3, <1>4, <1>5, <1>6, <1>7 DEF QueueInv, QueueTypes
<1> QED BY <1>1, <1>8, SameOps

\* The op served is the first of the request, and one that was written.
LEMMA ServeQueueInv ==
  ASSUME QueueInv, NEW d \in Device, Serve(d) \/ ServeOrphan(d)
  PROVE  QueueInv' /\ \E o \in written, status \in Status : Outcome(o, status)
<1>1. UNCHANGED <<clock, written, outbox, phase, sent, charged>>
  BY DEF Serve, ServeOrphan, readerVars
<1>2. CASE Serve(d)
  <2> DEFINE o == Head(request[d])
  <2>1. request[d] \in Seq(written) /\ request[d] # <<>>
    BY <1>2 DEF Serve, QueueInv, QueueTypes
  <2>2. o \in written /\ Tail(request[d]) \in Seq(written) BY <2>1
  <2> HIDE DEF o
  <2>3. PICK status \in Status :
          Outcome(o, status) /\ said' = [said EXCEPT ![d] = @ \cup {<<o, status>>}]
    BY <1>2 DEF Serve, o
  <2>4. said' \in [Device -> SUBSET (written \X Status)]
    BY <2>2, <2>3 DEF QueueInv, QueueTypes
  <2>5. request' \in [Device -> Seq(written)] /\ orphan' = orphan
    BY <1>2, <2>2 DEF Serve, QueueInv, QueueTypes
  <2>6. opLog' \subseteq written
    BY <2>2, <2>3 DEF Outcome, Land, serverVars, QueueInv, QueueTypes
  <2>7. QueueTypes' BY <1>1, <2>4, <2>5, <2>6 DEF QueueInv, QueueTypes
  <2> QED BY <1>1, <2>2, <2>3, <2>7, SameOps
<1>3. CASE ServeOrphan(d)
  <2> DEFINE o == Head(orphan[d])
  <2>1. orphan[d] \in Seq(written) /\ orphan[d] # <<>>
    BY <1>3 DEF ServeOrphan, QueueInv, QueueTypes
  <2>2. o \in written /\ Tail(orphan[d]) \in Seq(written) BY <2>1
  <2> HIDE DEF o
  <2>3. PICK status \in Status : Outcome(o, status) BY <1>3 DEF ServeOrphan, o
  <2>5. orphan' \in [Device -> Seq(written)] /\ UNCHANGED <<request, said>>
    BY <1>3, <2>2 DEF ServeOrphan, QueueInv, QueueTypes
  <2>6. opLog' \subseteq written
    BY <2>2, <2>3 DEF Outcome, Land, serverVars, QueueInv, QueueTypes
  <2>7. QueueTypes' BY <1>1, <2>5, <2>6 DEF QueueInv, QueueTypes
  <2> QED BY <1>1, <2>2, <2>3, <2>7, SameOps
<1> QED BY <1>2, <1>3

LEMMA NextQueueInv == QueueInv /\ [Next]_vars => QueueInv'
<1> SUFFICES ASSUME QueueInv, [Next]_vars PROVE QueueInv' OBVIOUS
<1>1. CASE UNCHANGED vars BY <1>1 DEF vars, QueueInv, QueueTypes, WrittenOps
<1>2. CASE \E d \in Device : LocalWrite(d) BY <1>2, EnqueueQueueInv
<1>3. CASE \E d \in Device : FlushStep(d) \/ GiveUp(d)
  BY <1>3, FlushQueueInv, SettleQueueInv DEF FlushStep
<1>4. CASE \E d \in Device : Serve(d) \/ ServeOrphan(d) BY <1>4, ServeQueueInv
<1>5. CASE \E d \in Device : \E o \in DOMAIN outbox[d] :
             Retry(d, o) \/ Discard(d, o) \/ BackoffOver(d, o)
  BY <1>5, EntryQueueInv
<1> QED BY <1>1, <1>2, <1>3, <1>4, <1>5 DEF Next

(***************************************************************************)
(* One attempt in a flush.                                                 *)
(***************************************************************************)
Asked(d) == {request[d][i] : i \in DOMAIN request[d]} \cup {v[1] : v \in said[d]}

\* What has been charged was sent in this flush, and is not asked for again.
ChargedOnce ==
  \A d \in Device :
    /\ charged[d] \subseteq sent[d]
    /\ Asked(d) \subseteq sent[d]
    /\ charged[d] \cap Asked(d) = {}

AttemptInv == QueueInv /\ ChargedOnce

\* Only an answer costs an op an attempt.
LEMMA AttemptsStay ==
  ASSUME QueueInv, [Next]_vars, NEW c \in Device, ~Settle(c),
         NEW o \in DOMAIN outbox[c], o \in DOMAIN outbox'[c]
  PROVE  outbox'[c][o].attempts <= outbox[c][o].attempts
<1>0. outbox[c][o] \in Entry BY DEF QueueInv, QueueTypes
<1>1. outbox[c][o].attempts \in Nat BY <1>0 DEF Entry
<1>2. CASE outbox'[c] = outbox[c] BY <1>1, <1>2
<1>3. CASE UNCHANGED vars BY <1>2, <1>3 DEF vars
<1>4. ASSUME NEW d \in Device, LocalWrite(d)
      PROVE  outbox'[c][o].attempts <= outbox[c][o].attempts
  <2>1. PICK kind, k : Enqueue(d, kind, k)
    BY <1>4 DEF LocalWrite, MarkUnderstood, Keep, Forget, Put
  <2>2. \E p : outbox' = [outbox EXCEPT ![d] =
           [q \in DOMAIN @ \cup {p} |-> IF q = p THEN Fresh ELSE @[q]]]
    BY <2>1 DEF Enqueue
  <2>3. outbox'[c][o] \in {outbox[c][o], Fresh}
    BY <2>2 DEF QueueInv, QueueTypes
  <2> QED BY <1>1, <2>3 DEF Fresh
<1>5. ASSUME NEW d \in Device, FlushStep(d) \/ GiveUp(d)
      PROVE  outbox'[c][o].attempts <= outbox[c][o].attempts
  <2>1. CASE Settle(d)
    <3>1. c # d BY <2>1
    <3>2. outbox'[c] = outbox[c] BY <2>1, <3>1, SettleQueueInv
    <3> QED BY <1>1, <3>2
  <2>2. CASE outbox' = outbox BY <1>1, <2>2
  <2> QED
    BY <1>5, <2>1, <2>2 DEF FlushStep, StartFlush, Push, Pull, Apply, SaveCursor, GiveUp
<1>6. ASSUME NEW d \in Device, Serve(d) \/ ServeOrphan(d)
      PROVE  outbox'[c][o].attempts <= outbox[c][o].attempts
  BY <1>1, <1>6 DEF Serve, ServeOrphan
<1>7. ASSUME NEW d \in Device, NEW p \in DOMAIN outbox[d],
             Retry(d, p) \/ Discard(d, p) \/ BackoffOver(d, p)
      PROVE  outbox'[c][o].attempts <= outbox[c][o].attempts
  <2>1. CASE Retry(d, p)
    <3>1. outbox'[c][o] \in {outbox[c][o], Fresh}
      BY <2>1 DEF Retry, QueueInv, QueueTypes
    <3> QED BY <1>1, <3>1 DEF Fresh
  <2>2. CASE Discard(d, p)
    <3>1. outbox'[c][o] = outbox[c][o] BY <2>2 DEF Discard, Without, QueueInv, QueueTypes
    <3> QED BY <1>1, <3>1
  <2>3. CASE BackoffOver(d, p)
    <3>1. outbox'[c][o] \in {outbox[c][o], [outbox[d][p] EXCEPT !.waits = FALSE]}
          /\ (outbox'[c][o] # outbox[c][o] => c = d /\ o = p)
      BY <2>3 DEF BackoffOver, QueueInv, QueueTypes
    <3>2. [outbox[c][o] EXCEPT !.waits = FALSE].attempts = outbox[c][o].attempts
      BY <1>0 DEF Entry
    <3>3. CASE c = d /\ o = p
      <4>1. outbox'[c][o] \in {outbox[c][o], [outbox[c][o] EXCEPT !.waits = FALSE]}
        BY <3>1, <3>3
      <4>2. CASE outbox'[c][o] = outbox[c][o] BY <1>1, <4>2
      <4>3. CASE outbox'[c][o] = [outbox[c][o] EXCEPT !.waits = FALSE]
        BY <1>1, <3>2, <4>3
      <4> QED BY <4>1, <4>2, <4>3
    <3>4. CASE outbox'[c][o] = outbox[c][o] BY <1>1, <3>4
    <3> QED BY <3>1, <3>3, <3>4
  <2> QED BY <1>7, <2>1, <2>2, <2>3
<1> QED BY <1>3, <1>4, <1>5, <1>6, <1>7 DEF Next

LEMMA NextChargedOnce == AttemptInv /\ [Next]_vars => AttemptInv'
<1> SUFFICES ASSUME AttemptInv, [Next]_vars PROVE ChargedOnce'
  BY NextQueueInv DEF AttemptInv
<1> USE DEF AttemptInv
<1>0. /\ sent \in [Device -> SUBSET written] /\ charged \in [Device -> SUBSET written]
      /\ said \in [Device -> SUBSET (written \X Status)]
      /\ request \in [Device -> Seq(written)]
  BY DEF QueueInv, QueueTypes
<1>1. CASE UNCHANGED <<sent, charged, said, request>> BY <1>1 DEF ChargedOnce, Asked
<1>2. ASSUME NEW d \in Device, Push(d) PROVE ChargedOnce'
  <2> DEFINE q == OldestFirst(Queue(d))
  <2>1. q \in Seq(written) /\ \A i \in DOMAIN q : q[i] \in Queue(d) BY QueueListed
  <2>2. /\ sent' = [sent EXCEPT ![d] = sent[d] \cup Queue(d)] /\ charged' = charged
        /\ request' = [request EXCEPT ![d] = q] /\ said' = [said EXCEPT ![d] = {}]
    BY <1>2 DEF Push
  <2>3. Queue(d) \cap sent[d] = {} BY DEF Queue
  <2> HIDE DEF q
  <2> SUFFICES ASSUME NEW c \in Device
               PROVE  /\ charged'[c] \subseteq sent'[c]
                      /\ Asked(c)' \subseteq sent'[c]
                      /\ charged'[c] \cap Asked(c)' = {}
    BY DEF ChargedOnce
  <2>4. CASE c = d
    <3>1. Asked(c)' \subseteq Queue(d) BY <1>0, <2>1, <2>2, <2>4 DEF Asked
    <3>2. sent'[c] = sent[d] \cup Queue(d) /\ charged'[c] = charged[d] BY <1>0, <2>2, <2>4
    <3>3. charged[d] \subseteq sent[d] BY DEF ChargedOnce
    <3> QED BY <2>3, <3>1, <3>2, <3>3
  <2>5. CASE c # d
    <3>1. /\ sent'[c] = sent[c] /\ charged'[c] = charged[c]
          /\ request'[c] = request[c] /\ said'[c] = said[c]
      BY <1>0, <2>2, <2>5
    <3> QED BY <3>1 DEF ChargedOnce, Asked
  <2> QED BY <2>4, <2>5
<1>3. ASSUME NEW d \in Device, Settle(d) PROVE ChargedOnce'
  <2>1. /\ UNCHANGED <<sent, request>> /\ request[d] = <<>>
        /\ charged' = [charged EXCEPT ![d] = charged[d] \cup Told(d, "failed")]
        /\ said' = [said EXCEPT ![d] = {}]
    BY <1>3 DEF Settle
  <2> SUFFICES ASSUME NEW c \in Device
               PROVE  /\ charged'[c] \subseteq sent'[c]
                      /\ Asked(c)' \subseteq sent'[c]
                      /\ charged'[c] \cap Asked(c)' = {}
    BY DEF ChargedOnce
  <2>2. CASE c = d
    <3>1. Asked(c)' = {} BY <1>0, <2>1, <2>2 DEF Asked
    <3>2. Told(d, "failed") \subseteq Asked(d) BY DEF Told, Asked
    <3>3. charged'[c] = charged[d] \cup Told(d, "failed") /\ sent'[c] = sent[d]
      BY <1>0, <2>1, <2>2
    <3>4. charged[d] \subseteq sent[d] /\ Asked(d) \subseteq sent[d] BY DEF ChargedOnce
    <3> QED BY <3>1, <3>2, <3>3, <3>4
  <2>3. CASE c # d
    <3>1. /\ sent'[c] = sent[c] /\ charged'[c] = charged[c]
          /\ request'[c] = request[c] /\ said'[c] = said[c]
      BY <1>0, <2>1, <2>3
    <3> QED BY <3>1 DEF ChargedOnce, Asked
  <2> QED BY <2>2, <2>3
<1>4. ASSUME NEW d \in Device, SaveCursor(d) \/ GiveUp(d) PROVE ChargedOnce'
  <2>1. EndFlush(d) BY <1>4 DEF SaveCursor, GiveUp
  <2>2. /\ sent' = [sent EXCEPT ![d] = {}] /\ charged' = [charged EXCEPT ![d] = {}]
        /\ request' = [request EXCEPT ![d] = <<>>] /\ said' = [said EXCEPT ![d] = {}]
    BY <2>1 DEF EndFlush
  <2> SUFFICES ASSUME NEW c \in Device
               PROVE  /\ charged'[c] \subseteq sent'[c]
                      /\ Asked(c)' \subseteq sent'[c]
                      /\ charged'[c] \cap Asked(c)' = {}
    BY DEF ChargedOnce
  <2>3. CASE c = d BY <1>0, <2>2, <2>3 DEF Asked
  <2>4. CASE c # d
    <3>1. /\ sent'[c] = sent[c] /\ charged'[c] = charged[c]
          /\ request'[c] = request[c] /\ said'[c] = said[c]
      BY <1>0, <2>2, <2>4
    <3> QED BY <3>1 DEF ChargedOnce, Asked
  <2> QED BY <2>3, <2>4
<1>5. ASSUME NEW d \in Device, Serve(d) PROVE ChargedOnce'
  <2> DEFINE o == Head(request[d])
             left == Tail(request[d])
  <2>1. PICK status : said' = [said EXCEPT ![d] = said[d] \cup {<<o, status>>}]
    BY <1>5 DEF Serve
  <2>2. request' = [request EXCEPT ![d] = left] /\ UNCHANGED <<sent, charged>>
    BY <1>5 DEF Serve
  <2>3. /\ request[d] \in Seq(written) /\ request[d] # <<>>
        /\ o = request[d][1] /\ 1 \in DOMAIN request[d]
        /\ \A i \in DOMAIN left : i + 1 \in DOMAIN request[d] /\ left[i] = request[d][i + 1]
    BY <1>0, <1>5 DEF Serve
  <2> HIDE DEF o, left
  <2>4. \A c \in Device : Asked(c)' \subseteq Asked(c)
    <3> SUFFICES ASSUME NEW c \in Device PROVE Asked(c)' \subseteq Asked(c) OBVIOUS
    <3>1. CASE c = d
      <4>1. request'[c] = left /\ said'[c] = said[d] \cup {<<o, status>>}
        BY <1>0, <2>1, <2>2, <3>1
      <4> QED BY <2>3, <3>1, <4>1 DEF Asked
    <3>2. CASE c # d
      <4>1. request'[c] = request[c] /\ said'[c] = said[c] BY <1>0, <2>1, <2>2, <3>2
      <4> QED BY <4>1 DEF Asked
    <3> QED BY <3>1, <3>2
  <2>5. \A c \in Device : Asked(c)' \subseteq sent[c] /\ charged[c] \subseteq sent[c]
                          /\ charged[c] \cap Asked(c)' = {}
    BY <2>4 DEF ChargedOnce
  <2> QED BY <2>2, <2>5 DEF ChargedOnce
<1>6. ASSUME NEW d \in Device,
             \/ LocalWrite(d) \/ ServeOrphan(d) \/ StartFlush(d) \/ Pull(d) \/ Apply(d)
             \/ \E o \in DOMAIN outbox[d] : Retry(d, o) \/ Discard(d, o) \/ BackoffOver(d, o)
      PROVE  UNCHANGED <<sent, charged, said, request>>
  BY <1>6 DEF LocalWrite, MarkUnderstood, Keep, Forget, Put, Enqueue, ServeOrphan,
    StartFlush, Pull, Apply, Retry, Discard, BackoffOver
<1>7. CASE UNCHANGED vars BY <1>1, <1>7 DEF vars
<1> QED BY <1>1, <1>2, <1>3, <1>4, <1>5, <1>6, <1>7 DEF Next, FlushStep

\* An op spends at most one of its attempts in a flush: what was charged in it
\* was sent in it, and what was sent is neither asked nor answered for again.
THEOREM OneAttempt == Spec => OneAttemptPerFlush
<1>1. Init => AttemptInv
  <2> SUFFICES ASSUME Init PROVE ChargedOnce BY InitQueueInv DEF AttemptInv
  <2> QED BY DEF Init, ChargedOnce, Asked
<1>2. ASSUME AttemptInv, [Next]_vars
      PROVE  [\A d \in Device : phase[d] # "idle" =>
                \A o \in Ops(d) \cap charged[d] :
                  o \in DOMAIN outbox'[d] => outbox'[d][o].attempts <= outbox[d][o].attempts]_vars
  <2> SUFFICES ASSUME NEW d \in Device, NEW o \in Ops(d), o \in charged[d], o \in DOMAIN outbox'[d]
               PROVE  outbox'[d][o].attempts <= outbox[d][o].attempts
    OBVIOUS
  <2>1. QueueInv /\ ChargedOnce BY <1>2 DEF AttemptInv
  <2>2. CASE Settle(d)
    <3>1. outbox'[d][o] = SettledEntry(d, o) BY <2>1, <2>2, SettleQueueInv
    <3>2. o \notin Told(d, "failed") BY <2>1 DEF ChargedOnce, Told, Asked
    <3>3. outbox[d][o] \in Entry BY <2>1 DEF QueueInv, QueueTypes, Ops
    <3>4. outbox[d][o].attempts \in Nat BY <3>3 DEF Entry
    <3>5. [outbox[d][o] EXCEPT !.dead = TRUE].attempts = outbox[d][o].attempts
      BY <3>3 DEF Entry
    <3>6. \/ outbox'[d][o] = outbox[d][o]
          \/ outbox'[d][o] = [outbox[d][o] EXCEPT !.dead = TRUE]
      BY <3>1, <3>2 DEF SettledEntry
    <3>7. outbox'[d][o].attempts = outbox[d][o].attempts BY <3>5, <3>6
    <3> QED BY <3>4, <3>7
  <2>3. CASE ~Settle(d) BY <1>2, <2>1, <2>3, AttemptsStay DEF Ops
  <2> QED BY <2>2, <2>3
<1>3. AttemptInv /\ [Next]_vars => AttemptInv' BY NextChargedOnce
<1> QED BY <1>1, <1>2, <1>3, PTL DEF Spec, OneAttemptPerFlush

(***************************************************************************)
(* The rows, when the devices' clocks agree.                               *)
(***************************************************************************)
ClocksAgree == \A c, d \in Device : Skew[c] = Skew[d]

RowOf(o) == [at |-> At(o), by |-> o.dev, dead |-> FALSE]

\* A row, wherever it is, is what the ops written make of it: the tombstone of
\* an item is later than the item.
Explained(ops, k, r) ==
  \/ r = Absent
  \/ k \in Mark /\ r.at > 0
  \/ k \in Kept /\ \E o \in ops :
       /\ o.key = k /\ o.kind = "keep"
       /\ r.dead => r.at > At(o)
       /\ ~r.dead => r = RowOf(o)
  \/ k \in Prefs \cup Position /\ \E o \in ops : o.key = k /\ r = RowOf(o)

RowTypes ==
  /\ changeSeq \in Nat
  /\ local \in [Device -> [Key -> Row]]
  /\ server \in [Key -> [row : Row, seq : 0..changeSeq]]
  /\ cursor \in [Device -> 0..changeSeq]
  /\ upto \in [Device -> 0..changeSeq]
  /\ page = [d \in Device |-> page[d]]
  /\ \A d \in Device : DOMAIN page[d] \subseteq Key /\ page[d] \in [DOMAIN page[d] -> Row]

RowsExplained ==
  /\ \A k \in Key :
       /\ Explained(written, k, server[k].row)
       /\ server[k].seq = 0 <=> server[k].row = Absent
  /\ \A d \in Device : \A k \in Key : Explained(written, k, local[d][k])
  /\ \A d \in Device : \A k \in DOMAIN page[d] : Explained(written, k, page[d][k])

RowInv == QueueInv /\ RowTypes /\ RowsExplained

LEMMA AbsentIsRow == Absent \in Row /\ Absent.at = 0 /\ Absent.dead = FALSE
BY DEF Absent, Row

\* What the clock says of an op, when the clocks agree.
LEMMA InTime ==
  ASSUME ClocksAgree, QueueInv
  PROVE  /\ \A o \in written : At(o) \in Nat /\ At(o) > 0 /\ RowOf(o) \in Row
         /\ \A o, p \in written : o.n < p.n <=> At(o) < At(p)
         /\ \A o, p \in written : At(o) = At(p) => o = p
<1>1. \A o \in written : o.dev \in Device /\ o.n \in Nat /\ o.n > 0 /\ Skew[o.dev] \in Nat
  BY SyncAssumption DEF SyncAssumption, QueueInv, QueueTypes, WrittenOps
<1>2. \A o \in written : At(o) \in Nat /\ At(o) > 0 BY <1>1 DEF At
<1>3. \A o \in written : RowOf(o) \in Row BY <1>1, <1>2 DEF RowOf, Row
<1>4. ASSUME NEW o \in written, NEW p \in written
      PROVE  (o.n < p.n <=> At(o) < At(p)) /\ (At(o) = At(p) => o.n = p.n)
  <2>1. Skew[o.dev] = Skew[p.dev] BY <1>1 DEF ClocksAgree
  <2> QED BY <1>1, <2>1 DEF At
<1>5. \A o, p \in written : o.n = p.n => o = p BY DEF QueueInv, WrittenOps
<1> QED BY <1>2, <1>3, <1>4, <1>5

\* The item of a row is kept by one op, and any other on it comes later.
LEMMA OneKeep ==
  ASSUME ClocksAgree, QueueInv, NEW o \in written, NEW p \in written,
         o.kind = "keep", p.key = o.key
  PROVE  p = o \/ (p.kind = "forget" /\ At(o) < At(p))
BY InTime DEF QueueInv, WrittenOps

\* An upsert leaves a row's deleted_at alone.
LEMMA MovedRow ==
  ASSUME NEW row \in Row, NEW a, NEW b
  PROVE  [row EXCEPT !.at = a, !.by = b] = [at |-> a, by |-> b, dead |-> row.dead]
<1> DEFINE dated == [row EXCEPT !.at = a]
<1>1. [row EXCEPT !.at = a, !.by = b] = [dated EXCEPT !.by = b] OBVIOUS
<1>2. dated = [at |-> a, by |-> row.by, dead |-> row.dead] BY DEF Row
<1> HIDE DEF dated
<1>3. [dated EXCEPT !.by = b] = [at |-> a, by |-> b, dead |-> row.dead] BY <1>2
<1> QED BY <1>1, <1>3

\* The server's row, after an op it does not refuse.
LEMMA RowAfterExplained ==
  ASSUME ClocksAgree, QueueInv, NEW o \in written, NEW row \in Row,
         Explained(written, o.key, row), o.kind = "forget" => row # Absent
  PROVE  /\ RowAfter(o, row) \in Row /\ RowAfter(o, row) # Absent
         /\ Explained(written, o.key, RowAfter(o, row))
         /\ RowAfter(o, row).at >= row.at
         /\ row.dead => RowAfter(o, row).dead
         /\ o.kind = "forget" => RowAfter(o, row).dead
         /\ o.kind = "put" => RowAfter(o, row).at >= At(o)
<1> DEFINE k == o.key
           r == RowAfter(o, row)
<1>1. At(o) \in Nat /\ At(o) > 0 /\ RowOf(o) \in Row BY InTime
<1>2. /\ o.dev \in Device
      /\ \/ o.kind = "mark" /\ k \in Mark
         \/ o.kind \in {"keep", "forget"} /\ k \in Kept
         \/ o.kind = "put" /\ k \in Prefs \cup Position
  BY DEF QueueInv, WrittenOps
<1>3. row.at \in Nat /\ row.dead \in BOOLEAN /\ row.by \in Device \cup {NoDevice}
      /\ row = [at |-> row.at, by |-> row.by, dead |-> row.dead]
  BY DEF Row
<1>4. CASE o.kind = "forget"
  <2>1. PICK p \in written : /\ p.key = k /\ p.kind = "keep"
                             /\ row.dead => row.at > At(p)
                             /\ ~row.dead => row = RowOf(p)
    BY <1>2, <1>4, KeysApart DEF Explained
  <2>2. At(p) < At(o) /\ At(p) \in Nat BY <1>4, <2>1, OneKeep, InTime
  <2>3. row.at >= At(p) BY <1>3, <2>1, <2>2 DEF RowOf
  <2> DEFINE late == IF row.at < At(o) THEN At(o) ELSE row.at
  <2>4. late \in Nat /\ late > At(p) /\ late >= row.at
    BY <1>1, <1>3, <2>1, <2>2, <2>3
  <2> HIDE DEF late
  <2>5. r = [at |-> late, by |-> row.by, dead |-> TRUE]
    BY <1>3, <1>4 DEF RowAfter, late
  <2>6. r \in Row /\ r.at = late /\ r.dead = TRUE BY <1>3, <2>4, <2>5 DEF Row
  <2> HIDE DEF r
  <2>7. Explained(written, k, r) BY <1>2, <1>4, <2>1, <2>4, <2>6 DEF Explained
  <2> QED BY <1>4, <2>4, <2>6, <2>7, AbsentIsRow DEF r
<1>5. CASE o.kind = "mark"
  <2>1. r = IF row = Absent THEN RowOf(o) ELSE row BY <1>5 DEF RowAfter, RowOf
  <2>2. RowOf(o).at = At(o) BY DEF RowOf
  <2>3. RowOf(o) # Absent BY <1>1, <2>2, AbsentIsRow
  <2> HIDE DEF r
  <2>4. row = Absent => Explained(written, k, r)
    BY <1>1, <1>2, <1>5, <2>1, <2>2 DEF Explained
  <2>5. row # Absent => Explained(written, k, r) BY <2>1
  <2>6. r.at >= row.at /\ (row.dead => r.dead)
    BY <1>1, <1>3, <2>1, <2>2, AbsentIsRow
  <2> QED BY <1>1, <1>5, <2>1, <2>3, <2>4, <2>5, <2>6 DEF r
<1>6. CASE o.kind \in {"keep", "put"}
  <2>1. r = IF row.at < At(o) THEN [at |-> At(o), by |-> o.dev, dead |-> row.dead] ELSE row
    <3> DEFINE moved == [row EXCEPT !.at = At(o), !.by = o.dev]
    <3>1. moved = [at |-> At(o), by |-> o.dev, dead |-> row.dead]
      BY MovedRow, Zenon
    <3>2. r = IF row.at < At(o) THEN moved ELSE row BY <1>6 DEF RowAfter
    <3> HIDE DEF moved, r
    <3> QED BY <3>1, <3>2
  <2>2. row.at < At(o) => row.dead = FALSE
    <3>1. CASE o.kind = "put"
      BY <1>2, <3>1, KeysApart, AbsentIsRow DEF Explained, RowOf
    <3>2. CASE o.kind = "keep" /\ row # Absent
      <4>1. PICK p \in written : /\ p.key = k /\ p.kind = "keep"
                                 /\ row.dead => row.at > At(p)
                                 /\ ~row.dead => row = RowOf(p)
        BY <1>2, <3>2, KeysApart DEF Explained
      <4>2. p = o BY <3>2, <4>1, OneKeep
      <4> QED BY <1>1, <1>3, <4>1, <4>2
    <3> QED BY <1>6, <3>1, <3>2, AbsentIsRow
  <2>3. row.at < At(o) => r = RowOf(o) BY <2>1, <2>2 DEF RowOf
  <2>4. ~(row.at < At(o)) => r = row BY <2>1
  <2>5. RowOf(o).at = At(o) /\ RowOf(o).dead = FALSE BY DEF RowOf
  <2>6. Explained(written, k, RowOf(o)) BY <1>2, <1>6, <2>5 DEF Explained
  <2> HIDE DEF r
  <2>7. r \in Row /\ Explained(written, k, r) BY <1>1, <2>3, <2>4, <2>6
  <2>8. r.at >= row.at /\ r.at >= At(o) BY <1>1, <1>3, <2>3, <2>4, <2>5
  <2>9. r # Absent BY <1>1, <1>3, <2>8, AbsentIsRow
  <2>10. row.dead => r.dead BY <2>2, <2>3, <2>4
  <2> QED BY <1>6, <2>7, <2>8, <2>9, <2>10 DEF r
<1> QED BY <1>2, <1>4, <1>5, <1>6

LEMMA ExplainedStays ==
  ASSUME NEW W, NEW V, W \subseteq V, NEW k, NEW r, Explained(W, k, r)
  PROVE  Explained(V, k, r)
BY DEF Explained

\* What a local write does to the writer's own row.
LEMMA WriteStep ==
  ASSUME ClocksAgree, RowInv, NEW d \in Device, LocalWrite(d)
  PROVE  \E o \in written', r \in Row :
           /\ written' = written \cup {o} /\ o.dev = d /\ o.key \in Key
           /\ local' = [local EXCEPT ![d][o.key] = r]
           /\ r # Absent /\ Explained(written', o.key, r)
           /\ local[d][o.key].dead => r.dead
           /\ r.dead => o.kind = "forget" \/ local[d][o.key].dead
           /\ r.at >= local[d][o.key].at
           /\ o.key \in Prefs \cup Position => r.at = At(o)
<1> USE DEF RowInv
<1>1. PICK kind, k :
        /\ Enqueue(d, kind, k)
        /\ \/ kind = "mark" /\ k \in Mark /\ MarkUnderstood(d, k)
           \/ kind = "keep" /\ k \in Kept /\ Keep(d, k)
           \/ kind = "forget" /\ k \in Kept /\ Forget(d, k)
           \/ kind = "put" /\ k \in Prefs \cup Position /\ Put(d, k)
  BY DEF LocalWrite, MarkUnderstood, Keep, Forget, Put
<1> DEFINE o == [dev |-> d, kind |-> kind, key |-> k, n |-> clock + 1]
           mine == local[d][k]
           new == [at |-> Stamp(d), by |-> d, dead |-> FALSE]
<1>2. written' = written \cup {o} /\ clock' = clock + 1 BY <1>1 DEF Enqueue
<1>3. o.dev = d /\ o.kind = kind /\ o.key = k /\ o.n = clock + 1 OBVIOUS
<1>4. k \in Key BY <1>1 DEF Key
<1>5. clock \in Nat /\ Skew[d] \in Nat
  BY SyncAssumption DEF SyncAssumption, QueueInv, QueueTypes
<1>6. RowOf(o) = new /\ At(o) = Stamp(d) /\ Stamp(d) \in Nat /\ Stamp(d) > 0
  BY <1>3, <1>5 DEF RowOf, At, Stamp
<1> HIDE DEF o
<1>7. new \in Row /\ new.at = Stamp(d) /\ new.dead = FALSE /\ new # Absent
  <2>1. new \in Row BY <1>6 DEF Row
  <2> QED BY <1>6, <2>1, AbsentIsRow
<1>8. mine \in Row /\ Explained(written, k, mine)
  BY <1>4 DEF RowTypes, RowsExplained
<1>9. mine.at \in Nat /\ mine.dead \in BOOLEAN BY <1>8 DEF Row
<1>10. \A p \in written : At(p) \in Nat /\ At(p) < Stamp(d)
  <2> SUFFICES ASSUME NEW p \in written PROVE At(p) \in Nat /\ At(p) < Stamp(d) OBVIOUS
  <2>1. p.n \in 1..clock /\ p.dev \in Device BY DEF QueueInv, WrittenOps
  <2>2. Skew[p.dev] = Skew[d] BY <2>1 DEF ClocksAgree
  <2> QED BY <1>5, <2>1, <2>2 DEF At, Stamp
<1> HIDE DEF mine, new
<1>11. CASE kind = "mark"
  <2> DEFINE r == IF mine # Absent THEN mine ELSE new
  <2>1. k \in Mark /\ local' = [local EXCEPT ![d][k] = r]
    BY <1>1, <1>11 DEF MarkUnderstood, WriteRow, mine, new
  <2>2. r \in Row /\ r # Absent BY <1>7, <1>8
  <2>3. Explained(written', k, r)
    <3>1. CASE mine = Absent BY <1>6, <1>7, <2>1, <3>1 DEF Explained
    <3>2. CASE mine # Absent BY <1>2, <1>8, <3>2, ExplainedStays
    <3> QED BY <3>1, <3>2
  <2>4. r.at >= mine.at BY <1>6, <1>7, <1>9, AbsentIsRow
  <2>5. mine.dead => r.dead BY <1>7, AbsentIsRow
  <2>6. r.dead => mine.dead BY <1>7
  <2>7. k \notin Prefs \cup Position BY <2>1, KeysApart
  <2> HIDE DEF r
  <2> QED BY <1>2, <1>3, <1>4, <2>1, <2>2, <2>3, <2>4, <2>5, <2>6, <2>7 DEF mine
<1>12. CASE kind = "keep"
  <2>1. k \in Kept /\ local' = [local EXCEPT ![d][k] = new] /\ \A p \in written : p.key # k
    BY <1>1, <1>12 DEF Keep, WriteRow, new
  <2>2. mine = Absent BY <1>8, <2>1, KeysApart DEF Explained
  <2>3. Explained(written', k, new)
    BY <1>2, <1>3, <1>6, <1>7, <1>12, <2>1 DEF Explained
  <2>4. new.at >= mine.at BY <1>6, <1>7, <1>9, <2>2, AbsentIsRow
  <2>5. k \notin Prefs \cup Position BY <2>1, KeysApart
  <2> QED BY <1>2, <1>3, <1>4, <1>7, <2>1, <2>2, <2>3, <2>4, <2>5, AbsentIsRow DEF mine
<1>13. CASE kind = "forget"
  <2> DEFINE r == [mine EXCEPT !.at = Stamp(d), !.dead = TRUE]
  <2>1. /\ k \in Kept /\ local' = [local EXCEPT ![d][k] = r]
        /\ mine # Absent /\ ~mine.dead
    BY <1>1, <1>13 DEF Forget, WriteRow, mine
  <2>2. PICK p \in written : p.key = k /\ p.kind = "keep" /\ mine = RowOf(p)
    BY <1>8, <2>1, KeysApart DEF Explained
  <2>3. mine.at = At(p) BY <2>2 DEF RowOf
  <2>4. r.at = Stamp(d) /\ r.dead = TRUE BY <1>8 DEF Row
  <2>5. r \in Row
    <3> DEFINE dated == [mine EXCEPT !.at = Stamp(d)]
    <3>1. r = [dated EXCEPT !.dead = TRUE] OBVIOUS
    <3>2. dated \in Row BY <1>6, <1>8 DEF Row
    <3> HIDE DEF dated
    <3>3. [dated EXCEPT !.dead = TRUE] \in Row BY <3>2 DEF Row
    <3> QED BY <3>1, <3>3
  <2> HIDE DEF r
  <2>6. Explained(written', k, r)
    BY <1>2, <1>10, <2>1, <2>2, <2>4 DEF Explained
  <2>7. r.at >= mine.at BY <1>6, <1>10, <2>2, <2>3, <2>4
  <2>8. r # Absent BY <2>4, AbsentIsRow
  <2>9. k \notin Prefs \cup Position BY <2>1, KeysApart
  <2> QED BY <1>2, <1>3, <1>4, <1>13, <2>1, <2>4, <2>5, <2>6, <2>7, <2>8, <2>9 DEF mine
<1>14. CASE kind = "put"
  <2>1. k \in Prefs \cup Position /\ local' = [local EXCEPT ![d][k] = new]
    BY <1>1, <1>14 DEF Put, WriteRow, new
  <2>2. mine = Absent \/ \E p \in written : mine = RowOf(p)
    BY <1>8, <2>1, KeysApart DEF Explained
  <2>3. new.at >= mine.at /\ ~mine.dead
    <3>1. CASE mine = Absent BY <1>6, <1>7, <3>1, AbsentIsRow
    <3>2. ASSUME NEW p \in written, mine = RowOf(p) PROVE new.at >= mine.at /\ ~mine.dead
      <4>1. mine.at = At(p) /\ mine.dead = FALSE BY <3>2 DEF RowOf
      <4> QED BY <1>6, <1>7, <1>10, <4>1
    <3> QED BY <2>2, <3>1, <3>2
  <2>4. Explained(written', k, new) BY <1>2, <1>3, <1>6, <2>1 DEF Explained
  <2> QED BY <1>2, <1>3, <1>4, <1>6, <1>7, <2>1, <2>3, <2>4 DEF mine
<1> QED BY <1>1, <1>11, <1>12, <1>13, <1>14

\* What the server's rows may do.
Moves(k) ==
  /\ server[k].row # Absent => server'[k].row # Absent
  /\ server[k].row.dead => server'[k].row.dead
  /\ server'[k].row.at >= server[k].row.at
  /\ server'[k] = server[k] \/ server'[k].seq > changeSeq

LEMMA OutcomeRows ==
  ASSUME ClocksAgree, RowInv, NEW o \in written, NEW status \in Status, Outcome(o, status)
  PROVE  /\ changeSeq' \in Nat /\ changeSeq <= changeSeq'
         /\ server' \in [Key -> [row : Row, seq : 0..changeSeq']]
         /\ \A k \in Key :
              /\ Explained(written, k, server'[k].row)
              /\ server'[k].seq = 0 <=> server'[k].row = Absent
              /\ Moves(k)
         /\ opLog' = opLog
              \/ /\ opLog' = opLog \cup {o} /\ server'[o.key].row # Absent
                 /\ o.kind = "forget" => server'[o.key].row.dead
                 /\ o.kind = "put" => server'[o.key].row.at >= At(o)
<1> USE DEF RowInv
<1>0. /\ changeSeq \in Nat /\ server \in [Key -> [row : Row, seq : 0..changeSeq]]
      /\ \A k \in Key : /\ Explained(written, k, server[k].row)
                        /\ server[k].seq = 0 <=> server[k].row = Absent
  BY DEF RowTypes, RowsExplained
<1>1. CASE UNCHANGED serverVars
  <2>1. server' = server /\ changeSeq' = changeSeq /\ opLog' = opLog BY <1>1 DEF serverVars
  <2>2. \A k \in Key : server[k].row.at \in Nat BY <1>0 DEF Row
  <2> QED BY <1>0, <2>1, <2>2 DEF Moves
<1>2. CASE ~Refused(o) /\ Land(o)
  <2> DEFINE row == server[o.key].row
             r == RowAfter(o, row)
  <2>1. o.key \in Key BY DEF QueueInv, WrittenOps, Key
  <2>2. /\ row \in Row /\ Explained(written, o.key, row)
        /\ o.kind = "forget" => row # Absent
    BY <1>0, <1>2, <2>1 DEF Refused
  <2>3. /\ r \in Row /\ r # Absent /\ Explained(written, o.key, r) /\ r.at >= row.at
        /\ row.dead => r.dead
        /\ o.kind = "forget" => r.dead
        /\ o.kind = "put" => r.at >= At(o)
    BY <2>2, RowAfterExplained
  <2>4. opLog' = opLog \cup {o} BY <1>2 DEF Land
  <2>5. CASE o.kind = "forget" \/ r # row
    <3>1. /\ changeSeq' = changeSeq + 1
          /\ server' = [server EXCEPT ![o.key] = [row |-> r, seq |-> changeSeq + 1]]
      BY <1>2, <2>5 DEF Land
    <3> HIDE DEF r
    <3>2. /\ server'[o.key].row = r /\ server'[o.key].seq = changeSeq + 1
          /\ \A k \in Key : k # o.key => server'[k] = server[k]
      BY <1>0, <2>1, <3>1
    <3>3. server' \in [Key -> [row : Row, seq : 0..changeSeq']]
      <4> DEFINE T == [row : Row, seq : 0..changeSeq']
      <4>1. [row : Row, seq : 0..changeSeq] \subseteq T BY <1>0, <3>1
      <4>2. [row |-> r, seq |-> changeSeq + 1] \in T BY <1>0, <2>3, <3>1
      <4> HIDE DEF T
      <4>3. server \in [Key -> T] BY <1>0, <4>1
      <4>4. server' \in [Key -> T] BY <3>1, <4>2, <4>3
      <4> QED BY <4>4 DEF T
    <3>4. ASSUME NEW k \in Key
          PROVE  /\ Explained(written, k, server'[k].row)
                 /\ server'[k].seq = 0 <=> server'[k].row = Absent
                 /\ Moves(k)
      <4>1. CASE k = o.key
        <5>1. server'[k].row = r /\ server'[k].seq = changeSeq + 1 /\ server[k].row = row
          BY <3>2, <4>1
        <5> HIDE DEF row
        <5> QED BY <1>0, <2>3, <4>1, <5>1 DEF Moves
      <4>2. CASE k # o.key
        <5>1. server[k].row.at \in Nat BY <1>0 DEF Row
        <5> QED BY <1>0, <3>2, <4>2, <5>1 DEF Moves
      <4> QED BY <4>1, <4>2
    <3> QED BY <1>0, <2>3, <2>4, <3>1, <3>2, <3>3, <3>4
  <2>6. CASE ~(o.kind = "forget" \/ r # row)
    <3>1. changeSeq' = changeSeq /\ server' = server BY <1>2, <2>6 DEF Land
    <3>2. \A k \in Key : server[k].row.at \in Nat BY <1>0 DEF Row
    <3> HIDE DEF r
    <3> QED BY <1>0, <2>3, <2>4, <2>6, <3>1, <3>2 DEF Moves
  <2> QED BY <2>5, <2>6
<1> QED BY <1>1, <1>2 DEF Outcome

LEMMA ReconcileExplained ==
  ASSUME NEW k, NEW W, NEW mine \in Row, NEW theirs \in Row,
         Explained(W, k, mine), Explained(W, k, theirs)
  PROVE  Reconcile(k, mine, theirs) \in Row /\ Explained(W, k, Reconcile(k, mine, theirs))
BY DEF Reconcile

\* The three things a flush holds in its hands, put away.
LEMMA HandsEmpty ==
  ASSUME RowTypes, NEW d \in Device, EndFlush(d)
  PROVE  /\ upto' \in [Device -> 0..changeSeq]
         /\ page' = [c \in Device |-> page'[c]]
         /\ page'[d] = <<>> /\ DOMAIN page'[d] = {} /\ page'[d] \in [DOMAIN page'[d] -> Row]
         /\ \A c \in Device \ {d} : page'[c] = page[c]
<1>1. page' = [page EXCEPT ![d] = <<>>] /\ upto' = [upto EXCEPT ![d] = 0] BY DEF EndFlush
<1>2. DOMAIN <<>> = {} OBVIOUS
<1>3. <<>> \in [{} -> Row] OBVIOUS
<1>4. upto' \in [Device -> 0..changeSeq] BY <1>1 DEF RowTypes
<1>5. /\ page' = [c \in Device |-> page'[c]] /\ page'[d] = <<>>
      /\ \A c \in Device \ {d} : page'[c] = page[c]
  BY <1>1 DEF RowTypes
<1> QED BY <1>2, <1>3, <1>4, <1>5

LEMMA NextRowInv == ClocksAgree /\ RowInv /\ [Next]_vars => RowInv'
<1> SUFFICES ASSUME ClocksAgree, RowInv, [Next]_vars PROVE RowTypes' /\ RowsExplained'
  BY NextQueueInv DEF RowInv
<1> USE DEF RowInv
<1>1. ASSUME UNCHANGED <<written, local, page, cursor, upto, server, changeSeq>>
      PROVE  RowTypes' /\ RowsExplained'
  BY <1>1 DEF RowTypes, RowsExplained
<1>2. ASSUME NEW d \in Device, LocalWrite(d) PROVE RowTypes' /\ RowsExplained'
  <2>1. PICK o \in written', r \in Row :
          /\ written' = written \cup {o} /\ o.key \in Key
          /\ local' = [local EXCEPT ![d][o.key] = r]
          /\ Explained(written', o.key, r)
    BY <1>2, WriteStep
  <2>2. UNCHANGED <<page, cursor, upto, server, changeSeq>>
    BY <1>2 DEF LocalWrite, MarkUnderstood, Keep, Forget, Put, Enqueue, pullVars, serverVars
  <2>3. local' \in [Device -> [Key -> Row]] BY <2>1 DEF RowTypes
  <2>4. RowTypes' BY <2>2, <2>3 DEF RowTypes
  <2>5. \A c \in Device : \A k \in Key :
          local'[c][k] = IF c = d /\ k = o.key THEN r ELSE local[c][k]
    BY <2>1 DEF RowTypes
  <2>6. \A c \in Device : \A k \in Key : Explained(written', k, local'[c][k])
    BY <2>1, <2>5, ExplainedStays DEF RowsExplained
  <2>7. \A k \in Key : Explained(written', k, server[k].row)
    BY <2>1, ExplainedStays DEF RowsExplained
  <2>8. \A c \in Device : \A k \in DOMAIN page[c] : Explained(written', k, page[c][k])
    BY <2>1, ExplainedStays DEF RowsExplained
  <2> QED BY <2>2, <2>4, <2>6, <2>7, <2>8 DEF RowsExplained
<1>3. ASSUME NEW d \in Device, Pull(d) PROVE RowTypes' /\ RowsExplained'
  <2> DEFINE got == {j \in Key : server[j].seq > cursor[d]}
             pg == [k \in got |-> server[k].row]
  <2>1. /\ page' = [page EXCEPT ![d] = pg] /\ upto' = [upto EXCEPT ![d] = changeSeq]
        /\ UNCHANGED <<written, local, cursor, server, changeSeq>>
    BY <1>3 DEF Pull, serverVars, readerVars
  <2>2. got \subseteq Key /\ DOMAIN pg = got OBVIOUS
  <2>3. \A k \in got : pg[k] = server[k].row OBVIOUS
  <2>4. pg \in [got -> Row] BY DEF RowTypes
  <2> HIDE DEF pg, got
  <2>5. /\ page' = [c \in Device |-> page'[c]] /\ page'[d] = pg
        /\ \A c \in Device \ {d} : page'[c] = page[c]
    BY <2>1 DEF RowTypes
  <2>6. upto' \in [Device -> 0..changeSeq] BY <2>1 DEF RowTypes
  <2>7. RowTypes' BY <2>1, <2>2, <2>4, <2>5, <2>6 DEF RowTypes
  <2>8. RowsExplained' BY <2>1, <2>2, <2>3, <2>5 DEF RowsExplained
  <2> QED BY <2>7, <2>8
<1>4. ASSUME NEW d \in Device, Apply(d) PROVE RowTypes' /\ RowsExplained'
  <2> DEFINE rec(k) == IF k \in DOMAIN page[d] THEN Reconcile(k, local[d][k], page[d][k])
                       ELSE local[d][k]
  <2>1. /\ local' = [local EXCEPT ![d] = [k \in Key |-> rec(k)]]
        /\ UNCHANGED <<written, page, cursor, upto, server, changeSeq>>
    BY <1>4 DEF Apply, pullVars, serverVars, readerVars
  <2>2. \A k \in Key : rec(k) \in Row /\ Explained(written, k, rec(k))
    BY ReconcileExplained DEF RowTypes, RowsExplained
  <2> HIDE DEF rec
  <2>3. local' \in [Device -> [Key -> Row]] BY <2>1, <2>2 DEF RowTypes
  <2>4. \A c \in Device : \A k \in Key :
          local'[c][k] = IF c = d THEN rec(k) ELSE local[c][k]
    BY <2>1 DEF RowTypes
  <2>5. RowTypes' BY <2>1, <2>3 DEF RowTypes
  <2>6. RowsExplained' BY <2>1, <2>2, <2>4 DEF RowsExplained
  <2> QED BY <2>5, <2>6
<1>5. ASSUME NEW d \in Device, SaveCursor(d) \/ GiveUp(d) PROVE RowTypes' /\ RowsExplained'
  <2>1. EndFlush(d) BY <1>5 DEF SaveCursor, GiveUp
  <2>2. UNCHANGED <<written, local, server, changeSeq>>
    BY <1>5 DEF SaveCursor, GiveUp, serverVars, readerVars
  <2>3. cursor' \in [Device -> 0..changeSeq]
    BY <1>5 DEF SaveCursor, GiveUp, RowTypes
  <2>4. \A c \in Device : DOMAIN page'[c] \subseteq Key /\ page'[c] \in [DOMAIN page'[c] -> Row]
    BY <2>1, HandsEmpty DEF RowTypes
  <2>5. RowTypes' BY <2>1, <2>2, <2>3, <2>4, HandsEmpty DEF RowTypes
  <2>6. RowsExplained' BY <2>1, <2>2, HandsEmpty DEF RowsExplained
  <2> QED BY <2>5, <2>6
<1>6. ASSUME NEW d \in Device, Serve(d) \/ ServeOrphan(d) PROVE RowTypes' /\ RowsExplained'
  <2>1. PICK o \in written, status \in Status : Outcome(o, status) BY <1>6, ServeQueueInv
  <2>2. UNCHANGED <<written, local, page, cursor, upto>>
    BY <1>6 DEF Serve, ServeOrphan, pullVars, readerVars
  <2>3. /\ changeSeq' \in Nat /\ changeSeq <= changeSeq'
        /\ server' \in [Key -> [row : Row, seq : 0..changeSeq']]
        /\ \A k \in Key : /\ Explained(written, k, server'[k].row)
                          /\ server'[k].seq = 0 <=> server'[k].row = Absent
    BY <2>1, OutcomeRows
  <2>4. 0..changeSeq \subseteq 0..changeSeq' BY <2>3 DEF RowTypes
  <2>5. cursor' \in [Device -> 0..changeSeq'] /\ upto' \in [Device -> 0..changeSeq']
    BY <2>2, <2>4 DEF RowTypes
  <2>6. RowTypes' BY <2>2, <2>3, <2>5 DEF RowTypes
  <2>7. RowsExplained' BY <2>2, <2>3 DEF RowsExplained
  <2> QED BY <2>6, <2>7
<1>7. ASSUME NEW d \in Device,
             \/ StartFlush(d) \/ Push(d) \/ Settle(d)
             \/ \E o \in DOMAIN outbox[d] : Retry(d, o) \/ Discard(d, o) \/ BackoffOver(d, o)
      PROVE  UNCHANGED <<written, local, page, cursor, upto, server, changeSeq>>
  BY <1>7 DEF StartFlush, Push, Settle, Retry, Discard, BackoffOver, pullVars, serverVars, readerVars
<1>8. CASE UNCHANGED vars BY <1>1, <1>8 DEF vars
<1> QED BY <1>1, <1>2, <1>3, <1>4, <1>5, <1>6, <1>7, <1>8 DEF Next, FlushStep

LEMMA InitRowInv == Init => RowInv
<1> SUFFICES ASSUME Init PROVE RowTypes /\ RowsExplained BY InitQueueInv DEF RowInv
<1> USE DEF Init
<1>1. RowTypes
  <2>1. DOMAIN <<>> = {} /\ <<>> \in [{} -> Row] OBVIOUS
  <2> QED BY <2>1, AbsentIsRow DEF RowTypes
<1>2. RowsExplained BY DEF RowsExplained, Explained
<1> QED BY <1>1, <1>2

\* What the reader forgot, or what came forgotten, stays so when the clocks
\* agree: a pull brings only what is later, and of an item only its tombstone
\* is later than a tombstone; and an item's id is minted once.
THEOREM ForgottenStays == ClocksAgree => (Spec => StaysForgotten)
<1> SUFFICES ASSUME ClocksAgree PROVE Spec => StaysForgotten OBVIOUS
<1>1. ASSUME RowInv, [Next]_vars
      PROVE  [\A d \in Device : \A k \in Kept : local[d][k].dead => local'[d][k].dead]_vars
  <2> SUFFICES ASSUME NEW d \in Device, NEW k \in Kept, local[d][k].dead, Next
               PROVE  local'[d][k].dead
    BY <1>1
  <2> USE <1>1 DEF RowInv
  <2>0. k \in Key BY DEF Key
  <2>1. ASSUME NEW c \in Device, LocalWrite(c) PROVE local'[d][k].dead
    <3>1. PICK o, r : /\ local' = [local EXCEPT ![c][o.key] = r] /\ o.key \in Key
                      /\ local[c][o.key].dead => r.dead
      BY <2>1, WriteStep
    <3>2. local'[d][k] = IF c = d /\ k = o.key THEN r ELSE local[d][k]
      BY <2>0, <3>1 DEF RowTypes
    <3> QED BY <3>1, <3>2
  <2>2. ASSUME NEW c \in Device, Apply(c) PROVE local'[d][k].dead
    <3>1. CASE c # d
      <4>1. local'[d] = local[d] BY <2>2, <3>1 DEF Apply, RowTypes
      <4> QED BY <4>1
    <3>2. CASE c = d /\ k \notin DOMAIN page[d]
      <4>1. local'[d][k] = local[d][k] BY <2>0, <2>2, <3>2 DEF Apply, RowTypes
      <4> QED BY <4>1
    <3>3. CASE c = d /\ k \in DOMAIN page[d]
      <4> DEFINE mine == local[d][k]
                 theirs == page[d][k]
      <4>1. local'[d][k] = Reconcile(k, mine, theirs)
        BY <2>0, <2>2, <3>3 DEF Apply, RowTypes
      <4>2. /\ mine \in Row /\ theirs \in Row
            /\ Explained(written, k, mine) /\ Explained(written, k, theirs)
        BY <2>0, <3>3 DEF RowTypes, RowsExplained
      <4> HIDE DEF mine, theirs
      <4>3. mine.dead /\ mine # Absent BY AbsentIsRow DEF mine
      <4>4. theirs.at > mine.at => theirs.dead
        <5> SUFFICES ASSUME theirs.at > mine.at, ~theirs.dead PROVE FALSE OBVIOUS
        <5>1. mine.at \in Nat /\ theirs.at \in Nat BY <4>2 DEF Row
        <5>2. theirs # Absent BY <5>1, AbsentIsRow
        <5>3. PICK o \in written : o.key = k /\ o.kind = "keep" /\ mine.at > At(o)
          BY <4>2, <4>3, KeysApart DEF Explained
        <5>4. PICK p \in written : p.key = k /\ p.kind = "keep" /\ theirs = RowOf(p)
          BY <4>2, <5>2, KeysApart DEF Explained
        <5>5. o = p BY <5>3, <5>4, OneKeep
        <5>6. theirs.at = At(o) BY <5>4, <5>5 DEF RowOf
        <5>7. At(o) \in Nat BY InTime
        <5> QED BY <5>1, <5>3, <5>6, <5>7
      <4> QED BY <4>1, <4>3, <4>4 DEF Reconcile
    <3> QED BY <3>1, <3>2, <3>3
  <2>3. ASSUME NEW c \in Device,
             \/ StartFlush(c) \/ Push(c) \/ Settle(c) \/ Pull(c) \/ SaveCursor(c) \/ GiveUp(c)
             \/ Serve(c) \/ ServeOrphan(c)
             \/ \E o \in DOMAIN outbox[c] : Retry(c, o) \/ Discard(c, o) \/ BackoffOver(c, o)
        PROVE  local' = local
    BY <2>3 DEF StartFlush, Push, Settle, Pull, SaveCursor, GiveUp, Serve, ServeOrphan,
      Retry, Discard, BackoffOver
  <2> QED BY <2>1, <2>2, <2>3 DEF Next, FlushStep
<1>2. RowInv /\ [Next]_vars => RowInv' BY NextRowInv
<1> QED BY <1>1, <1>2, InitRowInv, PTL DEF Spec, StaysForgotten

(***************************************************************************)
(* A device that is caught up.                                             *)
(***************************************************************************)
\* One row has all that matters of another of its key.
Covers(k, mine, theirs) ==
  /\ theirs # Absent => mine # Absent
  /\ k \in Kept /\ theirs.dead => mine.dead
  /\ mine.at >= theirs.at \/ k \notin Prefs \cup Position

LEMMA CoversItself == ASSUME NEW k, NEW a \in Row PROVE Covers(k, a, a)
BY DEF Covers, Row

LEMMA CoversOn ==
  ASSUME NEW k, NEW a \in Row, NEW b \in Row, NEW c \in Row, Covers(k, a, b), Covers(k, b, c)
  PROVE  Covers(k, a, c)
<1>1. a.at \in Nat /\ b.at \in Nat /\ c.at \in Nat BY DEF Row
<1> QED BY <1>1 DEF Covers

\* Of an item, the tombstone is the later row.
LEMMA TombstoneIsLater ==
  ASSUME ClocksAgree, QueueInv, NEW k \in Kept, NEW gone \in Row, NEW row \in Row,
         Explained(written, k, gone), Explained(written, k, row), gone.dead, ~row.dead
  PROVE  row.at < gone.at
<1>1. gone # Absent /\ gone.at \in Nat BY AbsentIsRow DEF Row
<1>2. PICK o \in written : o.key = k /\ o.kind = "keep" /\ gone.at > At(o)
  BY <1>1, KeysApart DEF Explained
<1>3. At(o) \in Nat /\ At(o) > 0 BY InTime
<1>4. CASE row = Absent BY <1>1, <1>2, <1>3, <1>4, AbsentIsRow
<1>5. CASE row # Absent
  <2>1. PICK p \in written : p.key = k /\ p.kind = "keep" /\ row = RowOf(p)
    BY <1>5, KeysApart DEF Explained
  <2>2. o = p BY <1>2, <2>1, OneKeep
  <2>3. row.at = At(o) BY <2>1, <2>2 DEF RowOf
  <2> QED BY <1>2, <2>3
<1> QED BY <1>4, <1>5

\* What comes of reconciling covers both.
LEMMA ReconcileCovers ==
  ASSUME ClocksAgree, QueueInv, NEW k \in Key, NEW mine \in Row, NEW theirs \in Row,
         Explained(written, k, mine), Explained(written, k, theirs)
  PROVE  /\ Covers(k, Reconcile(k, mine, theirs), mine)
         /\ Covers(k, Reconcile(k, mine, theirs), theirs)
<1>1. mine.at \in Nat /\ theirs.at \in Nat BY DEF Row
<1>2. k \in Kept /\ mine.dead /\ theirs.at > mine.at => theirs.dead
  BY <1>1, TombstoneIsLater
<1>3. k \in Kept /\ theirs.dead /\ ~(theirs.at > mine.at) => mine.dead
  BY <1>1, TombstoneIsLater
<1>4. theirs.at > mine.at => theirs # Absent BY <1>1, AbsentIsRow
<1>5. k \in Kept => k \notin Mark BY KeysApart
<1>6. k \in Prefs \cup Position => k \notin Mark BY KeysApart
<1>7. Absent.at = 0 /\ Absent.dead = FALSE BY AbsentIsRow
<1>8. CASE mine = Absent
  <2>1. Reconcile(k, mine, theirs) = theirs BY <1>8 DEF Reconcile
  <2> QED BY <1>1, <1>7, <1>8, <2>1, CoversItself DEF Covers
<1>9. CASE mine # Absent /\ k \notin Mark /\ theirs.at > mine.at
  <2>1. Reconcile(k, mine, theirs) = theirs BY <1>9 DEF Reconcile
  <2> QED BY <1>1, <1>2, <1>4, <1>9, <2>1, CoversItself DEF Covers
<1>10. CASE mine # Absent /\ ~(k \notin Mark /\ theirs.at > mine.at)
  <2>1. Reconcile(k, mine, theirs) = mine BY <1>10 DEF Reconcile
  <2> QED BY <1>1, <1>3, <1>5, <1>6, <1>10, <2>1, CoversItself DEF Covers
<1> QED BY <1>8, <1>9, <1>10

\* The server's row has in it every op the log has.
LandedRows ==
  \A o \in opLog :
    /\ server[o.key].row # Absent
    /\ o.kind = "forget" => server[o.key].row.dead
    /\ o.kind = "put" => server[o.key].row.at >= At(o)

\* What a cursor has passed is on the device; of a page in hand, what the page
\* reaches is on the device or in the page, and after it is applied, on the device.
CaughtRows ==
  \A d \in Device : \A k \in Key :
    /\ server[k].seq <= cursor[d] => Covers(k, local[d][k], server[k].row)
    /\ phase[d] = "got" /\ server[k].seq <= upto[d] =>
         \/ Covers(k, local[d][k], server[k].row)
         \/ k \in DOMAIN page[d] /\ page[d][k] = server[k].row
    /\ phase[d] = "applied" /\ server[k].seq <= upto[d] => Covers(k, local[d][k], server[k].row)

\* What a device shows and the server does not is the device's own writing; what
\* a page shows the server has or has passed.
Own(d, k) == {o \in written : o.dev = d /\ o.key = k}
OwnRows ==
  \A d \in Device : \A k \in Key :
    /\ local[d][k] # Absent => server[k].row # Absent \/ Own(d, k) # {}
    /\ k \in Kept /\ local[d][k].dead =>
         server[k].row.dead \/ \E o \in Own(d, k) : o.kind = "forget"
    /\ k \in Prefs \cup Position =>
         local[d][k].at <= server[k].row.at \/ \E o \in Own(d, k) : At(o) = local[d][k].at
    /\ k \in DOMAIN page[d] => Covers(k, server[k].row, page[d][k])

AgreeInv == LossInv /\ RowInv /\ LandedRows /\ CaughtRows /\ OwnRows

LEMMA AgreeIsEnough == ClocksAgree /\ AgreeInv => CaughtUpAgrees
<1> SUFFICES ASSUME ClocksAgree, AgreeInv, NEW d \in Device,
                    Ops(d) = {}, cursor[d] = changeSeq, {o \in discarded : o.dev = d} = {},
                    NEW k \in Key
             PROVE  Shows(local[d][k], server[k].row, k)
  BY DEF CaughtUpAgrees
<1> USE DEF AgreeInv, RowInv
<1> DEFINE mine == local[d][k]
           theirs == server[k].row
<1>1. \A o \in Own(d, k) : o \in opLog /\ o \in written /\ o.key = k
  BY DEF LossInv, NoWriteLost, Own
<1>2. Covers(k, mine, theirs)
  <2>1. server[k].seq <= cursor[d] BY DEF RowTypes
  <2> QED BY <2>1 DEF CaughtRows
<1>3. /\ mine \in Row /\ theirs \in Row
      /\ Explained(written, k, mine) /\ Explained(written, k, theirs)
  BY DEF RowTypes, RowsExplained
<1>4. mine # Absent <=> theirs # Absent
  BY <1>1, <1>2 DEF OwnRows, LandedRows, Covers
<1>5. k \in Kept => (mine.dead <=> theirs.dead)
  BY <1>1, <1>2 DEF OwnRows, LandedRows, Covers
<1>6. k \in Prefs \cup Position => mine.at = theirs.at
  <2> SUFFICES ASSUME k \in Prefs \cup Position PROVE mine.at = theirs.at OBVIOUS
  <2>1. mine.at \in Nat /\ theirs.at \in Nat BY <1>3 DEF Row
  <2>2. mine.at >= theirs.at BY <1>2 DEF Covers
  <2>3. ASSUME NEW o \in Own(d, k) PROVE theirs.at >= At(o)
    <3>1. o \in opLog /\ o \in written /\ o.key = k BY <1>1
    <3>2. o.kind = "put" BY <3>1, KeysApart DEF QueueInv, WrittenOps
    <3> QED BY <3>1, <3>2 DEF LandedRows
  <2>4. mine.at <= theirs.at \/ \E o \in Own(d, k) : At(o) = mine.at BY DEF OwnRows
  <2> QED BY <2>1, <2>2, <2>3, <2>4
<1> HIDE DEF mine, theirs
<1>7. CASE k \in Mark BY <1>4, <1>7 DEF Shows, mine, theirs
<1>8. CASE k \in Kept
  <2>1. k \notin Mark BY <1>8, KeysApart
  <2>2. CASE mine.dead BY <1>5, <1>8, <2>1, <2>2 DEF Shows, mine, theirs
  <2>3. CASE ~mine.dead
    <3>1. mine = theirs
      <4>1. CASE mine = Absent BY <1>4, <4>1
      <4>2. CASE mine # Absent
        <5>1. PICK o \in written : o.key = k /\ o.kind = "keep" /\ mine = RowOf(o)
          BY <1>3, <1>8, <2>3, <4>2, KeysApart DEF Explained
        <5>2. PICK p \in written : p.key = k /\ p.kind = "keep" /\ theirs = RowOf(p)
          BY <1>3, <1>4, <1>5, <1>8, <2>3, <4>2, KeysApart DEF Explained
        <5>3. o = p BY <5>1, <5>2, OneKeep
        <5> QED BY <5>1, <5>2, <5>3
      <4> QED BY <4>1, <4>2
    <3> QED BY <2>1, <3>1 DEF Shows, mine, theirs
  <2> QED BY <2>2, <2>3
<1>9. CASE k \in Prefs \cup Position
  <2>1. k \notin Mark BY <1>9, KeysApart
  <2>2. mine = theirs
    <3>1. CASE mine = Absent BY <1>4, <3>1
    <3>2. CASE mine # Absent
      <4>1. PICK o \in written : mine = RowOf(o)
        BY <1>3, <1>9, <3>2, KeysApart DEF Explained
      <4>2. PICK p \in written : theirs = RowOf(p)
        BY <1>3, <1>4, <1>9, <3>2, KeysApart DEF Explained
      <4>3. At(o) = At(p) BY <1>6, <1>9, <4>1, <4>2 DEF RowOf
      <4>4. o = p BY <4>3, InTime
      <4> QED BY <4>1, <4>2, <4>4
    <3> QED BY <3>1, <3>2
  <2> QED BY <2>1, <2>2 DEF Shows, mine, theirs
<1> QED BY <1>7, <1>8, <1>9 DEF Key

LEMMA RowsAreRows ==
  ASSUME RowInv, NEW d \in Device, NEW k \in Key
  PROVE  /\ local[d][k] \in Row /\ server[k].row \in Row
         /\ k \in DOMAIN page[d] => page[d][k] \in Row
         /\ changeSeq \in Nat /\ server[k].seq \in 0..changeSeq
         /\ cursor[d] \in 0..changeSeq /\ upto[d] \in 0..changeSeq
BY DEF RowInv, RowTypes

LEMMA RowsAreRowsNext ==
  ASSUME RowInv', NEW d \in Device, NEW k \in Key
  PROVE  local'[d][k] \in Row /\ server'[k].row \in Row
BY DEF RowInv, RowTypes

LEMMA WriteAgrees ==
  ASSUME ClocksAgree, RowInv, RowInv', LandedRows, CaughtRows, OwnRows,
         NEW c \in Device, LocalWrite(c)
  PROVE  LandedRows' /\ CaughtRows' /\ OwnRows'
<1>1. PICK o \in written', r \in Row :
        /\ written' = written \cup {o} /\ o.dev = c /\ o.key \in Key
        /\ local' = [local EXCEPT ![c][o.key] = r]
        /\ r # Absent
        /\ local[c][o.key].dead => r.dead
        /\ r.dead => o.kind = "forget" \/ local[c][o.key].dead
        /\ r.at >= local[c][o.key].at
        /\ o.key \in Prefs \cup Position => r.at = At(o)
  BY WriteStep
<1>2. UNCHANGED <<page, cursor, upto, server, changeSeq, opLog, phase>>
  BY DEF LocalWrite, MarkUnderstood, Keep, Forget, Put, Enqueue, pullVars, serverVars
<1>3. \A d \in Device : \A k \in Key :
        local'[d][k] = IF d = c /\ k = o.key THEN r ELSE local[d][k]
  BY <1>1 DEF RowInv, RowTypes
<1>4. LandedRows' BY <1>2 DEF LandedRows
<1>5. ASSUME NEW d \in Device, NEW k \in Key PROVE Covers(k, local'[d][k], local[d][k])
  <2>1. CASE d = c /\ k = o.key BY <1>1, <1>3, <2>1 DEF Covers
  <2>2. CASE ~(d = c /\ k = o.key) BY <1>3, <2>2, RowsAreRows, CoversItself
  <2> QED BY <2>1, <2>2
<1>6. CaughtRows'
  <2> SUFFICES ASSUME NEW d \in Device, NEW k \in Key
               PROVE  /\ server[k].seq <= cursor[d] => Covers(k, local'[d][k], server[k].row)
                      /\ phase[d] = "got" /\ server[k].seq <= upto[d] =>
                           \/ Covers(k, local'[d][k], server[k].row)
                           \/ k \in DOMAIN page[d] /\ page[d][k] = server[k].row
                      /\ phase[d] = "applied" /\ server[k].seq <= upto[d] =>
                           Covers(k, local'[d][k], server[k].row)
    BY <1>2 DEF CaughtRows
  <2>1. Covers(k, local[d][k], server[k].row) => Covers(k, local'[d][k], server[k].row)
    BY <1>5, RowsAreRows, RowsAreRowsNext, CoversOn
  <2> QED BY <2>1 DEF CaughtRows
<1>7. OwnRows'
  <2> SUFFICES ASSUME NEW d \in Device, NEW k \in Key
               PROVE  /\ local'[d][k] # Absent => server[k].row # Absent \/ Own(d, k)' # {}
                      /\ k \in Kept /\ local'[d][k].dead =>
                           server[k].row.dead \/ \E p \in Own(d, k)' : p.kind = "forget"
                      /\ k \in Prefs \cup Position =>
                           \/ local'[d][k].at <= server[k].row.at
                           \/ \E p \in Own(d, k)' : At(p) = local'[d][k].at
                      /\ k \in DOMAIN page[d] => Covers(k, server[k].row, page[d][k])
    BY <1>2 DEF OwnRows
  <2>1. Own(d, k) \subseteq Own(d, k)' BY <1>1 DEF Own
  <2>2. /\ local[d][k] # Absent => server[k].row # Absent \/ Own(d, k) # {}
        /\ k \in Kept /\ local[d][k].dead =>
             server[k].row.dead \/ \E p \in Own(d, k) : p.kind = "forget"
        /\ k \in Prefs \cup Position =>
             \/ local[d][k].at <= server[k].row.at
             \/ \E p \in Own(d, k) : At(p) = local[d][k].at
        /\ k \in DOMAIN page[d] => Covers(k, server[k].row, page[d][k])
    BY DEF OwnRows
  <2>3. CASE d = c /\ k = o.key
    <3>1. o \in Own(d, k)' BY <1>1, <2>3 DEF Own
    <3>2. local'[d][k] = r BY <1>3, <2>3
    <3> QED BY <1>1, <2>1, <2>2, <2>3, <3>1, <3>2
  <2>4. CASE ~(d = c /\ k = o.key)
    <3>1. local'[d][k] = local[d][k] BY <1>3, <2>4
    <3> QED BY <2>1, <2>2, <3>1
  <2> QED BY <2>3, <2>4
<1> QED BY <1>4, <1>6, <1>7

LEMMA PullAgrees ==
  ASSUME RowInv, LandedRows, CaughtRows, OwnRows, QueueInv, NEW c \in Device, Pull(c)
  PROVE  LandedRows' /\ CaughtRows' /\ OwnRows'
<1> DEFINE got == {j \in Key : server[j].seq > cursor[c]}
           pg == [k \in got |-> server[k].row]
<1>1. /\ phase' = [phase EXCEPT ![c] = "got"]
      /\ page' = [page EXCEPT ![c] = pg] /\ upto' = [upto EXCEPT ![c] = changeSeq]
      /\ UNCHANGED <<written, local, cursor, server, opLog>>
  BY DEF Pull, serverVars, readerVars
<1>2. \A k \in Key : k \in DOMAIN pg <=> server[k].seq > cursor[c] OBVIOUS
<1>3. \A k \in DOMAIN pg : pg[k] = server[k].row OBVIOUS
<1> HIDE DEF pg, got
<1>4. /\ page'[c] = pg /\ phase'[c] = "got" /\ upto'[c] = changeSeq
      /\ \A d \in Device \ {c} :
           page'[d] = page[d] /\ phase'[d] = phase[d] /\ upto'[d] = upto[d]
  BY <1>1 DEF RowInv, RowTypes, QueueInv, QueueTypes
<1>5. LandedRows' BY <1>1 DEF LandedRows
<1>6. CaughtRows'
  <2> SUFFICES ASSUME NEW d \in Device, NEW k \in Key
               PROVE  /\ server[k].seq <= cursor[d] => Covers(k, local[d][k], server[k].row)
                      /\ phase'[d] = "got" /\ server[k].seq <= upto'[d] =>
                           \/ Covers(k, local[d][k], server[k].row)
                           \/ k \in DOMAIN page'[d] /\ page'[d][k] = server[k].row
                      /\ phase'[d] = "applied" /\ server[k].seq <= upto'[d] =>
                           Covers(k, local[d][k], server[k].row)
    BY <1>1 DEF CaughtRows
  <2>1. CASE d = c
    <3>1. server[k].seq <= cursor[d] \/ server[k].seq > cursor[d] BY RowsAreRows
    <3> QED BY <1>2, <1>3, <1>4, <2>1, <3>1 DEF CaughtRows
  <2>2. CASE d # c BY <1>4, <2>2 DEF CaughtRows
  <2> QED BY <2>1, <2>2
<1>7. OwnRows'
  <2>1. ASSUME NEW d \in Device, NEW k \in Key, k \in DOMAIN page'[d]
        PROVE  Covers(k, server[k].row, page'[d][k])
    <3>1. CASE d = c BY <1>3, <1>4, <2>1, <3>1, RowsAreRows, CoversItself
    <3>2. CASE d # c BY <1>4, <2>1, <3>2 DEF OwnRows
    <3> QED BY <3>1, <3>2
  <2> QED BY <1>1, <2>1 DEF OwnRows, Own
<1> QED BY <1>5, <1>6, <1>7

LEMMA ApplyAgrees ==
  ASSUME ClocksAgree, RowInv, RowInv', LandedRows, CaughtRows, OwnRows, NEW c \in Device, Apply(c)
  PROVE  LandedRows' /\ CaughtRows' /\ OwnRows'
<1> DEFINE rec(k) == IF k \in DOMAIN page[c] THEN Reconcile(k, local[c][k], page[c][k])
                     ELSE local[c][k]
<1>1. /\ phase' = [phase EXCEPT ![c] = "applied"]
      /\ local' = [local EXCEPT ![c] = [k \in Key |-> rec(k)]]
      /\ UNCHANGED <<written, page, cursor, upto, server, opLog>>
      /\ phase[c] = "got"
  BY DEF Apply, pullVars, serverVars, readerVars
<1>2. ASSUME NEW k \in Key
      PROVE  /\ Covers(k, rec(k), local[c][k])
             /\ k \in DOMAIN page[c] => Covers(k, rec(k), page[c][k])
             /\ \/ rec(k) = local[c][k]
                \/ k \in DOMAIN page[c] /\ rec(k) = page[c][k]
  <2>1. local[c][k] \in Row /\ Explained(written, k, local[c][k])
    BY DEF RowInv, RowTypes, RowsExplained
  <2>2. CASE k \in DOMAIN page[c]
    <3>1. page[c][k] \in Row /\ Explained(written, k, page[c][k])
      BY <2>2 DEF RowInv, RowTypes, RowsExplained
    <3>2. rec(k) = Reconcile(k, local[c][k], page[c][k]) BY <2>2
    <3>3. QueueInv BY DEF RowInv
    <3>4. /\ Covers(k, rec(k), local[c][k])
          /\ Covers(k, rec(k), page[c][k])
      BY <2>1, <3>1, <3>2, <3>3, ReconcileCovers
    <3>5. rec(k) \in {local[c][k], page[c][k]} BY <3>2 DEF Reconcile
    <3> QED BY <2>2, <3>4, <3>5
  <2>3. CASE k \notin DOMAIN page[c]
    <3>1. rec(k) = local[c][k] BY <2>3
    <3> QED BY <2>1, <2>3, <3>1, CoversItself
  <2> QED BY <2>2, <2>3
<1> HIDE DEF rec
<1>3. /\ \A k \in Key : local'[c][k] = rec(k)
      /\ phase'[c] = "applied"
      /\ \A d \in Device \ {c} : local'[d] = local[d] /\ phase'[d] = phase[d]
  BY <1>1 DEF RowInv, RowTypes, QueueInv, QueueTypes
<1>4. LandedRows' BY <1>1 DEF LandedRows
<1>5. CaughtRows'
  <2> SUFFICES ASSUME NEW d \in Device, NEW k \in Key
               PROVE  /\ server[k].seq <= cursor[d] => Covers(k, local'[d][k], server[k].row)
                      /\ phase'[d] = "got" /\ server[k].seq <= upto[d] =>
                           \/ Covers(k, local'[d][k], server[k].row)
                           \/ k \in DOMAIN page[d] /\ page[d][k] = server[k].row
                      /\ phase'[d] = "applied" /\ server[k].seq <= upto[d] =>
                           Covers(k, local'[d][k], server[k].row)
    BY <1>1 DEF CaughtRows
  <2>1. CASE d = c
    <3>1. Covers(k, local[d][k], server[k].row) => Covers(k, local'[d][k], server[k].row)
      <4>1. Covers(k, local'[d][k], local[d][k]) BY <1>2, <1>3, <2>1
      <4> QED BY <4>1, RowsAreRows, RowsAreRowsNext, CoversOn
    <3>2. k \in DOMAIN page[d] => Covers(k, local'[d][k], page[d][k])
      BY <1>2, <1>3, <2>1
    <3>3. server[k].seq <= cursor[d] => Covers(k, local[d][k], server[k].row)
      BY DEF CaughtRows
    <3>4. server[k].seq <= upto[d] =>
            \/ Covers(k, local[d][k], server[k].row)
            \/ k \in DOMAIN page[d] /\ page[d][k] = server[k].row
      BY <1>1, <2>1 DEF CaughtRows
    <3>5. phase'[d] = "applied" BY <1>3, <2>1
    <3> QED BY <3>1, <3>2, <3>3, <3>4, <3>5
  <2>2. CASE d # c BY <1>3, <2>2 DEF CaughtRows
  <2> QED BY <2>1, <2>2
<1>6. OwnRows'
  <2> SUFFICES ASSUME NEW d \in Device, NEW k \in Key
               PROVE  /\ local'[d][k] # Absent => server[k].row # Absent \/ Own(d, k) # {}
                      /\ k \in Kept /\ local'[d][k].dead =>
                           server[k].row.dead \/ \E p \in Own(d, k) : p.kind = "forget"
                      /\ k \in Prefs \cup Position =>
                           \/ local'[d][k].at <= server[k].row.at
                           \/ \E p \in Own(d, k) : At(p) = local'[d][k].at
                      /\ k \in DOMAIN page[d] => Covers(k, server[k].row, page[d][k])
    BY <1>1 DEF OwnRows, Own
  <2>1. CASE local'[d][k] = local[d][k] BY <2>1 DEF OwnRows
  <2>2. CASE d = c /\ k \in DOMAIN page[c] /\ rec(k) = page[c][k]
    <3>1. local'[d][k] = page[d][k] BY <1>3, <2>2
    <3>2. Covers(k, server[k].row, page[d][k]) BY <2>2 DEF OwnRows
    <3>3. page[d][k].at \in Nat /\ server[k].row.at \in Nat BY <2>2, RowsAreRows DEF Row
    <3> QED BY <3>1, <3>2, <3>3 DEF Covers
  <2> QED BY <1>2, <1>3, <2>1, <2>2
<1> QED BY <1>4, <1>5, <1>6

LEMMA PutAwayAgrees ==
  ASSUME RowInv, LandedRows, CaughtRows, OwnRows, NEW c \in Device, SaveCursor(c) \/ GiveUp(c)
  PROVE  LandedRows' /\ CaughtRows' /\ OwnRows'
<1>1. EndFlush(c) /\ UNCHANGED <<written, local, server, opLog>>
  BY DEF SaveCursor, GiveUp, serverVars, readerVars
<1>2. /\ DOMAIN page'[c] = {}
      /\ \A d \in Device \ {c} : page'[d] = page[d]
  BY <1>1, HandsEmpty DEF RowInv
<1>3. /\ phase'[c] = "idle"
      /\ \A d \in Device \ {c} : phase'[d] = phase[d] /\ upto'[d] = upto[d]
  BY <1>1 DEF EndFlush, RowInv, RowTypes, QueueInv, QueueTypes
<1>4. \A d \in Device : \/ cursor'[d] = cursor[d]
                        \/ d = c /\ cursor'[d] = upto[d] /\ phase[d] = "applied"
  BY DEF SaveCursor, GiveUp, RowInv, RowTypes
<1>5. LandedRows' BY <1>1 DEF LandedRows
<1>6. CaughtRows'
  <2> SUFFICES ASSUME NEW d \in Device, NEW k \in Key
               PROVE  /\ server[k].seq <= cursor'[d] => Covers(k, local[d][k], server[k].row)
                      /\ phase'[d] = "got" /\ server[k].seq <= upto'[d] =>
                           \/ Covers(k, local[d][k], server[k].row)
                           \/ k \in DOMAIN page'[d] /\ page'[d][k] = server[k].row
                      /\ phase'[d] = "applied" /\ server[k].seq <= upto'[d] =>
                           Covers(k, local[d][k], server[k].row)
    BY <1>1 DEF CaughtRows
  <2>1. server[k].seq <= cursor'[d] => Covers(k, local[d][k], server[k].row)
    BY <1>4 DEF CaughtRows
  <2>2. CASE d = c BY <1>3, <2>1, <2>2
  <2>3. CASE d # c BY <1>2, <1>3, <2>1, <2>3 DEF CaughtRows
  <2> QED BY <2>2, <2>3
<1>7. OwnRows'
  <2>1. \A d \in Device : \A k \in DOMAIN page'[d] : k \in DOMAIN page[d] /\ page'[d][k] = page[d][k]
    BY <1>2
  <2> QED BY <1>1, <2>1 DEF OwnRows, Own
<1> QED BY <1>5, <1>6, <1>7

LEMMA ServeAgrees ==
  ASSUME ClocksAgree, RowInv, RowInv', LandedRows, CaughtRows, OwnRows,
         NEW c \in Device, Serve(c) \/ ServeOrphan(c)
  PROVE  LandedRows' /\ CaughtRows' /\ OwnRows'
<1>1. PICK o \in written, status \in Status : Outcome(o, status)
  BY ServeQueueInv DEF RowInv
<1>2. UNCHANGED <<written, local, page, cursor, upto, phase>>
  BY DEF Serve, ServeOrphan, pullVars, readerVars
<1>3. /\ changeSeq' \in Nat /\ changeSeq <= changeSeq'
      /\ \A k \in Key : Moves(k)
      /\ opLog' = opLog
           \/ /\ opLog' = opLog \cup {o} /\ server'[o.key].row # Absent
              /\ o.kind = "forget" => server'[o.key].row.dead
              /\ o.kind = "put" => server'[o.key].row.at >= At(o)
  BY <1>1, OutcomeRows
<1>4. \A p \in written : p.key \in Key /\ At(p) \in Nat
  BY InTime DEF RowInv, QueueInv, WrittenOps, Key
<1>5. opLog \subseteq written BY DEF RowInv, QueueInv, QueueTypes
<1>6. LandedRows'
  <2> SUFFICES ASSUME NEW p \in opLog'
               PROVE  /\ server'[p.key].row # Absent
                      /\ p.kind = "forget" => server'[p.key].row.dead
                      /\ p.kind = "put" => server'[p.key].row.at >= At(p)
    BY DEF LandedRows
  <2>1. CASE p \in opLog
    <3>1. p.key \in Key /\ At(p) \in Nat BY <1>4, <1>5, <2>1
    <3>2. server[p.key].row \in Row /\ server'[p.key].row \in Row
      BY <3>1 DEF RowInv, RowTypes
    <3>3. server[p.key].row.at \in Nat /\ server'[p.key].row.at \in Nat BY <3>2 DEF Row
    <3>4. Moves(p.key) BY <1>3, <3>1
    <3> QED BY <2>1, <3>1, <3>3, <3>4 DEF LandedRows, Moves
  <2>2. CASE p \notin opLog BY <1>3, <2>2
  <2> QED BY <2>1, <2>2
<1>7. ASSUME NEW d \in Device, NEW k \in Key
      PROVE  /\ Covers(k, server'[k].row, server[k].row)
             /\ server'[k] = server[k] \/ (server'[k].seq > cursor[d] /\ server'[k].seq > upto[d])
  <2>1. Moves(k) BY <1>3
  <2>2. server'[k].seq \in Nat BY DEF RowInv, RowTypes
  <2> QED BY <2>1, <2>2, RowsAreRows DEF Moves, Covers
<1>8. CaughtRows'
  <2> SUFFICES ASSUME NEW d \in Device, NEW k \in Key
               PROVE  /\ server'[k].seq <= cursor[d] => Covers(k, local[d][k], server'[k].row)
                      /\ phase[d] = "got" /\ server'[k].seq <= upto[d] =>
                           \/ Covers(k, local[d][k], server'[k].row)
                           \/ k \in DOMAIN page[d] /\ page[d][k] = server'[k].row
                      /\ phase[d] = "applied" /\ server'[k].seq <= upto[d] =>
                           Covers(k, local[d][k], server'[k].row)
    BY <1>2 DEF CaughtRows
  <2>1. CASE server'[k] = server[k] BY <2>1 DEF CaughtRows
  <2>2. CASE server'[k].seq > cursor[d] /\ server'[k].seq > upto[d]
    <3>1. server'[k].seq \in Nat BY DEF RowInv, RowTypes
    <3> QED BY <2>2, <3>1, RowsAreRows
  <2> QED BY <1>7, <2>1, <2>2
<1>9. OwnRows'
  <2> SUFFICES ASSUME NEW d \in Device, NEW k \in Key
               PROVE  /\ local[d][k] # Absent => server'[k].row # Absent \/ Own(d, k) # {}
                      /\ k \in Kept /\ local[d][k].dead =>
                           server'[k].row.dead \/ \E p \in Own(d, k) : p.kind = "forget"
                      /\ k \in Prefs \cup Position =>
                           \/ local[d][k].at <= server'[k].row.at
                           \/ \E p \in Own(d, k) : At(p) = local[d][k].at
                      /\ k \in DOMAIN page[d] => Covers(k, server'[k].row, page[d][k])
    BY <1>2 DEF OwnRows, Own
  <2>1. Covers(k, server'[k].row, server[k].row) BY <1>7
  <2>2. k \in DOMAIN page[d] => Covers(k, server'[k].row, page[d][k])
    BY <2>1, RowsAreRows, RowsAreRowsNext, CoversOn DEF OwnRows
  <2>3. local[d][k].at \in Nat /\ server[k].row.at \in Nat /\ server'[k].row.at \in Nat
    BY RowsAreRows, RowsAreRowsNext DEF Row
  <2> QED BY <2>1, <2>2, <2>3 DEF OwnRows, Covers
<1> QED BY <1>6, <1>8, <1>9

LEMMA InitAgreeInv == Init => AgreeInv
<1> SUFFICES ASSUME Init PROVE LandedRows /\ CaughtRows /\ OwnRows
  BY InitLossInv, InitRowInv DEF AgreeInv
<1> USE DEF Init
<1>1. LandedRows BY DEF LandedRows
<1>2. CaughtRows BY AbsentIsRow, CoversItself DEF CaughtRows
<1>3. DOMAIN <<>> = {} OBVIOUS
<1>4. OwnRows BY <1>3, AbsentIsRow DEF OwnRows
<1> QED BY <1>1, <1>2, <1>4

LEMMA NextAgreeInv == ClocksAgree /\ AgreeInv /\ [Next]_vars => AgreeInv'
<1> SUFFICES ASSUME ClocksAgree, AgreeInv, [Next]_vars PROVE LandedRows' /\ CaughtRows' /\ OwnRows'
  BY NextLossInv, NextRowInv DEF AgreeInv
<1>0. /\ RowInv /\ RowInv' /\ LandedRows /\ CaughtRows /\ OwnRows /\ QueueInv
  BY NextRowInv DEF AgreeInv, RowInv
<1>1. ASSUME UNCHANGED <<written, local, page, cursor, upto, server, opLog>>,
             \A d \in Device : phase'[d] = phase[d] \/ phase'[d] \in {"push", "wait"}
      PROVE  LandedRows' /\ CaughtRows' /\ OwnRows'
  <2>1. LandedRows' BY <1>0, <1>1 DEF LandedRows
  <2>2. CaughtRows' BY <1>0, <1>1 DEF CaughtRows
  <2>3. OwnRows' BY <1>0, <1>1 DEF OwnRows, Own
  <2> QED BY <2>1, <2>2, <2>3
<1>2. ASSUME NEW d \in Device, StartFlush(d) \/ Push(d) \/ Settle(d)
      PROVE  LandedRows' /\ CaughtRows' /\ OwnRows'
  <2>1. UNCHANGED <<written, local, page, cursor, upto, server, opLog>>
    BY <1>2 DEF StartFlush, Push, Settle, pullVars, serverVars, readerVars
  <2>2. phase' = [phase EXCEPT ![d] = "push"] \/ phase' = [phase EXCEPT ![d] = "wait"]
    BY <1>2 DEF StartFlush, Push, Settle
  <2>3. \A c \in Device : phase'[c] = phase[c] \/ phase'[c] \in {"push", "wait"}
    BY <1>0, <2>2 DEF QueueInv, QueueTypes
  <2> QED BY <1>1, <2>1, <2>3
<1>3. ASSUME NEW d \in Device, NEW o \in DOMAIN outbox[d],
             Retry(d, o) \/ Discard(d, o) \/ BackoffOver(d, o)
      PROVE  LandedRows' /\ CaughtRows' /\ OwnRows'
  <2>1. UNCHANGED <<written, local, page, cursor, upto, server, opLog, phase>>
    BY <1>3 DEF Retry, Discard, BackoffOver, pullVars, serverVars, readerVars
  <2> QED BY <1>1, <2>1
<1>4. CASE UNCHANGED vars BY <1>1, <1>4 DEF vars
<1>5. ASSUME NEW d \in Device, LocalWrite(d) PROVE LandedRows' /\ CaughtRows' /\ OwnRows'
  BY <1>0, <1>5, WriteAgrees
<1>6. ASSUME NEW d \in Device, Pull(d) PROVE LandedRows' /\ CaughtRows' /\ OwnRows'
  BY <1>0, <1>6, PullAgrees
<1>7. ASSUME NEW d \in Device, Apply(d) PROVE LandedRows' /\ CaughtRows' /\ OwnRows'
  BY <1>0, <1>7, ApplyAgrees
<1>8. ASSUME NEW d \in Device, SaveCursor(d) \/ GiveUp(d)
      PROVE  LandedRows' /\ CaughtRows' /\ OwnRows'
  BY <1>0, <1>8, PutAwayAgrees
<1>9. ASSUME NEW d \in Device, Serve(d) \/ ServeOrphan(d)
      PROVE  LandedRows' /\ CaughtRows' /\ OwnRows'
  BY <1>0, <1>9, ServeAgrees
<1> QED BY <1>2, <1>3, <1>4, <1>5, <1>6, <1>7, <1>8, <1>9 DEF Next, FlushStep

\* A device with nothing left to send and nothing left to pull shows what the
\* server has, when the clocks agree: whatever it wrote is in the log and so in
\* the server's rows, and whatever its cursor has passed is in its own.
THEOREM CaughtUpDevicesAgree == ClocksAgree => (Spec => []CaughtUpAgrees)
<1> SUFFICES ASSUME ClocksAgree PROVE Spec => []CaughtUpAgrees OBVIOUS
<1>1. AgreeInv => CaughtUpAgrees BY AgreeIsEnough
<1>2. AgreeInv /\ [Next]_vars => AgreeInv' BY NextAgreeInv
<1> QED BY <1>1, <1>2, InitAgreeInv, PTL DEF Spec
=============================================================================
