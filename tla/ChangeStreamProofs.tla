------------------------- MODULE ChangeStreamProofs -------------------------
(***************************************************************************)
(* What holds of the change stream for any number of readers, handlers,    *)
(* devices, ops and rows, and for any page size.                           *)
(*                                                                         *)
(* The argument has four layers, each resting on the ones before it:       *)
(*   TypeOK     every handler that has no transaction holds nothing;       *)
(*   LockHeld   the advisory lock names the one handler past it;           *)
(*   OnceInv    the op log says which effects are committed;               *)
(*   StreamInv  numbers, cursors and pages: nothing is ever published      *)
(*              below a cursor.                                            *)
(***************************************************************************)
EXTENDS ChangeStream, TLAPS, FiniteSetTheorems

LEMMA NothingIsAVersion == Nothing \in [Row -> Nat]
BY DEF Nothing

\* The initial state has every type.
LEMMA InitTypeOK == Init => TypeOK
BY ConstantsAssumption, NothingIsAVersion DEF Init, TypeOK, Phase

\* What ending a transaction does to the handler's own state.
LEMMA EndTxnTypes ==
  ASSUME TypeOK, NEW t \in Txn, EndTxn(t)
  PROVE  /\ lock' \in [Reader -> Txn \cup {NoTxn}]
         /\ phase' \in [Txn -> Phase]
         /\ op' \in [Txn -> Op \cup {NoOp}]
         /\ done' \in [Txn -> Nat]
         /\ staged' \in [Txn -> [Row -> Nat]]
         /\ draft' \in [Txn -> Nat]
         /\ \A s \in Txn :
              /\ phase'[s] = "idle" <=> op'[s] = NoOp
              /\ phase'[s] # "writing" =>
                   done'[s] = 0 /\ staged'[s] = Nothing /\ draft'[s] = 0
<1>1. lock' \in [Reader -> Txn \cup {NoTxn}]
  BY DEF TypeOK, EndTxn
<1>2. phase' \in [Txn -> Phase] /\ op' \in [Txn -> Op \cup {NoOp}]
  BY DEF TypeOK, EndTxn, Phase
<1>3. done' \in [Txn -> Nat] /\ draft' \in [Txn -> Nat]
  BY DEF TypeOK, EndTxn
<1>4. staged' \in [Txn -> [Row -> Nat]]
  BY NothingIsAVersion DEF TypeOK, EndTxn
<1>5. \A s \in Txn :
        /\ phase'[s] = "idle" <=> op'[s] = NoOp
        /\ phase'[s] # "writing" =>
             done'[s] = 0 /\ staged'[s] = Nothing /\ draft'[s] = 0
  BY DEF TypeOK, EndTxn
<1> QED BY <1>1, <1>2, <1>3, <1>4, <1>5

\* The row the handler's next statement is about.
NextRow(t) == Statements(op[t])[done[t] + 1]

\* What one statement of an op does: it is about a row of the op's own reader;
\* it stages that row at the number it drew, or nothing; an insert-only row is
\* staged only when there is none; and a row that is not there is staged.
LEMMA WriteStages ==
  ASSUME TypeOK, NEW t \in Txn, Write(t)
  PROVE  /\ op[t] \in Op /\ done[t] + 1 \in 1..Len(OpRows[op[t]])
         /\ NextRow(t) = OpRows[op[t]][done[t] + 1]
         /\ NextRow(t) \in Row /\ RowReader[NextRow(t)] = OpReader[op[t]]
         /\ staged' \in [Txn -> [Row -> Nat]]
         /\ draft' \in [Txn -> Nat]
         /\ \A s \in Txn \ {t} : staged'[s] = staged[s] /\ draft'[s] = draft[s]
         /\ \/ staged' = staged /\ rows[NextRow(t)] > 0
            \/ /\ staged' = [staged EXCEPT ![t] = [@ EXCEPT ![NextRow(t)] = changeSeq + 1]]
               /\ NextRow(t) \in InsertOnly => rows[NextRow(t)] = 0
<1> USE ConstantsAssumption
<1>1. op[t] \in Op /\ done[t] + 1 \in 1..Len(OpRows[op[t]])
  BY DEF Write, TypeOK, Statements
<1>2. /\ NextRow(t) = OpRows[op[t]][done[t] + 1]
      /\ NextRow(t) \in Row /\ RowReader[NextRow(t)] = OpReader[op[t]]
  BY <1>1 DEF NextRow, Statements
<1> DEFINE r == NextRow(t)
<1>3. PICK moves \in Writes(r), n \in NextOrdinal(OpReader[op[t]]) :
        /\ staged' = [staged EXCEPT ![t][r] = IF moves THEN changeSeq + 1 ELSE @]
        /\ draft' = [draft EXCEPT ![t] = IF moves /\ r \in Numbered THEN n ELSE @]
  BY DEF Write, NextRow
<1> HIDE DEF r
<1>4. n \in Nat
  BY DEF NextOrdinal, OrdinalsOf, TypeOK
<1>5. r \in Row
  BY <1>2 DEF r
<1>6. CASE moves = TRUE
  <2>1. staged' = [staged EXCEPT ![t] = [@ EXCEPT ![r] = changeSeq + 1]]
    BY <1>3, <1>6
  <2>2. draft' \in [Txn -> Nat] /\ \A s \in Txn \ {t} : draft'[s] = draft[s]
    BY <1>3, <1>4 DEF TypeOK
  <2>3. r \in InsertOnly => rows[r] = 0
    BY <1>3, <1>6 DEF Writes
  <2>4. staged' \in [Txn -> [Row -> Nat]]
    <3>1. changeSeq + 1 \in Nat /\ staged[t] \in [Row -> Nat]
      BY DEF TypeOK
    <3>2. [staged[t] EXCEPT ![r] = changeSeq + 1] \in [Row -> Nat]
      BY <3>1
    <3> QED BY <2>1, <3>2 DEF TypeOK
  <2>5. \A s \in Txn \ {t} : staged'[s] = staged[s]
    BY <2>1 DEF TypeOK
  <2> QED BY <1>1, <1>2, <2>1, <2>2, <2>3, <2>4, <2>5 DEF r
<1>7. CASE moves = FALSE
  <2>1. staged' = staged
    BY <1>3, <1>7 DEF TypeOK
  <2>2. draft' = draft
    BY <1>3, <1>7 DEF TypeOK
  <2>3. rows[r] > 0
    <3>1. rows[r] # 0
      BY <1>3, <1>7, Zenon DEF Writes
    <3> QED BY <3>1, <1>5 DEF TypeOK
  <2> QED BY <1>1, <1>2, <2>1, <2>2, <2>3 DEF r, TypeOK
<1> QED BY <1>3, <1>6, <1>7 DEF Writes

\* Every step keeps every variable's type.
LEMMA NextTypeOK == TypeOK /\ [Next]_vars => TypeOK'
<1> SUFFICES ASSUME TypeOK, [Next]_vars PROVE TypeOK'
  OBVIOUS
<1> USE ConstantsAssumption
<1>1. ASSUME NEW t \in Txn, NEW o \in Op, Begin(t, o) PROVE TypeOK'
  BY <1>1 DEF TypeOK, Begin, deviceVars, Phase
<1>2. ASSUME NEW t \in Txn, LockReader(t) PROVE TypeOK'
  BY <1>2 DEF TypeOK, LockReader, deviceVars, Phase
<1>3. ASSUME NEW t \in Txn, Duplicate(t) PROVE TypeOK'
  <2>1. EndTxn(t) BY <1>3 DEF Duplicate
  <2>2. told' \in SUBSET Op BY <1>3 DEF Duplicate, TypeOK
  <2> QED BY <1>3, <2>1, <2>2, EndTxnTypes DEF Duplicate, TypeOK, deviceVars
<1>4. ASSUME NEW t \in Txn, RecordOp(t) PROVE TypeOK'
  BY <1>4 DEF TypeOK, RecordOp, deviceVars, Phase
<1>5. ASSUME NEW t \in Txn, Write(t) PROVE TypeOK'
  <2>1. staged' \in [Txn -> [Row -> Nat]] /\ draft' \in [Txn -> Nat]
    BY <1>5, WriteStages
  <2>2. \A s \in Txn : phase[s] # "writing" =>
          staged'[s] = staged[s] /\ draft'[s] = draft[s] /\ done'[s] = done[s]
    BY <1>5, WriteStages DEF Write, TypeOK
  <2> QED BY <1>5, <2>1, <2>2 DEF Write, TypeOK, deviceVars
<1>6. ASSUME NEW t \in Txn, Commit(t) PROVE TypeOK'
  <2>1. EndTxn(t) BY <1>6 DEF Commit
  <2>2. op[t] \in Op BY <1>6 DEF Commit, TypeOK
  <2>3. rows' \in [Row -> Nat] /\ ordinal' \in [Row -> Nat]
    BY <1>6 DEF Commit, TypeOK
  <2>4. opLog' \in SUBSET Op /\ told' \in SUBSET Op /\ landed' \in [Op -> Nat]
    BY <1>6, <2>2 DEF Commit, TypeOK
  <2> QED BY <1>6, <2>1, <2>3, <2>4, EndTxnTypes DEF Commit, TypeOK, deviceVars
<1>7. ASSUME NEW t \in Txn, Rollback(t) PROVE TypeOK'
  <2>1. EndTxn(t) BY <1>7 DEF Rollback
  <2> QED BY <1>7, <2>1, EndTxnTypes DEF Rollback, TypeOK, deviceVars
<1>8. ASSUME NEW d \in Device, Pull(d) PROVE TypeOK'
  <2>1. PICK P \in SUBSET PendingFrom(d, Since(d)) : \E n \in CursorAfter(d, P) :
          /\ page' = [page EXCEPT ![d] = [r \in Row |-> IF r \in P THEN rows[r] ELSE 0]]
          /\ upto' = [upto EXCEPT ![d] = n]
    BY <1>8 DEF Pull
  <2>5. PICK n \in CursorAfter(d, P) :
          /\ page' = [page EXCEPT ![d] = [r \in Row |-> IF r \in P THEN rows[r] ELSE 0]]
          /\ upto' = [upto EXCEPT ![d] = n]
    BY <2>1
  <2>2. P \subseteq Row
    BY DEF PendingFrom, Mine
  <2>3. n \in Nat
    BY <2>2 DEF CursorAfter, TypeOK
  <2>4. page' \in [Device -> [Row -> Nat]] /\ upto' \in [Device -> Nat]
    BY <2>5, <2>3 DEF TypeOK
  <2> QED BY <1>8, <2>4 DEF Pull, TypeOK, serverVars
<1>9. ASSUME NEW d \in Device, Apply(d) PROVE TypeOK'
  BY <1>9 DEF Apply, TypeOK, serverVars
<1>10. ASSUME NEW d \in Device, SaveCursor(d) PROVE TypeOK'
  BY <1>10, NothingIsAVersion DEF SaveCursor, TypeOK, serverVars
<1>11. ASSUME NEW d \in Device, Lose(d) PROVE TypeOK'
  BY <1>11, NothingIsAVersion DEF Lose, TypeOK, serverVars
<1>12. CASE UNCHANGED vars
  BY <1>12 DEF vars, TypeOK
<1> QED
  BY <1>1, <1>2, <1>3, <1>4, <1>5, <1>6, <1>7, <1>8, <1>9, <1>10, <1>11, <1>12
     DEF Next, TxnStep

\* Every state of every behaviour is well typed, and a handler without a
\* transaction holds nothing of the one before.
THEOREM TypeCorrect == Spec => []TypeOK
BY InitTypeOK, NextTypeOK, PTL DEF Spec

-----------------------------------------------------------------------------
(***************************************************************************)
(* The advisory lock.                                                      *)
(***************************************************************************)

\* A device's step leaves the server alone.
LEMMA DeviceStepIsLocal ==
  ASSUME NEW d \in Device, Pull(d) \/ Apply(d) \/ SaveCursor(d) \/ Lose(d)
  PROVE  UNCHANGED serverVars
BY DEF Pull, Apply, SaveCursor, Lose

\* The end of a transaction gives back the lock, and only its own.
LEMMA EndTxnLockHeld ==
  ASSUME TypeOK, LockHeld, NEW t \in Txn, phase[t] # "idle", EndTxn(t)
  PROVE  LockHeld'
<1> USE ConstantsAssumption
<1>1. op[t] \in Op /\ OpReader[op[t]] \in Reader
  BY DEF TypeOK
<1>2. \A s \in Txn \ {t} : phase'[s] = phase[s] /\ op'[s] = op[s]
  BY DEF EndTxn, TypeOK
<1>3. phase'[t] = "idle"
  BY DEF EndTxn, TypeOK
<1>4. \A u \in Reader : lock'[u] = IF u = OpReader[op[t]] /\ lock[u] = t THEN NoTxn ELSE lock[u]
  BY <1>1 DEF EndTxn, TypeOK
<1>5. ASSUME NEW s \in Txn, phase'[s] \in {"locked", "writing"}
      PROVE  lock'[OpReader[op'[s]]] = s
  <2>1. s # t BY <1>3, <1>5
  <2>2. phase[s] \in {"locked", "writing"} /\ op'[s] = op[s] BY <1>2, <1>5, <2>1
  <2>3. op[s] \in Op BY <2>2 DEF TypeOK
  <2> QED BY <1>4, <2>1, <2>2, <2>3 DEF LockHeld
<1>6. ASSUME NEW u \in Reader, lock'[u] # NoTxn
      PROVE  phase'[lock'[u]] \in {"locked", "writing"} /\ OpReader[op'[lock'[u]]] = u
  <2>1. lock'[u] = lock[u] /\ ~(u = OpReader[op[t]] /\ lock[u] = t) BY <1>4, <1>6
  <2>2. lock[u] \in Txn /\ OpReader[op[lock[u]]] = u /\ phase[lock[u]] \in {"locked", "writing"}
    BY <1>6, <2>1 DEF LockHeld, TypeOK
  <2>3. lock[u] # t BY <2>1, <2>2
  <2> QED BY <1>2, <2>1, <2>2, <2>3
<1> QED BY <1>5, <1>6 DEF LockHeld

LEMMA InitLockHeld == Init => LockHeld
BY ConstantsAssumption DEF Init, LockHeld

LEMMA NextLockHeld == TypeOK /\ LockHeld /\ [Next]_vars => LockHeld'
<1> SUFFICES ASSUME TypeOK, LockHeld, [Next]_vars PROVE LockHeld'
  OBVIOUS
<1> USE ConstantsAssumption
<1>1. ASSUME NEW t \in Txn, NEW o \in Op, Begin(t, o) PROVE LockHeld'
  <2>1. lock' = lock /\ phase[t] = "idle" /\ phase'[t] = "begun"
    BY <1>1 DEF Begin, TypeOK
  <2>2. \A s \in Txn \ {t} : phase'[s] = phase[s] /\ op'[s] = op[s]
    BY <1>1 DEF Begin, TypeOK
  <2>3. \A u \in Reader : lock[u] # NoTxn => lock[u] \in Txn \ {t}
    <3>1. TAKE u \in Reader
    <3>2. HAVE lock[u] # NoTxn
    <3>3. phase[lock[u]] \in {"locked", "writing"} BY <3>2 DEF LockHeld
    <3>4. lock[u] \in Txn BY <3>2 DEF TypeOK
    <3> QED BY <2>1, <3>3, <3>4
  <2>4. \A s \in Txn : phase'[s] \in {"locked", "writing"} =>
          lock'[OpReader[op'[s]]] = s
    BY <2>1, <2>2 DEF LockHeld
  <2>5. \A u \in Reader : lock'[u] # NoTxn =>
          phase'[lock'[u]] \in {"locked", "writing"} /\ OpReader[op'[lock'[u]]] = u
    BY <2>1, <2>2, <2>3 DEF LockHeld
  <2> QED BY <2>4, <2>5 DEF LockHeld
<1>2. ASSUME NEW t \in Txn, LockReader(t) PROVE LockHeld'
  <2> DEFINE u == OpReader[op[t]]
  <2>1. op[t] \in Op /\ u \in Reader /\ phase[t] = "begun"
    BY <1>2 DEF LockReader, TypeOK
  <2>2. lock[u] = NoTxn /\ lock'[u] = t /\ \A v \in Reader \ {u} : lock'[v] = lock[v]
    BY <1>2, <2>1 DEF LockReader, LockFree, TypeOK
  <2>3. op' = op /\ phase'[t] = "locked" /\ \A s \in Txn \ {t} : phase'[s] = phase[s]
    BY <1>2 DEF LockReader, TypeOK
  <2>4. \A s \in Txn \ {t} : phase[s] \in {"locked", "writing"} =>
          OpReader[op[s]] \in Reader \ {u} /\ lock[OpReader[op[s]]] = s
    <3>1. TAKE s \in Txn \ {t}
    <3>2. HAVE phase[s] \in {"locked", "writing"}
    <3>3. op[s] \in Op BY <3>2 DEF TypeOK
    <3>4. lock[OpReader[op[s]]] = s BY <3>2 DEF LockHeld
    <3> QED BY <2>2, <3>3, <3>4
  <2>5. \A v \in Reader \ {u} : lock[v] # NoTxn => lock[v] \in Txn \ {t}
    BY <2>1 DEF LockHeld, TypeOK
  <2> HIDE DEF u
  <2>6. OpReader[op[t]] = u BY DEF u
  <2>7. \A s \in Txn : phase'[s] \in {"locked", "writing"} => lock'[OpReader[op'[s]]] = s
    BY <2>2, <2>3, <2>4, <2>6
  <2>8. \A v \in Reader : lock'[v] # NoTxn =>
          phase'[lock'[v]] \in {"locked", "writing"} /\ OpReader[op'[lock'[v]]] = v
    BY <2>2, <2>3, <2>5, <2>6 DEF LockHeld
  <2> QED BY <2>7, <2>8 DEF LockHeld
<1>3. ASSUME NEW t \in Txn, RecordOp(t) PROVE LockHeld'
  BY <1>3 DEF RecordOp, LockHeld, TypeOK
<1>4. ASSUME NEW t \in Txn, Write(t) PROVE LockHeld'
  BY <1>4 DEF Write, LockHeld
<1>5. ASSUME NEW t \in Txn, Duplicate(t) \/ Commit(t) \/ Rollback(t) PROVE LockHeld'
  <2>1. EndTxn(t) /\ phase[t] # "idle" BY <1>5 DEF Duplicate, Commit, Rollback
  <2> QED BY <2>1, EndTxnLockHeld
<1>6. CASE UNCHANGED vars \/ UNCHANGED serverVars
  BY <1>6 DEF vars, serverVars, LockHeld
<1> QED
  BY <1>1, <1>2, <1>3, <1>4, <1>5, <1>6, DeviceStepIsLocal DEF Next, TxnStep

\* The advisory lock excludes: no two handlers are ever past lockReader for one
\* reader, and the lock never outlives the transaction that took it.
THEOREM LockExcludes == Spec => []LockHeld
<1>1. Spec => []TypeOK BY TypeCorrect
<1> QED BY <1>1, InitLockHeld, NextLockHeld, PTL DEF Spec

-----------------------------------------------------------------------------
(***************************************************************************)
(* The op log.                                                             *)
(***************************************************************************)

LEMMA InitOnceInv == Init => OnceInv
BY DEF Init, OnceInv

LEMMA NextOnceInv == TypeOK /\ LockHeld /\ OnceInv /\ [Next]_vars => OnceInv'
<1> SUFFICES ASSUME TypeOK, LockHeld, OnceInv, [Next]_vars PROVE OnceInv'
  OBVIOUS
<1> USE ConstantsAssumption
<1>1. ASSUME NEW t \in Txn, NEW o \in Op, Begin(t, o) PROVE OnceInv'
  BY <1>1 DEF Begin, OnceInv, TypeOK
<1>2. ASSUME NEW t \in Txn, LockReader(t) PROVE OnceInv'
  BY <1>2 DEF LockReader, OnceInv, TypeOK
<1>3. ASSUME NEW t \in Txn, Duplicate(t) PROVE OnceInv'
  BY <1>3 DEF Duplicate, EndTxn, OnceInv, TypeOK
<1>4. ASSUME NEW t \in Txn, RecordOp(t) PROVE OnceInv'
  BY <1>4 DEF RecordOp, OnceInv, TypeOK
<1>5. ASSUME NEW t \in Txn, Write(t) PROVE OnceInv'
  BY <1>5 DEF Write, OnceInv
<1>6. ASSUME NEW t \in Txn, Commit(t) PROVE OnceInv'
  <2>1. op[t] \in Op /\ op[t] \notin opLog /\ landed[op[t]] = 0
    BY <1>6 DEF Commit, OnceInv, TypeOK
  <2>2. \A o \in Op : landed'[o] = IF o \in opLog' THEN 1 ELSE 0
    BY <1>6, <2>1 DEF Commit, OnceInv, TypeOK
  <2>3. told' \subseteq opLog'
    BY <1>6 DEF Commit, OnceInv
  <2>4. ASSUME NEW s \in Txn, phase'[s] = "writing" PROVE op'[s] \notin opLog'
    <3>1. s # t /\ phase[s] = "writing" /\ op'[s] = op[s]
      BY <1>6, <2>4 DEF Commit, EndTxn, TypeOK
    <3>2. lock[OpReader[op[s]]] = s /\ lock[OpReader[op[t]]] = t
      BY <1>6, <3>1 DEF LockHeld, Commit
    <3>3. op[s] # op[t] BY <3>1, <3>2
    <3> QED BY <1>6, <3>1, <3>3 DEF Commit, OnceInv
  <2> QED BY <2>2, <2>3, <2>4 DEF OnceInv
<1>7. ASSUME NEW t \in Txn, Rollback(t) PROVE OnceInv'
  BY <1>7 DEF Rollback, EndTxn, OnceInv, TypeOK
<1>8. CASE UNCHANGED vars \/ UNCHANGED serverVars
  BY <1>8 DEF vars, serverVars, OnceInv
<1> QED
  BY <1>1, <1>2, <1>3, <1>4, <1>5, <1>6, <1>7, <1>8, DeviceStepIsLocal DEF Next, TxnStep

\* A write lands at most once however often it is sent and by however many
\* handlers at once, and what a device was told landed did.
THEOREM LandsOnce == Spec => []ExactlyOnce
<1>1. OnceInv => ExactlyOnce BY DEF OnceInv, ExactlyOnce
<1>2. Spec => []TypeOK BY TypeCorrect
<1>3. Spec => []LockHeld BY LockExcludes
<1> QED BY <1>1, <1>2, <1>3, InitOnceInv, NextOnceInv, PTL DEF Spec

-----------------------------------------------------------------------------
(***************************************************************************)
(* Numbers, cursors and pages.                                             *)
(***************************************************************************)

LEMMA InitStreamInv == Init => StreamInv
BY ConstantsAssumption DEF Init, StreamInv, StagedMine, NumbersDrawn, CommitsInOrder,
   SeqUnique, PageHonest, NothingMissed, Nothing, Mine

\* A step that commits nothing and stages nothing new, while every transaction
\* that has something staged stays on its op, leaves the stream as it was.
LEMMA QuietServerStep ==
  ASSUME TypeOK, StreamInv, UNCHANGED <<changeSeq, rows, deviceVars>>,
         \A s \in Txn :
           \/ staged'[s] = Nothing
           \/ staged'[s] = staged[s] /\ op'[s] = op[s]
  PROVE  StreamInv'
<1>1. \A s \in Txn : \A r \in Row : staged'[s][r] > 0 =>
        staged'[s] = staged[s] /\ op'[s] = op[s]
  BY DEF Nothing
<1>2. StagedMine'
  BY <1>1 DEF StreamInv, StagedMine
<1>3. CommitsInOrder'
  BY <1>1 DEF StreamInv, CommitsInOrder, deviceVars, Mine
<1>4. NumbersDrawn'
  <2>1. \A s \in Txn : \A r \in Row : staged'[s][r] = 0 \/ staged'[s][r] = staged[s][r]
    BY DEF Nothing
  <2>2. 0 <= changeSeq /\ \A s \in Txn : \A r \in Row : staged[s][r] <= changeSeq
    BY DEF StreamInv, NumbersDrawn, TypeOK
  <2>3. \A s \in Txn : \A r \in Row : staged'[s][r] <= changeSeq
    BY <2>1, <2>2
  <2> QED BY <2>3 DEF StreamInv, NumbersDrawn, deviceVars
<1>5. SeqUnique'
  BY <1>1 DEF StreamInv, SeqUnique
<1>6. PageHonest' /\ NothingMissed'
  BY DEF StreamInv, PageHonest, NothingMissed, deviceVars, Mine
<1> QED BY <1>2, <1>3, <1>4, <1>5, <1>6 DEF StreamInv

\* A handler at work has its whole reader to itself.
LEMMA AloneWithItsReader ==
  ASSUME TypeOK, LockHeld, StagedMine, NEW t \in Txn, phase[t] = "writing",
         NEW s \in Txn, s # t, NEW r \in Row, staged[s][r] > 0
  PROVE  RowReader[r] # OpReader[op[t]]
<1>1. phase[s] = "writing"
  BY DEF TypeOK, Nothing
<1>2. lock[OpReader[op[s]]] = s /\ lock[OpReader[op[t]]] = t
  BY <1>1 DEF LockHeld
<1> QED BY <1>2 DEF StagedMine

\* A statement draws a number above every number there is.
LEMMA WriteStreamInv ==
  ASSUME TypeOK, StreamInv, NEW t \in Txn, Write(t)
  PROVE  StreamInv'
<1> USE ConstantsAssumption
<1> DEFINE r == NextRow(t)
<1>1. /\ changeSeq' = changeSeq + 1 /\ changeSeq \in Nat
      /\ UNCHANGED <<rows, op, deviceVars>>
  BY DEF Write, TypeOK
<1>2. r \in Row /\ RowReader[r] = OpReader[op[t]]
  BY WriteStages
<1>3. staged' \in [Txn -> [Row -> Nat]]
  BY WriteStages
<1>4. \A s \in Txn : \A q \in Row :
        \/ staged'[s][q] = staged[s][q]
        \/ s = t /\ q = r /\ staged'[s][q] = changeSeq + 1 /\ (r \in InsertOnly => rows[r] = 0)
  <2>1. CASE staged' = staged BY <2>1
  <2>2. CASE /\ staged' = [staged EXCEPT ![t] = [@ EXCEPT ![r] = changeSeq + 1]]
             /\ r \in InsertOnly => rows[r] = 0
    BY <2>2 DEF TypeOK
  <2> QED BY <2>1, <2>2, WriteStages
<1> HIDE DEF r
<1>5. StagedMine'
  BY <1>1, <1>2, <1>4 DEF StreamInv, StagedMine
<1>10. /\ \A q \in Row : rows[q] \in Nat /\ rows[q] <= changeSeq
       /\ \A s \in Txn : \A q \in Row : staged[s][q] \in Nat /\ staged[s][q] <= changeSeq
       /\ \A d \in Device :
            /\ cursor[d] \in Nat /\ upto[d] \in Nat
            /\ cursor[d] <= changeSeq /\ upto[d] <= changeSeq
  BY DEF StreamInv, NumbersDrawn, TypeOK
<1>6. NumbersDrawn'
  <2>1. \A s \in Txn : \A q \in Row : staged'[s][q] <= changeSeq + 1
    BY <1>1, <1>4, <1>10
  <2>2. \A q \in Row : rows[q] <= changeSeq + 1
    BY <1>1, <1>10
  <2>3. \A d \in Device : cursor[d] <= changeSeq + 1 /\ upto[d] <= changeSeq + 1
    BY <1>1, <1>10
  <2> QED BY <1>1, <2>1, <2>2, <2>3 DEF NumbersDrawn, deviceVars
<1>7. CommitsInOrder'
  <2> SUFFICES ASSUME NEW s \in Txn, NEW q \in Row, staged'[s][q] > 0
               PROVE  /\ \A p \in Row : RowReader[p] = RowReader[q] => rows[p] < staged'[s][q]
                      /\ \A d \in Device : q \in Mine(d) =>
                           cursor[d] < staged'[s][q] /\ upto[d] < staged'[s][q]
    BY <1>1 DEF CommitsInOrder, deviceVars, Mine
  <2>1. CASE staged'[s][q] = staged[s][q]
    BY <2>1 DEF StreamInv, CommitsInOrder
  <2>2. CASE staged'[s][q] = changeSeq + 1
    BY <1>1, <1>10, <2>2
  <2> QED BY <1>4, <2>1, <2>2
<1>8. SeqUnique'
  <2>1. \A s \in Txn : \A p, q \in Row :
          staged'[s][p] > 0 /\ staged'[s][p] = staged'[s][q] => p = q
    <3> SUFFICES ASSUME NEW s \in Txn, NEW p \in Row, NEW q \in Row,
                        staged'[s][p] > 0, staged'[s][p] = staged'[s][q]
                 PROVE  p = q
      OBVIOUS
    <3>1. CASE staged'[s][p] = staged[s][p] /\ staged'[s][q] = staged[s][q]
      BY <3>1 DEF StreamInv, SeqUnique
    <3>2. CASE staged'[s][p] = changeSeq + 1 \/ staged'[s][q] = changeSeq + 1
      <4>1. staged'[s][p] = changeSeq + 1 /\ staged'[s][q] = changeSeq + 1
        BY <3>2
      <4>2. staged[s][p] # changeSeq + 1 /\ staged[s][q] # changeSeq + 1
        BY <1>1, <1>10
      <4> QED BY <1>4, <4>1, <4>2
    <3> QED BY <1>4, <3>1, <3>2
  <2> QED BY <1>1, <2>1 DEF StreamInv, SeqUnique
<1>9. PageHonest' /\ NothingMissed'
  BY <1>1 DEF StreamInv, PageHonest, NothingMissed, deviceVars, Mine
<1> QED BY <1>5, <1>6, <1>7, <1>8, <1>9 DEF StreamInv

\* A commit publishes above everything of its reader's, above every cursor and
\* above the end of every page in hand.
LEMMA CommitStreamInv ==
  ASSUME TypeOK, LockHeld, StreamInv, NEW t \in Txn, Commit(t)
  PROVE  StreamInv'
<1> USE ConstantsAssumption
<1>1. /\ phase[t] = "writing" /\ op[t] \in Op
      /\ UNCHANGED <<changeSeq, deviceVars>>
      /\ staged'[t] = Nothing
      /\ \A s \in Txn \ {t} : staged'[s] = staged[s] /\ op'[s] = op[s]
  BY DEF Commit, EndTxn, TypeOK
<1>2. \A r \in Row : rows'[r] = IF staged[t][r] > 0 THEN staged[t][r] ELSE rows[r]
  BY DEF Commit
<1>3. \A r \in Row : staged[t][r] > 0 => rows[r] < staged[t][r] /\ RowReader[r] = OpReader[op[t]]
  BY DEF StreamInv, CommitsInOrder, StagedMine
<1>4. \A s \in Txn : \A r \in Row : staged'[s][r] > 0 =>
        s # t /\ staged[s][r] = staged'[s][r] /\ op'[s] = op[s]
  BY <1>1 DEF Nothing
<1>5. \A s \in Txn : \A r \in Row : staged'[s][r] > 0 => RowReader[r] # OpReader[op[t]]
  BY <1>1, <1>4, AloneWithItsReader DEF StreamInv
<1>6. \A r \in Row : RowReader[r] # OpReader[op[t]] => rows'[r] = rows[r]
  BY <1>2, <1>3
<1>7. \A r \in Row : rows'[r] \in Nat /\ rows[r] \in Nat /\ staged[t][r] \in Nat
  BY <1>2 DEF TypeOK
<1>8. StagedMine'
  BY <1>4, <1>5, <1>6 DEF StreamInv, StagedMine
<1>9. NumbersDrawn'
  <2>1. \A r \in Row : rows'[r] <= changeSeq
    BY <1>2 DEF StreamInv, NumbersDrawn
  <2>2. \A s \in Txn : \A r \in Row : staged'[s][r] = 0 \/ staged'[s][r] = staged[s][r]
    BY <1>1 DEF Nothing
  <2>4. 0 <= changeSeq /\ \A s \in Txn : \A r \in Row : staged[s][r] <= changeSeq
    BY DEF StreamInv, NumbersDrawn, TypeOK
  <2>3. \A s \in Txn : \A r \in Row : staged'[s][r] <= changeSeq
    BY <2>2, <2>4
  <2> QED BY <1>1, <2>1, <2>3 DEF StreamInv, NumbersDrawn, deviceVars
<1>10. CommitsInOrder'
  BY <1>1, <1>4, <1>5, <1>6 DEF StreamInv, CommitsInOrder, deviceVars, Mine
<1>11. SeqUnique'
  <2>1. ASSUME NEW r \in Row, NEW q \in Row, rows'[r] > 0, rows'[r] = rows'[q],
               RowReader[r] = RowReader[q]
        PROVE  r = q
    <3>1. CASE staged[t][r] > 0 /\ staged[t][q] > 0
      BY <1>2, <2>1, <3>1 DEF StreamInv, SeqUnique
    <3>2. CASE staged[t][r] > 0 /\ ~(staged[t][q] > 0)
      BY <1>2, <1>7, <2>1, <3>2 DEF StreamInv, CommitsInOrder
    <3>3. CASE ~(staged[t][r] > 0) /\ staged[t][q] > 0
      BY <1>2, <1>7, <2>1, <3>3 DEF StreamInv, CommitsInOrder
    <3>4. CASE ~(staged[t][r] > 0) /\ ~(staged[t][q] > 0)
      BY <1>2, <2>1, <3>4 DEF StreamInv, SeqUnique
    <3> QED BY <3>1, <3>2, <3>3, <3>4
  <2>2. \A s \in Txn : \A r, q \in Row :
          staged'[s][r] > 0 /\ staged'[s][r] = staged'[s][q] => r = q
    BY <1>4 DEF StreamInv, SeqUnique
  <2> QED BY <2>1, <2>2 DEF SeqUnique
<1>12. \A d \in Device : \A r \in Mine(d) :
         staged[t][r] > 0 => cursor[d] < rows'[r] /\ upto[d] < rows'[r]
  BY <1>2 DEF StreamInv, CommitsInOrder, Mine
<1>13. PageHonest'
  <2> SUFFICES ASSUME NEW d \in Device, stage[d] # "idle"
               PROVE  /\ cursor[d] <= upto[d]
                      /\ \A r \in Row : page[d][r] > 0 =>
                           /\ r \in Mine(d)
                           /\ cursor[d] < page[d][r]
                           /\ page[d][r] <= rows'[r]
                           /\ page[d][r] <= upto[d]
                      /\ \A r \in Mine(d) : cursor[d] < rows'[r] /\ rows'[r] <= upto[d] =>
                           /\ page[d][r] = rows'[r]
                           /\ stage[d] = "applied" => held[d][r] = rows'[r]
    BY <1>1 DEF StreamInv, PageHonest, deviceVars, Mine
  <2>1. \A r \in Row : rows[r] <= rows'[r]
    BY <1>2, <1>3, <1>7
  <2>2. ASSUME NEW r \in Row, page[d][r] > 0 PROVE page[d][r] <= rows'[r]
    BY <1>7, <2>1, <2>2 DEF StreamInv, PageHonest, TypeOK
  <2>3. ASSUME NEW r \in Mine(d), rows'[r] <= upto[d] PROVE rows'[r] = rows[r]
    BY <1>2, <1>7, <1>12, <2>3 DEF TypeOK, Mine
  <2> QED BY <2>2, <2>3 DEF StreamInv, PageHonest
<1>14. NothingMissed'
  <2>1. ASSUME NEW d \in Device, NEW r \in Mine(d), rows'[r] <= cursor[d] PROVE rows'[r] = rows[r]
    BY <1>2, <1>7, <1>12, <2>1 DEF TypeOK, Mine
  <2> QED BY <1>1, <2>1 DEF StreamInv, NothingMissed, deviceVars, Mine
<1> QED BY <1>8, <1>9, <1>10, <1>11, <1>13, <1>14 DEF StreamInv

\* A page in hand is every row from the saved cursor to the page's end.
LEMMA PullStreamInv ==
  ASSUME TypeOK, StreamInv, NEW d \in Device, Pull(d)
  PROVE  StreamInv'
<1> USE ConstantsAssumption
<1> DEFINE All == PendingFrom(d, Since(d))
<1>1. PICK P \in SUBSET All : \E n \in CursorAfter(d, P) :
        /\ IsPage(P, All)
        /\ page' = [page EXCEPT ![d] = [r \in Row |-> IF r \in P THEN rows[r] ELSE 0]]
        /\ upto' = [upto EXCEPT ![d] = n]
  BY DEF Pull
<1>2. PICK n \in CursorAfter(d, P) :
        /\ IsPage(P, All)
        /\ page' = [page EXCEPT ![d] = [r \in Row |-> IF r \in P THEN rows[r] ELSE 0]]
        /\ upto' = [upto EXCEPT ![d] = n]
  BY <1>1
<1>3. UNCHANGED <<changeSeq, rows, staged, op, phase, cursor, held>>
  BY DEF Pull, serverVars
<1>4. /\ stage[d] = "idle" /\ stage'[d] = "got" /\ upto'[d] = n
      /\ \A r \in Row : page'[d][r] = IF r \in P THEN rows[r] ELSE 0
      /\ \A e \in Device \ {d} : stage'[e] = stage[e] /\ page'[e] = page[e] /\ upto'[e] = upto[e]
  BY <1>2 DEF Pull, TypeOK
<1>5. \A r \in P : r \in Mine(d) /\ r \in Row /\ cursor[d] < rows[r]
  BY DEF PendingFrom, Since, Mine, TypeOK
<1>6. \/ P = {} /\ n = cursor[d]
      \/ \E q \in P : n = rows[q] /\ \A p \in P : rows[p] <= rows[q]
  BY DEF CursorAfter
<1>7. cursor[d] <= n /\ n \in Nat /\ \A p \in P : rows[p] <= n
  BY <1>5, <1>6 DEF TypeOK
<1>8. \A r \in Mine(d) : cursor[d] < rows[r] /\ rows[r] <= n => r \in P
  <2> SUFFICES ASSUME NEW r \in Mine(d), cursor[d] < rows[r], rows[r] <= n, r \notin P
               PROVE  FALSE
    OBVIOUS
  <2>1. r \in All \ P /\ r \in Row
    BY DEF PendingFrom, Since, Mine, TypeOK
  <2>2. PICK q \in P : n = rows[q]
    BY <1>6, <1>7, <2>1 DEF TypeOK
  <2>3. rows[q] <= rows[r]
    BY <1>2, <2>1 DEF IsPage
  <2>4. q \in Row /\ RowReader[q] = RowReader[r]
    BY <1>5 DEF Mine
  <2>5. rows[q] = rows[r] /\ rows[r] > 0
    BY <2>1, <2>2, <2>3, <2>4 DEF TypeOK
  <2> QED BY <2>1, <2>4, <2>5 DEF StreamInv, SeqUnique
<1>9. \A t \in Txn : \A r \in Mine(d) : staged[t][r] > 0 => n < staged[t][r]
  BY <1>5, <1>6 DEF StreamInv, CommitsInOrder, Mine
<1>10. n <= changeSeq
  BY <1>5, <1>6 DEF StreamInv, NumbersDrawn
<1> HIDE DEF All
<1>11. StagedMine' /\ SeqUnique' /\ NothingMissed'
  BY <1>3 DEF StreamInv, StagedMine, SeqUnique, NothingMissed, Mine
<1>12. NumbersDrawn'
  BY <1>3, <1>4, <1>10 DEF StreamInv, NumbersDrawn
<1>13. CommitsInOrder'
  BY <1>3, <1>4, <1>9 DEF StreamInv, CommitsInOrder, Mine
<1>14. PageHonest'
  <2>1. ASSUME NEW e \in Device \ {d}
        PROVE  /\ stage'[e] = "idle" => upto'[e] = 0
               /\ stage'[e] # "idle" =>
                    /\ cursor'[e] <= upto'[e]
                    /\ \A r \in Row : page'[e][r] > 0 =>
                         /\ r \in Mine(e)
                         /\ cursor'[e] < page'[e][r]
                         /\ page'[e][r] <= rows'[r]
                         /\ page'[e][r] <= upto'[e]
                    /\ \A r \in Mine(e) : cursor'[e] < rows'[r] /\ rows'[r] <= upto'[e] =>
                         /\ page'[e][r] = rows'[r]
                         /\ stage'[e] = "applied" => held'[e][r] = rows'[r]
    BY <1>3, <1>4 DEF StreamInv, PageHonest
  <2>2. /\ cursor'[d] <= upto'[d]
        /\ \A r \in Row : page'[d][r] > 0 =>
             /\ r \in Mine(d)
             /\ cursor'[d] < page'[d][r]
             /\ page'[d][r] <= rows'[r]
             /\ page'[d][r] <= upto'[d]
    BY <1>3, <1>4, <1>5, <1>7 DEF TypeOK
  <2>3. \A r \in Mine(d) : cursor'[d] < rows'[r] /\ rows'[r] <= upto'[d] => page'[d][r] = rows'[r]
    BY <1>3, <1>4, <1>8 DEF Mine
  <2> QED BY <1>4, <2>1, <2>2, <2>3 DEF PageHonest, Mine
<1> QED BY <1>11, <1>12, <1>13, <1>14 DEF StreamInv

\* Applying a page takes no row back to an older version.
LEMMA ApplyStreamInv ==
  ASSUME TypeOK, StreamInv, NEW d \in Device, Apply(d)
  PROVE  StreamInv'
<1> USE ConstantsAssumption
<1>1. UNCHANGED <<changeSeq, rows, staged, op, phase, cursor, page, upto>>
  BY DEF Apply, serverVars
<1>2. /\ stage[d] = "got" /\ stage'[d] = "applied"
      /\ \A r \in Row : held'[d][r] = IF page[d][r] > 0 THEN page[d][r] ELSE held[d][r]
      /\ \A e \in Device \ {d} : stage'[e] = stage[e] /\ held'[e] = held[e]
  BY DEF Apply, TypeOK
<1>3. StagedMine' /\ SeqUnique' /\ NumbersDrawn' /\ CommitsInOrder'
  BY <1>1 DEF StreamInv, StagedMine, SeqUnique, NumbersDrawn, CommitsInOrder, Mine
<1>4. PageHonest'
  <2>1. ASSUME NEW r \in Mine(d), cursor[d] < rows[r], rows[r] <= upto[d]
        PROVE  held'[d][r] = rows[r]
    <3>1. page[d][r] = rows[r] /\ r \in Row
      BY <1>2, <2>1 DEF StreamInv, PageHonest, Mine
    <3>2. rows[r] > 0
      BY <2>1, <3>1 DEF TypeOK
    <3> QED BY <1>2, <3>1, <3>2
  <2> QED BY <1>1, <1>2, <2>1 DEF StreamInv, PageHonest, Mine
<1>5. NothingMissed'
  <2>1. ASSUME NEW r \in Mine(d), rows[r] > 0, rows[r] <= cursor[d] PROVE held'[d][r] = rows[r]
    <3>1. ~(page[d][r] > 0)
      <4>1. r \in Row /\ rows[r] \in Nat /\ cursor[d] \in Nat /\ page[d][r] \in Nat
        BY DEF Mine, TypeOK
      <4>2. page[d][r] > 0 => cursor[d] < page[d][r] /\ page[d][r] <= rows[r]
        BY <1>2, <4>1 DEF StreamInv, PageHonest
      <4> QED BY <2>1, <4>1, <4>2
    <3> QED BY <1>2, <2>1, <3>1 DEF StreamInv, NothingMissed, Mine
  <2> QED BY <1>1, <1>2, <2>1 DEF StreamInv, NothingMissed, Mine
<1> QED BY <1>3, <1>4, <1>5 DEF StreamInv

\* Saving the cursor claims no more than the page that was applied.
LEMMA SaveCursorStreamInv ==
  ASSUME TypeOK, StreamInv, NEW d \in Device, SaveCursor(d)
  PROVE  StreamInv'
<1> USE ConstantsAssumption
<1>1. UNCHANGED <<changeSeq, rows, staged, op, phase, held>>
  BY DEF SaveCursor, serverVars
<1>2. /\ stage[d] = "applied" /\ stage'[d] = "idle" /\ cursor'[d] = upto[d] /\ upto'[d] = 0
      /\ \A e \in Device \ {d} :
           /\ stage'[e] = stage[e] /\ cursor'[e] = cursor[e]
           /\ page'[e] = page[e] /\ upto'[e] = upto[e]
  BY DEF SaveCursor, TypeOK
<1>3. StagedMine' /\ SeqUnique'
  BY <1>1 DEF StreamInv, StagedMine, SeqUnique
<1>4. NumbersDrawn'
  <2>1. /\ changeSeq \in Nat
        /\ \A e \in Device : cursor[e] <= changeSeq /\ upto[e] <= changeSeq
    BY DEF StreamInv, NumbersDrawn, TypeOK
  <2>2. \A e \in Device : cursor'[e] <= changeSeq /\ upto'[e] <= changeSeq
    BY <1>1, <1>2, <2>1
  <2> QED BY <1>1, <2>2 DEF StreamInv, NumbersDrawn
<1>5. CommitsInOrder'
  BY <1>1, <1>2 DEF StreamInv, CommitsInOrder, Mine, TypeOK
<1>6. PageHonest'
  <2>1. \A e \in Device \ {d} : stage'[e] # "idle" \/ upto'[e] = 0
    BY <1>2 DEF StreamInv, PageHonest
  <2>2. ASSUME NEW e \in Device, stage'[e] # "idle"
        PROVE  /\ cursor[e] <= upto[e]
               /\ \A r \in Row : page[e][r] > 0 =>
                    /\ r \in Mine(e)
                    /\ cursor[e] < page[e][r]
                    /\ page[e][r] <= rows[r]
                    /\ page[e][r] <= upto[e]
               /\ \A r \in Mine(e) : cursor[e] < rows[r] /\ rows[r] <= upto[e] =>
                    /\ page[e][r] = rows[r]
                    /\ stage[e] = "applied" => held[e][r] = rows[r]
    BY <1>2, <2>2 DEF StreamInv, PageHonest
  <2>3. \A e \in Device : stage'[e] # "idle" =>
          /\ cursor'[e] = cursor[e] /\ page'[e] = page[e]
          /\ upto'[e] = upto[e] /\ stage'[e] = stage[e]
    BY <1>2
  <2> QED BY <1>1, <1>2, <2>1, <2>2, <2>3 DEF PageHonest, Mine
<1>7. NothingMissed'
  <2>1. ASSUME NEW r \in Mine(d), rows[r] > 0, rows[r] <= upto[d] PROVE held[d][r] = rows[r]
    <3>1. CASE rows[r] <= cursor[d]
      BY <2>1, <3>1 DEF StreamInv, NothingMissed
    <3>2. CASE cursor[d] < rows[r]
      BY <1>2, <2>1, <3>2 DEF StreamInv, PageHonest
    <3> QED BY <3>1, <3>2 DEF TypeOK, Mine
  <2> QED BY <1>1, <1>2, <2>1 DEF StreamInv, NothingMissed, Mine
<1> QED BY <1>3, <1>4, <1>5, <1>6, <1>7 DEF StreamInv

\* A pull given up at any point costs nothing.
LEMMA LoseStreamInv ==
  ASSUME TypeOK, StreamInv, NEW d \in Device, Lose(d)
  PROVE  StreamInv'
<1> USE ConstantsAssumption
<1>1. UNCHANGED <<changeSeq, rows, staged, op, phase, held, cursor>>
  BY DEF Lose, serverVars
<1>2. /\ stage'[d] = "idle" /\ upto'[d] = 0
      /\ \A e \in Device \ {d} : stage'[e] = stage[e] /\ page'[e] = page[e] /\ upto'[e] = upto[e]
  BY DEF Lose, TypeOK
<1>3. StagedMine' /\ SeqUnique' /\ NothingMissed'
  BY <1>1 DEF StreamInv, StagedMine, SeqUnique, NothingMissed, Mine
<1>4. NumbersDrawn'
  <2>1. /\ changeSeq \in Nat
        /\ \A e \in Device : cursor[e] <= changeSeq /\ upto[e] <= changeSeq
    BY DEF StreamInv, NumbersDrawn, TypeOK
  <2>2. \A e \in Device : cursor'[e] <= changeSeq /\ upto'[e] <= changeSeq
    BY <1>1, <1>2, <2>1
  <2> QED BY <1>1, <2>2 DEF StreamInv, NumbersDrawn
<1>5. CommitsInOrder'
  BY <1>1, <1>2 DEF StreamInv, CommitsInOrder, Mine, TypeOK
<1>6. PageHonest'
  BY <1>1, <1>2 DEF StreamInv, PageHonest, Mine
<1> QED BY <1>3, <1>4, <1>5, <1>6 DEF StreamInv

LEMMA NextStreamInv == TypeOK /\ LockHeld /\ StreamInv /\ [Next]_vars => StreamInv'
<1> SUFFICES ASSUME TypeOK, LockHeld, StreamInv, [Next]_vars PROVE StreamInv'
  OBVIOUS
<1> USE ConstantsAssumption
<1>1. ASSUME NEW t \in Txn, NEW o \in Op, Begin(t, o) PROVE StreamInv'
  <2>1. staged[t] = Nothing BY <1>1 DEF Begin, TypeOK
  <2> QED BY <1>1, <2>1, QuietServerStep DEF Begin, TypeOK
<1>2. ASSUME NEW t \in Txn, LockReader(t) \/ RecordOp(t) PROVE StreamInv'
  <2>1. UNCHANGED <<changeSeq, rows, deviceVars, staged, op>>
    BY <1>2 DEF LockReader, RecordOp
  <2>2. \A s \in Txn : staged'[s] = staged[s] /\ op'[s] = op[s]
    BY <2>1
  <2> QED BY <2>1, <2>2, QuietServerStep
<1>3. ASSUME NEW t \in Txn, Duplicate(t) \/ Rollback(t) PROVE StreamInv'
  <2>1. EndTxn(t) /\ UNCHANGED <<changeSeq, rows, deviceVars>>
    BY <1>3 DEF Duplicate, Rollback
  <2>2. \A s \in Txn :
          \/ staged'[s] = Nothing
          \/ staged'[s] = staged[s] /\ op'[s] = op[s]
    <3>1. staged'[t] = Nothing BY <2>1 DEF EndTxn, TypeOK
    <3>2. \A s \in Txn \ {t} : staged'[s] = staged[s] /\ op'[s] = op[s]
      BY <2>1 DEF EndTxn, TypeOK
    <3>3. TAKE s \in Txn
    <3>4. CASE s = t BY <3>1, <3>4
    <3>5. CASE s # t BY <3>2, <3>5
    <3> QED BY <3>4, <3>5
  <2> QED BY <2>1, <2>2, QuietServerStep
<1>4. CASE UNCHANGED vars
  BY <1>4, QuietServerStep DEF vars, deviceVars
<1> QED
  BY <1>1, <1>2, <1>3, <1>4, WriteStreamInv, CommitStreamInv, PullStreamInv, ApplyStreamInv,
     SaveCursorStreamInv, LoseStreamInv DEF Next, TxnStep

\* The inductive invariant behind the next two: whoever is past lockReader and
\* has drawn a number holds the lock, drew above all that is committed, and a
\* page cut by Changes carries everything between its cursor and its end.
THEOREM StreamInvariant == Spec => []StreamInv
<1>1. Spec => []TypeOK BY TypeCorrect
<1>2. Spec => []LockHeld BY LockExcludes
<1> QED BY <1>1, <1>2, InitStreamInv, NextStreamInv, PTL DEF Spec

\* A pull never misses a write, whatever the handlers' order, the page size,
\* the lost answers and the restarts.
THEOREM NeverMisses == Spec => []NothingMissed
BY StreamInvariant, PTL DEF StreamInv

\* Numbers become visible in the order they were drawn, reader by reader.
THEOREM CommitOrder == Spec => []CommitsInOrder
BY StreamInvariant, PTL DEF StreamInv

-----------------------------------------------------------------------------
(***************************************************************************)
(* The set before its prayer.                                              *)
(***************************************************************************)

\* The three parts of ParentInv that are not ParentFirst.
Progress(t) ==
  phase[t] = "writing" =>
    /\ done[t] <= Len(OpRows[op[t]])
    /\ \A i \in 1..done[t] :
         rows[OpRows[op[t]][i]] > 0 \/ staged[t][OpRows[op[t]][i]] > 0
    /\ \A r \in Row : staged[t][r] > 0 => \E i \in 1..done[t] : r = OpRows[op[t]][i]

SortsAfterItsSet(r) ==
  /\ rows[r] > 0 => 0 < rows[Parent[r]] /\ rows[Parent[r]] < rows[r]
  /\ \A t \in Txn : staged[t][r] > 0 =>
       \/ rows[Parent[r]] > 0
       \/ 0 < staged[t][Parent[r]] /\ staged[t][Parent[r]] < staged[t][r]
  /\ \A d \in Device : stage[d] # "idle" /\ page[d][r] > 0 =>
       0 < rows[Parent[r]] /\ rows[Parent[r]] < page[d][r]

LEMMA ParentInvParts ==
  ParentInv <=> /\ \A t \in Txn : Progress(t)
                /\ \A r \in Row : Parent[r] # NoRow => SortsAfterItsSet(r)
                /\ ParentFirst
BY DEF ParentInv, Progress, SortsAfterItsSet

LEMMA InitParentInv == Init => ParentInv
<1> SUFFICES ASSUME Init PROVE ParentInv
  OBVIOUS
<1> USE ConstantsAssumption DEF Init, Nothing
<1>1. \A t \in Txn : Progress(t) BY DEF Progress
<1>2. \A r \in Row : Parent[r] # NoRow => SortsAfterItsSet(r) BY DEF SortsAfterItsSet
<1>3. ParentFirst BY DEF ParentFirst
<1> QED BY <1>1, <1>2, <1>3, ParentInvParts

\* A server step that commits nothing, and leaves every transaction that is
\* still writing as it was.
LEMMA QuietParentStep ==
  ASSUME TypeOK, ParentInv, UNCHANGED <<rows, deviceVars>>,
         \A s \in Txn :
           \/ phase'[s] # "writing" /\ staged'[s] = Nothing
           \/ op'[s] \in Op /\ done'[s] = 0 /\ staged'[s] = Nothing
           \/ /\ phase'[s] = phase[s] /\ done'[s] = done[s]
              /\ staged'[s] = staged[s] /\ op'[s] = op[s]
  PROVE  ParentInv'
<1> USE ConstantsAssumption
<1>1. ASSUME NEW s \in Txn PROVE Progress(s)'
  <2>1. CASE phase'[s] # "writing" BY <2>1 DEF Progress
  <2>2. CASE op'[s] \in Op /\ done'[s] = 0 /\ staged'[s] = Nothing
    <3>1. Len(OpRows[op'[s]]) \in Nat BY <2>2
    <3>2. \A r \in Row : ~(staged'[s][r] > 0) BY <2>2 DEF Nothing
    <3>3. 1..done'[s] = {} /\ done'[s] <= Len(OpRows[op'[s]]) BY <2>2, <3>1
    <3>4. \A i \in 1..done'[s] : FALSE BY <3>3
    <3>5. \A i \in 1..done'[s] :
            rows'[OpRows[op'[s]][i]] > 0 \/ staged'[s][OpRows[op'[s]][i]] > 0
      BY <3>4
    <3> QED BY <3>2, <3>3, <3>5, Zenon DEF Progress
  <2>3. CASE /\ phase'[s] = phase[s] /\ done'[s] = done[s]
             /\ staged'[s] = staged[s] /\ op'[s] = op[s]
    <3>1. Progress(s) BY ParentInvParts
    <3>2. rows' = rows OBVIOUS
    <3> QED BY <2>3, <3>1, <3>2 DEF Progress
  <2> QED BY <2>1, <2>2, <2>3
<1>2. ASSUME NEW r \in Row, Parent[r] # NoRow PROVE SortsAfterItsSet(r)'
  <2>1. SortsAfterItsSet(r) BY <1>2, ParentInvParts
  <2>2. \A s \in Txn : staged'[s][r] > 0 => staged'[s] = staged[s] BY DEF Nothing
  <2> QED BY <2>1, <2>2 DEF SortsAfterItsSet, deviceVars
<1>3. ParentFirst' BY ParentInvParts DEF ParentFirst, deviceVars
<1> QED BY <1>1, <1>2, <1>3 DEF ParentInv, Progress, SortsAfterItsSet

\* What writing the next row of an op means for sets and prayers.
LEMMA WriteParentInv ==
  ASSUME TypeOK, StreamInv, ParentInv, NEW t \in Txn, Write(t)
  PROVE  ParentInv'
<1> USE ConstantsAssumption
<1> DEFINE q == NextRow(t)
           o == op[t]
           n == done[t]
<1>1. /\ phase[t] = "writing" /\ n \in Nat /\ n < Len(OpRows[o])
      /\ changeSeq \in Nat /\ done'[t] = n + 1
      /\ \A s \in Txn \ {t} : done'[s] = done[s]
      /\ UNCHANGED <<rows, op, phase, deviceVars>>
  BY DEF Write, Statements, TypeOK
<1>2. o \in Op /\ n + 1 \in 1..Len(OpRows[o]) /\ q = OpRows[o][n + 1] /\ q \in Row
  BY WriteStages
<1>3. /\ staged' \in [Txn -> [Row -> Nat]]
      /\ \A s \in Txn \ {t} : staged'[s] = staged[s]
  BY WriteStages
<1>4. /\ \A r \in Row \ {q} : staged'[t][r] = staged[t][r]
      /\ \/ staged'[t][q] = staged[t][q] /\ rows[q] > 0
         \/ staged'[t][q] = changeSeq + 1
  <2>1. CASE staged' = staged /\ rows[q] > 0 BY <2>1
  <2>2. CASE staged' = [staged EXCEPT ![t] = [@ EXCEPT ![q] = changeSeq + 1]]
    BY <1>2, <2>2 DEF TypeOK
  <2> QED BY <2>1, <2>2, WriteStages
<1>5. (staged'[t][q] = staged[t][q] /\ rows[q] > 0) \/ staged'[t][q] = changeSeq + 1
  BY <1>4
<1>6. \A r \in Row : rows[r] \in Nat /\ staged[t][r] \in Nat /\ staged[t][r] <= changeSeq
  BY DEF StreamInv, NumbersDrawn, TypeOK
<1>7. Progress(t)
  BY ParentInvParts
<1>8. \A i \in 1..(n + 1) : OpRows[o][i] \in Row
  BY <1>1, <1>2
<1> HIDE DEF q, o, n
<1>9. Progress(t)'
  <2>1. n + 1 <= Len(OpRows[o])
    BY <1>2
  <2>2. ASSUME NEW i \in 1..(n + 1)
        PROVE  rows[OpRows[o][i]] > 0 \/ staged'[t][OpRows[o][i]] > 0
    <3>1. OpRows[o][i] \in Row BY <1>8
    <3>2. CASE OpRows[o][i] = q BY <1>5, <1>1, <3>2
    <3>3. CASE OpRows[o][i] # q
      <4>1. i \in 1..n BY <1>1, <1>2, <3>3
      <4>2. rows[OpRows[o][i]] > 0 \/ staged[t][OpRows[o][i]] > 0
        BY <1>1, <1>7, <4>1 DEF Progress, o, n
      <4> QED BY <1>4, <3>1, <3>3, <4>2
    <3> QED BY <3>2, <3>3
  <2>3. ASSUME NEW r \in Row, staged'[t][r] > 0
        PROVE  \E i \in 1..(n + 1) : r = OpRows[o][i]
    <3>1. CASE r = q BY <1>1, <1>2, <3>1
    <3>2. CASE r # q
      <4>1. PICK i \in 1..n : r = OpRows[o][i]
        BY <1>1, <1>4, <1>7, <2>3, <3>2 DEF Progress, o, n
      <4> QED BY <1>1, <4>1
    <3> QED BY <3>1, <3>2
  <2>4. op'[t] = o /\ done'[t] = n + 1 /\ rows' = rows
    BY <1>1 DEF o
  <2> QED BY <2>1, <2>2, <2>3, <2>4 DEF Progress
<1>10. ASSUME NEW s \in Txn \ {t} PROVE Progress(s)'
  <2>1. Progress(s) BY ParentInvParts
  <2> QED BY <1>1, <1>3, <2>1 DEF Progress
<1>11. ASSUME NEW r \in Row, Parent[r] # NoRow PROVE SortsAfterItsSet(r)'
  <2>1. SortsAfterItsSet(r) BY <1>11, ParentInvParts
  <2>2. Parent[r] \in Numbered /\ Parent[r] \in Row
    BY <1>11, ParentAssumption
  <2>3. ASSUME staged'[t][r] > 0
        PROVE  \/ rows[Parent[r]] > 0
               \/ 0 < staged'[t][Parent[r]] /\ staged'[t][Parent[r]] < staged'[t][r]
    <3>1. PICK i \in 1..(n + 1) : r = OpRows[o][i]
      BY <1>1, <1>9, <2>3 DEF Progress, o, n
    <3>2. i \in 1..Len(OpRows[o]) BY <1>1, <1>2, <3>1
    <3>3. PICK j \in 1..(i - 1) : OpRows[o][j] = Parent[r]
      BY <1>2, <1>11, <3>1, <3>2, ParentAssumption
    <3>4. j \in 1..n /\ j # n + 1 /\ j \in 1..Len(OpRows[o])
      BY <1>1, <1>2, <3>1, <3>2, <3>3
    <3>5. Parent[r] # q
      BY <1>2, <2>2, <3>3, <3>4, ParentAssumption
    <3>6. rows[Parent[r]] > 0 \/ staged[t][Parent[r]] > 0
      BY <1>1, <1>7, <3>3, <3>4 DEF Progress, o, n
    <3>7. staged'[t][Parent[r]] = staged[t][Parent[r]]
      BY <1>4, <2>2, <3>5
    <3>8. CASE staged'[t][r] = staged[t][r]
      BY <2>1, <2>3, <3>7, <3>8 DEF SortsAfterItsSet
    <3>9. CASE staged'[t][r] = changeSeq + 1
      BY <1>1, <1>6, <2>2, <3>6, <3>7, <3>9
    <3> QED BY <1>4, <1>5, <3>8, <3>9
  <2> QED BY <1>1, <1>3, <2>1, <2>3 DEF SortsAfterItsSet, deviceVars
<1>12. ParentFirst'
  BY <1>1, ParentInvParts DEF ParentFirst, deviceVars
<1>13. \A s \in Txn : Progress(s)'
  BY <1>9, <1>10
<1> QED BY <1>11, <1>12, <1>13 DEF ParentInv, Progress, SortsAfterItsSet

\* A commit publishes a prayer with its set, or after it.
LEMMA CommitParentInv ==
  ASSUME TypeOK, LockHeld, StreamInv, ParentInv, NEW t \in Txn, Commit(t)
  PROVE  ParentInv'
<1> USE ConstantsAssumption
<1>1. /\ op[t] \in Op /\ phase'[t] = "idle" /\ staged'[t] = Nothing
      /\ UNCHANGED deviceVars
      /\ \A s \in Txn \ {t} :
           /\ phase'[s] = phase[s] /\ op'[s] = op[s]
           /\ done'[s] = done[s] /\ staged'[s] = staged[s]
  BY DEF Commit, EndTxn, TypeOK
<1>2. \A r \in Row : rows'[r] = IF staged[t][r] > 0 THEN staged[t][r] ELSE rows[r]
  BY DEF Commit
<1>3. \A r \in Row : rows'[r] \in Nat /\ rows[r] \in Nat /\ staged[t][r] \in Nat
  BY <1>2 DEF TypeOK
<1>4. \A r \in Row : rows[r] > 0 => rows'[r] > 0
  BY <1>2, <1>3
<1>5. \A r \in InsertOnly : rows[r] > 0 => rows'[r] = rows[r]
  BY <1>2, <1>3 DEF StreamInv, StagedMine
<1>6. ASSUME NEW s \in Txn PROVE Progress(s)'
  <2>1. CASE s = t BY <1>1, <2>1 DEF Progress
  <2>2. CASE s # t
    <3>1. Progress(s) BY ParentInvParts
    <3>4. /\ phase'[s] = phase[s] /\ op'[s] = op[s]
          /\ done'[s] = done[s] /\ staged'[s] = staged[s]
      BY <1>1, <2>2
    <3> SUFFICES ASSUME phase[s] = "writing"
                 PROVE  /\ done[s] <= Len(OpRows[op[s]])
                        /\ \A i \in 1..done[s] :
                             rows'[OpRows[op[s]][i]] > 0 \/ staged[s][OpRows[op[s]][i]] > 0
                        /\ \A r \in Row : staged[s][r] > 0 =>
                             \E i \in 1..done[s] : r = OpRows[op[s]][i]
      BY <3>4 DEF Progress
    <3>2. op[s] \in Op BY DEF TypeOK
    <3>3. \A i \in 1..done[s] : OpRows[op[s]][i] \in Row
      BY <3>1, <3>2 DEF Progress, TypeOK
    <3> QED BY <1>4, <3>1, <3>3 DEF Progress
  <2> QED BY <2>1, <2>2
<1>7. ASSUME NEW r \in Row, Parent[r] # NoRow PROVE SortsAfterItsSet(r)'
  <2> DEFINE p == Parent[r]
  <2>1. SortsAfterItsSet(r) BY <1>7, ParentInvParts
  <2>2. p \in InsertOnly /\ p \in Row /\ RowReader[p] = RowReader[r]
    BY <1>7, ParentAssumption
  <2>3. rows[p] > 0 => rows'[p] = rows[p]
    BY <1>5, <2>2
  <2> HIDE DEF p
  <2>4. ASSUME rows'[r] > 0 PROVE 0 < rows'[p] /\ rows'[p] < rows'[r]
    <3>1. CASE ~(staged[t][r] > 0)
      BY <1>2, <2>1, <2>3, <2>4, <3>1 DEF SortsAfterItsSet, p
    <3>2. CASE staged[t][r] > 0 /\ rows[p] > 0
      <4>1. rows[p] < staged[t][r] BY <2>2, <3>2 DEF StreamInv, CommitsInOrder
      <4> QED BY <1>2, <2>2, <2>3, <3>2, <4>1
    <3>3. CASE staged[t][r] > 0 /\ ~(rows[p] > 0)
      <4>1. 0 < staged[t][p] /\ staged[t][p] < staged[t][r]
        BY <2>1, <3>3 DEF SortsAfterItsSet, p
      <4> QED BY <1>2, <2>2, <3>3, <4>1
    <3> QED BY <3>1, <3>2, <3>3
  <2>5. ASSUME NEW s \in Txn, staged'[s][r] > 0
        PROVE  \/ rows'[p] > 0
               \/ 0 < staged'[s][p] /\ staged'[s][p] < staged'[s][r]
    <3>1. s # t BY <1>1, <2>5 DEF Nothing
    <3>2. staged'[s] = staged[s] BY <1>1, <3>1
    <3> QED BY <2>1, <2>3, <2>5, <3>2 DEF SortsAfterItsSet, p
  <2>6. \A d \in Device : stage[d] # "idle" /\ page[d][r] > 0 =>
          0 < rows'[p] /\ rows'[p] < page[d][r]
    BY <2>1, <2>3 DEF SortsAfterItsSet, p
  <2> QED BY <1>1, <2>4, <2>5, <2>6 DEF SortsAfterItsSet, deviceVars, p
<1>8. ParentFirst'
  BY <1>1, ParentInvParts DEF ParentFirst, deviceVars
<1> QED BY <1>6, <1>7, <1>8 DEF ParentInv, Progress, SortsAfterItsSet

\* A page carries a prayer only with its set, or after its set was applied.
LEMMA DeviceParentInv ==
  ASSUME TypeOK, StreamInv, ParentInv,
         NEW d \in Device, Pull(d) \/ Apply(d) \/ SaveCursor(d) \/ Lose(d)
  PROVE  ParentInv'
<1> USE ConstantsAssumption
<1>1. UNCHANGED serverVars BY DeviceStepIsLocal
<1>2. ASSUME NEW s \in Txn PROVE Progress(s)'
  <2>1. Progress(s) BY ParentInvParts
  <2> QED BY <1>1, <2>1 DEF Progress, serverVars
<1>3. ASSUME NEW r \in Row, Parent[r] # NoRow PROVE SortsAfterItsSet(r)'
  <2>1. SortsAfterItsSet(r) BY <1>3, ParentInvParts
  <2>2. ASSUME NEW e \in Device, stage'[e] # "idle", page'[e][r] > 0
        PROVE  0 < rows[Parent[r]] /\ rows[Parent[r]] < page'[e][r]
    <3>1. CASE stage[e] # "idle" /\ page'[e] = page[e]
      BY <2>1, <2>2, <3>1 DEF SortsAfterItsSet
    <3>2. CASE page'[e][r] = rows[r]
      BY <2>1, <2>2, <3>2 DEF SortsAfterItsSet
    <3>3. CASE Pull(d)
      <4>1. CASE e # d BY <2>2, <3>1, <3>3, <4>1 DEF Pull, TypeOK
      <4>2. CASE e = d
        <5>1. PICK P \in SUBSET PendingFrom(d, Since(d)) :
                page' = [page EXCEPT ![d] = [q \in Row |-> IF q \in P THEN rows[q] ELSE 0]]
          BY <3>3 DEF Pull
        <5>2. page'[d][r] = IF r \in P THEN rows[r] ELSE 0
          BY <5>1 DEF TypeOK
        <5> QED BY <2>2, <3>2, <4>2, <5>2
      <4> QED BY <4>1, <4>2
    <3>4. CASE Apply(d) BY <2>2, <3>1, <3>4 DEF Apply, TypeOK
    <3>5. CASE SaveCursor(d) \/ Lose(d)
      <4>1. e # d BY <2>2, <3>5 DEF SaveCursor, Lose, TypeOK
      <4>2. stage[e] = stage'[e] /\ page'[e] = page[e]
        BY <3>5, <4>1 DEF SaveCursor, Lose, TypeOK
      <4> QED BY <2>2, <3>1, <4>2
    <3> QED BY <3>3, <3>4, <3>5
  <2> QED BY <1>1, <2>1, <2>2 DEF SortsAfterItsSet, serverVars
<1>4. ParentFirst'
  <2>1. ASSUME Apply(d), NEW e \in Device, NEW r \in Row, held'[e][r] > 0, Parent[r] # NoRow
        PROVE  held'[e][Parent[r]] > 0
    <3> DEFINE p == Parent[r]
    <3>1. p \in Row /\ RowReader[p] = RowReader[r] BY <2>1, ParentAssumption
    <3>2. \A q \in Row : held'[d][q] = IF page[d][q] > 0 THEN page[d][q] ELSE held[d][q]
      BY <2>1 DEF Apply, TypeOK
    <3>3. e # d => held'[e] = held[e] BY <2>1 DEF Apply, TypeOK
    <3>4. held[e][r] > 0 => held[e][p] > 0
      BY <2>1, ParentInvParts DEF ParentFirst
    <3>5. stage[d] = "got" BY <2>1 DEF Apply
    <3> HIDE DEF p
    <3>6. ASSUME page[d][r] > 0 PROVE page[d][p] > 0 \/ held[d][p] > 0
      <4>1. /\ r \in Mine(d) /\ page[d][r] <= upto[d]
        BY <3>5, <3>6 DEF StreamInv, PageHonest
      <4>2. p \in Mine(d) BY <3>1, <4>1 DEF Mine
      <4>3. 0 < rows[p] /\ rows[p] < page[d][r]
        BY <2>1, <3>5, <3>6, ParentInvParts DEF SortsAfterItsSet, p
      <4>4. /\ rows[p] \in Nat /\ cursor[d] \in Nat /\ upto[d] \in Nat /\ page[d][r] \in Nat
        BY <3>1 DEF TypeOK
      <4>5. CASE rows[p] <= cursor[d]
        BY <3>1, <4>2, <4>3, <4>5 DEF StreamInv, NothingMissed
      <4>6. CASE cursor[d] < rows[p]
        <5>1. rows[p] <= upto[d] BY <4>1, <4>3, <4>4
        <5> QED BY <3>5, <4>2, <4>3, <4>6, <5>1 DEF StreamInv, PageHonest
      <4> QED BY <4>4, <4>5, <4>6
    <3>7. CASE e # d BY <2>1, <3>3, <3>4, <3>7 DEF p
    <3>8. CASE e = d
      <4>1. page[d][p] > 0 \/ held[d][p] > 0
        BY <2>1, <3>2, <3>4, <3>6, <3>8
      <4> QED BY <3>1, <3>2, <3>8, <4>1 DEF p
    <3> QED BY <3>7, <3>8
  <2>2. CASE Apply(d) BY <2>1, <2>2 DEF ParentFirst
  <2>3. CASE held' = held BY <2>3, ParentInvParts DEF ParentFirst
  <2> QED BY <2>2, <2>3 DEF Pull, SaveCursor, Lose
<1> QED BY <1>2, <1>3, <1>4 DEF ParentInv, Progress, SortsAfterItsSet

LEMMA NextParentInv ==
  TypeOK /\ LockHeld /\ StreamInv /\ ParentInv /\ [Next]_vars => ParentInv'
<1> SUFFICES ASSUME TypeOK, LockHeld, StreamInv, ParentInv, [Next]_vars PROVE ParentInv'
  OBVIOUS
<1> USE ConstantsAssumption
<1>1. ASSUME NEW t \in Txn, NEW o \in Op, Begin(t, o) PROVE ParentInv'
  <2>1. UNCHANGED <<rows, deviceVars, staged, done>> /\ staged[t] = Nothing /\ phase'[t] # "writing"
    BY <1>1 DEF Begin, TypeOK
  <2>2. \A s \in Txn \ {t} : phase'[s] = phase[s] /\ op'[s] = op[s]
    BY <1>1 DEF Begin, TypeOK
  <2> QED BY <2>1, <2>2, QuietParentStep
<1>2. ASSUME NEW t \in Txn, LockReader(t) \/ RecordOp(t) PROVE ParentInv'
  <2>1. /\ UNCHANGED <<rows, deviceVars, staged, done, op>>
        /\ op[t] \in Op /\ staged[t] = Nothing /\ done[t] = 0
    BY <1>2 DEF LockReader, RecordOp, TypeOK
  <2>2. \A s \in Txn \ {t} : phase'[s] = phase[s]
    BY <1>2 DEF LockReader, RecordOp, TypeOK
  <2> QED BY <2>1, <2>2, QuietParentStep
<1>3. ASSUME NEW t \in Txn, Duplicate(t) \/ Rollback(t) PROVE ParentInv'
  <2>1. EndTxn(t) /\ UNCHANGED <<rows, deviceVars>>
    BY <1>3 DEF Duplicate, Rollback
  <2>2. /\ phase'[t] = "idle" /\ staged'[t] = Nothing
        /\ \A s \in Txn \ {t} :
             /\ phase'[s] = phase[s] /\ done'[s] = done[s]
             /\ staged'[s] = staged[s] /\ op'[s] = op[s]
    BY <2>1 DEF EndTxn, TypeOK
  <2> QED BY <2>1, <2>2, QuietParentStep
<1>4. CASE UNCHANGED vars
  BY <1>4, QuietParentStep DEF vars, deviceVars
<1> QED
  BY <1>1, <1>2, <1>3, <1>4, WriteParentInv, CommitParentInv, DeviceParentInv DEF Next, TxnStep

\* A prayer sorts after its set wherever the two are: committed, staged, in a
\* page or on a device.
THEOREM ParentInvariant == Spec => []ParentInv
<1>1. Spec => []TypeOK BY TypeCorrect
<1>2. Spec => []LockHeld BY LockExcludes
<1>3. Spec => []StreamInv BY StreamInvariant
<1> QED BY <1>1, <1>2, <1>3, InitParentInv, NextParentInv, PTL DEF Spec

\* A device never holds a prayer without the set it names, wherever a page ends.
THEOREM SetBeforePrayer == Spec => []ParentFirst
BY ParentInvariant, PTL DEF ParentInv

-----------------------------------------------------------------------------
(***************************************************************************)
(* The numbering of the sets.                                              *)
(***************************************************************************)

LEMMA NumberedAreRows == Numbered \subseteq InsertOnly /\ InsertOnly \subseteq Row
BY ConstantsAssumption

LEMMA InitOrdinalInv == Init => OrdinalInv
<1> SUFFICES ASSUME Init PROVE OrdinalInv
  OBVIOUS
<1>1. \A r \in Row : ordinal[r] = 0 /\ rows[r] = 0 BY DEF Init, Nothing
<1>2. \A u \in Reader : SetsOf(u) = {} BY <1>1, NumberedAreRows DEF SetsOf
<1>3. IsFiniteSet({}) /\ Cardinality({}) = 0 BY FS_EmptySet
<1>4. ASSUME NEW u \in Reader PROVE {ordinal[r] : r \in SetsOf(u)} = 1..Cardinality(SetsOf(u))
  <2>1. {ordinal[r] : r \in {}} = {} /\ 1..0 = {} OBVIOUS
  <2> QED BY <1>2, <1>3, <2>1
<1>5. \A t \in Txn : \A r \in Numbered : ~(staged[t][r] > 0)
  BY NumberedAreRows DEF Init, Nothing
<1> QED BY <1>1, <1>2, <1>3, <1>4, <1>5 DEF OrdinalInv, OrdinalsDense

\* A step that commits nothing and computes no ordinal.
LEMMA QuietOrdinalStep ==
  ASSUME OrdinalInv, UNCHANGED <<rows, ordinal>>,
         \A s \in Txn :
           \/ staged'[s] = Nothing
           \/ staged'[s] = staged[s] /\ draft'[s] = draft[s] /\ op'[s] = op[s]
  PROVE  OrdinalInv'
<1>1. \A u : SetsOf(u)' = SetsOf(u) BY DEF SetsOf
<1>2. OrdinalsDense'
  <2>1. ASSUME NEW u \in Reader
        PROVE  {ordinal'[r] : r \in SetsOf(u)'} = 1..Cardinality(SetsOf(u)')
    <3>1. {ordinal[r] : r \in SetsOf(u)} = 1..Cardinality(SetsOf(u))
      BY DEF OrdinalInv, OrdinalsDense
    <3> QED BY <3>1, <1>1
  <2> QED BY <2>1 DEF OrdinalsDense
<1>3. ASSUME NEW s \in Txn, NEW r \in Numbered, staged'[s][r] > 0
      PROVE  draft'[s] = Cardinality(SetsOf(OpReader[op[s]])') + 1
  <2>1. staged'[s] = staged[s] /\ draft'[s] = draft[s] /\ op'[s] = op[s]
    BY <1>3, NumberedAreRows DEF Nothing
  <2>2. draft[s] = Cardinality(SetsOf(OpReader[op[s]])) + 1
    BY <1>3, <2>1 DEF OrdinalInv
  <2> QED BY <1>1, <2>1, <2>2
<1>4. /\ \A r \in Row : r \notin Numbered \/ rows'[r] = 0 => ordinal'[r] = 0
      /\ \A u \in Reader : IsFiniteSet(SetsOf(u)')
  BY <1>1 DEF OrdinalInv
<1> QED BY <1>2, <1>3, <1>4 DEF OrdinalInv

\* MAX(ordinal) + 1 is one more than there are sets.
LEMMA NextOrdinalCounts ==
  ASSUME TypeOK, OrdinalInv, NEW u \in Reader, NEW n \in NextOrdinal(u)
  PROVE  n = Cardinality(SetsOf(u)) + 1
<1> DEFINE k == Cardinality(SetsOf(u))
<1>1. k \in Nat BY FS_CardinalityType DEF OrdinalInv
<1>2. {ordinal[r] : r \in SetsOf(u)} = 1..k BY DEF OrdinalInv, OrdinalsDense
<1>3. PICK m \in OrdinalsOf(u) : n = m + 1 /\ \A j \in OrdinalsOf(u) : j <= m
  BY DEF NextOrdinal
<1>4. ASSUME NEW j \in OrdinalsOf(u) PROVE j \in 0..k
  <2>1. CASE j = 0 BY <2>1, <1>1
  <2>2. ASSUME NEW r \in Row, RowReader[r] = u, j = ordinal[r] PROVE j \in 0..k
    <3>1. CASE r \in SetsOf(u) BY <3>1, <2>2, <1>1, <1>2
    <3>2. CASE r \notin SetsOf(u)
      <4>1. r \notin Numbered \/ rows[r] = 0 BY <3>2, <2>2 DEF SetsOf, TypeOK
      <4> QED BY <4>1, <2>2, <1>1 DEF OrdinalInv
    <3> QED BY <3>1, <3>2
  <2> QED BY <2>1, <2>2 DEF OrdinalsOf
<1>5. k \in OrdinalsOf(u)
  <2>1. CASE k = 0 BY <2>1 DEF OrdinalsOf
  <2>2. CASE k # 0
    <3>1. k \in 1..k BY <2>2, <1>1
    <3>2. PICK r \in SetsOf(u) : ordinal[r] = k BY <3>1, <1>2
    <3>3. r \in Row /\ RowReader[r] = u BY NumberedAreRows DEF SetsOf
    <3> QED BY <3>2, <3>3 DEF OrdinalsOf
  <2> QED BY <2>1, <2>2
<1> HIDE DEF k
<1>6. m \in 0..k /\ k <= m BY <1>3, <1>4, <1>5
<1>7. n = k + 1 BY <1>1, <1>3, <1>6
<1> QED BY <1>7 DEF k

\* An op writes at most one set, once: while it is not yet written, the handler
\* has staged no set.
LEMMA OneSetAnOp ==
  ASSUME TypeOK, ParentInv, NEW t \in Txn, phase[t] = "writing",
         NEW r \in Numbered, staged[t][r] > 0
  PROVE  /\ \A q \in Numbered : staged[t][q] > 0 => q = r
         /\ done[t] < Len(OpRows[op[t]]) => OpRows[op[t]][done[t] + 1] \notin Numbered
<1> DEFINE stmts == OpRows[op[t]]
<1>1. op[t] \in Op /\ done[t] \in Nat BY DEF TypeOK
<1>2. stmts \in Seq(Row) BY <1>1, ConstantsAssumption
<1>3. done[t] <= Len(stmts) BY DEF ParentInv
<1>4. \A q \in Row : staged[t][q] > 0 => \E i \in 1..done[t] : q = stmts[i]
  BY DEF ParentInv
<1>5. \A i, j \in 1..Len(stmts) : stmts[i] \in Numbered /\ stmts[j] \in Numbered => i = j
  BY <1>1, ParentAssumption
<1>6. PICK i \in 1..done[t] : r = stmts[i] BY <1>4, NumberedAreRows
<1>7. Len(stmts) \in Nat BY <1>2
<1> HIDE DEF stmts
<1>8. ASSUME NEW q \in Numbered, staged[t][q] > 0 PROVE q = r
  <2>1. PICK j \in 1..done[t] : q = stmts[j] BY <1>4, <1>8, NumberedAreRows
  <2>2. i \in 1..Len(stmts) /\ j \in 1..Len(stmts) BY <1>1, <1>3, <1>7
  <2> QED BY <1>5, <1>6, <2>1, <2>2
<1>9. ASSUME done[t] < Len(stmts), stmts[done[t] + 1] \in Numbered PROVE FALSE
  <2>1. i \in 1..Len(stmts) /\ done[t] + 1 \in 1..Len(stmts) /\ i # done[t] + 1
    BY <1>1, <1>7, <1>9
  <2> QED BY <1>5, <1>6, <1>9, <2>1
<1> QED BY <1>8, <1>9 DEF stmts

LEMMA WriteOrdinalInv ==
  ASSUME TypeOK, ParentInv, OrdinalInv, NEW t \in Txn, Write(t)
  PROVE  OrdinalInv'
<1> DEFINE r == NextRow(t)
           u == OpReader[op[t]]
<1>1. /\ phase[t] = "writing" /\ UNCHANGED <<rows, ordinal, op>>
      /\ done[t] < Len(OpRows[op[t]])
  BY DEF Write, Statements
<1>2. /\ op[t] \in Op /\ r = OpRows[op[t]][done[t] + 1] /\ r \in Row
      /\ \A s \in Txn \ {t} : staged'[s] = staged[s] /\ draft'[s] = draft[s]
  BY WriteStages
<1>3. PICK moves \in Writes(r), n \in NextOrdinal(u) :
        /\ staged' = [staged EXCEPT ![t][r] = IF moves THEN changeSeq + 1 ELSE @]
        /\ draft' = [draft EXCEPT ![t] = IF moves /\ r \in Numbered THEN n ELSE @]
  BY DEF Write, NextRow
<1>4. u \in Reader BY <1>2, ConstantsAssumption
<1>5. n = Cardinality(SetsOf(u)) + 1 BY <1>4, NextOrdinalCounts
<1> HIDE DEF r, u
<1>6. \A v : SetsOf(v)' = SetsOf(v) BY <1>1 DEF SetsOf
<1>7. OrdinalsDense'
  <2>1. ASSUME NEW v \in Reader
        PROVE  {ordinal'[q] : q \in SetsOf(v)'} = 1..Cardinality(SetsOf(v)')
    <3>1. {ordinal[q] : q \in SetsOf(v)} = 1..Cardinality(SetsOf(v))
      BY DEF OrdinalInv, OrdinalsDense
    <3> QED BY <3>1, <1>1, <1>6
  <2> QED BY <2>1 DEF OrdinalsDense
<1>8. ASSUME NEW s \in Txn, NEW q \in Numbered, staged'[s][q] > 0
      PROVE  draft'[s] = Cardinality(SetsOf(OpReader[op[s]])') + 1
  <2>1. CASE s # t
    <3>1. draft[s] = Cardinality(SetsOf(OpReader[op[s]])) + 1
      BY <2>1, <1>2, <1>8 DEF OrdinalInv
    <3> QED BY <2>1, <3>1, <1>1, <1>2, <1>6
  <2>2. CASE s = t /\ r \in Numbered /\ moves
    <3>1. draft'[t] = n BY <2>2, <1>3 DEF TypeOK
    <3> QED BY <2>2, <3>1, <1>1, <1>5, <1>6 DEF u
  <2>3. CASE s = t /\ ~(r \in Numbered /\ moves)
    <3>1. draft'[t] = draft[t] BY <2>3, <1>3 DEF TypeOK
    <3>2. staged'[t][q] = staged[t][q]
      <4>1. q \in Row BY NumberedAreRows
      <4> QED BY <2>3, <4>1, <1>2, <1>3 DEF TypeOK
    <3>3. draft[t] = Cardinality(SetsOf(OpReader[op[t]])) + 1
      BY <2>3, <3>2, <1>8 DEF OrdinalInv
    <3> QED BY <2>3, <3>1, <3>3, <1>1, <1>6
  <2> QED BY <2>1, <2>2, <2>3
<1>9. /\ \A q \in Row : q \notin Numbered \/ rows'[q] = 0 => ordinal'[q] = 0
      /\ \A v \in Reader : IsFiniteSet(SetsOf(v)')
  BY <1>1, <1>6 DEF OrdinalInv
<1> QED BY <1>7, <1>8, <1>9 DEF OrdinalInv

\* A commit makes at most one set visible, numbered one past its reader's last.
LEMMA CommitOrdinalInv ==
  ASSUME TypeOK, LockHeld, StreamInv, ParentInv, OrdinalInv, NEW t \in Txn, Commit(t)
  PROVE  OrdinalInv'
<1>1. /\ phase[t] = "writing" /\ op[t] \in Op /\ staged'[t] = Nothing
      /\ \A s \in Txn \ {t} :
           staged'[s] = staged[s] /\ op'[s] = op[s] /\ draft'[s] = draft[s]
  BY DEF Commit, EndTxn, TypeOK
<1>2. /\ \A r \in Row : rows'[r] = IF staged[t][r] > 0 THEN staged[t][r] ELSE rows[r]
      /\ \A r \in Row : ordinal'[r] = IF staged[t][r] > 0 /\ r \in Numbered
                                      THEN draft[t] ELSE ordinal[r]
  BY DEF Commit
<1>3. \A r \in Row : rows[r] \in Nat /\ staged[t][r] \in Nat BY DEF TypeOK
<1>5. PICK u \in Reader : u = OpReader[op[t]] BY <1>1, ConstantsAssumption
<1>4. \A r \in Row : staged[t][r] > 0 =>
        RowReader[r] = u /\ (r \in Numbered => rows[r] = 0)
  BY <1>5, NumberedAreRows DEF StreamInv, StagedMine
<1>6. ASSUME NEW v \in Reader, \A r \in Numbered : staged[t][r] > 0 => v # u
      PROVE  SetsOf(v)' = SetsOf(v) /\ \A r \in SetsOf(v) : ordinal'[r] = ordinal[r]
  <2>1. \A r \in Numbered : RowReader[r] = v => rows'[r] = rows[r] /\ ordinal'[r] = ordinal[r]
    BY <1>2, <1>4, <1>6, NumberedAreRows
  <2> QED BY <2>1 DEF SetsOf
<1>7. ASSUME NEW r \in Numbered, staged[t][r] > 0
      PROVE  /\ SetsOf(u)' = SetsOf(u) \cup {r} /\ r \notin SetsOf(u)
             /\ ordinal'[r] = Cardinality(SetsOf(u)) + 1
             /\ \A q \in SetsOf(u) : ordinal'[q] = ordinal[q]
  <2>1. \A q \in Numbered : staged[t][q] > 0 => q = r BY <1>1, <1>7, OneSetAnOp
  <2>2. r \in Row /\ RowReader[r] = u /\ rows[r] = 0 /\ rows'[r] > 0
    BY <1>2, <1>3, <1>4, <1>7, NumberedAreRows
  <2>3. \A q \in Numbered \ {r} : rows'[q] = rows[q] /\ ordinal'[q] = ordinal[q]
    BY <1>2, <2>1, NumberedAreRows
  <2>4. r \notin SetsOf(u) BY <2>2 DEF SetsOf
  <2>5. SetsOf(u)' = SetsOf(u) \cup {r} BY <2>2, <2>3 DEF SetsOf
  <2>6. ordinal'[r] = draft[t] BY <1>2, <1>7, <2>2
  <2>7. draft[t] = Cardinality(SetsOf(u)) + 1 BY <1>5, <1>7 DEF OrdinalInv
  <2>8. \A q \in SetsOf(u) : ordinal'[q] = ordinal[q] BY <2>3, <2>4 DEF SetsOf
  <2> QED BY <2>4, <2>5, <2>6, <2>7, <2>8
<1>8. \A v \in Reader :
        /\ IsFiniteSet(SetsOf(v)) /\ Cardinality(SetsOf(v)) \in Nat
        /\ {ordinal[r] : r \in SetsOf(v)} = 1..Cardinality(SetsOf(v))
  BY FS_CardinalityType DEF OrdinalInv, OrdinalsDense
<1>9. ASSUME NEW v \in Reader
      PROVE  /\ IsFiniteSet(SetsOf(v)')
             /\ {ordinal'[r] : r \in SetsOf(v)'} = 1..Cardinality(SetsOf(v)')
  <2>1. CASE \A r \in Numbered : staged[t][r] > 0 => v # u
    <3>1. SetsOf(v)' = SetsOf(v) /\ \A r \in SetsOf(v) : ordinal'[r] = ordinal[r]
      BY <2>1, <1>6
    <3>2. {ordinal'[r] : r \in SetsOf(v)} = {ordinal[r] : r \in SetsOf(v)} BY <3>1
    <3> QED BY <3>1, <3>2, <1>8
  <2>2. ASSUME NEW r \in Numbered, staged[t][r] > 0, v = u
        PROVE  /\ IsFiniteSet(SetsOf(v)')
               /\ {ordinal'[q] : q \in SetsOf(v)'} = 1..Cardinality(SetsOf(v)')
    <3> DEFINE S == SetsOf(u)
               T == SetsOf(u)'
               k == Cardinality(S)
    <3>1. /\ T = S \cup {r} /\ r \notin S /\ ordinal'[r] = k + 1
          /\ \A q \in S : ordinal'[q] = ordinal[q]
      BY <1>7, <2>2
    <3>2. IsFiniteSet(S) /\ k \in Nat /\ {ordinal[q] : q \in S} = 1..k BY <1>5, <1>8
    <3> HIDE DEF S, T
    <3>3. IsFiniteSet(T) /\ Cardinality(T) = k + 1 BY <3>1, <3>2, FS_AddElement
    <3> HIDE DEF k
    <3>4. {ordinal'[q] : q \in T} = {ordinal[q] : q \in S} \cup {k + 1} BY <3>1
    <3>5. (1..k) \cup {k + 1} = 1..(k + 1) BY <3>2
    <3>6. {ordinal'[q] : q \in T} = 1..Cardinality(T) BY <3>2, <3>3, <3>4, <3>5
    <3> QED BY <2>2, <3>3, <3>6 DEF T
  <2> QED BY <2>1, <2>2
<1>10. OrdinalsDense' /\ \A v \in Reader : IsFiniteSet(SetsOf(v)')
  BY <1>9 DEF OrdinalsDense
<1>11. ASSUME NEW s \in Txn, NEW r \in Numbered, staged'[s][r] > 0
       PROVE  draft'[s] = Cardinality(SetsOf(OpReader[op[s]])') + 1
  <2>1. s # t BY <1>1, <1>11, NumberedAreRows DEF Nothing
  <2>2. r \in Row /\ staged[s][r] > 0 /\ draft'[s] = draft[s] /\ op'[s] = op[s]
    BY <2>1, <1>1, <1>11, NumberedAreRows
  <2>3. RowReader[r] = OpReader[op[s]] BY <2>2 DEF StreamInv, StagedMine
  <2>4. RowReader[r] # u BY <2>1, <2>2, <1>1, <1>5, AloneWithItsReader DEF StreamInv
  <2>5. PICK v \in Reader : v = OpReader[op[s]] BY <2>2, <2>3, ConstantsAssumption
  <2>6. SetsOf(v)' = SetsOf(v)
    <3>1. v # u BY <2>3, <2>4, <2>5
    <3> QED BY <3>1, <1>2, <1>4, NumberedAreRows DEF SetsOf
  <2>7. draft[s] = Cardinality(SetsOf(v)) + 1 BY <2>2, <2>5 DEF OrdinalInv
  <2>8. OpReader[op'[s]] = v BY <2>2, <2>5
  <2> QED BY <2>2, <2>6, <2>7, <2>8 DEF SetsOf
<1>12. ASSUME NEW r \in Row, r \notin Numbered \/ rows'[r] = 0 PROVE ordinal'[r] = 0
  <2>1. r \notin Numbered \/ rows[r] = 0 BY <1>2, <1>3, <1>12
  <2>2. ~(staged[t][r] > 0 /\ r \in Numbered) BY <1>2, <1>3, <1>12
  <2> QED BY <2>1, <2>2, <1>2 DEF OrdinalInv
<1> QED BY <1>10, <1>11, <1>12 DEF OrdinalInv

LEMMA NextOrdinalInv ==
  TypeOK /\ LockHeld /\ StreamInv /\ ParentInv /\ OrdinalInv /\ [Next]_vars => OrdinalInv'
<1> SUFFICES ASSUME TypeOK, LockHeld, StreamInv, ParentInv, OrdinalInv, [Next]_vars
             PROVE  OrdinalInv'
  OBVIOUS
<1>1. ASSUME NEW t \in Txn, NEW o \in Op, Begin(t, o) PROVE OrdinalInv'
  <2>1. UNCHANGED <<rows, ordinal, staged, draft>> /\ staged[t] = Nothing
    BY <1>1 DEF Begin, TypeOK
  <2>2. \A s \in Txn \ {t} : op'[s] = op[s] BY <1>1 DEF Begin, TypeOK
  <2> QED BY <2>1, <2>2, QuietOrdinalStep
<1>2. ASSUME NEW t \in Txn, LockReader(t) \/ RecordOp(t) PROVE OrdinalInv'
  BY <1>2, QuietOrdinalStep DEF LockReader, RecordOp
<1>3. ASSUME NEW t \in Txn, Duplicate(t) \/ Rollback(t) PROVE OrdinalInv'
  <2>1. EndTxn(t) /\ UNCHANGED <<rows, ordinal>> BY <1>3 DEF Duplicate, Rollback
  <2>2. \A s \in Txn :
          \/ staged'[s] = Nothing
          \/ staged'[s] = staged[s] /\ draft'[s] = draft[s] /\ op'[s] = op[s]
    BY <2>1 DEF EndTxn, TypeOK
  <2> QED BY <2>1, <2>2, QuietOrdinalStep
<1>4. ASSUME NEW d \in Device, Pull(d) \/ Apply(d) \/ SaveCursor(d) \/ Lose(d)
      PROVE  OrdinalInv'
  <2>1. UNCHANGED serverVars BY <1>4, DeviceStepIsLocal
  <2> QED BY <2>1, QuietOrdinalStep DEF serverVars
<1>5. CASE UNCHANGED vars BY <1>5, QuietOrdinalStep DEF vars
<1> QED
  BY <1>1, <1>2, <1>3, <1>4, <1>5, WriteOrdinalInv, CommitOrdinalInv DEF Next, TxnStep

\* A reader's sets are numbered 1, 2, ... with no gap and no number twice,
\* however many handlers send their ops and whatever is rolled back.
THEOREM SetsAreNumbered == Spec => []OrdinalsDense
<1>1. Spec => []TypeOK BY TypeCorrect
<1>2. Spec => []LockHeld BY LockExcludes
<1>3. Spec => []StreamInv BY StreamInvariant
<1>4. Spec => []ParentInv BY ParentInvariant
<1>5. Spec => []OrdinalInv
  BY <1>1, <1>2, <1>3, <1>4, InitOrdinalInv, NextOrdinalInv, PTL DEF Spec
<1> QED BY <1>5, PTL DEF OrdinalInv
=============================================================================
