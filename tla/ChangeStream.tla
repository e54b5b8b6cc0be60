---------------------------- MODULE ChangeStream ----------------------------
(***************************************************************************)
(* The server half of sync: many request handlers land ops at once, each   *)
(* in one Postgres transaction, while devices walk the change stream with  *)
(* a cursor (server/internal/store/sync.go).                               *)
(*                                                                         *)
(* Every row a reader owns carries the number the sequence change_seq gave *)
(* its last write.  A number is handed out when the statement runs and     *)
(* becomes visible when the transaction commits, so the order of numbers   *)
(* and the order of commits are the same order only because every          *)
(* transaction first takes the reader's advisory lock.                     *)
(*                                                                         *)
(* Abstracted: what a row holds.  A row is here, or not, at a number; the  *)
(* last-write-wins guard of an upsert is a free choice, because the        *)
(* timestamps it compares are the devices' (module Sync holds them).       *)
(***************************************************************************)
EXTENDS Integers, Sequences, FiniteSets

CONSTANTS
  Reader,        \* users.id
  Op,            \* client_op_id, minted by a device
  Row,           \* primary keys of the six tables the stream is made of
  Txn,           \* request handlers, each holding at most one transaction
  Device,
  OpReader,      \* [Op -> Reader]: the signed-in reader whose device sends it
  OpRows,        \* [Op -> Seq(Row)]: the rows the op writes, in statement order
  RowReader,     \* [Row -> Reader]: the row's user_id
  DeviceReader,  \* [Device -> Reader]
  InsertOnly,    \* rows written by INSERT ... ON CONFLICT DO NOTHING
  Numbered,      \* rows of sets: the server numbers them per reader
  Parent,        \* [Row -> Row \cup {NoRow}]: the set a prayer names
  NoRow, NoTxn, NoOp,
  ChangePage,    \* how many rows one pull carries
  MaxSeq         \* bound on change_seq, for model checking

ASSUME ConstantsAssumption ==
  /\ OpReader \in [Op -> Reader]
  /\ RowReader \in [Row -> Reader]
  /\ DeviceReader \in [Device -> Reader]
  /\ OpRows \in [Op -> Seq(Row)]
  /\ \A o \in Op : \A i \in 1..Len(OpRows[o]) : RowReader[OpRows[o][i]] = OpReader[o]
  /\ InsertOnly \subseteq Row
  /\ Numbered \subseteq InsertOnly
  /\ NoRow \notin Row
  /\ NoTxn \notin Txn
  /\ NoOp \notin Op
  /\ Parent \in [Row -> Row \cup {NoRow}]
  /\ ChangePage \in Nat \ {0}
  /\ MaxSeq \in Nat

\* applySetPrayed writes the set and then the prayer; an op writes at most one
\* set, and a set is never written twice under one key.
ASSUME ParentAssumption ==
  /\ \A r \in Row : Parent[r] # NoRow =>
       Parent[r] \in Numbered /\ RowReader[Parent[r]] = RowReader[r]
  /\ \A o \in Op : \A i \in 1..Len(OpRows[o]) :
       /\ Parent[OpRows[o][i]] # NoRow =>
            \E j \in 1..(i - 1) : OpRows[o][j] = Parent[OpRows[o][i]]
       /\ \A j \in 1..Len(OpRows[o]) :
            OpRows[o][i] \in Numbered /\ OpRows[o][j] \in Numbered => i = j

VARIABLES
  changeSeq,   \* the last number nextval('change_seq') gave
  rows,        \* [Row -> Nat]: the committed row's seq, 0 when there is no row
  ordinal,     \* [Row -> Nat]: the committed set's ordinal, 0 when there is none
  opLog,       \* SUBSET Op: committed op_log rows
  lock,        \* [Reader -> Txn \cup {NoTxn}]: pg_advisory_xact_lock
  phase,       \* [Txn -> Phase]
  op,          \* [Txn -> Op \cup {NoOp}]: the op the handler is attempting
  done,        \* [Txn -> Nat]: how many of the op's statements have run
  staged,      \* [Txn -> [Row -> Nat]]: rows written, not yet committed
  draft,       \* [Txn -> Nat]: the ordinal computed for the set it inserts
  landed,      \* history: [Op -> Nat], how often the op's effect committed
  told,        \* history: SUBSET Op, ops answered applied or duplicate
  cursor,      \* [Device -> Nat]: sync_state.cursor, saved on the device
  stage,       \* [Device -> {"idle", "got", "applied"}]: where its pull is
  page,        \* [Device -> [Row -> Nat]]: the page in hand, 0 = not in it
  upto,        \* [Device -> Nat]: the cursor the page came with
  held         \* [Device -> [Row -> Nat]]: the version of each row applied

serverVars == <<changeSeq, rows, ordinal, opLog, lock, phase, op, done, staged,
                draft, landed, told>>
deviceVars == <<cursor, stage, page, upto, held>>
vars == <<changeSeq, rows, ordinal, opLog, lock, phase, op, done, staged,
          draft, landed, told, cursor, stage, page, upto, held>>

Phase == {"idle", "begun", "locked", "writing"}
Nothing == [r \in Row |-> 0]
Mine(d) == {r \in Row : RowReader[r] = DeviceReader[d]}

Init ==
  /\ changeSeq = 0
  /\ rows = Nothing
  /\ ordinal = Nothing
  /\ opLog = {}
  /\ lock = [u \in Reader |-> NoTxn]
  /\ phase = [t \in Txn |-> "idle"]
  /\ op = [t \in Txn |-> NoOp]
  /\ done = [t \in Txn |-> 0]
  /\ staged = [t \in Txn |-> Nothing]
  /\ draft = [t \in Txn |-> 0]
  /\ landed = [o \in Op |-> 0]
  /\ told = {}
  /\ cursor = [d \in Device |-> 0]
  /\ stage = [d \in Device |-> "idle"]
  /\ page = [d \in Device |-> Nothing]
  /\ upto = [d \in Device |-> 0]
  /\ held = [d \in Device |-> Nothing]

(***************************************************************************)
(* One attempt at one op (attempt, applyInTx).                             *)
(***************************************************************************)
\* The handler's next transaction starts where its last one stopped.
EndTxnKeepingItsPlace(t) ==
  /\ phase' = [phase EXCEPT ![t] = "idle"]
  /\ op' = [op EXCEPT ![t] = NoOp]
  /\ UNCHANGED <<done, staged, draft>>
  /\ lock' = [lock EXCEPT ![OpReader[op[t]]] = IF @ = t THEN NoTxn ELSE @]

\* The transaction ends, either way: the advisory lock goes with it.
EndTxn(t) ==
  /\ phase' = [phase EXCEPT ![t] = "idle"]
  /\ op' = [op EXCEPT ![t] = NoOp]
  /\ done' = [done EXCEPT ![t] = 0]
  /\ staged' = [staged EXCEPT ![t] = Nothing]
  /\ draft' = [draft EXCEPT ![t] = 0]
  /\ lock' = [lock EXCEPT ![OpReader[op[t]]] = IF @ = t THEN NoTxn ELSE @]

\* A batch reaches its next op.  Nothing says the same op is not being sent
\* by another handler at this very moment: a device that timed out retries
\* while its first request is still running.
Begin(t, o) ==
  /\ phase[t] = "idle"
  /\ phase' = [phase EXCEPT ![t] = "begun"]
  /\ op' = [op EXCEPT ![t] = o]
  /\ UNCHANGED <<changeSeq, rows, ordinal, opLog, lock, done, staged, draft,
                 landed, told, deviceVars>>

NoLockTaken(u) == TRUE
LockFree(u) == lock[u] = NoTxn

LockReader(t) ==
  /\ phase[t] = "begun"
  /\ LockFree(OpReader[op[t]])
  /\ lock' = [lock EXCEPT ![OpReader[op[t]]] = t]
  /\ phase' = [phase EXCEPT ![t] = "locked"]
  /\ UNCHANGED <<changeSeq, rows, ordinal, opLog, op, done, staged, draft,
                 landed, told, deviceVars>>

\* The op id is already there: the transaction rolls back and the device is
\* told the server has this write.
Duplicate(t) ==
  /\ phase[t] = "locked"
  /\ op[t] \in opLog
  /\ told' = told \cup {op[t]}
  /\ EndTxn(t)
  /\ UNCHANGED <<changeSeq, rows, ordinal, opLog, landed, deviceVars>>

\* The op id is recorded on its own, outside the transaction.
RecordOpInItsOwnTransaction(t) ==
  /\ phase[t] = "locked"
  /\ op[t] \notin opLog
  /\ phase' = [phase EXCEPT ![t] = "writing"]
  /\ opLog' = opLog \cup {op[t]}
  /\ UNCHANGED <<changeSeq, rows, ordinal, lock, op, done, staged, draft,
                 landed, told, deviceVars>>

\* recordOp's INSERT is part of the transaction: it is seen by nobody else
\* until Commit, which is why opLog does not move here.
RecordOp(t) ==
  /\ phase[t] = "locked"
  /\ op[t] \notin opLog
  /\ phase' = [phase EXCEPT ![t] = "writing"]
  /\ UNCHANGED <<changeSeq, rows, ordinal, opLog, lock, op, done, staged,
                 draft, landed, told, deviceVars>>

OrdinalsOf(u) == {ordinal[r] : r \in {q \in Row : RowReader[q] = u}} \cup {0}

\* SELECT COALESCE(MAX(ordinal), 0) + 1 FROM sets WHERE user_id = ...
NextOrdinal(u) == {n + 1 : n \in {m \in OrdinalsOf(u) : \A k \in OrdinalsOf(u) : k <= m}}

\* Whether the statement writes the row.  An insert-only row that is there
\* stays as it is; an upsert is the reader's timestamps' to decide.
Writes(r) ==
  IF rows[r] = 0 THEN {TRUE}
  ELSE IF r \in InsertOnly THEN {FALSE}
  ELSE BOOLEAN

PrayerBeforeItsSet(o) ==
  [i \in 1..Len(OpRows[o]) |-> OpRows[o][Len(OpRows[o]) + 1 - i]]
Statements(o) == OpRows[o]

\* The op's next statement.  The number is drawn whether or not the row moves:
\* the INSERT's default is evaluated before its conflict is found.
Write(t) ==
  /\ phase[t] = "writing"
  /\ done[t] < Len(Statements(op[t]))
  /\ changeSeq < MaxSeq
  /\ changeSeq' = changeSeq + 1
  /\ done' = [done EXCEPT ![t] = @ + 1]
  /\ LET r == Statements(op[t])[done[t] + 1] IN
     \E moves \in Writes(r), n \in NextOrdinal(OpReader[op[t]]) :
       /\ staged' = [staged EXCEPT ![t][r] = IF moves THEN changeSeq + 1 ELSE @]
       /\ draft' = [draft EXCEPT ![t] = IF moves /\ r \in Numbered THEN n ELSE @]
  /\ UNCHANGED <<rows, ordinal, opLog, lock, phase, op, landed, told, deviceVars>>

Commit(t) ==
  /\ phase[t] = "writing"
  /\ done[t] = Len(Statements(op[t]))
  /\ rows' = [r \in Row |-> IF staged[t][r] > 0 THEN staged[t][r] ELSE rows[r]]
  /\ ordinal' = [r \in Row |-> IF staged[t][r] > 0 /\ r \in Numbered
                               THEN draft[t] ELSE ordinal[r]]
  /\ opLog' = opLog \cup {op[t]}
  /\ landed' = [landed EXCEPT ![op[t]] = @ + 1]
  \* The answer is on its way; or COMMIT's acknowledgement was lost and the
  \* device is told "failed" of a write that is there.
  /\ told' \in {told, told \cup {op[t]}}
  /\ EndTxn(t)
  /\ UNCHANGED <<changeSeq, deviceVars>>

\* Refused, failed, the request cancelled, or the process killed: Postgres
\* rolls back.  The numbers drawn are gone for good, which leaves gaps.
Rollback(t) ==
  /\ phase[t] # "idle"
  /\ EndTxn(t)
  /\ UNCHANGED <<changeSeq, rows, ordinal, opLog, landed, told, deviceVars>>

(***************************************************************************)
(* One pull (Changes, and the loop of syncNow that applies its pages).     *)
(***************************************************************************)
PendingFrom(d, since) == {r \in Mine(d) : rows[r] > since}
OnePastTheCursor(d) == cursor[d] + 1
Since(d) == cursor[d]

\* ORDER BY seq LIMIT ChangePage: P is the page when nothing left out sorts
\* before anything in it, and it is short only when nothing is left out.
IsPage(P, all) ==
  /\ Cardinality(P) <= ChangePage
  /\ P # all => Cardinality(P) = ChangePage
  /\ \A r \in P, q \in all \ P : rows[r] <= rows[q]

\* The cursor a page comes with: its last number, or the cursor asked with.
CursorAfter(d, P) ==
  IF P = {} THEN {cursor[d]}
  ELSE {rows[r] : r \in {q \in P : \A p \in P : rows[p] <= rows[q]}}

\* One statement, so one snapshot of all six tables.
Pull(d) ==
  /\ stage[d] = "idle"
  /\ \E P \in SUBSET PendingFrom(d, Since(d)) :
     \E n \in CursorAfter(d, P) :
       /\ IsPage(P, PendingFrom(d, Since(d)))
       /\ page' = [page EXCEPT ![d] = [r \in Row |-> IF r \in P THEN rows[r] ELSE 0]]
       /\ upto' = [upto EXCEPT ![d] = n]
  /\ stage' = [stage EXCEPT ![d] = "got"]
  /\ UNCHANGED <<serverVars, cursor, held>>

\* _apply: the whole page in one transaction of the device's database.
Apply(d) ==
  /\ stage[d] = "got"
  /\ held' = [held EXCEPT ![d] = [r \in Row |-> IF page[d][r] > 0 THEN page[d][r] ELSE @[r]]]
  /\ stage' = [stage EXCEPT ![d] = "applied"]
  /\ UNCHANGED <<serverVars, cursor, page, upto>>

\* _saveCursor: a second write, after the page's own transaction.
SaveCursor(d) ==
  /\ stage[d] = "applied"
  /\ cursor' = [cursor EXCEPT ![d] = upto[d]]
  /\ stage' = [stage EXCEPT ![d] = "idle"]
  /\ page' = [page EXCEPT ![d] = Nothing]
  /\ upto' = [upto EXCEPT ![d] = 0]
  /\ UNCHANGED <<serverVars, held>>

\* The answer never arrives, or the app is killed, before the page is applied
\* or between the page and its cursor.
Lose(d) ==
  /\ stage[d] # "idle"
  /\ stage' = [stage EXCEPT ![d] = "idle"]
  /\ page' = [page EXCEPT ![d] = Nothing]
  /\ upto' = [upto EXCEPT ![d] = 0]
  /\ UNCHANGED <<serverVars, cursor, held>>

TxnStep(t) ==
  \/ LockReader(t)
  \/ Duplicate(t)
  \/ RecordOp(t)
  \/ Write(t)
  \/ Commit(t)

Next ==
  \/ \E t \in Txn, o \in Op : Begin(t, o)
  \/ \E t \in Txn : TxnStep(t) \/ Rollback(t)
  \/ \E d \in Device : Pull(d) \/ Apply(d) \/ SaveCursor(d) \/ Lose(d)

Spec == Init /\ [][Next]_vars
-----------------------------------------------------------------------------
(***************************************************************************)
(* Properties.                                                             *)
(***************************************************************************)

\* Every variable has its type, and a handler with no transaction holds
\* nothing of the last one: the state `attempt` leaves behind it.
TypeOK ==
  /\ changeSeq \in Nat
  /\ rows \in [Row -> Nat]
  /\ ordinal \in [Row -> Nat]
  /\ opLog \in SUBSET Op
  /\ lock \in [Reader -> Txn \cup {NoTxn}]
  /\ phase \in [Txn -> Phase]
  /\ op \in [Txn -> Op \cup {NoOp}]
  /\ done \in [Txn -> Nat]
  /\ staged \in [Txn -> [Row -> Nat]]
  /\ draft \in [Txn -> Nat]
  /\ landed \in [Op -> Nat]
  /\ told \in SUBSET Op
  /\ cursor \in [Device -> Nat]
  /\ stage \in [Device -> {"idle", "got", "applied"}]
  /\ page \in [Device -> [Row -> Nat]]
  /\ upto \in [Device -> Nat]
  /\ held \in [Device -> [Row -> Nat]]
  /\ \A t \in Txn :
       /\ phase[t] = "idle" <=> op[t] = NoOp
       /\ phase[t] # "writing" => done[t] = 0 /\ staged[t] = Nothing /\ draft[t] = 0

\* "A pull never misses a write" (docs/architecture/api/sync-endpoints.md): a
\* row numbered at or below a device's saved cursor is on that device, at that
\* very version.  This is what lockReader exists for: without it a number can
\* become visible below a cursor that already passed it.
NothingMissed ==
  \A d \in Device : \A r \in Mine(d) :
    rows[r] > 0 /\ rows[r] <= cursor[d] => held[d][r] = rows[r]

\* The op id and the op's effect commit together (attempt): an op's effect
\* lands at most once however often it is sent, and an op the device was told
\* the server has (so it dropped it from its outbox) did land.
ExactlyOnce ==
  \A o \in Op :
    /\ landed[o] <= 1
    /\ o \in told => landed[o] = 1

\* A prayer reaches a device only after the set it names (the comment on
\* _applySet): the local foreign key is never met before its row exists, not
\* even when a page ends between the two.
ParentFirst ==
  \A d \in Device : \A r \in Row :
    held[d][r] > 0 /\ Parent[r] # NoRow => held[d][Parent[r]] > 0

SetsOf(u) == {r \in Numbered : RowReader[r] = u /\ rows[r] > 0}

\* A reader's sets are numbered 1, 2, ... with no gap and no number twice
\* (upsertSet's MAX + 1), whatever was rolled back in between.
OrdinalsDense ==
  \A u \in Reader : {ordinal[r] : r \in SetsOf(u)} = 1..Cardinality(SetsOf(u))

\* The order of the numbers is the order of the commits: whatever one reader's
\* transaction is about to publish sorts after everything of theirs that is
\* already visible, and after every cursor handed out (lockReader's comment).
CommitsInOrder ==
  \A t \in Txn : \A r \in Row :
    staged[t][r] > 0 =>
      /\ \A q \in Row : RowReader[q] = RowReader[r] => rows[q] < staged[t][r]
      /\ \A d \in Device : r \in Mine(d) =>
           cursor[d] < staged[t][r] /\ upto[d] < staged[t][r]

-----------------------------------------------------------------------------
(***************************************************************************)
(* The parts of the inductive invariants (module ChangeStreamProofs).      *)
(***************************************************************************)

\* The advisory lock is held by the one handler that is past it, and only
\* until that handler's transaction ends.
LockHeld ==
  /\ \A t \in Txn : phase[t] \in {"locked", "writing"} => lock[OpReader[op[t]]] = t
  /\ \A u \in Reader : lock[u] # NoTxn =>
       phase[lock[u]] \in {"locked", "writing"} /\ OpReader[op[lock[u]]] = u

\* A transaction stages rows of its own reader only, and stages an insert-only
\* row only when there is none.
StagedMine ==
  \A t \in Txn : \A r \in Row :
    staged[t][r] > 0 =>
      /\ RowReader[r] = OpReader[op[t]]
      /\ r \in InsertOnly => rows[r] = 0

\* No number is used that the sequence has not given.
NumbersDrawn ==
  /\ \A r \in Row : rows[r] <= changeSeq
  /\ \A t \in Txn : \A r \in Row : staged[t][r] <= changeSeq
  /\ \A d \in Device : cursor[d] <= changeSeq /\ upto[d] <= changeSeq

\* No number is used twice by one reader.
SeqUnique ==
  /\ \A r, q \in Row :
       rows[r] > 0 /\ rows[r] = rows[q] /\ RowReader[r] = RowReader[q] => r = q
  /\ \A t \in Txn : \A r, q \in Row :
       staged[t][r] > 0 /\ staged[t][r] = staged[t][q] => r = q

\* A page in hand holds every row between the saved cursor and its own, unless
\* a later commit has moved the row past the page's end.
PageHonest ==
  \A d \in Device :
    /\ stage[d] = "idle" => upto[d] = 0
    /\ stage[d] # "idle" =>
         /\ cursor[d] <= upto[d]
         /\ \A r \in Row : page[d][r] > 0 =>
              /\ r \in Mine(d)
              /\ cursor[d] < page[d][r]
              /\ page[d][r] <= rows[r]
              /\ page[d][r] <= upto[d]
         /\ \A r \in Mine(d) : cursor[d] < rows[r] /\ rows[r] <= upto[d] =>
              /\ page[d][r] = rows[r]
              /\ stage[d] = "applied" => held[d][r] = rows[r]

StreamInv ==
  /\ StagedMine
  /\ NumbersDrawn
  /\ CommitsInOrder
  /\ SeqUnique
  /\ PageHonest
  /\ NothingMissed

\* The op log says exactly which effects are committed, and nobody is writing
\* an op that is in it.
OnceInv ==
  /\ \A o \in Op : landed[o] = IF o \in opLog THEN 1 ELSE 0
  /\ told \subseteq opLog
  /\ \A t \in Txn : phase[t] = "writing" => op[t] \notin opLog

\* Only a committed set has an ordinal, and the one a handler computed for the
\* set it stages is still the next when it commits.
OrdinalInv ==
  /\ \A r \in Row : r \notin Numbered \/ rows[r] = 0 => ordinal[r] = 0
  /\ \A u \in Reader : IsFiniteSet(SetsOf(u))
  /\ \A t \in Txn : \A r \in Numbered :
       staged[t][r] > 0 => draft[t] = Cardinality(SetsOf(OpReader[op[t]])) + 1
  /\ OrdinalsDense

\* A prayer sorts after its set wherever the two are: committed, staged,
\* between the two, or in a page.
ParentInv ==
  /\ \A t \in Txn : phase[t] = "writing" =>
       /\ done[t] <= Len(OpRows[op[t]])
       /\ \A i \in 1..done[t] :
            rows[OpRows[op[t]][i]] > 0 \/ staged[t][OpRows[op[t]][i]] > 0
       /\ \A r \in Row : staged[t][r] > 0 => \E i \in 1..done[t] : r = OpRows[op[t]][i]
  /\ \A r \in Row : Parent[r] # NoRow =>
       /\ rows[r] > 0 => 0 < rows[Parent[r]] /\ rows[Parent[r]] < rows[r]
       /\ \A t \in Txn : staged[t][r] > 0 =>
            \/ rows[Parent[r]] > 0
            \/ 0 < staged[t][Parent[r]] /\ staged[t][Parent[r]] < staged[t][r]
       /\ \A d \in Device : stage[d] # "idle" /\ page[d][r] > 0 =>
            0 < rows[Parent[r]] /\ rows[Parent[r]] < page[d][r]
  /\ ParentFirst
=============================================================================
