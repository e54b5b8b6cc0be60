-------------------------------- MODULE Sync --------------------------------
(***************************************************************************)
(* One reader's devices and the server between them.  A device writes its  *)
(* own rows at once and queues an op in the same transaction               *)
(* (app/lib/data/outbox.dart); a flush carries the queue to the server and *)
(* then pulls what the other device wrote (app/lib/data/sync.dart, under   *)
(* the Flusher of flush.dart); the server lands one op at a time           *)
(* (server/internal/store/sync.go).                                        *)
(*                                                                         *)
(* The server's side is one step per op and a pull is one page: module     *)
(* ChangeStream shows that concurrent transactions and short pages look    *)
(* like that from outside.  Here is what it leaves out: the timestamps     *)
(* last-write-wins compares, the four verdicts, the retry budget, requests *)
(* that outlive their caller.                                              *)
(***************************************************************************)
EXTENDS Integers, Sequences, FiniteSets

CONSTANTS
  Device,
  Mark,          \* ayah_understood rows: inserted once, never changed
  Kept,          \* kept_items rows: minted by one device, may be tombstoned
  Prefs,         \* user_prefs: the last write wins
  Position,      \* reading_positions: the last write wins, none from the future
  Skew,          \* [Device -> Nat]: how far ahead of the server its clock runs
  FutureLimit,   \* clockSkew: how far ahead a position may be dated
  maxAttempts,
  NoDevice,
  MaxWrites,     \* bound on local writes, for model checking
  MaxOrphan      \* bound on the ops of a request that outlives its caller

Key == Mark \cup Kept \cup Prefs \cup Position

\* The four tables' keys are apart.
ASSUME KeysApart ==
  /\ Mark \cap (Kept \cup Prefs \cup Position) = {}
  /\ Kept \cap (Prefs \cup Position) = {}
  /\ Prefs \cap Position = {}

ASSUME SyncAssumption ==
  /\ Skew \in [Device -> Nat]
  /\ maxAttempts \in Nat \ {0}
  /\ FutureLimit \in Nat
  /\ MaxWrites \in Nat
  /\ MaxOrphan \in Nat
  /\ NoDevice \notin Device

VARIABLES
  clock,      \* the instant: one tick per local write
  local,      \* [Device -> [Key -> row]]: the device's own tables
  outbox,     \* [Device -> [ops queued -> [attempts, waits, dead]]]: waits is
              \* a retry_after still to come, dead is a dead_at
  phase,      \* [Device -> where its flush is in syncNow]
  sent,       \* [Device -> set of ops]: syncNow's `sent`
  request,    \* [Device -> Seq(op)]: what the server has still to do for it
  said,       \* [Device -> set of <<op, status>>]: the answer so far
  orphan,     \* [Device -> Seq(op)]: a request whose caller gave up
  cursor,     \* [Device -> Nat]
  page,       \* [Device -> [keys of the page in hand -> row]]
  upto,       \* [Device -> Nat]: the cursor it came with
  server,     \* [Key -> row with its seq]
  changeSeq,
  opLog,      \* set of ops the server has
  written,    \* history: every op ever queued
  discarded,  \* history: ops the reader threw away
  charged     \* history: [Device -> set of ops charged an attempt this flush]

readerVars == <<clock, written, discarded>>
pullVars == <<cursor, page, upto>>
serverVars == <<server, changeSeq, opLog>>
vars == <<clock, local, outbox, phase, sent, request, said, orphan, cursor,
          page, upto, server, changeSeq, opLog, written, discarded, charged>>

Absent == [at |-> 0, by |-> NoDevice, dead |-> FALSE]

Op == [dev : Device, kind : {"mark", "keep", "forget", "put"}, key : Key, n : 1..MaxWrites]
At(o) == o.n + Skew[o.dev]

Init ==
  /\ clock = 0
  /\ local = [d \in Device |-> [k \in Key |-> Absent]]
  /\ outbox = [d \in Device |-> <<>>]
  /\ phase = [d \in Device |-> "idle"]
  /\ sent = [d \in Device |-> {}]
  /\ request = [d \in Device |-> <<>>]
  /\ said = [d \in Device |-> {}]
  /\ orphan = [d \in Device |-> <<>>]
  /\ cursor = [d \in Device |-> 0]
  /\ page = [d \in Device |-> <<>>]
  /\ upto = [d \in Device |-> 0]
  /\ server = [k \in Key |-> [row |-> Absent, seq |-> 0]]
  /\ changeSeq = 0
  /\ opLog = {}
  /\ written = {}
  /\ discarded = {}
  /\ charged = [d \in Device |-> {}]

(***************************************************************************)
(* The reader writes, on either device, at any moment of a flush.  The row *)
(* and the op that carries it are one transaction.                         *)
(***************************************************************************)
Fresh == [attempts |-> 0, waits |-> FALSE, dead |-> FALSE]

Enqueue(d, kind, k) ==
  LET o == [dev |-> d, kind |-> kind, key |-> k, n |-> clock + 1] IN
  /\ clock < MaxWrites
  /\ clock' = clock + 1
  /\ written' = written \cup {o}
  /\ outbox' = [outbox EXCEPT ![d] = [p \in DOMAIN @ \cup {o} |-> IF p = o THEN Fresh ELSE @[p]]]
  /\ UNCHANGED <<phase, sent, request, said, orphan, pullVars, serverVars, discarded, charged>>

Stamp(d) == clock + 1 + Skew[d]
WriteRow(d, k, row) == local' = [local EXCEPT ![d][k] = row]

\* markSetUnderstood: insert-or-ignore, and an op each time it is pressed.
MarkUnderstood(d, k) ==
  /\ Enqueue(d, "mark", k)
  /\ WriteRow(d, k, IF local[d][k] # Absent THEN local[d][k]
                    ELSE [at |-> Stamp(d), by |-> d, dead |-> FALSE])

\* keep: the item's id is minted here and now, so nobody has it yet.
Keep(d, k) ==
  /\ \A o \in written : o.key # k
  /\ Enqueue(d, "keep", k)
  /\ WriteRow(d, k, [at |-> Stamp(d), by |-> d, dead |-> FALSE])

Forget(d, k) ==
  /\ local[d][k] # Absent
  /\ ~local[d][k].dead
  /\ Enqueue(d, "forget", k)
  /\ WriteRow(d, k, [local[d][k] EXCEPT !.at = Stamp(d), !.dead = TRUE])

\* setReadingOrder and movePosition: the row is replaced, whatever it held.
Put(d, k) ==
  /\ Enqueue(d, "put", k)
  /\ WriteRow(d, k, [at |-> Stamp(d), by |-> d, dead |-> FALSE])

LocalWrite(d) ==
  \/ \E k \in Mark : MarkUnderstood(d, k)
  \/ \E k \in Kept : Keep(d, k) \/ Forget(d, k)
  \/ \E k \in Prefs \cup Position : Put(d, k)

\* Settings: a parked write goes back in the queue, or is thrown away.
Retry(d, o) ==
  /\ outbox[d][o].dead
  /\ outbox' = [outbox EXCEPT ![d][o] = Fresh]
  /\ UNCHANGED <<clock, written, discarded, local, phase, sent, request, said,
                 orphan, pullVars, serverVars, charged>>

Without(q, ops) == [o \in DOMAIN q \ ops |-> q[o]]

Discard(d, o) ==
  /\ outbox[d][o].dead
  /\ outbox' = [outbox EXCEPT ![d] = Without(@, {o})]
  /\ discarded' = discarded \cup {o}
  /\ UNCHANGED <<clock, written, local, phase, sent, request, said, orphan,
                 pullVars, serverVars, charged>>

\* The op's retry_after has come.
BackoffOver(d, o) ==
  /\ outbox[d][o].waits
  /\ outbox' = [outbox EXCEPT ![d][o].waits = FALSE]
  /\ UNCHANGED <<readerVars, local, phase, sent, request, said, orphan,
                 pullVars, serverVars, charged>>

(***************************************************************************)
(* The flush (syncNow, one at a time: Flusher.flush).                      *)
(***************************************************************************)
StartFlush(d) ==
  /\ phase[d] = "idle"
  /\ phase' = [phase EXCEPT ![d] = "push"]
  /\ UNCHANGED <<readerVars, local, outbox, sent, request, said, orphan,
                 pullVars, serverVars, charged>>

\* syncNow returns, and its locals with it.
EndFlush(d) ==
  /\ phase' = [phase EXCEPT ![d] = "idle"]
  /\ sent' = [sent EXCEPT ![d] = {}]
  /\ charged' = [charged EXCEPT ![d] = {}]
  /\ request' = [request EXCEPT ![d] = <<>>]
  /\ said' = [said EXCEPT ![d] = {}]
  /\ page' = [page EXCEPT ![d] = <<>>]
  /\ upto' = [upto EXCEPT ![d] = 0]

Pending(d) == {o \in DOMAIN outbox[d] : ~outbox[d][o].dead /\ ~outbox[d][o].waits}
EverythingPending(d) == Pending(d)
Queue(d) == Pending(d) \ sent[d]

\* Oldest first: created_at is the device's own clock.
OldestFirst(ops) ==
  CHOOSE s \in [1..Cardinality(ops) -> ops] :
    \A i, j \in DOMAIN s : i < j => s[i].n < s[j].n

Push(d) ==
  /\ phase[d] = "push"
  /\ Queue(d) # {}
  /\ phase' = [phase EXCEPT ![d] = "wait"]
  /\ sent' = [sent EXCEPT ![d] = @ \cup Queue(d)]
  /\ request' = [request EXCEPT ![d] = OldestFirst(Queue(d))]
  /\ said' = [said EXCEPT ![d] = {}]
  /\ UNCHANGED <<readerVars, local, outbox, orphan, pullVars, serverVars, charged>>

Told(d, status) == {v[1] : v \in {w \in said[d] : w[2] = status}}

\* A failed op goes back to waiting, and no attempt is counted.
NoAttemptCounted(d, o) ==
  LET e == outbox[d][o] IN
  CASE o \in Told(d, "refused") -> [e EXCEPT !.dead = TRUE]
    [] o \in Told(d, "failed") -> [e EXCEPT !.waits = TRUE]
    [] OTHER -> e

\* Every answer that is not "the server has it" costs the op an attempt or
\* parks it; an op the answer does not mention stays as it was.
SettledEntry(d, o) ==
  LET e == outbox[d][o] IN
  CASE o \in Told(d, "refused") -> [e EXCEPT !.dead = TRUE]
    [] o \in Told(d, "failed") ->
         [attempts |-> e.attempts + 1, waits |-> TRUE,
          dead |-> e.dead \/ e.attempts + 1 >= maxAttempts]
    [] OTHER -> e

\* An answer means the batch is done with.
LandedAnyway(d) == Told(d, "applied") \cup Told(d, "duplicate") \cup Told(d, "failed")
Landed(d) == Told(d, "applied") \cup Told(d, "duplicate")

Settle(d) ==
  /\ phase[d] = "wait"
  /\ request[d] = <<>>
  /\ outbox' = [outbox EXCEPT ![d] =
                  [o \in DOMAIN @ \ Landed(d) |-> SettledEntry(d, o)]]
  /\ charged' = [charged EXCEPT ![d] = @ \cup Told(d, "failed")]
  /\ said' = [said EXCEPT ![d] = {}]
  /\ phase' = [phase EXCEPT ![d] = "push"]
  /\ UNCHANGED <<readerVars, local, sent, request, orphan, pullVars, serverVars>>

\* The queue is empty: one page of everything past the cursor.
Pull(d) ==
  /\ phase[d] = "push"
  /\ Queue(d) = {}
  /\ phase' = [phase EXCEPT ![d] = "got"]
  /\ page' = [page EXCEPT ![d] =
                [k \in {j \in Key : server[j].seq > cursor[d]} |-> server[k].row]]
  /\ upto' = [upto EXCEPT ![d] = changeSeq]
  /\ UNCHANGED <<readerVars, local, outbox, sent, request, said, orphan,
                 cursor, serverVars, charged>>

\* What a page's row does to the device's: a mark is ignored when there is one,
\* any other row must be strictly newer.
ReplaceAlways(k, mine, theirs) == theirs
Reconcile(k, mine, theirs) ==
  IF mine = Absent \/ (k \notin Mark /\ theirs.at > mine.at) THEN theirs ELSE mine

Apply(d) ==
  /\ phase[d] = "got"
  /\ phase' = [phase EXCEPT ![d] = "applied"]
  /\ local' = [local EXCEPT ![d] =
       [k \in Key |-> IF k \in DOMAIN page[d] THEN Reconcile(k, @[k], page[d][k]) ELSE @[k]]]
  /\ UNCHANGED <<readerVars, outbox, sent, request, said, orphan, pullVars, serverVars, charged>>

SaveCursor(d) ==
  /\ phase[d] = "applied"
  /\ cursor' = [cursor EXCEPT ![d] = upto[d]]
  /\ EndFlush(d)
  /\ UNCHANGED <<readerVars, local, outbox, orphan, serverVars>>

\* No signal, a timeout, the app killed.  The server may not have seen the
\* request, or may go on with it with nobody to answer; of two such requests
\* one is kept, and no more than MaxOrphan ops of it (the rest was never seen,
\* or was killed with the process).
GiveUp(d) ==
  /\ phase[d] # "idle"
  /\ \E s \in {<<>>, orphan[d], request[d]} :
       /\ Len(s) <= MaxOrphan
       /\ orphan' = [orphan EXCEPT ![d] = s]
  /\ EndFlush(d)
  /\ UNCHANGED <<readerVars, local, outbox, cursor, serverVars>>

(***************************************************************************)
(* The server, one op at a time (attempt, applyKind).                      *)
(***************************************************************************)
Refused(o) ==
  \/ o.kind = "forget" /\ server[o.key].seq = 0
  \/ o.key \in Position /\ At(o) > clock + FutureLimit

\* The upsert has no WHERE: the last to arrive wins.
LastToArriveWins(o, row) ==
  CASE o.kind = "forget" -> [row EXCEPT !.dead = TRUE, !.at = IF @ < At(o) THEN At(o) ELSE @]
    [] OTHER -> [row EXCEPT !.at = At(o), !.by = o.dev]

\* The tombstone keeps the item's own updated_at.
TombstoneUndated(o, row) ==
  CASE o.kind = "forget" -> [row EXCEPT !.dead = TRUE]
    [] o.kind = "mark" -> IF row = Absent THEN [at |-> At(o), by |-> o.dev, dead |-> FALSE] ELSE row
    [] OTHER -> IF row.at < At(o) THEN [row EXCEPT !.at = At(o), !.by = o.dev] ELSE row

\* kept_delete writes the tombstone and the later of the two times; a mark is
\* ON CONFLICT DO NOTHING; the upserts move the row only forward in time, and
\* never touch its deleted_at.
RowAfter(o, row) ==
  CASE o.kind = "forget" -> [row EXCEPT !.dead = TRUE, !.at = IF @ < At(o) THEN At(o) ELSE @]
    [] o.kind = "mark" -> IF row = Absent THEN [at |-> At(o), by |-> o.dev, dead |-> FALSE] ELSE row
    [] OTHER -> IF row.at < At(o) THEN [row EXCEPT !.at = At(o), !.by = o.dev] ELSE row

\* kept_delete leaves the row's number as it was.
LandUnnumbered(o) ==
  LET row == RowAfter(o, server[o.key].row)
      moves == o.kind # "forget" /\ row # server[o.key].row IN
  /\ opLog' = opLog \cup {o}
  /\ changeSeq' = IF moves THEN changeSeq + 1 ELSE changeSeq
  /\ server' = [server EXCEPT ![o.key] =
                 [row |-> row, seq |-> IF moves THEN changeSeq + 1 ELSE @.seq]]

\* kept_delete renumbers the row each time; the others only when it moves.
Land(o) ==
  LET row == RowAfter(o, server[o.key].row)
      moves == o.kind = "forget" \/ row # server[o.key].row IN
  /\ opLog' = opLog \cup {o}
  /\ changeSeq' = IF moves THEN changeSeq + 1 ELSE changeSeq
  /\ server' = IF moves THEN [server EXCEPT ![o.key] = [row |-> row, seq |-> changeSeq + 1]]
               ELSE server

\* What becomes of an op, and what is said of it.  "failed" is said of a
\* transaction that rolled back, and of one whose COMMIT lost its answer.
Outcome(o, status) ==
  \/ /\ status = "duplicate"
     /\ o \in opLog
     /\ UNCHANGED serverVars
  \/ /\ status = "refused"
     /\ o \notin opLog
     /\ Refused(o)
     /\ UNCHANGED serverVars
  \/ /\ status \in {"applied", "failed"}
     /\ o \notin opLog
     /\ ~Refused(o)
     /\ Land(o)
  \/ /\ status = "failed"
     /\ UNCHANGED serverVars

Status == {"applied", "duplicate", "refused", "failed"}

Serve(d) ==
  /\ request[d] # <<>>
  /\ \E status \in Status :
       /\ Outcome(Head(request[d]), status)
       /\ said' = [said EXCEPT ![d] = @ \cup {<<Head(request[d]), status>>}]
  /\ request' = [request EXCEPT ![d] = Tail(@)]
  /\ UNCHANGED <<readerVars, local, outbox, phase, sent, orphan, pullVars, charged>>

ServeOrphan(d) ==
  /\ orphan[d] # <<>>
  /\ \E status \in Status : Outcome(Head(orphan[d]), status)
  /\ orphan' = [orphan EXCEPT ![d] = Tail(@)]
  /\ UNCHANGED <<readerVars, local, outbox, phase, sent, request, said, pullVars, charged>>

FlushStep(d) == StartFlush(d) \/ Push(d) \/ Settle(d) \/ Pull(d) \/ Apply(d) \/ SaveCursor(d)

Next ==
  \E d \in Device :
    \/ LocalWrite(d)
    \/ FlushStep(d) \/ GiveUp(d)
    \/ Serve(d) \/ ServeOrphan(d)
    \/ \E o \in DOMAIN outbox[d] : Retry(d, o) \/ Discard(d, o) \/ BackoffOver(d, o)

Spec == Init /\ [][Next]_vars

\* The app comes to the foreground again and again, the clock runs, and a flush
\* is not interrupted every single time at the same place; of the server, that
\* however much of a request is left, it sometimes gets one op further before
\* the caller gives up.  Nothing is assumed of the reader.
Fairness ==
  \A d \in Device :
    /\ WF_vars(StartFlush(d)) /\ SF_vars(Push(d)) /\ SF_vars(Settle(d))
    /\ SF_vars(Pull(d)) /\ SF_vars(Apply(d)) /\ SF_vars(SaveCursor(d))
    /\ \A left \in 1..MaxWrites : SF_vars(Len(request[d]) = left /\ Serve(d))
    /\ \A o \in Op : WF_vars(o \in DOMAIN outbox[d] /\ BackoffOver(d, o))

FairSpec == Spec /\ Fairness
-----------------------------------------------------------------------------
(***************************************************************************)
(* Properties.                                                             *)
(***************************************************************************)
Row == [at : Nat, by : Device \cup {NoDevice}, dead : BOOLEAN]
Ops(d) == DOMAIN outbox[d]

TypeOK ==
  /\ clock \in 0..MaxWrites
  /\ local \in [Device -> [Key -> Row]]
  /\ written \subseteq Op
  /\ discarded \subseteq written /\ opLog \subseteq written
  /\ changeSeq \in Nat
  /\ server \in [Key -> [row : Row, seq : 0..changeSeq]]
  /\ \A d \in Device :
       /\ phase[d] \in {"idle", "push", "wait", "got", "applied"}
       /\ Ops(d) \subseteq {o \in written : o.dev = d}
       /\ outbox[d] \in [Ops(d) -> [attempts : 0..maxAttempts, waits : BOOLEAN, dead : BOOLEAN]]
       /\ cursor[d] \in 0..changeSeq /\ upto[d] \in 0..changeSeq
       /\ phase[d] # "wait" => request[d] = <<>> /\ said[d] = {}

\* No write is lost between the two halves (settle, attempt): an op is in its
\* device's outbox until the server has it or the reader threw it away,
\* whatever was answered, lost, sent twice or committed without an answer.
NoWriteLost ==
  \A o \in written : o \in Ops(o.dev) \/ o \in opLog \/ o \in discarded

\* An op spends at most one of its attempts in one flush (the comment on
\* `sent` in syncNow), even when its delay runs out during a slow one.
OneAttemptPerFlush ==
  [][\A d \in Device : phase[d] # "idle" =>
       \A o \in Ops(d) \cap charged[d] :
         o \in DOMAIN outbox'[d] => outbox'[d][o].attempts <= outbox[d][o].attempts]_vars

\* A tombstone is final on a device: what the reader forgot, or what came to
\* it forgotten, never comes back by a pull (forget's comment), even when the
\* page in hand was read before the delete landed.
StaysForgotten ==
  [][\A d \in Device : \A k \in Kept : local[d][k].dead => local'[d][k].dead]_vars

\* Two devices end up holding the same state (sync-endpoints.md): a device
\* with nothing left to send, and nothing left to pull, shows what the server
\* has.  A mark is compared by its being there; its time is each device's own.
Shows(mine, theirs, k) ==
  IF k \in Mark THEN (mine = Absent) = (theirs = Absent)
  ELSE IF mine.dead /\ theirs.dead THEN TRUE
  ELSE mine.by = theirs.by /\ mine.dead = theirs.dead /\ mine.at = theirs.at

CaughtUpAgrees ==
  \A d \in Device :
    Ops(d) = {} /\ cursor[d] = changeSeq /\ {o \in discarded : o.dev = d} = {} =>
      \A k \in Key : Shows(local[d][k], server[k].row, k)

\* A queued op does not stay in the queue unmentioned for ever: it lands, or it
\* is parked where settings shows it (or was, and the reader dealt with it).
Drains ==
  \A d \in Device : \A o \in Op : o.dev = d =>
    o \in Ops(d) ~> (o \in opLog \/ o \in discarded \/ (o \in Ops(d) /\ outbox[d][o].dead))
=============================================================================
