-------------------------- MODULE ChangeStreamFeed --------------------------
(***************************************************************************)
(* The change stream implements the feed, and a device that keeps pulling  *)
(* catches up with it.                                                     *)
(***************************************************************************)
EXTENDS ChangeStream

VARIABLE published   \* history: [Reader -> Seq([row, seq])], in commit order

feedStreamVars == <<vars, published>>

\* The rows a transaction has written, each at its number.
StagedEntries(t) ==
  {[row |-> r, seq |-> staged[t][r]] : r \in {q \in Row : staged[t][q] > 0}}

\* es lists the entries of S, each once, by ascending number.
Lists(es, S) ==
  /\ es \in [1..Cardinality(S) -> S]
  /\ \A i, j \in 1..Cardinality(S) : i < j => es[i].seq < es[j].seq

\* The rows a transaction publishes when it commits, in statement order.
Entries(t) ==
  CHOOSE es \in [1..Cardinality(StagedEntries(t)) -> StagedEntries(t)] :
    Lists(es, StagedEntries(t))

PInit ==
  /\ Init
  /\ published = [u \in Reader |-> <<>>]

PNext ==
  \/ \E t \in Txn :
       /\ Commit(t)
       /\ published' = [published EXCEPT ![OpReader[op[t]]] = @ \o Entries(t)]
  \/ /\ \/ \E t \in Txn, o \in Op : Begin(t, o)
        \/ \E t \in Txn : \/ LockReader(t) \/ Duplicate(t) \/ RecordOp(t)
                          \/ Write(t) \/ Rollback(t)
        \/ \E d \in Device : Pull(d) \/ Apply(d) \/ SaveCursor(d) \/ Lose(d)
     /\ UNCHANGED published

\* A device whose app is opened again and again pulls again (the Flusher acts
\* on launch, resume and pause), and not every answer is lost for ever: nothing
\* is assumed of the handlers.
Online(d) ==
  /\ WF_feedStreamVars(Pull(d) /\ UNCHANGED published)
  /\ SF_feedStreamVars(Apply(d) /\ UNCHANGED published)
  /\ SF_feedStreamVars(SaveCursor(d) /\ UNCHANGED published)

PSpec == PInit /\ [][PNext]_feedStreamVars
FairSpec == PSpec /\ \A d \in Device : Online(d)
-----------------------------------------------------------------------------
(***************************************************************************)
(* The refinement mapping: a number is a place in the feed.                *)
(***************************************************************************)
Published(d) == published[DeviceReader[d]]
MappedFeed == [u \in Reader |-> [i \in DOMAIN published[u] |-> published[u][i].row]]
MappedAt ==
  [d \in Device |-> Cardinality({i \in DOMAIN Published(d) : Published(d)[i].seq <= cursor[d]})]
MappedHolding ==
  [d \in Device |-> [r \in Row |->
     IF held[d][r] = 0 THEN 0
     ELSE CHOOSE i \in DOMAIN Published(d) :
            Published(d)[i] = [row |-> r, seq |-> held[d][r]]]]

Abstract == INSTANCE Feed WITH feed <- MappedFeed, at <- MappedAt, holding <- MappedHolding

\* Every step of the handlers and the devices is a step of the feed or changes
\* nothing of it: in particular nothing is ever published before a place a
\* device has passed, and no cursor passes a row the device lacks.
ImplementsFeed == Abstract!FeedSpec

-----------------------------------------------------------------------------
(***************************************************************************)
(* What the history keeps: the part of the refinement's inductive          *)
(* invariant that is about published (module FeedProofs).                  *)
(***************************************************************************)
IsPublished(u, r, n) ==
  \E i \in DOMAIN published[u] : published[u][i] = [row |-> r, seq |-> n]

\* Every entry is a version its reader's row had or has, the numbers ascend,
\* and the last version of a row, a version in a page and a version on a device
\* were all published.
FeedInv ==
  /\ published \in [Reader -> Seq([row : Row, seq : Nat])]
  /\ \A u \in Reader :
       /\ \A i \in DOMAIN published[u] :
            LET e == published[u][i] IN
            RowReader[e.row] = u /\ 0 < e.seq /\ e.seq <= rows[e.row]
       /\ \A i, j \in DOMAIN published[u] :
            i < j => published[u][i].seq < published[u][j].seq
  /\ \A r \in Row : rows[r] > 0 => IsPublished(RowReader[r], r, rows[r])
  /\ \A d \in Device, r \in Row :
       /\ stage[d] # "idle" /\ page[d][r] > 0 => IsPublished(DeviceReader[d], r, page[d][r])
       /\ held[d][r] > 0 => IsPublished(DeviceReader[d], r, held[d][r])
-----------------------------------------------------------------------------
\* Every row a reader's write published reaches each of their devices, at that
\* version or a later one, whatever answers are lost and wherever the app is
\* killed, as long as it keeps pulling.
Delivered ==
  \A d \in Device : \A r \in Mine(d) : \A n \in 1..MaxSeq :
    rows[r] = n ~> held[d][r] >= n
=============================================================================
