-------------------------------- MODULE Feed --------------------------------
(***************************************************************************)
(* What the change stream promises, with no numbers, no transactions and   *)
(* no pages: every reader has one feed of writes that only grows at its    *)
(* end, and every device of theirs has a place in it.  Before its place a  *)
(* device has the last version of everything; after it, it may hold what a *)
(* page brought before its cursor was saved.                               *)
(***************************************************************************)
EXTENDS Integers, Sequences

CONSTANTS Reader, Row, Device, DeviceReader

VARIABLES
  feed,      \* [Reader -> Seq(Row)]: the rows written, in the order published
  at,        \* [Device -> Nat]: how much of its reader's feed it is done with
  holding    \* [Device -> [Row -> Nat]]: where in the feed the copy it has is

feedVars == <<feed, at, holding>>

Feed(d) == feed[DeviceReader[d]]

FeedInit ==
  /\ feed = [u \in Reader |-> <<>>]
  /\ at = [d \in Device |-> 0]
  /\ holding = [d \in Device |-> [r \in Row |-> 0]]

\* A write is appended, whole: an op's rows are published together.
Publish(u) ==
  /\ feed' = [feed EXCEPT ![u] = feed'[u]]
  /\ Len(feed[u]) < Len(feed'[u])
  /\ SubSeq(feed'[u], 1, Len(feed[u])) = feed[u]
  /\ UNCHANGED <<at, holding>>

\* A device takes entries that lie after its place.
Receive(d) ==
  /\ holding' = [holding EXCEPT ![d] = holding'[d]]
  /\ \A r \in Row : holding'[d][r] # holding[d][r] =>
       /\ at[d] < holding'[d][r] /\ holding'[d][r] <= Len(Feed(d))
       /\ Feed(d)[holding'[d][r]] = r
  /\ UNCHANGED <<feed, at>>

IsLastOfItsRow(s, i) == \A j \in (i + 1)..Len(s) : s[j] # s[i]

\* A device moves on past what it holds, never past a row it has no copy of.
Advance(d) ==
  /\ at' = [at EXCEPT ![d] = at'[d]]
  /\ at'[d] \in (at[d] + 1)..Len(Feed(d))
  /\ \A i \in 1..at'[d] :
       IsLastOfItsRow(Feed(d), i) => holding[d][Feed(d)[i]] = i
  /\ UNCHANGED <<feed, holding>>

FeedNext ==
  \/ \E u \in Reader : Publish(u)
  \/ \E d \in Device : Receive(d) \/ Advance(d)

FeedSpec == FeedInit /\ [][FeedNext]_feedVars
=============================================================================
