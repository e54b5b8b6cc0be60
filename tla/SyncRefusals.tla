---------------------------- MODULE SyncRefusals ----------------------------
(***************************************************************************)
(* Sync, remembering every op a device was told is refused.                *)
(***************************************************************************)
EXTENDS Sync

VARIABLE refusedOnce   \* history: the ops answered "refused"

RInit == Init /\ refusedOnce = {}

RNext ==
  /\ Next
  /\ refusedOnce' = refusedOnce \cup UNION {Told(d, "refused") : d \in Device}

RSpec == RInit /\ [][RNext]_<<vars, refusedOnce>>

\* "A refusal marks a write that will never succeed however often it is sent"
\* (sync.go:51, and outbox.dart:12): what was refused once never lands.
RefusalIsFinal == refusedOnce \cap opLog = {}
=============================================================================
