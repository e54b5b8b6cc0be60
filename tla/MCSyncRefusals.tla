--------------------------- MODULE MCSyncRefusals ---------------------------
(***************************************************************************)
(* One phone that keeps an item and forgets it again before the first op   *)
(* has landed.                                                             *)
(***************************************************************************)
EXTENDS SyncRefusals

CONSTANTS phone, itemK

MCDevice == {phone}
InStep == [d \in MCDevice |-> 0]
=============================================================================
