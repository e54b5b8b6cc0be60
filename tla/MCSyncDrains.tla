---------------------------- MODULE MCSyncDrains ----------------------------
(***************************************************************************)
(* One phone: whether an op leaves the queue is between it and the server. *)
(***************************************************************************)
EXTENDS Sync

CONSTANTS phone, itemK

MCDevice == {phone}
InStep == [d \in MCDevice |-> 0]
=============================================================================
