------------------------------- MODULE MCSync -------------------------------
(***************************************************************************)
(* A phone and a tablet of one reader.                                     *)
(***************************************************************************)
EXTENDS Sync, TLC

CONSTANTS phone, tablet, ayaY, itemK, order, surahP

MCDevice == {phone, tablet}
InStep == [d \in MCDevice |-> 0]
PhoneAhead == [d \in MCDevice |-> IF d = phone THEN 2 ELSE 0]
NoKey == {}
OneMark == {ayaY}
OneItem == {itemK}
OnePref == {order}
OnePosition == {surahP}
\* An item kept by one device and forgotten by both, none of its ops thrown away;
\* an item written twice, or two registers; each request answered.  Or two writes
\* of a preference, whose requests may outlive their callers.
AnItemOrTwoRegisters ==
  /\ \A o \in written : o.key \in Kept => \A p \in written : p.key \in Kept
  /\ clock <= 2 \/ ((\A o \in written : o.key \in Kept) /\ discarded = {})
  /\ (\A o \in written : o.key \in Prefs) \/ \A d \in Device : orphan[d] = <<>>
Alike == Permutations(MCDevice)
=============================================================================
