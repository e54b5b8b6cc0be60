--------------------------- MODULE MCChangeStream ---------------------------
(***************************************************************************)
(* Two readers.  The first prays two sets (each op writes a set and a      *)
(* prayer) and keeps an item, whose op may come again; the second marks an *)
(* aya, which takes numbers out of the same sequence.  Two handlers, so    *)
(* any two of these ops, or one op twice, can be in flight at once.  One   *)
(* device watches: devices never meet except through the server, which     *)
(* never reads anything of theirs but the cursor of the pull.              *)
(***************************************************************************)
EXTENDS ChangeStream, TLC

CONSTANTS r1, r2, prayA, prayB, keepK, markY, setS, setT, prayerA, prayerB,
          itemK, ayaY, tablet, t1, t2

MCReader == {r1, r2}
MCOp == {prayA, prayB, keepK, markY}
MCRow == {setS, setT, prayerA, prayerB, itemK, ayaY}
MCDevice == {tablet}
MCTxn == {t1, t2}
Handlers == Permutations(MCTxn)
MCOpReader == [o \in MCOp |-> IF o = markY THEN r2 ELSE r1]
MCOpRows ==
  [o \in MCOp |->
     CASE o = prayA -> <<setS, prayerA>>
       [] o = prayB -> <<setT, prayerB>>
       [] o = keepK -> <<itemK>>
       [] OTHER -> <<ayaY>>]
MCRowReader == [r \in MCRow |-> IF r = ayaY THEN r2 ELSE r1]
MCDeviceReader == [d \in MCDevice |-> r1]
MCInsertOnly == {setS, setT, prayerA, prayerB, ayaY}
MCNumbered == {setS, setT}
MCParent == [r \in MCRow |-> CASE r = prayerA -> setS
                               [] r = prayerB -> setT
                               [] OTHER -> NoRow]
=============================================================================
