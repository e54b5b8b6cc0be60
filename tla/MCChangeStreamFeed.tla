------------------------- MODULE MCChangeStreamFeed -------------------------
(***************************************************************************)
(* One reader who prays a set (two rows that are published together) and   *)
(* keeps an item twice over (two ops on one row, so that a version is      *)
(* superseded).  MaxSeq is 3, so in one behaviour the set lands and one    *)
(* version of the item, or both versions of the item and no set.           *)
(***************************************************************************)
EXTENDS ChangeStreamFeed

CONSTANTS r1, pray, keepK, keepAgain, setS, prayerA, itemK, tablet, t1, t2

MCReader == {r1}
MCOp == {pray, keepK, keepAgain}
MCRow == {setS, prayerA, itemK}
MCDevice == {tablet}
MCTxn == {t1, t2}
MCOpReader == [o \in Op |-> r1]
MCOpRows == [o \in Op |-> IF o = pray THEN <<setS, prayerA>> ELSE <<itemK>>]
MCRowReader == [r \in Row |-> r1]
MCDeviceReader == [d \in MCDevice |-> r1]
MCInsertOnly == {setS, prayerA}
MCNumbered == {setS}
MCParent == [r \in Row |-> IF r = prayerA THEN setS ELSE NoRow]
=============================================================================
