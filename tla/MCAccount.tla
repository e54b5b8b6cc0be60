----------------------------- MODULE MCAccount -----------------------------
(***************************************************************************)
(* A tablet that two readers share.                                        *)
(***************************************************************************)
EXTENDS Account, TLC

CONSTANTS amina, bilal

MCReader == {amina, bilal}
\* Two seconds and two tokens, for what a deletion forbids; or, as long as nobody
\* is deleted, one second and three tokens, for the two readers taking turns.
TwoSecondsOrThreeTokens ==
  minted <= 2 \/ (second = 1 /\ \A r \in Reader : deletedAt[r] = 0)
Either == Permutations(MCReader)
=============================================================================
