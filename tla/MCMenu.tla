------------------------------- MODULE MCMenu -------------------------------
(* Instances of Menu for TLC. *)
EXTENDS Menu

CONSTANTS indoor, outdoor, newer

\* newer: a product this version of the app has no tile for.
MCCodes == {indoor, outdoor, newer}
MCKnownCodes == {indoor, outdoor}
MCProductLists ==
  { <<>>, <<indoor>>, <<outdoor, newer, indoor>>, <<newer>>, <<outdoor, Null>>,
    <<indoor, Malformed>> }
=============================================================================
