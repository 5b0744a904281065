--------------------------- MODULE MCProductStatus ---------------------------
(* Instances of ProductStatus for TLC. *)
EXTENDS ProductStatus

CONSTANTS indoor, pharmacy, tims

MCCodes == {indoor, pharmacy, tims}

\* A full list with a null code, a list with a malformed element, an empty list.
MCProductLists ==
  { <<indoor, Null, pharmacy, tims>>, <<pharmacy, Malformed>>, <<>> }

\* Worst flag behind a lesser one, null, out of range, malformed and empty lists.
MCFlagLists == { <<1, 0, 2>>, <<Null, 1>>, <<0>>, <<1, 7>>, <<2, Malformed>>, <<>> }

TwoCodes == {indoor, pharmacy}
TwoProductLists == { <<indoor, pharmacy>>, <<>> }
TwoFlagLists == { <<0, 1>>, <<>> }
==============================================================================
