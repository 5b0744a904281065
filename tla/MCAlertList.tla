----------------------------- MODULE MCAlertList -----------------------------
(* Instances of AlertList for TLC. *)
EXTENDS AlertList

CONSTANTS fall, smoke, door, glass

Alert(id, date) == [id |-> id, date |-> date]

\* Distinct, equal and missing dates; a malformed element in the middle; one; none.
MCAlertLists ==
  { <<Alert(fall, 2), Alert(smoke, 1), Alert(door, 3), Alert(glass, 1)>>,
    <<Alert(fall, 1), Alert(smoke, Null), Alert(door, 1)>>,
    <<Alert(fall, 1), Alert(smoke, 2), Malformed, Alert(door, 1)>>,
    <<Alert(door, 1)>>, <<>> }
MCIds == {fall, smoke, door, glass}
==============================================================================
