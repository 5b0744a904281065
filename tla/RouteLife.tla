----------------------------- MODULE RouteLife -----------------------------
(***************************************************************************)
(* The life of one page as Flutter's Navigator runs it, seen from the page *)
(* (external: the framework, modelled from how lib/ uses it).              *)
(*                                                                         *)
(*   "gone"     not created yet, or disposed: State.mounted is false       *)
(*   "top"      the current route: the only one that receives taps         *)
(*   "covered"  below another route of the stack, still mounted            *)
(*   "leaving"  popped, replaced or removed, but the transition that takes *)
(*              it off the screen is still running: State.mounted is true, *)
(*              taps are ignored, and answers that arrive still run with a *)
(*              usable BuildContext                                        *)
(***************************************************************************)
VARIABLE life

Lives == {"gone", "top", "covered", "leaving"}

\* State.mounted
Mounted == life # "gone"

Enter   == life = "gone" /\ life' = "top"
Cover   == life = "top" /\ life' = "covered"
Uncover == life = "covered" /\ life' = "top"
Leave   == life \in {"top", "covered"} /\ life' = "leaving"
Dispose == life = "leaving" /\ life' = "gone"

\* The first route is there from the start.
Init == life \in {"gone", "top"}
Next == Enter \/ Cover \/ Uncover \/ Leave \/ Dispose
=============================================================================
