----------------------------- MODULE MCInboxApp -----------------------------
(* Instances of InboxApp for TLC. *)
EXTENDS InboxApp, TLC

CONSTANTS ana, ben

OneUser == {ana}
TwoUsers == {ana, ben}

\* Nothing tells one user from the other.
UserSymmetry == Permutations(TwoUsers)

\* Every page, and those a session's start and end go through.
AllPages == {"doc", "alerts", "push", "detail", "menu", "product", "account",
             "option", "overlay"}
CorePages == {"menu", "account"}
==============================================================================
