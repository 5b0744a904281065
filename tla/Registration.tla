---------------------------- MODULE Registration ----------------------------
(***************************************************************************)
(* What signing up promises, whatever the network does.  A person asks for *)
(* an account any number of times, with a form that may be another one     *)
(* each time, until a "yes" is heard.  Each request may, once and at any   *)
(* time from then on, lead to an account for the form it was made with;    *)
(* the person hears at most one verdict on it.  A "yes" is true; a "no"    *)
(* promises nothing, for the account may be there all the same, or come    *)
(* later.                                                                  *)
(***************************************************************************)
EXTENDS Integers, Sequences

CONSTANTS
  Applications,  \* the forms an account can be asked for with
  MaxRequests    \* bound: requests made in one behaviour

VARIABLE requests  \* for each: its form, is there an account, what was heard?

Verdicts == {"none", "yes", "no", "unheard"}
NewRequest(f) == [with |-> f, account |-> FALSE, verdict |-> "none"]

Ask(f) ==
  /\ Len(requests) < MaxRequests
  /\ \A i \in DOMAIN requests : requests[i].verdict # "yes"
  /\ requests' = Append(requests, NewRequest(f))

Create(i) ==
  /\ ~requests[i].account
  /\ requests' = [requests EXCEPT ![i].account = TRUE]

Hear(i, verdict) ==
  /\ requests[i].verdict = "none"
  /\ verdict = "yes" => requests[i].account
  /\ requests' = [requests EXCEPT ![i].verdict = verdict]

Heard(i) ==
  /\ i \in DOMAIN requests
  /\ \E verdict \in Verdicts \ {"none"} : Hear(i, verdict)

Init == requests = <<>>

Next ==
  \/ \E f \in Applications : Ask(f)
  \/ \E i \in DOMAIN requests : Create(i) \/ Heard(i)

Spec == Init /\ [][Next]_requests

\* No request stays without a verdict for ever.
FairSpec == Spec /\ \A i \in 1..MaxRequests : WF_requests(Heard(i))
=============================================================================
