------------------------------- MODULE SignUp -------------------------------
(***************************************************************************)
(* SignUpPage's button (lib/pages/signup_page.dart) against a server and a *)
(* network that may answer late, wrongly or not at all.  The button is     *)
(* never disabled: every press sends one more signup call with the form as *)
(* it is then.  After 25 seconds the page stops waiting                    *)
(* (graphql_service.dart:52), which does not take the request back.  Where *)
(* Navigator.pop leads is in InboxApp.                                     *)
(***************************************************************************)
EXTENDS GraphQLService, RouteLife

CONSTANTS
  Forms,       \* what the form can hold; one stands for all seven fields
  NoMobile,    \* the forms whose mobile number is empty
  MaxPresses   \* bound: signup calls sent in one behaviour

ASSUME NoMobileAssumption == NoMobile \subseteq Forms
ASSUME MaxPressesAssumption == MaxPresses \in Nat \ {0}

VARIABLES
  form,    \* the text fields
  calls    \* the signup calls sent, in order

vars == <<life, form, calls>>

(***************************************************************************)
(* party is the form the call carries and server how far the server is     *)
(* with it; told is the snack bar the call ended in, "nothing" if the page *)
(* was gone and the handler threw; wire, for the properties only, is what  *)
(* came back.                                                              *)
(***************************************************************************)
NewCall(party) ==
  [party |-> party, server |-> "open", told |-> "waiting", wire |-> Null]

Ended(call, told, w) ==
  [party |-> call.party, server |-> call.server, told |-> told, wire |-> w]

Waiting(i) == i \in DOMAIN calls /\ calls[i].told = "waiting"

(***************************************************************************)
(* What may come back, depending on what the server has decided.  Anything *)
(* can go wrong on either side of the decision.                            *)
(***************************************************************************)
ErrorCodes == [open |-> {}, created |-> {Null}, refused |-> {1}]
SignupWires(server) ==
  {[fault |-> f, field |-> Null] : f \in Faults \ {"none"}}
  \cup {[fault |-> "none", field |-> x] :
         x \in {Null, Malformed} \cup {[error_code |-> c] : c \in ErrorCodes[server]}}

-----------------------------------------------------------------------------
\* Mutant of Successful: an account is announced by error code 0.
SuccessfulIfZero(result) == result.value # Null /\ result.value.error_code = 0

\* result != null && result['error_code'] == null
Successful(result) == result.value # Null /\ result.value.error_code = Null

\* Mutant of Edit: the calls under way share the form with the page.
EditShared(f) ==
  /\ life = "top" /\ f # form
  /\ form' = f
  /\ calls' = [i \in DOMAIN calls |->
                IF Waiting(i) THEN [calls[i] EXCEPT !.party = f] ELSE calls[i]]
  /\ UNCHANGED life

\* The user changes the form, also while calls are under way.
Edit(f) ==
  /\ life = "top" /\ f # form
  /\ form' = f
  /\ UNCHANGED <<life, calls>>

\* onPressed up to its await; without a mobile number it only shows a snack bar.
Press ==
  /\ life = "top" /\ form \notin NoMobile /\ Len(calls) < MaxPresses
  /\ calls' = Append(calls, NewCall(form))
  /\ UNCHANGED <<life, form>>

\* The server decides on a request (external), perhaps long after the page gave up.
Decide(i, decision) ==
  /\ calls[i].server = "open"
  /\ calls' = [calls EXCEPT ![i].server = decision]
  /\ UNCHANGED <<life, form>>

\* Mutant of Answered: no answer, no message.
AnsweredIfSomething(i, w) ==
  LET result == AccountCall(w)
      told == IF ~Mounted THEN "nothing" ELSE IF result.value = Null THEN "waiting"
              ELSE IF Successful(result) THEN "success" ELSE "failure" IN
  /\ Waiting(i) /\ w \in SignupWires(calls[i].server)
  /\ calls' = [calls EXCEPT ![i] = Ended(@, told, w)]
  /\ life' = IF told = "success" /\ life = "top" THEN "leaving" ELSE life
  /\ UNCHANGED form

(***************************************************************************)
(* onPressed after its await.  Success pops the top route: this page, or,  *)
(* when it has left the stack already, the one below.  ScaffoldMessenger   *)
(* shows its message over whatever page; a context that is gone throws.    *)
(***************************************************************************)
Answered(i, w) ==
  LET verdict == IF Successful(AccountCall(w)) THEN "success" ELSE "failure" IN
  /\ Waiting(i) /\ w \in SignupWires(calls[i].server)
  /\ calls' = [calls EXCEPT ![i] = Ended(@, IF Mounted THEN verdict ELSE "nothing", w)]
  /\ life' = IF verdict = "success" /\ life = "top" THEN "leaving" ELSE life
  /\ UNCHANGED form

\* The back button, a sign-in that replaces the page, or the end of its transition.
Go ==
  /\ Leave \/ Dispose
  /\ UNCHANGED <<form, calls>>

-----------------------------------------------------------------------------
SignUpInit ==
  /\ life = "top"
  /\ form \in NoMobile
  /\ calls = <<>>

CallEnds(i) == \E w \in SignupWires("created") \cup SignupWires("refused") : Answered(i, w)

SignUpNext ==
  \/ \E f \in Forms : Edit(f)
  \/ Press
  \/ \E i \in DOMAIN calls : CallEnds(i) \/ \E d \in {"created", "refused"} : Decide(i, d)
  \/ Go

SignUpSpec == SignUpInit /\ [][SignUpNext]_vars

\* Every call ends, by the 25 seconds of _post at the latest; the server owes nothing.
FairSignUpSpec == SignUpSpec /\ \A i \in 1..MaxPresses : WF_vars(CallEnds(i))

-----------------------------------------------------------------------------
Calls ==
  [party : Forms \ NoMobile, server : {"open", "created", "refused"},
   told : {"waiting", "success", "failure", "nothing"},
   wire : {Null} \cup SignupWires("created") \cup SignupWires("refused")]

TypeOK ==
  /\ life \in Lives
  /\ form \in Forms
  /\ calls \in Seq(Calls)

(***************************************************************************)
(* "Signup failed" is shown for an account that was created only if its    *)
(* answer did not get through: a timeout, a lost connection, an error      *)
(* report or an answer without the signup object.                          *)
(***************************************************************************)
FailureHasReason ==
  \A i \in DOMAIN calls :
    calls[i].told = "failure" /\ calls[i].server = "created" =>
      calls[i].wire.fault # "none" \/ calls[i].wire.field \in {Null, Malformed}

(***************************************************************************)
(* No request is sent once the user was told that a sign-up succeeded:     *)
(* success takes the page away (signup_page.dart:113), whichever of        *)
(* several presses it is for.                                              *)
(***************************************************************************)
NoPressAfterSuccess ==
  [][Len(calls') > Len(calls) =>
       \A i \in DOMAIN calls : calls[i].told # "success"]_vars

(***************************************************************************)
(* The page keeps the promise of Registration: a press asks with the form  *)
(* as it was then, whatever is typed while the call is under way, and      *)
(* leads to one verdict, "successful" only if there is an account for that *)
(* form, and nothing is asked any more once a sign-up was announced: the   *)
(* success takes the page away (signup_page.dart:113), whichever of        *)
(* several presses it is for.                                              *)
(***************************************************************************)
VerdictOf(told) ==
  CASE told = "waiting" -> "none" [] told = "success" -> "yes"
    [] told = "failure" -> "no"   [] told = "nothing" -> "unheard"
RequestOf(call) ==
  [with |-> call.party, account |-> call.server = "created", verdict |-> VerdictOf(call.told)]
Promise == INSTANCE Registration WITH
  requests <- [i \in DOMAIN calls |-> RequestOf(calls[i])],
  Applications <- Forms \ NoMobile, MaxRequests <- MaxPresses

KeepsPromise == Promise!Spec

(***************************************************************************)
(* Every press is answered in the end, unless the page goes: the user is   *)
(* never left waiting.                                                     *)
(***************************************************************************)
EveryPressAnswered == Promise!FairSpec
=============================================================================
