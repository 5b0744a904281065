---------------------------- MODULE SignUpProofs ----------------------------
(***************************************************************************)
(* Theorems about SignUp, for every set of forms and every number of       *)
(* presses.                                                                *)
(***************************************************************************)
EXTENDS SignUp, TLAPS

-----------------------------------------------------------------------------
(* The invariant. *)

\* The account of a call that was announced is there.
SuccessIsTrue == \A i \in DOMAIN calls : calls[i].told = "success" => calls[i].server = "created"

(***************************************************************************)
(* A failure without a refusal has a reason.  FailureHasReason says so of  *)
(* accounts that are there; the server may still create one later.         *)
(***************************************************************************)
NoAnswer(w) == w.fault # "none" \/ w.field \in {Null, Malformed}
FailureExplained ==
  \A i \in DOMAIN calls :
    calls[i].told = "failure" /\ calls[i].server # "refused" => NoAnswer(calls[i].wire)

\* The page is never below another one, and has left the stack after a success.
PageLeft ==
  /\ life # "covered"
  /\ \A i \in DOMAIN calls : calls[i].told = "success" => life # "top"

SignUpInv == TypeOK /\ SuccessIsTrue /\ FailureExplained /\ PageLeft

-----------------------------------------------------------------------------
(* What comes back. *)

(***************************************************************************)
(* Success is concluded only from an answer that the server gave after it  *)
(* created the account.                                                    *)
(***************************************************************************)
LEMMA OnlyCreatedSucceeds ==
  ASSUME NEW server \in {"open", "created", "refused"}, NEW w \in SignupWires(server)
  PROVE  /\ Successful(AccountCall(w)) => server = "created"
         /\ ~Successful(AccountCall(w)) /\ server # "refused" =>
              w.fault # "none" \/ w.field \in {Null, Malformed}
<1>1. CASE w.fault # "none"
  BY <1>1 DEF Successful, AccountCall, Completed, PostThrows
<1>2. CASE w.fault = "none" /\ w.field \in {Null, Malformed}
  BY <1>2 DEF Successful, AccountCall, Completed, PostThrows
<1>3. CASE w.fault = "none" /\ w.field \notin {Null, Malformed}
  <2>1. PICK c \in ErrorCodes[server] : w.field = [error_code |-> c]
    BY <1>3 DEF SignupWires
  <2>2. AccountCall(w).value = w.field
    BY <1>3 DEF AccountCall, Completed, PostThrows
  <2>3. Successful(AccountCall(w)) <=> c = Null
    BY <1>3, <2>1, <2>2 DEF Successful
  <2>4. CASE server = "open"
    BY <2>1, <2>4 DEF ErrorCodes
  <2>5. CASE server = "created"
    BY <2>1, <2>3, <2>5 DEF ErrorCodes
  <2>6. CASE server = "refused"
    <3>1. c = 1
      BY <2>1, <2>6 DEF ErrorCodes
    <3> QED BY <2>3, <2>6, <3>1, NullAssumption
  <2> QED BY <2>4, <2>5, <2>6
<1> QED BY <1>1, <1>2, <1>3

-----------------------------------------------------------------------------
LEMMA SignUpInitEstablishes == SignUpInit => SignUpInv
<1> SUFFICES ASSUME SignUpInit PROVE SignUpInv
  OBVIOUS
<1>1. calls = <<>> /\ calls \in Seq(Calls) /\ life = "top" /\ form \in Forms
  BY NoMobileAssumption DEF SignUpInit
<1> QED BY <1>1 DEF SignUpInv, TypeOK, Lives, SuccessIsTrue, FailureExplained, PageLeft

(***************************************************************************)
(* One more call: it carries the form as it is, and says nothing yet.      *)
(***************************************************************************)
LEMMA PressStep ==
  ASSUME SignUpInv, Press
  PROVE  SignUpInv'
<1>1. /\ calls \in Seq(Calls) /\ form \in Forms \ NoMobile /\ life = "top" /\ life \in Lives
      /\ calls' = Append(calls, NewCall(form)) /\ UNCHANGED <<life, form>>
  BY DEF SignUpInv, TypeOK, Press
<1>2. NewCall(form) \in Calls /\ NewCall(form).told = "waiting"
  BY <1>1 DEF NewCall, Calls
<1> DEFINE call == NewCall(form)
<1> HIDE DEF call
<1>3. /\ calls' \in Seq(Calls)
      /\ \A i \in DOMAIN calls' : calls'[i] = call \/ (i \in DOMAIN calls /\ calls'[i] = calls[i])
  BY <1>1, <1>2 DEF call
<1>4. TypeOK'
  BY <1>1, <1>3 DEF TypeOK
<1>5. call.told = "waiting"
  BY <1>2 DEF call
<1>6. SuccessIsTrue' /\ FailureExplained' /\ PageLeft'
  BY <1>1, <1>3, <1>5 DEF SignUpInv, SuccessIsTrue, FailureExplained, PageLeft
<1> QED BY <1>4, <1>6 DEF SignUpInv

LEMMA DecideStep ==
  ASSUME SignUpInv, NEW i \in DOMAIN calls, NEW d \in {"created", "refused"}, Decide(i, d)
  PROVE  SignUpInv'
<1>1. /\ calls \in Seq(Calls) /\ form \in Forms /\ life \in Lives
      /\ calls[i].server = "open" /\ calls[i] \in Calls
      /\ calls' = [calls EXCEPT ![i].server = d] /\ UNCHANGED <<life, form>>
  BY DEF SignUpInv, TypeOK, Decide
<1>2. [calls[i] EXCEPT !.server = d] \in Calls
  BY <1>1 DEF Calls
<1>3. calls' \in Seq(Calls) /\ DOMAIN calls' = DOMAIN calls
  BY <1>1, <1>2
<1>4. \A j \in DOMAIN calls : /\ calls'[j].told = calls[j].told /\ calls'[j].wire = calls[j].wire
                              /\ calls'[j].server = IF j = i THEN d ELSE calls[j].server
  BY <1>1 DEF Calls
<1>5. TypeOK'
  BY <1>1, <1>3 DEF TypeOK
<1>6. SuccessIsTrue'
  BY <1>1, <1>3, <1>4 DEF SignUpInv, SuccessIsTrue
<1>7. FailureExplained'
  BY <1>1, <1>3, <1>4 DEF SignUpInv, FailureExplained
<1>8. PageLeft'
  BY <1>1, <1>3, <1>4 DEF SignUpInv, PageLeft
<1> QED BY <1>5, <1>6, <1>7, <1>8 DEF SignUpInv

\* What may come back while the server has not decided may come back afterwards.
LEMMA OpenWires ==
  ASSUME NEW server \in {"open", "created", "refused"}, NEW w \in SignupWires(server)
  PROVE  w \in SignupWires("created") \cup SignupWires("refused")
BY DEF SignupWires, ErrorCodes

LEMMA EndedCall ==
  ASSUME NEW call \in Calls, NEW told \in {"success", "failure", "nothing"},
         NEW w \in SignupWires("created") \cup SignupWires("refused")
  PROVE  /\ Ended(call, told, w) \in Calls
         /\ Ended(call, told, w).told = told /\ Ended(call, told, w).wire = w
         /\ Ended(call, told, w).server = call.server
         /\ Ended(call, told, w).party = call.party
BY DEF Calls, Ended

(***************************************************************************)
(* A call ends in one verdict, and a success takes the page away.          *)
(***************************************************************************)
LEMMA AnsweredFacts ==
  ASSUME SignUpInv, NEW i \in DOMAIN calls, NEW w, Answered(i, w)
  PROVE  /\ calls[i] \in Calls /\ calls[i].told = "waiting" /\ UNCHANGED form
         /\ DOMAIN calls' = DOMAIN calls /\ calls' \in Seq(Calls)
         /\ \A j \in DOMAIN calls : j # i => calls'[j] = calls[j]
         /\ calls'[i].server = calls[i].server /\ calls'[i].party = calls[i].party
         /\ calls'[i].told \in {"success", "failure", "nothing"}
         /\ calls'[i].told = "success" => calls[i].server = "created" /\ life' \in {"leaving", "gone", "covered"}
         /\ calls'[i].told = "failure" /\ calls[i].server # "refused" => NoAnswer(calls'[i].wire)
         /\ life' = life \/ (life = "top" /\ life' = "leaving")
<1> DEFINE verdict == IF Successful(AccountCall(w)) THEN "success" ELSE "failure"
           told == IF Mounted THEN verdict ELSE "nothing"
<1>1. /\ calls \in Seq(Calls) /\ calls[i] \in Calls /\ life \in Lives
  BY DEF SignUpInv, TypeOK
<1>2. /\ calls[i].told = "waiting" /\ w \in SignupWires(calls[i].server) /\ UNCHANGED form
      /\ calls' = [calls EXCEPT ![i] = Ended(calls[i], told, w)]
      /\ life' = IF verdict = "success" /\ life = "top" THEN "leaving" ELSE life
  BY DEF Answered, Waiting
<1>3. calls[i].server \in {"open", "created", "refused"}
  BY <1>1 DEF Calls
<1>4. /\ verdict = "success" => calls[i].server = "created"
      /\ verdict = "failure" /\ calls[i].server # "refused" => NoAnswer(w)
  BY <1>2, <1>3, OnlyCreatedSucceeds DEF NoAnswer
<1>5. verdict \in {"success", "failure"} /\ told \in {"success", "failure", "nothing"}
      /\ told # "nothing" => told = verdict
  OBVIOUS
<1>6. w \in SignupWires("created") \cup SignupWires("refused")
  BY <1>2, <1>3, OpenWires
<1>7. told \in {"success", "failure", "nothing"}
  BY <1>5
<1> HIDE DEF told, verdict
<1> DEFINE ended == Ended(calls[i], told, w)
<1>8. /\ ended \in Calls /\ ended.told = told /\ ended.wire = w
      /\ ended.server = calls[i].server /\ ended.party = calls[i].party
  BY <1>1, <1>6, <1>7, EndedCall
<1>9. calls' = [calls EXCEPT ![i] = ended]
  BY <1>2
<1> HIDE DEF ended
<1>11. calls' \in Seq(Calls) /\ DOMAIN calls' = DOMAIN calls /\ calls'[i] = ended
      /\ \A j \in DOMAIN calls : j # i => calls'[j] = calls[j]
  BY <1>1, <1>8, <1>9
<1>12. told = "success" => verdict = "success"
  BY <1>5 DEF told
<1>13. /\ told = "success" => life' \in {"leaving", "gone", "covered"}
       /\ life' = life \/ (life = "top" /\ life' = "leaving")
  BY <1>1, <1>2, <1>12 DEF Lives
<1>14. told = "failure" => verdict = "failure"
  BY <1>5 DEF told
<1> QED BY <1>1, <1>2, <1>4, <1>7, <1>8, <1>11, <1>12, <1>13, <1>14

LEMMA AnsweredStep ==
  ASSUME SignUpInv, NEW i \in DOMAIN calls, NEW w, Answered(i, w)
  PROVE  SignUpInv'
<1>1. life' \in Lives /\ life' # "covered"
  BY AnsweredFacts DEF SignUpInv, TypeOK, PageLeft, Lives
<1>2. TypeOK'
  BY <1>1, AnsweredFacts DEF SignUpInv, TypeOK
<1>3. SuccessIsTrue'
  BY AnsweredFacts DEF SignUpInv, SuccessIsTrue
<1>4. FailureExplained'
  BY AnsweredFacts DEF SignUpInv, FailureExplained
<1>5. PageLeft'
  BY <1>1, AnsweredFacts DEF SignUpInv, PageLeft
<1> QED BY <1>2, <1>3, <1>4, <1>5 DEF SignUpInv

LEMMA SignUpNextPreserves == SignUpInv /\ [SignUpNext]_vars => SignUpInv'
<1> SUFFICES ASSUME SignUpInv, [SignUpNext]_vars PROVE SignUpInv'
  OBVIOUS
<1>1. ASSUME NEW f \in Forms, Edit(f) PROVE SignUpInv'
  BY <1>1 DEF Edit, SignUpInv, TypeOK, SuccessIsTrue, FailureExplained, PageLeft
<1>2. CASE Press
  BY <1>2, PressStep
<1>3. ASSUME NEW i \in DOMAIN calls, CallEnds(i) PROVE SignUpInv'
  BY <1>3, AnsweredStep DEF CallEnds
<1>4. ASSUME NEW i \in DOMAIN calls, NEW d \in {"created", "refused"}, Decide(i, d)
      PROVE  SignUpInv'
  BY <1>4, DecideStep
<1>5. CASE Go
  BY <1>5 DEF Go, Leave, Dispose, Lives, SignUpInv, TypeOK, SuccessIsTrue, FailureExplained, PageLeft
<1>6. CASE UNCHANGED vars
  BY <1>6 DEF vars, SignUpInv, TypeOK, SuccessIsTrue, FailureExplained, PageLeft
<1> QED BY <1>1, <1>2, <1>3, <1>4, <1>5, <1>6 DEF SignUpNext

-----------------------------------------------------------------------------
(***************************************************************************)
(* Every state of the sign-up page satisfies the inductive invariant.      *)
(***************************************************************************)
THEOREM SignUpInductiveInvariant == SignUpSpec => []SignUpInv
BY SignUpInitEstablishes, SignUpNextPreserves, PTL DEF SignUpSpec

(***************************************************************************)
(* Every call carries a form with a mobile number and ends in one of the   *)
(* verdicts.                                                               *)
(***************************************************************************)
THEOREM SignUpTypeCorrect == SignUpSpec => []TypeOK
<1>1. SignUpInv => TypeOK
  BY DEF SignUpInv
<1> QED BY <1>1, SignUpInductiveInvariant, PTL

(***************************************************************************)
(* An account that is there is reported as a failure only if its answer    *)
(* did not get through, whether it was created before or after that.       *)
(***************************************************************************)
THEOREM FailureReasonSafe == SignUpSpec => []FailureHasReason
<1>1. SignUpInv => FailureHasReason
  BY DEF SignUpInv, FailureExplained, NoAnswer, FailureHasReason
<1> QED BY <1>1, SignUpInductiveInvariant, PTL

(***************************************************************************)
(* After a success the button is not pressed any more.                     *)
(***************************************************************************)
THEOREM NoPressAfterSuccessSafe == SignUpSpec => NoPressAfterSuccess
<1> DEFINE A == Len(calls') > Len(calls) => \A i \in DOMAIN calls : calls[i].told # "success"
<1>1. SignUpInv /\ [SignUpNext]_vars => [A]_vars
  <2> SUFFICES ASSUME SignUpInv, SignUpNext PROVE A
    OBVIOUS
  <2>0. calls \in Seq(Calls)
    BY DEF SignUpInv, TypeOK
  <2>1. CASE Press
    BY <2>1 DEF Press, SignUpInv, PageLeft
  <2>2. ASSUME NEW f \in Forms, Edit(f) PROVE A
    BY <2>0, <2>2 DEF Edit
  <2>3. CASE Go
    BY <2>0, <2>3 DEF Go
  <2>4. ASSUME NEW i \in DOMAIN calls, NEW d, Decide(i, d) PROVE A
    <3>1. Len(calls') = Len(calls) /\ Len(calls) \in Nat
      BY <2>0, <2>4 DEF Decide
    <3> QED BY <3>1
  <2>5. ASSUME NEW i \in DOMAIN calls, CallEnds(i) PROVE A
    <3>1. DOMAIN calls' = DOMAIN calls /\ calls' \in Seq(Calls)
      BY <2>5, AnsweredFacts DEF CallEnds
    <3>2. Len(calls') = Len(calls) /\ Len(calls) \in Nat
      BY <2>0, <3>1
    <3> QED BY <3>2
  <2> QED BY <2>1, <2>2, <2>3, <2>4, <2>5 DEF SignUpNext
<1> QED BY <1>1, SignUpInductiveInvariant, PTL DEF SignUpSpec, NoPressAfterSuccess

-----------------------------------------------------------------------------
(* The page implements Registration. *)

Requests == [i \in DOMAIN calls |-> RequestOf(calls[i])]

LEMMA PromiseInit == SignUpInit => Promise!Init
BY DEF SignUpInit, Promise!Init

(***************************************************************************)
(* Every step of page, server and user is a step of the promise, or leaves *)
(* all requests as they are.                                               *)
(***************************************************************************)
LEMMA PromiseStep == SignUpInv /\ [SignUpNext]_vars => [Promise!Next]_Requests
<1> SUFFICES ASSUME SignUpInv, [SignUpNext]_vars
             PROVE  Promise!Next \/ UNCHANGED Requests
  OBVIOUS
<1>0. calls \in Seq(Calls)
  BY DEF SignUpInv, TypeOK
<1>1. CASE Press
  <2>1. calls' = Append(calls, NewCall(form)) /\ Len(calls) < MaxPresses
    BY <1>1 DEF Press
  <2>2. RequestOf(NewCall(form)) = Promise!NewRequest(form)
    BY DEF RequestOf, NewCall, VerdictOf, Promise!NewRequest
  <2>3. /\ DOMAIN calls' = 1..(Len(calls) + 1) /\ calls'[Len(calls) + 1] = NewCall(form)
        /\ \A i \in DOMAIN calls : calls'[i] = calls[i]
    BY <1>0, <2>1
  <2>4. Requests' = Append(Requests, Promise!NewRequest(form))
    BY <1>0, <2>2, <2>3 DEF Requests
  <2>5. Len(Requests) = Len(calls)
    BY <1>0 DEF Requests
  <2>6. form \in Forms \ NoMobile /\ life = "top"
    BY <1>1 DEF Press, SignUpInv, TypeOK
  <2>7. \A i \in DOMAIN Requests : Requests[i].verdict # "yes"
    <3>1. \A i \in DOMAIN calls : calls[i].told # "success"
      BY <2>6 DEF SignUpInv, PageLeft
    <3>2. \A i \in DOMAIN calls : calls[i].told \in {"waiting", "success", "failure", "nothing"}
      <4>1. \A i \in DOMAIN calls : calls[i] \in Calls
        BY <1>0
      <4> QED BY <4>1 DEF Calls
    <3>3. \A i \in DOMAIN calls : VerdictOf(calls[i].told) # "yes"
      BY <3>1, <3>2 DEF VerdictOf
    <3> QED BY <3>3 DEF Requests, RequestOf
  <2>8. Promise!Ask(form)
    BY <2>1, <2>4, <2>5, <2>7 DEF Promise!Ask, Requests
  <2> QED BY <2>6, <2>8 DEF Promise!Next
<1>2. ASSUME NEW i \in DOMAIN calls, NEW d \in {"created", "refused"}, Decide(i, d)
      PROVE  Promise!Next \/ UNCHANGED Requests
  <2>1. /\ calls' = [calls EXCEPT ![i].server = d] /\ calls[i].server = "open" /\ calls[i] \in Calls
    BY <1>0, <1>2 DEF Decide
  <2>2. /\ DOMAIN calls' = DOMAIN calls /\ calls'[i].server = d /\ calls'[i].told = calls[i].told
        /\ calls'[i].party = calls[i].party
        /\ \A j \in DOMAIN calls : j # i => calls'[j] = calls[j]
    BY <1>0, <2>1 DEF Calls
  <2>3. RequestOf(calls'[i]) = [RequestOf(calls[i]) EXCEPT !.account = (d = "created")]
    BY <2>2 DEF RequestOf
  <2>4. Requests' = [Requests EXCEPT ![i].account = (d = "created")]
    BY <2>2, <2>3 DEF Requests
  <2>5. Requests[i].account = FALSE /\ i \in DOMAIN Requests
    BY <2>1 DEF Requests, RequestOf
  <2>6. CASE d = "created"
    <3>1. Requests' = [Requests EXCEPT ![i].account = TRUE]
      BY <2>4, <2>6
    <3> QED BY <2>5, <3>1 DEF Promise!Next, Promise!Create, Requests
  <2>7. CASE d = "refused"
    <3>1. RequestOf(calls'[i]) = RequestOf(calls[i])
      BY <2>1, <2>2, <2>7 DEF RequestOf
    <3>2. Requests' = Requests
      BY <2>2, <3>1 DEF Requests
    <3> QED BY <3>2
  <2> QED BY <2>6, <2>7
<1>3. ASSUME NEW i \in DOMAIN calls, CallEnds(i) PROVE Promise!Next
  <2>1. PICK w : Answered(i, w)
    BY <1>3 DEF CallEnds
  <2> DEFINE v == VerdictOf(calls'[i].told)
  <2>2. v \in Promise!Verdicts \ {"none"} /\ (v = "yes" => calls'[i].told = "success")
    BY <2>1, AnsweredFacts DEF VerdictOf, Promise!Verdicts
  <2>3. RequestOf(calls[i]).verdict = "none" /\ (v = "yes" => RequestOf(calls[i]).account = TRUE)
    BY <2>1, <2>2, AnsweredFacts DEF RequestOf, VerdictOf
  <2>4. RequestOf(calls'[i]) = [RequestOf(calls[i]) EXCEPT !.verdict = v]
    BY <2>1, AnsweredFacts DEF RequestOf
  <2> HIDE DEF v
  <2>7. /\ DOMAIN calls' = DOMAIN calls /\ \A j \in DOMAIN calls : j # i => calls'[j] = calls[j]
    BY <2>1, AnsweredFacts
  <2>5. Requests' = [Requests EXCEPT ![i].verdict = v] /\ i \in DOMAIN Requests
        /\ Requests[i] = RequestOf(calls[i])
    BY <2>4, <2>7 DEF Requests
  <2>6. Promise!Hear(i, v)
    BY <2>3, <2>5 DEF Promise!Hear, Requests
  <2> QED BY <2>2, <2>5, <2>6 DEF Promise!Next, Promise!Heard, Requests
<1>4. ASSUME NEW f \in Forms, Edit(f) PROVE UNCHANGED Requests
  BY <1>4 DEF Edit, Requests
<1>5. CASE Go
  BY <1>5 DEF Go, Requests
<1>6. CASE UNCHANGED vars
  BY <1>6 DEF vars, Requests
<1> QED BY <1>1, <1>2, <1>3, <1>4, <1>5, <1>6 DEF SignUpNext

(***************************************************************************)
(* The sign-up page keeps the promise of Registration.                     *)
(***************************************************************************)
THEOREM SignUpKeepsPromise == SignUpSpec => KeepsPromise
<1>1. SignUpInv /\ [SignUpNext]_vars => [Promise!Next]_([i \in DOMAIN calls |-> RequestOf(calls[i])])
  BY PromiseStep DEF Requests
<1> QED BY <1>1, PromiseInit, SignUpInductiveInvariant, PTL DEF SignUpSpec, KeepsPromise, Promise!Spec
=============================================================================
