------------------------------ MODULE MCSignUp ------------------------------
(* Instances of SignUp for TLC. *)
EXTENDS SignUp

CONSTANTS blank, ann, anna

\* The form as it opens, filled in, and filled in again with something else.
MCForms == {blank, ann, anna}
MCNoMobile == {blank}
=============================================================================
