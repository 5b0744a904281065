------------------------------ MODULE InboxApp ------------------------------
(***************************************************************************)
(* The app as the user walks through it: the Navigator's stack of pages    *)
(* and the calls of LoginPage and SignUpPage that navigate when they are   *)
(* answered.  Every page carries the session it was given by the page that *)
(* opened it; nothing else in the app knows who is signed in.              *)
(*                                                                         *)
(* A page lives in a slot.  It is on the stack, then leaving (popped,      *)
(* replaced or removed, its transition still running and State.mounted     *)
(* still true), then gone; a gone page keeps its slot while a call of its  *)
(* own is under way.  What the pages fetch is in modules of their own.     *)
(***************************************************************************)
EXTENDS Integers, Sequences, FiniteSets

CONSTANTS
  Users,       \* people who can sign in; one stands for user name, password, site
               \* and, where a party is meant, for its party_id > 0
  NoUser,      \* nobody; as a party, party_id 0; as a user, an empty form
  NoCall,      \* no signin call
  MaxSlots,    \* bound: pages on the stack, leaving or with a call under way
  MaxSubmits,  \* bound: sign-up requests one SignUpPage has under way
  Opened       \* bound: the kinds of page the user opens from a page of a session

ASSUME UsersAssumption == Users # {} /\ NoUser \notin Users
ASSUME NoCallAssumption == NoCall \notin Users \cup {NoUser}
ASSUME BoundsAssumption == MaxSlots \in Nat \ {0} /\ MaxSubmits \in Nat \ {0}
ASSUME OpenedAssumption ==
  Opened \subseteq {"doc", "alerts", "push", "detail", "menu", "product", "account",
                     "option", "overlay"}

VARIABLES
  stack,    \* the Navigator's routes, bottom first, as slots
  leaving,  \* the slots whose pages are leaving
  page,     \* what is in each slot
  escaped   \* an error of a call's continuation reached no handler

vars == <<stack, leaving, page, escaped>>

Slots == 1..MaxSlots

(***************************************************************************)
(* "doc" is PrivacyScreen, LegalScreen or AcknowledgementsScreen, "option" *)
(* PersonalInfoPage or SecurityPrivacyPage, "product" a licensed product's *)
(* page, "overlay" what opens nothing more: AlertsPage's filter menu, the  *)
(* full-screen image of MessageDetailPage, AcknowledgementsScreen's page   *)
(* of licenses.                                                            *)
(***************************************************************************)
Kinds == {"none", "login", "signup", "doc", "alerts", "push", "detail", "menu",
          "product", "account", "option", "overlay"}

(***************************************************************************)
(* party and user are a page's session: widget.partyId and the user name,  *)
(* password and site name that go with it.  On LoginPage they are          *)
(* _latestPartyId and what the text fields say.  loading and signing are   *)
(* LoginPage's _isLoading and whom its signin call is for, NoUser if it    *)
(* was sent with an empty form; submits counts SignUpPage's signup calls.  *)
(* fromLogin tells, for the properties only, that a doc was opened by a    *)
(* link of LoginPage.                                                      *)
(***************************************************************************)
Pages == [kind : Kinds, party : Users \cup {NoUser}, user : Users \cup {NoUser},
          loading : BOOLEAN, signing : Users \cup {NoUser, NoCall}, submits : 0..MaxSubmits,
          fromLogin : BOOLEAN]

NewPage(kind, party, user) ==
  [kind |-> kind, party |-> party, user |-> user, loading |-> FALSE,
   signing |-> NoCall, submits |-> 0, fromLogin |-> FALSE]

NoPage    == NewPage("none", NoUser, NoUser)
NewLogin  == NewPage("login", NoUser, NoUser)
NewSignUp == NewPage("signup", NoUser, NoUser)
NewAlerts(u) == NewPage("alerts", u, u)

-----------------------------------------------------------------------------
\* The stack and its transitions, as the framework runs them (external).

OnStack == {stack[i] : i \in DOMAIN stack}
Top == stack[Len(stack)]
TopIs(kind) == stack # <<>> /\ page[Top].kind = kind

Mounted(s) == s \in OnStack \/ s \in leaving
HasCall(p) == p.signing # NoCall \/ p.submits > 0
Free == {s \in Slots : page[s].kind = "none"}

Lowest(n, S) == n \in S /\ \A m \in S : n <= m

\* Navigator.push
Push(p, pages) ==
  \E n \in Slots :
    /\ Lowest(n, Free)
    /\ stack' = Append(stack, n)
    /\ page' = [pages EXCEPT ![n] = p]
    /\ UNCHANGED leaving

\* Navigator.pushReplacement: the route that goes is the one on top, whoever calls.
PushReplacement(p, pages) ==
  \E n \in Slots :
    /\ Lowest(n, Free)
    /\ stack' = [stack EXCEPT ![Len(stack)] = n]
    /\ page' = [pages EXCEPT ![n] = p]
    /\ leaving' = leaving \cup {Top}

\* Navigator.pushAndRemoveUntil(..., (route) => false)
PushAndRemoveAll(p) ==
  \E n \in Slots :
    /\ Lowest(n, Free)
    /\ stack' = <<n>>
    /\ page' = [page EXCEPT ![n] = p]
    /\ leaving' = leaving \cup OnStack

\* Navigator.pop: the top route again, even if it is the only one.
Pop ==
  /\ stack' = SubSeq(stack, 1, Len(stack) - 1)
  /\ leaving' = leaving \cup {Top}

\* The transition of a leaving page ends and the page is disposed.
Dispose(s) ==
  /\ s \in leaving
  /\ leaving' = leaving \ {s}
  /\ page' = IF HasCall(page[s]) THEN page ELSE [page EXCEPT ![s] = NoPage]
  /\ UNCHANGED <<stack, escaped>>

\* The slot of page s after the change p: kept while mounted or while a call is under way.
Settle(s, p) == IF Mounted(s) \/ HasCall(p) THEN p ELSE NoPage

\* Room for one more page, those that pending signin calls may open included.
HasRoom == Cardinality(Free) > Cardinality({s \in Slots : page[s].signing \in Users})

\* The user can act on the top page, also while other pages are still leaving.
Tap == stack # <<>>

-----------------------------------------------------------------------------
(***************************************************************************)
(* Who opens what.  Every navigation below hands on the session of the     *)
(* page it starts from.  The callbacks the detail page is given for the    *)
(* navigation bar are never called: it has no bar.                         *)
(***************************************************************************)
AlertsPushes  == {"alerts"} \X {"push", "menu", "detail", "overlay"}
PushPushes    == {"push"} \X {"detail"}
DetailPushes  == {"detail"} \X {"overlay"}
MenuPushes    == {"menu"} \X {"alerts", "push", "account", "product", "doc"}
ProductPushes == {"product"} \X {"push"}
DocPushes     == {"doc"} \X {"push"}
LicensePushes == {"doc"} \X {"overlay"}
AccountPushes == {"account"} \X {"option"}

PushReplaces    == {"push"} \X {"alerts", "menu"}
ProductReplaces == {"product"} \X {"alerts", "menu"}
DocReplaces     == {"doc"} \X {"alerts", "menu"}

Pushes == AlertsPushes \cup PushPushes \cup DetailPushes \cup MenuPushes
          \cup ProductPushes \cup DocPushes \cup LicensePushes \cup AccountPushes
Replaces == PushReplaces \cup ProductReplaces \cup DocReplaces

(***************************************************************************)
(* showNavBar && partyId > 0.  onGenerateRoute does not hand on the        *)
(* 'showNavBar' argument LoginPage sends, and MenuPage sends none: the     *)
(* flag is always its default, true.                                       *)
(***************************************************************************)
ShowNavBar == TRUE
NavBarShown(p) == p.kind = "doc" => ShowNavBar /\ p.party # NoUser

\* The page opened gets the session of the page it is opened from; from a doc, all but
\* the page of licenses are reached by the navigation bar.
Handed(p, kind) == NewPage(kind, p.party, p.user)

OpenPage(kind) ==
  /\ Tap /\ HasRoom
  /\ <<page[Top].kind, kind>> \in Pushes
  /\ kind = "overlay" \/ NavBarShown(page[Top])
  /\ Push(Handed(page[Top], kind), page)
  /\ UNCHANGED escaped

ReplacePage(kind) ==
  /\ Tap /\ HasRoom
  /\ <<page[Top].kind, kind>> \in Replaces
  /\ NavBarShown(page[Top])
  /\ PushReplacement(Handed(page[Top], kind), page)
  /\ UNCHANGED escaped

\* The system's back button or gesture: on the last page it closes the app instead.
SystemBack ==
  /\ Tap /\ Len(stack) > 1
  /\ Pop
  /\ UNCHANGED <<page, escaped>>

\* Mutant of BackArrow: AlertsPage gets such an arrow, too.
BackArrowOnAlerts ==
  /\ Tap /\ (TopIs("account") \/ TopIs("detail") \/ TopIs("alerts"))
  /\ Pop
  /\ UNCHANGED <<page, escaped>>

\* The arrows of AccountPage and MessageDetailPage pop whatever is below.
BackArrow ==
  /\ Tap /\ (TopIs("account") \/ TopIs("detail"))
  /\ Pop
  /\ UNCHANGED <<page, escaped>>

\* AccountPage's Sign Out.
SignOut ==
  /\ Tap /\ HasRoom /\ TopIs("account")
  /\ PushAndRemoveAll(NewLogin)
  /\ UNCHANGED escaped

-----------------------------------------------------------------------------
\* LoginPage.

TypeIn(u) ==
  /\ Tap /\ TopIs("login") /\ page[Top].user # u
  /\ page' = [page EXCEPT ![Top].user = u]
  /\ UNCHANGED <<stack, leaving, escaped>>

\* The links below the form, which work while a sign-in is under way, too.
OpenSignUp ==
  /\ Tap /\ HasRoom /\ TopIs("login")
  /\ Push(NewSignUp, page)
  /\ UNCHANGED escaped

OpenDocFromLogin ==
  /\ Tap /\ HasRoom /\ TopIs("login")
  /\ Push([NewPage("doc", page[Top].party, page[Top].user) EXCEPT !.fromLogin = TRUE], page)
  /\ UNCHANGED escaped

\* _signIn up to its await; the button is disabled while _isLoading.  Nothing looks at
\* what the form says: a sign-in is sent with empty fields, too.
SignIn ==
  /\ Tap /\ HasRoom /\ TopIs("login")
  /\ ~page[Top].loading
  /\ page' = [page EXCEPT ![Top].loading = TRUE, ![Top].signing = page[Top].user]
  /\ UNCHANGED <<stack, leaving, escaped>>

\* Mutant of SignInSucceeds: push instead of pushReplacement.
SignInSucceedsByPush(s) ==
  LET p == [page[s] EXCEPT !.party = page[s].signing, !.signing = NoCall, !.loading = FALSE] IN
  /\ page[s].signing \in Users
  /\ IF Mounted(s) /\ stack # <<>>
     THEN Push(NewAlerts(page[s].signing), [page EXCEPT ![s] = p])
     ELSE page' = [page EXCEPT ![s] = Settle(s, p)] /\ UNCHANGED <<stack, leaving>>
  /\ UNCHANGED escaped

\* Mutant of SignInSucceeds: the form is read again after the await.
SignInSucceedsRereading(s) ==
  LET p == [page[s] EXCEPT !.party = page[s].signing, !.signing = NoCall, !.loading = FALSE]
      after == [page EXCEPT ![s] = Settle(s, p)] IN
  /\ page[s].signing \in Users
  /\ IF Mounted(s) /\ stack # <<>>
     THEN PushReplacement(NewPage("alerts", page[s].signing, page[s].user), after)
     ELSE page' = after /\ UNCHANGED <<stack, leaving>>
  /\ UNCHANGED escaped

(***************************************************************************)
(* _signIn after its await, answered with a party, which an empty form     *)
(* never is.  LoginPage need not be on top any more.  pushReplacement on   *)
(* an empty stack throws, which the catch turns into a message; on a       *)
(* disposed page nothing happens.                                          *)
(***************************************************************************)
SignInSucceeds(s) ==
  LET p == [page[s] EXCEPT !.party = page[s].signing, !.signing = NoCall, !.loading = FALSE]
      after == [page EXCEPT ![s] = Settle(s, p)] IN
  /\ page[s].signing \in Users
  /\ IF Mounted(s) /\ stack # <<>>
     THEN PushReplacement(NewAlerts(page[s].signing), after)
     ELSE page' = after /\ UNCHANGED <<stack, leaving>>
  /\ UNCHANGED escaped

\* Mutants of SignInFails: no finally clause; no try at all.
SignInFailsForGood(s) ==
  /\ page[s].signing # NoCall
  /\ page' = [page EXCEPT ![s] = Settle(s, [@ EXCEPT !.signing = NoCall])]
  /\ escaped' = (escaped \/ ~Mounted(s))
  /\ UNCHANGED <<stack, leaving>>

SignInFailsUncaught(s) ==
  /\ page[s].signing # NoCall
  /\ page' = [page EXCEPT ![s] = Settle(s, [@ EXCEPT !.signing = NoCall, !.loading = FALSE])]
  /\ escaped' = TRUE
  /\ UNCHANGED <<stack, leaving>>

(***************************************************************************)
(* No answer, an error code, or no party id in the answer: a message.  On  *)
(* a disposed page setState throws, in the catch clause as well.           *)
(***************************************************************************)
SignInFails(s) ==
  /\ page[s].signing # NoCall
  /\ page' = [page EXCEPT ![s] = Settle(s, [@ EXCEPT !.signing = NoCall, !.loading = FALSE])]
  /\ escaped' = (escaped \/ ~Mounted(s))
  /\ UNCHANGED <<stack, leaving>>

-----------------------------------------------------------------------------
\* SignUpPage.

\* The button, with a mobile number filled in; it is never disabled.
SubmitSignUp ==
  /\ Tap /\ TopIs("signup") /\ page[Top].submits < MaxSubmits
  /\ page' = [page EXCEPT ![Top].submits = @ + 1]
  /\ UNCHANGED <<stack, leaving, escaped>>

\* One signup call less.
OneLess(p) == [p EXCEPT !.submits = @ - 1]

\* Mutant of SignUpSucceeds: the new user is taken to AlertsPage right away.
SignUpSucceedsSigningIn(s) ==
  /\ page[s].submits > 0 /\ Mounted(s) /\ stack # <<>>
  /\ \E u \in Users : PushReplacement(NewAlerts(u), [page EXCEPT ![s].submits = @ - 1])
  /\ UNCHANGED escaped

(***************************************************************************)
(* The account was created: Navigator.pop, with the page's own context but *)
(* without a look at whether the page is still on the stack.  A context    *)
(* that is gone, or an empty stack, makes the handler throw.               *)
(***************************************************************************)
SignUpSucceeds(s) ==
  /\ page[s].submits > 0
  /\ page' = [page EXCEPT ![s] = Settle(s, OneLess(page[s]))]
  /\ IF Mounted(s) /\ stack # <<>>
     THEN Pop /\ UNCHANGED escaped
     ELSE escaped' = TRUE /\ UNCHANGED <<stack, leaving>>

\* It was not: a snack bar, which also needs a context that is not gone.
SignUpFails(s) ==
  /\ page[s].submits > 0
  /\ page' = [page EXCEPT ![s] = Settle(s, OneLess(page[s]))]
  /\ escaped' = (escaped \/ ~Mounted(s))
  /\ UNCHANGED <<stack, leaving>>

-----------------------------------------------------------------------------
Init ==
  /\ stack = <<1>>
  /\ leaving = {}
  /\ page = [s \in Slots |-> IF s = 1 THEN NewLogin ELSE NoPage]
  /\ escaped = FALSE

UserActs ==
  \/ \E kind \in Opened : OpenPage(kind) \/ ReplacePage(kind)
  \/ SystemBack \/ BackArrow \/ SignOut
  \/ \E u \in Users \cup {NoUser} : TypeIn(u)
  \/ OpenSignUp \/ OpenDocFromLogin \/ SignIn \/ SubmitSignUp

Answered(s) ==
  \/ SignInSucceeds(s) \/ SignInFails(s)
  \/ SignUpSucceeds(s) \/ SignUpFails(s)

Next ==
  \/ UserActs
  \/ \E s \in Slots : Answered(s) \/ Dispose(s)

Spec == Init /\ [][Next]_vars

(***************************************************************************)
(* Fairness: every signin and signup call ends, for _post gives up after   *)
(* 25 seconds (graphql_service.dart:52), and so does every transition of   *)
(* the framework.  Nothing is assumed of the user.                         *)
(***************************************************************************)
FairSpec ==
  /\ Spec
  /\ \A s \in Slots : WF_vars(Answered(s)) /\ WF_vars(Dispose(s))

-----------------------------------------------------------------------------
TypeOK ==
  /\ stack \in Seq(Slots)
  /\ leaving \subseteq Slots
  /\ page \in [Slots -> Pages]
  /\ escaped \in BOOLEAN

(***************************************************************************)
(* Every slot is accounted for: no page is on the stack twice or both on   *)
(* it and leaving, and whatever is mounted is a page.                      *)
(***************************************************************************)
SlotsDisjoint ==
  /\ \A i, j \in DOMAIN stack : i # j => stack[i] # stack[j]
  /\ OnStack \cap leaving = {}
  /\ \A s \in OnStack \cup leaving : page[s].kind # "none"

(***************************************************************************)
(* LoginPage is only ever the bottom of the stack, and the bottom is       *)
(* LoginPage or the AlertsPage that took its place: neither sign-out nor a *)
(* late sign-in buries a login form under somebody's session, and the      *)
(* unguarded back arrows (account_page.dart:32, alerts_page.dart:187,      *)
(* push_notifications_page.dart:195) always find a page below.             *)
(***************************************************************************)
LoginAtBottom ==
  \A i \in DOMAIN stack :
    IF i = 1 THEN page[stack[i]].kind \in {"login", "alerts"}
             ELSE page[stack[i]].kind # "login"

(***************************************************************************)
(* SignUpPage sits right on LoginPage with nothing above it, although a    *)
(* sign-in answered meanwhile navigates under its feet.  So a sign-up      *)
(* answered while its page is on the stack takes away that page only.      *)
(***************************************************************************)
SignUpOnTop ==
  \A i \in DOMAIN stack :
    page[stack[i]].kind = "signup" =>
      i = 2 /\ i = Len(stack) /\ page[stack[1]].kind = "login"

(***************************************************************************)
(* The shape the unguarded pops and replacements of the code rely on,      *)
(* whichever answer comes while whatever page is on top.                   *)
(***************************************************************************)
StackShape == SlotsDisjoint /\ LoginAtBottom /\ SignUpOnTop

(***************************************************************************)
(* The sign-in button is disabled exactly while a signin call is under     *)
(* way, on every path through _signIn, so there is one call at a time per  *)
(* LoginPage and the button always comes back.                             *)
(***************************************************************************)
SpinnerIsRequest ==
  \A s \in Slots : page[s].kind = "login" => (page[s].loading <=> page[s].signing # NoCall)

(***************************************************************************)
(* The stack becomes empty, a blank window nothing can be tapped on, only  *)
(* by a sign-up answered after its page left the stack (signup_page.dart:  *)
(* 113 pops without checking).                                             *)
(***************************************************************************)
BlankOnlyByLateSignUp ==
  [][stack # <<>> /\ stack' = <<>> =>
       \E s \in leaving : page[s].kind = "signup" /\ page'[s].submits < page[s].submits]_vars

InSession(p) == p.kind \notin {"none", "login", "signup"} /\ p.party # NoUser
SameSession(p, q) == p.party = q.party /\ p.user = q.user
SessionOnStack == \E i \in DOMAIN stack : InSession(page[stack[i]])

(***************************************************************************)
(* Two sessions can lie on one stack: a sign-in answered late puts its     *)
(* AlertsPage on whatever is there.  But every page of a session has       *)
(* either the session of the page right below, or is the AlertsPage of a   *)
(* sign-in, of one user and with that user's party, or was opened from     *)
(* LoginPage (a document, or what took its place).  So sessions meet only  *)
(* at a sign-in's AlertsPage, and a party goes with somebody else's user   *)
(* name only on pages that go back to a LoginPage's document.              *)
(***************************************************************************)
SessionExplained(i) ==
  LET p == page[stack[i]] IN
  InSession(p) =>
    \/ i > 1 /\ InSession(page[stack[i - 1]]) /\ SameSession(p, page[stack[i - 1]])
    \/ p.kind = "alerts" /\ p.party = p.user
    \/ i = 2 /\ page[stack[1]].kind = "login"

SessionsMeetAtSignIn == \A i \in DOMAIN stack : SessionExplained(i)

(***************************************************************************)
(* After a sign-out, pages of a session come back only when a sign-in is   *)
(* answered, with the session of the user it was sent for, or when a       *)
(* LoginPage that has seen its user sign in opens a document.              *)
(***************************************************************************)
SessionOnlyBySignIn ==
  [][~SessionOnStack /\ SessionOnStack' =>
       \/ \E s \in Slots : /\ page[s].signing \in Users
                           /\ page'[s].signing # page[s].signing
                           /\ page'[Top'] = NewAlerts(page[s].signing)
       \/ TopIs("login") /\ page'[Top'].fromLogin /\ page'[Top'].party = page[Top].party]_vars

(***************************************************************************)
(* An error escapes only from a page that left the stack before its call   *)
(* was answered.                                                           *)
(***************************************************************************)
EscapesOnlyAfterLeaving ==
  [][~escaped /\ escaped' =>
       \E s \in Slots \ OnStack : HasCall(page[s]) /\ page'[s] # page[s]]_vars

(***************************************************************************)
(* acknowledgements_screen.dart:24 says of showNavBar "toggle nav bar      *)
(* (hide when launched from Login)".                                       *)
(***************************************************************************)
NavBarHiddenFromLogin ==
  \A i \in DOMAIN stack : page[stack[i]].fromLogin => ~NavBarShown(page[stack[i]])

(***************************************************************************)
(* A sign-in always comes to an end for the user: the button works again   *)
(* or the page is gone.                                                    *)
(***************************************************************************)
SignInEnds ==
  \A s \in Slots : (Mounted(s) /\ page[s].loading) ~> ~(Mounted(s) /\ page[s].loading)
=============================================================================
