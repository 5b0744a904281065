-------------------------- MODULE InboxStepProofs --------------------------
(***************************************************************************)
(* What the steps of InboxApp do to the pages of the stack: sessions come  *)
(* from sign-ins.                                                          *)
(***************************************************************************)
EXTENDS InboxAppProofs

-----------------------------------------------------------------------------
(* What the framework's operations do to the set of pages on the stack and to its top. *)

LEMMA Indices ==
  ASSUME NEW k \in Nat \ {0}
  PROVE  /\ \A i \in 1..k : i = k \/ i \in 1..(k - 1)
         /\ \A i \in 1..(k - 1) : i \in 1..k /\ i # k
         /\ 1..(k - 1) # {} => k - 1 \in 1..(k - 1)
         /\ k \in 1..k
OBVIOUS

LEMMA TopIsOnStack ==
  ASSUME AppInv, stack # <<>>
  PROVE  Top \in OnStack /\ Top \notin leaving
BY TopFacts DEF AppInv, Shape, SlotsDisjoint

LEMMA PushedSlots ==
  ASSUME AppInv, NEW n \in Free, stack # <<>>, stack' = Append(stack, n)
  PROVE  OnStack' = OnStack \cup {n} /\ Top' = n /\ n \notin OnStack /\ n \notin leaving
<1> DEFINE k == Len(stack)
<1>0. /\ stack \in Seq(Slots) /\ k \in Nat \ {0} /\ DOMAIN stack = 1..k
      /\ n \in Slots /\ n \notin leaving /\ \A i \in 1..k : stack[i] # n
  BY FreeIsFree DEF AppInv, Shape
<1>1. /\ Len(stack') = k + 1 /\ DOMAIN stack' = 1..(k + 1)
      /\ stack'[k + 1] = n /\ \A i \in 1..k : stack'[i] = stack[i]
  BY <1>0
<1> QED BY <1>0, <1>1 DEF OnStack, Top

LEMMA ReplacedSlots ==
  ASSUME AppInv, NEW n \in Free, stack # <<>>, stack' = [stack EXCEPT ![Len(stack)] = n]
  PROVE  /\ OnStack' = (OnStack \ {Top}) \cup {n} /\ Top' = n
         /\ n \notin OnStack /\ n \notin leaving
<1> DEFINE k == Len(stack)
<1>0. /\ stack \in Seq(Slots) /\ k \in Nat \ {0} /\ DOMAIN stack = 1..k
      /\ n \in Slots /\ n \notin leaving /\ \A i \in 1..k : stack[i] # n
      /\ \A i, j \in 1..k : i # j => stack[i] # stack[j]
  BY FreeIsFree DEF AppInv, Shape, SlotsDisjoint
<1>1. /\ stack' \in Seq(Slots) /\ Len(stack') = k /\ stack'[k] = n
      /\ \A i \in 1..(k - 1) : stack'[i] = stack[i]
  BY <1>0, LastReplaced
<1>2. DOMAIN stack' = 1..k
  BY <1>0, <1>1
<1>3. /\ \A i \in 1..k : i = k \/ i \in 1..(k - 1)
      /\ \A i \in 1..(k - 1) : i \in 1..k /\ i # k
      /\ k \in 1..k
  BY <1>0, Indices, Zenon
<1>4. Top = stack[k] /\ Top' = n
  BY <1>1 DEF Top
<1> HIDE DEF k
<1>5. OnStack' = (OnStack \ {Top}) \cup {n}
  <2>1. ASSUME NEW i \in 1..k PROVE stack'[i] \in (OnStack \ {Top}) \cup {n}
    <3>1. CASE i = k
      BY <1>1, <3>1
    <3>2. CASE i \in 1..(k - 1)
      BY <1>0, <1>1, <1>3, <1>4, <3>2, Zenon DEF OnStack
    <3> QED BY <1>3, <2>1, <3>1, <3>2
  <2>2. ASSUME NEW i \in 1..k, i # k PROVE stack[i] \in OnStack'
    <3>1. i \in 1..(k - 1)
      BY <1>3, <2>2, Zenon
    <3>2. stack'[i] = stack[i]
      BY <1>1, <3>1, Zenon
    <3> QED BY <1>2, <3>2, Zenon DEF OnStack
  <2>3. n \in OnStack'
    BY <1>1, <1>2, <1>3, Zenon DEF OnStack
  <2>4. \A x \in OnStack' : x \in (OnStack \ {Top}) \cup {n}
    BY <1>2, <2>1, Zenon DEF OnStack
  <2>5. \A x \in OnStack \ {Top} : x \in OnStack'
    BY <1>0, <1>4, <2>2, Zenon DEF OnStack
  <2> QED BY <2>3, <2>4, <2>5
<1>6. n \notin OnStack
  BY <1>0, Zenon DEF OnStack
<1> QED BY <1>0, <1>4, <1>5, <1>6

LEMMA PoppedSlots ==
  ASSUME AppInv, stack # <<>>, Pop
  PROVE  /\ OnStack' = OnStack \ {Top}
         /\ OnStack' # {} => Top' \in OnStack'
<1> DEFINE k == Len(stack)
<1>0. /\ stack \in Seq(Slots) /\ k \in Nat \ {0} /\ DOMAIN stack = 1..k
      /\ \A i, j \in 1..k : i # j => stack[i] # stack[j]
  BY DEF AppInv, Shape, SlotsDisjoint
<1>1. /\ stack' \in Seq(Slots) /\ Len(stack') = k - 1 /\ DOMAIN stack' = 1..(k - 1)
      /\ \A i \in 1..(k - 1) : stack'[i] = stack[i]
  BY <1>0 DEF Pop
<1>2. /\ \A i \in 1..k : i = k \/ i \in 1..(k - 1)
      /\ \A i \in 1..(k - 1) : i \in 1..k /\ i # k
      /\ 1..(k - 1) # {} => k - 1 \in 1..(k - 1)
      /\ k \in 1..k
  BY <1>0, Indices, Zenon
<1>3. Top = stack[k] /\ Top' = stack'[k - 1]
  BY <1>1 DEF Top
<1> HIDE DEF k
<1>4. OnStack' = OnStack \ {Top}
  <2>1. ASSUME NEW i \in 1..(k - 1) PROVE stack'[i] \in OnStack \ {Top}
    BY <1>0, <1>1, <1>2, <1>3, <2>1, Zenon DEF OnStack
  <2>2. ASSUME NEW i \in 1..k, i # k PROVE stack[i] \in OnStack'
    <3>1. i \in 1..(k - 1)
      BY <1>2, <2>2, Zenon
    <3>2. stack'[i] = stack[i]
      BY <1>1, <3>1, Zenon
    <3> QED BY <1>1, <3>1, <3>2, Zenon DEF OnStack
  <2>3. \A x \in OnStack' : x \in OnStack \ {Top}
    BY <1>1, <2>1, Zenon DEF OnStack
  <2>4. \A x \in OnStack \ {Top} : x \in OnStack'
    BY <1>0, <1>3, <2>2, Zenon DEF OnStack
  <2> QED BY <2>3, <2>4
<1>5. OnStack' # {} => Top' \in OnStack'
  <2>1. OnStack' # {} => 1..(k - 1) # {}
    BY <1>1, Zenon DEF OnStack
  <2> QED BY <1>1, <1>2, <1>3, <2>1, Zenon DEF OnStack
<1> QED BY <1>4, <1>5

-----------------------------------------------------------------------------
(* Where sessions come from. *)

\* What comes to the stack has no session, and the others keep theirs.
LEMMA NoneCameUp ==
  ASSUME \A t \in OnStack : ~InSession(page[t]),
         \A t \in OnStack' : \/ ~InSession(page'[t])
                            \/ /\ t \in OnStack /\ page'[t].kind = page[t].kind
                               /\ page'[t].party = page[t].party
  PROVE  ~SessionOnStack'
<1>1. \A t \in OnStack' : ~InSession(page'[t])
  BY DEF InSession
<1> QED BY <1>1 DEF SessionOnStack, OnStack

\* A page that is opened by a page without a session has none.
LEMMA HandedNone ==
  ASSUME NEW kind, AppInv, stack # <<>>, \A t \in OnStack : ~InSession(page[t]),
         page[Top].kind \notin {"none", "login", "signup"}
  PROVE  ~InSession(Handed(page[Top], kind))
<1>1. ~InSession(page[Top])
  BY TopIsOnStack
<1>2. page[Top].party = NoUser
  BY <1>1 DEF InSession
<1> QED BY <1>2 DEF InSession, Handed, NewPage

SignedIn ==
  \E s \in Slots : /\ page[s].signing \in Users
                   /\ page'[s].signing # page[s].signing
                   /\ page'[Top'] = NewAlerts(page[s].signing)
DocOpened == TopIs("login") /\ page'[Top'].fromLogin /\ page'[Top'].party = page[Top].party

\* Pushing a page on the stack; the pages below are what they were.
LEMMA PushedPages ==
  ASSUME AppInv, stack # <<>>, NEW p, Push(p, page)
  PROVE  \E n \in Slots : /\ page'[n] = p /\ Top' = n
                          /\ \A t \in OnStack' : t = n \/ (t \in OnStack /\ page'[t] = page[t])
<1>1. PICK n \in Slots : /\ Lowest(n, Free) /\ stack' = Append(stack, n)
                         /\ page' = [page EXCEPT ![n] = p]
  BY DEF Push
<1>2. n \in Free
  BY <1>1 DEF Lowest
<1>3. OnStack' = OnStack \cup {n} /\ Top' = n /\ n \notin OnStack
  BY <1>1, <1>2, PushedSlots
<1>4. page'[n] = p /\ \A t \in Slots \ {n} : page'[t] = page[t]
  BY <1>1 DEF AppInv
<1>5. OnStack \subseteq Slots
  BY DEF AppInv, Shape, OnStack
<1> QED BY <1>3, <1>4, <1>5

LEMMA ReplacedPages ==
  ASSUME AppInv, stack # <<>>, NEW p, NEW pages, DOMAIN pages = Slots, PushReplacement(p, pages)
  PROVE  \E n \in Free : /\ page'[n] = p /\ Top' = n
                         /\ \A t \in Slots \ {n} : page'[t] = pages[t]
                         /\ \A t \in OnStack' : t = n \/ (t \in OnStack /\ page'[t] = pages[t])
<1>1. PICK n \in Slots : /\ Lowest(n, Free) /\ stack' = [stack EXCEPT ![Len(stack)] = n]
                         /\ page' = [pages EXCEPT ![n] = p]
  BY DEF PushReplacement
<1>2. n \in Free
  BY <1>1 DEF Lowest
<1>3. OnStack' = (OnStack \ {Top}) \cup {n} /\ Top' = n /\ n \notin OnStack
  BY <1>1, <1>2, ReplacedSlots
<1>4. page'[n] = p /\ \A t \in Slots \ {n} : page'[t] = pages[t]
  BY <1>1
<1>5. OnStack \subseteq Slots
  BY DEF AppInv, Shape, OnStack
<1> QED BY <1>2, <1>3, <1>4, <1>5

\* The page of a call that is answered keeps its kind, and its party but for a sign-in.
LEMMA SettledOnStack ==
  ASSUME AppInv, NEW s \in Slots, NEW q, page' = [page EXCEPT ![s] = Settle(s, q)],
         q.kind = page[s].kind, q.party = page[s].party \/ q.kind = "login"
  PROVE  \A t \in OnStack : \/ ~InSession(page'[t])
                            \/ page'[t].kind = page[t].kind /\ page'[t].party = page[t].party
<1>1. OnStack \subseteq Slots
  BY DEF AppInv, Shape, OnStack
<1>2. \A t \in Slots \ {s} : page'[t] = page[t]
  BY DEF AppInv
<1>3. page'[s] = q \/ page'[s] = NoPage
  BY SettledPage
<1>4. ~InSession(NoPage)
  BY DEF InSession, NoPage, NewPage
<1> QED BY <1>1, <1>2, <1>3, <1>4 DEF InSession

LEMMA UserBringsNone ==
  ASSUME AppInv, UserActs, \A t \in OnStack : ~InSession(page[t])
  PROVE  ~SessionOnStack' \/ DocOpened
<1>0. OnStack \subseteq Slots /\ page \in [Slots -> GoodPages]
  BY DEF AppInv, Shape, OnStack
<1>1. ASSUME NEW kind \in Opened, OpenPage(kind) PROVE ~SessionOnStack'
  <2>1. /\ stack # <<>> /\ <<page[Top].kind, kind>> \in Pushes
        /\ Push(Handed(page[Top], kind), page)
    BY <1>1 DEF OpenPage, Tap
  <2>2. ~InSession(Handed(page[Top], kind))
    BY <2>1, KindsOfPairs, HandedNone
  <2> QED BY <2>1, <2>2, PushedPages, NoneCameUp
<1>2. ASSUME NEW kind \in Opened, ReplacePage(kind) PROVE ~SessionOnStack'
  <2>1. /\ stack # <<>> /\ <<page[Top].kind, kind>> \in Replaces
        /\ PushReplacement(Handed(page[Top], kind), page)
    BY <1>2 DEF ReplacePage, Tap
  <2>2. ~InSession(Handed(page[Top], kind))
    BY <2>1, KindsOfPairs, HandedNone
  <2>3. DOMAIN page = Slots
    BY <1>0
  <2> QED BY <2>1, <2>2, <2>3, ReplacedPages, NoneCameUp
<1>3. CASE SystemBack \/ BackArrow
  <2>1. stack # <<>> /\ Pop /\ page' = page
    BY <1>3 DEF SystemBack, BackArrow, Tap
  <2>2. OnStack' \subseteq OnStack
    BY <2>1, PoppedSlots
  <2> QED BY <2>1, <2>2, NoneCameUp
<1>4. CASE SignOut
  <2>1. PICK n \in Slots : stack' = <<n>> /\ page' = [page EXCEPT ![n] = NewLogin]
    BY <1>4 DEF SignOut, PushAndRemoveAll
  <2>2. OnStack' = {n}
    BY <2>1 DEF OnStack
  <2>3. page'[n].kind = "login"
    BY <1>0, <2>1 DEF NewLogin, NewPage
  <2> QED BY <2>2, <2>3, NoneCameUp DEF InSession
<1>5. CASE OpenSignUp
  <2>1. stack # <<>> /\ Push(NewSignUp, page)
    BY <1>5 DEF OpenSignUp, Tap
  <2>2. ~InSession(NewSignUp)
    BY DEF InSession, NewSignUp, NewPage
  <2> QED BY <2>1, <2>2, PushedPages, NoneCameUp
<1>6. CASE OpenDocFromLogin
  <2> DEFINE p == [NewPage("doc", page[Top].party, page[Top].user) EXCEPT !.fromLogin = TRUE]
  <2>1. stack # <<>> /\ TopIs("login") /\ Push(p, page)
    BY <1>6 DEF OpenDocFromLogin, Tap
  <2>2. p.fromLogin /\ p.party = page[Top].party
    BY DEF NewPage
  <2> HIDE DEF p
  <2>3. page'[Top'] = p
    BY <2>1, PushedPages
  <2> QED BY <2>1, <2>2, <2>3 DEF DocOpened
<1>7. CASE SignIn \/ SubmitSignUp \/ (\E u \in Users \cup {NoUser} : TypeIn(u))
  <2>1. stack # <<>> /\ stack' = stack
    BY <1>7 DEF SignIn, SubmitSignUp, TypeIn, Tap
  <2>2. Top \in Slots /\ page[Top] \in Pages
    BY <2>1, TopFacts DEF GoodPages
  <2>3. /\ \A t \in Slots \ {Top} : page'[t] = page[t]
        /\ page'[Top].kind = page[Top].kind /\ page'[Top].party = page[Top].party
    BY <1>0, <1>7, <2>2 DEF SignIn, SubmitSignUp, TypeIn, Pages
  <2>4. OnStack' = OnStack
    BY <2>1 DEF OnStack
  <2> QED BY <1>0, <2>3, <2>4, NoneCameUp
<1> QED BY <1>1, <1>2, <1>3, <1>4, <1>5, <1>6, <1>7 DEF UserActs

LEMMA AnswersBringOne ==
  ASSUME AppInv, NEW s \in Slots, Answered(s), \A t \in OnStack : ~InSession(page[t])
  PROVE  ~SessionOnStack' \/ SignedIn
<1>0. OnStack \subseteq Slots /\ page \in [Slots -> GoodPages] /\ page[s] \in Pages
  BY DEF AppInv, Shape, OnStack, GoodPages
<1>1. CASE SignInSucceeds(s)
  <2> DEFINE q == [page[s] EXCEPT !.party = page[s].signing, !.signing = NoCall, !.loading = FALSE]
             after == [page EXCEPT ![s] = Settle(s, q)]
  <2>1. page[s].signing \in Users /\ page[s].kind = "login"
    BY <1>0, <1>1, NoCallAssumption DEF SignInSucceeds, GoodPages
  <2>2. q.kind = "login" /\ q.signing = NoCall
    BY <1>0, <2>1 DEF Pages
  <2>3. CASE page' = after /\ UNCHANGED <<stack, leaving>>
    <3>1. OnStack' = OnStack
      BY <2>3 DEF OnStack
    <3> HIDE DEF q
    <3> QED BY <2>1, <2>2, <2>3, <3>1, SettledOnStack, NoneCameUp
  <2>4. CASE stack # <<>> /\ PushReplacement(NewAlerts(page[s].signing), after)
    <3>1. DOMAIN after = Slots
      BY <1>0
    <3>2. Settle(s, q).signing = NoCall
      BY <2>2 DEF Settle, NoPage, NewPage
    <3>3. after[s].signing = NoCall
      BY <1>0, <3>2
    <3> HIDE DEF after, q
    <3>4. PICK n \in Free : /\ page'[n] = NewAlerts(page[s].signing) /\ Top' = n
                            /\ \A t \in Slots \ {n} : page'[t] = after[t]
      BY <2>4, <3>1, ReplacedPages
    <3>5. s # n
      BY <2>1 DEF Free
    <3> QED BY <2>1, <3>3, <3>4, <3>5, NoCallAssumption DEF SignedIn
  <2> QED BY <1>1, <2>3, <2>4 DEF SignInSucceeds
<1>2. CASE SignInFails(s)
  <2> DEFINE q == [page[s] EXCEPT !.signing = NoCall, !.loading = FALSE]
  <2>1. page' = [page EXCEPT ![s] = Settle(s, q)] /\ stack' = stack
    BY <1>2 DEF SignInFails
  <2>2. q.kind = page[s].kind /\ q.party = page[s].party
    BY <1>0 DEF Pages
  <2>3. OnStack' = OnStack
    BY <2>1 DEF OnStack
  <2> HIDE DEF q
  <2> QED BY <2>1, <2>2, <2>3, SettledOnStack, NoneCameUp
<1>3. CASE SignUpSucceeds(s) \/ SignUpFails(s)
  <2> DEFINE q == OneLess(page[s])
  <2>1. /\ page' = [page EXCEPT ![s] = Settle(s, q)]
        /\ stack' = stack \/ (stack # <<>> /\ Pop)
    BY <1>3 DEF SignUpSucceeds, SignUpFails
  <2>2. q.kind = page[s].kind /\ q.party = page[s].party
    BY <1>0 DEF Pages, OneLess
  <2>3. OnStack' \subseteq OnStack
    BY <2>1, PoppedSlots DEF OnStack
  <2> HIDE DEF q
  <2> QED BY <2>1, <2>2, <2>3, SettledOnStack, NoneCameUp
<1> QED BY <1>1, <1>2, <1>3 DEF Answered

(***************************************************************************)
(* After a sign-out, pages of a session come back only when a sign-in is   *)
(* answered, with the session of the user it was sent for, or when a       *)
(* LoginPage that has seen its user sign in opens a document.              *)
(***************************************************************************)
THEOREM SessionSourceSafe == Spec => SessionOnlyBySignIn
<1> DEFINE A == ~SessionOnStack /\ SessionOnStack' =>
       \/ \E s \in Slots : /\ page[s].signing \in Users
                           /\ page'[s].signing # page[s].signing
                           /\ page'[Top'] = NewAlerts(page[s].signing)
       \/ TopIs("login") /\ page'[Top'].fromLogin /\ page'[Top'].party = page[Top].party
<1>1. AppInv /\ [Next]_vars => [A]_vars
  <2> SUFFICES ASSUME AppInv, Next, ~SessionOnStack, SessionOnStack'
               PROVE  SignedIn \/ DocOpened
    BY DEF SignedIn, DocOpened
  <2>1. \A t \in OnStack : ~InSession(page[t])
    BY DEF SessionOnStack, OnStack
  <2>2. CASE UserActs
    BY <2>1, <2>2, UserBringsNone
  <2>3. ASSUME NEW s \in Slots, Answered(s) PROVE SignedIn
    BY <2>1, <2>3, AnswersBringOne
  <2>4. ASSUME NEW s \in Slots, Dispose(s) PROVE FALSE
    <3>1. s \notin OnStack /\ OnStack' = OnStack /\ OnStack \subseteq Slots
      BY <2>4 DEF Dispose, AppInv, Shape, SlotsDisjoint, OnStack
    <3>2. \A t \in Slots \ {s} : page'[t] = page[t]
      BY <2>4 DEF Dispose, AppInv
    <3> QED BY <2>1, <3>1, <3>2, NoneCameUp
  <2> QED BY <2>2, <2>3, <2>4 DEF Next
<1> QED BY <1>1, AppInductiveInvariant, PTL DEF Spec, SessionOnlyBySignIn
=============================================================================
