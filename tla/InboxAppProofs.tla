--------------------------- MODULE InboxAppProofs ---------------------------
(***************************************************************************)
(* Theorems about InboxApp, for any users, any number of slots and of      *)
(* sign-up requests, and whatever the user is allowed to open.             *)
(***************************************************************************)
EXTENDS InboxApp, TLAPS

-----------------------------------------------------------------------------
(* The inductive invariant. *)

(***************************************************************************)
(* Each page by itself: only LoginPage has a signin call, and its spinner  *)
(* is that call; only SignUpPage has signup calls.                         *)
(***************************************************************************)
GoodPages ==
  {p \in Pages : /\ p.signing # NoCall => p.kind = "login"
                 /\ p.submits > 0 => p.kind = "signup"
                 /\ p.kind = "login" => (p.loading <=> p.signing # NoCall)}

(***************************************************************************)
(* The stack and what is leaving it; of the pages, only the kinds matter.  *)
(***************************************************************************)
Shape ==
  /\ stack \in Seq(Slots) /\ leaving \subseteq Slots
  /\ SlotsDisjoint /\ LoginAtBottom /\ SignUpOnTop

AppInv == Shape /\ page \in [Slots -> GoodPages] /\ escaped \in BOOLEAN

\* What new and changed pages are.
LEMMA NewPagesAreGood ==
  ASSUME NEW kind \in Kinds, NEW party \in Users \cup {NoUser}, NEW user \in Users \cup {NoUser}
  PROVE  /\ NewPage(kind, party, user) \in GoodPages
         /\ NewPage(kind, party, user).kind = kind
BY BoundsAssumption DEF GoodPages, Pages, NewPage

LEMMA FromLoginIsGood ==
  ASSUME NEW p \in GoodPages
  PROVE  /\ [p EXCEPT !.fromLogin = TRUE] \in GoodPages
         /\ [p EXCEPT !.fromLogin = TRUE].kind = p.kind
<1>1. p \in Pages
  BY DEF GoodPages
<1>2. [p EXCEPT !.fromLogin = TRUE] \in Pages
  BY <1>1 DEF Pages
<1>3. \A f \in {"kind", "signing", "submits", "loading"} :
         [p EXCEPT !.fromLogin = TRUE][f] = p[f]
  BY <1>1 DEF Pages
<1> QED BY <1>2, <1>3 DEF GoodPages

\* _signIn sends its call, and its call is answered.
LEMMA SigningIsGood ==
  ASSUME NEW p \in GoodPages, p.kind = "login"
  PROVE  /\ [p EXCEPT !.loading = TRUE, !.signing = p.user] \in GoodPages
         /\ [p EXCEPT !.loading = TRUE, !.signing = p.user].kind = "login"
<1> DEFINE q == [p EXCEPT !.loading = TRUE, !.signing = p.user]
<1>1. p \in Pages
  BY DEF GoodPages
<1>2. q \in Pages
  BY <1>1 DEF Pages
<1>3. q.kind = "login" /\ q.signing = p.user /\ q.submits = p.submits /\ q.loading = TRUE
  BY <1>1 DEF Pages
<1> HIDE DEF q
<1>4. q.signing # NoCall
  BY <1>1, <1>3, NoCallAssumption DEF Pages
<1> QED BY <1>2, <1>3, <1>4 DEF GoodPages, q

LEMMA AnsweredIsGood ==
  ASSUME NEW p \in GoodPages
  PROVE  /\ [p EXCEPT !.signing = NoCall, !.loading = FALSE] \in GoodPages
         /\ [p EXCEPT !.signing = NoCall, !.loading = FALSE].kind = p.kind
         /\ p.signing \in Users =>
              /\ [p EXCEPT !.party = p.signing, !.signing = NoCall, !.loading = FALSE] \in GoodPages
              /\ [p EXCEPT !.party = p.signing, !.signing = NoCall, !.loading = FALSE].kind = p.kind
<1>1. p \in Pages
  BY DEF GoodPages
<1>2. /\ [p EXCEPT !.signing = NoCall, !.loading = FALSE] \in Pages
      /\ p.signing \in Users =>
           [p EXCEPT !.party = p.signing, !.signing = NoCall, !.loading = FALSE] \in Pages
  BY <1>1 DEF Pages
<1>3. \A q \in {[p EXCEPT !.signing = NoCall, !.loading = FALSE],
               [p EXCEPT !.party = p.signing, !.signing = NoCall, !.loading = FALSE]} :
        q.kind = p.kind /\ q.signing = NoCall /\ q.submits = p.submits /\ q.loading = FALSE
  BY <1>1 DEF Pages
<1> QED BY <1>2, <1>3 DEF GoodPages

\* SignUpPage's button is pressed, and one of its calls is answered.
LEMMA SubmitsAreGood ==
  ASSUME NEW p \in GoodPages, NEW n \in 0..MaxSubmits, p.kind = "signup"
  PROVE  /\ [p EXCEPT !.submits = n] \in GoodPages
         /\ [p EXCEPT !.submits = n].kind = "signup"
<1>1. p \in Pages
  BY DEF GoodPages
<1>2. [p EXCEPT !.submits = n] \in Pages
  BY <1>1 DEF Pages
<1>3. \A f \in {"kind", "signing", "loading"} : [p EXCEPT !.submits = n][f] = p[f]
  BY <1>1 DEF Pages
<1> QED BY <1>2, <1>3 DEF GoodPages

LEMMA TypedIsGood ==
  ASSUME NEW p \in GoodPages, NEW u \in Users \cup {NoUser}
  PROVE  [p EXCEPT !.user = u] \in GoodPages /\ [p EXCEPT !.user = u].kind = p.kind
<1>1. p \in Pages
  BY DEF GoodPages
<1>2. [p EXCEPT !.user = u] \in Pages
  BY <1>1 DEF Pages
<1>3. \A f \in {"kind", "signing", "submits", "loading"} : [p EXCEPT !.user = u][f] = p[f]
  BY <1>1 DEF Pages
<1> QED BY <1>2, <1>3 DEF GoodPages

\* One page changes, and keeps its kind.
LEMMA OnePageChanges ==
  ASSUME page \in [Slots -> GoodPages], NEW s \in Slots, NEW q \in GoodPages,
         page' = [page EXCEPT ![s] = q]
  PROVE  /\ page' \in [Slots -> GoodPages] /\ page'[s] = q
         /\ \A t \in Slots \ {s} : page'[t] = page[t]
OBVIOUS

LEMMA KindsOfPairs ==
  /\ \A a, b : <<a, b>> \in Pushes => /\ a \notin {"none", "login", "signup"}
                                      /\ b \in Kinds \ {"none", "login", "signup"}
  /\ \A a, b : <<a, b>> \in Replaces => /\ a \notin {"none", "login", "signup", "alerts"}
                                        /\ b \in {"alerts", "menu"}
BY DEF Pushes, Replaces, AlertsPushes, PushPushes, DetailPushes, MenuPushes, ProductPushes,
       DocPushes, LicensePushes, AccountPushes, PushReplaces, ProductReplaces,
       DocReplaces, Kinds

\* A slot that is free holds no page of the stack and none that is leaving.
LEMMA FreeIsFree ==
  ASSUME Shape, NEW n \in Free
  PROVE  n \in Slots /\ page[n].kind = "none" /\ n \notin leaving
         /\ \A i \in DOMAIN stack : stack[i] # n
BY DEF Shape, SlotsDisjoint, OnStack, Free

-----------------------------------------------------------------------------
(* The framework's operations keep the shape. *)

\* The shape depends on the kinds of the pages on the stack and leaving only.
LEMMA KindsDecide ==
  ASSUME Shape, stack' = stack, leaving' \subseteq leaving,
         \A s \in OnStack \cup leaving' : page'[s].kind = page[s].kind
  PROVE  Shape'
<1>1. \A i \in DOMAIN stack : page'[stack[i]].kind = page[stack[i]].kind
  BY DEF OnStack
<1>2. SlotsDisjoint'
  BY <1>1 DEF Shape, SlotsDisjoint, OnStack
<1>3. LoginAtBottom'
  BY <1>1 DEF Shape, LoginAtBottom
<1>4. SignUpOnTop'
  <2>1. \A i \in DOMAIN stack : page'[stack[i]].kind = "signup" =>
          i = 2 /\ i = Len(stack) /\ page[stack[1]].kind = "login"
    BY <1>1 DEF Shape, SignUpOnTop
  <2>2. \A i \in DOMAIN stack : i = 2 => 1 \in DOMAIN stack
    BY DEF Shape
  <2> QED BY <1>1, <2>1, <2>2 DEF SignUpOnTop
<1> QED BY <1>2, <1>3, <1>4 DEF Shape

LEMMA PushKeepsShape ==
  ASSUME Shape, NEW n \in Free, stack # <<>>,
         stack' = Append(stack, n), leaving' = leaving,
         \A s \in Slots \ {n} : page'[s].kind = page[s].kind,
         page'[n].kind \notin {"none", "login"}, page[Top].kind # "signup",
         page'[n].kind = "signup" => page[Top].kind = "login"
  PROVE  Shape'
<1> DEFINE k == Len(stack)
<1>0. /\ stack \in Seq(Slots) /\ k \in Nat \ {0} /\ DOMAIN stack = 1..k
      /\ n \in Slots /\ n \notin leaving /\ \A i \in 1..k : stack[i] # n
  BY FreeIsFree DEF Shape
<1>1. /\ stack' \in Seq(Slots) /\ Len(stack') = k + 1 /\ DOMAIN stack' = 1..(k + 1)
      /\ stack'[k + 1] = n /\ \A i \in 1..k : stack'[i] = stack[i]
      /\ \A i \in 1..k : stack[i] \in Slots \ {n}
  BY <1>0
<1>2. \A i \in 1..k : page'[stack'[i]].kind = page[stack[i]].kind
  BY <1>1
<1>3. SlotsDisjoint'
  <2>1. \A i, j \in 1..(k + 1) : i # j => stack'[i] # stack'[j]
    BY <1>0, <1>1 DEF Shape, SlotsDisjoint
  <2>2. OnStack' = OnStack \cup {n}
    BY <1>0, <1>1 DEF OnStack
  <2>3. \A s \in OnStack' \cup leaving : page'[s].kind # "none"
    BY <1>0, <2>2 DEF Shape, SlotsDisjoint, OnStack
  <2> QED BY <1>0, <1>1, <2>1, <2>2, <2>3 DEF Shape, SlotsDisjoint
<1>4. LoginAtBottom'
  BY <1>0, <1>1, <1>2 DEF Shape, LoginAtBottom
<1>5. SignUpOnTop'
  <2>1. \A i \in 1..k : page[stack[i]].kind # "signup"
    BY <1>0 DEF Shape, SignUpOnTop, Top
  <2>2. page[Top].kind = "login" => k = 1 /\ page[stack[1]].kind = "login"
    BY <1>0 DEF Shape, LoginAtBottom, Top
  <2> QED BY <1>0, <1>1, <1>2, <2>1, <2>2 DEF SignUpOnTop
<1> QED BY <1>0, <1>1, <1>3, <1>4, <1>5 DEF Shape

LEMMA LastReplaced ==
  ASSUME NEW seq \in Seq(Slots), NEW n \in Slots
  PROVE  LET t == [seq EXCEPT ![Len(seq)] = n]
         IN  seq # <<>> => /\ t \in Seq(Slots) /\ Len(t) = Len(seq) /\ t[Len(seq)] = n
                           /\ \A i \in 1..(Len(seq) - 1) : t[i] = seq[i]
<1>1. [seq EXCEPT ![Len(seq)] = n] = [i \in 1..Len(seq) |-> IF i = Len(seq) THEN n ELSE seq[i]]
  OBVIOUS
<1> DEFINE t == [i \in 1..Len(seq) |-> IF i = Len(seq) THEN n ELSE seq[i]]
<1>2. seq # <<>> => /\ t \in Seq(Slots) /\ Len(t) = Len(seq) /\ t[Len(seq)] = n
                    /\ \A i \in 1..(Len(seq) - 1) : t[i] = seq[i]
  OBVIOUS
<1> QED BY <1>1, <1>2

LEMMA ReplaceKeepsShape ==
  ASSUME Shape, NEW n \in Free, stack # <<>>,
         stack' \in Seq(Slots), Len(stack') = Len(stack), stack'[Len(stack)] = n,
         \A i \in 1..(Len(stack) - 1) : stack'[i] = stack[i],
         leaving' = leaving \cup {Top},
         \A s \in Slots \ {n} : page'[s].kind = page[s].kind,
         page'[n].kind \notin {"none", "login", "signup"},
         page'[n].kind = "alerts" \/ Len(stack) > 1
  PROVE  Shape'
<1> DEFINE k == Len(stack)
<1>0. /\ stack \in Seq(Slots) /\ k \in Nat \ {0} /\ DOMAIN stack = 1..k
      /\ n \in Slots /\ n \notin leaving /\ \A i \in 1..k : stack[i] # n
  BY FreeIsFree DEF Shape
<1>1. /\ stack' \in Seq(Slots) /\ Len(stack') = k /\ DOMAIN stack' = 1..k
      /\ stack'[k] = n /\ \A i \in 1..(k - 1) : stack'[i] = stack[i]
      /\ \A i \in 1..k : stack[i] \in Slots \ {n}
  BY <1>0
<1>2. \A i \in 1..(k - 1) : page'[stack'[i]].kind = page[stack[i]].kind
  BY <1>0, <1>1
<1>3. SlotsDisjoint'
  <2>1. \A i, j \in 1..k : i # j => stack'[i] # stack'[j]
    BY <1>0, <1>1 DEF Shape, SlotsDisjoint
  <2>2. /\ Top \in OnStack /\ Top = stack[k]
        /\ \A s \in OnStack' : s = n \/ (s \in OnStack /\ s # Top)
    BY <1>0, <1>1 DEF OnStack, Top, Shape, SlotsDisjoint
  <2>3. OnStack \subseteq Slots \ {n}
    BY <1>0, <1>1 DEF OnStack
  <2>4. \A s \in OnStack' \cup leaving' : page'[s].kind # "none"
    BY <1>0, <2>2, <2>3 DEF Shape, SlotsDisjoint
  <2>5. OnStack' \cap leaving' = {}
    BY <1>0, <2>2, <2>3 DEF Shape, SlotsDisjoint
  <2> QED BY <1>1, <2>1, <2>4, <2>5 DEF SlotsDisjoint
<1>4. LoginAtBottom'
  <2>1. \A i \in 1..(k - 1) : IF i = 1 THEN page'[stack'[i]].kind \in {"login", "alerts"}
                              ELSE page'[stack'[i]].kind # "login"
    BY <1>0, <1>2 DEF Shape, LoginAtBottom
  <2> QED BY <1>0, <1>1, <2>1 DEF LoginAtBottom
<1>5. SignUpOnTop'
  <2>1. \A i \in 1..(k - 1) : page'[stack'[i]].kind # "signup"
    BY <1>0, <1>2 DEF Shape, SignUpOnTop
  <2> QED BY <1>0, <1>1, <2>1 DEF SignUpOnTop
<1>6. leaving' \subseteq Slots
  BY <1>0 DEF Shape, Top
<1> QED BY <1>1, <1>3, <1>4, <1>5, <1>6 DEF Shape

LEMMA PopKeepsShape ==
  ASSUME Shape, stack # <<>>,
         stack' = SubSeq(stack, 1, Len(stack) - 1), leaving' = leaving \cup {Top},
         \A s \in OnStack \cup leaving : page'[s].kind = page[s].kind
  PROVE  Shape'
<1> DEFINE k == Len(stack)
<1>0. stack \in Seq(Slots) /\ k \in Nat \ {0} /\ DOMAIN stack = 1..k
  BY DEF Shape
<1>1. /\ stack' \in Seq(Slots) /\ Len(stack') = k - 1 /\ DOMAIN stack' = 1..(k - 1)
      /\ \A i \in 1..(k - 1) : stack'[i] = stack[i]
  BY <1>0
<1>2. \A i \in 1..(k - 1) : page'[stack'[i]].kind = page[stack[i]].kind
  BY <1>0, <1>1 DEF OnStack
<1>3. SlotsDisjoint'
  <2>1. \A i, j \in 1..(k - 1) : i # j => stack'[i] # stack'[j]
    BY <1>0, <1>1 DEF Shape, SlotsDisjoint
  <2>2. Top \in OnStack /\ \A s \in OnStack' : s \in OnStack /\ s # Top
    BY <1>0, <1>1 DEF OnStack, Top, Shape, SlotsDisjoint
  <2>3. \A s \in OnStack' \cup leaving' : page'[s].kind # "none"
    BY <2>2 DEF Shape, SlotsDisjoint
  <2>4. OnStack' \cap leaving' = {}
    BY <2>2 DEF Shape, SlotsDisjoint
  <2> QED BY <1>1, <2>1, <2>3, <2>4 DEF SlotsDisjoint
<1>4. LoginAtBottom'
  BY <1>0, <1>1, <1>2 DEF Shape, LoginAtBottom
<1>5. SignUpOnTop'
  <2>1. \A i \in 1..(k - 1) : page'[stack'[i]].kind # "signup"
    BY <1>0, <1>2 DEF Shape, SignUpOnTop
  <2> QED BY <1>1, <2>1 DEF SignUpOnTop
<1>6. leaving' \subseteq Slots
  BY <1>0 DEF Shape, Top
<1> QED BY <1>1, <1>3, <1>4, <1>5, <1>6 DEF Shape

LEMMA RemoveAllKeepsShape ==
  ASSUME Shape, NEW n \in Free, stack' = <<n>>, leaving' = leaving \cup OnStack,
         \A s \in Slots \ {n} : page'[s].kind = page[s].kind, page'[n].kind = "login"
  PROVE  Shape'
<1>0. n \in Slots /\ n \notin leaving /\ n \notin OnStack /\ OnStack \subseteq Slots
  BY FreeIsFree DEF Shape, OnStack
<1>1. /\ stack' \in Seq(Slots) /\ Len(stack') = 1 /\ DOMAIN stack' = {1} /\ stack'[1] = n
      /\ OnStack' = {n}
  BY <1>0 DEF OnStack
<1>2. SlotsDisjoint'
  BY <1>0, <1>1 DEF Shape, SlotsDisjoint
<1> QED BY <1>0, <1>1, <1>2 DEF Shape, LoginAtBottom, SignUpOnTop

-----------------------------------------------------------------------------
(* So every step keeps the invariant. *)

LEMMA PushStep ==
  ASSUME AppInv, stack # <<>>, NEW p \in GoodPages, Push(p, page), escaped' = escaped,
         p.kind \notin {"none", "login"}, page[Top].kind # "signup",
         p.kind = "signup" => page[Top].kind = "login"
  PROVE  AppInv'
<1>1. PICK n \in Slots : /\ Lowest(n, Free) /\ stack' = Append(stack, n)
                         /\ page' = [page EXCEPT ![n] = p] /\ leaving' = leaving
  BY DEF Push
<1>2. n \in Free
  BY <1>1 DEF Lowest
<1>3. /\ page' \in [Slots -> GoodPages] /\ page'[n] = p
      /\ \A t \in Slots \ {n} : page'[t] = page[t]
  BY <1>1, OnePageChanges DEF AppInv
<1>4. Shape'
  BY <1>1, <1>2, <1>3, PushKeepsShape DEF AppInv
<1> QED BY <1>3, <1>4 DEF AppInv

LEMMA ReplaceStep ==
  ASSUME AppInv, stack # <<>>, NEW p \in GoodPages,
         NEW pages \in [Slots -> GoodPages], \A s \in Slots : pages[s].kind = page[s].kind,
         PushReplacement(p, pages), escaped' = escaped,
         p.kind \notin {"none", "login", "signup"},
         p.kind = "alerts" \/ Len(stack) > 1
  PROVE  AppInv'
<1>1. PICK n \in Slots : /\ Lowest(n, Free) /\ stack' = [stack EXCEPT ![Len(stack)] = n]
                         /\ page' = [pages EXCEPT ![n] = p]
                         /\ leaving' = leaving \cup {Top}
  BY DEF PushReplacement
<1>2. n \in Free
  BY <1>1 DEF Lowest
<1>3. /\ page' \in [Slots -> GoodPages] /\ page'[n] = p
      /\ \A t \in Slots \ {n} : page'[t].kind = page[t].kind
  BY <1>1
<1>4. stack \in Seq(Slots)
  BY DEF AppInv, Shape
<1>5. /\ stack' \in Seq(Slots) /\ Len(stack') = Len(stack) /\ stack'[Len(stack)] = n
      /\ \A i \in 1..(Len(stack) - 1) : stack'[i] = stack[i]
  BY <1>1, <1>4, LastReplaced
<1>6. Shape'
  BY <1>1, <1>2, <1>3, <1>5, ReplaceKeepsShape DEF AppInv
<1> QED BY <1>3, <1>6 DEF AppInv

LEMMA PopStep ==
  ASSUME AppInv, stack # <<>>, Pop, escaped' \in BOOLEAN, page' \in [Slots -> GoodPages],
         \A s \in OnStack \cup leaving : page'[s].kind = page[s].kind
  PROVE  AppInv'
BY PopKeepsShape DEF AppInv, Pop

\* A call of page s ends; the page may be gone.
LEMMA SettleStep ==
  ASSUME AppInv, NEW s \in Slots, NEW q \in GoodPages, q.kind = page[s].kind,
         page' = [page EXCEPT ![s] = Settle(s, q)], UNCHANGED <<stack, leaving>>,
         escaped' \in BOOLEAN
  PROVE  AppInv'
<1>1. NoPage \in GoodPages
  BY NewPagesAreGood DEF NoPage, Kinds
<1>2. Settle(s, q) \in GoodPages
  BY <1>1 DEF Settle
<1>3. /\ page' \in [Slots -> GoodPages] /\ page'[s] = Settle(s, q)
      /\ \A t \in Slots \ {s} : page'[t] = page[t]
  BY <1>2, OnePageChanges DEF AppInv
<1>4. \A t \in OnStack \cup leaving : page'[t].kind = page[t].kind
  <2>1. OnStack \cup leaving \subseteq Slots
    BY DEF AppInv, Shape, OnStack
  <2> QED BY <1>3, <2>1 DEF Settle, Mounted
<1>5. Shape'
  BY <1>4, KindsDecide DEF AppInv
<1> QED BY <1>3, <1>5 DEF AppInv

\* The user changes the top page, or starts a call on it.
LEMMA TopChanges ==
  ASSUME AppInv, stack # <<>>, NEW q \in GoodPages, q.kind = page[Top].kind,
         page' = [page EXCEPT ![Top] = q], UNCHANGED <<stack, leaving, escaped>>
  PROVE  AppInv'
<1>1. Top \in Slots
  BY DEF AppInv, Shape, Top
<1>2. /\ page' \in [Slots -> GoodPages]
      /\ \A t \in Slots : page'[t].kind = page[t].kind
  BY <1>1, OnePageChanges DEF AppInv
<1>3. OnStack \cup leaving \subseteq Slots
  BY DEF AppInv, Shape, OnStack
<1>4. Shape'
  BY <1>2, <1>3, KindsDecide DEF AppInv
<1> QED BY <1>2, <1>4 DEF AppInv

\* The page on top, and where it is.
LEMMA TopFacts ==
  ASSUME AppInv, stack # <<>>
  PROVE  /\ Top \in Slots /\ Top \in OnStack /\ page[Top] \in GoodPages
         /\ page[Top].kind \in Kinds
         /\ page[Top].party \in Users \cup {NoUser} /\ page[Top].user \in Users \cup {NoUser}
         /\ page[Top].kind \notin {"login", "alerts"} => Len(stack) > 1
         /\ page[Top].kind = "login" => Len(stack) = 1
<1>1. stack \in Seq(Slots) /\ Len(stack) \in Nat /\ Len(stack) >= 1
  BY DEF AppInv, Shape
<1>2. Top \in Slots /\ Top \in OnStack
  BY <1>1 DEF Top, OnStack
<1>3. page[Top] \in GoodPages
  BY <1>2 DEF AppInv
<1>4. /\ page[Top].kind \notin {"login", "alerts"} => Len(stack) > 1
      /\ page[Top].kind = "login" => Len(stack) = 1
  <2>1. LoginAtBottom /\ Len(stack) \in DOMAIN stack
    BY <1>1 DEF AppInv, Shape
  <2>2. \A i \in DOMAIN stack : /\ i = 1 => page[stack[i]].kind \in {"login", "alerts"}
                                /\ i # 1 => page[stack[i]].kind # "login"
    BY <1>1, <2>1 DEF LoginAtBottom
  <2>3. Len(stack) = 1 \/ Len(stack) > 1
    <3>1. \A k \in Nat : k >= 1 => k = 1 \/ k > 1
      OBVIOUS
    <3> QED BY <1>1, <3>1, Zenon
  <2> QED BY <2>1, <2>2, <2>3 DEF Top
<1> QED BY <1>2, <1>3, <1>4 DEF GoodPages, Pages

LEMMA UserActsKeepInv == AppInv /\ UserActs => AppInv'
<1> SUFFICES ASSUME AppInv, UserActs PROVE AppInv'
  OBVIOUS
<1>0. page \in [Slots -> GoodPages] /\ escaped \in BOOLEAN
  BY DEF AppInv
<1>1. ASSUME NEW kind \in Opened, OpenPage(kind) PROVE AppInv'
  <2> DEFINE p == Handed(page[Top], kind)
  <2>1. /\ stack # <<>> /\ <<page[Top].kind, kind>> \in Pushes
        /\ Push(p, page) /\ escaped' = escaped
    BY <1>1 DEF OpenPage, Tap
  <2>2. /\ page[Top].kind \notin {"none", "login", "signup"}
        /\ kind \in Kinds \ {"none", "login", "signup"}
    BY <2>1, KindsOfPairs
  <2>3. p \in GoodPages /\ p.kind = kind
    BY <2>1, <2>2, TopFacts, NewPagesAreGood DEF Handed
  <2> HIDE DEF p
  <2> QED BY <2>1, <2>2, <2>3, PushStep
<1>2. ASSUME NEW kind \in Opened, ReplacePage(kind) PROVE AppInv'
  <2> DEFINE p == Handed(page[Top], kind)
  <2>1. /\ stack # <<>> /\ <<page[Top].kind, kind>> \in Replaces
        /\ PushReplacement(p, page) /\ escaped' = escaped
    BY <1>2 DEF ReplacePage, Tap
  <2>2. /\ page[Top].kind \notin {"none", "login", "signup", "alerts"}
        /\ kind \in {"alerts", "menu"} /\ kind \in Kinds
    BY <2>1, KindsOfPairs DEF Kinds
  <2>3. p \in GoodPages /\ p.kind = kind
    BY <2>1, <2>2, TopFacts, NewPagesAreGood DEF Handed
  <2>4. Len(stack) > 1
    BY <2>1, <2>2, TopFacts
  <2> HIDE DEF p
  <2> QED BY <1>0, <2>1, <2>2, <2>3, <2>4, ReplaceStep
<1>3. CASE SystemBack \/ BackArrow
  <2>1. stack # <<>> /\ Pop /\ page' = page /\ escaped' = escaped
    BY <1>3 DEF SystemBack, BackArrow, Tap
  <2> QED BY <1>0, <2>1, PopStep
<1>4. CASE SignOut
  <2>1. NewLogin \in GoodPages /\ NewLogin.kind = "login"
    BY NewPagesAreGood DEF NewLogin, Kinds
  <2>2. PICK n \in Slots : /\ Lowest(n, Free) /\ stack' = <<n>>
                           /\ page' = [page EXCEPT ![n] = NewLogin]
                           /\ leaving' = leaving \cup OnStack /\ escaped' = escaped
    BY <1>4 DEF SignOut, PushAndRemoveAll
  <2>3. n \in Free
    BY <2>2 DEF Lowest
  <2>4. /\ page' \in [Slots -> GoodPages] /\ page'[n] = NewLogin
        /\ \A t \in Slots \ {n} : page'[t] = page[t]
    BY <1>0, <2>1, <2>2, OnePageChanges
  <2>5. Shape'
    BY <2>1, <2>2, <2>3, <2>4, RemoveAllKeepsShape DEF AppInv
  <2> QED BY <1>0, <2>2, <2>4, <2>5 DEF AppInv
<1>5. ASSUME NEW u \in Users \cup {NoUser}, TypeIn(u) PROVE AppInv'
  <2>1. stack # <<>> /\ UNCHANGED <<stack, leaving, escaped>>
        /\ page' = [page EXCEPT ![Top] = [page[Top] EXCEPT !.user = u]]
    BY <1>5 DEF TypeIn, Tap
  <2> QED BY <2>1, TopFacts, TypedIsGood, TopChanges
<1>6. CASE OpenSignUp
  <2>1. NewSignUp \in GoodPages /\ NewSignUp.kind = "signup"
    BY NewPagesAreGood DEF NewSignUp, Kinds
  <2>2. stack # <<>> /\ page[Top].kind = "login" /\ Push(NewSignUp, page) /\ escaped' = escaped
    BY <1>6 DEF OpenSignUp, TopIs
  <2> QED BY <2>1, <2>2, PushStep
<1>7. CASE OpenDocFromLogin
  <2> DEFINE q == NewPage("doc", page[Top].party, page[Top].user)
             p == [q EXCEPT !.fromLogin = TRUE]
  <2>1. /\ stack # <<>> /\ page[Top].kind = "login"
        /\ Push(p, page) /\ escaped' = escaped
    BY <1>7 DEF OpenDocFromLogin, TopIs
  <2>2. q \in GoodPages /\ q.kind = "doc"
    <3>1. page[Top].party \in Users \cup {NoUser} /\ page[Top].user \in Users \cup {NoUser}
      BY <2>1, TopFacts
    <3> QED BY <3>1, NewPagesAreGood DEF Kinds
  <2> HIDE DEF q
  <2>3. p \in GoodPages /\ p.kind = "doc"
    BY <2>2, FromLoginIsGood
  <2> HIDE DEF p
  <2> QED BY <2>1, <2>3, PushStep
<1>8. CASE SignIn
  <2>1. /\ stack # <<>> /\ page[Top].kind = "login"
        /\ page' = [page EXCEPT ![Top].loading = TRUE, ![Top].signing = page[Top].user]
        /\ UNCHANGED <<stack, leaving, escaped>>
    BY <1>8 DEF SignIn, TopIs
  <2>2. page' = [page EXCEPT ![Top] =
                   [page[Top] EXCEPT !.loading = TRUE, !.signing = page[Top].user]]
    BY <1>0, <2>1, TopFacts
  <2>3. page[Top] \in GoodPages
    BY <2>1, TopFacts
  <2> QED BY <2>1, <2>2, <2>3, SigningIsGood, TopChanges
<1>9. CASE SubmitSignUp
  <2>1. /\ stack # <<>> /\ page[Top].kind = "signup" /\ page[Top].submits < MaxSubmits
        /\ page' = [page EXCEPT ![Top] = [page[Top] EXCEPT !.submits = page[Top].submits + 1]]
        /\ UNCHANGED <<stack, leaving, escaped>>
    BY <1>9 DEF SubmitSignUp, TopIs
  <2>2. page[Top] \in GoodPages /\ page[Top].submits \in 0..MaxSubmits
    BY <2>1, TopFacts DEF GoodPages, Pages
  <2>3. page[Top].submits + 1 \in 0..MaxSubmits
    BY <2>1, <2>2, BoundsAssumption
  <2> QED BY <2>1, <2>2, <2>3, SubmitsAreGood, TopChanges
<1> QED
  BY <1>1, <1>2, <1>3, <1>4, <1>5, <1>6, <1>7, <1>8, <1>9 DEF UserActs

LEMMA AnswersKeepInv ==
  ASSUME AppInv, NEW s \in Slots, Answered(s)
  PROVE  AppInv'
<1>0. page \in [Slots -> GoodPages] /\ escaped \in BOOLEAN /\ page[s] \in GoodPages
  BY DEF AppInv
<1>1. CASE SignInSucceeds(s)
  <2> DEFINE p == [page[s] EXCEPT !.party = page[s].signing, !.signing = NoCall, !.loading = FALSE]
             after == [page EXCEPT ![s] = Settle(s, p)]
  <2>0. page[s].signing \in Users
    BY <1>1 DEF SignInSucceeds
  <2>1. p \in GoodPages /\ p.kind = page[s].kind
    BY <1>0, <2>0, AnsweredIsGood
  <2> HIDE DEF p
  <2>2. CASE Mounted(s) /\ stack # <<>>
    <3>1. PushReplacement(NewAlerts(page[s].signing), after) /\ escaped' = escaped
      BY <1>1, <2>2 DEF SignInSucceeds, p
    <3>2. after \in [Slots -> GoodPages] /\ \A t \in Slots : after[t].kind = page[t].kind
      BY <1>0, <2>1, <2>2 DEF Settle
    <3>3. NewAlerts(page[s].signing) \in GoodPages /\ NewAlerts(page[s].signing).kind = "alerts"
      <4> QED BY <2>0, NewPagesAreGood DEF NewAlerts, Kinds
    <3> HIDE DEF after
    <3> QED BY <2>2, <3>1, <3>2, <3>3, ReplaceStep
  <2>3. CASE ~(Mounted(s) /\ stack # <<>>)
    <3>1. page' = [page EXCEPT ![s] = Settle(s, p)] /\ UNCHANGED <<stack, leaving, escaped>>
      BY <1>1, <2>3 DEF SignInSucceeds, p
    <3> QED BY <1>0, <2>1, <3>1, SettleStep
  <2> QED BY <2>2, <2>3
<1>2. CASE SignInFails(s)
  <2> DEFINE p == [page[s] EXCEPT !.signing = NoCall, !.loading = FALSE]
  <2>1. p \in GoodPages /\ p.kind = page[s].kind
    BY <1>0, AnsweredIsGood
  <2>2. /\ page' = [page EXCEPT ![s] = Settle(s, p)] /\ UNCHANGED <<stack, leaving>>
        /\ escaped' = (escaped \/ ~Mounted(s))
    BY <1>2 DEF SignInFails
  <2>3. escaped' \in BOOLEAN
    BY <1>0, <2>2
  <2> HIDE DEF p
  <2> QED BY <2>1, <2>2, <2>3, SettleStep
<1>3. CASE SignUpSucceeds(s) \/ SignUpFails(s)
  <2> DEFINE p == OneLess(page[s])
  <2>1. page[s].submits > 0 /\ page' = [page EXCEPT ![s] = Settle(s, p)]
    BY <1>3 DEF SignUpSucceeds, SignUpFails
  <2>2. page[s].kind = "signup" /\ page[s].submits \in 0..MaxSubmits
    BY <1>0, <2>1 DEF GoodPages, Pages
  <2>3. page[s].submits - 1 \in 0..MaxSubmits
    BY <2>1, <2>2, BoundsAssumption
  <2>4. p \in GoodPages /\ p.kind = page[s].kind
    BY <1>0, <2>2, <2>3, SubmitsAreGood DEF OneLess
  <2> HIDE DEF p
  <2>5. CASE SignUpSucceeds(s) /\ Mounted(s) /\ stack # <<>>
    <3>1. Pop /\ escaped' = escaped
      BY <2>5 DEF SignUpSucceeds
    <3>2. page' = [page EXCEPT ![s] = p]
      BY <2>1, <2>5 DEF Settle
    <3>3. page' \in [Slots -> GoodPages] /\ \A t \in Slots : page'[t].kind = page[t].kind
      BY <1>0, <2>4, <3>2, OnePageChanges
    <3>4. OnStack \cup leaving \subseteq Slots
      BY DEF AppInv, Shape, OnStack
    <3> QED BY <1>0, <2>5, <3>1, <3>3, <3>4, PopStep
  <2>6. CASE SignUpSucceeds(s) /\ ~(Mounted(s) /\ stack # <<>>)
    <3>1. UNCHANGED <<stack, leaving>> /\ escaped' = TRUE
      BY <2>6 DEF SignUpSucceeds
    <3> QED BY <2>1, <2>4, <3>1, SettleStep
  <2>7. CASE SignUpFails(s)
    <3>1. UNCHANGED <<stack, leaving>> /\ escaped' = (escaped \/ ~Mounted(s))
      BY <2>7 DEF SignUpFails
    <3>2. escaped' \in BOOLEAN
      BY <1>0, <3>1
    <3> QED BY <2>1, <2>4, <3>1, <3>2, SettleStep
  <2> QED BY <1>3, <2>5, <2>6, <2>7
<1> QED BY <1>1, <1>2, <1>3 DEF Answered

LEMMA DisposeKeepsInv ==
  ASSUME AppInv, NEW s \in Slots, Dispose(s)
  PROVE  AppInv'
<1>1. /\ s \in leaving /\ leaving' = leaving \ {s} /\ UNCHANGED <<stack, escaped>>
      /\ page' = page \/ page' = [page EXCEPT ![s] = NoPage]
  BY DEF Dispose
<1>2. NoPage \in GoodPages
  BY NewPagesAreGood DEF NoPage, Kinds
<1>3. page' \in [Slots -> GoodPages] /\ \A t \in Slots \ {s} : page'[t] = page[t]
  BY <1>1, <1>2 DEF AppInv
<1>4. OnStack \cup leaving' \subseteq Slots \ {s}
  BY <1>1 DEF AppInv, Shape, SlotsDisjoint, OnStack
<1>5. Shape'
  BY <1>1, <1>3, <1>4, KindsDecide DEF AppInv
<1> QED BY <1>1, <1>3, <1>5 DEF AppInv

LEMMA AppNextKeepsInv == AppInv /\ [Next]_vars => AppInv'
<1> SUFFICES ASSUME AppInv, [Next]_vars PROVE AppInv'
  OBVIOUS
<1>1. CASE UserActs
  BY <1>1, UserActsKeepInv
<1>2. ASSUME NEW s \in Slots, Answered(s) \/ Dispose(s) PROVE AppInv'
  BY <1>2, AnswersKeepInv, DisposeKeepsInv
<1>3. CASE UNCHANGED vars
  <2>1. UNCHANGED <<stack, leaving, page, escaped>>
    BY <1>3 DEF vars
  <2>2. Shape'
    BY <2>1, KindsDecide DEF AppInv
  <2> QED BY <2>1, <2>2 DEF AppInv
<1> QED BY <1>1, <1>2, <1>3 DEF Next

LEMMA AppInitEstablishes == Init => AppInv
<1> SUFFICES ASSUME Init PROVE AppInv
  OBVIOUS
<1>1. /\ NewLogin \in GoodPages /\ NewLogin.kind = "login"
      /\ NoPage \in GoodPages
  BY NewPagesAreGood DEF NewLogin, NoPage, Kinds
<1>2. 1 \in Slots
  BY BoundsAssumption DEF Slots
<1>3. page \in [Slots -> GoodPages] /\ page[1] = NewLogin
  BY <1>1, <1>2 DEF Init
<1>4. stack = <<1>> /\ stack \in Seq(Slots) /\ Len(stack) = 1 /\ DOMAIN stack = {1} /\ stack[1] = 1
  BY <1>2 DEF Init
<1>5. OnStack = {1} /\ leaving = {} /\ escaped = FALSE
  BY <1>4 DEF Init, OnStack
<1>6. SlotsDisjoint
  BY <1>1, <1>3, <1>4, <1>5 DEF SlotsDisjoint
<1> QED BY <1>1, <1>3, <1>4, <1>5, <1>6 DEF AppInv, Shape, LoginAtBottom, SignUpOnTop

-----------------------------------------------------------------------------
(***************************************************************************)
(* Every state of the app satisfies the inductive invariant.               *)
(***************************************************************************)
THEOREM AppInductiveInvariant == Spec => []AppInv
BY AppInitEstablishes, AppNextKeepsInv, PTL DEF Spec

(***************************************************************************)
(* The state has its type: no page is ever more than the program makes of  *)
(* it, and no request is answered twice.                                   *)
(***************************************************************************)
THEOREM AppTypeCorrect == Spec => []TypeOK
<1>1. AppInv => TypeOK
  BY DEF AppInv, Shape, GoodPages, TypeOK
<1> QED BY <1>1, AppInductiveInvariant, PTL

(***************************************************************************)
(* No page is in two places, LoginPage is the bottom page or not on the    *)
(* stack, and SignUpPage sits on LoginPage and under nothing, whichever    *)
(* answers navigate while it is open.                                      *)
(***************************************************************************)
THEOREM StackShapeSafe == Spec => []StackShape
<1>1. AppInv => StackShape
  BY DEF AppInv, Shape, StackShape
<1> QED BY <1>1, AppInductiveInvariant, PTL

(***************************************************************************)
(* LoginPage's spinner is its request.                                     *)
(***************************************************************************)
THEOREM RequestSafe == Spec => []SpinnerIsRequest
<1>1. AppInv => SpinnerIsRequest
  BY DEF AppInv, GoodPages, SpinnerIsRequest
<1> QED BY <1>1, AppInductiveInvariant, PTL

-----------------------------------------------------------------------------
(* What steps may do. *)

LEMMA PopEmpties ==
  ASSUME NEW seq \in Seq(Slots), seq # <<>>, SubSeq(seq, 1, Len(seq) - 1) = <<>>
  PROVE  Len(seq) = 1
<1>1. PICK k \in Nat : k = Len(seq)
  OBVIOUS
<1>2. k # 0
  BY <1>1
<1>3. Len(SubSeq(seq, 1, Len(seq) - 1)) = k - 1
  BY <1>1, <1>2
<1>4. k - 1 = 0
  BY <1>3
<1>5. k = 1
  BY <1>4
<1> QED BY <1>1, <1>5

\* What a call that ends leaves of its page.
LEMMA SettledPage ==
  ASSUME AppInv, NEW s \in Slots, NEW q, page' = [page EXCEPT ![s] = Settle(s, q)]
  PROVE  page'[s] = q \/ (page'[s] = NoPage /\ ~Mounted(s))
BY DEF AppInv, Settle

(***************************************************************************)
(* The window goes blank only when a sign-up is answered whose page has    *)
(* left the stack.                                                         *)
(***************************************************************************)
THEOREM BlankSafe == Spec => BlankOnlyByLateSignUp
<1> DEFINE A == stack # <<>> /\ stack' = <<>> =>
                  \E s \in leaving : page[s].kind = "signup" /\ page'[s].submits < page[s].submits
<1>1. AppInv /\ [Next]_vars => [A]_vars
  <2> SUFFICES ASSUME AppInv, Next, stack # <<>>, stack' = <<>>
               PROVE  \E s \in leaving : page[s].kind = "signup" /\ page'[s].submits < page[s].submits
    OBVIOUS
  <2>0. stack \in Seq(Slots) /\ Len(stack) \in Nat /\ page \in [Slots -> GoodPages]
    BY DEF AppInv, Shape
  <2>1. \A n : Append(stack, n) # <<>> /\ [stack EXCEPT ![Len(stack)] = n] # <<>> /\ <<n>> # <<>>
    BY <2>0
  <2>2. \A p, pages : ~Push(p, pages) /\ ~PushReplacement(p, pages) /\ ~PushAndRemoveAll(p)
    BY <2>1, Zenon DEF Push, PushReplacement, PushAndRemoveAll
  <2>3. Pop => Len(stack) = 1
    BY <2>0, PopEmpties DEF Pop
  <2>4. ~UserActs
    <3>1. ~SystemBack
      BY <2>3 DEF SystemBack
    <3>2. ~BackArrow
      <4>1. BackArrow => page[Top].kind \in {"account", "detail"}
        BY DEF BackArrow, TopIs
      <4>2. BackArrow => Len(stack) > 1
        BY <4>1, TopFacts
      <4>3. ~(1 > 1)
        OBVIOUS
      <4> QED BY <2>3, <4>2, <4>3, Zenon DEF BackArrow
    <3> QED
      BY <2>2, <3>1, <3>2
      DEF UserActs, OpenPage, ReplacePage, SignOut, TypeIn, OpenSignUp, OpenDocFromLogin,
          SignIn, SubmitSignUp
  <2>5. PICK s \in Slots : Answered(s)
    BY <2>4 DEF Next, Dispose
  <2>6. SignUpSucceeds(s) /\ Mounted(s) /\ Pop
    BY <2>2, <2>5 DEF Answered, SignInSucceeds, SignInFails, SignUpSucceeds, SignUpFails
  <2>7. page[s] \in Pages /\ page[s].submits > 0 /\ page[s].kind = "signup"
    BY <2>0, <2>6 DEF SignUpSucceeds, GoodPages
  <2>8. s \in leaving
    BY <2>0, <2>3, <2>6, <2>7 DEF Mounted, OnStack, AppInv, Shape, SignUpOnTop
  <2>9. page'[s] = [page[s] EXCEPT !.submits = page[s].submits - 1]
    BY <2>0, <2>6 DEF SignUpSucceeds, Settle, OneLess
  <2>10. page'[s].submits = page[s].submits - 1 /\ page[s].submits \in Int
    BY <2>7, <2>9 DEF Pages
  <2> QED BY <2>7, <2>8, <2>10
<1> QED BY <1>1, AppInductiveInvariant, PTL DEF Spec, BlankOnlyByLateSignUp

(***************************************************************************)
(* An error escapes only from a page that left the stack before its call   *)
(* was answered.                                                           *)
(***************************************************************************)
THEOREM LateEscapesSafe == Spec => EscapesOnlyAfterLeaving
<1> DEFINE A == ~escaped /\ escaped' =>
                  \E s \in Slots \ OnStack : HasCall(page[s]) /\ page'[s] # page[s]
<1>1. AppInv /\ [Next]_vars => [A]_vars
  <2> SUFFICES ASSUME AppInv, Next, ~escaped, escaped'
               PROVE  \E s \in Slots \ OnStack : HasCall(page[s]) /\ page'[s] # page[s]
    OBVIOUS
  <2>0. page \in [Slots -> GoodPages]
    BY DEF AppInv
  <2>1. ~UserActs
    BY DEF UserActs, OpenPage, ReplacePage, SystemBack, BackArrow, SignOut, TypeIn, OpenSignUp,
           OpenDocFromLogin, SignIn, SubmitSignUp
  <2>2. PICK s \in Slots : Answered(s)
    BY <2>1 DEF Next, Dispose
  <2>3. NoPage.signing = NoCall /\ NoPage.submits = 0
    BY DEF NoPage, NewPage
  <2>4. page[s] \in Pages
    BY <2>0 DEF GoodPages
  <2>5. CASE SignInFails(s)
    <3> DEFINE q == [page[s] EXCEPT !.signing = NoCall, !.loading = FALSE]
    <3>1. page[s].signing # NoCall /\ ~Mounted(s) /\ page' = [page EXCEPT ![s] = Settle(s, q)]
      BY <2>5 DEF SignInFails
    <3>2. q.signing = NoCall
      BY <2>4 DEF Pages
    <3> HIDE DEF q
    <3>3. page'[s].signing = NoCall
      BY <2>3, <3>1, <3>2, SettledPage
    <3> QED BY <3>1, <3>3 DEF Mounted, HasCall
  <2>6. CASE SignUpSucceeds(s) \/ SignUpFails(s)
    <3> DEFINE q == OneLess(page[s])
    <3>1. /\ page[s].submits > 0 /\ page' = [page EXCEPT ![s] = Settle(s, q)]
          /\ ~Mounted(s) \/ stack = <<>>
      BY <2>6 DEF SignUpSucceeds, SignUpFails
    <3>2. q.submits = page[s].submits - 1 /\ page[s].submits \in Int
      BY <2>4 DEF Pages, OneLess
    <3> HIDE DEF q
    <3>3. page'[s].submits # page[s].submits
      <4>1. page'[s] = q \/ page'[s] = NoPage
        BY <3>1, SettledPage
      <4> QED BY <2>3, <3>1, <3>2, <4>1
    <3>4. s \notin OnStack
      BY <3>1 DEF Mounted, OnStack
    <3> QED BY <3>1, <3>3, <3>4 DEF HasCall
  <2>7. ~SignInSucceeds(s)
    BY DEF SignInSucceeds
  <2> QED BY <2>2, <2>5, <2>6, <2>7 DEF Answered
<1> QED BY <1>1, AppInductiveInvariant, PTL DEF Spec, EscapesOnlyAfterLeaving

-----------------------------------------------------------------------------
(* Where sessions meet. *)

\* A page of the stack stays what it is, or is a form that changes: no page of a session.
KeptAs(q, p) == q = p \/ (p.kind \in {"login", "signup"} /\ q.kind = p.kind)

\* What lies at the bottom and stays there stays explained, whatever is done above.
LEMMA BelowStaysExplained ==
  ASSUME SessionsMeetAtSignIn, NEW m \in Nat, 1..m \subseteq DOMAIN stack,
         \A i \in 1..m : stack'[i] = stack[i] /\ KeptAs(page'[stack[i]], page[stack[i]])
  PROVE  \A i \in 1..m : SessionExplained(i)'
<1> SUFFICES ASSUME NEW i \in 1..m, InSession(page'[stack'[i]]) PROVE SessionExplained(i)'
  BY DEF SessionExplained
<1>1. page'[stack'[i]] = page[stack[i]]
  BY DEF KeptAs, InSession
<1>2. SessionExplained(i)
  BY DEF SessionsMeetAtSignIn
<1>3. CASE i > 1 /\ InSession(page[stack[i - 1]]) /\ SameSession(page[stack[i]], page[stack[i - 1]])
  <2>1. i - 1 \in 1..m
    BY <1>3
  <2>2. page'[stack'[i - 1]] = page[stack[i - 1]]
    BY <1>3, <2>1 DEF KeptAs, InSession
  <2> QED BY <1>1, <1>3, <2>2 DEF SessionExplained
<1>4. CASE page[stack[i]].kind = "alerts" /\ page[stack[i]].party = page[stack[i]].user
  BY <1>1, <1>4 DEF SessionExplained
<1>5. CASE i = 2 /\ page[stack[1]].kind = "login"
  <2>1. 1 \in 1..m
    BY <1>5
  <2>2. page'[stack'[1]].kind = "login"
    BY <1>5, <2>1 DEF KeptAs
  <2> QED BY <1>5, <2>2 DEF SessionExplained
<1> QED BY <1>1, <1>2, <1>3, <1>4, <1>5 DEF SessionExplained

LEMMA LastDropped ==
  ASSUME NEW seq \in Seq(Slots), seq # <<>>
  PROVE  LET t == SubSeq(seq, 1, Len(seq) - 1)
         IN  /\ Len(seq) - 1 \in Nat /\ 1..(Len(seq) - 1) \subseteq 1..Len(seq)
             /\ DOMAIN t = 1..(Len(seq) - 1) /\ \A i \in 1..(Len(seq) - 1) : t[i] = seq[i]
<1>1. Len(seq) \in Nat \ {0}
  OBVIOUS
<1> QED BY <1>1

\* The stack stays, or loses its top.
LEMMA LessStaysExplained ==
  ASSUME AppInv, SessionsMeetAtSignIn, stack' = stack \/ (stack # <<>> /\ Pop),
         \A t \in OnStack : KeptAs(page'[t], page[t])
  PROVE  SessionsMeetAtSignIn'
<1>k. PICK k \in Nat : k = Len(stack)
  BY DEF AppInv, Shape
<1>0. stack \in Seq(Slots) /\ DOMAIN stack = 1..k
  BY <1>k DEF AppInv, Shape
<1>1. \A i \in 1..k : KeptAs(page'[stack[i]], page[stack[i]])
  BY <1>0 DEF OnStack
<1>2. CASE stack' = stack
  <2>1. \A i \in 1..k : SessionExplained(i)'
    BY <1>0, <1>1, <1>2, BelowStaysExplained
  <2> QED BY <1>0, <1>2, <2>1 DEF SessionsMeetAtSignIn
<1>3. CASE stack # <<>> /\ Pop
  <2>1. /\ k - 1 \in Nat /\ 1..(k - 1) \subseteq 1..k
        /\ DOMAIN stack' = 1..(k - 1) /\ \A i \in 1..(k - 1) : stack'[i] = stack[i]
    BY <1>0, <1>3, <1>k, LastDropped DEF Pop
  <2>2. \A i \in 1..(k - 1) : SessionExplained(i)'
    BY <1>0, <1>1, <2>1, BelowStaysExplained
  <2> QED BY <2>1, <2>2 DEF SessionsMeetAtSignIn
<1> QED BY <1>2, <1>3

LEMMA PushExplained ==
  ASSUME AppInv, SessionsMeetAtSignIn, stack # <<>>, NEW p, Push(p, page),
         InSession(p) => \/ page[Top].kind = "login"
                         \/ InSession(page[Top]) /\ SameSession(p, page[Top])
  PROVE  SessionsMeetAtSignIn'
<1>k. PICK k \in Nat : k = Len(stack)
  BY DEF AppInv, Shape
<1>n. PICK n \in Slots : /\ Lowest(n, Free) /\ stack' = Append(stack, n)
                         /\ page' = [page EXCEPT ![n] = p]
  BY DEF Push
<1>f. n \in Free
  BY <1>n DEF Lowest
<1>0. /\ stack \in Seq(Slots) /\ k \in Nat \ {0} /\ DOMAIN stack = 1..k
      /\ page \in [Slots -> GoodPages] /\ \A i \in 1..k : stack[i] # n
  BY <1>f, <1>k, FreeIsFree DEF AppInv, Shape
<1>1. /\ DOMAIN stack' = 1..(k + 1) /\ stack'[k + 1] = n
      /\ \A i \in 1..k : stack'[i] = stack[i] /\ stack[i] \in Slots \ {n}
  BY <1>0, <1>k, <1>n
<1>2. page'[n] = p /\ \A i \in 1..k : page'[stack'[i]] = page[stack[i]]
  BY <1>0, <1>1, <1>n
<1>3. \A i \in 1..k : SessionExplained(i)'
  BY <1>0, <1>1, <1>2, BelowStaysExplained DEF KeptAs
<1>4. SessionExplained(k + 1)'
  <2>1. SUFFICES ASSUME InSession(p) PROVE SessionExplained(k + 1)'
    BY <1>1, <1>2 DEF SessionExplained
  <2>2. k + 1 > 1 /\ (k + 1) - 1 = k /\ page'[stack'[k]] = page[Top]
    BY <1>0, <1>2, <1>k DEF Top
  <2>3. CASE page[Top].kind = "login"
    <3>1. k = 1
      BY <1>k, <2>3, TopFacts
    <3> QED BY <2>2, <2>3, <3>1 DEF SessionExplained
  <2>4. CASE InSession(page[Top]) /\ SameSession(p, page[Top])
    BY <1>1, <1>2, <2>2, <2>4 DEF SessionExplained
  <2> QED BY <2>1, <2>3, <2>4
<1>5. \A i \in 1..(k + 1) : i = k + 1 \/ i \in 1..k
  BY <1>0
<1> QED BY <1>1, <1>3, <1>4, <1>5 DEF SessionsMeetAtSignIn

\* The page on top is replaced by a sign-in's AlertsPage, or by one of its own session.
LEMMA ReplaceExplained ==
  ASSUME AppInv, SessionsMeetAtSignIn, stack # <<>>, NEW p, NEW pages,
         DOMAIN pages = Slots, \A t \in Slots : KeptAs(pages[t], page[t]),
         PushReplacement(p, pages),
         \/ p.kind = "alerts" /\ p.party = p.user
         \/ SameSession(p, page[Top]) /\ page[Top].kind \notin {"none", "login", "signup", "alerts"}
  PROVE  SessionsMeetAtSignIn'
<1>k. PICK k \in Nat : k = Len(stack)
  BY DEF AppInv, Shape
<1>n. PICK n \in Slots : /\ Lowest(n, Free) /\ stack' = [stack EXCEPT ![Len(stack)] = n]
                         /\ page' = [pages EXCEPT ![n] = p]
  BY DEF PushReplacement
<1>f. n \in Free
  BY <1>n DEF Lowest
<1>0. /\ stack \in Seq(Slots) /\ k \in Nat \ {0} /\ DOMAIN stack = 1..k
      /\ \A i \in 1..k : stack[i] # n /\ stack[i] \in Slots
  BY <1>f, <1>k, FreeIsFree DEF AppInv, Shape
<1>1. /\ stack' \in Seq(Slots) /\ Len(stack') = k /\ stack'[k] = n
      /\ \A i \in 1..(k - 1) : stack'[i] = stack[i]
  BY <1>0, <1>k, <1>n, LastReplaced
<1>2. /\ DOMAIN stack' = 1..k /\ k - 1 \in Nat /\ 1..(k - 1) \subseteq 1..k
      /\ \A i \in 1..k : i = k \/ i \in 1..(k - 1)
  BY <1>0, <1>1
<1>3. page'[n] = p /\ \A i \in 1..k : KeptAs(page'[stack[i]], page[stack[i]])
  BY <1>0, <1>n
<1>4. \A i \in 1..(k - 1) : SessionExplained(i)'
  BY <1>0, <1>1, <1>2, <1>3, BelowStaysExplained
<1>5. SessionExplained(k)'
  <2>1. CASE p.kind = "alerts" /\ p.party = p.user
    BY <1>1, <1>3, <2>1 DEF SessionExplained
  <2>2. CASE /\ SameSession(p, page[Top]) /\ InSession(p)
             /\ page[Top].kind \notin {"none", "login", "signup", "alerts"}
    <3>1. InSession(page[Top]) /\ page[Top] = page[stack[k]] /\ k \in 1..k
      BY <1>0, <1>k, <2>2 DEF InSession, SameSession, Top
    <3>2. SessionExplained(k)
      BY <1>0, <3>1 DEF SessionsMeetAtSignIn
    <3>3. CASE k > 1 /\ InSession(page[stack[k - 1]]) /\ SameSession(page[Top], page[stack[k - 1]])
      <4>1. k - 1 \in 1..(k - 1) /\ k - 1 \in 1..k
        BY <1>0, <3>3
      <4>2. page'[stack'[k - 1]] = page[stack[k - 1]]
        BY <1>1, <1>3, <3>3, <4>1 DEF KeptAs, InSession
      <4>3. SameSession(p, page[stack[k - 1]])
        BY <2>2, <3>3 DEF SameSession
      <4> QED BY <1>1, <1>3, <3>3, <4>2, <4>3 DEF SessionExplained
    <3>4. CASE k = 2 /\ page[stack[1]].kind = "login"
      <4>1. stack'[1] = stack[1] /\ page'[stack[1]].kind = "login"
        <5>1. 1 \in 1..(k - 1) /\ 1 \in 1..k
          BY <3>4
        <5> QED BY <1>1, <1>3, <3>4, <5>1 DEF KeptAs
      <4> QED BY <3>4, <4>1 DEF SessionExplained
    <3> QED BY <2>2, <3>1, <3>2, <3>3, <3>4 DEF SessionExplained
  <2>3. CASE ~InSession(p)
    BY <1>1, <1>3, <2>3 DEF SessionExplained
  <2> QED BY <2>1, <2>2, <2>3
<1> QED BY <1>2, <1>4, <1>5 DEF SessionsMeetAtSignIn

\* A page opened by a page has its session.
LEMMA HandedSession ==
  ASSUME NEW p, NEW kind, p.kind \notin {"none", "login", "signup"}
  PROVE  /\ SameSession(Handed(p, kind), p)
         /\ InSession(Handed(p, kind)) => InSession(p)
BY DEF SameSession, InSession, Handed, NewPage

LEMMA UserActsKeepSessions ==
  ASSUME AppInv, SessionsMeetAtSignIn, UserActs
  PROVE  SessionsMeetAtSignIn'
<1>0. page \in [Slots -> GoodPages] /\ OnStack \subseteq Slots
  BY DEF AppInv, Shape, OnStack
<1>1. ASSUME NEW kind \in Opened, OpenPage(kind) PROVE SessionsMeetAtSignIn'
  <2>1. /\ stack # <<>> /\ <<page[Top].kind, kind>> \in Pushes
        /\ Push(Handed(page[Top], kind), page)
    BY <1>1 DEF OpenPage, Tap
  <2> QED BY <2>1, KindsOfPairs, HandedSession, PushExplained
<1>2. ASSUME NEW kind \in Opened, ReplacePage(kind) PROVE SessionsMeetAtSignIn'
  <2>1. /\ stack # <<>> /\ <<page[Top].kind, kind>> \in Replaces
        /\ PushReplacement(Handed(page[Top], kind), page)
    BY <1>2 DEF ReplacePage, Tap
  <2>2. page[Top].kind \notin {"none", "login", "signup", "alerts"}
    BY <2>1, KindsOfPairs
  <2>3. DOMAIN page = Slots /\ \A t \in Slots : KeptAs(page[t], page[t])
    BY <1>0 DEF KeptAs
  <2> QED BY <2>1, <2>2, <2>3, HandedSession, ReplaceExplained
<1>3. CASE SystemBack \/ BackArrow
  <2>1. stack # <<>> /\ Pop /\ page' = page
    BY <1>3 DEF SystemBack, BackArrow, Tap
  <2> QED BY <2>1, LessStaysExplained DEF KeptAs
<1>4. CASE SignOut
  <2>1. PICK n \in Slots : stack' = <<n>> /\ page' = [page EXCEPT ![n] = NewLogin]
    BY <1>4 DEF SignOut, PushAndRemoveAll
  <2>2. DOMAIN stack' = {1} /\ page'[stack'[1]].kind = "login"
    BY <1>0, <2>1 DEF NewLogin, NewPage
  <2> QED BY <2>2 DEF SessionsMeetAtSignIn, SessionExplained, InSession
<1>5. CASE OpenSignUp \/ OpenDocFromLogin
  <2>1. stack # <<>> /\ page[Top].kind = "login"
    BY <1>5 DEF OpenSignUp, OpenDocFromLogin, TopIs
  <2>2. PICK p : Push(p, page)
    BY <1>5 DEF OpenSignUp, OpenDocFromLogin
  <2> QED BY <2>1, <2>2, PushExplained
<1>6. CASE (\E u \in Users \cup {NoUser} : TypeIn(u)) \/ SignIn \/ SubmitSignUp
  <2>1. stack # <<>> /\ page[Top].kind \in {"login", "signup"} /\ stack' = stack
    BY <1>6 DEF TypeIn, SignIn, SubmitSignUp, TopIs, Tap
  <2>2. Top \in Slots /\ page[Top] \in Pages
    BY <2>1, TopFacts DEF GoodPages
  <2>3. page'[Top].kind = page[Top].kind /\ \A t \in Slots \ {Top} : page'[t] = page[t]
    BY <1>0, <1>6, <2>2 DEF TypeIn, SignIn, SubmitSignUp, Pages
  <2>4. \A t \in OnStack : KeptAs(page'[t], page[t])
    BY <1>0, <2>1, <2>3 DEF KeptAs
  <2> QED BY <2>1, <2>4, LessStaysExplained
<1> QED
  BY <1>1, <1>2, <1>3, <1>4, <1>5, <1>6 DEF UserActs

\* The page whose call is answered is a form, and stays one while it is on the stack.
LEMMA SettledIsKept ==
  ASSUME AppInv, NEW s \in Slots, NEW q, page' = [page EXCEPT ![s] = Settle(s, q)],
         q.kind = page[s].kind, page[s].kind \in {"login", "signup"}
  PROVE  \A t \in OnStack : KeptAs(page'[t], page[t])
<1>1. OnStack \subseteq Slots /\ page \in [Slots -> GoodPages]
  BY DEF AppInv, Shape, OnStack
<1>2. s \in OnStack => Settle(s, q) = q
  BY DEF Settle, Mounted
<1> QED BY <1>1, <1>2 DEF KeptAs

LEMMA AnswersKeepSessions ==
  ASSUME AppInv, SessionsMeetAtSignIn, NEW s \in Slots, Answered(s)
  PROVE  SessionsMeetAtSignIn'
<1>0. page \in [Slots -> GoodPages] /\ page[s] \in GoodPages /\ page[s] \in Pages
  BY DEF AppInv, GoodPages
<1>1. CASE SignInSucceeds(s)
  <2> DEFINE q == [page[s] EXCEPT !.party = page[s].signing, !.signing = NoCall, !.loading = FALSE]
             after == [page EXCEPT ![s] = Settle(s, q)]
             p == NewAlerts(page[s].signing)
  <2>1. q.kind = page[s].kind /\ page[s].kind = "login"
    BY <1>0, <1>1, NoCallAssumption DEF SignInSucceeds, GoodPages, Pages
  <2>2. CASE Mounted(s) /\ stack # <<>>
    <3>1. PushReplacement(p, after)
      BY <1>1, <2>2 DEF SignInSucceeds
    <3>2. p.kind = "alerts" /\ p.party = p.user
      BY DEF NewAlerts, NewPage
    <3> HIDE DEF p, q
    <3>3. DOMAIN after = Slots /\ \A t \in Slots : KeptAs(after[t], page[t])
      BY <1>0, <2>1, <2>2 DEF Settle, KeptAs
    <3> HIDE DEF after
    <3> QED BY <2>2, <3>1, <3>2, <3>3, ReplaceExplained
  <2>3. CASE page' = after /\ stack' = stack
    <3> HIDE DEF q
    <3> QED BY <2>1, <2>3, SettledIsKept, LessStaysExplained
  <2> QED BY <1>1, <2>2, <2>3 DEF SignInSucceeds
<1>2. CASE SignInFails(s)
  <2> DEFINE q == [page[s] EXCEPT !.signing = NoCall, !.loading = FALSE]
  <2>1. page' = [page EXCEPT ![s] = Settle(s, q)] /\ stack' = stack
    BY <1>2 DEF SignInFails
  <2>2. q.kind = page[s].kind /\ page[s].kind = "login"
    BY <1>0, <1>2 DEF SignInFails, GoodPages, Pages
  <2> HIDE DEF q
  <2> QED BY <2>1, <2>2, SettledIsKept, LessStaysExplained
<1>3. CASE SignUpSucceeds(s) \/ SignUpFails(s)
  <2> DEFINE q == OneLess(page[s])
  <2>1. /\ page' = [page EXCEPT ![s] = Settle(s, q)]
        /\ stack' = stack \/ (stack # <<>> /\ Pop)
    BY <1>3 DEF SignUpSucceeds, SignUpFails
  <2>2. q.kind = page[s].kind /\ page[s].kind = "signup"
    BY <1>0, <1>3 DEF SignUpSucceeds, SignUpFails, GoodPages, Pages, OneLess
  <2> HIDE DEF q
  <2> QED BY <2>1, <2>2, SettledIsKept, LessStaysExplained
<1> QED BY <1>1, <1>2, <1>3 DEF Answered

LEMMA NextKeepsSessions ==
  ASSUME AppInv, SessionsMeetAtSignIn, [Next]_vars
  PROVE  SessionsMeetAtSignIn'
<1>1. CASE UserActs
  BY <1>1, UserActsKeepSessions
<1>2. ASSUME NEW s \in Slots, Answered(s) PROVE SessionsMeetAtSignIn'
  BY <1>2, AnswersKeepSessions
<1>3. ASSUME NEW s \in Slots, Dispose(s) PROVE SessionsMeetAtSignIn'
  <2>1. s \notin OnStack /\ OnStack \subseteq Slots
    BY <1>3 DEF Dispose, AppInv, Shape, SlotsDisjoint, OnStack
  <2>2. stack' = stack /\ \A t \in Slots \ {s} : page'[t] = page[t]
    BY <1>3 DEF Dispose, AppInv
  <2> QED BY <2>1, <2>2, LessStaysExplained DEF KeptAs
<1>4. CASE UNCHANGED vars
  BY <1>4 DEF vars, SessionsMeetAtSignIn, SessionExplained
<1> QED BY <1>1, <1>2, <1>3, <1>4 DEF Next

(***************************************************************************)
(* However late sign-ins are answered and whatever is tapped meanwhile,    *)
(* every page of a session has the session of the page below it, or is the *)
(* AlertsPage that a sign-in put there in its own user's name, or goes     *)
(* back to a document LoginPage opened.                                    *)
(***************************************************************************)
THEOREM SessionsMeetSafe == Spec => []SessionsMeetAtSignIn
<1>1. Init => SessionsMeetAtSignIn
  <2> SUFFICES ASSUME Init PROVE SessionsMeetAtSignIn
    OBVIOUS
  <2>1. 1 \in Slots
    BY BoundsAssumption DEF Slots
  <2>2. DOMAIN stack = {1} /\ page[stack[1]].kind = "login"
    BY <2>1 DEF Init, NewLogin, NewPage
  <2> QED BY <2>2 DEF SessionsMeetAtSignIn, SessionExplained, InSession
<1>2. AppInv /\ SessionsMeetAtSignIn /\ [Next]_vars => SessionsMeetAtSignIn'
  BY NextKeepsSessions
<1> QED BY <1>1, <1>2, AppInductiveInvariant, PTL DEF Spec
=============================================================================
