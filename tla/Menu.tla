-------------------------------- MODULE Menu --------------------------------
(***************************************************************************)
(* MenuPage (lib/pages/menu_page.dart): it loads the licensed products     *)
(* when it opens and again on every pull to refresh, and shows a tile for  *)
(* each product it knows.  Answers are not matched with loads; the menu    *)
(* needs no such matching because only the body without a spinner can be   *)
(* pulled.  RefreshIndicator (external) calls onRefresh a moment after the *)
(* pull, when its arrow has snapped into place: the page may have been     *)
(* covered meanwhile, or may be leaving.                                   *)
(***************************************************************************)
EXTENDS GraphQLService, RouteLife

CONSTANTS
  Codes,         \* the product codes of the backend
  KnownCodes,    \* the keys of productMeta
  ProductLists,  \* data['getProducts'] lists the backend may send
  MaxLoads       \* bound: activations of _loadLicensedProducts in one behaviour

ASSUME MenuCodesAssumption == Null \notin Codes /\ Malformed \notin Codes
ASSUME MenuListsAssumption == ProductLists \subseteq Seq(Codes \cup {Null, Malformed})
ASSUME MaxLoadsAssumption == MaxLoads \in Nat \ {0}

VARIABLES
  licensedProductCodes,  \* as a set
  isLoading,             \* isLoading
  loads,                 \* the activations of _loadLicensedProducts: "waiting" or "done"
  pulled,                \* the list was pulled and onRefresh has not been called yet
  snackBar,              \* "Failed to load products" was shown
  newest                 \* history: the newest load answered to a mounted page, and its list

shown == <<licensedProductCodes, isLoading, snackBar>>
vars == <<life, shown, loads, pulled, newest>>

Pending(i) == i \in DOMAIN loads /\ loads[i] = "waiting"

MenuWires ==
  {[fault |-> f, field |-> Null] : f \in Faults \ {"none"}}
  \cup {[fault |-> "none", field |-> x] : x \in {Null, Malformed} \cup ProductLists}

\* The history after load i was answered with these codes.
Newer(i, codes) == IF i > newest.load THEN [load |-> i, codes |-> codes] ELSE newest

\* What the menu has tiles for; the spinner has none.
Tiles == IF isLoading THEN {} ELSE licensedProductCodes \cap KnownCodes

-----------------------------------------------------------------------------
\* Mutant of LoadAnswered: isLoading = false only with products.
LoadAnsweredKeepingSpinner(i, w) ==
  LET codes == GetProducts(w).value IN
  /\ Pending(i)
  /\ loads' = [loads EXCEPT ![i] = "done"]
  /\ IF Mounted
     THEN /\ licensedProductCodes' = codes /\ newest' = Newer(i, codes)
          /\ isLoading' = (codes = {})
     ELSE UNCHANGED <<licensedProductCodes, newest, isLoading>>
  /\ UNCHANGED <<life, pulled, snackBar>>

\* Mutant of LoadAnswered: no look at mounted (where assertions are off, setState
\* then runs its callback on a disposed page, too).
LoadAnsweredUnguarded(i, w) ==
  LET result == GetProducts(w) IN
  /\ Pending(i)
  /\ loads' = [loads EXCEPT ![i] = "done"]
  /\ licensedProductCodes' = result.value /\ newest' = Newer(i, result.value)
  /\ isLoading' = FALSE
  /\ UNCHANGED <<life, pulled, snackBar>>

(***************************************************************************)
(* _loadLicensedProducts after its await.  Every branch looks at mounted,  *)
(* and the finally clause runs on the early returns, too.                  *)
(***************************************************************************)
LoadAnswered(i, w) ==
  LET result == GetProducts(w) IN
  /\ Pending(i)
  /\ loads' = [loads EXCEPT ![i] = "done"]
  /\ IF Mounted /\ ~result.raised
     THEN licensedProductCodes' = result.value /\ newest' = Newer(i, result.value)
     ELSE UNCHANGED <<licensedProductCodes, newest>>
  /\ snackBar' = (snackBar \/ (Mounted /\ result.raised))
  /\ isLoading' = (isLoading /\ ~Mounted)
  /\ UNCHANGED <<life, pulled>>

\* Mutant of PullToRefresh: the RefreshIndicator is there under the spinner, too.
PullAnyTime ==
  /\ life = "top" /\ ~pulled
  /\ pulled' = TRUE
  /\ UNCHANGED <<life, shown, loads, newest>>

\* The user pulls the list down and lets go.
PullToRefresh ==
  /\ life = "top" /\ ~isLoading /\ ~pulled
  /\ pulled' = TRUE
  /\ UNCHANGED <<life, shown, loads, newest>>

\* _loadLicensedProducts up to its await; the spinner takes the RefreshIndicator away.
Refresh ==
  /\ pulled /\ Mounted /\ Len(loads) < MaxLoads
  /\ pulled' = FALSE
  /\ isLoading' = TRUE
  /\ loads' = Append(loads, "waiting")
  /\ UNCHANGED <<life, licensedProductCodes, snackBar, newest>>

\* A tap on a tile: _navigateTo(context, productMeta[code]['builder'])
OpenProduct(code) ==
  /\ code \in Tiles /\ Cover
  /\ UNCHANGED <<shown, loads, pulled, newest>>

\* The navigation bar and the footer at any time, the account tile in the list.
OpenOther ==
  /\ Cover
  /\ UNCHANGED <<shown, loads, pulled, newest>>

\* The user comes back, or the page goes.
Return ==
  /\ Uncover \/ Leave \/ Dispose
  /\ UNCHANGED <<shown, loads, pulled, newest>>

-----------------------------------------------------------------------------
\* initState calls _loadLicensedProducts, up to its await.
MenuInit ==
  /\ life = "top"
  /\ licensedProductCodes = {} /\ isLoading = TRUE
  /\ loads = <<"waiting">>
  /\ pulled = FALSE
  /\ snackBar = FALSE
  /\ newest = [load |-> 0, codes |-> {}]

LoadEnds(i) == \E w \in MenuWires : LoadAnswered(i, w)

MenuNext ==
  \/ \E i \in DOMAIN loads : LoadEnds(i)
  \/ PullToRefresh \/ Refresh
  \/ \E code \in KnownCodes : OpenProduct(code)
  \/ OpenOther \/ Return

MenuSpec == MenuInit /\ [][MenuNext]_vars

\* getProducts ends within the 25 seconds of _post (graphql_service.dart:52).
FairMenuSpec ==
  MenuSpec /\ \A i \in 1..MaxLoads : WF_vars(LoadEnds(i))

-----------------------------------------------------------------------------
TypeOK ==
  /\ life \in Lives
  /\ licensedProductCodes \subseteq Codes
  /\ newest \in [load : Nat, codes : SUBSET Codes]
  /\ isLoading \in BOOLEAN /\ snackBar \in BOOLEAN
  /\ loads \in Seq({"waiting", "done"})
  /\ pulled \in BOOLEAN

(***************************************************************************)
(* At most one load is under way, and none is about to be added to it: the *)
(* spinner takes the RefreshIndicator away (line 113) and goes only with   *)
(* the load it stands for, even if the pull took effect under another page.*)
(***************************************************************************)
OneLoadAtATime ==
  /\ \A i, j \in DOMAIN loads : Pending(i) /\ Pending(j) => i = j
  /\ pulled /\ Mounted => \A i \in DOMAIN loads : ~Pending(i)

(***************************************************************************)
(* The products on the menu are those of the newest load answered, never   *)
(* those of an older one that was overtaken, although nothing matches      *)
(* answers with loads (line 81).                                           *)
(***************************************************************************)
NewestListShown == Mounted => licensedProductCodes = newest.codes

(***************************************************************************)
(* On a mounted page the spinner stands for a load under way, on every     *)
(* path through try, catch and finally, and for no other reason.           *)
(***************************************************************************)
SpinnerIsLoad == Mounted => (isLoading <=> \E i \in DOMAIN loads : Pending(i))

(***************************************************************************)
(* "Failed to load products" (line 87) is never shown: getProducts turns   *)
(* every failure into the empty list (graphql_service.dart:208-211), and   *)
(* the user is told that there are no licensed products.                   *)
(***************************************************************************)
FailuresLookEmpty == ~snackBar

(***************************************************************************)
(* A disposed page stays as it was left, whatever still comes in: each of  *)
(* the branches behind the await (lines 83, 87, 92) looks at mounted.      *)
(***************************************************************************)
NothingAfterDispose == [][~Mounted => UNCHANGED shown]_vars

(***************************************************************************)
(* The spinner comes off the screen, or the page goes.                     *)
(***************************************************************************)
SpinnerEnds == (Mounted /\ isLoading) ~> ~(Mounted /\ isLoading)
=============================================================================
