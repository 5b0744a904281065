---------------------------- MODULE ProductStatus ----------------------------
(***************************************************************************)
(* One instance of ProductStatusPage (lib/pages/product_status_page.dart): *)
(* the page the four licensed products open.  It asks for the list of      *)
(* licensed products once, then for the status of the selected product     *)
(* every time the user picks a product or pulls to refresh.  Requests are  *)
(* never cancelled and their answers carry no product code, so several can *)
(* be under way at once and come back in any order, also while the page is *)
(* being taken off the screen and after it was disposed.                   *)
(***************************************************************************)
EXTENDS GraphQLService, RouteLife

CONSTANTS
  Codes,         \* the product codes
  InitialCode,   \* widget.productCode
  ProductLists,  \* data['getProducts'] lists the backend may send
  FlagLists,     \* status flags of data['getProductStatus'] lists it may send
  MaxFetches     \* bound: activations of _fetchStatus in one behaviour

ASSUME CodesAssumption ==
  /\ InitialCode \in Codes
  /\ Null \notin Codes /\ Malformed \notin Codes
ASSUME ListsAssumption ==
  /\ ProductLists \subseteq Seq(Codes \cup {Null, Malformed})
  /\ FlagLists \subseteq Seq(Int \cup {Null, Malformed})
ASSUME MaxFetchesAssumption == MaxFetches \in Nat \ {0}

VARIABLES
  selectedCode,       \* _selectedCode
  availableCodes,     \* _availableCodes, as a set
  statuses,           \* _statuses, the items on display
  productStatusFlag,  \* _productStatusFlag
  error,              \* _error, Null or "failed"
  loading,            \* _loading
  showProductList,    \* _showProductList
  fadeOpen,           \* _fadeController not at 0: the product tiles can be tapped
  products,           \* the getProducts call of initState: "waiting" or "done"
  fetch,              \* the activations of _fetchStatus, oldest first
  refresh,            \* the activation the RefreshIndicator waits for, or 0
  uncaught,           \* an asynchronous error reached no handler
  answers             \* history: the activations whose status was set, in order

data == <<selectedCode, availableCodes, statuses, productStatusFlag, error,
          loading, showProductList, fadeOpen>>
calls == <<products, fetch, refresh, uncaught, answers>>
vars == <<life, data, calls>>

(***************************************************************************)
(* An activation of _fetchStatus: code is the argument it was called with  *)
(* (read from _selectedCode before the first await), at is the await it is *)
(* suspended in: the status query, rootBundle.load of the image, the load  *)
(* of the amber image, or none any more.                                   *)
(***************************************************************************)
Awaits == {"status", "asset", "altAsset", "done"}

Waiting(i) == i \in DOMAIN fetch /\ fetch[i].at = "status"

\* What the backend, or the loss of the request, can bring back.
Lost == {[fault |-> f, field |-> Null] : f \in Faults \ {"none"}}
Received(fields) == {[fault |-> "none", field |-> x] : x \in {Null, Malformed} \cup fields}

ProductWires == Lost \cup Received(ProductLists)

StatusList(c, flags) ==
  [k \in DOMAIN flags |-> IF flags[k] = Malformed THEN Malformed
                          ELSE [of |-> c, flag |-> flags[k]]]
StatusWires(c) == Lost \cup Received({StatusList(c, flags) : flags \in FlagLists})

-----------------------------------------------------------------------------
\* _extractStatuses
ExtractStatuses(resp) == IF resp = Null THEN <<>> ELSE resp.statuses

\* Mutant of ColorFlag: the first entry that is not green decides.
ColorFlagOfFirst(items) ==
  IF \A k \in DOMAIN items : FlagOf(items[k].flag) = 0 THEN 0
  ELSE FlagOf(items[CHOOSE k \in DOMAIN items :
         /\ FlagOf(items[k].flag) # 0
         /\ \A j \in 1..(k - 1) : FlagOf(items[j].flag) = 0].flag)

\* _getStatusColor, as the flag _fetchStatus turns it into: 2 red, 1 yellow, 0 green
ColorFlag(items) ==
  IF \E k \in DOMAIN items : FlagOf(items[k].flag) = 2 THEN 2
  ELSE IF \E k \in DOMAIN items : FlagOf(items[k].flag) = 1 THEN 1
  ELSE 0

\* What the body of build shows below the image.
View == IF loading THEN "spinner"
        ELSE IF error # Null THEN "errorWithRetry"
        ELSE IF statuses = <<>> THEN "noStatuses"
        ELSE "list"

-----------------------------------------------------------------------------
\* The first setState of _fetchStatus.
ClearDisplay ==
  /\ loading' = TRUE
  /\ error' = Null
  /\ statuses' = <<>>
  /\ productStatusFlag' = Null

\* The second one.
ShowItems(items) ==
  /\ loading' = FALSE
  /\ statuses' = items
  /\ productStatusFlag' = ColorFlag(items)

display == <<loading, error, statuses, productStatusFlag>>

\* Mutant of StartFetch: _statuses.clear() is forgotten.
StartFetchKeepingList(code) ==
  /\ loading' = TRUE
  /\ error' = Null
  /\ productStatusFlag' = Null
  /\ fetch' = Append(fetch, [code |-> code, at |-> "status"])
  /\ UNCHANGED statuses

(***************************************************************************)
(* The synchronous part of _fetchStatus, up to its first await, for a      *)
(* mounted page.                                                           *)
(***************************************************************************)
StartFetch(code) ==
  /\ ClearDisplay
  /\ fetch' = Append(fetch, [code |-> code, at |-> "status"])

\* Room for one more activation, the one that follows getProducts included.
HasRoom == Len(fetch) + (IF products = "waiting" THEN 1 ELSE 0) < MaxFetches

\* Mutant of ProductsAnswered: _fetchStatus would not begin with a setState.
ProductsAnsweredUnchecked(w) ==
  /\ products = "waiting"
  /\ products' = "done"
  /\ availableCodes' = IF GetProducts(w).raised THEN {InitialCode} ELSE GetProducts(w).value
  /\ StartFetch(selectedCode)
  /\ UNCHANGED <<life, selectedCode, showProductList, fadeOpen, refresh, answers, uncaught>>

(***************************************************************************)
(* _fetchAvailableProducts resumes.  _availableCodes is assigned outside   *)
(* setState, and _fetchStatus is called without await: on a disposed page  *)
(* its first setState throws, no query is sent, and nobody catches.  An    *)
(* _error set here would be erased by _fetchStatus at once.  setState on a *)
(* disposed page throws before its callback where assertions are on (debug *)
(* builds), else after it: what it writes then is seen by nobody.          *)
(***************************************************************************)
ProductsAnswered(w) ==
  /\ products = "waiting"
  /\ products' = "done"
  /\ availableCodes' = IF GetProducts(w).raised THEN {InitialCode} ELSE GetProducts(w).value
  /\ IF Mounted
     THEN StartFetch(selectedCode) /\ UNCHANGED uncaught
     ELSE /\ uncaught' = TRUE
          /\ ClearDisplay \/ UNCHANGED display
          /\ UNCHANGED fetch
  /\ UNCHANGED <<life, selectedCode, showProductList, fadeOpen, refresh, answers>>

\* Mutant of EndOfFetch: the path on which both images are missing never completes.
EndOfFetchUnlessAlt(i) ==
  refresh' = IF refresh = i /\ fetch[i].at # "altAsset" THEN 0 ELSE refresh

\* The future of activation i completes: a RefreshIndicator that waits for it stops.
EndOfFetch(i) == refresh' = IF refresh = i THEN 0 ELSE refresh

\* Mutant of StatusAnswered: the spinner is left on when there are no entries.
StatusAnsweredKeepingSpinner(i, w) ==
  LET items == ExtractStatuses(GetProductStatus(w).value) IN
  /\ Waiting(i) /\ Mounted
  /\ loading' = (items = <<>>)
  /\ statuses' = items
  /\ productStatusFlag' = ColorFlag(items)
  /\ fetch' = [fetch EXCEPT ![i].at = "asset"]
  /\ answers' = Append(answers, i)
  /\ UNCHANGED <<life, selectedCode, availableCodes, error, showProductList, fadeOpen,
                 products, refresh, uncaught>>

(***************************************************************************)
(* getProductStatus answers activation i of a mounted page: whatever the   *)
(* page has selected meanwhile, the answer goes on display.                *)
(***************************************************************************)
StatusAnswered(i, w) ==
  LET result == GetProductStatus(w)
      items == ExtractStatuses(result.value) IN
  /\ Waiting(i)
  /\ Mounted
  /\ IF result.raised
     THEN /\ error' = "failed" /\ loading' = FALSE
          /\ fetch' = [fetch EXCEPT ![i].at = "done"]
          /\ EndOfFetch(i)
          /\ UNCHANGED <<statuses, productStatusFlag, answers>>
     ELSE /\ ShowItems(items)
          /\ fetch' = [fetch EXCEPT ![i].at = "asset"]
          /\ answers' = Append(answers, i)
          /\ UNCHANGED <<error, refresh>>
  /\ UNCHANGED <<life, selectedCode, availableCodes, showProductList, fadeOpen,
                 products, uncaught>>

(***************************************************************************)
(* The same for a disposed page: setState throws inside the try, the catch *)
(* calls setState again, and that throw leaves _fetchStatus.               *)
(***************************************************************************)
StatusAnsweredAfterDispose(i, w) ==
  LET result == GetProductStatus(w) IN
  /\ Waiting(i)
  /\ ~Mounted
  /\ uncaught' = TRUE
  /\ \/ UNCHANGED display
     \/ /\ error' = "failed"
        /\ IF result.raised
           THEN loading' = FALSE /\ UNCHANGED <<statuses, productStatusFlag>>
           ELSE ShowItems(ExtractStatuses(result.value))
  /\ fetch' = [fetch EXCEPT ![i].at = "done"]
  /\ EndOfFetch(i)
  /\ UNCHANGED <<life, selectedCode, availableCodes, showProductList, fadeOpen,
                 products, answers>>

\* rootBundle.load of the image, then of the amber one, and the end of _fetchStatus.
AssetLoaded(i) ==
  /\ i \in DOMAIN fetch /\ fetch[i].at \in {"asset", "altAsset"}
  /\ fetch' = [fetch EXCEPT ![i].at = "done"]
  /\ EndOfFetch(i)
  /\ UNCHANGED <<life, data, products, uncaught, answers>>

AssetMissing(i) ==
  /\ i \in DOMAIN fetch /\ fetch[i].at \in {"asset", "altAsset"}
  /\ fetch' = [fetch EXCEPT ![i].at = IF @ = "asset" THEN "altAsset" ELSE "done"]
  /\ IF fetch[i].at = "altAsset" THEN EndOfFetch(i) ELSE UNCHANGED refresh
  /\ UNCHANGED <<life, data, products, uncaught, answers>>

-----------------------------------------------------------------------------
\* The user.  Only the top route is tapped.

\* Tap on the product name.
ToggleProductList ==
  /\ life = "top"
  /\ showProductList' = ~showProductList
  /\ fadeOpen' = TRUE
  /\ UNCHANGED <<life, selectedCode, availableCodes, statuses, productStatusFlag,
                 error, loading, calls>>

\* The animation reverse() started reaches 0.
FadeClosed ==
  /\ Mounted /\ ~showProductList /\ fadeOpen
  /\ fadeOpen' = FALSE
  /\ UNCHANGED <<life, selectedCode, availableCodes, statuses, productStatusFlag,
                 error, loading, showProductList, calls>>

\* Mutants of SelectProduct: _fetchStatus() is not called, or called before setState.
SelectProductWithoutFetch(c) ==
  /\ life = "top" /\ fadeOpen
  /\ c \in availableCodes /\ c # selectedCode
  /\ selectedCode' = c
  /\ showProductList' = FALSE
  /\ UNCHANGED <<life, availableCodes, statuses, productStatusFlag, error, loading,
                 fadeOpen, calls>>

SelectProductAfterFetch(c) ==
  /\ life = "top" /\ fadeOpen /\ HasRoom
  /\ c \in availableCodes /\ c # selectedCode
  /\ selectedCode' = c
  /\ showProductList' = FALSE
  /\ StartFetch(selectedCode)
  /\ UNCHANGED <<life, availableCodes, fadeOpen, products, refresh, uncaught, answers>>

\* Tap on the tile of another product, while the tiles are (still) visible.
SelectProduct(c) ==
  /\ life = "top" /\ fadeOpen /\ HasRoom
  /\ c \in availableCodes
  /\ c # selectedCode
  /\ selectedCode' = c
  /\ showProductList' = FALSE
  /\ StartFetch(c)
  /\ UNCHANGED <<life, availableCodes, fadeOpen, products, refresh, uncaught, answers>>

\* Pull to refresh; the RefreshIndicator ignores a pull while one is being served.
PullToRefresh ==
  /\ life = "top" /\ refresh = 0 /\ HasRoom
  /\ StartFetch(selectedCode)
  /\ refresh' = Len(fetch) + 1
  /\ UNCHANGED <<life, selectedCode, availableCodes, showProductList, fadeOpen,
                 products, uncaught, answers>>

\* The navigation bar, the back button and the rest of the stack move the route.
Navigate ==
  /\ Cover \/ Uncover \/ Leave \/ Dispose
  /\ UNCHANGED <<data, calls>>

-----------------------------------------------------------------------------
PageInit ==
  /\ life = "top"
  /\ selectedCode = InitialCode
  /\ availableCodes = {} /\ statuses = <<>>
  /\ productStatusFlag = Null /\ error = Null
  /\ loading = TRUE
  /\ showProductList = FALSE /\ fadeOpen = FALSE
  /\ products = "waiting" /\ fetch = <<>> /\ refresh = 0
  /\ uncaught = FALSE /\ answers = <<>>

Answered == \E w \in ProductWires : ProductsAnswered(w)

FetchResumes(i) ==
  \/ \E c \in Codes : \E w \in StatusWires(c) :
       fetch[i].code = c /\ (StatusAnswered(i, w) \/ StatusAnsweredAfterDispose(i, w))
  \/ AssetLoaded(i)
  \/ AssetMissing(i)

User ==
  \/ ToggleProductList
  \/ \E c \in Codes : SelectProduct(c)
  \/ PullToRefresh

PageNext ==
  \/ Answered
  \/ \E i \in DOMAIN fetch : FetchResumes(i)
  \/ FadeClosed
  \/ User
  \/ Navigate

PageSpec == PageInit /\ [][PageNext]_vars

(***************************************************************************)
(* Fairness: every HTTP call ends, because _post gives up after 25 seconds *)
(* (graphql_service.dart:52); asset loads and the framework's transitions  *)
(* end too.  Nothing is assumed of the user.                               *)
(***************************************************************************)
FairPageSpec ==
  /\ PageSpec
  /\ WF_vars(Answered)
  /\ \A i \in 1..MaxFetches : WF_vars(i \in DOMAIN fetch /\ FetchResumes(i))
  /\ WF_vars(Dispose /\ UNCHANGED <<data, calls>>)

-----------------------------------------------------------------------------
Flags == Int \cup {Null}
Items == [of : Codes, flag : Flags]

TypeOK ==
  /\ life \in Lives
  /\ selectedCode \in Codes
  /\ availableCodes \subseteq Codes
  /\ statuses \in Seq(Items)
  /\ productStatusFlag \in {Null, 0, 1, 2}
  /\ error \in {Null, "failed"}
  /\ loading \in BOOLEAN
  /\ showProductList \in BOOLEAN
  /\ fadeOpen \in BOOLEAN
  /\ products \in {"waiting", "done"}
  /\ fetch \in Seq([code : Codes, at : Awaits])
  /\ refresh \in 0..Len(fetch)
  /\ uncaught \in BOOLEAN
  /\ answers \in Seq(DOMAIN fetch)

(***************************************************************************)
(* The last query sent is about the product selected now: every path that  *)
(* changes _selectedCode (lines 261-267) asks again, and does so with the  *)
(* new code.                                                               *)
(***************************************************************************)
NewestFetchIsForSelection ==
  fetch # <<>> => fetch[Len(fetch)].code = selectedCode

(***************************************************************************)
(* The list a mounted page has is entirely about one product, that of the  *)
(* answer that came last, and no spinner hides it.                         *)
(***************************************************************************)
DisplayIsLastAnswer ==
  Mounted => \A k \in DOMAIN statuses :
    /\ answers # <<>>
    /\ statuses[k].of = fetch[answers[Len(answers)]].code
    /\ ~loading

Settled == Mounted /\ products = "done" /\ \A i \in DOMAIN fetch : ~Waiting(i)
InOrder == \A m, n \in DOMAIN answers : m < n => answers[m] < answers[n]

(***************************************************************************)
(* If the answers came in the order of the questions, a mounted page with  *)
(* no query under way shows the product that is selected.  (Out of order   *)
(* it may show another product under the selected name: an answer is never *)
(* matched with the selection, lines 144-148.)                             *)
(***************************************************************************)
InOrderIsFresh ==
  Settled /\ InOrder => \A k \in DOMAIN statuses : statuses[k].of = selectedCode

(***************************************************************************)
(* A spinner on a mounted page always stands for a call under way, so it   *)
(* is never left on the screen by a failed, empty or malformed answer.     *)
(***************************************************************************)
SpinnerHasWork ==
  Mounted /\ loading => products = "waiting" \/ \E i \in DOMAIN fetch : Waiting(i)

(***************************************************************************)
(* The "Failed to load product status." view and its Retry button (lines   *)
(* 302-309) are never shown, and no asynchronous error escapes while the   *)
(* page is mounted: the service turns every failure into an empty result   *)
(* (graphql_service.dart:208-211, 263-266).  This is why Retry is not an   *)
(* action of the model.                                                    *)
(***************************************************************************)
FailuresAreSilent ==
  Mounted => View # "errorWithRetry" /\ ~uncaught

(***************************************************************************)
(* The flag the page computes from the entries (lines 84-95, 146) is the   *)
(* service's worst flag (graphql_service.dart:250) whenever the entries    *)
(* use the flags 0, 1 and 2 both know about.                               *)
(***************************************************************************)
PageFlagIsWorst ==
  /\ Mounted /\ statuses # <<>>
  /\ \A k \in DOMAIN statuses : FlagOf(statuses[k].flag) \in 0..2
  => productStatusFlag = WorstFlag(statuses)

(***************************************************************************)
(* A disposed page sends no query, and an answer that still comes in ends  *)
(* its activation instead of going on to load an image: the throw of       *)
(* setState stops every continuation that dispose() did not cancel.        *)
(***************************************************************************)
NothingAfterDispose ==
  [][~Mounted => /\ Len(fetch') = Len(fetch)
                 /\ \A i \in DOMAIN fetch : Waiting(i) => fetch'[i].at \in {"status", "done"}
                 /\ UNCHANGED <<selectedCode, answers>>]_vars

(***************************************************************************)
(* The RefreshIndicator stops turning: the future of the _fetchStatus it   *)
(* waits for (line 223) completes on every path, image loads included.     *)
(***************************************************************************)
RefreshEnds == (refresh # 0) ~> (refresh = 0)

(***************************************************************************)
(* The page implements StatusBoard: what is on the board is read off the   *)
(* display, the open questions are the queries not yet answered.           *)
(***************************************************************************)
Board == INSTANCE StatusBoard WITH
  Tickets <- 1..MaxFetches,
  Blank <- Null, Nothing <- Malformed,
  open <- Mounted,
  selection <- selectedCode,
  pending <- {<<i, fetch[i].code>> : i \in {j \in DOMAIN fetch : Waiting(j)}},
  used <- DOMAIN fetch,
  board <- IF loading \/ ~Mounted THEN Null
           ELSE IF statuses = <<>> THEN Malformed
           ELSE statuses[1].of

ImplementsBoard == Board!BoardSpec
ImplementsFairBoard == Board!FairBoardSpec
=============================================================================
