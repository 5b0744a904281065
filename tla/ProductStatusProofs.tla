------------------------ MODULE ProductStatusProofs ------------------------
(***************************************************************************)
(* Theorems about ProductStatus, for every set of codes, every list the    *)
(* backend may send and every number of activations.                       *)
(***************************************************************************)
EXTENDS ProductStatus, TLAPS

-----------------------------------------------------------------------------
(* What the service returns. *)

(***************************************************************************)
(* No method of the service raises: each catches whatever _post throws     *)
(* (graphql_service.dart:208, 263).                                        *)
(***************************************************************************)
LEMMA ServiceNeverRaises ==
  \A w : ~GetProducts(w).raised /\ ~GetProductStatus(w).raised
BY DEF GetProducts, GetProductStatus, Completed

(***************************************************************************)
(* getProducts only lists codes, whatever came over the wire.              *)
(***************************************************************************)
LEMMA ProductsAreCodes ==
  ASSUME NEW w \in ProductWires
  PROVE  GetProducts(w).value \subseteq Codes
<1>1. CASE PostThrows(w) \/ w.field = Null \/ w.field = Malformed \/ ~AllMaps(w.field)
  BY <1>1 DEF GetProducts, Completed
<1>2. CASE ~(PostThrows(w) \/ w.field = Null \/ w.field = Malformed \/ ~AllMaps(w.field))
  <2>1. w.field \in ProductLists
    BY <1>2 DEF ProductWires, Lost, Received, PostThrows
  <2>2. w.field \in Seq(Codes \cup {Null, Malformed})
    BY <2>1, ListsAssumption
  <2>3. \A k \in DOMAIN w.field : w.field[k] \in Codes \cup {Null}
    BY <1>2, <2>2 DEF AllMaps, IsMap
  <2>4. GetProducts(w).value = {w.field[k] : k \in DOMAIN w.field} \ {Null}
    BY <1>2 DEF GetProducts, Completed
  <2> QED BY <2>3, <2>4
<1> QED BY <1>1, <1>2

(***************************************************************************)
(* The entries extracted from an answer about c are all about c.           *)
(***************************************************************************)
LEMMA EntriesAreAboutTheCode ==
  ASSUME NEW c \in Codes, NEW w \in StatusWires(c)
  PROVE  /\ ExtractStatuses(GetProductStatus(w).value) \in Seq(Items)
         /\ \A k \in DOMAIN ExtractStatuses(GetProductStatus(w).value) :
              ExtractStatuses(GetProductStatus(w).value)[k].of = c
<1> DEFINE Bad == \/ PostThrows(w)
                  \/ w.field = Null \/ w.field = Malformed
                  \/ w.field = <<>> \/ ~AllMaps(w.field)
<1>0. <<>> \in Seq(Items) /\ DOMAIN <<>> = {}
  OBVIOUS
<1>1. CASE Bad
  <2>1. ExtractStatuses(GetProductStatus(w).value) = <<>>
    BY <1>1 DEF GetProductStatus, Completed, ExtractStatuses
  <2> QED BY <1>0, <2>1
<1>2. CASE ~Bad
  <2>1. PICK flags \in FlagLists : w.field = StatusList(c, flags)
    BY <1>2 DEF StatusWires, Lost, Received, PostThrows
  <2>2. flags \in Seq(Int \cup {Null, Malformed})
    BY <2>1, ListsAssumption
  <2>3. DOMAIN w.field = 1..Len(flags) /\ Len(flags) \in Nat
    BY <2>1, <2>2 DEF StatusList
  <2>4. \A k \in 1..Len(flags) : w.field[k] \in Items /\ w.field[k].of = c
    <3> SUFFICES ASSUME NEW k \in 1..Len(flags)
                 PROVE  w.field[k] \in Items /\ w.field[k].of = c
      OBVIOUS
    <3>1. w.field[k] # Malformed
      BY <1>2, <2>3 DEF AllMaps, IsMap
    <3>2. w.field[k] = [of |-> c, flag |-> flags[k]] /\ flags[k] # Malformed
      BY <2>1, <2>2, <3>1 DEF StatusList
    <3>3. flags[k] \in Flags
      BY <2>2, <3>2 DEF Flags
    <3> QED BY <3>2, <3>3 DEF Items
  <2>5. w.field = [k \in 1..Len(flags) |-> w.field[k]]
    BY <2>1, <2>3 DEF StatusList
  <2>6. w.field \in Seq(Items)
    BY <2>3, <2>4, <2>5
  <2>7. ExtractStatuses(GetProductStatus(w).value) \in {<<>>, w.field}
    BY <1>2 DEF GetProductStatus, Completed, ExtractStatuses
  <2> QED BY <1>0, <2>3, <2>4, <2>6, <2>7
<1> QED BY <1>1, <1>2

(***************************************************************************)
(* The colour shown for any entries is a flag from 0 to 2.                 *)
(***************************************************************************)
LEMMA ColorIsFlag == \A items : ColorFlag(items) \in {0, 1, 2}
BY DEF ColorFlag

-----------------------------------------------------------------------------
(* The invariant. *)

(***************************************************************************)
(* Every activation whose query is over, on a page still mounted, has been *)
(* put on display; and only those have.                                    *)
(***************************************************************************)
AnswersAreDisplayed ==
  /\ \A i : Waiting(i) => \A m \in DOMAIN answers : answers[m] # i
  /\ Mounted => \A i \in DOMAIN fetch : Waiting(i) \/ \E m \in DOMAIN answers : answers[m] = i

Silent == Mounted => error = Null /\ ~uncaught

IInv ==
  /\ TypeOK
  /\ Silent
  /\ NewestFetchIsForSelection
  /\ DisplayIsLastAnswer
  /\ AnswersAreDisplayed

LEMMA ElementOf ==
  ASSUME NEW S, NEW seq \in Seq(S), NEW i \in DOMAIN seq
  PROVE  seq[i] \in S
OBVIOUS

\* What StartFetch does to the queries under way.
LEMMA StartFetchFacts ==
  ASSUME IInv, NEW code \in Codes, StartFetch(code)
  PROVE  /\ fetch' \in Seq([code : Codes, at : Awaits])
         /\ Len(fetch') = Len(fetch) + 1 /\ Len(fetch) \in Nat
         /\ DOMAIN fetch' = 1..(Len(fetch) + 1) /\ DOMAIN fetch = 1..Len(fetch)
         /\ \A i \in DOMAIN fetch : fetch'[i] = fetch[i]
         /\ fetch'[Len(fetch) + 1] = [code |-> code, at |-> "status"]
         /\ statuses' = <<>> /\ loading' = TRUE /\ error' = Null
         /\ productStatusFlag' = Null
<1>1. [code |-> code, at |-> "status"] \in [code : Codes, at : Awaits]
  BY DEF Awaits
<1> QED BY <1>1 DEF IInv, TypeOK, StartFetch, ClearDisplay

\* The types of what a mounted page shows.
DisplayTyped ==
  /\ statuses \in Seq(Items)
  /\ productStatusFlag \in {Null, 0, 1, 2}
  /\ error \in {Null, "failed"}
  /\ loading \in BOOLEAN
  /\ uncaught \in BOOLEAN

(***************************************************************************)
(* A new activation keeps the invariant, whoever starts it: the page's     *)
(* selection becomes, or already is, the product it asks about.            *)
(***************************************************************************)
LEMMA StartFetchStep ==
  ASSUME IInv, NEW code \in Codes, StartFetch(code),
         selectedCode' = code, answers' = answers, life' = life,
         uncaught' = uncaught, Mounted,
         availableCodes' \subseteq Codes,
         showProductList' \in BOOLEAN, fadeOpen' \in BOOLEAN,
         products' \in {"waiting", "done"},
         refresh' \in {refresh, Len(fetch) + 1}
  PROVE  IInv'
<1>0. /\ fetch' \in Seq([code : Codes, at : Awaits])
      /\ Len(fetch') = Len(fetch) + 1 /\ Len(fetch) \in Nat
      /\ DOMAIN fetch' = 1..(Len(fetch) + 1) /\ DOMAIN fetch = 1..Len(fetch)
      /\ \A i \in DOMAIN fetch : fetch'[i] = fetch[i]
      /\ fetch'[Len(fetch) + 1] = [code |-> code, at |-> "status"]
      /\ statuses' = <<>> /\ loading' = TRUE /\ error' = Null
      /\ productStatusFlag' = Null
  BY StartFetchFacts
<1>1. TypeOK'
  <2>1. answers' \in Seq(DOMAIN fetch')
    <3>1. DOMAIN fetch \subseteq DOMAIN fetch'
      BY <1>0
    <3>2. answers \in Seq(DOMAIN fetch)
      BY DEF IInv, TypeOK
    <3> QED BY <3>1, <3>2
  <2>2. refresh' \in 0..Len(fetch')
    BY <1>0 DEF IInv, TypeOK
  <2>3. statuses' \in Seq(Items)
    BY <1>0
  <2> QED BY <1>0, <2>1, <2>2, <2>3 DEF IInv, TypeOK
<1>2. Silent'
  BY <1>0 DEF IInv, Silent, Mounted
<1>3. NewestFetchIsForSelection'
  BY <1>0 DEF NewestFetchIsForSelection
<1>4. DisplayIsLastAnswer'
  BY <1>0 DEF DisplayIsLastAnswer
<1>5. AnswersAreDisplayed'
  <2>1. \A i : Waiting(i)' <=> Waiting(i) \/ i = Len(fetch) + 1
    BY <1>0 DEF Waiting
  <2>2. DOMAIN fetch' = DOMAIN fetch \cup {Len(fetch) + 1} /\ Len(fetch) + 1 \notin DOMAIN fetch
    BY <1>0
  <2>3. \A m \in DOMAIN answers : answers[m] \in DOMAIN fetch
    BY DEF IInv, TypeOK
  <2> QED BY <1>0, <2>1, <2>2, <2>3 DEF IInv, AnswersAreDisplayed, Mounted
<1> QED BY <1>1, <1>2, <1>3, <1>4, <1>5 DEF IInv

(***************************************************************************)
(* So does a step that only moves one activation on, to a state that is    *)
(* not its status query; on a mounted page it must leave the display alone *)
(* and the activation must have left its query before.                     *)
(***************************************************************************)
LEMMA MoveOnStep ==
  ASSUME IInv, NEW i \in DOMAIN fetch, NEW next \in Awaits, next # "status",
         fetch' = [fetch EXCEPT ![i].at = next],
         Mounted => ~Waiting(i),
         refresh' \in {refresh, 0},
         UNCHANGED <<life, selectedCode, availableCodes, showProductList, fadeOpen,
                     products, answers>>,
         DisplayTyped', Mounted => UNCHANGED <<display, uncaught>>
  PROVE  IInv'
<1> USE DEF display, DisplayTyped
<1>1. /\ fetch' \in Seq([code : Codes, at : Awaits])
      /\ DOMAIN fetch' = DOMAIN fetch /\ Len(fetch') = Len(fetch)
      /\ \A j \in DOMAIN fetch : fetch'[j].code = fetch[j].code
      /\ \A j \in DOMAIN fetch : j # i => fetch'[j] = fetch[j]
      /\ fetch'[i].at = next
  <2>1. fetch \in Seq([code : Codes, at : Awaits])
    BY DEF IInv, TypeOK
  <2>2. fetch[i] \in [code : Codes, at : Awaits]
    BY <2>1, ElementOf, Zenon
  <2>3. /\ [fetch[i] EXCEPT !.at = next] \in [code : Codes, at : Awaits]
        /\ [fetch[i] EXCEPT !.at = next].code = fetch[i].code
        /\ [fetch[i] EXCEPT !.at = next].at = next
    BY <2>2
  <2>4. fetch' = [fetch EXCEPT ![i] = [fetch[i] EXCEPT !.at = next]]
    OBVIOUS
  <2> QED BY <2>1, <2>3, <2>4
<1>2. \A j : Waiting(j)' <=> Waiting(j) /\ j # i
  BY <1>1 DEF Waiting
<1>3. TypeOK'
  BY <1>1 DEF IInv, TypeOK
<1>4. Silent'
  BY DEF IInv, Silent, Mounted
<1>5. NewestFetchIsForSelection'
  <2>1. fetch' # <<>> => fetch # <<>> /\ Len(fetch) \in DOMAIN fetch
    BY <1>1 DEF IInv, TypeOK
  <2> QED BY <1>1, <2>1 DEF IInv, NewestFetchIsForSelection
<1>6. DisplayIsLastAnswer'
  <2>1. \A m \in DOMAIN answers : answers[m] \in DOMAIN fetch
    BY DEF IInv, TypeOK
  <2>2. answers # <<>> => Len(answers) \in DOMAIN answers
    BY DEF IInv, TypeOK
  <2> QED BY <1>1, <2>1, <2>2 DEF IInv, DisplayIsLastAnswer, Mounted
<1>7. AnswersAreDisplayed'
  BY <1>1, <1>2 DEF IInv, AnswersAreDisplayed, Mounted
<1> QED BY <1>3, <1>4, <1>5, <1>6, <1>7 DEF IInv

(***************************************************************************)
(* And a step that touches neither the queries nor the display of a page   *)
(* that stays mounted, and does not bring a disposed page back to life.    *)
(***************************************************************************)
LEMMA QuietStep ==
  ASSUME IInv,
         UNCHANGED <<selectedCode, fetch, refresh, answers>>,
         Mounted' => Mounted /\ UNCHANGED <<display, uncaught>>,
         life' \in Lives, availableCodes' \subseteq Codes,
         showProductList' \in BOOLEAN, fadeOpen' \in BOOLEAN,
         products' \in {"waiting", "done"}, DisplayTyped'
  PROVE  IInv'
<1> USE DEF display, DisplayTyped
<1>1. TypeOK'
  BY DEF IInv, TypeOK
<1>2. Silent'
  BY DEF IInv, Silent
<1>3. NewestFetchIsForSelection'
  BY DEF IInv, NewestFetchIsForSelection
<1>4. DisplayIsLastAnswer'
  BY DEF IInv, DisplayIsLastAnswer
<1>5. AnswersAreDisplayed'
  BY DEF IInv, AnswersAreDisplayed, Waiting
<1> QED BY <1>1, <1>2, <1>3, <1>4, <1>5 DEF IInv

(***************************************************************************)
(* An answer replaces the whole display by entries about the product its   *)
(* own query was about.                                                    *)
(***************************************************************************)
LEMMA StatusAnsweredStep ==
  ASSUME IInv, NEW i \in DOMAIN fetch, NEW w \in StatusWires(fetch[i].code),
         StatusAnswered(i, w)
  PROVE  IInv'
<1> DEFINE items == ExtractStatuses(GetProductStatus(w).value)
<1>1. /\ fetch \in Seq([code : Codes, at : Awaits])
      /\ fetch[i] \in [code : Codes, at : Awaits]
      /\ answers \in Seq(DOMAIN fetch)
  <2>1. fetch \in Seq([code : Codes, at : Awaits]) /\ answers \in Seq(DOMAIN fetch)
    BY DEF IInv, TypeOK
  <2> QED BY <2>1, ElementOf, Zenon
<1>2. items \in Seq(Items) /\ \A k \in DOMAIN items : items[k].of = fetch[i].code
  <2>1. fetch[i].code \in Codes
    BY <1>1
  <2> QED BY <2>1, EntriesAreAboutTheCode
<1>3. /\ loading' = FALSE /\ statuses' = items /\ productStatusFlag' = ColorFlag(items)
      /\ fetch' = [fetch EXCEPT ![i].at = "asset"] /\ answers' = Append(answers, i)
      /\ UNCHANGED <<error, refresh, life, selectedCode, availableCodes,
                     showProductList, fadeOpen, products, uncaught>>
      /\ Waiting(i)
  BY ServiceNeverRaises DEF StatusAnswered, ShowItems
<1> HIDE DEF items
<1>4. /\ fetch' \in Seq([code : Codes, at : Awaits])
      /\ DOMAIN fetch' = DOMAIN fetch /\ Len(fetch') = Len(fetch)
      /\ \A j \in DOMAIN fetch : fetch'[j].code = fetch[j].code
      /\ \A j \in DOMAIN fetch : j # i => fetch'[j] = fetch[j]
      /\ fetch'[i].at = "asset"
  <2>1. /\ [fetch[i] EXCEPT !.at = "asset"] \in [code : Codes, at : Awaits]
        /\ [fetch[i] EXCEPT !.at = "asset"].code = fetch[i].code
        /\ [fetch[i] EXCEPT !.at = "asset"].at = "asset"
    BY <1>1 DEF Awaits
  <2>2. fetch' = [fetch EXCEPT ![i] = [fetch[i] EXCEPT !.at = "asset"]]
    BY <1>3
  <2> QED BY <1>1, <2>1, <2>2
<1>5. \A j : Waiting(j)' <=> Waiting(j) /\ j # i
  BY <1>4 DEF Waiting
<1>6. /\ answers' \in Seq(DOMAIN fetch')
      /\ Len(answers') = Len(answers) + 1 /\ Len(answers) \in Nat
      /\ DOMAIN answers = 1..Len(answers) /\ DOMAIN answers' = 1..(Len(answers) + 1)
      /\ \A m \in DOMAIN answers : answers'[m] = answers[m]
      /\ answers'[Len(answers) + 1] = i
  BY <1>1, <1>3, <1>4
<1>7. TypeOK'
  <2>1. productStatusFlag' \in {Null, 0, 1, 2}
    BY <1>3, ColorIsFlag
  <2>2. statuses' \in Seq(Items)
    BY <1>2, <1>3
  <2>3. refresh' \in 0..Len(fetch')
    BY <1>3, <1>4 DEF IInv, TypeOK
  <2> QED BY <1>3, <1>4, <1>6, <2>1, <2>2, <2>3 DEF IInv, TypeOK
<1>8. Silent'
  BY <1>3 DEF IInv, Silent, Mounted
<1>9. NewestFetchIsForSelection'
  <2>1. fetch # <<>> /\ Len(fetch) \in DOMAIN fetch
    BY <1>1
  <2> QED BY <1>3, <1>4, <2>1 DEF IInv, NewestFetchIsForSelection
<1>10. DisplayIsLastAnswer'
  <2>1. answers' # <<>> /\ answers'[Len(answers')] = i
    BY <1>6
  <2> QED BY <1>2, <1>3, <1>4, <2>1 DEF DisplayIsLastAnswer
<1>11. AnswersAreDisplayed'
  <2>1. \A j : Waiting(j)' => \A m \in DOMAIN answers' : answers'[m] # j
    BY <1>5, <1>6 DEF IInv, AnswersAreDisplayed
  <2>2. \A j : (\E m \in DOMAIN answers : answers[m] = j)
               => \E m \in DOMAIN answers' : answers'[m] = j
    BY <1>6
  <2>3. \E m \in DOMAIN answers' : answers'[m] = i
    BY <1>6
  <2>4. Mounted' => Mounted
    BY <1>3 DEF Mounted
  <2>5. Mounted' => \A j \in DOMAIN fetch' :
                       Waiting(j)' \/ \E m \in DOMAIN answers' : answers'[m] = j
    BY <1>4, <1>5, <2>2, <2>3, <2>4 DEF IInv, AnswersAreDisplayed
  <2> QED BY <2>1, <2>5 DEF AnswersAreDisplayed
<1> QED BY <1>7, <1>8, <1>9, <1>10, <1>11 DEF IInv

-----------------------------------------------------------------------------
LEMMA InitEstablishes == PageInit => IInv
<1> SUFFICES ASSUME PageInit PROVE IInv
  OBVIOUS
<1> USE DEF PageInit
<1>1. TypeOK
  <2>1. statuses \in Seq(Items)
    OBVIOUS
  <2>2. fetch \in Seq([code : Codes, at : Awaits])
    OBVIOUS
  <2>3. answers \in Seq(DOMAIN fetch)
    OBVIOUS
  <2>4. refresh \in 0..Len(fetch)
    OBVIOUS
  <2>5. life \in Lives /\ selectedCode \in Codes
    BY CodesAssumption DEF Lives
  <2> QED BY <2>1, <2>2, <2>3, <2>4, <2>5 DEF TypeOK
<1>2. Silent /\ NewestFetchIsForSelection
  BY DEF Silent, NewestFetchIsForSelection
<1>3. DisplayIsLastAnswer /\ AnswersAreDisplayed
  <2>1. DOMAIN <<>> = {}
    OBVIOUS
  <2> QED BY <2>1 DEF DisplayIsLastAnswer, AnswersAreDisplayed, Waiting
<1> QED BY <1>1, <1>2, <1>3 DEF IInv

LEMMA NextPreserves == IInv /\ [PageNext]_vars => IInv'
<1> SUFFICES ASSUME IInv, [PageNext]_vars PROVE IInv'
  OBVIOUS
<1>0. TypeOK /\ Silent
  BY DEF IInv
<1> USE DEF data, calls, display
<1>1. ASSUME NEW w \in ProductWires, ProductsAnswered(w) PROVE IInv'
  <2>1. availableCodes' \subseteq Codes
    BY <1>1, ProductsAreCodes, ServiceNeverRaises DEF ProductsAnswered
  <2>2. CASE Mounted
    <3>1. StartFetch(selectedCode) /\ selectedCode \in Codes
      BY <1>0, <1>1, <2>2 DEF ProductsAnswered, TypeOK
    <3> QED BY <1>0, <1>1, <2>1, <2>2, <3>1, StartFetchStep DEF ProductsAnswered, TypeOK
  <2>3. CASE ~Mounted
    <3>1. DisplayTyped'
      <4>1. <<>> \in Seq(Items)
        OBVIOUS
      <4> QED BY <1>0, <1>1, <2>3, <4>1 DEF ProductsAnswered, ClearDisplay, DisplayTyped, TypeOK
    <3> QED BY <1>0, <1>1, <2>1, <2>3, <3>1, QuietStep DEF ProductsAnswered, TypeOK, Mounted
  <2> QED BY <2>2, <2>3
<1>2. ASSUME NEW i \in DOMAIN fetch, NEW c \in Codes, NEW w \in StatusWires(c),
             fetch[i].code = c, StatusAnswered(i, w)
      PROVE  IInv'
  BY <1>2, StatusAnsweredStep
<1>3. ASSUME NEW i \in DOMAIN fetch, NEW c \in Codes, NEW w \in StatusWires(c),
             fetch[i].code = c, StatusAnsweredAfterDispose(i, w)
      PROVE  IInv'
  <2>1. DisplayTyped'
    <3>1. /\ ExtractStatuses(GetProductStatus(w).value) \in Seq(Items)
          /\ ColorFlag(ExtractStatuses(GetProductStatus(w).value)) \in {Null, 0, 1, 2}
      BY EntriesAreAboutTheCode, ColorIsFlag
    <3> QED BY <1>0, <1>3, <3>1, ServiceNeverRaises
            DEF StatusAnsweredAfterDispose, ShowItems, DisplayTyped, TypeOK
  <2> QED BY <1>3, <2>1, MoveOnStep DEF StatusAnsweredAfterDispose, EndOfFetch, Awaits
<1>4. ASSUME NEW i \in DOMAIN fetch, AssetLoaded(i) PROVE IInv'
  BY <1>0, <1>4, MoveOnStep DEF AssetLoaded, EndOfFetch, Awaits, Waiting, TypeOK, DisplayTyped
<1>5. ASSUME NEW i \in DOMAIN fetch, AssetMissing(i) PROVE IInv'
  <2>1. PICK next \in {"altAsset", "done"} : fetch' = [fetch EXCEPT ![i].at = next]
    BY <1>5 DEF AssetMissing
  <2>2. next \in Awaits /\ next # "status" /\ ~Waiting(i) /\ refresh' \in {refresh, 0}
    BY <1>5 DEF AssetMissing, EndOfFetch, Awaits, Waiting
  <2> QED BY <1>0, <1>5, <2>1, <2>2, MoveOnStep DEF AssetMissing, TypeOK, DisplayTyped
<1>6. CASE FadeClosed
  BY <1>0, <1>6, QuietStep DEF FadeClosed, TypeOK, Mounted, DisplayTyped
<1>7. CASE ToggleProductList
  BY <1>0, <1>7, QuietStep DEF ToggleProductList, TypeOK, Mounted, DisplayTyped
<1>8. ASSUME NEW c \in Codes, SelectProduct(c) PROVE IInv'
  BY <1>0, <1>8, StartFetchStep DEF SelectProduct, TypeOK, Mounted
<1>9. CASE PullToRefresh
  BY <1>0, <1>9, StartFetchStep DEF PullToRefresh, TypeOK, Mounted
<1>10. CASE Navigate
  BY <1>0, <1>10, QuietStep
  DEF Navigate, Cover, Uncover, Leave, Dispose, Lives, TypeOK, Mounted, DisplayTyped
<1>11. CASE UNCHANGED vars
  BY <1>0, <1>11, QuietStep DEF vars, TypeOK, Mounted, DisplayTyped
<1>12. CASE \E i \in DOMAIN fetch : FetchResumes(i)
  BY <1>2, <1>3, <1>4, <1>5, <1>12 DEF FetchResumes
<1>13. CASE User
  BY <1>7, <1>8, <1>9, <1>13 DEF User
<1> QED BY <1>1, <1>6, <1>10, <1>11, <1>12, <1>13 DEF PageNext, Answered

(***************************************************************************)
(* The invariant the theorems below are read off.                          *)
(***************************************************************************)
THEOREM InductiveInvariant == PageSpec => []IInv
<1>1. PageInit => IInv
  BY InitEstablishes
<1>2. IInv /\ [PageNext]_vars => IInv'
  BY NextPreserves
<1> QED BY <1>1, <1>2, PTL DEF PageSpec

(***************************************************************************)
(* The page's fields keep their types; in particular the codes offered and *)
(* the entries shown are ones the backend sent.                            *)
(***************************************************************************)
THEOREM TypeCorrect == PageSpec => []TypeOK
<1>1. IInv => TypeOK
  BY DEF IInv
<1> QED BY <1>1, InductiveInvariant, PTL

(***************************************************************************)
(* The last query sent is about the product selected now.                  *)
(***************************************************************************)
THEOREM NewestFetchSafe == PageSpec => []NewestFetchIsForSelection
<1>1. IInv => NewestFetchIsForSelection
  BY DEF IInv
<1> QED BY <1>1, InductiveInvariant, PTL

(***************************************************************************)
(* All entries on display are about the product of the last answer.        *)
(***************************************************************************)
THEOREM DisplaySafe == PageSpec => []DisplayIsLastAnswer
<1>1. IInv => DisplayIsLastAnswer
  BY DEF IInv
<1> QED BY <1>1, InductiveInvariant, PTL

(***************************************************************************)
(* The Retry view is never shown, and no error escapes a mounted page.     *)
(***************************************************************************)
THEOREM SilentSafe == PageSpec => []FailuresAreSilent
<1>1. IInv => FailuresAreSilent
  BY DEF IInv, Silent, FailuresAreSilent, View
<1> QED BY <1>1, InductiveInvariant, PTL

(***************************************************************************)
(* If the answers came in order, a settled page shows the product that is  *)
(* selected: the newest activation was answered last.                      *)
(***************************************************************************)
LEMMA OrderGivesFreshness == IInv => InOrderIsFresh
<1> SUFFICES ASSUME IInv, Settled, InOrder, NEW k \in DOMAIN statuses
             PROVE  statuses[k].of = selectedCode
  BY DEF InOrderIsFresh
<1> DEFINE last == answers[Len(answers)]
<1>1. answers \in Seq(DOMAIN fetch) /\ fetch \in Seq([code : Codes, at : Awaits])
  BY DEF IInv, TypeOK
<1>2. answers # <<>> /\ statuses[k].of = fetch[last].code
  BY DEF IInv, DisplayIsLastAnswer, Settled
<1>3. Len(answers) \in DOMAIN answers /\ last \in DOMAIN fetch
  BY <1>1, <1>2
<1>4. Len(fetch) \in DOMAIN fetch /\ DOMAIN fetch = 1..Len(fetch) /\ fetch # <<>>
  BY <1>1, <1>3
<1>5. PICK m \in DOMAIN answers : answers[m] = Len(fetch)
  BY <1>4 DEF IInv, AnswersAreDisplayed, Settled
<1>6. last = Len(fetch)
  <2>1. CASE m = Len(answers)
    BY <1>5, <2>1
  <2>2. CASE m < Len(answers)
    <3>1. answers[m] < last
      BY <1>3, <1>5, <2>2 DEF InOrder
    <3> QED BY <1>3, <1>4, <1>5, <3>1
  <2> QED BY <1>1, <1>5, <2>1, <2>2
<1> QED BY <1>2, <1>4, <1>6 DEF IInv, NewestFetchIsForSelection

(***************************************************************************)
(* The page's freshness, for any number of products and refreshes.         *)
(***************************************************************************)
THEOREM FreshnessSafe == PageSpec => []InOrderIsFresh
BY OrderGivesFreshness, InductiveInvariant, PTL

(***************************************************************************)
(* A disposed page sends no query, and the answers that still come in end  *)
(* their activations.                                                      *)
(***************************************************************************)
THEOREM DisposeSafe == PageSpec => NothingAfterDispose
<1> DEFINE Stopped == /\ Len(fetch') = Len(fetch)
                      /\ \A i \in DOMAIN fetch : Waiting(i) => fetch'[i].at \in {"status", "done"}
                      /\ UNCHANGED <<selectedCode, answers>>
<1>1. TypeOK /\ [PageNext]_vars => [~Mounted => Stopped]_vars
  <2> SUFFICES ASSUME TypeOK, PageNext, ~Mounted PROVE Stopped
    OBVIOUS
  <2> USE DEF data, calls
  <2>1. fetch \in Seq([code : Codes, at : Awaits])
    BY DEF TypeOK
  <2>2. CASE UNCHANGED <<fetch, selectedCode, answers>>
    BY <2>2 DEF Waiting
  <2>3. ASSUME NEW i \in DOMAIN fetch, FetchResumes(i) PROVE Stopped
    <3>1. PICK next \in {"done", "altAsset"} :
            fetch' = [fetch EXCEPT ![i].at = next] /\ (Waiting(i) => next = "done")
      BY <2>3 DEF FetchResumes, StatusAnswered, StatusAnsweredAfterDispose,
                  AssetLoaded, AssetMissing, Waiting
    <3>2. UNCHANGED <<selectedCode, answers>>
      BY <2>3 DEF FetchResumes, StatusAnswered, StatusAnsweredAfterDispose,
                  AssetLoaded, AssetMissing
    <3>3. /\ Len(fetch') = Len(fetch)
          /\ \A j \in DOMAIN fetch : j # i => fetch'[j] = fetch[j]
      BY <2>1, <3>1
    <3>4. fetch'[i].at = next
      <4>1. fetch[i] \in [code : Codes, at : Awaits]
        BY <2>1, ElementOf, Zenon
      <4>2. [fetch[i] EXCEPT !.at = next].at = next
        BY <4>1
      <4>3. fetch' = [fetch EXCEPT ![i] = [fetch[i] EXCEPT !.at = next]]
        BY <3>1
      <4> QED BY <2>1, <4>2, <4>3
    <3> QED BY <3>1, <3>2, <3>3, <3>4 DEF Waiting
  <2>4. CASE Answered
    BY <2>2, <2>4 DEF Answered, ProductsAnswered
  <2>5. CASE FadeClosed
    BY <2>2, <2>5 DEF FadeClosed
  <2>6. CASE User
    BY <2>6 DEF User, ToggleProductList, SelectProduct, PullToRefresh, Mounted
  <2>7. CASE Navigate
    BY <2>2, <2>7 DEF Navigate
  <2> QED BY <2>3, <2>4, <2>5, <2>6, <2>7 DEF PageNext
<1> QED BY <1>1, TypeCorrect, PTL DEF PageSpec, NothingAfterDispose

-----------------------------------------------------------------------------
(* The spinner, and the flag. *)

\* The flag on display is the colour of the entries on display.
FlagIsColor == Mounted /\ statuses # <<>> => productStatusFlag = ColorFlag(statuses)

LEMMA SpinnerAndFlagStep ==
  TypeOK /\ SpinnerHasWork /\ FlagIsColor /\ [PageNext]_vars
    => SpinnerHasWork' /\ FlagIsColor'
<1> SUFFICES ASSUME TypeOK, SpinnerHasWork, FlagIsColor, [PageNext]_vars
             PROVE  SpinnerHasWork' /\ FlagIsColor'
  OBVIOUS
<1> USE DEF data, calls
<1>0. fetch \in Seq([code : Codes, at : Awaits]) /\ Len(fetch) \in Nat
  BY DEF TypeOK
<1>asks. ASSUME NEW code, StartFetch(code) PROVE SpinnerHasWork' /\ FlagIsColor'
  <2>1. /\ DOMAIN fetch' = 1..(Len(fetch) + 1)
        /\ fetch'[Len(fetch) + 1] = [code |-> code, at |-> "status"]
    BY <1>0, <1>asks DEF StartFetch
  <2>2. \E i \in DOMAIN fetch' : fetch'[i].at = "status"
    BY <1>0, <2>1
  <2>3. statuses' = <<>>
    BY <1>asks DEF StartFetch, ClearDisplay
  <2> QED BY <2>2, <2>3 DEF SpinnerHasWork, FlagIsColor, Waiting
<1>1. CASE Answered
  <2>1. CASE Mounted
    BY <1>1, <1>asks, <2>1 DEF Answered, ProductsAnswered
  <2>2. CASE ~Mounted
    BY <1>1, <2>2 DEF Answered, ProductsAnswered, Mounted, SpinnerHasWork, FlagIsColor
  <2> QED BY <2>1, <2>2
<1>2. ASSUME NEW i \in DOMAIN fetch, NEW w, StatusAnswered(i, w)
      PROVE  SpinnerHasWork' /\ FlagIsColor'
  BY <1>2, ServiceNeverRaises DEF StatusAnswered, ShowItems, SpinnerHasWork, FlagIsColor
<1>3. ASSUME NEW i \in DOMAIN fetch, NEW w, StatusAnsweredAfterDispose(i, w)
      PROVE  SpinnerHasWork' /\ FlagIsColor'
  BY <1>3 DEF StatusAnsweredAfterDispose, Mounted, SpinnerHasWork, FlagIsColor
<1>4. ASSUME NEW i \in DOMAIN fetch, AssetLoaded(i) \/ AssetMissing(i)
      PROVE  SpinnerHasWork' /\ FlagIsColor'
  <2>1. PICK next : fetch' = [fetch EXCEPT ![i].at = next]
    BY <1>4 DEF AssetLoaded, AssetMissing
  <2>2. /\ UNCHANGED <<life, products, loading, statuses, productStatusFlag>>
        /\ fetch[i].at \in {"asset", "altAsset"}
    BY <1>4 DEF AssetLoaded, AssetMissing
  <2>3. /\ DOMAIN fetch' = DOMAIN fetch
        /\ \A j \in DOMAIN fetch : j # i => fetch'[j] = fetch[j]
    BY <1>0, <2>1
  <2>4. \A j \in DOMAIN fetch : Waiting(j) => Waiting(j)'
    BY <2>2, <2>3 DEF Waiting
  <2> QED BY <2>2, <2>3, <2>4 DEF Mounted, SpinnerHasWork, FlagIsColor
<1>5. CASE User
  <2>1. CASE ToggleProductList
    BY <2>1 DEF ToggleProductList, Waiting, Mounted, SpinnerHasWork, FlagIsColor
  <2>2. CASE \E c \in Codes : SelectProduct(c)
    BY <1>asks, <2>2 DEF SelectProduct
  <2>3. CASE PullToRefresh
    BY <1>asks, <2>3 DEF PullToRefresh
  <2> QED BY <1>5, <2>1, <2>2, <2>3 DEF User
<1>6. CASE FadeClosed \/ Navigate \/ UNCHANGED vars
  BY <1>6 DEF FadeClosed, Navigate, Cover, Uncover, Leave, Dispose, vars, Waiting, Mounted,
              SpinnerHasWork, FlagIsColor
<1>7. CASE \E i \in DOMAIN fetch : FetchResumes(i)
  BY <1>2, <1>3, <1>4, <1>7 DEF FetchResumes
<1> QED BY <1>1, <1>5, <1>6, <1>7 DEF PageNext

LEMMA SpinnerAndFlag == PageSpec => [](SpinnerHasWork /\ FlagIsColor)
<1>1. PageInit => SpinnerHasWork /\ FlagIsColor
  BY DEF PageInit, SpinnerHasWork, FlagIsColor
<1> QED BY <1>1, SpinnerAndFlagStep, TypeCorrect, PTL DEF PageSpec

(***************************************************************************)
(* A spinner on a mounted page stands for a call under way, whatever the   *)
(* backend answered before.                                                *)
(***************************************************************************)
THEOREM SpinnerSafe == PageSpec => []SpinnerHasWork
BY SpinnerAndFlag, PTL

(***************************************************************************)
(* A RefreshIndicator that turns waits for an activation that is not over, *)
(* on every path through _fetchStatus and whether or not the page is still *)
(* there: what RefreshEnds needs besides fairness.                         *)
(***************************************************************************)
RefreshHasWork == refresh # 0 => refresh \in DOMAIN fetch /\ fetch[refresh].at # "done"

LEMMA RefreshStep == TypeOK /\ RefreshHasWork /\ [PageNext]_vars => RefreshHasWork'
<1> SUFFICES ASSUME TypeOK, RefreshHasWork, [PageNext]_vars PROVE RefreshHasWork'
  OBVIOUS
<1> USE DEF data, calls
<1>0. fetch \in Seq([code : Codes, at : Awaits]) /\ Len(fetch) \in Nat
  BY DEF TypeOK
<1>asks. ASSUME NEW code, StartFetch(code)
         PROVE  /\ DOMAIN fetch' = 1..(Len(fetch) + 1) /\ DOMAIN fetch = 1..Len(fetch)
                /\ \A i \in DOMAIN fetch : fetch'[i] = fetch[i]
                /\ fetch'[Len(fetch) + 1].at = "status"
  BY <1>0, <1>asks DEF StartFetch
<1>1. ASSUME NEW code, StartFetch(code), UNCHANGED refresh PROVE RefreshHasWork'
  BY <1>0, <1>1, <1>asks DEF RefreshHasWork
<1>2. CASE PullToRefresh
  <2>1. refresh' = Len(fetch) + 1 /\ Len(fetch) + 1 \in DOMAIN fetch'
    BY <1>0, <1>2, <1>asks DEF PullToRefresh
  <2> QED BY <1>2, <1>asks, <2>1 DEF PullToRefresh, RefreshHasWork
\* Activation i goes on: it is not over yet, or the indicator hears of its end.
<1>3. ASSUME NEW i \in DOMAIN fetch, NEW next,
             fetch' = [fetch EXCEPT ![i].at = next],
             refresh' \in {0, refresh},
             refresh = i /\ next = "done" => refresh' = 0
      PROVE  RefreshHasWork'
  <2>1. /\ DOMAIN fetch' = DOMAIN fetch /\ fetch'[i].at = next
        /\ \A j \in DOMAIN fetch : j # i => fetch'[j] = fetch[j]
    <3>1. fetch[i] \in [code : Codes, at : Awaits]
      BY <1>0, ElementOf
    <3>2. fetch'[i] = [fetch[i] EXCEPT !.at = next]
      BY <1>0, <1>3
    <3>3. fetch'[i].at = next
      BY <3>1, <3>2
    <3> QED BY <1>0, <1>3, <3>3
  <2> QED BY <1>3, <2>1 DEF RefreshHasWork
<1>4. CASE Answered
  BY <1>1, <1>4 DEF Answered, ProductsAnswered, RefreshHasWork
<1>5. ASSUME NEW i \in DOMAIN fetch, FetchResumes(i) PROVE RefreshHasWork'
  <2>1. ASSUME NEW w, StatusAnswered(i, w) PROVE RefreshHasWork'
    BY <1>3, <2>1, ServiceNeverRaises DEF StatusAnswered
  <2>2. ASSUME NEW w, StatusAnsweredAfterDispose(i, w) PROVE RefreshHasWork'
    BY <1>3, <2>2 DEF StatusAnsweredAfterDispose, EndOfFetch
  <2>3. CASE AssetLoaded(i)
    BY <1>3, <2>3 DEF AssetLoaded, EndOfFetch
  <2>4. CASE AssetMissing(i)
    <3> DEFINE next == IF fetch[i].at = "asset" THEN "altAsset" ELSE "done"
    <3>1. /\ fetch' = [fetch EXCEPT ![i].at = next]
          /\ IF fetch[i].at = "altAsset" THEN EndOfFetch(i) ELSE UNCHANGED refresh
          /\ fetch[i].at \in {"asset", "altAsset"}
      BY <2>4, Zenon DEF AssetMissing
    <3>2. refresh' \in {0, refresh} /\ (refresh = i /\ next = "done" => refresh' = 0)
      <4> HIDE DEF next
      <4>1. next = "done" => fetch[i].at # "asset"
        BY DEF next
      <4> QED BY <3>1, <4>1 DEF EndOfFetch
    <3> HIDE DEF next
    <3> QED BY <1>3, <3>1, <3>2
  <2> QED BY <1>5, <2>1, <2>2, <2>3, <2>4 DEF FetchResumes
<1>6. CASE User
  BY <1>1, <1>2, <1>6 DEF User, ToggleProductList, SelectProduct, RefreshHasWork
<1>7. CASE FadeClosed \/ Navigate \/ UNCHANGED vars
  BY <1>7 DEF FadeClosed, Navigate, vars, RefreshHasWork
<1> QED BY <1>4, <1>5, <1>6, <1>7 DEF PageNext

THEOREM RefreshSafe == PageSpec => []RefreshHasWork
<1>1. PageInit => RefreshHasWork
  BY DEF PageInit, RefreshHasWork
<1> QED BY <1>1, RefreshStep, TypeCorrect, PTL DEF PageSpec

(***************************************************************************)
(* Of entries flagged 0, 1 and 2 the page and the service compute the same *)
(* flag, the one by looking for a 2 and then for a 1, the other as a       *)
(* maximum.                                                                *)
(***************************************************************************)
LEMMA ColorIsWorst ==
  ASSUME NEW items \in Seq(Items), items # <<>>,
         \A k \in DOMAIN items : FlagOf(items[k].flag) \in 0..2
  PROVE  ColorFlag(items) = WorstFlag(items)
<1> DEFINE flags == {FlagOf(items[k].flag) : k \in DOMAIN items}
           IsWorst(m) == m \in flags /\ \A k \in DOMAIN items : FlagOf(items[k].flag) <= m
<1>1. 1 \in DOMAIN items
  OBVIOUS
<1>2. IsWorst(ColorFlag(items))
  <2>1. \A k \in DOMAIN items : FlagOf(items[k].flag) \in flags
    OBVIOUS
  <2>2. CASE \E k \in DOMAIN items : FlagOf(items[k].flag) = 2
    <3>1. ColorFlag(items) = 2 /\ ColorFlag(items) \in flags
      BY <2>1, <2>2 DEF ColorFlag
    <3> HIDE DEF flags
    <3> QED BY <3>1
  <2>3. CASE /\ ~\E k \in DOMAIN items : FlagOf(items[k].flag) = 2
             /\ \E k \in DOMAIN items : FlagOf(items[k].flag) = 1
    <3>1. ColorFlag(items) = 1 /\ ColorFlag(items) \in flags
      BY <2>1, <2>3 DEF ColorFlag
    <3> HIDE DEF flags
    <3> QED BY <2>3, <3>1
  <2>4. CASE /\ ~\E k \in DOMAIN items : FlagOf(items[k].flag) = 2
             /\ ~\E k \in DOMAIN items : FlagOf(items[k].flag) = 1
    BY <1>1, <2>1, <2>4 DEF ColorFlag
  <2> QED BY <2>2, <2>3, <2>4
<1>3. \A m, n : IsWorst(m) /\ IsWorst(n) => m = n
  <2>1. SUFFICES ASSUME NEW m, NEW n, IsWorst(m), IsWorst(n) PROVE m = n
    OBVIOUS
  <2>2. PICK j \in DOMAIN items : m = FlagOf(items[j].flag)
    BY <2>1, Zenon
  <2>3. PICK k \in DOMAIN items : n = FlagOf(items[k].flag)
    BY <2>1, Zenon
  <2>4. m <= n /\ n <= m /\ m \in 0..2 /\ n \in 0..2
    BY <2>1, <2>2, <2>3
  <2> QED BY <2>4
<1>4. IsWorst(WorstFlag(items))
  BY <1>2 DEF WorstFlag
<1> HIDE DEF IsWorst
<1> QED BY <1>2, <1>3, <1>4

(***************************************************************************)
(* The flag on the page is the worst of the entries on display, although   *)
(* page and service compute it each in its own way.                        *)
(***************************************************************************)
THEOREM FlagSafe == PageSpec => []PageFlagIsWorst
<1>1. TypeOK /\ FlagIsColor => PageFlagIsWorst
  BY ColorIsWorst DEF TypeOK, FlagIsColor, PageFlagIsWorst
<1> QED BY <1>1, SpinnerAndFlag, TypeCorrect, PTL

-----------------------------------------------------------------------------
(* The page implements StatusBoard. *)

\* The first activation always has room: _fetchAvailableProducts starts it unasked.
Bounded == Len(fetch) + (IF products = "waiting" THEN 1 ELSE 0) <= MaxFetches

LEMMA BoundedStep == TypeOK /\ Bounded /\ [PageNext]_vars => Bounded'
<1> SUFFICES ASSUME TypeOK, Bounded, [PageNext]_vars PROVE Bounded'
  OBVIOUS
<1> USE DEF data, calls
<1>1. fetch \in Seq([code : Codes, at : Awaits]) /\ Len(fetch) \in Nat
  BY DEF TypeOK
<1>2. \A i \in DOMAIN fetch : \A x : Len([fetch EXCEPT ![i].at = x]) = Len(fetch)
  BY <1>1
<1>3. \A c : StartFetch(c) => Len(fetch') = Len(fetch) + 1
  BY <1>1 DEF StartFetch
<1>4. CASE Answered
  BY <1>1, <1>3, <1>4, MaxFetchesAssumption DEF Answered, ProductsAnswered, Bounded
<1>5. ASSUME NEW i \in DOMAIN fetch, FetchResumes(i) PROVE Bounded'
  <2>1. products' = products /\ \E x : fetch' = [fetch EXCEPT ![i].at = x]
    BY <1>5 DEF FetchResumes, StatusAnswered, StatusAnsweredAfterDispose,
                AssetLoaded, AssetMissing
  <2> QED BY <1>2, <2>1 DEF Bounded
<1>6. CASE User
  BY <1>1, <1>3, <1>6, MaxFetchesAssumption
  DEF User, ToggleProductList, SelectProduct, PullToRefresh, HasRoom, Bounded
<1>7. CASE FadeClosed \/ Navigate \/ UNCHANGED vars
  BY <1>7 DEF FadeClosed, Navigate, vars, Bounded
<1> QED BY <1>4, <1>5, <1>6, <1>7 DEF PageNext

\* The board as the page shows it, and the questions it has open.
Shown == IF loading \/ ~Mounted THEN Null
         ELSE IF statuses = <<>> THEN Malformed
         ELSE statuses[1].of
Open == {<<i, fetch[i].code>> : i \in {j \in DOMAIN fetch : Waiting(j)}}

LEMMA OpenIs ==
  \A p : p \in Open <=> \E i : Waiting(i) /\ p = <<i, fetch[i].code>>
BY DEF Open, Waiting

\* A step that asks is Ask, with the next activation as ticket.
LEMMA AskStep ==
  ASSUME IInv, Bounded, NEW code \in Codes, StartFetch(code), selectedCode' = code,
         life' = life, Mounted, Len(fetch) < MaxFetches
  PROVE  Board!Ask(Len(fetch) + 1, code)
<1>0. /\ Len(fetch) \in Nat
      /\ DOMAIN fetch' = 1..(Len(fetch) + 1) /\ DOMAIN fetch = 1..Len(fetch)
      /\ \A i \in DOMAIN fetch : fetch'[i] = fetch[i]
      /\ fetch'[Len(fetch) + 1] = [code |-> code, at |-> "status"]
      /\ loading' = TRUE
  BY StartFetchFacts
<1>1. Len(fetch) + 1 \in (1..MaxFetches) \ DOMAIN fetch
  BY <1>0, MaxFetchesAssumption
<1>2. DOMAIN fetch' = DOMAIN fetch \cup {Len(fetch) + 1}
  BY <1>0
<1>3. Open' = Open \cup {<<Len(fetch) + 1, code>>}
  <2>1. \A i : Waiting(i)' <=> Waiting(i) \/ i = Len(fetch) + 1
    BY <1>0 DEF Waiting
  <2>2. \A i : Waiting(i) => fetch'[i].code = fetch[i].code
    BY <1>0 DEF Waiting
  <2>3. fetch'[Len(fetch) + 1].code = code
    BY <1>0
  <2>4. \A p : p \in Open' <=> \E i : Waiting(i)' /\ p = <<i, fetch'[i].code>>
    BY DEF Open, Waiting
  <2>5. \A p : p \in Open' <=> p \in Open \/ p = <<Len(fetch) + 1, code>>
    BY <2>1, <2>2, <2>3, <2>4, OpenIs
  <2> QED BY <2>5
<1>4. Shown' = Null
  BY <1>0 DEF Shown
<1>5. Mounted' = Mounted
  BY DEF Mounted
<1> QED BY <1>1, <1>2, <1>3, <1>4, <1>5 DEF Board!Ask, Open, Shown

\* A step that only moves activation i past its query closes that question.
LEMMA OpenShrinks ==
  ASSUME TypeOK, NEW i \in DOMAIN fetch, Waiting(i), NEW next, next # "status",
         fetch' = [fetch EXCEPT ![i].at = next]
  PROVE  /\ Open' = Open \ {<<i, fetch[i].code>>}
         /\ <<i, fetch[i].code>> \in Open
         /\ DOMAIN fetch' = DOMAIN fetch
<1>1. fetch \in Seq([code : Codes, at : Awaits])
  BY DEF TypeOK
<1>2. fetch[i] \in [code : Codes, at : Awaits]
  BY <1>1, ElementOf, Zenon
<1>3. /\ [fetch[i] EXCEPT !.at = next].code = fetch[i].code
      /\ [fetch[i] EXCEPT !.at = next].at = next
  BY <1>2
<1>4. fetch' = [fetch EXCEPT ![i] = [fetch[i] EXCEPT !.at = next]]
  OBVIOUS
<1>5. /\ DOMAIN fetch' = DOMAIN fetch
      /\ \A j \in DOMAIN fetch : j # i => fetch'[j] = fetch[j]
      /\ fetch'[i].at = next /\ fetch'[i].code = fetch[i].code
  BY <1>1, <1>3, <1>4
<1>6. \A j : Waiting(j)' <=> Waiting(j) /\ j # i
  BY <1>5 DEF Waiting
<1>7. \A p : p \in Open' <=> \E j : Waiting(j)' /\ p = <<j, fetch'[j].code>>
  BY DEF Open, Waiting
<1>8. \A j : Waiting(j) => fetch'[j].code = fetch[j].code
  BY <1>5 DEF Waiting
<1>9. \A p : p \in Open' <=> p \in Open /\ p # <<i, fetch[i].code>>
  BY <1>6, <1>7, <1>8, OpenIs
<1> QED BY <1>5, <1>9, OpenIs

\* Moving an activation that is past its query leaves the questions as they are.
LEMMA OpenStays ==
  ASSUME TypeOK, NEW i \in DOMAIN fetch, ~Waiting(i), NEW next, next # "status",
         fetch' = [fetch EXCEPT ![i].at = next]
  PROVE  Open' = Open /\ DOMAIN fetch' = DOMAIN fetch
<1>1. fetch \in Seq([code : Codes, at : Awaits])
  BY DEF TypeOK
<1>2. /\ DOMAIN fetch' = DOMAIN fetch
      /\ \A j \in DOMAIN fetch : j # i => fetch'[j] = fetch[j]
      /\ fetch'[i].at = next
  <2>1. fetch[i] \in [code : Codes, at : Awaits]
    BY <1>1, ElementOf, Zenon
  <2>2. [fetch[i] EXCEPT !.at = next].at = next
    BY <2>1
  <2>3. fetch' = [fetch EXCEPT ![i] = [fetch[i] EXCEPT !.at = next]]
    OBVIOUS
  <2> QED BY <1>1, <2>2, <2>3
<1>3. \A j : Waiting(j)' <=> Waiting(j)
  BY <1>2 DEF Waiting
<1>4. \A p : p \in Open' <=> \E j : Waiting(j)' /\ p = <<j, fetch'[j].code>>
  BY DEF Open, Waiting
<1>5. \A j : Waiting(j) => fetch'[j] = fetch[j]
  BY <1>2 DEF Waiting
<1>6. \A p : p \in Open' <=> p \in Open
  BY <1>3, <1>4, <1>5, OpenIs
<1> QED BY <1>2, <1>6

\* A step that changes nothing the board is made of.
LEMMA BoardStutters ==
  ASSUME selectedCode' = selectedCode, Mounted' = Mounted,
         Mounted => UNCHANGED <<loading, statuses>>,
         Open' = Open, DOMAIN fetch' = DOMAIN fetch
  PROVE  UNCHANGED Board!boardVars
BY DEF Board!boardVars, Open

LEMMA BoardStep == IInv /\ Bounded /\ [PageNext]_vars => [Board!BoardNext]_(Board!boardVars)
<1> SUFFICES ASSUME IInv, Bounded, [PageNext]_vars
             PROVE  Board!BoardNext \/ UNCHANGED Board!boardVars
  OBVIOUS
<1> USE DEF data, calls
<1>0. /\ TypeOK /\ selectedCode \in Codes
      /\ fetch \in Seq([code : Codes, at : Awaits]) /\ Len(fetch) \in Nat
      /\ DOMAIN fetch = 1..Len(fetch)
  BY DEF IInv, TypeOK
<1>ask. ASSUME NEW code \in Codes, Board!Ask(Len(fetch) + 1, code), Len(fetch) < MaxFetches
        PROVE  Board!BoardNext
  <2>1. Len(fetch) + 1 \in 1..MaxFetches
    BY <1>0, <1>ask, MaxFetchesAssumption
  <2> QED BY <1>ask, <2>1 DEF Board!BoardNext
<1>1. ASSUME NEW w \in ProductWires, ProductsAnswered(w)
      PROVE  Board!BoardNext \/ UNCHANGED Board!boardVars
  <2>1. CASE Mounted
    <3>1. Len(fetch) < MaxFetches
      BY <1>0, <1>1, MaxFetchesAssumption DEF ProductsAnswered, Bounded
    <3> QED BY <1>0, <1>1, <1>ask, <2>1, <3>1, AskStep DEF ProductsAnswered
  <2>2. CASE ~Mounted
    <3>1. Open' = Open /\ Mounted' = Mounted
      BY <1>1, <2>2 DEF ProductsAnswered, Open, Waiting, Mounted
    <3> QED BY <1>1, <2>2, <3>1, BoardStutters DEF ProductsAnswered
  <2> QED BY <2>1, <2>2
<1>2. ASSUME NEW i \in DOMAIN fetch, NEW w \in StatusWires(fetch[i].code), StatusAnswered(i, w)
      PROVE  Board!BoardNext
  <2> DEFINE items == ExtractStatuses(GetProductStatus(w).value)
  <2>1. fetch[i].code \in Codes /\ i \in 1..MaxFetches
    <3>1. fetch[i] \in [code : Codes, at : Awaits]
      BY <1>0, ElementOf, Zenon
    <3> QED BY <1>0, <3>1, MaxFetchesAssumption DEF Bounded
  <2>2. items \in Seq(Items) /\ \A k \in DOMAIN items : items[k].of = fetch[i].code
    BY <2>1, EntriesAreAboutTheCode
  <2>3. /\ Mounted /\ Waiting(i) /\ loading' = FALSE /\ statuses' = items
        /\ fetch' = [fetch EXCEPT ![i].at = "asset"]
        /\ UNCHANGED <<life, selectedCode>>
    BY <1>2, ServiceNeverRaises DEF StatusAnswered, ShowItems
  <2> HIDE DEF items
  <2>4. Shown' \in {fetch[i].code, Malformed}
    BY <2>2, <2>3 DEF Shown, Mounted
  <2>5. /\ Open' = Open \ {<<i, fetch[i].code>>} /\ <<i, fetch[i].code>> \in Open
        /\ DOMAIN fetch' = DOMAIN fetch
    BY <1>0, <2>3, OpenShrinks
  <2>6. Mounted'
    BY <2>3 DEF Mounted
  <2>7. PICK c \in Codes : c = fetch[i].code
    BY <2>1
  <2>8. Board!Answer(i, c)
    BY <2>3, <2>4, <2>5, <2>6, <2>7 DEF Board!Answer, Open, Shown
  <2> QED BY <2>1, <2>8 DEF Board!BoardNext
<1>3. ASSUME NEW i \in DOMAIN fetch, NEW w, StatusAnsweredAfterDispose(i, w)
      PROVE  Board!BoardNext
  <2>1. fetch[i].code \in Codes /\ i \in 1..MaxFetches
    <3>1. fetch[i] \in [code : Codes, at : Awaits]
      BY <1>0, ElementOf, Zenon
    <3> QED BY <1>0, <3>1, MaxFetchesAssumption DEF Bounded
  <2>2. /\ ~Mounted /\ Waiting(i) /\ fetch' = [fetch EXCEPT ![i].at = "done"]
        /\ UNCHANGED <<life, selectedCode>>
    BY <1>3 DEF StatusAnsweredAfterDispose
  <2>3. /\ Open' = Open \ {<<i, fetch[i].code>>} /\ <<i, fetch[i].code>> \in Open
        /\ DOMAIN fetch' = DOMAIN fetch
    BY <1>0, <2>2, OpenShrinks
  <2>4. Mounted' = Mounted
    BY <2>2 DEF Mounted
  <2>5. PICK c \in Codes : c = fetch[i].code
    BY <2>1
  <2>6. Board!Discard(i, c)
    BY <2>2, <2>3, <2>4, <2>5 DEF Board!Discard, Open
  <2> QED BY <2>1, <2>6 DEF Board!BoardNext
<1>4. ASSUME NEW i \in DOMAIN fetch, AssetLoaded(i) \/ AssetMissing(i)
      PROVE  UNCHANGED Board!boardVars
  <2>1. PICK next \in {"altAsset", "done"} : fetch' = [fetch EXCEPT ![i].at = next]
    BY <1>4 DEF AssetLoaded, AssetMissing
  <2>2. ~Waiting(i) /\ UNCHANGED <<life, selectedCode, loading, statuses>>
    BY <1>4 DEF AssetLoaded, AssetMissing, Waiting
  <2>3. Open' = Open /\ DOMAIN fetch' = DOMAIN fetch
    BY <1>0, <2>1, <2>2, OpenStays
  <2> QED BY <2>2, <2>3, BoardStutters DEF Mounted
<1>5. CASE FadeClosed \/ ToggleProductList \/ UNCHANGED vars
  <2>1. UNCHANGED <<life, selectedCode, loading, statuses, fetch>>
    BY <1>5 DEF FadeClosed, ToggleProductList, vars
  <2>2. Open' = Open
    BY <2>1 DEF Open, Waiting
  <2> QED BY <2>1, <2>2, BoardStutters DEF Mounted
<1>6. ASSUME NEW c \in Codes, SelectProduct(c)
      PROVE  Board!BoardNext
  BY <1>0, <1>6, <1>ask, AskStep, MaxFetchesAssumption DEF SelectProduct, HasRoom, Mounted
<1>7. CASE PullToRefresh
  BY <1>0, <1>7, <1>ask, AskStep, MaxFetchesAssumption DEF PullToRefresh, HasRoom, Mounted
<1>8. CASE Navigate
  <2>1. UNCHANGED <<selectedCode, loading, statuses, fetch>>
    BY <1>8 DEF Navigate
  <2>2. Open' = Open
    BY <2>1 DEF Open, Waiting
  <2>3. CASE Dispose
    BY <2>1, <2>2, <2>3 DEF Dispose, Mounted, Board!Close, Board!BoardNext, Open
  <2>4. CASE ~Dispose
    BY <1>8, <2>1, <2>2, <2>4, BoardStutters DEF Navigate, Cover, Uncover, Leave, Mounted
  <2> QED BY <2>3, <2>4
<1>9. CASE \E i \in DOMAIN fetch : FetchResumes(i)
  BY <1>2, <1>3, <1>4, <1>9 DEF FetchResumes
<1> QED BY <1>1, <1>5, <1>6, <1>7, <1>8, <1>9 DEF PageNext, Answered, User

(***************************************************************************)
(* The page refines StatusBoard: each of its steps is one of the board's   *)
(* or leaves the board as it is.                                           *)
(***************************************************************************)
THEOREM PageImplementsBoard == PageSpec => ImplementsBoard
<1>1. PageInit => Board!BoardInit
  <2> SUFFICES ASSUME PageInit PROVE Board!BoardInit
    OBVIOUS
  <2>1. Open = {} /\ DOMAIN fetch = {} /\ Shown = Null /\ Mounted
    BY DEF PageInit, Open, Shown, Mounted
  <2> QED BY <2>1, CodesAssumption DEF PageInit, Board!BoardInit, Open, Shown
<1>2. PageInit => Bounded
  BY MaxFetchesAssumption DEF PageInit, Bounded
<1>3. IInv => TypeOK
  BY DEF IInv
<1> QED
  BY <1>1, <1>2, <1>3, BoundedStep, BoardStep, InductiveInvariant, PTL
  DEF PageSpec, ImplementsBoard, Board!BoardSpec
=============================================================================
