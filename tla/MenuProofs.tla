----------------------------- MODULE MenuProofs -----------------------------
(***************************************************************************)
(* Theorems about Menu, for every set of codes, every list the backend may *)
(* send and every number of loads.                                         *)
(***************************************************************************)
EXTENDS Menu, TLAPS

-----------------------------------------------------------------------------
(***************************************************************************)
(* getProducts never raises and lists only codes (graphql_service.dart:    *)
(* 201-211).                                                               *)
(***************************************************************************)
LEMMA ListIsCodes ==
  ASSUME NEW w \in MenuWires
  PROVE  ~GetProducts(w).raised /\ GetProducts(w).value \subseteq Codes
<1> DEFINE Empty == PostThrows(w) \/ w.field = Null \/ w.field = Malformed \/ ~AllMaps(w.field)
<1>1. CASE Empty
  BY <1>1 DEF GetProducts, Completed
<1>2. CASE ~Empty
  <2>1. w.field \in Seq(Codes \cup {Null, Malformed})
    BY <1>2, MenuListsAssumption DEF MenuWires, PostThrows
  <2>2. \A k \in DOMAIN w.field : w.field[k] \in Codes \cup {Null}
    BY <1>2, <2>1 DEF AllMaps, IsMap
  <2>3. GetProducts(w) = Completed({w.field[k] : k \in DOMAIN w.field} \ {Null})
    BY <1>2 DEF GetProducts
  <2> QED BY <2>2, <2>3 DEF Completed
<1> QED BY <1>1, <1>2

-----------------------------------------------------------------------------
(* The invariant. *)

\* Only the load started last is under way, and nothing newer was answered.
LastIsPending == \A i \in DOMAIN loads : Pending(i) => i = Len(loads) /\ newest.load < i

\* A load that was answered has been started.
AnsweredWasStarted == newest.load <= Len(loads)

\* What can be pulled has no spinner.
PulledHasNoSpinner == pulled /\ Mounted => ~isLoading

MenuInv ==
  /\ TypeOK
  /\ LastIsPending
  /\ AnsweredWasStarted
  /\ PulledHasNoSpinner
  /\ NewestListShown
  /\ SpinnerIsLoad
  /\ FailuresLookEmpty

LEMMA MenuInitEstablishes == MenuInit => MenuInv
<1> SUFFICES ASSUME MenuInit PROVE MenuInv
  OBVIOUS
<1> USE DEF MenuInit
<1>1. TypeOK
  <2>1. <<"waiting">> \in Seq({"waiting", "done"}) /\ {} \subseteq Codes
    OBVIOUS
  <2>2. newest \in [load : Nat, codes : SUBSET Codes]
    OBVIOUS
  <2>3. isLoading \in BOOLEAN /\ snackBar \in BOOLEAN /\ pulled \in BOOLEAN
    BY Zenon
  <2> QED BY <2>1, <2>2, <2>3, Zenon DEF TypeOK, Lives
<1>2. LastIsPending /\ AnsweredWasStarted
  BY DEF LastIsPending, AnsweredWasStarted, Pending
<1>3. PulledHasNoSpinner /\ NewestListShown /\ FailuresLookEmpty
  BY DEF PulledHasNoSpinner, NewestListShown, FailuresLookEmpty
<1>4. SpinnerIsLoad
  BY DEF SpinnerIsLoad, Pending
<1> QED BY <1>1, <1>2, <1>3, <1>4 DEF MenuInv

(***************************************************************************)
(* Steps of the page's life and of the user that leave its fields alone.   *)
(***************************************************************************)
LEMMA QuietStep ==
  ASSUME MenuInv, UNCHANGED <<shown, loads, newest>>,
         life' \in Lives, Mounted' => Mounted,
         pulled' \in BOOLEAN, pulled' /\ Mounted' => ~isLoading
  PROVE  MenuInv'
<1> USE DEF MenuInv, shown
<1>1. TypeOK'
  BY Zenon DEF TypeOK
<1>2. LastIsPending' /\ AnsweredWasStarted' /\ PulledHasNoSpinner'
  BY DEF LastIsPending, AnsweredWasStarted, PulledHasNoSpinner, Pending
<1>3. NewestListShown' /\ SpinnerIsLoad' /\ FailuresLookEmpty'
  BY DEF NewestListShown, SpinnerIsLoad, FailuresLookEmpty, Pending
<1> QED BY <1>1, <1>2, <1>3

(***************************************************************************)
(* An answer ends the one load under way and, with it, the spinner.        *)
(***************************************************************************)
LEMMA LoadAnsweredStep ==
  ASSUME MenuInv, NEW i \in DOMAIN loads, NEW w \in MenuWires, LoadAnswered(i, w)
  PROVE  MenuInv'
<1> DEFINE codes == GetProducts(w).value
<1> USE DEF MenuInv
<1>1. ~GetProducts(w).raised /\ codes \subseteq Codes
  BY ListIsCodes
<1>2. /\ Pending(i) /\ i = Len(loads) /\ newest.load < i
      /\ \A j \in DOMAIN loads : Pending(j) => j = i
  BY DEF LoadAnswered, LastIsPending
<1>3. /\ loads \in Seq({"waiting", "done"}) /\ newest \in [load : Nat, codes : SUBSET Codes]
      /\ loads' = [loads EXCEPT ![i] = "done"]
      /\ UNCHANGED <<life, pulled>>
  BY DEF TypeOK, LoadAnswered
<1>4. loads' \in Seq({"waiting", "done"}) /\ Len(loads') = Len(loads)
      /\ \A j \in DOMAIN loads' : ~(loads'[j] = "waiting")
  BY <1>2, <1>3 DEF Pending
<1>5. Newer(i, codes) = [load |-> i, codes |-> codes]
  BY <1>2, <1>3 DEF Newer
<1>6. /\ IF Mounted THEN licensedProductCodes' = codes /\ newest' = [load |-> i, codes |-> codes]
                    ELSE UNCHANGED <<licensedProductCodes, newest>>
      /\ snackBar' = snackBar
      /\ isLoading' = (isLoading /\ ~Mounted)
  <2>1. snackBar \in BOOLEAN
    BY DEF TypeOK
  <2>2. snackBar' = snackBar
    BY <1>1, <2>1 DEF LoadAnswered
  <2> HIDE DEF MenuInv
  <2> QED BY <1>1, <1>5, <2>2 DEF LoadAnswered
<1>7. Mounted' = Mounted
  BY <1>3 DEF Mounted
<1>8. newest' \in [load : Nat, codes : SUBSET Codes] /\ newest'.load <= Len(loads')
  BY <1>1, <1>2, <1>3, <1>4, <1>6 DEF AnsweredWasStarted
<1>9. TypeOK'
  <2>1. isLoading' \in BOOLEAN /\ licensedProductCodes' \subseteq Codes
    BY <1>1, <1>6 DEF TypeOK
  <2>2. UNCHANGED <<life, pulled, snackBar>>
    BY <1>3, <1>6
  <2> QED BY <1>4, <1>8, <2>1, <2>2, Zenon DEF TypeOK
<1>10. LastIsPending' /\ AnsweredWasStarted'
  BY <1>4, <1>8 DEF LastIsPending, AnsweredWasStarted, Pending
<1>11. PulledHasNoSpinner'
  BY <1>3, <1>6, <1>7 DEF PulledHasNoSpinner
<1>12. NewestListShown'
  BY <1>6, <1>7 DEF NewestListShown
<1>13. SpinnerIsLoad'
  BY <1>4, <1>6, <1>7 DEF SpinnerIsLoad, Pending
<1>14. FailuresLookEmpty'
  BY <1>3, <1>6 DEF FailuresLookEmpty
<1> QED BY <1>9, <1>10, <1>11, <1>12, <1>13, <1>14

(***************************************************************************)
(* A load starts only when none is under way.                              *)
(***************************************************************************)
LEMMA RefreshStep ==
  ASSUME MenuInv, Refresh
  PROVE  MenuInv'
<1> USE DEF MenuInv
<1>1. \A j \in DOMAIN loads : ~(loads[j] = "waiting")
  BY DEF Refresh, PulledHasNoSpinner, SpinnerIsLoad, Pending
<1>2. /\ loads \in Seq({"waiting", "done"}) /\ newest \in [load : Nat, codes : SUBSET Codes]
      /\ loads' = Append(loads, "waiting") /\ isLoading' = TRUE /\ pulled' = FALSE
      /\ Mounted /\ UNCHANGED <<life, licensedProductCodes, snackBar, newest>>
  BY DEF TypeOK, Refresh
<1>3. /\ loads' \in Seq({"waiting", "done"}) /\ Len(loads') = Len(loads) + 1
      /\ \A j \in DOMAIN loads' : loads'[j] = "waiting" => j = Len(loads')
      /\ loads'[Len(loads')] = "waiting" /\ Len(loads') \in DOMAIN loads'
  BY <1>1, <1>2
<1>4. newest'.load < Len(loads')
  BY <1>2, <1>3 DEF AnsweredWasStarted
<1>5. TypeOK'
  BY <1>2, <1>3, Zenon DEF TypeOK
<1>6. LastIsPending' /\ AnsweredWasStarted'
  BY <1>2, <1>3, <1>4 DEF LastIsPending, AnsweredWasStarted, Pending
<1>7. PulledHasNoSpinner' /\ NewestListShown' /\ FailuresLookEmpty'
  BY <1>2 DEF PulledHasNoSpinner, NewestListShown, FailuresLookEmpty, Mounted
<1>8. SpinnerIsLoad'
  BY <1>2, <1>3 DEF SpinnerIsLoad, Pending
<1> QED BY <1>5, <1>6, <1>7, <1>8

LEMMA MenuNextPreserves == MenuInv /\ [MenuNext]_vars => MenuInv'
<1> SUFFICES ASSUME MenuInv, [MenuNext]_vars PROVE MenuInv'
  OBVIOUS
<1> DEFINE Quiet == UNCHANGED <<shown, loads, newest>>
<1>1. ASSUME NEW i \in DOMAIN loads, LoadEnds(i) PROVE MenuInv'
  BY <1>1, LoadAnsweredStep DEF LoadEnds
<1>2. CASE PullToRefresh
  <2>1. Quiet /\ life' = life /\ pulled' = TRUE /\ ~isLoading /\ life \in Lives
    BY <1>2 DEF PullToRefresh, MenuInv, TypeOK
  <2> QED BY <2>1, QuietStep DEF Mounted
<1>3. CASE Refresh
  BY <1>3, RefreshStep
<1>4. CASE (\E code \in KnownCodes : OpenProduct(code)) \/ OpenOther \/ Return
  <2>1. Quiet /\ pulled' = pulled /\ life' \in Lives /\ (Mounted' => Mounted)
    BY <1>4 DEF OpenProduct, OpenOther, Return, Cover, Uncover, Leave, Dispose, Lives, Mounted
  <2>2. pulled \in BOOLEAN /\ (pulled /\ Mounted => ~isLoading)
    BY DEF MenuInv, TypeOK, PulledHasNoSpinner
  <2> QED BY <2>1, <2>2, QuietStep
<1>5. CASE UNCHANGED vars
  <2>1. Quiet /\ pulled' = pulled /\ life' = life /\ life \in Lives
    BY <1>5 DEF vars, MenuInv, TypeOK
  <2>2. pulled \in BOOLEAN /\ (pulled /\ Mounted => ~isLoading)
    BY DEF MenuInv, TypeOK, PulledHasNoSpinner
  <2> QED BY <2>1, <2>2, QuietStep DEF Mounted
<1> QED BY <1>1, <1>2, <1>3, <1>4, <1>5 DEF MenuNext

-----------------------------------------------------------------------------
(***************************************************************************)
(* Every state the page can be in satisfies the inductive invariant.       *)
(***************************************************************************)
THEOREM MenuInductiveInvariant == MenuSpec => []MenuInv
BY MenuInitEstablishes, MenuNextPreserves, PTL DEF MenuSpec

(***************************************************************************)
(* The menu's fields keep their types: only codes the backend sent get     *)
(* into licensedProductCodes, nulls and malformed elements never.          *)
(***************************************************************************)
THEOREM MenuTypeCorrect == MenuSpec => []TypeOK
<1>1. MenuInv => TypeOK
  BY DEF MenuInv
<1> QED BY <1>1, MenuInductiveInvariant, PTL

(***************************************************************************)
(* One load at a time, however often the list is pulled.                   *)
(***************************************************************************)
THEOREM OneLoadSafe == MenuSpec => []OneLoadAtATime
<1>1. MenuInv => OneLoadAtATime
  BY DEF MenuInv, LastIsPending, PulledHasNoSpinner, SpinnerIsLoad, OneLoadAtATime, Pending
<1> QED BY <1>1, MenuInductiveInvariant, PTL

(***************************************************************************)
(* The list of an older load never takes the place of a newer one's.       *)
(***************************************************************************)
THEOREM NewestListSafe == MenuSpec => []NewestListShown
<1>1. MenuInv => NewestListShown
  BY DEF MenuInv
<1> QED BY <1>1, MenuInductiveInvariant, PTL

(***************************************************************************)
(* The spinner is on exactly while a load is under way.                    *)
(***************************************************************************)
THEOREM SpinnerSafe == MenuSpec => []SpinnerIsLoad
<1>1. MenuInv => SpinnerIsLoad
  BY DEF MenuInv
<1> QED BY <1>1, MenuInductiveInvariant, PTL

(***************************************************************************)
(* "Failed to load products" is never shown.                               *)
(***************************************************************************)
THEOREM FailuresLookEmptySafe == MenuSpec => []FailuresLookEmpty
<1>1. MenuInv => FailuresLookEmpty
  BY DEF MenuInv
<1> QED BY <1>1, MenuInductiveInvariant, PTL

(***************************************************************************)
(* A late answer changes nothing that a disposed page showed.              *)
(***************************************************************************)
THEOREM MenuDisposeSafe == MenuSpec => NothingAfterDispose
<1>1. MenuInv /\ [MenuNext]_vars => [~Mounted => UNCHANGED shown]_vars
  <2> SUFFICES ASSUME MenuInv, MenuNext, ~Mounted PROVE UNCHANGED shown
    BY DEF vars
  <2>1. ASSUME NEW i \in DOMAIN loads, NEW w \in MenuWires, LoadAnswered(i, w)
        PROVE  UNCHANGED shown
    <3>1. isLoading \in BOOLEAN /\ snackBar \in BOOLEAN
      BY DEF MenuInv, TypeOK
    <3>2. snackBar' = snackBar /\ isLoading' = isLoading
      BY <2>1, <3>1 DEF LoadAnswered
    <3>3. UNCHANGED licensedProductCodes
      BY <2>1 DEF LoadAnswered
    <3> QED BY <3>2, <3>3 DEF shown
  <2>2. CASE Refresh
    BY <2>2 DEF Refresh
  <2>3. CASE PullToRefresh \/ (\E code \in KnownCodes : OpenProduct(code)) \/ OpenOther \/ Return
    BY <2>3 DEF PullToRefresh, OpenProduct, OpenOther, Return
  <2> QED BY <2>1, <2>2, <2>3 DEF MenuNext, LoadEnds
<1> QED BY <1>1, MenuInductiveInvariant, PTL DEF MenuSpec, NothingAfterDispose
=============================================================================
