--------------------------- MODULE AlertListProofs ---------------------------
(***************************************************************************)
(* Theorems about AlertList, for every list the backend may send.          *)
(***************************************************************************)
EXTENDS AlertList, TLAPS

-----------------------------------------------------------------------------
(* What getAlerts returns and what the page makes of it. *)

Raw == [id : Ids, date : Int \cup {Null}] \cup {Malformed}

(***************************************************************************)
(* Whatever comes over the wire, the page gets a list, or null.            *)
(***************************************************************************)
LEMMA GotIsList ==
  ASSUME NEW w \in AlertWires
  PROVE  Got(GetAlerts(w).value) \in Seq(Raw)
<1>1. <<>> \in Seq(Raw)
  OBVIOUS
<1>2. CASE GetAlerts(w).value = Null
  BY <1>1, <1>2 DEF Got
<1>3. CASE GetAlerts(w).value # Null
  <2>1. GetAlerts(w).value \in AlertLists
    BY <1>3 DEF GetAlerts, Completed, AlertWires, PostThrows
  <2> QED BY <1>3, <2>1, AlertListsAssumption DEF Got, Raw
<1> QED BY <1>2, <1>3

(***************************************************************************)
(* The part that could be read becomes a list of entries.                  *)
(***************************************************************************)
LEMMA EntriesTyped ==
  ASSUME NEW seq \in Seq(Raw), NEW n \in 0..Len(seq), StopsAt(seq, n)
  PROVE  Entries(SubSeq(seq, 1, n)) \in Seq(AlertEntries)
<1> DEFINE sub == SubSeq(seq, 1, n)
<1>1. sub \in Seq(Raw) /\ Len(sub) = n /\ \A k \in 1..n : sub[k] = seq[k]
  OBVIOUS
<1>2. \A k \in 1..n : sub[k] \in [id : Ids, date : Int \cup {Null}]
  BY <1>1 DEF StopsAt, IsMap, Raw
<1>3. \A k \in 1..n : Entry(sub[k]) \in AlertEntries
  BY <1>2, NowAssumption DEF Entry, AlertEntries
<1> HIDE DEF sub
<1>4. [k \in DOMAIN sub |-> Entry(sub[k])] \in Seq(AlertEntries)
  BY <1>1, <1>3
<1> QED BY <1>4 DEF Entries, sub

\* A whole list is read to its end.
LEMMA WholeIsRead ==
  ASSUME NEW seq \in Seq(Raw), AllMaps(seq), NEW n \in 0..Len(seq), StopsAt(seq, n)
  PROVE  SubSeq(seq, 1, n) = seq
<1>1. n = Len(seq)
  BY DEF StopsAt, AllMaps
<1> QED BY <1>1

-----------------------------------------------------------------------------
(* Rearranging. *)

LEMMA RearrangedList ==
  ASSUME NEW S, NEW seq \in Seq(S), NEW s \in Rearrangements(seq)
  PROVE  s \in Seq(S) /\ DOMAIN s = DOMAIN seq
<1>1. PICK p \in Bijection(DOMAIN seq, DOMAIN seq) : s = [k \in DOMAIN seq |-> seq[p[k]]]
  BY DEF Rearrangements
<1>2. p \in [DOMAIN seq -> DOMAIN seq]
  BY <1>1 DEF Bijection, Injection
<1>3. \A k \in DOMAIN seq : s[k] \in S
  BY <1>1, <1>2
<1>4. DOMAIN s = 1..Len(seq) /\ Len(seq) \in Nat
  BY <1>1
<1> QED BY <1>1, <1>3, <1>4

LEMMA RearrangedItself ==
  ASSUME NEW S, NEW seq \in Seq(S)
  PROVE  seq \in Rearrangements(seq)
<1> DEFINE p == [k \in DOMAIN seq |-> k]
<1>1. p \in Bijection(DOMAIN seq, DOMAIN seq)
  BY DEF Bijection, Injection, Surjection, IsInjective
<1>2. seq = [k \in DOMAIN seq |-> seq[p[k]]]
  OBVIOUS
<1> QED BY <1>1, <1>2 DEF Rearrangements

\* Sorting a list that was sorted before rearranges the one that was loaded.
LEMMA RearrangedTwice ==
  ASSUME NEW seq, NEW s \in Rearrangements(seq), NEW t \in Rearrangements(s)
  PROVE  t \in Rearrangements(seq)
<1> DEFINE D == DOMAIN seq
<1>1. PICK p \in Bijection(D, D) : s = [k \in D |-> seq[p[k]]]
  BY DEF Rearrangements
<1>2. DOMAIN s = D
  BY <1>1
<1>3. PICK q \in Bijection(D, D) : t = [k \in D |-> s[q[k]]]
  BY <1>2 DEF Rearrangements
<1>4. /\ p \in [D -> D] /\ \A a, b \in D : p[a] = p[b] => a = b
      /\ \A c \in D : \E a \in D : p[a] = c
      /\ q \in [D -> D] /\ \A a, b \in D : q[a] = q[b] => a = b
      /\ \A c \in D : \E a \in D : q[a] = c
  BY <1>1, <1>3 DEF Bijection, Injection, Surjection, IsInjective
<1> DEFINE r == [k \in D |-> p[q[k]]]
<1> HIDE DEF D
<1>5. r \in [D -> D] /\ \A a, b \in D : r[a] = r[b] => a = b
  BY <1>4
<1>6. \A c \in D : \E a \in D : r[a] = c
  BY <1>4
<1>7. r \in Bijection(D, D)
  BY <1>5, <1>6 DEF Bijection, Injection, Surjection, IsInjective
<1>8. t = [k \in D |-> seq[r[k]]]
  BY <1>1, <1>3, <1>4
<1> QED BY <1>7, <1>8 DEF Rearrangements, D

-----------------------------------------------------------------------------
(* The invariant. *)

\* Nothing has come of the one load yet, and nothing was opened from the list.
NothingYet == load = "waiting" => isLoading /\ detail = "gone" /\ ~uncaught

\* A detail page on the stack lies right on the list page.
DetailAbove == DetailOnStack => life = "covered" /\ above = "detail"

ListInv ==
  /\ TypeOK
  /\ Got(received) \in Seq(Raw)
  /\ NothingYet
  /\ DetailAbove
  /\ IndexInRange
  /\ WholeListOnly
  /\ StuckOnlyByMalformed
  /\ EscapesExplained

LEMMA ListInitEstablishes == ListInit => ListInv
<1> SUFFICES ASSUME ListInit PROVE ListInv
  OBVIOUS
<1> USE DEF ListInit
<1>1. TypeOK
  <2>1. <<>> \in Seq(AlertEntries)
    OBVIOUS
  <2>2. index \in Int
    OBVIOUS
  <2>3. isLoading \in BOOLEAN /\ uncaught \in BOOLEAN
    BY Zenon
  <2> QED BY <2>1, <2>2, <2>3, Zenon DEF TypeOK, Lives
<1>2. Got(received) \in Seq(Raw)
  BY DEF Got
<1>3. NothingYet /\ DetailAbove /\ IndexInRange
  BY DEF NothingYet, DetailAbove, IndexInRange, DetailOnStack
<1>4. WholeListOnly /\ StuckOnlyByMalformed /\ EscapesExplained
  BY DEF WholeListOnly, StuckOnlyByMalformed, EscapesExplained
<1> QED BY <1>1, <1>2, <1>3, <1>4 DEF ListInv

(***************************************************************************)
(* Steps of the pages that leave the list and its loading alone.           *)
(***************************************************************************)
LEMMA PagesStep ==
  ASSUME ListInv, UNCHANGED <<loaded, list>>,
         life' \in Lives, detail' \in Lives, index' \in Int,
         above' \in {"nothing", "filter", "detail", "other"},
         Mounted' => Mounted,
         DetailAbove',
         detail' # "gone" => load = "done" /\ Whole(received) /\ index' \in DOMAIN list
  PROVE  ListInv'
<1> USE DEF loaded
<1>1. TypeOK'
  BY DEF ListInv, TypeOK
<1>2. (Got(received) \in Seq(Raw))' /\ NothingYet'
  BY DEF ListInv, NothingYet, Got
<1>3. IndexInRange'
  BY DEF IndexInRange
<1>4. WholeListOnly'
  BY DEF ListInv, WholeListOnly
<1>5. StuckOnlyByMalformed' /\ EscapesExplained'
  BY DEF ListInv, StuckOnlyByMalformed, EscapesExplained
<1> QED BY <1>1, <1>2, <1>3, <1>4, <1>5 DEF ListInv

(***************************************************************************)
(* Sorting, when no detail page is on the stack: the list keeps its length *)
(* and remains a rearrangement of the answer.                              *)
(***************************************************************************)
LEMMA SortStep ==
  ASSUME ListInv, NEW o \in {"newest", "oldest"}, SortAlerts(o),
         UNCHANGED <<loaded, detail, index>>, ~DetailOnStack,
         life' \in Lives, Mounted' = Mounted,
         above' \in {"nothing", "filter", "detail", "other"}
  PROVE  ListInv'
<1> USE DEF loaded
<1>1. list \in Seq(AlertEntries) /\ list' \in Rearrangements(list)
  BY DEF ListInv, TypeOK, SortAlerts
<1>2. list' \in Seq(AlertEntries) /\ DOMAIN list' = DOMAIN list
  BY <1>1, RearrangedList
<1>3. TypeOK'
  BY <1>1, <1>2 DEF ListInv, TypeOK
<1>4. (Got(received) \in Seq(Raw))' /\ NothingYet' /\ DetailAbove'
  BY DEF ListInv, NothingYet, DetailAbove, DetailOnStack, Got
<1>5. IndexInRange'
  BY <1>2 DEF ListInv, IndexInRange
<1>6. WholeListOnly'
  <2>1. list \in Rearrangements(Entries(Got(received)))
        => list' \in Rearrangements(Entries(Got(received)))
    BY <1>1, RearrangedTwice
  <2> QED BY <2>1 DEF ListInv, WholeListOnly
<1>7. StuckOnlyByMalformed' /\ EscapesExplained'
  BY DEF ListInv, StuckOnlyByMalformed, EscapesExplained
<1> QED BY <1>3, <1>4, <1>5, <1>6, <1>7 DEF ListInv

(***************************************************************************)
(* The answer.                                                             *)
(***************************************************************************)
LEMMA AnsweredStep ==
  ASSUME ListInv, NEW w \in AlertWires, Answered(w)
  PROVE  ListInv'
<1> DEFINE x == GetAlerts(w).value
           seq == Got(x)
<1>1. seq \in Seq(Raw)
  BY GotIsList
<1>2. /\ load = "waiting" /\ load' = "done" /\ received' = x
      /\ isLoading /\ detail = "gone" /\ ~uncaught
      /\ UNCHANGED <<life, above, detail, index>>
      /\ (Mounted' <=> Mounted)
  BY DEF Answered, ListInv, NothingYet, pages, Mounted
<1>3. Fill(x) => /\ list' \in Seq(AlertEntries) /\ isLoading' = ~Whole(x)
                 /\ Whole(x) => list' = Entries(seq)
  <2> SUFFICES ASSUME Fill(x)
               PROVE  /\ list' \in Seq(AlertEntries) /\ isLoading' = ~Whole(x)
                      /\ Whole(x) => list' = Entries(seq)
    OBVIOUS
  <2>1. PICK n \in 0..Len(seq) :
          /\ StopsAt(seq, n)
          /\ list' = IF ListPage = "alerts" \/ Whole(x) THEN Entries(SubSeq(seq, 1, n)) ELSE list
    BY DEF Fill, Read
  <2>2. Entries(SubSeq(seq, 1, n)) \in Seq(AlertEntries)
    BY <1>1, <2>1, EntriesTyped
  <2>3. Whole(x) => SubSeq(seq, 1, n) = seq
    BY <1>1, <2>1, WholeIsRead DEF Whole
  <2>4. list \in Seq(AlertEntries)
    BY DEF ListInv, TypeOK
  <2> QED BY <2>1, <2>2, <2>3, <2>4 DEF Fill
<1>4. Fill(x) \/ (~Mounted /\ UNCHANGED <<list, isLoading>>)
  BY DEF Answered
<1>5. /\ uncaught' \in BOOLEAN
      /\ Mounted => (uncaught' <=> ~Whole(x))
      /\ ~Mounted => (uncaught' <=> ListPage = "alerts")
  <2>1. CASE Mounted
    <3>1. uncaught' = ~Whole(x)
      BY <2>1 DEF Answered
    <3>2. Whole(x) \in BOOLEAN
      BY Zenon DEF Whole, AllMaps
    <3> HIDE DEF x, seq
    <3> QED BY <2>1, <3>1, <3>2
  <2>2. CASE ~Mounted /\ ListPage = "alerts"
    <3>1. uncaught' = TRUE
      BY <2>2 DEF Answered
    <3> QED BY <2>2, <3>1
  <2>3. CASE ~Mounted /\ ListPage = "push"
    <3>1. uncaught' = uncaught
      BY <2>3 DEF Answered
    <3>2. uncaught \in BOOLEAN
      BY DEF ListInv, TypeOK
    <3> QED BY <1>2, <2>3, <3>1, <3>2
  <2> QED BY <2>1, <2>2, <2>3, ListPageAssumption
<1> HIDE DEF x, seq
<1>6. TypeOK'
  BY <1>2, <1>3, <1>4, <1>5 DEF ListInv, TypeOK, Whole
<1>7. (Got(received) \in Seq(Raw))' /\ NothingYet'
  BY <1>1, <1>2 DEF NothingYet, seq, Got
<1>8. DetailAbove' /\ IndexInRange'
  BY <1>2 DEF DetailAbove, IndexInRange, DetailOnStack
<1>9. WholeListOnly'
  <2>1. Whole(x) /\ list' = Entries(seq) => list' \in Rearrangements(Entries(seq))
    <3> SUFFICES ASSUME Whole(x), list' = Entries(seq)
                 PROVE  list' \in Rearrangements(Entries(seq))
      OBVIOUS
    <3>1. /\ Len(seq) \in 0..Len(seq) /\ StopsAt(seq, Len(seq))
          /\ SubSeq(seq, 1, Len(seq)) = seq
      BY <1>1 DEF StopsAt, Whole, AllMaps, seq
    <3>2. Entries(seq) \in Seq(AlertEntries)
      BY <1>1, <3>1, EntriesTyped
    <3> QED BY <3>2, RearrangedItself
  <2>2. Mounted /\ ~isLoading' => Whole(x) /\ list' = Entries(seq)
    BY <1>3, <1>4
  <2>3. Whole(received)' <=> Whole(x)
    BY <1>2 DEF Whole, Got
  <2>4. Got(received') = seq
    BY <1>2 DEF seq
  <2> QED BY <1>2, <2>1, <2>2, <2>3, <2>4 DEF WholeListOnly
<1>10. StuckOnlyByMalformed' /\ EscapesExplained'
  <2>1. Whole(received') <=> Whole(x)
    BY <1>2
  <2> QED BY <1>2, <1>3, <1>4, <1>5, <2>1 DEF StuckOnlyByMalformed, EscapesExplained
<1> QED BY <1>6, <1>7, <1>8, <1>9, <1>10 DEF ListInv

-----------------------------------------------------------------------------
LEMMA ListNextPreserves == ListInv /\ [ListNext]_vars => ListInv'
<1> SUFFICES ASSUME ListInv, [ListNext]_vars PROVE ListInv'
  OBVIOUS
<1> USE DEF pages, loaded
<1>0. /\ life \in Lives /\ detail \in Lives /\ index \in Int
      /\ above \in {"nothing", "filter", "detail", "other"}
      /\ DetailAbove
      /\ detail # "gone" => load = "done" /\ Whole(received) /\ index \in DOMAIN list
      /\ load = "waiting" => isLoading
      /\ load \in {"waiting", "done"}
      /\ Mounted /\ ~isLoading => Whole(received)
  BY DEF ListInv, TypeOK, NothingYet, IndexInRange, WholeListOnly
<1>1. CASE Load
  BY <1>1, AnsweredStep DEF Load
<1>2. CASE OpenFilter \/ OpenOther
  BY <1>0, <1>2, PagesStep
  DEF OpenFilter, OpenOther, Cover, Lives, Mounted, DetailAbove, DetailOnStack
<1>3. CASE DismissFilter \/ CloseOther
  BY <1>0, <1>3, PagesStep
  DEF DismissFilter, CloseOther, Uncover, Lives, Mounted, DetailAbove, DetailOnStack
<1>4. CASE TapBell
  BY <1>0, <1>4, SortStep DEF TapBell, Mounted, DetailAbove
<1>5. ASSUME NEW o \in {"newest", "oldest"}, ChooseOrder(o) PROVE ListInv'
  BY <1>0, <1>5, SortStep DEF ChooseOrder, Uncover, Lives, Mounted, DetailAbove
<1>6. ASSUME NEW i \in DOMAIN list, OpenDetail(i) PROVE ListInv'
  <2>1. i \in Int
    BY DEF ListInv, TypeOK
  <2> QED BY <1>0, <1>6, <2>1, PagesStep
          DEF OpenDetail, Cover, Detail!Enter, Lives, Mounted, DetailAbove, DetailOnStack
<1>7. CASE GoNext \/ GoPrevious
  <2>1. list \in Seq(AlertEntries) /\ index \in DOMAIN list
    BY <1>0, <1>7 DEF GoNext, GoPrevious, ListInv, TypeOK
  <2>2. index' \in DOMAIN list /\ index' \in Int
    BY <1>7, <2>1 DEF GoNext, GoPrevious
  <2> QED BY <1>0, <1>7, <2>2, PagesStep
          DEF GoNext, GoPrevious, Mounted, DetailAbove, DetailOnStack
<1>8. CASE FullScreen
  BY <1>0, <1>8, PagesStep
  DEF FullScreen, Detail!Cover, Detail!Uncover, Lives, Mounted, DetailAbove, DetailOnStack
<1>9. CASE BackFromDetail
  BY <1>0, <1>9, PagesStep
  DEF BackFromDetail, Detail!Leave, Uncover, Lives, Mounted, DetailAbove, DetailOnStack
<1>10. CASE Replaced
  BY <1>0, <1>10, PagesStep
  DEF Replaced, DetailGoes, Detail!Leave, Lives, Mounted, DetailAbove, DetailOnStack
<1>11. CASE LeaveList
  BY <1>0, <1>11, PagesStep
  DEF LeaveList, Leave, DetailGoes, Detail!Leave, Lives, Mounted, DetailAbove, DetailOnStack
<1>12. CASE EndOfTransition
  BY <1>0, <1>12, PagesStep
  DEF EndOfTransition, Dispose, Detail!Dispose, Lives, Mounted, DetailAbove, DetailOnStack
<1>13. CASE UNCHANGED vars
  BY <1>0, <1>13, PagesStep DEF vars, Mounted, DetailAbove, DetailOnStack
<1> QED
  BY <1>1, <1>2, <1>3, <1>4, <1>5, <1>6, <1>7, <1>8, <1>9, <1>10, <1>11, <1>12, <1>13
  DEF ListNext, Reader, Elsewhere

(***************************************************************************)
(* The invariant the theorems below are read off.                          *)
(***************************************************************************)
THEOREM ListInvariant == ListSpec => []ListInv
BY ListInitEstablishes, ListNextPreserves, PTL DEF ListSpec

(***************************************************************************)
(* The list consists of entries with a date, whatever came over the wire.  *)
(***************************************************************************)
THEOREM ListTypeCorrect == ListSpec => []TypeOK
<1>1. ListInv => TypeOK
  BY DEF ListInv
<1> QED BY <1>1, ListInvariant, PTL

(***************************************************************************)
(* The detail page never indexes past the list it shares.                  *)
(***************************************************************************)
THEOREM IndexSafe == ListSpec => []IndexInRange
<1>1. ListInv => IndexInRange
  BY DEF ListInv
<1> QED BY <1>1, ListInvariant, PTL

(***************************************************************************)
(* Lists on display are complete: sorting loses and doubles nothing, and a *)
(* half-read answer is never shown.                                        *)
(***************************************************************************)
THEOREM WholeListSafe == ListSpec => []WholeListOnly
<1>1. ListInv => WholeListOnly
  BY DEF ListInv
<1> QED BY <1>1, ListInvariant, PTL

(***************************************************************************)
(* Only a malformed element leaves the spinner on once the answer is read. *)
(***************************************************************************)
THEOREM StuckSafe == ListSpec => []StuckOnlyByMalformed
<1>1. ListInv => StuckOnlyByMalformed
  BY DEF ListInv
<1> QED BY <1>1, ListInvariant, PTL

(***************************************************************************)
(* An error escapes for two reasons only: a malformed element, or an       *)
(* answer to an AlertsPage that is gone.                                   *)
(***************************************************************************)
THEOREM EscapesSafe == ListSpec => []EscapesExplained
<1>1. ListInv => EscapesExplained
  BY DEF ListInv
<1> QED BY <1>1, ListInvariant, PTL

(***************************************************************************)
(* Nothing but the reader changes the alert the reader sees.               *)
(***************************************************************************)
THEOREM ReaderSafe == ListSpec => DetailFollowsReader
<1>1. ListInv /\ [ListNext]_vars =>
        [DetailOnStack /\ DetailOnStack' =>
           /\ list' = list
           /\ index' # index => detail = "top" /\ index' \in {index - 1, index + 1}]_vars
  <2> SUFFICES ASSUME ListInv, ListNext, DetailOnStack, DetailOnStack'
               PROVE  /\ list' = list
                      /\ index' # index => detail = "top" /\ index' \in {index - 1, index + 1}
    OBVIOUS
  <2> USE DEF pages, loaded
  <2>1. load # "waiting" /\ life = "covered" /\ above = "detail"
    BY DEF ListInv, NothingYet, DetailAbove, DetailOnStack
  <2>2. ~Load
    BY <2>1 DEF Load, Answered
  <2>3. CASE Reader
    BY <2>1, <2>3 DEF Reader, OpenFilter, DismissFilter, TapBell, ChooseOrder, OpenDetail,
                      GoNext, GoPrevious, FullScreen, BackFromDetail, Cover
  <2>4. CASE Elsewhere
    BY <2>4 DEF Elsewhere, OpenOther, CloseOther, Replaced, LeaveList, EndOfTransition
  <2> QED BY <2>2, <2>3, <2>4 DEF ListNext
<1> QED BY <1>1, ListInvariant, PTL DEF ListSpec, DetailFollowsReader
=============================================================================
