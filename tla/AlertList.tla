------------------------------ MODULE AlertList ------------------------------
(***************************************************************************)
(* AlertsPage or PushNotificationsPage, and the MessageDetailPage opened   *)
(* from it (lib/pages/alerts_page.dart, push_notifications_page.dart,      *)
(* detail_pages/message_detail_page.dart).  The list page loads its alerts *)
(* once.  The detail page is given the list by reference and an index into *)
(* it, so whatever the list page does to the list happens to the detail    *)
(* page, too.                                                              *)
(*                                                                         *)
(* Whether the page is mounted matters when the answer comes: AlertsPage   *)
(* calls setState regardless, PushNotificationsPage looks first.           *)
(***************************************************************************)
EXTENDS GraphQLService, RouteLife, Functions

CONSTANTS
  ListPage,    \* "alerts" or "push"
  AlertLists,  \* the lists of alerts the backend may send
  Ids,         \* what the alerts are, apart from their dates
  Now          \* DateTime.now() while the list is built

ASSUME ListPageAssumption == ListPage \in {"alerts", "push"}
ASSUME NowAssumption == Now \in Int
ASSUME AlertListsAssumption ==
  AlertLists \subseteq Seq([id : Ids, date : Int \cup {Null}] \cup {Malformed})

VARIABLES
  above,      \* what is on the stack right above the list page
  detail,     \* the life of the detail page: see RouteLife
  list,       \* _alerts, or alerts: the entries, in the order shown
  isLoading,  \* isLoading
  load,       \* the getAlerts call of initState: "waiting" or "done"
  index,      \* the detail page's currentIndex, from 1
  uncaught,   \* an asynchronous error reached no handler
  received    \* history: what getAlerts returned

pages == <<life, above, detail>>
loaded == <<isLoading, load, uncaught, received>>
vars == <<pages, loaded, list, index>>

Detail == INSTANCE RouteLife WITH life <- detail
DetailOnStack == detail \in {"top", "covered"}

AlertWires ==
  {[fault |-> f, field |-> Null] : f \in Faults \ {"none"}}
  \cup {[fault |-> "none", field |-> x] : x \in {Null, Malformed} \cup AlertLists}

-----------------------------------------------------------------------------
\* Loading.

\* The list getAlerts returned; null and the empty list are the same to both pages.
Got(x) == IF x = Null THEN <<>> ELSE x

\* Can every element be read as a map?
Whole(x) == AllMaps(Got(x))

\* One entry; a missing date, or one _parseDate cannot read, becomes the current time.
Entry(alert) == [id |-> alert.id, date |-> IF alert.date = Null THEN Now ELSE alert.date]

Entries(seq) == [k \in DOMAIN seq |-> Entry(seq[k])]

\* Reading seq element by element gets as far as n.
StopsAt(seq, n) ==
  /\ n \in 0..Len(seq)
  /\ \A k \in 1..n : IsMap(seq[k])
  /\ n < Len(seq) => ~IsMap(seq[n + 1])

Read(x) ==
  \E n \in 0..Len(Got(x)) :
    /\ StopsAt(Got(x), n)
    /\ list' = IF ListPage = "alerts" \/ Whole(x) THEN Entries(SubSeq(Got(x), 1, n)) ELSE list

\* Mutants of Fill: isLoading = false comes first, or only with entries to show.
FillSpinnerFirst(x) == Read(x) /\ isLoading' = FALSE
FillKeepingSpinner(x) == Read(x) /\ isLoading' = (~Whole(x) \/ Got(x) = <<>>)

(***************************************************************************)
(* The callback of setState.  A malformed element throws in the middle:    *)
(* AlertsPage has then added the entries before it to _alerts, while       *)
(* PushNotificationsPage builds a list of its own and assigns nothing;     *)
(* either way isLoading stays true.                                        *)
(***************************************************************************)
Fill(x) == Read(x) /\ isLoading' = ~Whole(x)

\* Mutant of Answered: a missing date throws, instead of standing for now.
AnsweredNeedingDates(w) ==
  LET x == GetAlerts(w).value IN
  /\ load = "waiting" /\ load' = "done"
  /\ received' = x
  /\ Mounted /\ Fill(x)
  /\ uncaught' = \E k \in DOMAIN Got(x) : ~IsMap(Got(x)[k]) \/ Got(x)[k].date = Null
  /\ UNCHANGED <<pages, index>>

\* Mutant of Answered: PushNotificationsPage without "if (!mounted) return".
AnsweredUnguarded(w) ==
  LET x == GetAlerts(w).value IN
  /\ load = "waiting" /\ load' = "done"
  /\ received' = x
  /\ Fill(x) \/ (~Mounted /\ UNCHANGED <<list, isLoading>>)
  /\ uncaught' = (~Mounted \/ ~Whole(x))
  /\ UNCHANGED <<pages, index>>

(***************************************************************************)
(* getAlerts returns.  On a disposed page setState throws before its       *)
(* callback where assertions are on (debug builds), else after it.         *)
(***************************************************************************)
Answered(w) ==
  LET x == GetAlerts(w).value IN
  /\ load = "waiting" /\ load' = "done"
  /\ received' = x
  /\ \/ Mounted /\ Fill(x) /\ uncaught' = ~Whole(x)
     \/ /\ ~Mounted /\ ListPage = "alerts"
        /\ Fill(x) \/ UNCHANGED <<list, isLoading>>
        /\ uncaught' = TRUE
     \/ ~Mounted /\ ListPage = "push" /\ UNCHANGED <<list, isLoading, uncaught>>
  /\ UNCHANGED <<pages, index>>

-----------------------------------------------------------------------------
\* Sorting, on AlertsPage only.

SortedBy(seq, o) ==
  \A i, j \in DOMAIN seq : i < j =>
    IF o = "newest" THEN seq[i].date >= seq[j].date ELSE seq[i].date <= seq[j].date

Rearrangements(seq) ==
  {[k \in DOMAIN seq |-> seq[p[k]]] : p \in Bijection(DOMAIN seq, DOMAIN seq)}

\* _sortAlerts; entries of equal date may end up in any order.  Nothing remembers which
\* order was chosen: the answer brings its own.
SortAlerts(o) == list' \in {s \in Rearrangements(list) : SortedBy(s, o)}

OpenFilter ==
  /\ ListPage = "alerts" /\ Cover
  /\ above' = "filter"
  /\ UNCHANGED <<detail, loaded, list, index>>

\* showMenu returns at once when an order is chosen, or null when it is dismissed.
ChooseOrder(o) ==
  /\ above = "filter" /\ Uncover
  /\ above' = "nothing"
  /\ SortAlerts(o)
  /\ UNCHANGED <<detail, loaded, index>>

DismissFilter ==
  /\ above = "filter" /\ Uncover
  /\ above' = "nothing"
  /\ UNCHANGED <<detail, loaded, list, index>>

\* Mutant of TapBell: the detail page's onAlertsTap does it, too.
TapBellAnywhere ==
  /\ ListPage = "alerts" /\ (life = "top" \/ detail = "top")
  /\ SortAlerts("newest")
  /\ UNCHANGED <<pages, loaded, index>>

\* The alerts button of the bar, on the alerts page itself.
TapBell ==
  /\ ListPage = "alerts" /\ life = "top"
  /\ SortAlerts("newest")
  /\ UNCHANGED <<pages, loaded, index>>

-----------------------------------------------------------------------------
\* The detail page.

\* A tap on an entry.  (One detail page at a time: a bound of the model.)
OpenDetail(i) ==
  /\ ~isLoading /\ i \in DOMAIN list
  /\ Cover /\ Detail!Enter
  /\ above' = "detail"
  /\ index' = i
  /\ UNCHANGED <<loaded, list>>

\* Mutant of GoNext: the last index is taken to be the length.
GoNextTooFar ==
  /\ detail = "top" /\ index <= Len(list)
  /\ index' = index + 1
  /\ UNCHANGED <<pages, loaded, list>>

GoNext ==
  /\ detail = "top" /\ index < Len(list)
  /\ index' = index + 1
  /\ UNCHANGED <<pages, loaded, list>>

GoPrevious ==
  /\ detail = "top" /\ index > 1
  /\ index' = index - 1
  /\ UNCHANGED <<pages, loaded, list>>

\* The full-screen image opens and closes.
FullScreen ==
  /\ DetailOnStack /\ (Detail!Cover \/ Detail!Uncover)
  /\ UNCHANGED <<life, above, loaded, list, index>>

\* onBack, or the system's back button.
BackFromDetail ==
  /\ detail = "top" /\ Detail!Leave
  /\ Uncover /\ above' = "nothing"
  /\ UNCHANGED <<loaded, list, index>>

-----------------------------------------------------------------------------
\* What the rest of the app does to the two pages.

OpenOther ==
  /\ Cover /\ above' = "other"
  /\ UNCHANGED <<detail, loaded, list, index>>

CloseOther ==
  /\ above = "other" /\ Uncover
  /\ above' = "nothing"
  /\ UNCHANGED <<detail, loaded, list, index>>

DetailGoes == IF DetailOnStack THEN Detail!Leave ELSE UNCHANGED detail

\* A late sign-in puts its page in the place of the filter menu or the detail page.
Replaced ==
  /\ above \in {"filter", "detail"} /\ life = "covered" /\ detail # "covered"
  /\ above' = "other"
  /\ DetailGoes
  /\ UNCHANGED <<life, loaded, list, index>>

\* The list page goes, alone or, on sign-out, with what is above it.
LeaveList ==
  /\ Leave /\ DetailGoes
  /\ above' = "nothing"
  /\ UNCHANGED <<loaded, list, index>>

EndOfTransition ==
  /\ \/ Dispose /\ UNCHANGED detail
     \/ Detail!Dispose /\ UNCHANGED life
  /\ UNCHANGED <<above, loaded, list, index>>

-----------------------------------------------------------------------------
ListInit ==
  /\ life = "top" /\ above = "nothing" /\ detail = "gone"
  /\ list = <<>> /\ isLoading = TRUE /\ load = "waiting"
  /\ index = 1 /\ uncaught = FALSE
  /\ received = Null

Load == \E w \in AlertWires : Answered(w)

Reader ==
  \/ OpenFilter \/ DismissFilter \/ TapBell
  \/ \E o \in {"newest", "oldest"} : ChooseOrder(o)
  \/ \E i \in DOMAIN list : OpenDetail(i)
  \/ GoNext \/ GoPrevious \/ FullScreen \/ BackFromDetail

Elsewhere == OpenOther \/ CloseOther \/ Replaced \/ LeaveList \/ EndOfTransition

ListNext == Load \/ Reader \/ Elsewhere

ListSpec == ListInit /\ [][ListNext]_vars

\* getAlerts ends within the 25 seconds of _post (graphql_service.dart:52).
FairListSpec == ListSpec /\ WF_vars(Load)

-----------------------------------------------------------------------------
AlertEntries == [id : Ids, date : Int]

TypeOK ==
  /\ life \in Lives /\ detail \in Lives
  /\ above \in {"nothing", "filter", "detail", "other"}
  /\ list \in Seq(AlertEntries)
  /\ isLoading \in BOOLEAN /\ uncaught \in BOOLEAN
  /\ load \in {"waiting", "done"}
  /\ index \in Int

(***************************************************************************)
(* widget.alerts[currentIndex] (message_detail_page.dart:59) never throws, *)
(* also while the page is leaving: the shared list is never shorter than   *)
(* when the detail page was opened, and next and previous stop at its ends.*)
(***************************************************************************)
IndexInRange == detail # "gone" => index \in DOMAIN list

(***************************************************************************)
(* The alert under the reader's eyes changes only by a step of the reader: *)
(* no sorting and no loading reaches the shared list while the detail page *)
(* is on the stack (alerts_page.dart:185 hands out _alerts itself).        *)
(***************************************************************************)
DetailFollowsReader ==
  [][DetailOnStack /\ DetailOnStack' =>
       /\ list' = list
       /\ index' # index => detail = "top" /\ index' \in {index - 1, index + 1}]_vars

(***************************************************************************)
(* A list on display is all of the answer, rearranged: what a throw in the *)
(* middle of addAll (alerts_page.dart:62) left behind is never shown,      *)
(* neither by sorting it nor by opening one of its entries.                *)
(***************************************************************************)
WholeListOnly ==
  /\ Mounted /\ ~isLoading => Whole(received) /\ list \in Rearrangements(Entries(Got(received)))
  /\ detail # "gone" => Whole(received)

(***************************************************************************)
(* After the answer, the spinner of a mounted page is left on only if an   *)
(* element of it was malformed, and then an error was reported.            *)
(***************************************************************************)
StuckOnlyByMalformed ==
  Mounted /\ isLoading /\ load = "done" => uncaught /\ ~Whole(received)

(***************************************************************************)
(* Errors escape because of a malformed element, or because AlertsPage     *)
(* (not PushNotificationsPage, line 98) was answered after dispose().      *)
(***************************************************************************)
EscapesExplained ==
  uncaught => ~Whole(received) \/ (ListPage = "alerts" /\ ~Mounted)

(***************************************************************************)
(* Loading ends, with a list or with "none found".  A spinner left on for   *)
(* ever is the work of a malformed element, and an error was reported.     *)
(***************************************************************************)
LoadEnds ==
  (Mounted /\ isLoading) ~>
    (~Mounted \/ ~isLoading \/ (uncaught /\ ~Whole(received)))
=============================================================================
