---------------------------- MODULE AlertFields ----------------------------
(***************************************************************************)
(* The date and the image address of one alert on their way from the       *)
(* backend's answer to the detail page.  Both list pages make a date of    *)
(* created_at, each with a function of its own, and an address with        *)
(* normalizeImageUrl (lib/pages/image_url.dart); the detail page           *)
(* normalizes that address again, in another way.                          *)
(*                                                                         *)
(* An address is its text split at the slashes, without and with a query:  *)
(* "/images/a.jpg" is <<"", "images", "a.jpg">>, and it contains           *)
(* "/images/" if "images" is one of its segments, not the first or last.   *)
(* Trimming and blank texts are left out (a blank address is Null), and so *)
(* are ".", ".." and percent-encoding, which Uri.path resolves.            *)
(* Numbers count thousands, for TLC's integers are 32 bits wide.           *)
(***************************************************************************)
EXTENDS Integers, Sequences

CONSTANTS
  Null,      \* no address; no date
  Host,      \* kDefaultImageHost, without http://
  Texts,     \* the texts an address is made of
  Site,      \* the site name: one segment, as LoginPage's trimmed text is
  RawImages, \* the addresses the backend may send, or Null
  RawDates   \* the created_at values the backend may send

Milli == 1000000000  \* 10^12: larger integers are taken for milliseconds
Secs  == 1000000     \* 10^9: on PushNotificationsPage, larger ones for seconds

(***************************************************************************)
(* created_at is "none", an "int", a "text" in ISO format or another text  *)
(* ("odd"); n is the number, and instant the moment meant, in (thousands   *)
(* of) milliseconds.  Integers may count seconds or milliseconds.  All     *)
(* lie in the window both pages ask for, 2025-07-01 to 2026-08-25.         *)
(***************************************************************************)
WindowFrom == 1751328000
WindowTo   == 1787702399
Window == WindowFrom..WindowTo
Stamps ==
  {s \in [kind : {"int"}, n : Int, instant : Window] :
     s.n = s.instant \/ 1000 * s.n = s.instant}
  \cup [kind : {"text"}, n : {0}, instant : Window]
  \cup [kind : {"none", "odd"}, n : {0}, instant : {Null}]

ASSUME NullAssumption == Null \notin [segs : Seq(Texts), query : BOOLEAN]

ASSUME StampsAssumption == Null \notin Int /\ RawDates \subseteq Stamps

\* An address is a sequence of texts, of one at least, as split leaves no list
\* empty; the image host is no placeholder.
ASSUME ImagesAssumption ==
  /\ {"http:", "", "images", Host, Site} \subseteq Texts
  /\ RawImages \subseteq {Null} \cup [segs : Seq(Texts) \ {<<>>}, query : BOOLEAN]
  /\ Host # "your-server"

VARIABLES
  image,    \* the address where the alert is now
  created,  \* created_at
  date,     \* the entry's date, "now" if there was none
  at,       \* "backend", "alerts" or "push" (a list page), or "detail"
  listed    \* history: the address on the list page

vars == <<image, created, date, at, listed>>

-----------------------------------------------------------------------------
\* Dates.

\* Mutant of AlertsDate: three zeros missing in the threshold.
AlertsDateLowThreshold(c) ==
  CASE c.kind = "int" -> IF c.n > Secs THEN c.n ELSE 1000 * c.n
    [] c.kind = "text" -> c.instant
    [] OTHER -> Null

\* AlertsPage's _parseDate
AlertsDate(c) ==
  CASE c.kind = "int" -> IF c.n > Milli THEN c.n ELSE 1000 * c.n
    [] c.kind = "text" -> c.instant
    [] OTHER -> Null

\* PushNotificationsPage's _parseDate
PushDate(c) ==
  CASE c.kind = "int" /\ c.n > Milli -> c.n
    [] c.kind = "int" /\ c.n > Secs /\ c.n <= Milli -> 1000 * c.n
    [] c.kind = "text" -> c.instant
    [] OTHER -> Null

\* _parseDate(...) ?? DateTime.now()
OrNow(d) == IF d = Null THEN "now" ELSE d

-----------------------------------------------------------------------------
\* Addresses.

IsAbsolute(u) == Len(u) >= 3 /\ u[1] \in {"http:", "https:"} /\ u[2] = ""
UnderImages(u) == Len(u) >= 3 /\ u[1] = "" /\ u[2] = "images"

After(u, k) == SubSeq(u, k + 1, Len(u))
WithoutSite(path) == IF Len(path) > 1 /\ path[1] = Site THEN Tail(path) ELSE path
Base == <<"http:", "", Host, "images", Site>>

\* Where "/images/" occurs in u, overlapping occurrences included.
ImagesAt(u) == {k \in 2..(Len(u) - 1) : u[k] = "images"}
FirstImages(u) == CHOOSE k \in ImagesAt(u) : \A m \in ImagesAt(u) : k <= m

\* normalizeImageUrl: the first "/images/" counts, whether in host or path.
ListImage(a) ==
  IF a = Null \/ (IsAbsolute(a.segs) /\ ImagesAt(a.segs) = {}) THEN a
  ELSE [a EXCEPT !.segs = Base \o
          IF IsAbsolute(@) THEN WithoutSite(After(@, FirstImages(@)))
          ELSE IF UnderImages(@) THEN WithoutSite(After(@, 2)) ELSE @]

(***************************************************************************)
(* split('/images/').last on the path of an absolute address: occurrences  *)
(* are found from the left and do not overlap.                             *)
(***************************************************************************)
SplitsAt(u) ==
  LET match[k \in 3..Len(u)] ==
        k > 3 /\ k < Len(u) /\ u[k] = "images" /\ ~match[k - 1]
  IN  {k \in 3..Len(u) : match[k]}
LastSplit(u) == CHOOSE k \in SplitsAt(u) : \A m \in SplitsAt(u) : m <= k

\* Mutants of DetailImage: the site is not taken off; queries go everywhere.
DetailImageKeepingSite(a) ==
  IF a # Null /\ IsAbsolute(a.segs) /\ SplitsAt(a.segs) # {}
  THEN [segs |-> Base \o After(a.segs, LastSplit(a.segs)), query |-> FALSE]
  ELSE a

DetailImagePathOnly(a) ==
  IF a = Null THEN Null ELSE [a EXCEPT !.query = FALSE]

(***************************************************************************)
(* _imageUrl, on an address that has passed ListImage: it is Null or       *)
(* absolute, and "your-server" has no "/images/" left for replaceFirst.    *)
(* The token stands for every host whose text contains it, as the code's   *)
(* contains('your-server') does.  Uri.path leaves the query out.           *)
(***************************************************************************)
DetailImage(a) ==
  IF a = Null THEN Null
  ELSE IF a.segs[3] = "" THEN Null
  ELSE IF a.segs[3] = "your-server"
       THEN [segs |-> Base \o <<"">> \o After(a.segs, 3), query |-> FALSE]
  ELSE IF SplitsAt(a.segs) # {}
       THEN [segs |-> Base \o WithoutSite(After(a.segs, LastSplit(a.segs))), query |-> FALSE]
  ELSE a

-----------------------------------------------------------------------------
Init ==
  /\ image \in RawImages /\ created \in RawDates
  /\ date = Null /\ at = "backend" /\ listed = Null

\* AlertsPage or PushNotificationsPage makes its entry of the alert.
List(page) ==
  /\ at = "backend" /\ at' = page
  /\ image' = ListImage(image) /\ listed' = ListImage(image)
  /\ date' = OrNow(IF page = "alerts" THEN AlertsDate(created) ELSE PushDate(created))
  /\ UNCHANGED created

\* MessageDetailPage shows the entry; _pickDate takes the entry's date as it is.
Detail ==
  /\ at \in {"alerts", "push"} /\ at' = "detail"
  /\ image' = DetailImage(image)
  /\ UNCHANGED <<created, date, listed>>

Next == (\E page \in {"alerts", "push"} : List(page)) \/ Detail

Spec == Init /\ [][Next]_vars

-----------------------------------------------------------------------------
(***************************************************************************)
(* The date shown is the moment the backend meant, in seconds or           *)
(* milliseconds, on either list page, for all moments they ask for; alerts *)
(* without a date that can be read are dated now.                          *)
(***************************************************************************)
DateIsInstant == at # "backend" => date = OrNow(created.instant)

(***************************************************************************)
(* What the list page hands on is Null or an absolute address, and a       *)
(* placeholder host has no "/images/" in it: DetailImage may rely on it.   *)
(***************************************************************************)
ListedIsAbsolute ==
  listed # Null =>
    /\ IsAbsolute(listed.segs)
    /\ listed.segs[3] = "your-server" => ImagesAt(listed.segs) = {}

(***************************************************************************)
(* Normalizing twice in two ways gives the address of the list page again, *)
(* but for a query: the detail page neither doubles the site's directory   *)
(* nor drops one.  That leaves out addresses with a second "/images/", of  *)
(* which list and detail page take the first and the last, and absolute    *)
(* ones without a host or with the placeholder.                            *)
(***************************************************************************)
Nested(u) == \E k, m \in ImagesAt(u) : k # m
NoHost(u) == u[3] \in {"", "your-server"}
DetailKeepsImage ==
  at = "detail" /\ listed # Null =>
    Nested(listed.segs) \/ NoHost(listed.segs)
      \/ (image # Null /\ image.segs = listed.segs)

(***************************************************************************)
(* An address that is not under the image host's directory is shown as the *)
(* backend sent it, its query (a signature, for instance) included.        *)
(***************************************************************************)
OnImageHost(u) == Len(u) >= 5 /\ SubSeq(u, 1, 5) = Base
ElsewhereKept ==
  at = "detail" /\ listed # Null =>
    OnImageHost(listed.segs) \/ NoHost(listed.segs) \/ image = listed
=============================================================================
