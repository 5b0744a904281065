--------------------------- MODULE MCAlertFields ---------------------------
(* Instances of AlertFields for TLC. *)
EXTENDS AlertFields

\* Up to four segments: "/images/" may come first, last, twice or not at all.
Segs == {"images", "SITE", "CAM", ""}
Paths == UNION {[1..n -> Segs] : n \in 0..4}
Hosts == {"35.182.97.114", "images", "your-server", ""}
Absolute == {<<"https:", "", h>> \o p : h \in Hosts, p \in Paths}
Relative == {p \in Paths : p # <<>> /\ ~IsAbsolute(p)}

MCTexts == Segs \cup Hosts \cup {"http:", "https:"}
MCRawImages == {Null} \cup [segs : Absolute \cup Relative, query : BOOLEAN]

\* The first and the last moment of the window and one in it.
Moments == {1751328000, 1770000000, 1787702000}
MCRawDates ==
  {[kind |-> "int", n |-> m, instant |-> m] : m \in Moments}
  \cup {[kind |-> "int", n |-> m \div 1000, instant |-> m] : m \in Moments}
  \cup {[kind |-> "text", n |-> 0, instant |-> m] : m \in Moments}
  \cup [kind : {"none", "odd"}, n : {0}, instant : {Null}]
=============================================================================
