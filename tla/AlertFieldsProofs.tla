------------------------- MODULE AlertFieldsProofs -------------------------
(***************************************************************************)
(* Proofs about AlertFields: dates of every kind the backend may send, and *)
(* addresses of any length.                                                *)
(***************************************************************************)
EXTENDS AlertFields, SequenceTheorems, WellFoundedInduction, TLAPS

Addresses == [segs : Seq(Texts) \ {<<>>}, query : BOOLEAN]

\* What the two functions make of a stamp in the window.
LEMMA IntDates ==
  ASSUME NEW n \in Int, NEW m \in Window, n = m \/ 1000 * n = m
  PROVE  /\ (IF n > Milli THEN n ELSE 1000 * n) = m
         /\ n > Milli => n = m
         /\ n <= Milli => n > Secs /\ 1000 * n = m
<1>1. WindowFrom \in Int /\ WindowTo \in Int
  BY SMT DEF WindowFrom, WindowTo
<1>2. m \in Int /\ WindowFrom <= m /\ m <= WindowTo
  BY <1>1, SMT DEF Window
<1>3. CASE n = m
  <2>1. n > Milli
    BY <1>2, <1>3, SMT DEF WindowFrom, Milli
  <2> QED BY <1>2, <1>3, <2>1, SMT DEF Milli
<1>4. CASE 1000 * n = m
  <2>1. n <= Milli /\ n > Secs
    BY <1>2, <1>4, SMT DEF WindowFrom, WindowTo, Milli, Secs
  <2> QED BY <1>2, <1>4, <2>1, SMT DEF Milli
<1> QED BY <1>3, <1>4

(***************************************************************************)
(* Both _parseDate functions find the moment that was meant.               *)
(***************************************************************************)
LEMMA DatesAgree ==
  ASSUME NEW c \in RawDates
  PROVE  AlertsDate(c) = c.instant /\ PushDate(c) = c.instant
<1>0. c \in Stamps
  BY StampsAssumption
<1>1. CASE c.kind = "int"
  <2>1. c.n \in Int /\ c.instant \in Window /\ (c.n = c.instant \/ 1000 * c.n = c.instant)
    BY <1>0, <1>1 DEF Stamps
  <2> DEFINE n == c.n
  <2>2. /\ (IF n > Milli THEN n ELSE 1000 * n) = c.instant
        /\ n > Milli => n = c.instant
        /\ n <= Milli => n > Secs /\ 1000 * n = c.instant
    BY <2>1, IntDates
  <2>3. n > Milli \/ n <= Milli
    BY <2>1, SMT DEF Milli
  <2> QED BY <1>1, <2>2, <2>3 DEF AlertsDate, PushDate
<1>2. CASE c.kind = "text"
  BY <1>2 DEF AlertsDate, PushDate
<1>3. CASE c.kind \in {"none", "odd"}
  <2>1. c.instant = Null
    BY <1>0, <1>3 DEF Stamps
  <2> QED BY <1>3, <2>1 DEF AlertsDate, PushDate
<1> QED BY <1>0, <1>1, <1>2, <1>3 DEF Stamps

(***************************************************************************)
(* The moment the backend meant is the date shown, on either list page and *)
(* on the detail page, for every stamp in the window.                      *)
(***************************************************************************)
THEOREM DateSafe == Spec => []DateIsInstant
<1> DEFINE Inv == created \in RawDates /\ DateIsInstant
<1>1. Init => Inv
  BY DEF Init, DateIsInstant
<1>2. Inv /\ [Next]_vars => Inv'
  <2> SUFFICES ASSUME Inv, [Next]_vars PROVE Inv'
    OBVIOUS
  <2>1. ASSUME NEW page \in {"alerts", "push"}, List(page) PROVE Inv'
    BY <2>1, DatesAgree DEF List, DateIsInstant
  <2>2. CASE Detail
    BY <2>2 DEF Detail, DateIsInstant
  <2>3. CASE UNCHANGED vars
    BY <2>3 DEF vars, DateIsInstant
  <2> QED BY <2>1, <2>2, <2>3 DEF Next
<1> QED BY <1>1, <1>2, PTL DEF Spec

-----------------------------------------------------------------------------
\* The image host's directory stays in front of whatever is put behind it.
LEMMA BaseInFront ==
  ASSUME NEW u \in Seq(Texts)
  PROVE  /\ Base \o u \in Seq(Texts)
         /\ IsAbsolute(Base \o u)
         /\ (Base \o u)[3] = Host
<1>1. Base \in Seq(Texts)
  <2>1. \A a, b, c, d, e \in Texts : <<a, b, c, d, e>> \in Seq(Texts)
    OBVIOUS
  <2> QED BY <2>1, ImagesAssumption, Zenon DEF Base
<1>2. Len(Base) = 5 /\ Base[1] = "http:" /\ Base[2] = "" /\ Base[3] = Host
  BY DEF Base
<1>3. /\ Base \o u \in Seq(Texts)
      /\ Len(Base \o u) = Len(Base) + Len(u)
      /\ \A i \in 1..(Len(Base) + Len(u)) :
           (Base \o u)[i] = IF i <= Len(Base) THEN Base[i] ELSE u[i - Len(Base)]
  BY <1>1, ConcatProperties, Zenon
<1>4. PICK k \in Nat : k = Len(u)
  OBVIOUS
<1>5. Len(Base \o u) >= 3
  <2>1. Len(Base \o u) = 5 + k
    BY <1>2, <1>3, <1>4, Zenon
  <2>2. 5 + k >= 3
    BY <1>4
  <2> QED BY <2>1, <2>2, Zenon
<1>6. 1 \in 1..(5 + k) /\ 2 \in 1..(5 + k) /\ 3 \in 1..(5 + k)
      /\ 1 <= 5 /\ 2 <= 5 /\ 3 <= 5
  BY <1>4
<1>7. \A i \in 1..(5 + k) : i <= 5 => (Base \o u)[i] = Base[i]
  BY <1>2, <1>3, <1>4, Zenon
<1>8. /\ (Base \o u)[1] = Base[1]
      /\ (Base \o u)[2] = Base[2]
      /\ (Base \o u)[3] = Base[3]
  BY <1>6, <1>7, Zenon
<1> QED BY <1>2, <1>3, <1>5, <1>8, Zenon DEF IsAbsolute

LEMMA LeastNatural ==
  ASSUME NEW T, T \subseteq Nat, T # {}
  PROVE  \E k \in T : \A m \in T : k <= m
<1> DEFINE R == OpToRel(<, Nat)
<1>1. PICK k \in T : \A m \in T : <<m, k>> \notin R
  BY NatLessThanWellFounded, WFMin
<1>2. \A m \in T : k <= m
  <2> SUFFICES ASSUME NEW m \in T PROVE k <= m
    OBVIOUS
  <2>1. <<m, k>> \notin {ss \in Nat \X Nat : ss[1] < ss[2]}
    BY <1>1 DEF OpToRel
  <2>2. ~(m < k)
    BY <2>1
  <2> QED BY <2>2
<1> QED BY <1>2

\* What is left of an address is an address, and there is something left.
LEMMA RestIsText ==
  ASSUME NEW u \in Seq(Texts), NEW k \in Nat, k < Len(u)
  PROVE  /\ After(u, k) \in Seq(Texts) /\ Len(After(u, k)) = Len(u) - k
         /\ \A i \in 1..(Len(u) - k) : After(u, k)[i] = u[k + i]
         /\ After(u, k) # <<>>
<1>1. /\ After(u, k) \in Seq(Texts) /\ Len(After(u, k)) = Len(u) - k
      /\ \A i \in 1..(Len(u) - k) : After(u, k)[i] = u[k + i]
  BY DEF After
<1>2. After(u, k) # <<>>
  <2>1. Len(u) - k # 0
    OBVIOUS
  <2>2. Len(<<>>) = 0
    OBVIOUS
  <2> QED BY <1>1, <2>1, <2>2, Zenon
<1> QED BY <1>1, <1>2, Zenon

LEMMA SiteTakenOff ==
  ASSUME NEW u \in Seq(Texts), u # <<>>
  PROVE  WithoutSite(u) \in Seq(Texts) /\ WithoutSite(u) # <<>>
<1>1. CASE Len(u) > 1 /\ u[1] = Site
  <2>1. WithoutSite(u) = Tail(u)
    BY <1>1 DEF WithoutSite
  <2>2. Tail(u) \in Seq(Texts) /\ Len(Tail(u)) = Len(u) - 1
    BY HeadTailProperties
  <2>3. Len(Tail(u)) # 0
    BY <1>1, <2>2
  <2>4. Len(<<>>) = 0
    OBVIOUS
  <2> QED BY <2>1, <2>2, <2>3, <2>4, Zenon
<1>2. CASE ~(Len(u) > 1 /\ u[1] = Site)
  BY <1>2, Zenon DEF WithoutSite
<1> QED BY <1>1, <1>2

(***************************************************************************)
(* normalizeImageUrl returns null, an absolute address without "/images/"  *)
(* as it came, or one under the image host's directory.                    *)
(***************************************************************************)
LEMMA ListImageForms ==
  ASSUME NEW a \in {Null} \cup Addresses, ListImage(a) # Null
  PROVE  \/ /\ ListImage(a) = a /\ a \in Addresses
            /\ IsAbsolute(a.segs) /\ ImagesAt(a.segs) = {}
         \/ /\ a \in Addresses
            /\ \E rest \in Seq(Texts) \ {<<>>} : ListImage(a) = [a EXCEPT !.segs = Base \o rest]
<1>0. a # Null
  BY DEF ListImage
<1>1. CASE IsAbsolute(a.segs) /\ ImagesAt(a.segs) = {}
  BY <1>0, <1>1 DEF ListImage
<1>2. CASE ~(IsAbsolute(a.segs) /\ ImagesAt(a.segs) = {})
  <2> DEFINE u == a.segs
             rest == IF IsAbsolute(u) THEN WithoutSite(After(u, FirstImages(u)))
                     ELSE IF UnderImages(u) THEN WithoutSite(After(u, 2)) ELSE u
  <2>1. a \in Addresses /\ u \in Seq(Texts) /\ u # <<>>
    BY <1>0 DEF Addresses
  <2>2. ListImage(a) = [a EXCEPT !.segs = Base \o rest]
    BY <1>0, <1>2 DEF ListImage
  <2>3. rest \in Seq(Texts) /\ rest # <<>>
    <3>1. CASE IsAbsolute(u)
      <4>1. ImagesAt(u) # {} /\ ImagesAt(u) \subseteq Nat
        BY <1>2, <3>1 DEF ImagesAt
      <4>2. FirstImages(u) \in ImagesAt(u)
        BY <4>1, LeastNatural DEF FirstImages
      <4>3. FirstImages(u) \in Nat /\ FirstImages(u) < Len(u)
        BY <2>1, <4>2 DEF ImagesAt
      <4>4. After(u, FirstImages(u)) \in Seq(Texts) /\ After(u, FirstImages(u)) # <<>>
        BY <2>1, <4>3, RestIsText, Zenon
      <4> QED BY <3>1, <4>4, SiteTakenOff, Zenon
    <3>2. CASE ~IsAbsolute(u) /\ UnderImages(u)
      <4>1. 2 \in Nat /\ 2 < Len(u)
        <5>1. PICK n \in Nat : n = Len(u)
          BY <2>1
        <5>2. n >= 3
          BY <3>2, <5>1, Zenon DEF UnderImages
        <5>3. 2 < n
          BY <5>2
        <5> QED BY <5>1, <5>3, Zenon
      <4>2. After(u, 2) \in Seq(Texts) /\ After(u, 2) # <<>>
        BY <2>1, <4>1, RestIsText, Zenon
      <4> QED BY <3>2, <4>2, SiteTakenOff, Zenon
    <3>3. CASE ~IsAbsolute(u) /\ ~UnderImages(u)
      BY <2>1, <3>3, Zenon
    <3> QED BY <3>1, <3>2, <3>3
  <2> HIDE DEF rest
  <2> QED BY <2>1, <2>2, <2>3
<1> QED BY <1>1, <1>2

Listed(a) ==
  a # Null => IsAbsolute(a.segs) /\ (a.segs[3] = "your-server" => ImagesAt(a.segs) = {})

LEMMA ListImageIsAbsolute ==
  ASSUME NEW a \in {Null} \cup Addresses
  PROVE  Listed(ListImage(a))
<1>1. CASE ListImage(a) = Null
  BY <1>1 DEF Listed
<1>2. CASE /\ ListImage(a) = a /\ a \in Addresses
           /\ IsAbsolute(a.segs) /\ ImagesAt(a.segs) = {}
  BY <1>2 DEF Listed
<1>3. ASSUME a \in Addresses, NEW rest \in Seq(Texts),
             ListImage(a) = [a EXCEPT !.segs = Base \o rest]
      PROVE  Listed(ListImage(a))
  <2>1. ListImage(a).segs = Base \o rest
    BY <1>3 DEF Addresses
  <2>2. IsAbsolute(Base \o rest) /\ (Base \o rest)[3] = Host
    BY BaseInFront
  <2> QED BY <2>1, <2>2, ImagesAssumption DEF Listed
<1> QED BY <1>1, <1>2, <1>3, ListImageForms

(***************************************************************************)
(* The detail page may take an address it is handed apart: for addresses   *)
(* of any length, it is null or absolute, and under a placeholder host     *)
(* there is no "/images/" left.                                            *)
(***************************************************************************)
THEOREM ListedSafe == Spec => []ListedIsAbsolute
<1> DEFINE Inv == (at = "backend" => image \in RawImages) /\ ListedIsAbsolute
<1>1. Init => Inv
  BY DEF Init, ListedIsAbsolute
<1>2. Inv /\ [Next]_vars => Inv'
  <2> SUFFICES ASSUME Inv, [Next]_vars PROVE Inv'
    OBVIOUS
  <2>1. ASSUME NEW page \in {"alerts", "push"}, List(page) PROVE Inv'
    <3>1. image \in {Null} \cup Addresses
      BY <2>1, ImagesAssumption DEF List, Addresses
    <3>2. Listed(listed')
      BY <2>1, <3>1, ListImageIsAbsolute DEF List
    <3> QED BY <2>1, <3>2 DEF List, Listed, ListedIsAbsolute
  <2>2. CASE Detail
    BY <2>2 DEF Detail, ListedIsAbsolute
  <2>3. CASE UNCHANGED vars
    BY <2>3 DEF vars, ListedIsAbsolute
  <2> QED BY <2>1, <2>2, <2>3 DEF Next
<1> QED BY <1>1, <1>2, PTL DEF Spec

-----------------------------------------------------------------------------
(***************************************************************************)
(* The detail page's own normalization.  Where an address has one          *)
(* "/images/" at most, occurrences cannot overlap, and split finds the one *)
(* that is not in the host.  The recursion of SplitsAt is a choice of a    *)
(* function, and with one occurrence such a function can be named.         *)
(***************************************************************************)
Matches(u, f) ==
  f = [k \in 3..Len(u) |-> k > 3 /\ k < Len(u) /\ u[k] = "images" /\ ~f[k - 1]]

LEMMA SplitsAreMatches ==
  ASSUME NEW u, NEW g, Matches(u, g)
  PROVE  \E f : Matches(u, f) /\ SplitsAt(u) = {k \in 3..Len(u) : f[k]}
BY DEF SplitsAt, Matches

LEMMA SingleSplit ==
  ASSUME NEW u \in Seq(Texts), ~Nested(u)
  PROVE  SplitsAt(u) = {k \in ImagesAt(u) : k > 3}
<1> DEFINE g == [k \in 3..Len(u) |-> k > 3 /\ k < Len(u) /\ u[k] = "images"]
<1>1. Len(u) \in Nat
  OBVIOUS
<1>2. \A k \in 4..(Len(u) - 1) : u[k] = "images" => u[k - 1] # "images"
  BY <1>1 DEF Nested, ImagesAt
<1>3. ASSUME NEW k \in 3..Len(u)
      PROVE  g[k] = (k > 3 /\ k < Len(u) /\ u[k] = "images" /\ ~g[k - 1])
  <2>1. CASE k = 3
    BY <2>1
  <2>2. CASE k > 3 /\ ~(k < Len(u) /\ u[k] = "images")
    BY <2>2
  <2>3. CASE k > 3 /\ k < Len(u) /\ u[k] = "images"
    <3>1. k - 1 \in 3..Len(u) /\ u[k - 1] # "images"
      BY <1>1, <1>2, <2>3
    <3>2. ~g[k - 1] /\ g[k]
      BY <2>3, <3>1
    <3> QED BY <2>3, <3>2
  <2> QED BY <2>1, <2>2, <2>3
<1>4. Matches(u, g)
  BY <1>3 DEF Matches
<1>5. PICK f : Matches(u, f) /\ SplitsAt(u) = {k \in 3..Len(u) : f[k]}
  <2> HIDE DEF g
  <2> QED BY <1>4, SplitsAreMatches
<1>6. ASSUME NEW k \in 3..Len(u)
      PROVE  f[k] <=> (k > 3 /\ k < Len(u) /\ u[k] = "images")
  <2>1. \A m \in 3..Len(u) :
          f[m] <=> m > 3 /\ m < Len(u) /\ u[m] = "images" /\ ~f[m - 1]
    BY <1>5 DEF Matches
  <2>2. ASSUME k > 3, k < Len(u), u[k] = "images" PROVE ~f[k - 1]
    <3>1. k - 1 \in 3..Len(u) /\ u[k - 1] # "images"
      BY <1>1, <1>2, <2>2
    <3> QED BY <2>1, <3>1
  <2> QED BY <2>1, <2>2
<1>7. \A k : k \in SplitsAt(u) <=> k \in ImagesAt(u) /\ k > 3
  BY <1>1, <1>5, <1>6 DEF ImagesAt
<1> QED BY <1>7

\* An address under the image host's directory, taken apart behind "/images/".
LEMMA BehindBase ==
  ASSUME NEW rest \in Seq(Texts), rest # <<>>
  PROVE  /\ 4 \in ImagesAt(Base \o rest)
         /\ OnImageHost(Base \o rest)
         /\ WithoutSite(After(Base \o rest, 4)) = rest
<1> DEFINE u == Base \o rest
           n == Len(rest)
           tail == After(u, 4)
<1>1. /\ Base \in Seq(Texts) /\ Len(Base) = 5 /\ Base[4] = "images" /\ Base[5] = Site
  <2>1. \A a, b, c, d, e \in Texts : <<a, b, c, d, e>> \in Seq(Texts)
    OBVIOUS
  <2>2. Base \in Seq(Texts)
    BY <2>1, ImagesAssumption, Zenon DEF Base
  <2> QED BY <2>2 DEF Base
<1>2. n \in Nat /\ n >= 1
  <2>1. n \in Nat /\ n # 0
    BY EmptySeq
  <2> QED BY <2>1
<1>3. /\ u \in Seq(Texts) /\ Len(u) = 5 + n
      /\ \A i \in 1..5 : u[i] = Base[i]
      /\ \A i \in 1..n : u[5 + i] = rest[i]
  <2>1. /\ u \in Seq(Texts)
        /\ Len(u) = Len(Base) + Len(rest)
        /\ \A i \in 1..(Len(Base) + Len(rest)) :
             u[i] = IF i <= Len(Base) THEN Base[i] ELSE rest[i - Len(Base)]
    BY <1>1, ConcatProperties, Zenon
  <2>2. \A i \in 1..(5 + n) : u[i] = IF i <= 5 THEN Base[i] ELSE rest[i - 5]
    BY <1>1, <2>1, Zenon
  <2> HIDE DEF u, n
  <2>3. \A i \in 1..5 : i \in 1..(5 + n) /\ i <= 5
    BY <1>2
  <2>4. \A i \in 1..n : 5 + i \in 1..(5 + n) /\ ~(5 + i <= 5) /\ (5 + i) - 5 = i
    BY <1>2
  <2>5. Len(u) = 5 + n
    BY <1>1, <2>1, Zenon DEF n
  <2>6. \A i \in 1..5 : u[i] = Base[i]
    BY <2>2, <2>3, Zenon
  <2>7. \A i \in 1..n : u[5 + i] = rest[i]
    <3> SUFFICES ASSUME NEW i \in 1..n PROVE u[5 + i] = rest[i]
      OBVIOUS
    <3>1. u[5 + i] = rest[(5 + i) - 5]
      BY <2>2, <2>4, Zenon
    <3> QED BY <2>4, <3>1, Zenon
  <2> QED BY <2>1, <2>5, <2>6, <2>7, Zenon
<1> HIDE DEF u, n
<1>4. 4 \in ImagesAt(u)
  BY <1>1, <1>2, <1>3 DEF ImagesAt
<1>5. OnImageHost(u)
  <2>1. Len(u) >= 5
    BY <1>2, <1>3
  <2>2. SubSeq(u, 1, 5) \in Seq(Texts) /\ Len(SubSeq(u, 1, 5)) = 5
    BY <1>2, <1>3
  <2>3. \A i \in 1..5 : SubSeq(u, 1, 5)[i] = Base[i]
    BY <1>2, <1>3
  <2>4. SubSeq(u, 1, 5) = Base
    BY <1>1, <2>2, <2>3, SeqEqual
  <2> QED BY <2>1, <2>4 DEF OnImageHost
<1>6. WithoutSite(tail) = rest
  <2>1. /\ tail \in Seq(Texts) /\ Len(tail) = n + 1
        /\ \A i \in 1..(n + 1) : tail[i] = u[4 + i]
    <3>1. 4 < Len(u) /\ 4 \in Nat
      BY <1>2, <1>3
    <3>2. Len(u) - 4 = n + 1
      BY <1>2, <1>3
    <3> QED BY <1>3, <3>1, <3>2, RestIsText
  <2> HIDE DEF tail
  <2>2. tail[1] = Site /\ Len(tail) > 1
    BY <1>1, <1>2, <1>3, <2>1
  <2>3. Tail(tail) \in Seq(Texts) /\ Len(Tail(tail)) = n
    BY <1>2, <2>1
  <2>4. \A i \in 1..n : Tail(tail)[i] = rest[i]
    BY <1>2, <1>3, <2>1
  <2>5. Tail(tail) = rest
    BY <2>3, <2>4, SeqEqual DEF n
  <2> QED BY <2>2, <2>5 DEF WithoutSite
<1> QED BY <1>4, <1>5, <1>6 DEF u

(***************************************************************************)
(* What the detail page makes of an address a list page hands on.          *)
(***************************************************************************)
KeptSegs(l) ==
  Nested(l.segs) \/ NoHost(l.segs)
    \/ (DetailImage(l) # Null /\ DetailImage(l).segs = l.segs)
KeptElsewhere(l) == OnImageHost(l.segs) \/ NoHost(l.segs) \/ DetailImage(l) = l

LEMMA NormalizedTwice ==
  ASSUME NEW a \in {Null} \cup Addresses, NEW l, l = ListImage(a), l # Null
  PROVE  KeptSegs(l) /\ KeptElsewhere(l)
<1>1. CASE l = a /\ a \in Addresses /\ ImagesAt(a.segs) = {}
  <2>1. l.segs \in Seq(Texts) /\ ~Nested(l.segs)
    BY <1>1 DEF Addresses, Nested
  <2>2. SplitsAt(l.segs) = {}
    BY <1>1, <2>1, SingleSplit
  <2>3. NoHost(l.segs) \/ DetailImage(l) = l
    BY <2>2 DEF NoHost, DetailImage
  <2> QED BY <2>3 DEF KeptSegs, KeptElsewhere
<1>2. ASSUME a \in Addresses, NEW rest \in Seq(Texts) \ {<<>>},
             l = [a EXCEPT !.segs = Base \o rest]
      PROVE  KeptSegs(l) /\ KeptElsewhere(l)
  <2> DEFINE u == Base \o rest
  <2>1. l.segs = u /\ u \in Seq(Texts)
    BY <1>2, BaseInFront DEF Addresses
  <2>2. /\ 4 \in ImagesAt(u) /\ OnImageHost(u)
        /\ WithoutSite(After(u, 4)) = rest
    BY BehindBase
  <2> HIDE DEF u
  <2>3. ASSUME ~Nested(u), ~NoHost(u)
        PROVE  DetailImage(l) # Null /\ DetailImage(l).segs = u
    <3>1. ImagesAt(u) = {4}
      BY <2>2, <2>3 DEF Nested
    <3>2. SplitsAt(u) = {4}
      BY <2>1, <2>3, <3>1, SingleSplit
    <3>3. LastSplit(u) = 4
      BY <3>2 DEF LastSplit
    <3>4. DetailImage(l) = [segs |-> u, query |-> FALSE]
      BY <2>1, <2>2, <2>3, <3>2, <3>3 DEF DetailImage, NoHost, u
    <3>5. DetailImage(l) \in [segs : Seq(Texts), query : BOOLEAN]
      BY <2>1, <3>4
    <3>6. DetailImage(l).segs = u
      BY <3>4
    <3>7. DetailImage(l) # Null
      BY <3>5, NullAssumption, Zenon
    <3> QED BY <3>6, <3>7, Zenon
  <2> QED BY <2>1, <2>2, <2>3 DEF KeptSegs, KeptElsewhere
<1> QED BY <1>1, <1>2, ListImageForms

-----------------------------------------------------------------------------
(***************************************************************************)
(* Where an alert is between the two normalizations: a list page holds     *)
(* what normalizeImageUrl made of an address of the backend, and the       *)
(* detail page what _imageUrl made of that.                                *)
(***************************************************************************)
ImageInv ==
  /\ at \in {"backend", "alerts", "push", "detail"}
  /\ at = "backend" => image \in RawImages /\ listed = Null
  /\ at \in {"alerts", "push"} => image = listed
  /\ at = "detail" => image = DetailImage(listed)
  /\ at # "backend" => \E a \in {Null} \cup Addresses : listed = ListImage(a)

THEOREM ImageInvSafe == Spec => []ImageInv
<1>1. Init => ImageInv
  BY DEF Init, ImageInv
<1>2. ImageInv /\ [Next]_vars => ImageInv'
  <2> SUFFICES ASSUME ImageInv, [Next]_vars PROVE ImageInv'
    OBVIOUS
  <2>1. ASSUME NEW page \in {"alerts", "push"}, List(page) PROVE ImageInv'
    <3>1. image \in {Null} \cup Addresses
      BY <2>1, ImagesAssumption DEF List, ImageInv, Addresses
    <3>2. at' = page /\ image' = listed' /\ listed' = ListImage(image)
      BY <2>1 DEF List
    <3> QED BY <3>1, <3>2 DEF ImageInv
  <2>2. CASE Detail
    BY <2>2 DEF Detail, ImageInv
  <2>3. CASE UNCHANGED vars
    BY <2>3 DEF vars, ImageInv
  <2> QED BY <2>1, <2>2, <2>3 DEF Next
<1> QED BY <1>1, <1>2, PTL DEF Spec

(***************************************************************************)
(* For addresses of any length, normalizing on the list page and again on  *)
(* the detail page gives the list page's segments: the site's directory is *)
(* neither doubled nor dropped, but where "/images/" occurs twice or there *)
(* is no host to speak of.                                                 *)
(***************************************************************************)
THEOREM KeepsImageSafe == Spec => []DetailKeepsImage
<1>1. ImageInv => DetailKeepsImage
  BY NormalizedTwice DEF ImageInv, DetailKeepsImage, KeptSegs
<1> QED BY <1>1, ImageInvSafe, PTL

(***************************************************************************)
(* For addresses of any length, one that is not under the image host's     *)
(* directory is shown on the detail page as it was listed, query included. *)
(***************************************************************************)
THEOREM ElsewhereSafe == Spec => []ElsewhereKept
<1>1. ImageInv => ElsewhereKept
  BY NormalizedTwice DEF ImageInv, ElsewhereKept, KeptElsewhere
<1> QED BY <1>1, ImageInvSafe, PTL
=============================================================================
