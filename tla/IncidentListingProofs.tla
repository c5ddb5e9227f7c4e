----------------------- MODULE IncidentListingProofs -----------------------
(***************************************************************************)
(* Proofs about IncidentListing for any number of incidents, any sizes of  *)
(* listings and pages and any ceiling.                                     *)
(***************************************************************************)
EXTENDS IncidentListing, FiniteSetTheorems, SequenceTheorems, TLAPS

USE NumbersAssumption

-----------------------------------------------------------------------------
(* Counting.                                                               *)

\* The least of a set is in it and least.
LEMMA MinIs ==
  ASSUME NEW S \in SUBSET Int, NEW m \in S, \A n \in S : m <= n
  PROVE  Min(S) = m
<1>1. \A x \in S : (\A y \in S : x <= y) => x = m
  OBVIOUS
<1>. QED BY <1>1 DEF Min

\* A listing asks for one more than it returns, unless a page holds no more.
LEMMA AskedIs ==
  ASSUME top \in Tops
  PROVE  /\ top \in Nat \ {0} /\ Asked \in {top, top + 1} /\ Asked \in Nat \ {0}
         /\ Max({Asked, top}) = Asked
<1>1. top \in Nat \ {0} /\ top <= PageSize
  OBVIOUS
<1>2. Asked \in {top, top + 1}
  <2>1. CASE top < PageSize
    <3>1. Min({top + 1, PageSize}) = top + 1
      BY <1>1, <2>1, MinIs
    <3>. QED BY <3>1 DEF Asked
  <2>2. CASE top = PageSize
    <3>1. Min({top + 1, PageSize}) = PageSize
      BY <1>1, <2>2, MinIs
    <3>. QED BY <2>2, <3>1 DEF Asked
  <2>. QED BY <1>1, <2>1, <2>2
<1>3. Max({Asked, top}) = Asked
  BY <1>1, <1>2 DEF Max
<1>. QED BY <1>1, <1>2, <1>3

\* There are no more members in a part of an interval than in the interval.
LEMMA Counted ==
  ASSUME NEW a \in Int, NEW b \in Int, a <= b + 1, NEW S \in SUBSET (a .. b)
  PROVE  /\ IsFiniteSet(S) /\ Cardinality(S) \in Nat /\ Cardinality(S) <= b - a + 1
         /\ Cardinality(a .. b) = b - a + 1
<1>1. IsFiniteSet(a .. b) /\ Cardinality(a .. b) = b - a + 1
  BY FS_Interval
<1>. QED BY <1>1, FS_Subset, FS_CardinalityType

\* The incidents from the position p up to q.
Between(p, q) == {j \in 1 .. count : p <= count - j /\ count - j < q}
NewerThan(i, S) == {j \in S : j > i}

\* The incidents of a page that are newer than i are fewer than the page's, and i
\* is as far behind the page's start.
LEMMA PlaceInPage ==
  ASSUME NEW start \in Nat, start <= count, count \in Nat, NEW S \in SUBSET (1 .. count - start),
         NEW i \in S
  PROVE  /\ Cardinality(NewerThan(i, S)) \in Nat
         /\ Cardinality(NewerThan(i, S)) < Cardinality(S)
         /\ start + Cardinality(NewerThan(i, S)) <= count - i
         /\ S = Between(start, start + Cardinality(S))
              => start + Cardinality(NewerThan(i, S)) = count - i
<1>. DEFINE newer == {j \in S : j > i}
<1>. DEFINE last == count - start
<1>0. last \in Nat /\ S \in SUBSET (1 .. last)
  OBVIOUS
<1>1. IsFiniteSet(S) /\ i \in 1 .. last
  <2>1. \A j \in S : j \in 1 .. last
    OBVIOUS
  <2>. HIDE DEF last
  <2>2. 1 \in Int /\ last \in Int /\ 1 <= last + 1
    BY <1>0
  <2>3. IsFiniteSet(S)
    BY <1>0, <2>2, Counted
  <2>. QED BY <2>1, <2>3
<1>2. newer \in SUBSET (i + 1 .. last)
  <2>1. ASSUME NEW j \in S, j > i PROVE j \in i + 1 .. last
    <3>1. j \in 1 .. last
      OBVIOUS
    <3>. HIDE DEF last
    <3>. QED BY <1>0, <1>1, <2>1, <3>1
  <2>. QED BY <2>1
<1>3. Cardinality(newer) \in Nat /\ Cardinality(newer) <= last - i
      /\ Cardinality(i + 1 .. last) = last - i
  <2>1. i + 1 \in Int /\ last \in Int /\ i + 1 <= last + 1
    BY <1>0, <1>1
  <2>. HIDE DEF last, newer
  <2>2. Cardinality(newer) \in Nat /\ Cardinality(newer) <= last - (i + 1) + 1
        /\ Cardinality(i + 1 .. last) = last - (i + 1) + 1
    BY <1>2, <2>1, Counted
  <2>. QED BY <1>0, <1>1, <2>2
<1>4. Cardinality(newer) < Cardinality(S)
  <2>1. newer \in SUBSET S /\ newer # S
    OBVIOUS
  <2>. HIDE DEF newer
  <2>2. Cardinality(newer) <= Cardinality(S) /\ Cardinality(S) # Cardinality(newer)
    BY <1>1, <2>1, FS_Subset
  <2>. QED BY <1>1, <1>3, <2>2, FS_CardinalityType
<1>5. ASSUME S = {j \in 1 .. count : start <= count - j /\ count - j < start + Cardinality(S)}
      PROVE  start + Cardinality(newer) = count - i
  <2>1. Cardinality(S) \in Nat
    BY <1>1, FS_CardinalityType
  <2>2. newer = i + 1 .. last
    <3>1. ASSUME NEW j \in i + 1 .. last PROVE j \in S
      <4>1. count - i < start + Cardinality(S) /\ j \in 1 .. count
        <5>1. i \in {k \in 1 .. count : start <= count - k /\ count - k < start + Cardinality(S)}
          BY <1>5
        <5>. QED BY <1>0, <1>1, <5>1
      <4>2. start <= count - j /\ count - j < start + Cardinality(S)
        BY <1>0, <1>1, <2>1, <4>1
      <4>3. j \in {k \in 1 .. count : start <= count - k /\ count - k < start + Cardinality(S)}
        BY <4>1, <4>2
      <4>. QED BY <1>5, <4>3
    <3>2. \A j \in i + 1 .. last : j > i
      BY <1>1
    <3>. QED BY <1>2, <3>1, <3>2
  <2>. HIDE DEF newer
  <2>3. Cardinality(newer) = last - i
    BY <1>3, <2>2
  <2>. QED BY <1>0, <1>1, <2>3
<1>6. start + Cardinality(newer) <= count - i
  BY <1>0, <1>1, <1>3
<1>. QED BY <1>3, <1>4, <1>5, <1>6 DEF Between, NewerThan

\* What the service shows between two positions.
LEMMA ShownIs ==
  ASSUME NEW k \in Nat, count \in 0 .. Total, NEW e \in k .. count
  PROVE  /\ Shown(k, e) \in SUBSET (1 .. count - k)
         /\ Cardinality(Shown(k, e)) \in Nat /\ k + Cardinality(Shown(k, e)) <= e
         /\ \A i \in 1 .. count : i \notin hidden /\ k <= count - i /\ count - i < e
                                    => i \in Shown(k, e)
         /\ hidden = {} =>
              /\ e = k + Cardinality(Shown(k, e))
              /\ Shown(k, e) = {i \in 1 .. count : k <= count - i /\ count - i < e}
<1>1. Shown(k, e) \in SUBSET (count - e + 1 .. count - k)
  BY DEF Shown
<1>2. /\ Cardinality(Shown(k, e)) \in Nat /\ Cardinality(Shown(k, e)) <= e - k
      /\ Cardinality(count - e + 1 .. count - k) = e - k
  <2>. DEFINE a == count - e + 1
              b == count - k
  <2>1. a \in Int /\ b \in Int /\ a <= b + 1 /\ b - a + 1 = e - k
    OBVIOUS
  <2>2. Shown(k, e) \in SUBSET (a .. b)
    BY <1>1
  <2>. HIDE DEF a, b
  <2>3. /\ Cardinality(Shown(k, e)) \in Nat /\ Cardinality(Shown(k, e)) <= b - a + 1
        /\ Cardinality(a .. b) = b - a + 1
    BY <2>1, <2>2, Counted
  <2>. QED BY <2>1, <2>3 DEF a, b
<1>3. ASSUME hidden = {}
      PROVE  /\ Shown(k, e) = count - e + 1 .. count - k
             /\ Shown(k, e) = {i \in 1 .. count : k <= count - i /\ count - i < e}
  BY <1>3 DEF Shown
<1>4. Shown(k, e) \in SUBSET (1 .. count - k)
  BY <1>1
<1>5. \A i \in 1 .. count : i \notin hidden /\ k <= count - i /\ count - i < e
                               => i \in Shown(k, e)
  BY DEF Shown
<1>6. hidden = {} => e = k + Cardinality(Shown(k, e))
  BY <1>2, <1>3
<1>7. k + Cardinality(Shown(k, e)) <= e
  BY <1>2
<1>. QED BY <1>2, <1>3, <1>4, <1>5, <1>6, <1>7

-----------------------------------------------------------------------------
(* What the invariant says of a listing under way.                         *)

\* The pages are numbered and counted.
LEMMA PagesAre ==
  ASSUME TypeOK, pages # <<>>
  PROVE  /\ LastPage \in 1 .. MaxPages /\ LastPage \in Nat
         /\ \A n \in 1 .. LastPage :
              /\ pages[n] \in [from : None .. Total, before : Nat, shown : SUBSET Incidents]
              /\ IsFiniteSet(pages[n].shown) /\ Cardinality(pages[n].shown) \in Nat
              /\ Through(n) \in Nat /\ Start(n) \in Nat /\ pages[n].before <= Through(n)
         /\ Got = pages[LastPage].before + Cardinality(pages[LastPage].shown)
         /\ Got \in Nat
<1>1. LastPage \in 1 .. MaxPages /\ LastPage \in Nat
  BY DEF TypeOK, LastPage
<1>2. ASSUME NEW n \in 1 .. LastPage
      PROVE  /\ pages[n] \in [from : None .. Total, before : Nat, shown : SUBSET Incidents]
             /\ IsFiniteSet(pages[n].shown) /\ Cardinality(pages[n].shown) \in Nat
             /\ Through(n) \in Nat /\ Start(n) \in Nat /\ pages[n].before <= Through(n)
  <2>1. pages[n] \in [from : None .. Total, before : Nat, shown : SUBSET Incidents]
    <3>1. /\ pages \in Seq([from : None .. Total, before : Nat, shown : SUBSET Incidents])
          /\ n \in 1 .. Len(pages)
      BY DEF TypeOK, LastPage
    <3>. QED BY <3>1, ElementOfSeq
  <2>2. IsFiniteSet(pages[n].shown) /\ Cardinality(pages[n].shown) \in Nat
    <3>1. pages[n].shown \in SUBSET (1 .. Total)
      BY <2>1 DEF Incidents
    <3>2. 1 \in Int /\ Total \in Int /\ 1 <= Total + 1
      OBVIOUS
    <3>. QED BY <3>1, <3>2, Counted
  <2>3. skip \in Nat
    BY DEF TypeOK
  <2>. QED BY <2>1, <2>2, <2>3 DEF Through, Start, None
<1>. QED BY <1>1, <1>2 DEF Got, Through, LastPage

\* No page ends after the last one.
LEMMA ThroughIs ==
  ASSUME TypeOK, PagesFollow, StagesAre, Listing
  PROVE  \A n \in 1 .. LastPage : Through(n) <= Got
<1>1. pages # <<>>
  BY DEF StagesAre
<1>2. /\ LastPage \in Nat /\ pages[LastPage].before \in Nat
      /\ Got \in Nat /\ LastPage \in 1 .. LastPage
      /\ Through(LastPage) = Got /\ pages[LastPage].before <= Got
      /\ \A n \in 1 .. LastPage : Through(n) \in Nat
  <2>1. LastPage \in 1 .. LastPage
    BY <1>1, PagesAre
  <2>. QED BY <1>1, <2>1, PagesAre DEF Through
<1>3. \A n \in 1 .. LastPage - 1 : Through(n) <= pages[LastPage].before
  BY DEF PagesFollow
<1>4. \A n \in 1 .. LastPage : n \in 1 .. LastPage - 1 \/ n = LastPage
  BY <1>2
<1>. QED BY <1>2, <1>3, <1>4

\* The position of what is read last, and of what comes after it, is counted
\* from the start of the last page: the search through the pages ends there.
LEMMA PositionIs ==
  ASSUME TypeOK, PagesFollow, StagesAre, Listing, NEW index \in Nat,
         pages[LastPage].before <= index
  PROVE  Position(index) = Start(LastPage) + index - pages[LastPage].before
<1>1. pages # <<>>
  BY DEF StagesAre
<1>. DEFINE last == {m \in 1 .. LastPage : index < Through(m) \/ m = LastPage}
<1>2. last = {LastPage}
  <2>0. LastPage \in 1 .. MaxPages
    BY <1>1, PagesAre
  <2>1. ASSUME NEW m \in 1 .. LastPage - 1 PROVE ~ (index < Through(m))
    <3>1. m \in 1 .. LastPage /\ LastPage \in 1 .. LastPage
      BY <2>0
    <3>2. Through(m) \in Nat /\ pages[LastPage].before \in Nat
      BY <1>1, <3>1, PagesAre
    <3>3. Through(m) <= pages[LastPage].before
      BY DEF PagesFollow
    <3>. QED BY <3>2, <3>3
  <2>2. \A m \in 1 .. LastPage : m \in 1 .. LastPage - 1 \/ m = LastPage
    BY <2>0
  <2>. QED BY <2>0, <2>1, <2>2
<1>3. Min(last) = LastPage
  <2>1. {LastPage} \in SUBSET Int /\ LastPage \in {LastPage} /\ \A n \in {LastPage} : LastPage <= n
    BY <1>1, PagesAre
  <2>2. Min({LastPage}) = LastPage
    BY <2>1, MinIs
  <2>. QED BY <1>2, <2>2
<1>. QED BY <1>3 DEF Position, LastPage

-----------------------------------------------------------------------------
(* Every step keeps the invariant.                                         *)

\* A link the service sends with a page that ends at e leads to e.
LEMMA LinkIs ==
  ASSUME count \in 0 .. Total, sends \in {"position", "token", "none"},
         NEW e \in 0 .. count
  PROVE  LET l == LinkTo(e)
         IN  /\ l \in [names : {"none", "position", "token"}, at : 0 .. Total + 1]
             /\ l = NoLink <=> sends = "none" \/ e = count
             /\ l # NoLink => l.names = sends /\ Goes(l) = e
BY NumbersAssumption DEF LinkTo, NoLink, Goes

\* Before any page is read, and after.
LEMMA GotIs ==
  ASSUME TypeOK
  PROVE  LastPage \in Nat /\ Got \in Nat /\ (pages = <<>> => Got = 0 /\ LastPage = 0)
<1>1. CASE pages = <<>>
  BY <1>1 DEF Got, LastPage
<1>2. CASE pages # <<>>
  BY <1>2, PagesAre
<1>. QED BY <1>1, <1>2

\* What a listing asks for next: the page from position k on, counted as
\* starting at `start`, where the code is told `from`. No incident that is due
\* is passed over, and while nothing moves the page is the next in line.
NextPage(k, from, start) ==
  /\ start = IF from = None THEN skip + Got ELSE from
  /\ LastPage < MaxPages /\ Got < Asked
  /\ \A n \in 1 .. LastPage : Through(n) <= Got
  /\ start = skip => Got = 0
  /\ sends = "token" => start = skip + Got
  /\ sends = "none" => pages = <<>> /\ start = skip
  /\ \A i \in due \ seen : k <= count - i \/ \E n \in 1 .. LastPage : i \in pages[n].shown

InLine(k, start) ==
  /\ start = k
  /\ \A i \in seen : count - i < skip
  /\ \A n \in 1 .. LastPage : \A i \in pages[n].shown : skip <= count - i /\ count - i < k
  /\ \A m, n \in 1 .. LastPage : m # n => pages[m].shown \cap pages[n].shown = {}

\* Reading that page, up to e, keeps the invariant.
LEMMA TakeStep ==
  ASSUME Inductive, stage \in {"asking", "reading"},
         NEW k \in skip .. count, NEW e \in Ends(k, Asked), NEW from \in None .. Total,
         NEW start \in skip .. k, NextPage(k, from, start), Quiet => InLine(k, start),
         Take(from, [shown |-> Shown(k, e), link |-> LinkTo(e)])
  PROVE  Inductive'
<1>. DEFINE S == Shown(k, e)
            P == [from : None .. Total, before : Nat, shown : SUBSET Incidents]
            page == [from |-> from, before |-> Got, shown |-> S]
<1>0. /\ start = IF from = None THEN skip + Got ELSE from
      /\ start = skip => Got = 0
      /\ sends = "token" => start = skip + Got
      /\ sends = "none" => pages = <<>> /\ start = skip
  BY DEF NextPage
<1>1. TypeOK /\ StagesAre
  BY DEF Inductive
<1>2. /\ count \in 0 .. Total /\ skip \in 0 .. Total /\ k \in Nat /\ k <= count
      /\ sends \in {"position", "token", "none"} /\ top \in Tops
      /\ Got \in Nat /\ LastPage \in Nat /\ pages \in Seq(P) /\ LastPage = Len(pages)
      /\ start \in Nat
  BY <1>1, GotIs DEF TypeOK, LastPage
<1>3. /\ e \in k .. count
      /\ sends = "none" => Cardinality(S) = Asked \/ e = count
  BY DEF Ends
<1>4. /\ S \in SUBSET (1 .. count - k) /\ Cardinality(S) \in Nat /\ k + Cardinality(S) <= e
      /\ \A i \in 1 .. count : i \notin hidden /\ k <= count - i /\ count - i < e => i \in S
      /\ hidden = {} =>
           e = k + Cardinality(S) /\ S = {i \in 1 .. count : k <= count - i /\ count - i < e}
  <2>1. k \in Nat /\ count \in 0 .. Total /\ e \in k .. count
    BY <1>2, <1>3
  <2>. HIDE DEF S
  <2>2. S = Shown(k, e)
    BY DEF S
  <2>3. hidden = {} =>
          e = k + Cardinality(S) /\ S = {i \in 1 .. count : k <= count - i /\ count - i < e}
    BY <2>1, <2>2, ShownIs
  <2>. QED BY <2>1, <2>2, <2>3, ShownIs
<1>5. page \in P
  <2>1. S \in SUBSET Incidents
    BY <1>2, <1>4 DEF Incidents
  <2>. HIDE DEF S
  <2>. QED BY <1>2, <2>1
<1>6. /\ pages' = Append(pages, page) /\ link' = LinkTo(e) /\ stage' = "reading"
      /\ UNCHANGED <<count, hidden, sends, top, due, skip, seen, twice, outcome>>
  BY DEF Take, service, sweep, given
<1>. HIDE DEF S, page
<1>7. /\ pages' \in Seq(P) /\ LastPage' = LastPage + 1 /\ Len(pages') = LastPage + 1
      /\ pages'[LastPage + 1] = page /\ pages' # <<>>
      /\ \A n \in 1 .. LastPage : pages'[n] = pages[n]
  BY <1>2, <1>5, <1>6, AppendProperties DEF LastPage
<1>8. page.from = from /\ page.before = Got /\ page.shown = S
  BY DEF page
<1>9. /\ Start(LastPage)' = start /\ Got' = Got + Cardinality(S)
      /\ \A n \in 1 .. LastPage : Through(n)' = Through(n)
  BY <1>0, <1>2, <1>6, <1>7, <1>8 DEF Start, Got, Through, LastPage
<1>10. /\ link' \in [names : {"none", "position", "token"}, at : 0 .. Total + 1]
       /\ link' = NoLink <=> sends = "none" \/ e = count
       /\ link' # NoLink => link'.names = sends /\ Goes(link)' = e
  <2>1. e \in 0 .. count
    BY <1>2, <1>3
  <2>2. Goes(link)' = Goes(LinkTo(e))
    BY <1>6 DEF Goes
  <2>. QED BY <1>2, <1>6, <2>1, <2>2, LinkIs
<1>11. Asked' = Asked
  BY <1>6 DEF Asked
<1>12. TypeOK'
  <2>1. pages' \in Seq([from : None .. Total, before : Nat, shown : SUBSET Incidents])
    BY <1>7
  <2>2. link' \in [names : {"none", "position", "token"}, at : 0 .. Total + 1]
    BY <1>10
  <2>3. Len(pages') <= MaxPages
    BY <1>2, <1>7 DEF NextPage
  <2>. HIDE DEF P
  <2>. QED BY <1>1, <1>6, <2>1, <2>2, <2>3 DEF TypeOK
<1>13. StagesAre'
  BY <1>1, <1>6, <1>7 DEF StagesAre, Listing, NextPage
<1>14. PagesFollow'
  <2>1. \A n \in 1 .. LastPage' - 1 : Through(n)' <= pages[LastPage]'.before
    <3>1. \A n \in 1 .. LastPage : Through(n) <= Got
      BY DEF NextPage
    <3>2. 1 .. LastPage' - 1 = 1 .. LastPage /\ pages[LastPage]'.before = Got
      BY <1>2, <1>7, <1>8
    <3>. QED BY <1>9, <3>1, <3>2
  <2>2. pages[LastPage]'.before < Asked'
    BY <1>7, <1>8, <1>11 DEF NextPage
  <2>3. skip' <= Start(LastPage)' /\ Start(LastPage)' <= count'
    BY <1>2, <1>6, <1>9
  <2>4. Start(LastPage)' = skip' => pages[LastPage]'.before = 0
    BY <1>0, <1>6, <1>7, <1>8, <1>9
  <2>5. \A i \in pages[LastPage]'.shown : Start(LastPage)' <= count' - i
    <3>1. \A i \in S : i \in 1 .. count - k
      BY <1>4
    <3>2. pages[LastPage]'.shown = S
      BY <1>7, <1>8
    <3>3. \A i \in S : start <= count - i
      BY <1>2, <3>1
    <3>. QED BY <1>6, <1>9, <3>2, <3>3
  <2>. QED BY <2>1, <2>2, <2>3, <2>4, <2>5 DEF PagesFollow
<1>15. LinkLeadsOn'
  <2>1. link' # NoLink => link'.names = sends' /\ sends' # "none"
    BY <1>6, <1>10
  <2>2. sends' = "none" => LastPage' = 1 /\ Start(1)' = skip' /\ pages[1]'.before = 0
    <3>. SUFFICES ASSUME sends = "none"
                  PROVE  LastPage' = 1 /\ Start(LastPage)' = skip' /\ pages[LastPage]'.before = 0
      BY <1>6
    <3>1. LastPage = 0 /\ Got = 0 /\ start = skip
      BY <1>0, <1>1, GotIs
    <3>. QED BY <1>6, <1>7, <1>8, <1>9, <3>1
  <2>3. link' # NoLink =>
          /\ Start(LastPage)' + Cardinality(pages[LastPage]'.shown) <= Goes(link)'
          /\ Goes(link)' <= count' /\ skip' <= Goes(link)'
    <3>1. /\ Start(LastPage)' = start /\ pages[LastPage]'.shown = S
          /\ count' = count /\ skip' = skip
      BY <1>6, <1>7, <1>8, <1>9
    <3>2. link' # NoLink => Goes(link)' = e
      BY <1>10
    <3>3. /\ start \in Int /\ start <= k /\ skip <= k /\ e \in Int /\ e <= count
          /\ k + Cardinality(S) <= e /\ Cardinality(S) \in Nat
      BY <1>2, <1>3, <1>4
    <3>. QED BY <1>2, <3>1, <3>2, <3>3
  <2>4. sends' = "token" => Start(LastPage)' = skip' + pages[LastPage]'.before
    BY <1>0, <1>6, <1>7, <1>8, <1>9
  <2>. QED BY <2>1, <2>2, <2>3, <2>4 DEF LinkLeadsOn, NoLink
<1>16. UnseenIsAhead'
  <2>. SUFFICES ASSUME NEW i \in due \ seen
                PROVE  \/ \E n \in 1 .. LastPage' : i \in pages'[n].shown
                       \/ link' # NoLink /\ Goes(link)' <= count' - i
                       \/ sends' = "none" /\ Got' = Asked' /\ skip' + Got' <= count' - i
    BY <1>6 DEF UnseenIsAhead, NoLink
  <2>0. k <= count - i \/ \E n \in 1 .. LastPage : i \in pages[n].shown
    BY DEF NextPage
  <2>1. CASE \E n \in 1 .. LastPage : i \in pages[n].shown
    <3>1. PICK n \in 1 .. LastPage : i \in pages[n].shown
      BY <2>1
    <3>2. n \in 1 .. LastPage' /\ pages'[n] = pages[n]
      BY <1>2, <1>7
    <3>. QED BY <3>1, <3>2
  <2>2. CASE k <= count - i
    <3>1. i \in 1 .. count /\ i \notin hidden
      BY <1>1 DEF StagesAre
    <3>2. CASE i \in S
      BY <1>2, <1>7, <1>8, <3>2
    <3>3. CASE i \notin S
      <4>1. e <= count - i /\ e # count
        BY <1>2, <1>3, <1>4, <2>2, <3>1, <3>3
      <4>2. CASE sends = "none"
        <5>1. Cardinality(S) = Asked /\ Got = 0
          BY <1>0, <1>1, <1>3, <4>1, <4>2, GotIs
        <5>2. skip + Cardinality(S) <= count - i
          BY <1>2, <1>3, <1>4, <3>1, <4>1
        <5>. QED BY <1>4, <1>6, <1>9, <1>11, <4>2, <5>1, <5>2
      <4>3. CASE sends # "none"
        BY <1>6, <1>10, <4>1, <4>3
      <4>. QED BY <4>2, <4>3
    <3>. QED BY <3>2, <3>3
  <2>. QED BY <2>0, <2>1, <2>2
<1>17. QuietPages'
  <2>. DEFINE last == pages'[LastPage'].shown
  <2>. SUFFICES ASSUME Quiet'
                PROVE  /\ \A i \in seen' : count' - i < skip'
                       /\ last = {i \in 1 .. count' :
                                   /\ Start(LastPage)' <= count' - i
                                   /\ count' - i < Start(LastPage)' + Cardinality(last)}
                       /\ \A n \in 1 .. LastPage' - 1 : \A i \in pages'[n].shown :
                            skip' <= count' - i /\ count' - i < Start(LastPage)'
                       /\ \A m, n \in 1 .. LastPage' :
                            m # n => pages'[m].shown \cap pages'[n].shown = {}
                       /\ link' # NoLink => Goes(link)' = Start(LastPage)' + Cardinality(last)
    BY DEF QuietPages, NoLink
  <2>0. /\ Quiet /\ last = S
        /\ LastPage' = LastPage + 1 /\ LastPage' - 1 = LastPage
    BY <1>2, <1>6, <1>7, <1>8 DEF Quiet
  <2>. HIDE DEF last
  <2>1. start = k /\ hidden = {} /\ e = k + Cardinality(S)
    BY <1>4, <2>0 DEF Quiet, InLine
  <2>2. S = {i \in 1 .. count : start <= count - i /\ count - i < start + Cardinality(S)}
    BY <1>4, <2>1
  <2>3. \A n \in 1 .. LastPage : \A i \in pages'[n].shown :
          skip <= count - i /\ count - i < start
    BY <1>7, <2>0, <2>1 DEF InLine
  <2>4. \A n \in 1 .. LastPage : pages'[n].shown \cap S = {}
    <3>1. \A i \in S : i \in Int /\ start <= count - i
      BY <1>2, <2>2
    <3>2. \A i \in Int : ~ (start <= count - i /\ count - i < start)
      BY <1>2
    <3>. QED BY <2>3, <3>1, <3>2
  <2>5. ASSUME NEW m \in 1 .. LastPage + 1, NEW n \in 1 .. LastPage + 1, m # n
        PROVE  pages'[m].shown \cap pages'[n].shown = {}
    <3>1. CASE m \in 1 .. LastPage /\ n \in 1 .. LastPage
      BY <1>7, <2>0, <2>5, <3>1 DEF InLine
    <3>2. CASE m = LastPage + 1 \/ n = LastPage + 1
      <4>1. m = LastPage + 1 => n \in 1 .. LastPage
        BY <1>2, <2>5
      <4>2. n = LastPage + 1 => m \in 1 .. LastPage
        BY <1>2, <2>5
      <4>. QED BY <1>7, <1>8, <2>4, <3>2, <4>1, <4>2
    <3>3. (m = LastPage + 1 \/ m \in 1 .. LastPage) /\ (n = LastPage + 1 \/ n \in 1 .. LastPage)
      BY <1>2
    <3>. QED BY <3>1, <3>2, <3>3
  <2>6. link' # NoLink => Goes(link)' = start + Cardinality(S)
    BY <1>10, <2>1
  <2>7. \A i \in seen : count - i < skip
    BY <2>0 DEF InLine
  <2>8. last = {i \in 1 .. count' : /\ Start(LastPage)' <= count' - i
                                    /\ count' - i < Start(LastPage)' + Cardinality(last)}
    BY <1>6, <1>9, <2>0, <2>2
  <2>9. \A n \in 1 .. LastPage' - 1 : \A i \in pages'[n].shown :
          skip' <= count' - i /\ count' - i < Start(LastPage)'
    <3>1. 1 .. LastPage' - 1 = 1 .. LastPage
      BY <2>0
    <3>. QED BY <1>6, <1>9, <2>3, <3>1
  <2>10. \A m, n \in 1 .. LastPage' : m # n => pages'[m].shown \cap pages'[n].shown = {}
    BY <2>0, <2>5
  <2>. QED BY <1>6, <1>9, <2>0, <2>6, <2>7, <2>8, <2>9, <2>10
<1>18. SweepIsExact' /\ TruncatedIsTrue'
  <2>1. outcome' = "none" /\ (Quiet' <=> Quiet)
    BY <1>1, <1>6 DEF StagesAre, Quiet
  <2>. QED BY <1>6, <2>1 DEF Inductive, SweepIsExact, NothingMissed, ReadOnce, TruncatedIsTrue
<1>. QED BY <1>12, <1>13, <1>14, <1>15, <1>16, <1>17, <1>18 DEF Inductive

\* The first page of a listing starts where the listing does.
LEMMA AskStep == Inductive /\ Ask => Inductive'
<1>. SUFFICES ASSUME Inductive, Ask PROVE Inductive'
  OBVIOUS
<1>1. TypeOK /\ StagesAre /\ stage = "asking" /\ pages = <<>>
  BY DEF Inductive, StagesAre, Ask
<1>2. /\ Got = 0 /\ LastPage = 0 /\ Asked \in Nat \ {0} /\ MaxPages \in Nat \ {0}
      /\ skip \in 0 .. Total /\ count \in 0 .. Total /\ skip <= count
      /\ skip \in skip .. count /\ skip \in None .. Total /\ skip \in skip .. skip /\ skip # None
  BY <1>1, GotIs, AskedIs DEF TypeOK, StagesAre, None
<1>3. PICK e \in Ends(skip, Asked) : Take(skip, [shown |-> Shown(skip, e), link |-> LinkTo(e)])
  BY DEF Ask, Answers
<1>4. /\ \A n \in 1 .. LastPage : FALSE
      /\ \A i \in due \ seen : skip <= count - i
      /\ Quiet => \A i \in seen : count - i < skip
  BY <1>1, <1>2 DEF Inductive, UnseenIsAhead, QuietPages
<1>5. skip = IF skip = None THEN skip + Got ELSE skip
  BY <1>2
<1>6. sends = "token" => skip = skip + Got
  BY <1>2
<1>7. NextPage(skip, skip, skip)
  BY <1>1, <1>2, <1>4, <1>5, <1>6 DEF NextPage
<1>8. Quiet => InLine(skip, skip)
  BY <1>2, <1>4 DEF InLine
<1>. QED BY <1>1, <1>2, <1>3, <1>7, <1>8, TakeStep

\* The next page starts where the link leads, which is nowhere before the page's
\* start as it is counted.
LEMMA FollowStep == Inductive /\ Follow => Inductive'
<1>. SUFFICES ASSUME Inductive, Follow PROVE Inductive'
  OBVIOUS
<1>. DEFINE k == Goes(link)
            from == SkipOf(link)
            start == IF from = None THEN skip + Got ELSE from
            last == pages[LastPage].shown
<1>1. /\ TypeOK /\ StagesAre /\ stage = "reading" /\ Listing /\ pages # <<>>
      /\ link # NoLink /\ LastPage < MaxPages
  BY DEF Inductive, StagesAre, Follow, MayReadOn, Listing, LastPage
<1>2. /\ skip \in 0 .. Total /\ count \in 0 .. Total /\ LastPage \in Nat /\ LastPage >= 1
      /\ Got = pages[LastPage].before + Cardinality(last) /\ Got \in Nat
      /\ Cardinality(last) \in Nat /\ pages[LastPage].before \in Nat /\ Start(LastPage) \in Nat
      /\ sends \in {"position", "token", "none"}
      /\ link \in [names : {"none", "position", "token"}, at : 0 .. Total + 1]
  <2>1. /\ skip \in 0 .. Total /\ count \in 0 .. Total
        /\ sends \in {"position", "token", "none"}
        /\ link \in [names : {"none", "position", "token"}, at : 0 .. Total + 1]
    BY <1>1 DEF TypeOK
  <2>. QED BY <1>1, <2>1, PagesAre
<1>3. Got < Asked
  <2>1. Max({Asked, top}) = Asked
    BY <1>1, AskedIs DEF TypeOK
  <2>. QED BY <2>1 DEF Follow, MayReadOn
<1>4. /\ link.names = sends /\ sends # "none" /\ Start(LastPage) + Cardinality(last) <= k
      /\ k <= count /\ skip <= k /\ k \in Int
      /\ sends = "token" => Start(LastPage) = skip + pages[LastPage].before
  <2>1. LinkLeadsOn
    BY DEF Inductive
  <2>2. /\ link.names = sends /\ sends # "none" /\ k <= count /\ skip <= k
        /\ Start(LastPage) + Cardinality(last) <= k
        /\ sends = "token" => Start(LastPage) = skip + pages[LastPage].before
    BY <1>1, <2>1 DEF LinkLeadsOn
  <2>. QED BY <1>2, <2>2 DEF Goes
<1>5. /\ start \in skip .. k /\ from \in None .. Total /\ k \in skip .. count
      /\ start = skip => Got = 0
      /\ sends = "token" => start = skip + Got
      /\ sends = "position" => start = k
  <2>1. /\ skip <= Start(LastPage)
        /\ Start(LastPage) = skip => pages[LastPage].before = 0
    BY <1>1 DEF Inductive, PagesFollow
  <2>2. CASE sends = "token"
    BY <1>2, <1>4, <2>1, <2>2 DEF SkipOf, None
  <2>3. CASE sends = "position"
    <3>1. from = link.at /\ k = link.at /\ from # None
      BY <1>2, <1>4, <2>3 DEF SkipOf, Goes, None
    <3>2. start = k /\ Start(LastPage) + Cardinality(last) <= k /\ skip <= k /\ k <= count
      BY <1>4, <3>1
    <3>3. k = skip => Got = 0
      BY <1>2, <2>1, <3>2
    <3>4. from \in None .. Total
      BY <1>2, <1>4, <3>1, <3>2 DEF None
    <3>. QED BY <1>2, <1>4, <2>3, <3>2, <3>3, <3>4
  <2>. QED BY <1>2, <1>4, <2>2, <2>3
<1>6. \A n \in 1 .. LastPage : Through(n) <= Got
  BY <1>1, ThroughIs DEF Inductive
<1>7. \A i \in due \ seen : k <= count - i \/ \E n \in 1 .. LastPage : i \in pages[n].shown
  BY <1>1, <1>4 DEF Inductive, UnseenIsAhead
<1>8. ASSUME Quiet
      PROVE  /\ start = k
             /\ \A i \in seen : count - i < skip
             /\ \A n \in 1 .. LastPage : \A i \in pages[n].shown :
                  skip <= count - i /\ count - i < k
             /\ \A m, n \in 1 .. LastPage : m # n => pages[m].shown \cap pages[n].shown = {}
  <2>1. /\ \A i \in seen : count - i < skip
        /\ last = {i \in 1 .. count : /\ Start(LastPage) <= count - i
                                      /\ count - i < Start(LastPage) + Cardinality(last)}
        /\ \A n \in 1 .. LastPage - 1 : \A i \in pages[n].shown :
             skip <= count - i /\ count - i < Start(LastPage)
        /\ \A m, n \in 1 .. LastPage : m # n => pages[m].shown \cap pages[n].shown = {}
        /\ k = Start(LastPage) + Cardinality(last)
    BY <1>1, <1>8 DEF Inductive, QuietPages
  <2>2. start = k
    BY <1>2, <1>4, <1>5, <2>1
  <2>3. skip <= Start(LastPage)
    BY <1>1 DEF Inductive, PagesFollow
  <2>4. ASSUME NEW n \in 1 .. LastPage, NEW i \in pages[n].shown
        PROVE  skip <= count - i /\ count - i < k
    <3>1. pages[n].shown \in SUBSET (1 .. Total)
      BY <1>1, PagesAre DEF Incidents
    <3>2. i \in Int
      BY <3>1
    <3>3. CASE n = LastPage
      <4>1. Start(LastPage) <= count - i /\ count - i < Start(LastPage) + Cardinality(last)
        BY <2>1, <2>4, <3>3
      <4>. QED BY <1>2, <2>1, <2>3, <3>2, <4>1
    <3>4. CASE n \in 1 .. LastPage - 1
      <4>1. skip <= count - i /\ count - i < Start(LastPage)
        BY <2>1, <2>4, <3>4
      <4>. QED BY <1>2, <2>1, <3>2, <4>1
    <3>. QED BY <1>2, <3>3, <3>4
  <2>. QED BY <2>1, <2>2, <2>4
<1>9. PICK e \in Ends(k, Asked) : Take(from, [shown |-> Shown(k, e), link |-> LinkTo(e)])
  BY DEF Follow, Answers
<1>10. start = IF from = None THEN skip + Got ELSE from
  OBVIOUS
<1>. HIDE DEF k, from, start, last
<1>11. NextPage(k, from, start)
  BY <1>1, <1>3, <1>4, <1>5, <1>6, <1>7, <1>10 DEF NextPage
<1>12. Quiet => InLine(k, start)
  BY <1>8 DEF InLine
<1>. QED BY <1>1, <1>5, <1>9, <1>11, <1>12, TakeStep

\* A new incident pushes everything on by one, the next token's page included.
LEMMA CreateStep == Inductive /\ Create => Inductive'
<1>. SUFFICES ASSUME Inductive, Create PROVE Inductive'
  OBVIOUS
<1>1. /\ TypeOK /\ StagesAre /\ count \in 0 .. Total /\ count' = count + 1 /\ count < Total
      /\ skip \in 0 .. Total /\ skip <= count
      /\ link \in [names : {"none", "position", "token"}, at : 0 .. Total + 1]
      /\ UNCHANGED <<hidden, sends, top, due, stage, skip, pages, link, seen, twice, outcome>>
  BY DEF Inductive, TypeOK, StagesAre, Create, sweep, listing, given
<1>2. TypeOK'
  BY <1>1 DEF TypeOK
<1>3. /\ LastPage' = LastPage /\ Got' = Got /\ Asked' = Asked /\ Start(LastPage)' = Start(LastPage)
      /\ Listing' = Listing /\ MustProbe' = MustProbe
      /\ \A n \in 1 .. LastPage : Through(n)' = Through(n)
      /\ Start(1)' = Start(1)
  BY <1>1 DEF LastPage, Got, Asked, Start, Through, Listing, MustProbe
<1>4. StagesAre'
  <2>1. due \subseteq (1 .. count + 1) \ hidden
    BY <1>1 DEF StagesAre
  <2>. QED BY <1>1, <1>3, <2>1 DEF StagesAre
<1>5. Listing => /\ Start(LastPage) \in Nat /\ LastPage \in Nat /\ LastPage >= 1
                 /\ pages[LastPage].shown \in SUBSET (1 .. Total)
  BY <1>1, PagesAre DEF StagesAre, Incidents
<1>6. PagesFollow'
  <2>. SUFFICES ASSUME Listing
                PROVE  /\ \A n \in 1 .. LastPage - 1 : Through(n)' <= pages[LastPage].before
                       /\ pages[LastPage].before < Asked
                       /\ skip <= Start(LastPage) /\ Start(LastPage) <= count'
                       /\ Start(LastPage) = skip => pages[LastPage].before = 0
                       /\ \A i \in pages[LastPage].shown : Start(LastPage) <= count' - i
    BY <1>1, <1>3 DEF PagesFollow
  <2>1. /\ \A n \in 1 .. LastPage - 1 : Through(n) <= pages[LastPage].before
        /\ pages[LastPage].before < Asked
        /\ skip <= Start(LastPage) /\ Start(LastPage) <= count
        /\ Start(LastPage) = skip => pages[LastPage].before = 0
        /\ \A i \in pages[LastPage].shown : Start(LastPage) <= count - i
    BY DEF Inductive, PagesFollow
  <2>2. \A i \in pages[LastPage].shown : i \in Int
    BY <1>5
  <2>. QED BY <1>1, <1>3, <1>5, <2>1, <2>2
<1>7. /\ Goes(link) <= Goes(link)' /\ Goes(link) \in Int
      /\ Goes(link)' \in {Goes(link), Goes(link) + 1}
  BY <1>1 DEF Goes
<1>8. LinkLeadsOn'
  <2>1. ASSUME Listing, link # NoLink
        PROVE  /\ Start(LastPage) + Cardinality(pages[LastPage].shown) <= Goes(link)'
               /\ Goes(link)' <= count' /\ skip <= Goes(link)'
    <3>1. /\ Start(LastPage) + Cardinality(pages[LastPage].shown) <= Goes(link)
          /\ Goes(link) <= count /\ skip <= Goes(link)
      BY <2>1 DEF Inductive, LinkLeadsOn
    <3>2. Cardinality(pages[LastPage].shown) \in Nat
      BY <1>1, <2>1, <1>5, PagesAre DEF StagesAre
    <3>. QED BY <1>1, <1>5, <1>7, <2>1, <3>1, <3>2
  <2>. QED BY <1>1, <1>3, <2>1 DEF Inductive, LinkLeadsOn, NoLink
<1>9. UnseenIsAhead'
  <2>. SUFFICES ASSUME NEW i \in due \ seen
                PROVE  /\ stage = "asking" => skip <= count' - i
                       /\ Listing =>
                            \/ \E n \in 1 .. LastPage : i \in pages[n].shown
                            \/ link # NoLink /\ Goes(link)' <= count' - i
                            \/ sends = "none" /\ Got = Asked /\ skip + Got <= count' - i
    BY <1>1, <1>3 DEF UnseenIsAhead, NoLink
  <2>1. i \in Int /\ Got \in Nat
    BY <1>1, GotIs DEF StagesAre
  <2>2. /\ stage = "asking" => skip <= count - i
        /\ Listing =>
             \/ \E n \in 1 .. LastPage : i \in pages[n].shown
             \/ link # NoLink /\ Goes(link) <= count - i
             \/ sends = "none" /\ Got = Asked /\ skip + Got <= count - i
    BY DEF Inductive, UnseenIsAhead
  <2>. QED BY <1>1, <1>7, <2>1, <2>2
<1>10. ~ Quiet'
  <2>1. count' \notin due /\ count' \in 1 .. count'
    BY <1>1 DEF StagesAre
  <2>. QED BY <1>1, <2>1 DEF Quiet
<1>11. QuietPages' /\ SweepIsExact'
  BY <1>1, <1>10 DEF Inductive, QuietPages, SweepIsExact, ReadOnce, NothingMissed
<1>12. TruncatedIsTrue'
  BY <1>1, <1>3 DEF Inductive, TruncatedIsTrue
<1>. QED BY <1>2, <1>4, <1>6, <1>8, <1>9, <1>11, <1>12 DEF Inductive

\* The next request is the listing's own: a probe.
LEMMA ProbeStep == Inductive /\ Probe => Inductive'
<1>. SUFFICES ASSUME Inductive, Probe PROVE Inductive'
  OBVIOUS
<1>1. /\ stage = "reading" /\ stage' = "probing" /\ MustProbe /\ TypeOK
      /\ UNCHANGED <<count, hidden, sends, top, due, skip, pages, link, seen, twice, outcome>>
  BY DEF Inductive, Probe, service, sweep, listing, given
<1>2. /\ LastPage' = LastPage /\ Got' = Got /\ Asked' = Asked /\ Goes(link)' = Goes(link)
      /\ Listing' /\ Listing /\ MustProbe' /\ (Quiet' <=> Quiet)
      /\ \A n : Through(n)' = Through(n) /\ Start(n)' = Start(n)
  BY <1>1 DEF LastPage, Got, Asked, Goes, Start, Through, Listing, MustProbe, Quiet
<1>3. TypeOK' /\ StagesAre' /\ PagesFollow'
  BY <1>1, <1>2 DEF Inductive, TypeOK, StagesAre, PagesFollow
<1>4. LinkLeadsOn' /\ UnseenIsAhead'
  BY <1>1, <1>2 DEF Inductive, LinkLeadsOn, UnseenIsAhead, NoLink
<1>5. QuietPages'
  BY <1>1, <1>2 DEF Inductive, QuietPages, NoLink
<1>6. SweepIsExact' /\ TruncatedIsTrue'
  BY <1>1, <1>2 DEF Inductive, SweepIsExact, NothingMissed, ReadOnce, TruncatedIsTrue
<1>. QED BY <1>3, <1>4, <1>5, <1>6 DEF Inductive

\* Everything the service shows as a sweep begins is ahead of its first listing.
LEMMA BeginStep == Inductive /\ Begin => Inductive'
<1>. SUFFICES ASSUME Inductive, Begin PROVE Inductive'
  OBVIOUS
<1>1. /\ stage = "begin" /\ stage' = "asking" /\ TypeOK /\ StagesAre /\ due' = (1 .. count) \ hidden
      /\ seen = {} /\ skip = 0 /\ twice = {} /\ pages = <<>> /\ link = NoLink /\ outcome = "none"
      /\ count \in 0 .. Total
      /\ UNCHANGED <<count, hidden, sends, top, skip, pages, link, seen, twice, outcome>>
  BY DEF Inductive, TypeOK, StagesAre, Begin, service, listing, given
<1>2. TypeOK' /\ StagesAre'
  BY <1>1 DEF TypeOK, StagesAre, Listing, NoLink, Incidents
<1>3. PagesFollow' /\ LinkLeadsOn' /\ QuietPages'
  BY <1>1 DEF PagesFollow, LinkLeadsOn, QuietPages, Listing, NoLink
<1>4. UnseenIsAhead'
  BY <1>1 DEF UnseenIsAhead, Listing
<1>5. SweepIsExact' /\ TruncatedIsTrue'
  BY <1>1 DEF SweepIsExact, NothingMissed, ReadOnce, TruncatedIsTrue
<1>. QED BY <1>2, <1>3, <1>4, <1>5 DEF Inductive

\* A sweep whose request fails promises nothing.
LEMMA FailStep == Inductive /\ Fail => Inductive'
<1>. SUFFICES ASSUME Inductive, Fail PROVE Inductive'
  OBVIOUS
<1>1. /\ stage' = "over" /\ outcome' = "failed" /\ pages' = <<>> /\ link' = NoLink
      /\ TypeOK /\ StagesAre
      /\ UNCHANGED <<count, hidden, sends, top, due, skip, seen, twice>>
  BY DEF Inductive, Fail, service, sweep
<1>2. TypeOK'
  BY <1>1 DEF TypeOK, NoLink
<1>3. StagesAre' /\ PagesFollow' /\ LinkLeadsOn' /\ UnseenIsAhead' /\ QuietPages'
  BY <1>1 DEF StagesAre, PagesFollow, LinkLeadsOn, UnseenIsAhead, QuietPages, Listing, NoLink
<1>4. SweepIsExact' /\ TruncatedIsTrue'
  BY <1>1 DEF Inductive, SweepIsExact, NothingMissed, ReadOnce, Quiet, TruncatedIsTrue
<1>. QED BY <1>2, <1>3, <1>4 DEF Inductive

LEMMA InitInductive == Init => Inductive
<1>. SUFFICES ASSUME Init PROVE Inductive
  OBVIOUS
<1>1. TypeOK
  <2>1. pages = <<>> /\ Len(pages) = 0
    BY DEF Init
  <2>2. pages \in Seq([from : None .. Total, before : Nat, shown : SUBSET Incidents])
    BY <2>1
  <2>. QED BY <2>1, <2>2 DEF Init, TypeOK, NoLink
<1>2. StagesAre /\ PagesFollow /\ LinkLeadsOn /\ UnseenIsAhead /\ QuietPages
  BY DEF Init, StagesAre, PagesFollow, LinkLeadsOn, UnseenIsAhead, QuietPages, Listing, NoLink
<1>3. SweepIsExact /\ TruncatedIsTrue
  BY DEF Init, SweepIsExact, NothingMissed, ReadOnce, TruncatedIsTrue
<1>. QED BY <1>1, <1>2, <1>3 DEF Inductive

\* The last page of a listing, its start and what comes before it.
LEMMA LastPageIs ==
  ASSUME TypeOK, StagesAre, PagesFollow, Listing
  PROVE  LET last == pages[LastPage].shown
             start == Start(LastPage)
             before == pages[LastPage].before
         IN  /\ pages # <<>> /\ LastPage \in 1 .. LastPage /\ LastPage \in Nat
             /\ LastPage = Len(pages) /\ LastPage <= MaxPages
             /\ count \in Nat /\ count <= Total /\ skip \in Nat /\ top \in Nat \ {0}
             /\ before \in Nat /\ Cardinality(last) \in Nat /\ IsFiniteSet(last)
             /\ start \in Nat /\ Got = before + Cardinality(last) /\ Got \in Nat
             /\ start <= count /\ skip <= start
             /\ Asked \in {top, top + 1} /\ Max({Asked, top}) = Asked
             /\ before < Asked /\ before <= top /\ (start = skip => before = 0)
<1>1. pages # <<>>
  BY DEF StagesAre
<1>2. /\ LastPage \in 1 .. LastPage /\ LastPage \in Nat
      /\ LastPage = Len(pages) /\ LastPage <= MaxPages
  BY <1>1, PagesAre DEF LastPage
<1>3. /\ pages[LastPage].before \in Nat /\ Cardinality(pages[LastPage].shown) \in Nat
      /\ IsFiniteSet(pages[LastPage].shown) /\ Start(LastPage) \in Nat /\ Got \in Nat
      /\ Got = pages[LastPage].before + Cardinality(pages[LastPage].shown)
  BY <1>1, <1>2, PagesAre
<1>4. /\ top \in Nat \ {0} /\ Asked \in {top, top + 1} /\ Max({Asked, top}) = Asked
  <2>1. top \in Tops
    BY DEF TypeOK
  <2>. QED BY <2>1, AskedIs
<1>5. /\ skip <= Start(LastPage) /\ Start(LastPage) <= count /\ pages[LastPage].before < Asked
      /\ Start(LastPage) = skip => pages[LastPage].before = 0
  BY DEF PagesFollow
<1>6. count \in Nat /\ count <= Total /\ skip \in Nat
  BY DEF TypeOK
<1>7. pages[LastPage].before <= top
  BY <1>3, <1>4, <1>5
<1>. QED BY <1>1, <1>2, <1>3, <1>4, <1>5, <1>6, <1>7

\* What a listing of `top` incidents leaves out of its pages: nothing but the last
\* page's incidents from its place `top` on. In a quiet listing, what it lists is
\* what comes between its start and there, each incident once.
LEMMA ListedAre ==
  ASSUME TypeOK, StagesAre, PagesFollow, Listing
  PROVE  /\ Listed \subseteq Incidents
         /\ pages[LastPage].before <= top
         /\ Start(LastPage) + Cardinality(pages[LastPage].shown) <= count
         /\ \A n \in 1 .. LastPage : \A i \in pages[n].shown :
              i \notin Listed =>
                Got > top /\ Start(LastPage) + top - pages[LastPage].before <= count - i
         /\ Quiet /\ QuietPages =>
              /\ \A i \in Listed :
                   /\ skip <= count - i
                   /\ count - i < Start(LastPage) + top - pages[LastPage].before
                   /\ count - i < Start(LastPage) + Cardinality(pages[LastPage].shown)
              /\ \A m, n \in 1 .. LastPage : m # n => ListedOf(m) \cap ListedOf(n) = {}
<1>. DEFINE last == pages[LastPage].shown
            start == Start(LastPage)
            before == pages[LastPage].before
<1>1. /\ pages # <<>> /\ LastPage \in 1 .. LastPage /\ LastPage \in Nat /\ LastPage = Len(pages)
      /\ count \in Nat /\ skip \in Nat /\ top \in Nat /\ before \in Nat /\ Cardinality(last) \in Nat
      /\ start \in Nat /\ Got = before + Cardinality(last) /\ start <= count /\ skip <= start
      /\ Asked \in {top, top + 1} /\ before < Asked /\ IsFiniteSet(last)
  BY LastPageIs
<1>2. before <= top
  BY <1>1
<1>3. ASSUME NEW n \in 1 .. LastPage, NEW i \in pages[n].shown
      PROVE  i \in Incidents /\ i \in Int
  <2>1. pages[n].shown \in SUBSET (1 .. Total)
    BY <1>1, PagesAre DEF Incidents
  <2>. QED BY <2>1 DEF Incidents
<1>4. last \in SUBSET (1 .. count - start)
  <2>1. ASSUME NEW i \in last PROVE i \in 1 .. count - start
    <3>1. start <= count - i
      BY DEF PagesFollow
    <3>2. i \in 1 .. Total
      BY <1>1, <1>3 DEF Incidents
    <3>. QED BY <1>1, <3>1, <3>2
  <2>. QED BY <2>1
<1>5. start + Cardinality(last) <= count
  <2>. DEFINE b == count - start
  <2>1. 1 \in Int /\ b \in Int /\ 1 <= b + 1 /\ last \in SUBSET (1 .. b)
    BY <1>1, <1>4
  <2>. HIDE DEF b, last
  <2>2. Cardinality(last) <= b - 1 + 1
    BY <2>1, Counted
  <2>. QED BY <1>1, <2>2 DEF b
<1>6. ASSUME NEW n \in 1 .. LastPage, NEW i \in pages[n].shown
      PROVE  Index(n, i) \in Nat /\ Index(n, i) < Through(n)
  <2>. DEFINE newer == {j \in pages[n].shown : j > i}
  <2>1. /\ IsFiniteSet(pages[n].shown) /\ Cardinality(pages[n].shown) \in Nat
        /\ pages[n].before \in Nat
    BY <1>1, PagesAre
  <2>2. newer \in SUBSET pages[n].shown /\ newer # pages[n].shown
    BY <1>3
  <2>. HIDE DEF newer
  <2>3. /\ Cardinality(newer) \in Nat /\ Cardinality(newer) <= Cardinality(pages[n].shown)
        /\ Cardinality(newer) # Cardinality(pages[n].shown)
    BY <2>1, <2>2, FS_Subset, FS_CardinalityType
  <2>4. Index(n, i) = pages[n].before + Cardinality(newer)
    BY DEF Index, newer
  <2>. QED BY <2>1, <2>3, <2>4 DEF Through
<1>7. \A n \in 1 .. LastPage : Through(n) \in Nat /\ Through(n) <= Got
  BY <1>1, PagesAre, ThroughIs
<1>8. ASSUME NEW n \in 1 .. LastPage, NEW i \in pages[n].shown, Index(n, i) < top
      PROVE  i \in Listed
  BY <1>1, <1>8 DEF Listed, ListedOf
<1>9. \A n \in 1 .. LastPage - 1 : Through(n) <= before
  BY DEF PagesFollow
<1>10. ASSUME NEW i \in last
       PROVE  /\ Index(LastPage, i) >= top => start + top - before <= count - i
              /\ Quiet /\ QuietPages => start + Index(LastPage, i) - before = count - i
  <2>. DEFINE newer == NewerThan(i, last)
  <2>1. /\ Cardinality(newer) \in Nat /\ start + Cardinality(newer) <= count - i
        /\ last = Between(start, start + Cardinality(last)) =>
             start + Cardinality(newer) = count - i
    <3>1. start \in Nat /\ start <= count /\ count \in Nat /\ last \in SUBSET (1 .. count - start)
      BY <1>1, <1>4
    <3>2. i \in last
      OBVIOUS
    <3>. HIDE DEF start, last
    <3>. QED BY <3>1, <3>2, PlaceInPage
  <2>2. Index(LastPage, i) = before + Cardinality(newer)
    BY DEF Index, NewerThan
  <2>3. Quiet /\ QuietPages => last = Between(start, start + Cardinality(last))
    BY DEF QuietPages, Between
  <2>4. i \in Int /\ count \in Int /\ start \in Int /\ before \in Int /\ top \in Int
    BY <1>1, <1>3
  <2>. HIDE DEF newer, start, last, before
  <2>5. Index(LastPage, i) >= top => start + top - before <= count - i
    BY <2>1, <2>2, <2>4
  <2>6. Quiet /\ QuietPages => start + Index(LastPage, i) - before = count - i
    BY <2>1, <2>2, <2>3, <2>4
  <2>. QED BY <2>5, <2>6
<1>11. ASSUME NEW n \in 1 .. LastPage, NEW i \in pages[n].shown, i \notin Listed
       PROVE  Got > top /\ start + top - before <= count - i
  <2>1. Index(n, i) >= top /\ Index(n, i) < Through(n) /\ Through(n) <= Got
    BY <1>1, <1>6, <1>7, <1>8, <1>11
  <2>2. Got > top
    BY <1>1, <1>6, <1>7, <2>1
  <2>3. n = LastPage
    <3>1. ~ (n \in 1 .. LastPage - 1)
      <4>1. n \in 1 .. LastPage - 1 => Through(n) <= before
        BY <1>9
      <4>2. before \in Int /\ top \in Int /\ Index(n, i) \in Int /\ Through(n) \in Int
        BY <1>1, <1>6, <1>7
      <4>. HIDE DEF before, last, start
      <4>. QED BY <1>2, <2>1, <4>1, <4>2
    <3>. QED BY <1>1, <3>1
  <2>4. i \in last /\ Index(LastPage, i) >= top
    BY <2>1, <2>3
  <2>5. start + top - before <= count - i
    BY <1>10, <2>4
  <2>. QED BY <2>2, <2>5
<1>12. ASSUME Quiet, QuietPages, NEW n \in 1 .. LastPage, NEW i \in ListedOf(n)
       PROVE  /\ skip <= count - i /\ count - i < start + top - before
              /\ count - i < start + Cardinality(last)
  <2>1. i \in pages[n].shown /\ Index(n, i) < top
    BY DEF ListedOf
  <2>2. i \in Int
    BY <1>3, <2>1
  <2>3. CASE n = LastPage
    <3>1. start + Index(LastPage, i) - before = count - i /\ Index(LastPage, i) < Through(LastPage)
          /\ Index(LastPage, i) \in Nat
      BY <1>6, <1>10, <1>12, <2>1, <2>3
    <3>2. skip <= count - i
      BY <1>1, <2>1, <2>2, <2>3 DEF PagesFollow
    <3>3. Through(LastPage) = before + Cardinality(last)
      BY DEF Through
    <3>. HIDE DEF start, last, before
    <3>. QED BY <1>1, <2>1, <2>2, <2>3, <3>1, <3>2, <3>3
  <2>4. CASE n \in 1 .. LastPage - 1
    <3>1. skip <= count - i /\ count - i < start
      BY <1>12, <2>1, <2>4 DEF QuietPages
    <3>. HIDE DEF start, last, before
    <3>. QED BY <1>1, <1>2, <2>2, <3>1
  <2>. QED BY <1>1, <2>3, <2>4
<1>13. Listed \subseteq Incidents
  BY <1>1, <1>3 DEF Listed, ListedOf
<1>14. ASSUME Quiet, QuietPages
       PROVE  \A m, n \in 1 .. LastPage : m # n => ListedOf(m) \cap ListedOf(n) = {}
  BY <1>14 DEF QuietPages, ListedOf
<1>15. ASSUME Quiet, QuietPages, NEW i \in Listed
       PROVE  /\ skip <= count - i /\ count - i < start + top - before
              /\ count - i < start + Cardinality(last)
  <2>1. PICK n \in 1 .. LastPage : i \in ListedOf(n)
    BY <1>1 DEF Listed
  <2>. QED BY <1>12, <1>15, <2>1
<1>. QED BY <1>2, <1>5, <1>11, <1>13, <1>14, <1>15

\* A listing that concludes keeps the invariant: what is neither given nor listed
\* is past the position it names, if it names none nothing is left, and it names
\* one that is not past its own only when it brought nothing.
LEMMA ConcludeStep ==
  ASSUME Inductive, Listing, NEW position \in None .. count, Conclude(position),
         position # None => \A i \in due \ (seen \cup Listed) : position <= count - i,
         position = None => due \subseteq seen \cup Listed,
         Stuck(position) =>
           Got = 0 /\ Len(pages) = MaxPages /\ link # NoLink /\ SkipOf(link) <= skip,
         Quiet /\ position # None => \A i \in Listed : count - i < position
  PROVE  Inductive'
<1>1. /\ TypeOK /\ StagesAre /\ PagesFollow /\ LastPage = Len(pages)
      /\ count \in 0 .. Total /\ skip \in 0 .. Total
  BY DEF Inductive, TypeOK, LastPage
<1>2. /\ UNCHANGED <<count, hidden, sends, top, due>>
      /\ seen' = seen \cup Listed
      /\ twice' = twice \cup (seen \cap Listed)
           \cup {i \in Listed : \E m, n \in 1 .. Len(pages) :
                                m # n /\ i \in ListedOf(m) \cap ListedOf(n)}
  BY DEF Conclude, service, sweep
<1>3. Listed \subseteq Incidents /\ outcome = "none"
  BY <1>1, ListedAre DEF StagesAre, Listing
<1>4. ASSUME Quiet
      PROVE  twice' = {} /\ \A i \in seen : count - i < skip
  <2>1. /\ \A i \in Listed : skip <= count - i
        /\ \A m, n \in 1 .. LastPage : m # n => ListedOf(m) \cap ListedOf(n) = {}
    BY <1>1, <1>4, ListedAre DEF Inductive
  <2>2. \A i \in seen : count - i < skip
    BY <1>4 DEF Inductive, QuietPages, Listing
  <2>3. seen \cap Listed = {}
    <3>1. ASSUME NEW i \in seen, i \in Listed PROVE FALSE
      <4>1. skip <= count - i /\ count - i < skip /\ i \in Int
        BY <1>1, <1>3, <2>1, <2>2, <3>1 DEF Incidents
      <4>. QED BY <1>1, <4>1
    <3>. QED BY <3>1
  <2>4. {i \in Listed : \E m, n \in 1 .. Len(pages) :
           m # n /\ i \in ListedOf(m) \cap ListedOf(n)} = {}
    BY <1>1, <2>1
  <2>5. twice = {}
    BY <1>4 DEF Inductive, SweepIsExact, ReadOnce
  <2>. QED BY <1>2, <2>2, <2>3, <2>4, <2>5
<1>5. Quiet' <=> Quiet
  BY <1>2 DEF Quiet
<1>6. seen' \subseteq Incidents /\ twice' \subseteq seen'
  <2>1. seen \subseteq Incidents /\ twice \subseteq seen
    BY <1>1 DEF TypeOK
  <2>. QED BY <1>2, <1>3, <2>1
<1>7. CASE /\ position # None /\ ~ Stuck(position)
           /\ stage' = "asking" /\ skip' = position
           /\ pages' = <<>> /\ link' = NoLink
           /\ UNCHANGED outcome
  <2>1. position \in 0 .. Total /\ position <= count /\ position > skip
    BY <1>1, <1>7 DEF Stuck, None
  <2>2. TypeOK'
    <3>1. /\ Len(pages') <= MaxPages
          /\ pages' \in Seq([from : None .. Total, before : Nat, shown : SUBSET Incidents])
      BY <1>7
    <3>. QED BY <1>1, <1>2, <1>6, <1>7, <2>1, <3>1 DEF TypeOK, NoLink
  <2>3. StagesAre' /\ PagesFollow' /\ LinkLeadsOn'
    BY <1>1, <1>2, <1>3, <1>7, <2>1 DEF StagesAre, PagesFollow, LinkLeadsOn, Listing, NoLink
  <2>4. UnseenIsAhead'
    BY <1>2, <1>7 DEF UnseenIsAhead, Listing
  <2>5. QuietPages'
    <3>1. ASSUME Quiet, NEW i \in seen' PROVE count - i < position
      <4>1. CASE i \in Listed
        BY <1>7, <3>1, <4>1
      <4>2. CASE i \in seen
        <5>1. count - i < skip /\ i \in Int
          BY <1>1, <1>4, <3>1, <4>2 DEF TypeOK, Incidents
        <5>. QED BY <1>1, <2>1, <5>1
      <4>. QED BY <1>2, <4>1, <4>2
    <3>. QED BY <1>2, <1>5, <1>7, <3>1 DEF QuietPages, Listing
  <2>6. SweepIsExact' /\ TruncatedIsTrue'
    BY <1>3, <1>4, <1>5, <1>7 DEF SweepIsExact, NothingMissed, ReadOnce, TruncatedIsTrue
  <2>. QED BY <2>2, <2>3, <2>4, <2>5, <2>6 DEF Inductive
<1>8. CASE /\ position # None => Stuck(position)
           /\ stage' = "over"
           /\ outcome' = IF Stuck(position) THEN "truncated" ELSE "whole"
           /\ UNCHANGED <<skip, pages, link>>
  <2>1. Got' = Got
    BY <1>8 DEF Got, Through
  <2>2. TypeOK'
    BY <1>1, <1>2, <1>6, <1>8 DEF TypeOK
  <2>3. StagesAre'
    BY <1>1, <1>2, <1>8 DEF StagesAre, Listing
  <2>4. PagesFollow' /\ UnseenIsAhead' /\ QuietPages'
    BY <1>8 DEF PagesFollow, UnseenIsAhead, QuietPages, Listing
  <2>5. LinkLeadsOn'
    BY <1>2, <1>8 DEF Inductive, LinkLeadsOn, Listing, NoLink
  <2>6. SweepIsExact'
    <3>1. outcome' = "whole" => due \subseteq seen'
      BY <1>2, <1>8
    <3>. QED BY <1>2, <1>4, <1>5, <3>1 DEF SweepIsExact, NothingMissed, ReadOnce
  <2>7. TruncatedIsTrue'
    BY <1>2, <1>8, <2>1 DEF TruncatedIsTrue, SkipOf, NoLink
  <2>. QED BY <2>2, <2>3, <2>4, <2>5, <2>6, <2>7 DEF Inductive
<1>. QED BY <1>7, <1>8 DEF Conclude

\* A listing without a probe.
LEMMA AnswerStep == Inductive /\ Answer => Inductive'
<1>. SUFFICES ASSUME Inductive, Answer PROVE Inductive'
  OBVIOUS
<1>. DEFINE last == pages[LastPage].shown
            start == Start(LastPage)
            before == pages[LastPage].before
<1>1. /\ TypeOK /\ StagesAre /\ PagesFollow /\ QuietPages /\ stage = "reading" /\ Listing
      /\ pages # <<>> /\ ~ MayReadOn /\ ~ MustProbe /\ LastPage = Len(pages)
  BY DEF Inductive, StagesAre, Answer, Listing, LastPage
<1>2. /\ LastPage \in Nat /\ LastPage <= MaxPages
      /\ count \in Nat /\ count <= Total /\ skip \in Nat /\ top \in Nat \ {0} /\ before \in Nat
      /\ Cardinality(last) \in Nat /\ start \in Nat /\ Got \in Nat
      /\ Got = before + Cardinality(last)
      /\ start <= count /\ skip <= start /\ before <= top /\ start + Cardinality(last) <= count
      /\ Asked \in {top, top + 1} /\ Max({Asked, top}) = Asked
      /\ start = skip => before = 0
      /\ sends \in {"position", "token", "none"}
      /\ link \in [names : {"none", "position", "token"}, at : 0 .. Total + 1]
  BY <1>1, LastPageIs, ListedAre DEF TypeOK
<1>3. /\ \A n \in 1 .. LastPage : \A i \in pages[n].shown :
           i \notin Listed => Got > top /\ start + top - before <= count - i
      /\ Quiet => \A i \in Listed : /\ count - i < start + top - before
                                    /\ count - i < start + Cardinality(last)
  BY <1>1, ListedAre
<1>4. \A i \in due \ seen :
        \/ \E n \in 1 .. LastPage : i \in pages[n].shown
        \/ link # NoLink /\ Goes(link) <= count - i
        \/ sends = "none" /\ Got = Asked /\ skip + Got <= count - i
  BY <1>1 DEF Inductive, UnseenIsAhead
<1>5. \A i \in due : i \in Int
  BY <1>1 DEF StagesAre
<1>6. sends = "none" => LastPage = 1 /\ start = skip /\ before = 0
  BY <1>1 DEF Inductive, LinkLeadsOn
<1>7. link # NoLink =>
        /\ link.names = sends /\ sends # "none"
        /\ start + Cardinality(last) <= Goes(link)
        /\ Goes(link) <= count /\ skip <= Goes(link) /\ Goes(link) \in Int
        /\ sends = "token" => start = skip + before
        /\ Quiet => Goes(link) = start + Cardinality(last)
  <2>1. LinkLeadsOn /\ QuietPages
    BY DEF Inductive
  <2>2. link # NoLink =>
          /\ link.names = sends /\ sends # "none"
          /\ start + Cardinality(last) <= Goes(link)
          /\ Goes(link) <= count /\ skip <= Goes(link)
          /\ sends = "token" => start = skip + before
    BY <1>1, <2>1 DEF LinkLeadsOn
  <2>3. link # NoLink /\ Quiet => Goes(link) = start + Cardinality(last)
    BY <1>1, <2>1 DEF QuietPages
  <2>4. Goes(link) \in Int
    BY <1>1, <1>2 DEF Goes, TypeOK
  <2>. QED BY <2>2, <2>3, <2>4
<1>8. Conclude(Resume)
  BY DEF Answer
<1>. HIDE DEF last, start, before
<1>9. CASE Got > top
  <2>1. Resume = start + top - before
    <3>1. Position(top) = start + top - before
      BY <1>1, <1>2, PositionIs DEF start, before
    <3>. QED BY <1>9, <3>1 DEF Resume
  <2>2. Resume \in None .. count /\ Resume # None /\ ~ Stuck(Resume)
    BY <1>2, <1>9, <2>1 DEF Stuck, None
  <2>3. ASSUME NEW i \in due \ (seen \cup Listed) PROVE Resume <= count - i
    <3>1. CASE \E n \in 1 .. LastPage : i \in pages[n].shown
      BY <1>3, <2>1, <2>3, <3>1
    <3>2. CASE link # NoLink /\ Goes(link) <= count - i
      BY <1>2, <1>5, <1>7, <1>9, <2>1, <2>3, <3>2
    <3>3. CASE sends = "none" /\ Got = Asked /\ skip + Got <= count - i
      BY <1>2, <1>5, <1>6, <1>9, <2>1, <2>3, <3>3
    <3>. QED BY <1>4, <2>3, <3>1, <3>2, <3>3
  <2>. QED BY <1>1, <1>3, <1>8, <2>1, <2>2, <2>3, ConcludeStep
<1>10. CASE Got <= top /\ link = NoLink
  <2>1. Resume = None /\ ~ Stuck(Resume) /\ Resume \in None .. count
    BY <1>2, <1>10 DEF Resume, Stuck, None
  <2>2. ~ (sends = "none" /\ Got = Asked)
    BY <1>1, <1>2, <1>10 DEF MustProbe
  <2>3. due \subseteq seen \cup Listed
    <3>1. ASSUME NEW i \in due \ seen PROVE i \in Listed
      <4>1. \E n \in 1 .. LastPage : i \in pages[n].shown
        BY <1>4, <1>10, <2>2
      <4>. QED BY <1>2, <1>3, <1>10, <4>1
    <3>. QED BY <3>1
  <2>. QED BY <1>1, <1>8, <2>1, <2>3, ConcludeStep
<1>11. CASE Got <= top /\ link # NoLink
  <2>1. /\ Resume \in Nat /\ Resume <= Goes(link) /\ Resume <= count
        /\ Resume <= skip => Got = 0 /\ SkipOf(link) <= skip
        /\ start + Cardinality(last) <= Resume
    <3>1. CASE sends = "token"
      <4>1. Resume = skip + Got /\ SkipOf(link) = None
        BY <1>2, <1>7, <1>11, <3>1 DEF Resume, SkipOf
      <4>. QED BY <1>2, <1>7, <1>11, <3>1, <4>1 DEF None
    <3>2. CASE sends = "position"
      <4>1. Resume = link.at /\ Goes(link) = link.at /\ SkipOf(link) = link.at
        BY <1>2, <1>7, <1>11, <3>2 DEF Resume, SkipOf, Goes, None
      <4>. QED BY <1>2, <1>7, <1>11, <3>2, <4>1
    <3>. QED BY <1>2, <1>7, <1>11, <3>1, <3>2
  <2>2. Resume \in None .. count /\ Resume # None
    BY <1>2, <2>1 DEF None
  <2>3. ASSUME NEW i \in due \ (seen \cup Listed) PROVE Resume <= count - i
    <3>1. ~ (\E n \in 1 .. LastPage : i \in pages[n].shown)
      BY <1>2, <1>3, <1>11, <2>3
    <3>2. Goes(link) <= count - i
      BY <1>4, <1>7, <1>11, <2>3, <3>1
    <3>. QED BY <1>2, <1>5, <1>7, <1>11, <2>1, <2>3, <3>2
  <2>4. Stuck(Resume) => Got = 0 /\ Len(pages) = MaxPages /\ link # NoLink /\ SkipOf(link) <= skip
    <3>1. Stuck(Resume) => Got = 0 /\ SkipOf(link) <= skip
      BY <2>1 DEF Stuck
    <3>2. Got = 0 => ~ (LastPage < MaxPages)
      BY <1>1, <1>2, <1>11 DEF MayReadOn
    <3>. QED BY <1>1, <1>2, <1>7, <1>11, <3>1, <3>2
  <2>5. ASSUME Quiet, NEW i \in Listed PROVE count - i < Resume
    <3>1. count - i < start + Cardinality(last) /\ i \in Int
      BY <1>1, <1>3, <2>5, ListedAre DEF Incidents
    <3>. QED BY <1>2, <2>1, <3>1
  <2>. QED BY <1>1, <1>8, <2>2, <2>3, <2>4, <2>5, ConcludeStep
<1>. QED BY <1>2, <1>9, <1>10, <1>11

\* A listing with one: the incident the probe asks for is where the last page ends.
LEMMA ProbedStep == Inductive /\ Probed => Inductive'
<1>. SUFFICES ASSUME Inductive, Probed PROVE Inductive'
  OBVIOUS
<1>. DEFINE last == pages[LastPage].shown
            start == Start(LastPage)
            before == pages[LastPage].before
            p == Position(Got)
<1>1. /\ TypeOK /\ StagesAre /\ PagesFollow /\ QuietPages /\ stage = "probing" /\ Listing
      /\ pages # <<>> /\ MustProbe /\ LastPage = Len(pages)
  BY DEF Inductive, StagesAre, Probed, Listing, LastPage
<1>2. /\ count \in Nat /\ count <= Total /\ skip \in Nat /\ top \in Nat \ {0} /\ before \in Nat
      /\ Cardinality(last) \in Nat /\ start \in Nat /\ Got \in Nat
      /\ Got = before + Cardinality(last)
      /\ start <= count /\ skip <= start /\ before <= top /\ start + Cardinality(last) <= count
      /\ start = skip => before = 0
      /\ Got = top /\ link = NoLink
  <2>1. Got = top /\ link = NoLink
    BY <1>1 DEF MustProbe
  <2>. QED BY <1>1, <2>1, LastPageIs, ListedAre
<1>3. p = start + Cardinality(last)
  <2>1. p = start + Got - before
    BY <1>1, <1>2, PositionIs
  <2>2. /\ start \in Nat /\ Got = before + Cardinality(last)
        /\ before \in Nat /\ Cardinality(last) \in Nat
    BY <1>2
  <2>. HIDE DEF p, start, last, before
  <2>. QED BY <2>1, <2>2
<1>4. /\ \A n \in 1 .. LastPage : \A i \in pages[n].shown : i \in Listed
      /\ Quiet => \A i \in Listed : count - i < start + Cardinality(last)
  BY <1>1, <1>2, ListedAre
<1>5. /\ sends = "none" => start = skip /\ before = 0
      /\ \A i \in due \ seen :
           \/ \E n \in 1 .. LastPage : i \in pages[n].shown
           \/ link # NoLink /\ Goes(link) <= count - i
           \/ sends = "none" /\ Got = Asked /\ skip + Got <= count - i
  BY <1>1 DEF Inductive, LinkLeadsOn, UnseenIsAhead
<1>6. PICK e \in Ends(p, 1) : Conclude(IF Shown(p, e) # {} THEN p ELSE None)
  BY DEF Probed, Answers
<1>. HIDE DEF last, start, before, p
<1>7. /\ p \in Nat /\ p <= count /\ p > skip /\ e \in p .. count
      /\ p \in None .. count /\ None \in None .. count /\ p # None
      /\ ~ Stuck(p) /\ ~ Stuck(None)
  BY <1>2, <1>3 DEF Ends, Stuck, None
<1>8. ASSUME NEW i \in due \ (seen \cup Listed) PROVE sends = "none" /\ p <= count - i
  BY <1>2, <1>3, <1>4, <1>5, <1>8
<1>9. CASE Shown(p, e) # {}
  BY <1>1, <1>3, <1>4, <1>6, <1>7, <1>8, <1>9, ConcludeStep
<1>10. CASE Shown(p, e) = {}
  <2>1. due \subseteq seen \cup Listed
    <3>. SUFFICES ASSUME NEW i \in due \ (seen \cup Listed) PROVE FALSE
      OBVIOUS
    <3>1. sends = "none" /\ p <= count - i
      BY <1>8
    <3>2. e = count
      <4>1. Cardinality(Shown(p, e)) = 0
        BY <1>10, FS_EmptySet
      <4>2. Cardinality(Shown(p, e)) = 1 \/ e = count
        BY <3>1 DEF Ends
      <4>. QED BY <4>1, <4>2
    <3>3. i \in 1 .. count /\ i \notin hidden
      BY <1>1 DEF StagesAre
    <3>4. count - i < e
      BY <1>2, <3>2, <3>3
    <3>. QED BY <1>2, <1>7, <1>10, <3>1, <3>3, <3>4, ShownIs
  <2>. QED BY <1>1, <1>6, <1>7, <1>10, <2>1, ConcludeStep
<1>. QED BY <1>9, <1>10

LEMMA StepInductive == Inductive /\ [Next]_vars => Inductive'
<1>. SUFFICES ASSUME Inductive, [Next]_vars PROVE Inductive'
  OBVIOUS
<1>1. CASE Begin BY <1>1, BeginStep
<1>2. CASE Ask BY <1>2, AskStep
<1>3. CASE Follow BY <1>3, FollowStep
<1>4. CASE Answer BY <1>4, AnswerStep
<1>5. CASE Probe BY <1>5, ProbeStep
<1>6. CASE Probed BY <1>6, ProbedStep
<1>7. CASE Fail BY <1>7, FailStep
<1>8. CASE Create BY <1>8, CreateStep
<1>9. CASE UNCHANGED vars
  <2>1. /\ LastPage' = LastPage /\ Got' = Got /\ Asked' = Asked /\ Goes(link)' = Goes(link)
        /\ (Listing' <=> Listing) /\ (MustProbe' <=> MustProbe) /\ (Quiet' <=> Quiet)
        /\ \A n : Through(n)' = Through(n) /\ Start(n)' = Start(n)
    BY <1>9 DEF vars, LastPage, Got, Asked, Goes, Start, Through, Listing, MustProbe, Quiet
  <2>2. TypeOK' /\ StagesAre' /\ PagesFollow'
    BY <1>9, <2>1 DEF vars, Inductive, TypeOK, StagesAre, PagesFollow
  <2>3. LinkLeadsOn' /\ UnseenIsAhead' /\ QuietPages'
    BY <1>9, <2>1 DEF vars, Inductive, LinkLeadsOn, UnseenIsAhead, QuietPages, NoLink
  <2>4. SweepIsExact' /\ TruncatedIsTrue'
    BY <1>9, <2>1 DEF vars, Inductive, SweepIsExact, NothingMissed, ReadOnce, TruncatedIsTrue
  <2>. QED BY <2>2, <2>3, <2>4 DEF Inductive
<1>. QED BY <1>1, <1>2, <1>3, <1>4, <1>5, <1>6, <1>7, <1>8, <1>9 DEF Next, Step

-----------------------------------------------------------------------------
(* The theorems.                                                           *)

\* Where the pages of a listing start, where its link leads and where the unseen
\* incidents are, is as Inductive says in every state.
THEOREM SweepInductive == Spec => []Inductive
BY InitInductive, StepInductive, PTL DEF Spec

\* Every variable of a sweep keeps its type, and no listing reads more pages than
\* the ceiling.
THEOREM TypeCorrect == Spec => []TypeOK
<1>1. Inductive => TypeOK
  BY DEF Inductive
<1>. QED BY <1>1, SweepInductive, PTL

\* A sweep that ends without `truncated` was given every incident the service
\* showed when it began, and in a listing nothing is created in or passed over,
\* each once.
THEOREM SweepsAreExact == Spec => []SweepIsExact
<1>1. Inductive => SweepIsExact
  BY DEF Inductive
<1>. QED BY <1>1, SweepInductive, PTL

\* A listing is called truncated only when every page it was allowed brought
\* nothing and the last link named no position, or none past the request's.
THEOREM TruncationIsTrue == Spec => []TruncatedIsTrue
<1>1. Inductive => TruncatedIsTrue
  BY DEF Inductive
<1>. QED BY <1>1, SweepInductive, PTL

=============================================================================
