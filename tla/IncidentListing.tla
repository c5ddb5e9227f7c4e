-------------------------- MODULE IncidentListing --------------------------
(***************************************************************************)
(* A retrospective sweep over the incident listing (list_incidents in      *)
(* incidents.py, Transport.collected): the caller reads listing after      *)
(* listing, each from the position the last one named, and each listing    *)
(* reads as many pages as it takes. The service lists the newest incident  *)
(* first, may pass over incidents without showing them, sends next links   *)
(* that name a position, or a token, or none at all, and incidents are     *)
(* created all the while.                                                  *)
(*                                                                         *)
(* Incident n is the n-th created; of `count` incidents it is at position  *)
(* count - n.                                                              *)
(***************************************************************************)
EXTENDS Integers, Sequences, FiniteSets, FiniteSetsExt

CONSTANTS
  Total,     \* bound: how many incidents are ever created
  Tops,      \* the values of `top` a sweep may be made with
  PageSize,  \* INCIDENT_PAGE_SIZE
  MaxPages   \* MAX_INCIDENT_PAGES

ASSUME NumbersAssumption ==
  /\ Total \in Nat /\ PageSize \in Nat \ {0} /\ MaxPages \in Nat \ {0}
  /\ Tops \subseteq 1 .. PageSize

Incidents == 1 .. Total

VARIABLES
  count,    \* the incidents created so far
  hidden,   \* those the service passes over
  sends,    \* the next links it sends: "position", "token" or "none"
  top,      \* the incidents a listing of the sweep returns at most
  stage,    \* of the sweep: "begin", "asking", "reading", "probing" or "over"
  skip,     \* the position the listing was asked for
  pages,    \* the pages it has read: the position their link named, the number of
            \* items before theirs, the incidents they show, newest first
  link,     \* the next link of the last page
  due,      \* what the service showed when the sweep began
  seen,     \* the incidents the sweep was given
  twice,    \* those it was given more than once
  outcome   \* how the sweep ended: "none", "whole", "truncated" or "failed"

service == <<count, hidden, sends>>
sweep == <<top, due>>
listing == <<skip, pages, link>>
given == <<seen, twice, outcome>>
vars == <<count, hidden, sends, top, stage, skip, pages, link, due, seen, twice, outcome>>

None == -1
NoLink == [names |-> "none", at |-> 0]

Init ==
  /\ count \in 0 .. Total
  /\ hidden \in SUBSET Incidents
  /\ sends \in {"position", "token", "none"}
  /\ top \in Tops
  /\ stage = "begin"
  /\ skip = 0 /\ pages = <<>> /\ link = NoLink
  /\ due = {} /\ seen = {} /\ twice = {}
  /\ outcome = "none"

-----------------------------------------------------------------------------
(* The service.                                                            *)

\* What it shows of the positions from k up to, and not including, e.
Shown(k, e) == (count - e + 1 .. count - k) \ hidden

\* The link to what comes after position e - 1.
LinkTo(e) ==
  IF sends = "none" \/ e >= count THEN NoLink
  ELSE IF sends = "position" THEN [names |-> "position", at |-> e]
  ELSE [names |-> "token", at |-> count - e + 1]

\* Where a page from position k may end: within the `size` asked for, anywhere
\* where a link goes on, be it where the page began; without links it is full or
\* reaches the end.
Ends(k, size) ==
  {e \in k .. count :
     /\ Cardinality(Shown(k, e)) <= size
     /\ sends = "none" => Cardinality(Shown(k, e)) = size \/ e = count}

\* The answers to a request for `size` incidents from position k.
Answers(k, size) == {[shown |-> Shown(k, e), link |-> LinkTo(e)] : e \in Ends(k, size)}

\* Where a link leads to: a token goes on after the incident it was sent for.
Goes(l) == IF l.names = "position" THEN l.at ELSE count - l.at + 1

\* A new incident is the first of the listing.
Create ==
  /\ count < Total
  /\ count' = count + 1
  /\ UNCHANGED <<hidden, sends, sweep, stage, listing, given>>

-----------------------------------------------------------------------------
(* A listing: the pages of Transport.collected.                            *)

\* One more than the listing returns, as far as the service allows.
Asked == Min({top + 1, PageSize})

\* The position a link names, if any.
SkipOf(l) == IF l.names = "position" THEN l.at ELSE None

\* The number of items in the pages up to the n-th, and in all.
Through(n) == pages[n].before + Cardinality(pages[n].shown)
Got == IF pages = <<>> THEN 0 ELSE Through(Len(pages))

\* Mutant: one page more than the ceiling.
MayReadOnAlways == link # NoLink /\ Got < Max({Asked, top}) /\ Len(pages) <= MaxPages

\* Another page is read: there is one, the listing is not full, and the
\* ceiling is not reached.
MayReadOn == link # NoLink /\ Got < Max({Asked, top}) /\ Len(pages) < MaxPages

Take(from, answer) ==
  /\ pages' = Append(pages, [from |-> from, before |-> Got, shown |-> answer.shown])
  /\ link' = answer.link
  /\ stage' = "reading"
  /\ UNCHANGED <<service, sweep, skip, given>>

\* The sweep begins; its first listing has no skip.
Begin ==
  /\ stage = "begin"
  /\ stage' = "asking"
  /\ due' = (1 .. count) \ hidden
  /\ UNCHANGED <<service, top, listing, given>>

Ask ==
  /\ stage = "asking"
  /\ \E answer \in Answers(skip, Asked) : Take(skip, answer)

Follow ==
  /\ stage = "reading"
  /\ MayReadOn
  /\ \E answer \in Answers(Goes(link), Asked) : Take(SkipOf(link), answer)

-----------------------------------------------------------------------------
(* Where the next listing starts.                                          *)

\* The service's position of the item read after `index` others: where its page
\* starts, plus its place there; a page that names no position counts on.
Start(n) == IF pages[n].from = None THEN skip + pages[n].before ELSE pages[n].from
Position(index) ==
  LET n == Min({m \in 1 .. Len(pages) : index < Through(m) \/ m = Len(pages)})
  IN  Start(n) + index - pages[n].before

\* Mutant: a link without a position leads back to where the listing began.
ResumeNowhere ==
  IF Got > top THEN Position(top)
  ELSE IF link = NoLink THEN None
  ELSE IF SkipOf(link) = None THEN skip
  ELSE SkipOf(link)

\* The position to read on from, None when nothing is left.
Resume ==
  IF Got > top THEN Position(top)
  ELSE IF link = NoLink THEN None
  ELSE IF SkipOf(link) = None THEN skip + Got
  ELSE SkipOf(link)

\* The first `top` items read, the newest of each page first.
Index(n, i) == pages[n].before + Cardinality({j \in pages[n].shown : j > i})
ListedOf(n) == {i \in pages[n].shown : Index(n, i) < top}
Listed == UNION {ListedOf(n) : n \in 1 .. Len(pages)}

\* Mutant: a listing that moved nowhere is read on from.
StuckNever(position) == FALSE

\* The position is none past this request's.
Stuck(position) == position # None /\ position <= skip

\* The answer, and what the sweep does with it: it reads on from nextSkip
\* while the listing has more.
Conclude(position) ==
  /\ seen' = seen \cup Listed
  /\ twice' = twice \cup (seen \cap Listed)
       \cup {i \in Listed : \E m, n \in 1 .. Len(pages) :
                            m # n /\ i \in ListedOf(m) \cap ListedOf(n)}
  /\ \/ /\ position # None /\ ~ Stuck(position)
        /\ stage' = "asking" /\ skip' = position
        /\ pages' = <<>> /\ link' = NoLink
        /\ UNCHANGED outcome
     \/ /\ position # None => Stuck(position)
        /\ stage' = "over"
        /\ outcome' = IF Stuck(position) THEN "truncated" ELSE "whole"
        /\ UNCHANGED <<skip, pages, link>>
  /\ UNCHANGED <<service, sweep>>

\* Mutant: a page without a next link is the last.
MustProbeNever == FALSE

\* A page as full as was asked, with no room for one more and no link.
MustProbe == Got = top /\ top = Asked /\ link = NoLink

Answer ==
  /\ stage = "reading"
  /\ ~ MayReadOn
  /\ ~ MustProbe
  /\ Conclude(Resume)

\* The request for the next incident alone is made.
Probe ==
  /\ stage = "reading"
  /\ ~ MayReadOn
  /\ MustProbe
  /\ stage' = "probing"
  /\ UNCHANGED <<service, sweep, listing, given>>

\* It is answered: there is a next incident, or there is none.
Probed ==
  /\ stage = "probing"
  /\ \E answer \in Answers(Position(Got), 1) :
       Conclude(IF answer.shown # {} THEN Position(Got) ELSE None)

\* A request fails: the listing raises, and the sweep with it.
Fail ==
  /\ stage \in {"asking", "reading", "probing"}
  /\ stage = "reading" => MayReadOn
  /\ stage' = "over"
  /\ outcome' = "failed"
  /\ pages' = <<>> /\ link' = NoLink
  /\ UNCHANGED <<service, sweep, skip, seen, twice>>

-----------------------------------------------------------------------------
Step == Begin \/ Ask \/ Follow \/ Answer \/ Probe \/ Probed \/ Fail

Next == Step \/ Create

Spec == Init /\ [][Next]_vars

\* Every request is answered or fails.
FairSpec == Spec /\ WF_vars(Step)

-----------------------------------------------------------------------------
(* What a sweep guarantees.                                                *)

TypeOK ==
  /\ count \in 0 .. Total /\ hidden \subseteq Incidents
  /\ sends \in {"position", "token", "none"}
  /\ top \in Tops
  /\ stage \in {"begin", "asking", "reading", "probing", "over"}
  /\ skip \in 0 .. Total
  /\ Len(pages) <= MaxPages
  /\ pages \in Seq([from : None .. Total, before : Nat, shown : SUBSET Incidents])
  /\ link \in [names : {"none", "position", "token"}, at : 0 .. Total + 1]
  /\ due \subseteq Incidents /\ seen \subseteq Incidents /\ twice \subseteq seen
  /\ outcome \in {"none", "whole", "truncated", "failed"}

\* "To read every incident of a window ... page until hasMore is false"
\* (incidents.py:125-127): a sweep that ends without `truncated` was given every
\* incident the service showed when it began, whatever links it sent, whatever
\* was created meanwhile.
NothingMissed == outcome = "whole" => due \subseteq seen

\* Nothing was created since the sweep began, nothing is passed over.
Quiet == hidden = {} /\ due = 1 .. count

\* While nothing is created and the service shows all it has, no incident is
\* listed twice (test_incidents.py:123).
ReadOnce == Quiet => twice = {}

\* A sweep gives every incident, and in a quiet listing each once.
SweepIsExact == NothingMissed /\ ReadOnce

\* `truncated` is said only of a listing that brought nothing: the service
\* answered MAX_INCIDENT_PAGES pages with no incident, and the last of their
\* links named no position, or none past the request's.
TruncatedIsTrue ==
  outcome = "truncated" =>
    /\ Got = 0 /\ Len(pages) = MaxPages
    /\ link # NoLink /\ SkipOf(link) <= skip

\* A sweep ends, for no listing sends the caller back to where it was.
SweepEnds == stage = "asking" ~> stage = "over"

-----------------------------------------------------------------------------
(* The inductive invariant the guarantees rest on: what is known of the    *)
(* positions the pages of a listing start at and its link leads to, and    *)
(* where the incidents are that the sweep has not been given.              *)

Listing == stage \in {"reading", "probing"}
LastPage == Len(pages)

\* A sweep that is not over has no outcome; one that has not asked, no pages.
StagesAre ==
  /\ stage = "over" <=> outcome # "none"
  /\ stage = "begin" => due = {} /\ seen = {} /\ skip = 0
  /\ stage \in {"begin", "asking"} => pages = <<>> /\ link = NoLink
  /\ Listing => pages # <<>>
  /\ stage = "probing" => MustProbe
  /\ due \subseteq (1 .. count) \ hidden
  /\ skip <= count

\* The last page was asked for before the listing was full, it starts past all
\* others, and shows nothing that comes before its start.
PagesFollow ==
  Listing =>
    /\ \A n \in 1 .. LastPage - 1 : Through(n) <= pages[LastPage].before
    /\ pages[LastPage].before < Asked
    /\ skip <= Start(LastPage) /\ Start(LastPage) <= count
    /\ Start(LastPage) = skip => pages[LastPage].before = 0
    /\ \A i \in pages[LastPage].shown : Start(LastPage) <= count - i

\* A link leads to nothing before the end of the last page, and is of the kind the
\* service sends.
LinkLeadsOn ==
  /\ link # NoLink => link.names = sends /\ sends # "none"
  /\ sends = "none" /\ Listing => LastPage = 1 /\ Start(1) = skip /\ pages[1].before = 0
  /\ Listing /\ link # NoLink =>
       /\ Start(LastPage) + Cardinality(pages[LastPage].shown) <= Goes(link)
       /\ Goes(link) <= count /\ skip <= Goes(link)
       /\ sends = "token" => Start(LastPage) = skip + pages[LastPage].before

\* What is due and was not given is still to come: past the position of the next
\* listing; during one on its pages, where its link leads to or, without
\* links, behind a full page.
UnseenIsAhead ==
  \A i \in due \ seen :
    /\ stage = "asking" => skip <= count - i
    /\ Listing =>
         \/ \E n \in 1 .. LastPage : i \in pages[n].shown
         \/ link # NoLink /\ Goes(link) <= count - i
         \/ sends = "none" /\ Got = Asked /\ skip + Got <= count - i

\* In a quiet listing pages are the positions from one on, one after the other,
\* and what was given is before them.
QuietPages ==
  Quiet =>
    /\ stage \in {"asking", "reading", "probing"} => \A i \in seen : count - i < skip
    /\ Listing =>
         /\ pages[LastPage].shown =
              {i \in 1 .. count :
                 /\ Start(LastPage) <= count - i
                 /\ count - i < Start(LastPage) + Cardinality(pages[LastPage].shown)}
         /\ \A n \in 1 .. LastPage - 1 : \A i \in pages[n].shown :
              skip <= count - i /\ count - i < Start(LastPage)
         /\ \A m, n \in 1 .. LastPage : m # n => pages[m].shown \cap pages[n].shown = {}
         /\ link # NoLink => Goes(link) = Start(LastPage) + Cardinality(pages[LastPage].shown)

Inductive ==
  /\ TypeOK
  /\ StagesAre
  /\ PagesFollow
  /\ LinkLeadsOn
  /\ UnseenIsAhead
  /\ QuietPages
  /\ SweepIsExact
  /\ TruncatedIsTrue

=============================================================================
