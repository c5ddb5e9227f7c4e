----------------------------- MODULE AbuseCheck -----------------------------
(***************************************************************************)
(* The requests of the AbuseIPDB client (client.py): concurrent executions *)
(* of check, which answer from a cache kept by address and window, and of  *)
(* the download sync_blacklist makes, against a service with a daily       *)
(* allowance per endpoint. What sync_blacklist does with its download is   *)
(* BlacklistStore's.                                                       *)
(*                                                                         *)
(* An answer is told from another by the moment the service read its       *)
(* reports at; what it says of the address is left out.                    *)
(*                                                                         *)
(* Names that BlacklistStore has too are different here (CheckInit,        *)
(* CheckNext, ...), so that one module can be about both.                  *)
(***************************************************************************)
EXTENDS Integers

CONSTANTS
  Callers,       \* tasks that call check or sync_blacklist, one call after another
  Downloaders,   \* those that call sync_blacklist
  Addresses,     \* addresses a caller may name
  Public,        \* those that are global and not multicast
  Windows,       \* what max_age_in_days is given, any number
  CacheSeconds,  \* CACHE_SECONDS
  Allowance,     \* what the plan grants an endpoint a day, of each
  DayLength,     \* the moments of a day
  LastMoment     \* bounds the clock

Endpoints == {"check", "blacklist"}

ASSUME SetsAssumption ==
  /\ Downloaders \subseteq Callers /\ Public \subseteq Addresses
  /\ Addresses # {} /\ Windows # {}
ASSUME NumbersAssumption ==
  /\ Windows \subseteq Int
  /\ CacheSeconds \in Nat /\ Allowance \in [Endpoints -> Nat]
  /\ LastMoment \in Nat /\ DayLength \in Nat \ {0}

VARIABLES
  pc,        \* where each caller is
  question,  \* the address and window it asks the service about
  asked,     \* now: the clock as it read it before its request
  response,  \* the service's response on its way to it
  answered,  \* what the step just taken returned to a caller of check
  cache,     \* _cache
  quotas,    \* _quotas
  left,      \* per endpoint, what is left of the day's allowance
  clock

checkVars == <<pc, question, asked, response, answered, cache, quotas, left, clock>>
client == <<cache, quotas>>

EndpointOf(c) == IF c \in Downloaders THEN "blacklist" ELSE "check"

\* A bare address, an IPv4 one inside IPv6, or anything that is not one address.
Forms == {"bare", "mapped", "range"}
Inputs == [form : Forms, address : Addresses, window : Windows]
Questions == [address : Addresses, window : Windows]
Keys == Addresses \X (Windows \cap 1..365)

NoQuestion == CHOOSE q \in Questions : TRUE
NoEntry == [expires |-> 0, read |-> 0]
NoQuota == [remaining |-> 0, day |-> -1]
NoResponse == [answers |-> FALSE, quota |-> NoQuota, read |-> 0]
NotTold == [age |-> -1, waited |-> 0]

CheckInit ==
  /\ pc = [c \in Callers |-> "idle"]
  /\ question = [c \in Callers |-> NoQuestion]
  /\ asked = [c \in Callers |-> 0]
  /\ response = [c \in Callers |-> NoResponse]
  /\ answered = NotTold
  /\ cache = [k \in Keys |-> NoEntry]
  /\ quotas = [e \in Endpoints |-> NoQuota]
  /\ left = Allowance
  /\ clock = 0

-----------------------------------------------------------------------------
(* The call.                                                               *)

\* Mutant: the address inside a mapped one is not looked at.
IsSentMapped(q) ==
  /\ q.form # "range"
  /\ q.form = "mapped" \/ q.address \in Public

\* public_address accepts it: one address, public once it is unmapped.
IsSent(q) == q.form # "range" /\ q.address \in Public

Accepted(q) == IsSent(q) /\ q.window \in 1..365

KeyOf(q) == <<q.address, q.window>>

\* Of an answer: its age, and how long the call took.
Answer(r, began) == answered' = [age |-> clock - r.read, waited |-> clock - began]

Today == clock \div DayLength

Goto(c, p) == pc' = [pc EXCEPT ![c] = p]

\* The call ends: what it held is let go.
End(c) ==
  /\ Goto(c, "idle")
  /\ question' = [question EXCEPT ![c] = NoQuestion]
  /\ asked' = [asked EXCEPT ![c] = 0]
  /\ response' = [response EXCEPT ![c] = NoResponse]

Refuse(c) ==
  /\ pc[c] = "idle"
  /\ c \notin Downloaders
  /\ \E q \in Inputs : ~ Accepted(q)
  /\ answered' = NotTold
  /\ UNCHANGED <<pc, question, asked, response, client, left, clock>>

\* A cached answer that stands: no request.
Hit(c) ==
  /\ pc[c] = "idle"
  /\ c \notin Downloaders
  /\ \E q \in Inputs :
       /\ Accepted(q)
       /\ cache[KeyOf(q)].expires > clock
       /\ Answer(cache[KeyOf(q)], clock)
  /\ UNCHANGED <<pc, question, asked, response, client, left, clock>>

\* No entry or an expired one: the request goes out, after the clock was read.
Ask(c) ==
  /\ pc[c] = "idle"
  /\ c \notin Downloaders
  /\ \E q \in Inputs :
       /\ Accepted(q)
       /\ cache[KeyOf(q)].expires <= clock
       /\ question' = [question EXCEPT ![c] = [address |-> q.address, window |-> q.window]]
  /\ asked' = [asked EXCEPT ![c] = clock]
  /\ answered' = NotTold
  /\ Goto(c, "asking")
  /\ UNCHANGED <<response, client, left, clock>>

\* sync_blacklist's download.
AskForList(c) ==
  /\ pc[c] = "idle"
  /\ c \in Downloaders
  /\ Goto(c, "asking")
  /\ answered' = NotTold
  /\ UNCHANGED <<question, asked, response, client, left, clock>>

\* Mutant: one quota for both endpoints.
QuotaOfAll(c) == "check"

QuotaOf(c) == EndpointOf(c)

\* _read_quota: kept when both numbers are in the headers and are digits,
\* whatever the status; a proxy may drop or garble them.
ReadQuota(c, quota) ==
  \/ quotas' = [quotas EXCEPT ![QuotaOf(c)] = quota]
  \/ UNCHANGED quotas

\* Mutant: an answer stands from its arrival.
ExpiryFromArrival(c) == clock + CacheSeconds

\* An answer stands from the moment the clock was read, before the request.
Expiry(c) == asked[c] + CacheSeconds

\* _result: of what the service says, only when it read its reports.
Result(c) == [read |-> response[c].read]

Entry(c) == [expires |-> Expiry(c), read |-> Result(c).read]

\* The response is read: the quota, the status, the body, the result.
Receive(c) ==
  /\ pc[c] = "arriving"
  /\ ReadQuota(c, response[c].quota)
  /\ IF response[c].answers /\ c \notin Downloaders
     THEN /\ cache' = [cache EXCEPT ![KeyOf(question[c])] = Entry(c)]
          /\ Answer(Result(c), asked[c])
     ELSE answered' = NotTold /\ UNCHANGED cache
  /\ End(c)
  /\ UNCHANGED <<left, clock>>

-----------------------------------------------------------------------------
(* The service, the network and time.                                      *)

\* The service reads the request: it answers while the allowance lasts, and
\* states what is left in headers a proxy may drop or garble.
Spend(e, n) == left' = [left EXCEPT ![e] = @ - n]

Serve(c) ==
  LET e == EndpointOf(c) IN
  /\ pc[c] = "asking"
  /\ \E ok \in BOOLEAN, n \in {0, 1} :
       /\ n <= left[e]
       /\ ok => n = 1
       /\ Spend(e, n)
       /\ response' = [response EXCEPT ![c] =
            [answers |-> ok, quota |-> [remaining |-> left[e] - n, day |-> Today], read |-> clock]]
  /\ Goto(c, "arriving")
  /\ answered' = NotTold
  /\ UNCHANGED <<question, asked, client, clock>>

\* A timeout, a broken connection or the caller's cancellation, before the
\* service read the request or after.
BreakOff(c) ==
  /\ pc[c] \in {"asking", "arriving"}
  /\ End(c)
  /\ answered' = NotTold
  /\ UNCHANGED <<client, left, clock>>

\* Time passes; each day starts with the whole allowance.
Tick ==
  /\ clock < LastMoment
  /\ clock' = clock + 1
  /\ left' = IF clock' % DayLength = 0 THEN Allowance ELSE left
  /\ answered' = NotTold
  /\ UNCHANGED <<pc, question, asked, response, client>>

CheckNext ==
  \/ \E c \in Callers :
       Refuse(c) \/ Hit(c) \/ Ask(c) \/ AskForList(c) \/ Serve(c) \/ Receive(c) \/ BreakOff(c)
  \/ Tick

CheckSpec == CheckInit /\ [][CheckNext]_checkVars

-----------------------------------------------------------------------------
(* Properties.                                                             *)

Quota == [remaining : Nat, day : Nat] \cup {NoQuota}

\* Every variable keeps its type; a request is only ever under way about a
\* public address and a window of 1 to 365 days (public_address, check).
CheckTypeOK ==
  /\ pc \in [Callers -> {"idle", "asking", "arriving"}]
  /\ question \in [Callers -> Questions]
  /\ \A c \in Callers \ Downloaders : pc[c] \in {"asking", "arriving"} =>
       question[c].address \in Public /\ question[c].window \in 1..365
  /\ asked \in [Callers -> Nat]
  /\ response \in [Callers -> [answers : BOOLEAN, quota : Quota, read : Nat]]
  /\ answered \in [age : Nat, waited : Nat] \cup {NotTold}
  /\ cache \in [Keys -> [expires : Nat, read : Nat]]
  /\ quotas \in [Endpoints -> Quota]
  /\ left \in [Endpoints -> Nat]
  /\ clock \in Nat

\* What a check returns was read by the service after the check began or less
\* than CACHE_SECONDS before it was returned, whichever of several overlapping
\* checks wrote the cache last (check's `now`, read before the request).
RecentAnswers ==
  answered # NotTold => answered.age <= answered.waited \/ answered.age < CacheSeconds

\* An entry never stands longer than CACHE_SECONDS after its reports were read.
EntriesExpire == \A k \in Keys : cache[k].expires <= cache[k].read + CacheSeconds

\* An endpoint's quota is one the service stated for that endpoint, and, in
\* whatever order the answers of overlapping calls arrive, it never understates
\* what is left that day (_read_quota, _quotas).
QuotaAsStated ==
  \A e \in Endpoints : quotas[e].day = Today => quotas[e].remaining >= left[e]

\* The inductive invariant: a request's clock is read before the service reads
\* its reports, and a quota on its way is as true as one that was kept.
AskedBefore(c) ==
  c \notin Downloaders /\ pc[c] \in {"asking", "arriving"} => asked[c] <= clock
ReadSince(c) ==
  pc[c] = "arriving" => /\ response[c].read <= clock
                        /\ c \notin Downloaders => asked[c] <= response[c].read
QuotaTrue(e, quota) ==
  /\ quota.day <= Today
  /\ quota.day = Today => quota.remaining >= left[e]

CheckInductive ==
  /\ CheckTypeOK
  /\ EntriesExpire
  /\ RecentAnswers
  /\ \A k \in Keys : cache[k].read <= clock
  /\ \A c \in Callers : /\ AskedBefore(c) /\ ReadSince(c)
                        /\ pc[c] = "arriving" => QuotaTrue(EndpointOf(c), response[c].quota)
  /\ \A e \in Endpoints : QuotaTrue(e, quotas[e])

=============================================================================
