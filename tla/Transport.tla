----------------------------- MODULE Transport -----------------------------
(***************************************************************************)
(* The HTTP transport of the Microsoft Defender XDR client (transport.py)  *)
(* with the credential it takes its tokens from (auth.py): concurrent      *)
(* calls of Transport._send on one event loop, the token cache they share, *)
(* the repeats after 429 and 503, and a service that may act on a request  *)
(* whose answer is an error or never arrives.                              *)
(*                                                                         *)
(* Time is relative: a Tick ages every token and every wait by one. What a *)
(* token is believed to last (the expires_on kept in the cache) is apart   *)
(* from what it really lasts, because auth.py counts expires_in from the   *)
(* moment the answer arrives.                                              *)
(***************************************************************************)
EXTENDS Integers

CONSTANTS
  Calls,          \* executions of Transport._send
  Writes,         \* those whose method is not GET
  Apis,           \* the APIs, each with a token of its own
  ApiOf,          \* ApiOf[c]: the API call c is made to
  Retries,        \* RETRIES
  Skew,           \* TOKEN_SKEW
  MaxRetryDelay,  \* MAX_RETRY_DELAY
  Asked,          \* what a Retry-After header may ask for, any number
  NoHeader,       \* no Retry-After header, or one that is not a number
  Lifetimes,      \* the expires_in a token may be issued with
  IssueLatency,   \* the longest a token request takes before it times out
  SendLatency     \* the longest a request travels before the service reads it

ASSUME CallsAssumption ==
  /\ Writes \subseteq Calls
  /\ ApiOf \in [Calls -> Apis]
ASSUME NumbersAssumption ==
  /\ Retries \in Nat /\ Skew \in Nat /\ MaxRetryDelay \in Nat
  /\ IssueLatency \in Nat /\ SendLatency \in Nat
  /\ Lifetimes \subseteq Nat
  /\ Asked \subseteq Int /\ NoHeader \notin Int
\* The skew covers the way of a token answer and of a request, which a 30 s
\* timeout bounds phase by phase; no token is issued that would not survive them.
ASSUME SkewAssumption ==
  /\ IssueLatency + SendLatency <= Skew
  /\ \A n \in Lifetimes : n > IssueLatency + SendLatency

VARIABLES
  pc,        \* where each call is in _send
  attempt,   \* the loop variable of _send
  tokens,    \* _tokens: per API, NoToken or a token
  life,      \* how long the bearer token a call holds will really last
  grant,     \* the expires_in of a token answer not yet taken in
  timer,     \* ticks left of a request in flight, or of a sleep
  answer,    \* the response a call holds, then what its caller was given
  acted      \* acted[c]: how many times the service acted on write c

vars == <<pc, attempt, tokens, life, grant, timer, answer, acted>>

Stages == {"idle", "token", "fetching", "granted", "requesting", "answered",
           "pausing", "done"}
\* Requests under way, which a timeout bounds.
InFlight == {"fetching", "granted", "requesting"}
\* The awaits of _send, where an exception or a cancellation comes in.
Awaiting == {"fetching", "granted", "requesting", "answered", "pausing"}

Responses == {"body", "empty", "notjson", "throttled", "unavailable", "error",
              "broken"}
Results == {"ok", "notjson", "throttled", "unavailable", "error", "broken",
            "login", "interrupted"}

NoToken == [believed |-> 0, real |-> 0]
Token == [believed : Nat, real : Nat]

Aged(n) == IF n > 0 THEN n - 1 ELSE 0
AgedToken(t) == [believed |-> Aged(t.believed), real |-> Aged(t.real)]

Init ==
  /\ pc = [c \in Calls |-> "idle"]
  /\ attempt = [c \in Calls |-> 0]
  /\ tokens = [a \in Apis |-> NoToken]
  /\ life = [c \in Calls |-> 0]
  /\ grant = [c \in Calls |-> 0]
  /\ timer = [c \in Calls |-> 0]
  /\ answer = [c \in Calls |-> "none"]
  /\ acted = [c \in Calls |-> 0]

-----------------------------------------------------------------------------
(* The call.                                                               *)

Begin(c) ==
  /\ pc[c] = "idle"
  /\ pc' = [pc EXCEPT ![c] = "token"]
  /\ UNCHANGED <<attempt, tokens, life, grant, timer, answer, acted>>

\* The request goes out, bearing a token that will last for n more.
SendRequest(c, n) ==
  /\ pc' = [pc EXCEPT ![c] = "requesting"]
  /\ life' = [life EXCEPT ![c] = n]
  /\ timer' = [timer EXCEPT ![c] = SendLatency]

\* Mutant: the skew forgotten.
UsableToTheEnd(t) == t.believed > 0

\* Whether the cache answers for an API: never within Skew of the expiry.
Usable(t) == t.believed > Skew

CacheHit(c) ==
  /\ pc[c] = "token"
  /\ Usable(tokens[ApiOf[c]])
  /\ SendRequest(c, tokens[ApiOf[c]].real)
  /\ UNCHANGED <<attempt, tokens, grant, answer, acted>>

\* Every caller that finds no usable token asks for one of its own.
CacheMiss(c) ==
  /\ pc[c] = "token"
  /\ ~ Usable(tokens[ApiOf[c]])
  /\ pc' = [pc EXCEPT ![c] = "fetching"]
  /\ timer' = [timer EXCEPT ![c] = IssueLatency]
  /\ UNCHANGED <<attempt, tokens, life, grant, answer, acted>>

\* The token answer arrives: its lifetime is counted from now, and it
\* replaces whatever the cache holds, a token issued later included.
KeepToken(c) ==
  /\ pc[c] = "granted"
  /\ tokens' = [tokens EXCEPT ![ApiOf[c]] =
                  [believed |-> grant[c], real |-> life[c]]]
  /\ grant' = [grant EXCEPT ![c] = 0]
  /\ SendRequest(c, life[c])
  /\ UNCHANGED <<attempt, answer, acted>>

\* The call ends and its caller is given r.
Answer(c, r) ==
  /\ pc' = [pc EXCEPT ![c] = "done"]
  /\ answer' = [answer EXCEPT ![c] = r]
  /\ life' = [life EXCEPT ![c] = 0]
  /\ grant' = [grant EXCEPT ![c] = 0]
  /\ timer' = [timer EXCEPT ![c] = 0]
  /\ UNCHANGED <<attempt, tokens>>

\* The credential answers with an error of its own (DefenderApiError).
LoginRefused(c) ==
  /\ pc[c] = "fetching"
  /\ Answer(c, "login")
  /\ UNCHANGED acted

\* Mutant: 503 repeated whatever the method.
RepeatableForWrites(c) == answer[c] \in {"throttled", "unavailable"}

\* 429 is repeated for every method, 503 for reads only.
Repeatable(c) ==
  \/ answer[c] = "throttled"
  \/ answer[c] = "unavailable" /\ c \notin Writes

\* Mutant: one attempt fewer than RETRIES + 1.
AgainShort(c) == Repeatable(c) /\ attempt[c] + 1 < Retries

\* The response is not the last word: there is an attempt left for it.
Again(c) == Repeatable(c) /\ attempt[c] < Retries

\* Mutant: the delay asked for is capped but may be negative.
RetryDelayCappedOnly(asked, n) ==
  LET wanted == IF asked = NoHeader THEN 2 ^ n ELSE asked
  IN  IF wanted > MaxRetryDelay THEN MaxRetryDelay ELSE wanted

\* _retry_delay: what the service asked for or 2 ** attempt, within bounds.
RetryDelay(asked, n) ==
  LET wanted == IF asked = NoHeader THEN 2 ^ n ELSE asked
  IN  IF wanted > MaxRetryDelay THEN MaxRetryDelay
      ELSE IF wanted < 0 THEN 0 ELSE wanted

Repeat(c) ==
  /\ pc[c] = "answered"
  /\ Again(c)
  /\ pc' = [pc EXCEPT ![c] = "pausing"]
  /\ \E asked \in Asked \cup {NoHeader} :
       timer' = [timer EXCEPT ![c] = RetryDelay(asked, attempt[c])]
  /\ life' = [life EXCEPT ![c] = 0]
  /\ answer' = [answer EXCEPT ![c] = "none"]
  /\ UNCHANGED <<attempt, tokens, grant, acted>>

\* Mutant: a repeat that is not counted.
WakeUncounted(c) ==
  /\ pc[c] = "pausing"
  /\ timer[c] = 0
  /\ pc' = [pc EXCEPT ![c] = "token"]
  /\ UNCHANGED <<attempt, tokens, life, grant, timer, answer, acted>>

\* The sleep is over: the next attempt takes a token anew.
Wake(c) ==
  /\ pc[c] = "pausing"
  /\ timer[c] = 0
  /\ pc' = [pc EXCEPT ![c] = "token"]
  /\ attempt' = [attempt EXCEPT ![c] = @ + 1]
  /\ UNCHANGED <<tokens, life, grant, timer, answer, acted>>

\* Mutant: the status of the last response is not looked at.
SettleUnread(c) ==
  /\ pc[c] = "answered"
  /\ ~ Again(c)
  /\ Answer(c, "ok")
  /\ UNCHANGED acted

\* What is not repeated is the answer: a body, {} for no content, or an error.
Settle(c) ==
  /\ pc[c] = "answered"
  /\ ~ Again(c)
  /\ Answer(c, IF answer[c] \in {"body", "empty"} THEN "ok" ELSE answer[c])
  /\ UNCHANGED acted

-----------------------------------------------------------------------------
(* The identity provider, the service, the network and the event loop.     *)

\* The identity provider issues a token; the answer is on its way.
Issue(c) ==
  /\ pc[c] = "fetching"
  /\ pc' = [pc EXCEPT ![c] = "granted"]
  /\ \E n \in Lifetimes :
       /\ grant' = [grant EXCEPT ![c] = n]
       /\ life' = [life EXCEPT ![c] = n]
  /\ UNCHANGED <<attempt, tokens, timer, answer, acted>>

\* How often the service acts on a write it answers so: a 429 and any other
\* refusal come before it acts, a 503 or a gateway's answer may come after.
Effects(r) ==
  IF r \in {"throttled", "error"} THEN {0}
  ELSE IF r \in {"unavailable", "broken"} THEN {0, 1} ELSE {1}

Acts(c, n) == acted' = [acted EXCEPT ![c] = IF c \in Writes THEN @ + n ELSE @]

\* The service reads the request: with an expired token it refuses it.
Serve(c) ==
  /\ pc[c] = "requesting"
  /\ pc' = [pc EXCEPT ![c] = "answered"]
  /\ timer' = [timer EXCEPT ![c] = 0]
  /\ \E r \in IF life[c] > 0 THEN Responses ELSE {"error"} :
       /\ answer' = [answer EXCEPT ![c] = r]
       /\ \E n \in Effects(r) : Acts(c, n)
  /\ UNCHANGED <<attempt, tokens, life, grant>>

\* A timeout, a network error or a cancellation at an await: no handler in
\* the transport catches it, and a request already sent may still be served.
Interrupt(c) ==
  /\ pc[c] \in Awaiting
  /\ Answer(c, "interrupted")
  /\ \E n \in IF pc[c] = "requesting" THEN {0, 1} ELSE {0} : Acts(c, n)

\* Time passes; a request in flight ends before its time is out.
Tick ==
  /\ \A c \in Calls : pc[c] \in InFlight => timer[c] > 0
  /\ timer' = [c \in Calls |-> Aged(timer[c])]
  /\ life' = [c \in Calls |-> Aged(life[c])]
  /\ tokens' = [a \in Apis |-> AgedToken(tokens[a])]
  /\ UNCHANGED <<pc, attempt, grant, answer, acted>>

-----------------------------------------------------------------------------
\* The steps that carry a call on, once it has begun.
Progress(c) ==
  \/ CacheHit(c) \/ CacheMiss(c) \/ KeepToken(c) \/ LoginRefused(c)
  \/ Repeat(c) \/ Wake(c) \/ Settle(c)
  \/ Issue(c) \/ Serve(c) \/ Interrupt(c)

Next == Tick \/ \E c \in Calls : Begin(c) \/ Progress(c)

Spec == Init /\ [][Next]_vars

\* The event loop runs what is ready, timeouts end what does not answer, and
\* sleeps end.
Fairness == WF_vars(Tick) /\ \A c \in Calls : WF_vars(Progress(c))

FairSpec == Spec /\ Fairness

-----------------------------------------------------------------------------
(* What the transport guarantees.                                          *)

TypeOK ==
  /\ pc \in [Calls -> Stages]
  /\ attempt \in [Calls -> 0 .. Retries]
  /\ tokens \in [Apis -> Token]
  /\ life \in [Calls -> Nat]
  /\ grant \in [Calls -> Lifetimes \cup {0}]
  /\ timer \in [Calls -> Nat]
  /\ \A c \in Calls : pc[c] = "pausing" => timer[c] <= MaxRetryDelay
  /\ answer \in [Calls -> Responses \cup Results \cup {"none"}]
  /\ acted \in [Calls -> Nat]

\* No sequence of throttles, gateway errors, repeats and lost answers makes
\* the service act twice on one write: what is repeated was not acted on
\* (transport.py:25-28, test_transport.py:221).
WriteAtMostOnce == \A c \in Writes : acted[c] <= 1

\* What the caller of a write is told is true: success only of a write the
\* service made, a throttle, a refusal or a failed login only of one it did
\* not, whatever the earlier attempts of the same call met.
DefiniteAnswers ==
  \A c \in Writes : pc[c] = "done" =>
    /\ answer[c] = "ok" => acted[c] = 1
    /\ answer[c] \in {"throttled", "error", "login"} => acted[c] = 0

\* A caller is told of a throttle, or a reader of a gateway error, only after
\* RETRIES repeats: the loop of _send neither stops short nor runs over.
GivesUpOnlyWhenExhausted ==
  \A c \in Calls : pc[c] = "done" =>
    /\ answer[c] = "throttled" => attempt[c] = Retries
    /\ answer[c] = "unavailable" /\ c \notin Writes => attempt[c] = Retries

\* The service never reads an expired token, though the cache believes a token
\* to last longer than it does, tokens issued out of order overwrite each
\* other, and a call sleeps between its attempts: TOKEN_SKEW covers the token
\* answer's and the request's way.
NoExpiredBearer == \A c \in Calls : pc[c] = "requesting" => life[c] > 0

\* Why the four hold: an inductive invariant, used by TransportProofs. A write
\* that may yet be repeated has had no effect, and the answer a call holds is
\* one the service gives for the effect it had.
EffectKnown(c) ==
  /\ pc[c] \in Stages \ {"answered", "done"} => acted[c] = 0
  /\ pc[c] = "answered" =>
       /\ answer[c] \in Responses
       /\ c \in Writes => acted[c] \in Effects(answer[c])
       /\ c \notin Writes => acted[c] = 0
  /\ pc[c] = "done" => answer[c] \in Results /\ acted[c] <= 1
  /\ pc[c] = "pausing" => attempt[c] < Retries

\* A token lasts as long as the cache believes, less the way its answer took;
\* one in flight outlasts the rest of its way.
LifeKnown(c) ==
  /\ pc[c] = "fetching" => timer[c] <= IssueLatency
  /\ pc[c] = "granted" => /\ grant[c] \in Lifetimes
                          /\ life[c] + IssueLatency >= grant[c] + timer[c]
  /\ pc[c] = "requesting" => life[c] > timer[c]

Inductive ==
  /\ TypeOK
  /\ \A c \in Calls : EffectKnown(c) /\ LifeKnown(c)
  /\ \A a \in Apis : tokens[a].believed <= tokens[a].real + IssueLatency
  /\ DefiniteAnswers
  /\ GivesUpOnlyWhenExhausted

\* A call that was begun ends: repeats are counted, sleeps are bounded.
EveryCallEnds == \A c \in Calls : pc[c] = "token" ~> pc[c] = "done"

\* What the caller of each call has been told.
Told == [c \in Calls |-> IF pc[c] = "idle" THEN "idle"
                         ELSE IF pc[c] = "done" THEN answer[c] ELSE "open"]

Promise == INSTANCE ServiceCall WITH effect <- acted, outcome <- Told

\* The transport does what ServiceCall promises: each of its steps is one step
\* of the promise, or none, and a call that was begun is answered.
KeepsPromise == Promise!Spec

=============================================================================
