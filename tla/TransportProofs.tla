-------------------------- MODULE TransportProofs --------------------------
(***************************************************************************)
(* Proofs about Transport for every set of calls, any number of repeats    *)
(* and any latencies the skew covers: the inductive invariant, the safety  *)
(* properties that follow from it, and that the transport implements the   *)
(* safety part of ServiceCall.                                             *)
(***************************************************************************)
EXTENDS Transport, TLAPS

USE CallsAssumption, NumbersAssumption

\* What a wait before a repeat may be: never negative, never over the ceiling.
LEMMA DelayBounded ==
  ASSUME NEW asked \in Asked \cup {NoHeader}, NEW n \in Nat
  PROVE  RetryDelay(asked, n) \in 0 .. MaxRetryDelay
<1>1. 2 ^ n \in Int
  OBVIOUS
<1>2. asked # NoHeader => asked \in Int
  OBVIOUS
<1>. QED BY <1>1, <1>2 DEF RetryDelay

LEMMA BeginInductive ==
  ASSUME Inductive, NEW c \in Calls, Begin(c)
  PROVE  Inductive'
<1>. USE DEF Inductive, TypeOK, Token, Stages, Responses, Results, Begin
<1>1. TypeOK'
  OBVIOUS
<1>2. ASSUME NEW d \in Calls
      PROVE  EffectKnown(d)'
  BY DEF EffectKnown, Effects
<1>3. ASSUME NEW d \in Calls
      PROVE  LifeKnown(d)'
  BY SkewAssumption DEF LifeKnown
<1>4. ASSUME NEW a \in Apis
      PROVE  (tokens[a].believed <= tokens[a].real + IssueLatency)'
  BY DEF LifeKnown
<1>5. DefiniteAnswers'
  BY DEF DefiniteAnswers, EffectKnown, Effects
<1>6. GivesUpOnlyWhenExhausted'
  BY DEF GivesUpOnlyWhenExhausted, EffectKnown
<1>. QED BY <1>1, <1>2, <1>3, <1>4, <1>5, <1>6

LEMMA CacheHitInductive ==
  ASSUME Inductive, NEW c \in Calls, CacheHit(c)
  PROVE  Inductive'
<1>. USE DEF Inductive, TypeOK, Token, Stages, Responses, Results, CacheHit, SendRequest, Usable
<1>1. TypeOK'
  OBVIOUS
<1>2. ASSUME NEW d \in Calls
      PROVE  EffectKnown(d)'
  BY DEF EffectKnown, Effects
<1>3. ASSUME NEW d \in Calls
      PROVE  LifeKnown(d)'
  BY SkewAssumption DEF LifeKnown
<1>4. ASSUME NEW a \in Apis
      PROVE  (tokens[a].believed <= tokens[a].real + IssueLatency)'
  BY DEF LifeKnown
<1>5. DefiniteAnswers'
  BY DEF DefiniteAnswers, EffectKnown, Effects
<1>6. GivesUpOnlyWhenExhausted'
  BY DEF GivesUpOnlyWhenExhausted, EffectKnown
<1>. QED BY <1>1, <1>2, <1>3, <1>4, <1>5, <1>6

LEMMA CacheMissInductive ==
  ASSUME Inductive, NEW c \in Calls, CacheMiss(c)
  PROVE  Inductive'
<1>. USE DEF Inductive, TypeOK, Token, Stages, Responses, Results, CacheMiss
<1>1. TypeOK'
  OBVIOUS
<1>2. ASSUME NEW d \in Calls
      PROVE  EffectKnown(d)'
  BY DEF EffectKnown, Effects
<1>3. ASSUME NEW d \in Calls
      PROVE  LifeKnown(d)'
  BY SkewAssumption DEF LifeKnown
<1>4. ASSUME NEW a \in Apis
      PROVE  (tokens[a].believed <= tokens[a].real + IssueLatency)'
  BY DEF LifeKnown
<1>5. DefiniteAnswers'
  BY DEF DefiniteAnswers, EffectKnown, Effects
<1>6. GivesUpOnlyWhenExhausted'
  BY DEF GivesUpOnlyWhenExhausted, EffectKnown
<1>. QED BY <1>1, <1>2, <1>3, <1>4, <1>5, <1>6

LEMMA KeepTokenInductive ==
  ASSUME Inductive, NEW c \in Calls, KeepToken(c)
  PROVE  Inductive'
<1>. USE DEF Inductive, TypeOK, Token, Stages, Responses, Results, KeepToken, SendRequest
<1>0. /\ grant[c] \in Lifetimes /\ grant[c] \in Nat
      /\ life[c] \in Nat /\ timer[c] \in Nat
      /\ life[c] + IssueLatency >= grant[c] + timer[c]
      /\ ApiOf[c] \in Apis
  BY DEF LifeKnown
<1>1. TypeOK'
  <2>1. [believed |-> grant[c], real |-> life[c]] \in [believed : Nat, real : Nat]
    BY <1>0
  <2>2. tokens' \in [Apis -> [believed : Nat, real : Nat]]
    BY <2>1, <1>0
  <2>. QED BY <1>0, <2>2
<1>2. ASSUME NEW d \in Calls
      PROVE  EffectKnown(d)'
  BY DEF EffectKnown, Effects
<1>3. ASSUME NEW d \in Calls
      PROVE  LifeKnown(d)'
  <2>1. life[c] > SendLatency
    BY <1>0, SkewAssumption
  <2>. QED BY <1>0, <2>1 DEF LifeKnown
<1>4. ASSUME NEW a \in Apis
      PROVE  (tokens[a].believed <= tokens[a].real + IssueLatency)'
  <2>1. grant[c] <= life[c] + IssueLatency
    BY <1>0
  <2>. QED BY <1>0, <2>1
<1>5. DefiniteAnswers'
  BY DEF DefiniteAnswers, EffectKnown, Effects
<1>6. GivesUpOnlyWhenExhausted'
  BY DEF GivesUpOnlyWhenExhausted, EffectKnown
<1>. QED BY <1>1, <1>2, <1>3, <1>4, <1>5, <1>6

LEMMA LoginRefusedInductive ==
  ASSUME Inductive, NEW c \in Calls, LoginRefused(c)
  PROVE  Inductive'
<1>. USE DEF Inductive, TypeOK, Token, Stages, Responses, Results, LoginRefused, Answer
<1>1. TypeOK'
  OBVIOUS
<1>2. ASSUME NEW d \in Calls
      PROVE  EffectKnown(d)'
  BY DEF EffectKnown, Effects
<1>3. ASSUME NEW d \in Calls
      PROVE  LifeKnown(d)'
  BY SkewAssumption DEF LifeKnown
<1>4. ASSUME NEW a \in Apis
      PROVE  (tokens[a].believed <= tokens[a].real + IssueLatency)'
  BY DEF LifeKnown
<1>5. DefiniteAnswers'
  BY DEF DefiniteAnswers, EffectKnown, Effects
<1>6. GivesUpOnlyWhenExhausted'
  BY DEF GivesUpOnlyWhenExhausted, EffectKnown
<1>. QED BY <1>1, <1>2, <1>3, <1>4, <1>5, <1>6

LEMMA RepeatInductive ==
  ASSUME Inductive, NEW c \in Calls, Repeat(c)
  PROVE  Inductive'
<1>. USE DEF Inductive, TypeOK, Token, Stages, Responses, Results, Repeat, Again, Repeatable
<1>1. TypeOK'
  BY DelayBounded
<1>2. ASSUME NEW d \in Calls
      PROVE  EffectKnown(d)'
  BY DEF EffectKnown, Effects
<1>3. ASSUME NEW d \in Calls
      PROVE  LifeKnown(d)'
  BY SkewAssumption DEF LifeKnown
<1>4. ASSUME NEW a \in Apis
      PROVE  (tokens[a].believed <= tokens[a].real + IssueLatency)'
  BY DEF LifeKnown
<1>5. DefiniteAnswers'
  BY DEF DefiniteAnswers, EffectKnown, Effects
<1>6. GivesUpOnlyWhenExhausted'
  BY DEF GivesUpOnlyWhenExhausted, EffectKnown
<1>. QED BY <1>1, <1>2, <1>3, <1>4, <1>5, <1>6

LEMMA WakeInductive ==
  ASSUME Inductive, NEW c \in Calls, Wake(c)
  PROVE  Inductive'
<1>. USE DEF Inductive, TypeOK, Token, Stages, Responses, Results, Wake
<1>1. TypeOK'
  BY DEF EffectKnown
<1>2. ASSUME NEW d \in Calls
      PROVE  EffectKnown(d)'
  BY DEF EffectKnown, Effects
<1>3. ASSUME NEW d \in Calls
      PROVE  LifeKnown(d)'
  BY SkewAssumption DEF LifeKnown
<1>4. ASSUME NEW a \in Apis
      PROVE  (tokens[a].believed <= tokens[a].real + IssueLatency)'
  BY DEF LifeKnown
<1>5. DefiniteAnswers'
  BY DEF DefiniteAnswers, EffectKnown, Effects
<1>6. GivesUpOnlyWhenExhausted'
  BY DEF GivesUpOnlyWhenExhausted, EffectKnown
<1>. QED BY <1>1, <1>2, <1>3, <1>4, <1>5, <1>6

LEMMA SettleInductive ==
  ASSUME Inductive, NEW c \in Calls, Settle(c)
  PROVE  Inductive'
<1>. USE DEF Inductive, TypeOK, Token, Stages, Responses, Results, Settle, Answer, Again, Repeatable
<1>1. TypeOK'
  OBVIOUS
<1>2. ASSUME NEW d \in Calls
      PROVE  EffectKnown(d)'
  BY DEF EffectKnown, Effects
<1>3. ASSUME NEW d \in Calls
      PROVE  LifeKnown(d)'
  BY SkewAssumption DEF LifeKnown
<1>4. ASSUME NEW a \in Apis
      PROVE  (tokens[a].believed <= tokens[a].real + IssueLatency)'
  BY DEF LifeKnown
<1>5. DefiniteAnswers'
  BY DEF DefiniteAnswers, EffectKnown, Effects
<1>6. GivesUpOnlyWhenExhausted'
  BY DEF GivesUpOnlyWhenExhausted, EffectKnown
<1>. QED BY <1>1, <1>2, <1>3, <1>4, <1>5, <1>6

LEMMA IssueInductive ==
  ASSUME Inductive, NEW c \in Calls, Issue(c)
  PROVE  Inductive'
<1>. USE DEF Inductive, TypeOK, Token, Stages, Responses, Results, Issue
<1>1. TypeOK'
  OBVIOUS
<1>2. ASSUME NEW d \in Calls
      PROVE  EffectKnown(d)'
  BY DEF EffectKnown, Effects
<1>3. ASSUME NEW d \in Calls
      PROVE  LifeKnown(d)'
  BY SkewAssumption DEF LifeKnown
<1>4. ASSUME NEW a \in Apis
      PROVE  (tokens[a].believed <= tokens[a].real + IssueLatency)'
  BY DEF LifeKnown
<1>5. DefiniteAnswers'
  BY DEF DefiniteAnswers, EffectKnown, Effects
<1>6. GivesUpOnlyWhenExhausted'
  BY DEF GivesUpOnlyWhenExhausted, EffectKnown
<1>. QED BY <1>1, <1>2, <1>3, <1>4, <1>5, <1>6

LEMMA ServeInductive ==
  ASSUME Inductive, NEW c \in Calls, Serve(c)
  PROVE  Inductive'
<1>. USE DEF Inductive, TypeOK, Token, Stages, Responses, Results, Serve, Acts, Effects
<1>1. TypeOK'
  OBVIOUS
<1>2. ASSUME NEW d \in Calls
      PROVE  EffectKnown(d)'
  BY DEF EffectKnown, Effects
<1>3. ASSUME NEW d \in Calls
      PROVE  LifeKnown(d)'
  BY SkewAssumption DEF LifeKnown
<1>4. ASSUME NEW a \in Apis
      PROVE  (tokens[a].believed <= tokens[a].real + IssueLatency)'
  BY DEF LifeKnown
<1>5. DefiniteAnswers'
  BY DEF DefiniteAnswers, EffectKnown, Effects
<1>6. GivesUpOnlyWhenExhausted'
  BY DEF GivesUpOnlyWhenExhausted, EffectKnown
<1>. QED BY <1>1, <1>2, <1>3, <1>4, <1>5, <1>6

LEMMA InterruptInductive ==
  ASSUME Inductive, NEW c \in Calls, Interrupt(c)
  PROVE  Inductive'
<1>. USE DEF Inductive, TypeOK, Token, Stages, Responses, Results, Interrupt, Answer, Acts, Awaiting
<1>1. TypeOK'
  OBVIOUS
<1>2. ASSUME NEW d \in Calls
      PROVE  EffectKnown(d)'
  BY DEF EffectKnown, Effects
<1>3. ASSUME NEW d \in Calls
      PROVE  LifeKnown(d)'
  BY SkewAssumption DEF LifeKnown
<1>4. ASSUME NEW a \in Apis
      PROVE  (tokens[a].believed <= tokens[a].real + IssueLatency)'
  BY DEF LifeKnown
<1>5. DefiniteAnswers'
  BY DEF DefiniteAnswers, EffectKnown, Effects
<1>6. GivesUpOnlyWhenExhausted'
  BY DEF GivesUpOnlyWhenExhausted, EffectKnown
<1>. QED BY <1>1, <1>2, <1>3, <1>4, <1>5, <1>6

\* Time spares what is in flight: the guard of Tick stops it at a timer of
\* zero, and until then a token ages no faster than the request it is on.
LEMMA TickInductive ==
  ASSUME Inductive, Tick
  PROVE  Inductive'
<1>. USE DEF Inductive, TypeOK, Tick, Aged
<1>1. TypeOK'
  <2>1. ASSUME NEW a \in Apis
        PROVE  AgedToken(tokens[a]) \in Token
    BY DEF AgedToken, Token
  <2>. QED BY <2>1
<1>2. ASSUME NEW d \in Calls
      PROVE  EffectKnown(d)'
  BY DEF EffectKnown
<1>3. ASSUME NEW d \in Calls
      PROVE  LifeKnown(d)'
  <2>1. /\ life[d] \in Nat /\ timer[d] \in Nat
        /\ life'[d] = Aged(life[d]) /\ timer'[d] = Aged(timer[d])
        /\ grant[d] \in Lifetimes => grant[d] \in Nat
    OBVIOUS
  <2>2. pc[d] \in InFlight => timer[d] > 0
    OBVIOUS
  <2>. QED BY <2>1, <2>2 DEF LifeKnown, InFlight
<1>4. ASSUME NEW a \in Apis
      PROVE  (tokens[a].believed <= tokens[a].real + IssueLatency)'
  BY DEF AgedToken, Token
<1>5. DefiniteAnswers' /\ GivesUpOnlyWhenExhausted'
  BY DEF DefiniteAnswers, GivesUpOnlyWhenExhausted
<1>. QED BY <1>1, <1>2, <1>3, <1>4, <1>5

LEMMA StepInductive == Inductive /\ [Next]_vars => Inductive'
<1>. SUFFICES ASSUME Inductive, [Next]_vars
             PROVE  Inductive'
  OBVIOUS
<1>1. CASE Tick
  BY <1>1, TickInductive
<1>2. ASSUME NEW c \in Calls, Begin(c) \/ Progress(c)
      PROVE  Inductive'
  BY <1>2, BeginInductive, CacheHitInductive, CacheMissInductive,
     KeepTokenInductive, LoginRefusedInductive, RepeatInductive,
     WakeInductive, SettleInductive, IssueInductive, ServeInductive,
     InterruptInductive DEF Progress
<1>3. CASE UNCHANGED vars
  BY <1>3 DEF vars, Inductive, TypeOK, EffectKnown, LifeKnown,
     DefiniteAnswers, GivesUpOnlyWhenExhausted
<1>. QED BY <1>1, <1>2, <1>3 DEF Next

\* The inductive invariant holds of every state the transport reaches.
THEOREM InvariantHolds == Spec => []Inductive
<1>1. Init => Inductive
  BY DEF Init, Inductive, TypeOK, Token, NoToken, Stages, EffectKnown,
     LifeKnown, DefiniteAnswers, GivesUpOnlyWhenExhausted
<1>. QED BY <1>1, StepInductive, PTL DEF Spec

\* Every variable keeps its type: attempts stay within RETRIES, lifetimes and
\* waits never turn negative.
THEOREM TypeCorrect == Spec => []TypeOK
<1>1. Inductive => TypeOK
  BY DEF Inductive
<1>. QED BY <1>1, InvariantHolds, PTL

\* No write is made twice, for any number of calls and repeats.
THEOREM WritesHappenAtMostOnce == Spec => []WriteAtMostOnce
<1>1. Inductive => WriteAtMostOnce
  <2>. SUFFICES ASSUME Inductive, NEW c \in Writes
               PROVE  acted[c] <= 1
    BY DEF WriteAtMostOnce
  <2>1. c \in Calls /\ EffectKnown(c) /\ pc[c] \in Stages
    BY DEF Inductive, TypeOK
  <2>2. CASE pc[c] = "answered"
    BY <2>1, <2>2 DEF EffectKnown, Effects
  <2>3. CASE pc[c] = "done"
    BY <2>1, <2>3 DEF EffectKnown
  <2>4. CASE pc[c] \in Stages \ {"answered", "done"}
    BY <2>1, <2>4 DEF EffectKnown
  <2>. QED BY <2>1, <2>2, <2>3, <2>4
<1>. QED BY <1>1, InvariantHolds, PTL

\* What the caller of a write is told agrees with what the service did.
THEOREM AnswersAreTrue == Spec => []DefiniteAnswers
<1>1. Inductive => DefiniteAnswers
  BY DEF Inductive
<1>. QED BY <1>1, InvariantHolds, PTL

\* A throttle is passed on only when every repeat has been used.
THEOREM NoEarlyGivingUp == Spec => []GivesUpOnlyWhenExhausted
<1>1. Inductive => GivesUpOnlyWhenExhausted
  BY DEF Inductive
<1>. QED BY <1>1, InvariantHolds, PTL

\* With a skew that covers both ways, no request carries an expired token.
THEOREM BearersOutlastTheirWay == Spec => []NoExpiredBearer
<1>1. Inductive => NoExpiredBearer
  BY DEF Inductive, TypeOK, LifeKnown, NoExpiredBearer
<1>. QED BY <1>1, InvariantHolds, PTL

-----------------------------------------------------------------------------
(* The transport implements the safety part of ServiceCall.                *)

\* Steps that neither reach the service nor answer the caller are not seen.
LEMMA SilentSteps ==
  ASSUME Inductive, NEW c \in Calls,
         \/ CacheHit(c) \/ CacheMiss(c) \/ KeepToken(c) \/ Repeat(c)
         \/ Wake(c) \/ Issue(c)
  PROVE  UNCHANGED <<acted, Told>>
<1>1. UNCHANGED acted
  BY DEF CacheHit, CacheMiss, KeepToken, Repeat, Wake, Issue
<1>2. \A d \in Calls : Told'[d] = Told[d]
  BY DEF CacheHit, CacheMiss, KeepToken, Repeat, Wake, Issue, SendRequest,
     Inductive, TypeOK, Told
<1>. QED BY <1>1, <1>2 DEF Told

LEMMA TickSilent == Tick => UNCHANGED <<acted, Told>>
  BY DEF Tick, Told

LEMMA BeginMaps ==
  ASSUME Inductive, NEW c \in Calls, Begin(c)
  PROVE  Promise!Begin(c)
  BY DEF Begin, Promise!Begin, Told, Inductive, TypeOK

\* The service acts on a write when it serves it, if it acts at all.
LEMMA ServeMaps ==
  ASSUME Inductive, NEW c \in Calls, Serve(c)
  PROVE  Promise!Act(c) \/ UNCHANGED <<acted, Told>>
<1>1. UNCHANGED Told /\ Told[c] = "open"
  BY DEF Serve, Told, Inductive, TypeOK
<1>2. acted[c] = 0
  BY DEF Serve, Inductive, EffectKnown, Stages
<1>3. PICK n \in {0, 1} : Acts(c, n)
  BY DEF Serve, Effects
<1>4. CASE c \in Writes /\ n = 1
  BY <1>1, <1>2, <1>3, <1>4 DEF Acts, Promise!Act, Inductive, TypeOK
<1>5. CASE ~ (c \in Writes /\ n = 1)
  BY <1>1, <1>2, <1>3, <1>5 DEF Acts, Inductive, TypeOK
<1>. QED BY <1>4, <1>5

\* A call that is answered is answered as the promise allows.
LEMMA AnswerMaps ==
  ASSUME Inductive, Inductive', NEW c \in Calls,
         LoginRefused(c) \/ Settle(c)
  PROVE  Promise!End(c)
<1>1. /\ UNCHANGED acted
      /\ pc' = [pc EXCEPT ![c] = "done"]
      /\ pc[c] \notin {"idle", "done"}
      /\ answer' = [answer EXCEPT ![c] = answer'[c]]
  BY DEF LoginRefused, Settle, Answer, Inductive, TypeOK
<1>2. answer'[c] \in Results \ {"interrupted"}
  BY DEF LoginRefused, Settle, Answer, Inductive, TypeOK, EffectKnown,
     Responses, Results
<1>3. /\ Told[c] = "open"
      /\ Told' = [Told EXCEPT ![c] = answer'[c]]
  BY <1>1 DEF Told, Inductive, TypeOK
<1>4. answer'[c] \in Promise!Outcomes \ {"interrupted"}
  BY <1>2 DEF Results, Promise!Outcomes, Promise!Refusals, Promise!Unsure
<1>5. Promise!Finish(c, answer'[c])
  BY <1>1, <1>3 DEF Promise!Finish, Promise!Refusals, Inductive,
     DefiniteAnswers, TypeOK
<1>. QED BY <1>4, <1>5 DEF Promise!End

LEMMA InterruptMaps ==
  ASSUME Inductive, Inductive', NEW c \in Calls, Interrupt(c)
  PROVE  Promise!Abandon(c)
<1>1. /\ Told[c] = "open"
      /\ Told' = [Told EXCEPT ![c] = "interrupted"]
  BY DEF Interrupt, Awaiting, Answer, Told, Inductive, TypeOK
<1>2. PICK n \in {0, 1} : Acts(c, n) /\ (pc[c] # "requesting" => n = 0)
  BY DEF Interrupt
<1>3. CASE c \in Writes /\ n = 1
  <2>1. acted[c] = 0
    BY <1>2, <1>3 DEF Inductive, EffectKnown, Stages
  <2>. QED BY <1>1, <1>2, <1>3, <2>1
           DEF Acts, Promise!Abandon, Inductive, TypeOK
<1>4. CASE ~ (c \in Writes /\ n = 1)
  <2>1. UNCHANGED acted
    BY <1>2, <1>4 DEF Acts, Inductive, TypeOK
  <2>. QED BY <1>1, <2>1 DEF Promise!Abandon
<1>. QED BY <1>3, <1>4

\* Whatever the transport does, seen through what the service did and what the
\* callers were told, is what ServiceCall allows.
THEOREM ImplementsPromise == Spec => Promise!Safety
<1>1. Init => Promise!Init
  BY DEF Init, Promise!Init, Told
<1>2. Inductive /\ Inductive' /\ [Next]_vars => [Promise!Next]_(Promise!vars)
  <2>. SUFFICES ASSUME Inductive, Inductive', [Next]_vars
               PROVE  Promise!Next \/ UNCHANGED <<acted, Told>>
    BY DEF Promise!vars
  <2>1. CASE Tick
    BY <2>1, TickSilent
  <2>2. ASSUME NEW c \in Calls, Begin(c) \/ Progress(c)
        PROVE  Promise!Next \/ UNCHANGED <<acted, Told>>
    BY <2>2, SilentSteps, BeginMaps, ServeMaps, AnswerMaps, InterruptMaps
       DEF Progress, Promise!Next, Promise!End
  <2>3. CASE UNCHANGED vars
    BY <2>3 DEF vars, Told
  <2>. QED BY <2>1, <2>2, <2>3 DEF Next
<1>. QED BY <1>1, <1>2, InvariantHolds, PTL DEF Spec, Promise!Safety

=============================================================================
