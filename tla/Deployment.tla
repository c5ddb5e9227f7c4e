----------------------------- MODULE Deployment -----------------------------
(***************************************************************************)
(* One deployment: the server process (server.py, its __main__) or a       *)
(* program that embeds the client (client.py), over one tenant. It reads   *)
(* its settings, builds the client, lists the tools, probes the tenant and *)
(* serves calls, through the gate each operation carries (operations.py).  *)
(* The binding it answers with is CapabilityBinding's, the calls           *)
(* ResponseActions'. What the tenant really has is known here and only     *)
(* here: the properties compare what the deployment says with it.          *)
(***************************************************************************)
EXTENDS CapabilityBinding, ResponseActions

CONSTANT
  Deployments  \* [tenant, environment, rules, repertoire]: what is deployed, over which
               \* mailbox, and which operations are called

\* Advanced hunting answers or refuses in one of the ways _failed knows, an API
\* that refuses has one of its reasons, and the mailbox has no more rules than the
\* bound on it allows.
ASSUME DeploymentsAssumption ==
  \A d \in Deployments :
    /\ d.tenant.hunting \in {"open", "permission", "licence"}
    /\ \A c \in DOMAIN d.tenant.refused :
         d.tenant.refused[c] \in {"permission", "licence", "auditing off"}
    /\ d.environment.credential \in BOOLEAN
    /\ d.rules \subseteq InboxRule /\ Distinct(d.rules) /\ Cardinality(d.rules) <= MaxRules

VARIABLES
  deployment,
  phase,    \* "down", "refused", "serving", "embedded" or "stopped"
  listed,   \* the operations the server lists as tools
  warming,  \* the probe at start is still to run
  binding,  \* the binding last answered
  kept,     \* _binding: the one kept for the next question
  estate,
  read,     \* the inbox rule a caller last read
  outcome   \* how the last call ended

vars == <<deployment, phase, listed, warming, binding, kept, estate, read, outcome>>

tenant == deployment.tenant
environment == deployment.environment

Tiers == {"absent", "silent", "reporting"}
NoBinding == [complete |-> FALSE]

NewEstate ==
  [machine |-> [isolated |-> FALSE, restricted |-> FALSE, quarantined |-> FALSE,
                onboarded |-> TRUE, jobs |-> {}],
   account |-> [enabled |-> TRUE, sessions |-> TRUE],
   rules |-> deployment.rules,
   indicators |-> {}, scripts |-> {}, tagged |-> FALSE]

Init ==
  /\ deployment \in Deployments
  /\ phase = "down" /\ listed = {} /\ warming = FALSE
  /\ binding = NoBinding /\ kept = NoBinding
  /\ estate = NewEstate /\ read = NoRule /\ outcome = "none"

-----------------------------------------------------------------------------
(* The tenant, as the probe's requests find it.                            *)

\* The tier of a family decides its tables; the acting table's feature acts
\* where it is held.
HasRows(t) ==
  IF t \in ActingTables THEN tenant.endpoint # "absent" /\ tenant.acted
  ELSE IF t \in DeviceTables THEN tenant.endpoint = "reporting"
  ELSE IF t \in EmailTables THEN tenant.office365 = "reporting"
  ELSE t \in tenant.rows

Reaches(check) ==
  IF check.kind = "api" THEN check \notin DOMAIN tenant.refused
  ELSE tenant.hunting = "open" /\ check.of \notin tenant.unresolved

\* Why the service refuses what it does not serve.
Refusal(check) ==
  IF check.kind = "api" THEN tenant.refused[check]
  ELSE IF tenant.hunting # "open" THEN tenant.hunting ELSE "unresolved"

\* One request of the probe, while the services in `outage` fail.
Asked(check, outage) ==
  IF check.kind \in outage THEN Failed("outage")
  ELSE IF ~ Reaches(check) THEN Failed(Refusal(check))
  ELSE IF check.kind = "hunting" /\ ~ HasRows(check.of) THEN "empty" ELSE "available"

-----------------------------------------------------------------------------
(* The process.                                                            *)

\* The variable's value, as typed; only "true" enables, spaces and case aside.
AllowValues == {"unset", "yes", "1", "true", " TRUE "}
AllowActions == environment.allow \in {"true", " TRUE "}

Listed ==
  {o.name : o \in {x \in Operations : x.kind # "action" \/ AllowActions}}

\* main: an unknown entitlement id stops it; without a credential it starts,
\* lists its tools and does not probe.
Start ==
  /\ phase = "down" /\ ~ environment.embeds
  /\ IF Known(environment.declared)
     THEN phase' = "serving" /\ listed' = Listed /\ warming' = environment.credential
     ELSE phase' = "refused" /\ UNCHANGED <<listed, warming>>
  /\ UNCHANGED <<deployment, binding, kept, estate, read, outcome>>

\* A program creates the client itself; no server, no tools.
Embed ==
  /\ phase = "down" /\ environment.embeds /\ environment.credential
  /\ phase' = IF Known(environment.declared) THEN "embedded" ELSE "refused"
  /\ UNCHANGED <<deployment, listed, warming, binding, kept, estate, read, outcome>>

\* Standard input ends: the probe at start is cancelled, the client closed.
Stop ==
  /\ phase \in {"serving", "embedded"}
  /\ phase' = "stopped" /\ warming' = FALSE
  /\ UNCHANGED <<deployment, listed, binding, kept, estate, read, outcome>>

-----------------------------------------------------------------------------
(* The probe.                                                              *)

\* run_probe: every check asked once, the roles read, the declaration taken on.
ResultOf(outage) ==
  [checks |-> [c \in {Api(n) : n \in ApiChecks} \cup Hunting(HuntingTables) |-> Asked(c, outage)],
   roles |-> [api \in {"graph", "mde"} |->
                [readable |-> api \in tenant.readable, granted |-> tenant.granted]],
   declared |-> environment.declared]

\* The services that fail while a probe runs.
Outages == {{}, {"hunting"}, {"api", "hunting"}}

\* get_capabilities: the kept binding, or a new one, kept when no check failed
\* for a reason of the moment.
GetCapabilities(refresh) ==
  IF kept # NoBinding /\ ~ refresh
  THEN binding' = kept /\ outcome' = "done" /\ UNCHANGED kept
  ELSE IF ~ environment.credential
  THEN outcome' = "not configured" /\ UNCHANGED <<binding, kept>>
  ELSE \E outage \in Outages :
         /\ binding' = BuildBinding(ResultOf(outage), AllowActions)
         /\ kept' = IF binding'.complete THEN binding' ELSE NoBinding
         /\ outcome' = "done"

WarmUp ==
  /\ phase = "serving" /\ warming
  /\ GetCapabilities(FALSE)
  /\ warming' = FALSE
  /\ UNCHANGED <<deployment, phase, listed, estate, read>>

-----------------------------------------------------------------------------
(* Calls.                                                                  *)

\* Mutant: the gate is the server's alone.
GateOfServer(o) == environment.embeds \/ o.kind # "action" \/ AllowActions

\* The gate every operation carries.
Gate(o) == o.kind # "action" \/ AllowActions

Callable(o) == phase = "embedded" \/ (phase = "serving" /\ o.name \in listed)

\* How a call of the operation ends, in the order the code finds out. What sends
\* no request needs no credential.
Ends(o, a) ==
  IF ~ Gate(o) THEN "disabled"
  ELSE IF Refused(o.name, a) THEN "invalid"
  ELSE IF ~ environment.credential /\ o \notin LocalOperations THEN "not configured"
  ELSE IF ~ Permitted(o, tenant.granted) THEN "forbidden" ELSE "done"

Call(o) ==
  /\ Callable(o) /\ o.name # "get_capabilities"
  /\ \E a \in Arguments(o.name, estate, read) :
       /\ outcome' = Ends(o, a)
       /\ estate' \in IF outcome' = "done" THEN Effects(o.name, a, estate) ELSE {estate}
       /\ read' = IF o.name = "get_inbox_rule" /\ outcome' = "done" THEN a ELSE read
  /\ UNCHANGED <<deployment, phase, listed, warming, binding, kept>>

\* The same operation, called when its lock is free (CapabilityProbe has the lock).
AskCapabilities ==
  /\ Callable(Named("get_capabilities"))
  /\ \E refresh \in BOOLEAN : GetCapabilities(refresh)
  /\ UNCHANGED <<deployment, phase, listed, warming, estate, read>>

Next ==
  \/ Start \/ Embed \/ Stop \/ WarmUp \/ AskCapabilities
  \/ \E o \in Operations : o.name \in deployment.repertoire /\ Call(o)

Spec == Init /\ [][Next]_vars

-----------------------------------------------------------------------------
(* Properties.                                                             *)

\* Every variable keeps its type, ids are one thing's, and nothing serves under
\* a declaration with an id it does not know (check_entitlements).
TypeOK ==
  /\ deployment \in Deployments
  /\ phase \in {"down", "refused", "serving", "embedded", "stopped"}
  /\ phase \notin {"down", "refused"} => environment.declared.ids \subseteq Entitlements
  /\ listed \subseteq Names /\ warming \in BOOLEAN
  /\ kept \in {binding, NoBinding}
  /\ estate \in Estate
  /\ Distinct(estate.rules) /\ Distinct(estate.indicators)
  /\ read \in InboxRule \cup {NoRule}
  /\ outcome \in {"none", "disabled", "invalid", "not configured", "forbidden", "done"}

Held(entitlement) == tenant[Family[entitlement]] # "absent"
SpokenFor(entitlement) ==
  LET declared == environment.declared IN
  declared.stated /\ (declared.ids = {} \/ \E d \in declared.ids : Family[d] = Family[entitlement])

\* What is declared of the families it speaks for is so.
Truthful ==
  \A e \in {"endpoint_p2", "office365_p2"} :
    SpokenFor(e) => (e \in environment.declared.ids <=> Held(e))

\* Whether the tenant can answer what the check asks about; roles nobody can
\* read count as granted (Check.ok).
Answers(check) ==
  \/ check.kind = "always"
  \/ /\ check.kind = "role"
     /\ ApiOfRole(check.of) \notin tenant.readable \/ check.of \in tenant.granted
  \/ check.kind = "api" /\ Reaches(check)
  \/ /\ check.kind = "hunting" /\ Reaches(check)
     /\ \/ HasRows(check.of)
        \/ check.of \in ActingTables /\ Held("endpoint_p2") /\ SpokenFor("endpoint_p2")

\* What a gated table without rows is said to be, against what the tenant has.
TablesAreTrue ==
  \A t \in DOMAIN TableEntitlement :
    LET e == TableEntitlement[t]
        status == binding.checks[Check("hunting", t)]
    IN
    Reaches(Check("hunting", t)) =>
      /\ status = "unlicensed" => SpokenFor(e) /\ ~ Held(e)
      /\ status = "entitled_no_rows" => Held(e) /\ ~ tenant.acted
      /\ status = "undeclared" => ~ SpokenFor(e)
      /\ status = "empty" => Held(e) /\ t \notin ActingTables

\* A class is bound, a source provided, only where the tenant can answer, and
\* wherever it can unless the probe met an outage.
ClaimsAreTrue ==
  LET met(option) ==
        /\ \A c \in option.all : Answers(c)
        /\ option.any = {} \/ \E c \in option.any : Answers(c)
      serves(class) == \E i \in DOMAIN ClassBindings[class] : met(ClassBindings[class][i])
      provides(rule) ==
        (\E c \in rule.any : Answers(c)) \/ (rule.all # {} /\ \A c \in rule.all : Answers(c))
  IN
  /\ \A class \in DOMAIN binding.capabilities :
       \E i \in DOMAIN ClassBindings[class] :
         ClassBindings[class][i].operation = binding.capabilities[class].operation
         /\ met(ClassBindings[class][i])
  /\ \A s \in DOMAIN DataSources : binding.data_sources[s] => provides(DataSources[s])
  /\ binding.complete =>
       /\ \A class \in DOMAIN binding.unbound : ~ serves(class)
       /\ \A s \in DOMAIN DataSources : ~ binding.data_sources[s] => ~ provides(DataSources[s])

\* "It is not required only where the table holds rows, or where the deployment
\* stated the feature absent, or the licence does not expose it" (probe.py:287).
PortalIsAskedFor ==
  LET acting == Check("hunting", "DisruptionAndResponseEvents") IN
  ~ binding.manual.required =>
    \/ Reaches(acting) /\ HasRows(acting.of)
    \/ Reaches(acting) /\ SpokenFor("endpoint_p2") /\ ~ Held("endpoint_p2")
    \/ tenant.hunting = "licence" \/ acting.of \in tenant.unresolved

\* What the binding says of the tenant is so, provided what was declared is:
\* "an empty gated table with nothing declared is unavailable, never a quiet
\* tenant" (capabilities.py:386).
BindingIsTrue ==
  binding # NoBinding /\ Truthful =>
    /\ TablesAreTrue
    /\ ClaimsAreTrue
    /\ PortalIsAskedFor
    /\ "siem.search" \in DOMAIN binding.capabilities <=> binding.hunting = "available"

SameButIds(e, f) ==
  /\ [e EXCEPT !.rules = {}, !.indicators = {}] = [f EXCEPT !.rules = {}, !.indicators = {}]
  /\ {r.does : r \in e.rules} = {r.does : r \in f.rules}
  /\ Cardinality(e.rules) = Cardinality(f.rules)
  /\ {<<x.value, x.does>> : x \in e.indicators} = {<<x.value, x.does>> : x \in f.indicators}

\* The call updates an indicator that is there: nothing here keeps what it did.
Overwrites(name, a) ==
  name = "create_indicator" /\ DOMAIN a.asks \cap ValuesOf(estate.indicators) # {}

\* Whatever the operation does, but for what it overwrites, some call of its
\* rollback takes back, ids aside, given what was read before.
Undoes(rollback, name) ==
  \A a \in {x \in Arguments(name, estate, read) : ~ Overwrites(name, x)} :
    \A after \in Effects(name, a, estate) \ {estate} :
      \E b \in Arguments(rollback, after, a) :
        \E undone \in Effects(rollback, b, after) : SameButIds(undone, estate)

\* What a class is bound to can be called: it is listed or noted as disabled; if
\* it writes or acts, a token whose roles were read may call it (for a read the
\* probe asked the service itself); and its rollback is there with it and takes it
\* back, an indicator that was overwritten aside (_entry; mailbox.py:93).
BoundIsCallable ==
  binding # NoBinding =>
    \A class \in DOMAIN binding.capabilities :
      LET entry == binding.capabilities[class]
          o == Named(entry.operation)
          known == o.kind = "read" \/ tenant.readable = {"graph", "mde"}
      IN
      /\ phase = "serving" => (entry.disabled <=> o.name \notin listed)
      /\ phase = "embedded" => (entry.disabled <=> ~ Gate(o))
      /\ known /\ o.kind # "read" => Permitted(o, tenant.granted)
      /\ entry.rollback # "none" =>
           /\ o.name \in listed <=> entry.rollback \in listed
           /\ known => Permitted(Named(entry.rollback), tenant.granted)
           /\ Undoes(entry.rollback, o.name)

\* "Response actions raise unless the client is created with allow_actions:
\* safe by default, for the engine as for the MCP server" (client.py:47): but
\* for tags, nothing changes the estate in a deployment without it.
ActionsAreGated ==
  [][[estate' EXCEPT !.tagged = FALSE] # [estate EXCEPT !.tagged = FALSE]
       => AllowActions /\ environment.credential]_vars

-----------------------------------------------------------------------------
(* The inductive invariant the properties rest on.                         *)

\* The binding is that of a probe of this deployment, which serves or served.
BindingIsBuilt ==
  binding # NoBinding =>
    /\ phase \notin {"down", "refused"}
    /\ \E outage \in Outages : binding = BuildBinding(ResultOf(outage), AllowActions)

\* The tools of a server are the ones its setting lists; nothing else has tools.
ToolsAreListed ==
  /\ phase = "serving" => listed = Listed
  /\ listed \in {{}, Listed}

\* A mailbox never fills up beyond its bound.
RulesFit == Cardinality(estate.rules) <= MaxRules

Inductive == TypeOK /\ BindingIsBuilt /\ ToolsAreListed /\ RulesFit

=============================================================================
