-------------------------- MODULE DeploymentProofs --------------------------
(***************************************************************************)
(* Proofs about Deployment for any tenants, settings, declarations and     *)
(* repertoires: what a deployment answers about its tenant is so, what it  *)
(* binds a class to can be called and taken back, and one that did not     *)
(* enable response actions does none, embedded or served, whatever the     *)
(* host calls.                                                             *)
(***************************************************************************)
EXTENDS Deployment, FiniteSetTheorems, TLAPS

-----------------------------------------------------------------------------
(* What a probe's checks say.                                              *)

\* The checks a probe asks.
Probed == {Api(n) : n \in ApiChecks} \cup Hunting(HuntingTables)

LEMMA TablesAre ==
  ASSUME NEW t \in DOMAIN TableEntitlement
  PROVE  /\ Check("hunting", t) \in Probed
         /\ TableEntitlement[t] \in {"endpoint_p2", "office365_p2"}
         /\ t \in ActingTables => TableEntitlement[t] = "endpoint_p2"
         /\ HasRows(t) => Held(TableEntitlement[t])
         /\ ~ HasRows(t) /\ Held(TableEntitlement[t]) /\ t \in ActingTables => ~ tenant.acted
<1>1. DOMAIN TableEntitlement = DeviceTables \cup ActingTables \cup EmailTables
  BY DEF TableEntitlement
<1>2. TableEntitlement[t] = IF t \in EmailTables THEN "office365_p2" ELSE "endpoint_p2"
  BY <1>1 DEF TableEntitlement
<1>3. /\ t \in EmailTables => t \notin DeviceTables \cup ActingTables
      /\ t \in ActingTables => t \notin DeviceTables \cup EmailTables
  BY DEF ActingTables, DeviceTables, EmailTables
<1>4. t \in DeviceTables \cup ActingTables => TableEntitlement[t] = "endpoint_p2"
  BY <1>3, <1>2
<1>5. t \notin DeviceTables \cup ActingTables =>
        t \in EmailTables /\ TableEntitlement[t] = "office365_p2"
  BY <1>1, <1>2
<1>6. Family["endpoint_p2"] = "endpoint" /\ Family["office365_p2"] = "office365"
  BY DEF Family, Entitlements
<1>7. Check("hunting", t) \in Probed
  <2>1. t \in HuntingTables
    BY <1>1 DEF HuntingTables
  <2>. QED BY <2>1 DEF Probed, Hunting
<1>. QED BY <1>4, <1>5, <1>6, <1>7, <1>3 DEF HasRows, Held

LEMMA ActingIsGated == ActingTables \subseteq DOMAIN TableEntitlement
BY DEF TableEntitlement

\* entitlement_stated says of a licence what the declaration speaks for.
LEMMA StatedIs ==
  ASSUME environment.declared.ids \subseteq Entitlements, NEW e \in Entitlements
  PROVE  LET stated == EntitlementStated(e, environment.declared) IN
         /\ stated \in {"unsaid", "held", "absent"}
         /\ stated = "unsaid" <=> ~ SpokenFor(e)
         /\ stated = "held" => SpokenFor(e) /\ e \in environment.declared.ids
         /\ stated = "absent" => SpokenFor(e) /\ e \notin environment.declared.ids
BY DEF EntitlementStated, SpokenFor

LEMMA GatedAreKnown == {"endpoint_p2", "office365_p2"} \subseteq Entitlements
BY DEF Entitlements, Family

\* The ways the tenant's services refuse a check.
Refusing ==
  /\ tenant.hunting \in {"open", "permission", "licence"}
  /\ \A c \in DOMAIN tenant.refused :
       tenant.refused[c] \in {"permission", "licence", "auditing off"}

\* One request of the probe, by what it came back with.
LEMMA AskedIs ==
  ASSUME Refusing,
         NEW c, c.kind \in {"api", "hunting"}, NEW outage
  PROVE  LET said == Asked(c, outage) IN
         /\ said \in {"available", "empty", "error", "unlicensed", "forbidden", "not_exposed"}
         /\ said = "available" => Reaches(c) /\ (c.kind = "hunting" => HasRows(c.of))
         /\ said = "empty" => Reaches(c) /\ c.kind = "hunting" /\ ~ HasRows(c.of)
         /\ said = "unlicensed" /\ c.kind = "hunting" => tenant.hunting = "licence"
         /\ said = "not_exposed" => c.kind = "hunting" /\ c.of \in tenant.unresolved
         /\ Reaches(c) => said \in {"available", "empty", "error"}
<1>. DEFINE said == Asked(c, outage)
<1>1. CASE c.kind \in outage
  <2>1. said = "error"
    BY <1>1 DEF Asked, Failed
  <2>. QED BY <2>1
<1>2. CASE c.kind \notin outage /\ ~ Reaches(c)
  <2>1. said = Failed(Refusal(c))
    BY <1>2 DEF Asked
  <2>2. CASE c.kind = "api"
    <3>1. c \in DOMAIN tenant.refused /\ Refusal(c) = tenant.refused[c]
      BY <1>2, <2>2 DEF Reaches, Refusal
    <3>2. Refusal(c) \in {"permission", "licence", "auditing off"}
      BY <3>1 DEF Refusing
    <3>3. said \in {"forbidden", "unlicensed"}
      BY <2>1, <3>2 DEF Failed
    <3>. QED BY <1>2, <2>2, <3>3
  <2>3. CASE c.kind = "hunting" /\ tenant.hunting # "open"
    <3>1. said = IF tenant.hunting = "licence" THEN "unlicensed" ELSE "forbidden"
      BY <2>1, <2>3 DEF Refusal, Failed, Refusing
    <3>. QED BY <1>2, <2>3, <3>1
  <2>4. CASE c.kind = "hunting" /\ tenant.hunting = "open"
    <3>1. said = "not_exposed"
      BY <2>1, <2>4 DEF Refusal, Failed
    <3>2. c.of \in tenant.unresolved
      BY <1>2, <2>4 DEF Reaches
    <3>. QED BY <1>2, <2>4, <3>1, <3>2
  <2>. QED BY <2>2, <2>3, <2>4
<1>3. CASE c.kind \notin outage /\ Reaches(c)
  <2>1. said = IF c.kind = "hunting" /\ ~ HasRows(c.of) THEN "empty" ELSE "available"
    BY <1>3 DEF Asked
  <2>. QED BY <1>3, <2>1
<1>. QED BY <1>1, <1>2, <1>3

\* The kinds of the checks a probe asks.
LEMMA ProbedAre ==
  ASSUME NEW c \in Probed
  PROVE  /\ c.kind \in {"api", "hunting"}
         /\ c = Check(c.kind, c.of)
BY DEF Probed, Api, Hunting, Check

\* What a probe that met these tenant and declaration says of a check it asked.
LEMMA StatusIs ==
  ASSUME Refusing, NEW outage, NEW c \in Probed
  PROVE  LET R == ResultOf(outage)
             said == Asked(c, outage)
         IN
         /\ DOMAIN R.checks = Probed
         /\ R.checks[c] = said
         /\ StatusOf(R, c) = IF said = "empty" THEN Entitled(c.of, environment.declared) ELSE said
<1>. DEFINE R == ResultOf(outage)
<1>1. DOMAIN R.checks = Probed /\ R.checks[c] = Asked(c, outage)
  BY DEF ResultOf, Probed
<1>2. R.declared = environment.declared
  BY DEF ResultOf
<1>3. c.kind \notin {"always", "role"}
  BY ProbedAre
<1>4. Asked(c, outage) = "empty" => c.kind = "hunting"
  BY ProbedAre, AskedIs
<1>. QED BY <1>1, <1>2, <1>3, <1>4 DEF StatusOf

\* An empty table without rows is said to be what was declared of it; with a
\* truthful declaration, what the tenant has.
LEMMA EntitledIs ==
  ASSUME environment.declared.ids \subseteq Entitlements, NEW t
  PROVE  LET e == TableEntitlement[t]
             said == Entitled(t, environment.declared)
         IN
         /\ said \in {"empty", "undeclared", "unlicensed", "entitled_no_rows"}
         /\ t \notin DOMAIN TableEntitlement => said = "empty"
         /\ t \in DOMAIN TableEntitlement =>
              /\ said = "undeclared" <=> ~ SpokenFor(e)
              /\ said = "unlicensed" => SpokenFor(e) /\ e \notin environment.declared.ids
              /\ said = "entitled_no_rows" =>
                   SpokenFor(e) /\ e \in environment.declared.ids /\ t \in ActingTables
              /\ said = "empty" =>
                   SpokenFor(e) /\ e \in environment.declared.ids /\ t \notin ActingTables
<1>1. CASE t \notin DOMAIN TableEntitlement
  BY <1>1 DEF Entitled
<1>2. CASE t \in DOMAIN TableEntitlement
  <2>1. TableEntitlement[t] \in Entitlements
    BY <1>2, TablesAre, GatedAreKnown
  <2>2. LET stated == EntitlementStated(TableEntitlement[t], environment.declared) IN
        Entitled(t, environment.declared) =
          CASE stated = "unsaid" -> "undeclared"
            [] stated = "absent" -> "unlicensed"
            [] stated = "held" -> IF t \in ActingTables THEN "entitled_no_rows" ELSE "empty"
    BY <1>2, <2>1, StatedIs DEF Entitled
  <2>. QED BY <1>2, <2>1, <2>2, StatedIs
<1>. QED BY <1>1, <1>2

\* What is said of an empty gated table, of a truthful declaration.
LEMMA DeclaredIsHeld ==
  ASSUME environment.declared.ids \subseteq Entitlements, Truthful,
         NEW t \in DOMAIN TableEntitlement
  PROVE  LET e == TableEntitlement[t]
             said == Entitled(t, environment.declared)
         IN
         /\ said = "undeclared" => ~ SpokenFor(e)
         /\ said = "unlicensed" => SpokenFor(e) /\ ~ Held(e)
         /\ said = "entitled_no_rows" => SpokenFor(e) /\ Held(e) /\ t \in ActingTables
         /\ said = "empty" => Held(e) /\ t \notin ActingTables
         /\ SpokenFor(e) /\ Held(e) /\ t \in ActingTables => said = "entitled_no_rows"
<1>1. TableEntitlement[t] \in {"endpoint_p2", "office365_p2"}
  BY TablesAre
<1>2. LET e == TableEntitlement[t] IN
      SpokenFor(e) => (e \in environment.declared.ids <=> Held(e))
  BY <1>1 DEF Truthful
<1>. QED BY <1>2, EntitledIs

\* The types the checks' meaning rests on.
Typed == /\ Refusing
         /\ environment.declared.ids \subseteq Entitlements

\* A role reads as what the tenant's token carries.
LEMMA GrantedIs ==
  ASSUME NEW outage, NEW role
  PROVE  Granted(ResultOf(outage).roles, role) =
           IF ApiOfRole(role) \notin tenant.readable THEN "unknown"
           ELSE IF role \in tenant.granted THEN "granted" ELSE "missing"
<1>. DEFINE api == ResultOf(outage).roles[ApiOfRole(role)]
<1>1. ApiOfRole(role) \in {"graph", "mde"}
  BY DEF ApiOfRole
<1>2. api = [readable |-> ApiOfRole(role) \in tenant.readable, granted |-> tenant.granted]
  BY <1>1 DEF ResultOf
<1>3. (api.readable <=> ApiOfRole(role) \in tenant.readable) /\ api.granted = tenant.granted
  <2>. HIDE DEF api
  <2>1. api.readable = (ApiOfRole(role) \in tenant.readable) /\ api.granted = tenant.granted
    BY <1>2
  <2>. QED BY <2>1
<1>. HIDE DEF api
<1>4. CASE ApiOfRole(role) \in tenant.readable
  BY <1>3, <1>4 DEF Granted, api
<1>5. CASE ApiOfRole(role) \notin tenant.readable
  BY <1>3, <1>5 DEF Granted, api
<1>. QED BY <1>4, <1>5

\* A check that holds is answered by the tenant, if the declaration is true.
LEMMA HoldsIsTrue ==
  ASSUME Typed, Truthful, NEW outage, NEW c, Holds(ResultOf(outage), c)
  PROVE  Answers(c)
<1>. DEFINE R == ResultOf(outage)
<1>1. CASE c.kind = "always"
  BY <1>1 DEF Answers
<1>2. CASE c.kind = "role"
  <2>1. StatusOf(R, c) = Granted(R.roles, c.of)
    BY <1>2 DEF StatusOf
  <2>3. Granted(R.roles, c.of) = IF ApiOfRole(c.of) \notin tenant.readable THEN "unknown"
                                 ELSE IF c.of \in tenant.granted THEN "granted" ELSE "missing"
    BY GrantedIs
  <2>4. ApiOfRole(c.of) \notin tenant.readable \/ c.of \in tenant.granted
    BY <2>1, <2>3 DEF Holds, Ok
  <2>. QED BY <1>2, <2>4 DEF Answers
<1>3. CASE c.kind \notin {"always", "role"}
  <2>1. c \in Probed
    <3>1. DOMAIN R.checks = Probed
      BY DEF ResultOf, Probed
    <3>. QED BY <1>3, <3>1 DEF Holds, StatusOf, Ok
  <2>2. StatusOf(R, c) = IF Asked(c, outage) = "empty"
                         THEN Entitled(c.of, environment.declared) ELSE Asked(c, outage)
    BY <2>1, StatusIs DEF Typed
  <2>3. CASE Asked(c, outage) = "empty"
    <3>1. Reaches(c) /\ c.kind = "hunting"
      BY <2>1, <2>3, ProbedAre, AskedIs DEF Typed
    <3>2. Entitled(c.of, environment.declared) = "entitled_no_rows"
      BY <2>2, <2>3, EntitledIs DEF Holds, Ok, Typed
    <3>3. c.of \in DOMAIN TableEntitlement
      BY <3>2, EntitledIs DEF Typed
    <3>4. /\ c.of \in ActingTables
          /\ SpokenFor(TableEntitlement[c.of]) /\ Held(TableEntitlement[c.of])
      BY <3>2, <3>3, DeclaredIsHeld DEF Typed
    <3>5. TableEntitlement[c.of] = "endpoint_p2"
      BY <3>3, <3>4, TablesAre
    <3>. QED BY <3>1, <3>4, <3>5 DEF Answers
  <2>4. CASE Asked(c, outage) # "empty"
    <3>1. Asked(c, outage) = "available"
      BY <2>1, <2>2, <2>4, ProbedAre, AskedIs DEF Holds, Ok, Typed
    <3>2. Reaches(c) /\ (c.kind = "hunting" => HasRows(c.of))
      BY <2>1, <3>1, ProbedAre, AskedIs DEF Typed
    <3>. QED BY <2>1, <3>2, ProbedAre DEF Answers
  <2>. QED BY <2>3, <2>4
<1>. QED BY <1>1, <1>2, <1>3

\* The roles a capability class or a source needs, and the checks it may rest on.
NeededRoles == {"Machine.Isolate", "Machine.StopAndQuarantine", "User.RevokeSessions.All",
                "User.EnableDisableAccount.All", "User.ReadWrite.All", "Mail.ReadWrite",
                "Ti.ReadWrite.All", "SecurityIncident.ReadWrite.All", "File.Read.All"}
Rested == {Check("always", "local")} \cup {Role(r) : r \in NeededRoles} \cup Probed

\* A check the tenant answers holds, unless its probe met an outage.
LEMMA AnswersHold ==
  ASSUME Typed, Truthful, NEW outage, NEW c \in Rested, Answers(c),
         Complete(ResultOf(outage))
  PROVE  Holds(ResultOf(outage), c)
<1>. DEFINE R == ResultOf(outage)
<1>1. CASE c = Check("always", "local")
  BY <1>1 DEF Holds, StatusOf, Ok, Check
<1>2. CASE c \in {Role(r) : r \in NeededRoles}
  <2>1. c.kind = "role"
    BY <1>2 DEF Role, Check
  <2>3. Granted(R.roles, c.of) = IF ApiOfRole(c.of) \notin tenant.readable THEN "unknown"
                                 ELSE IF c.of \in tenant.granted THEN "granted" ELSE "missing"
    BY GrantedIs
  <2>4. ApiOfRole(c.of) \notin tenant.readable \/ c.of \in tenant.granted
    BY <2>1 DEF Answers
  <2>5. StatusOf(R, c) = Granted(R.roles, c.of)
    BY <2>1 DEF StatusOf
  <2>. QED BY <2>3, <2>4, <2>5 DEF Holds, Ok
<1>3. CASE c \in Probed
  <2>1. /\ DOMAIN R.checks = Probed /\ R.checks[c] = Asked(c, outage)
        /\ StatusOf(R, c) = IF Asked(c, outage) = "empty"
                            THEN Entitled(c.of, environment.declared) ELSE Asked(c, outage)
    BY <1>3, StatusIs DEF Typed
  <2>2. Asked(c, outage) # "error"
    BY <1>3, <2>1 DEF Complete
  <2>3. Reaches(c) /\ c.kind \in {"api", "hunting"}
    BY <1>3, ProbedAre DEF Answers
  <2>4. Asked(c, outage) \in {"available", "empty"}
    BY <2>2, <2>3, AskedIs DEF Typed
  <2>5. CASE Asked(c, outage) = "available"
    BY <2>1, <2>5 DEF Holds, Ok
  <2>6. CASE Asked(c, outage) = "empty"
    <3>1. c.kind = "hunting" /\ ~ HasRows(c.of)
      BY <2>3, <2>6, AskedIs DEF Typed
    <3>2. c.of \in ActingTables /\ Held("endpoint_p2") /\ SpokenFor("endpoint_p2")
      BY <3>1 DEF Answers
    <3>3. c.of \in DOMAIN TableEntitlement /\ TableEntitlement[c.of] = "endpoint_p2"
      BY <3>2, ActingIsGated, TablesAre
    <3>4. Entitled(c.of, environment.declared) = "entitled_no_rows"
      BY <3>2, <3>3, DeclaredIsHeld DEF Typed
    <3>. QED BY <2>1, <2>6, <3>4 DEF Holds, Ok
  <2>. QED BY <2>4, <2>5, <2>6
<1>. QED BY <1>1, <1>2, <1>3 DEF Rested

-----------------------------------------------------------------------------
(* What the classes and sources rest on.                                   *)

\* A table has a value for each of its keys, that of one of its pairs.
LEMMA TableIs ==
  ASSUME NEW pairs, NEW k \in DOMAIN Table(pairs)
  PROVE  \E p \in pairs : p[1] = k /\ Table(pairs)[k] = p[2]
<1>1. k \in Keys(pairs) /\ Table(pairs)[k] = (CHOOSE p \in pairs : p[1] = k)[2]
  BY DEF Table
<1>2. \E p \in pairs : p[1] = k
  BY <1>1 DEF Keys
<1>. QED BY <1>1, <1>2

LEMMA TableKeys ==
  ASSUME NEW pairs
  PROVE  DOMAIN Table(pairs) = Keys(pairs)
BY DEF Table

\* One or two options, all of them of S.
OptionsOf(options, S) ==
  /\ DOMAIN options \in {{1}, {1, 2}}
  /\ \A i \in DOMAIN options : options[i] \in S

LEMMA OneOption ==
  ASSUME NEW S, NEW o \in S
  PROVE  OptionsOf(<<o>>, S)
BY DEF OptionsOf

LEMMA TwoOptions ==
  ASSUME NEW S, NEW o \in S, NEW p \in S
  PROVE  OptionsOf(<<o, p>>, S)
BY DEF OptionsOf

ReadingNames == {"get_machine", "run_hunting_query", "get_user_machines", "list_incidents",
                 "get_file_info", "decode_command", "get_incident_evidence", "list_sign_ins"}

ReadingOptions ==
  [operation : ReadingNames, all : SUBSET Rested, any : SUBSET Rested, rollback : {"none"}]

\* The roles that let a token call an operation.
Granting(name) == UNION {Broader(p) : p \in Named(name).permissions}

RollbackNames == {"unisolate_machine", "enable_account", "create_inbox_rule", "delete_indicator"}

\* Each operation that is taken back, and by which.
Rollbacks == {<<"isolate_machine", "unisolate_machine">>, <<"disable_account", "enable_account">>,
              <<"delete_inbox_rule", "create_inbox_rule">>,
              <<"create_indicator", "delete_indicator">>}

\* Options to act hold only with a role that grants the operation.
ActingOptions(names) ==
  {o \in [operation : names, all : SUBSET Rested, any : SUBSET Rested,
          rollback : RollbackNames \cup {"none"}] :
     /\ o.rollback # "none" => <<o.operation, o.rollback>> \in Rollbacks
     /\ \/ \E r \in Granting(o.operation) : Role(r) \in o.all
        \/ o.any # {} /\ o.any \subseteq {Role(r) : r \in Granting(o.operation)}}

LEMMA RestedAre ==
  /\ \A n \in ApiChecks : Api(n) \in Rested
  /\ \A T \in SUBSET HuntingTables : Hunting(T) \subseteq Rested
  /\ \A r \in NeededRoles : Role(r) \in Rested
  /\ Check("always", "local") \in Rested
BY DEF Rested, Probed, Hunting

LEMMA RoleRests ==
  /\ Role("Machine.Isolate") \in Rested /\ Role("Machine.StopAndQuarantine") \in Rested
  /\ Role("User.RevokeSessions.All") \in Rested /\ Role("User.ReadWrite.All") \in Rested
  /\ Role("User.EnableDisableAccount.All") \in Rested /\ Role("Mail.ReadWrite") \in Rested
  /\ Role("Ti.ReadWrite.All") \in Rested /\ Role("File.Read.All") \in Rested
  /\ Role("SecurityIncident.ReadWrite.All") \in Rested
BY RestedAre DEF NeededRoles

LEMMA NeedsAre ==
  ASSUME NEW name \in ReadingNames, NEW checks \in SUBSET Rested
  PROVE  Needs(name, checks) \in ReadingOptions
BY DEF Needs, Option, ReadingOptions

LEMMA MdeRests == Mde \subseteq Rested /\ Users \subseteq Rested
<1>1. "mde.machines" \in ApiChecks /\ "graph.users" \in ApiChecks
  BY DEF ApiChecks
<1>. QED BY <1>1, RestedAre DEF Mde, Users

LEMMA HuntingRests ==
  ASSUME NEW t \in {"IdentityInfo", "DeviceProcessEvents", "IdentityLogonEvents", "EmailEvents",
                    "CloudAppEvents", "DeviceNetworkEvents"}
  PROVE  Hunting({t}) \subseteq Rested
<1>1. t \in HuntingTables
  BY DEF HuntingTables, DeviceTables, EmailTables
<1>. QED BY <1>1, RestedAre

LEMMA RawRests == Hunting(RawTables) \subseteq Rested
<1>1. RawTables \subseteq HuntingTables
  BY DEF RawTables, HuntingTables, DeviceTables, EmailTables
<1>. QED BY <1>1, RestedAre

LEMMA ApisRest ==
  ASSUME NEW n \in ApiChecks
  PROVE  {Api(n)} \subseteq Rested
BY RestedAre

\* The classes that are read.
LEMMA ReadingAre == \A p \in ReadingClasses : OptionsOf(p[2], ReadingOptions)
<1>. DEFINE N(name, checks) == Needs(name, checks)
<1>1. N("get_machine", Mde) \in ReadingOptions
  BY NeedsAre, MdeRests DEF ReadingNames
<1>2. N("run_hunting_query", Hunting({"IdentityInfo"})) \in ReadingOptions
  BY NeedsAre, HuntingRests DEF ReadingNames
<1>3. N("get_user_machines", Mde) \in ReadingOptions
  BY NeedsAre, MdeRests DEF ReadingNames
<1>4. N("list_incidents", {Api("graph.incidents")}) \in ReadingOptions
  BY NeedsAre, ApisRest DEF ReadingNames, ApiChecks
<1>5. N("get_file_info", Mde) \in ReadingOptions
  BY NeedsAre, MdeRests DEF ReadingNames
<1>6. N("decode_command", {Check("always", "local")}) \in ReadingOptions
  BY NeedsAre, RestedAre DEF ReadingNames
<1>7. N("run_hunting_query", Hunting({"DeviceProcessEvents"})) \in ReadingOptions
  BY NeedsAre, HuntingRests DEF ReadingNames
<1>8. N("get_incident_evidence", {Api("graph.alerts")}) \in ReadingOptions
  BY NeedsAre, ApisRest DEF ReadingNames, ApiChecks
<1>9. N("list_sign_ins", {Api("graph.sign_ins")}) \in ReadingOptions
  BY NeedsAre, ApisRest DEF ReadingNames, ApiChecks
<1>10. N("run_hunting_query", Hunting({"IdentityLogonEvents"})) \in ReadingOptions
  BY NeedsAre, HuntingRests DEF ReadingNames
<1>11. N("run_hunting_query", Hunting({"EmailEvents"})) \in ReadingOptions
  BY NeedsAre, HuntingRests DEF ReadingNames
<1>12. N("run_hunting_query", Hunting({"CloudAppEvents"})) \in ReadingOptions
  BY NeedsAre, HuntingRests DEF ReadingNames
<1>13. N("run_hunting_query", Hunting({"DeviceNetworkEvents"})) \in ReadingOptions
  BY NeedsAre, HuntingRests DEF ReadingNames
<1>14. Option("run_hunting_query", {}, Hunting(RawTables), "none") \in ReadingOptions
  BY RawRests DEF Option, ReadingOptions, ReadingNames
<1>. QED BY <1>1, <1>2, <1>3, <1>4, <1>5, <1>6, <1>7, <1>8, <1>9, <1>10, <1>11, <1>12, <1>13,
            <1>14, OneOption, TwoOptions DEF ReadingClasses

-----------------------------------------------------------------------------
(* The operations, by name.                                                *)

\* What the operations a class is bound to, or that take one back, declare.
DeclaredAs(o) ==
  /\ o.name \in ReadingNames => o.kind = "read"
  /\ o.name = "add_incident_comment" =>
       o.kind = "write" /\ o.permissions = {"SecurityIncident.ReadWrite.All"}
  /\ o.name \in {"isolate_machine", "unisolate_machine"} =>
       o.kind = "action" /\ o.permissions = {"Machine.Isolate"}
  /\ o.name = "stop_and_quarantine_file" =>
       o.kind = "action" /\ o.permissions = {"Machine.StopAndQuarantine"}
  /\ o.name = "revoke_sign_in_sessions" =>
       o.kind = "action" /\ o.permissions = {"User.RevokeSessions.All"}
  /\ o.name \in {"disable_account", "enable_account"} =>
       o.kind = "action" /\ o.permissions = {"User.EnableDisableAccount.All"}
  /\ o.name \in {"delete_inbox_rule", "create_inbox_rule"} =>
       o.kind = "action" /\ o.permissions = {"Mail.ReadWrite"}
  /\ o.name \in {"create_indicator", "delete_indicator"} =>
       o.kind = "action" /\ o.permissions = {"Ti.ReadWrite.All"}

\* The operations declared as reads, by name.
QuietReads == {"list_incidents", "get_incident_evidence", "get_capabilities", "get_machine",
               "get_user_machines", "get_file_info", "run_hunting_query", "list_sign_ins",
               "get_inbox_rule", "list_audit_searches", "start_audit_search",
               "get_audit_search", "list_audit_search_records", "decode_command",
               "timestamp_to_utc"}

LEMMA ReadsAre ==
  ASSUME NEW o \in Reading
  PROVE  o.kind = "read" /\ o.name \in QuietReads
BY DEF Reading, LocalOperations, Declared, QuietReads

LEMMA AllDeclared == \A o \in Operations : DeclaredAs(o)
<1>. SUFFICES ASSUME NEW o \in Operations PROVE DeclaredAs(o)
  OBVIOUS
<1>1. CASE o \in Reading
  BY <1>1, ReadsAre DEF QuietReads, DeclaredAs, ReadingNames
<1>2. CASE o \in MachineOperations
  BY <1>2 DEF MachineOperations, Declared, DeclaredAs, ReadingNames
<1>3. CASE o \in LiveOperations
  BY <1>3 DEF LiveOperations, Declared, DeclaredAs, ReadingNames
<1>4. CASE o \in IdentityOperations
  BY <1>4 DEF IdentityOperations, Declared, DeclaredAs, ReadingNames
<1>5. CASE o \in MailboxOperations
  BY <1>5 DEF MailboxOperations, Declared, DeclaredAs, ReadingNames
<1>6. CASE o \in IndicatorOperations
  BY <1>6 DEF IndicatorOperations, Declared, DeclaredAs, ReadingNames
<1>7. CASE o \in IncidentOperations
  BY <1>7 DEF IncidentOperations, AlertOperations, Declared, DeclaredAs, ReadingNames
<1>. QED BY <1>1, <1>2, <1>3, <1>4, <1>5, <1>6, <1>7 DEF Operations

\* The operations that act in a containment class, and those that take one back.
ContainingNames == {"isolate_machine", "revoke_sign_in_sessions", "disable_account",
                    "delete_inbox_rule", "stop_and_quarantine_file", "create_indicator"}

LEMMA IsNamed ==
  ASSUME NEW name, NEW o \in Operations, o.name = name
  PROVE  Named(name) \in Operations /\ Named(name).name = name
BY DEF Named

LEMMA NamedAre ==
  ASSUME NEW name \in ReadingNames \cup ContainingNames \cup RollbackNames
                      \cup {"add_incident_comment"}
  PROVE  /\ Named(name) \in Operations /\ Named(name).name = name
         /\ DeclaredAs(Named(name))
<1>1. CASE name \in ReadingNames
  <2>1. \E o \in Reading : o.name = name
    <3>1. CASE name \in {"list_incidents", "get_incident_evidence"}
      <4>1. [name |-> name, kind |-> "read", permissions |-> {"SecurityIncident.Read.All"}]
              \in Reading
        BY <3>1 DEF Reading, Declared
      <4>. QED BY <4>1
    <3>2. CASE name \in {"get_machine", "get_user_machines"}
      <4>1. [name |-> name, kind |-> "read", permissions |-> {"Machine.Read.All"}] \in Reading
        BY <3>2 DEF Reading, Declared
      <4>. QED BY <4>1
    <3>3. CASE name = "get_file_info"
      <4>1. [name |-> name, kind |-> "read", permissions |-> {"File.Read.All"}] \in Reading
        BY <3>3 DEF Reading, Declared
      <4>. QED BY <4>1
    <3>4. CASE name = "run_hunting_query"
      <4>1. [name |-> name, kind |-> "read", permissions |-> {"ThreatHunting.Read.All"}]
              \in Reading
        BY <3>4 DEF Reading, Declared
      <4>. QED BY <4>1
    <3>5. CASE name = "list_sign_ins"
      <4>1. [name |-> name, kind |-> "read",
             permissions |-> {"AuditLog.Read.All", "Directory.Read.All"}] \in Reading
        BY <3>5 DEF Reading, Declared
      <4>. QED BY <4>1
    <3>6. CASE name = "decode_command"
      <4>1. [name |-> name, kind |-> "read", permissions |-> {}] \in Reading
        BY <3>6 DEF Reading, LocalOperations, Declared
      <4>. QED BY <4>1
    <3>. QED BY <1>1, <3>1, <3>2, <3>3, <3>4, <3>5, <3>6 DEF ReadingNames
  <2>. QED BY <2>1, IsNamed, AllDeclared DEF Operations
<1>2. CASE name \in {"isolate_machine", "unisolate_machine"}
  <2>1. [name |-> name, kind |-> "action", permissions |-> {"Machine.Isolate"}]
          \in MachineOperations
    BY <1>2 DEF MachineOperations, Declared
  <2>. QED BY <2>1, IsNamed, AllDeclared DEF Operations
<1>3. CASE name = "stop_and_quarantine_file"
  <2>1. [name |-> name, kind |-> "action", permissions |-> {"Machine.StopAndQuarantine"}]
          \in MachineOperations
    BY <1>3 DEF MachineOperations, Declared
  <2>. QED BY <2>1, IsNamed, AllDeclared DEF Operations
<1>4. CASE name = "revoke_sign_in_sessions"
  <2>1. [name |-> name, kind |-> "action", permissions |-> {"User.RevokeSessions.All"}]
          \in IdentityOperations
    BY <1>4 DEF IdentityOperations, Declared
  <2>. QED BY <2>1, IsNamed, AllDeclared DEF Operations
<1>5. CASE name \in {"disable_account", "enable_account"}
  <2>1. [name |-> name, kind |-> "action", permissions |-> {"User.EnableDisableAccount.All"}]
          \in IdentityOperations
    BY <1>5 DEF IdentityOperations, Declared
  <2>. QED BY <2>1, IsNamed, AllDeclared DEF Operations
<1>6. CASE name \in {"delete_inbox_rule", "create_inbox_rule"}
  <2>1. [name |-> name, kind |-> "action", permissions |-> {"Mail.ReadWrite"}]
          \in MailboxOperations
    BY <1>6 DEF MailboxOperations, Declared
  <2>. QED BY <2>1, IsNamed, AllDeclared DEF Operations
<1>7. CASE name \in {"create_indicator", "delete_indicator"}
  <2>1. [name |-> name, kind |-> "action", permissions |-> {"Ti.ReadWrite.All"}]
          \in IndicatorOperations
    BY <1>7 DEF IndicatorOperations, Declared
  <2>. QED BY <2>1, IsNamed, AllDeclared DEF Operations
<1>8. CASE name = "add_incident_comment"
  <2>1. [name |-> name, kind |-> "write", permissions |-> {"SecurityIncident.ReadWrite.All"}]
          \in IncidentOperations
    BY <1>8 DEF IncidentOperations, AlertOperations, Declared
  <2>. QED BY <2>1, IsNamed, AllDeclared DEF Operations
<1>. QED BY <1>1, <1>2, <1>3, <1>4, <1>5, <1>6, <1>7, <1>8 DEF ContainingNames, RollbackNames

\* The roles that let a token call them.
LEMMA GrantingAre ==
  /\ "Machine.Isolate" \in Granting("isolate_machine")
  /\ Granting("revoke_sign_in_sessions") = {"User.RevokeSessions.All", "User.ReadWrite.All"}
  /\ Granting("disable_account") = {"User.EnableDisableAccount.All", "User.ReadWrite.All"}
  /\ Granting("delete_inbox_rule") = {"Mail.ReadWrite"}
  /\ "Machine.StopAndQuarantine" \in Granting("stop_and_quarantine_file")
  /\ "Ti.ReadWrite.All" \in Granting("create_indicator")
  /\ "SecurityIncident.ReadWrite.All" \in Granting("add_incident_comment")
<1>1. /\ Broader("User.RevokeSessions.All") = {"User.RevokeSessions.All", "User.ReadWrite.All"}
      /\ Broader("User.EnableDisableAccount.All")
           = {"User.EnableDisableAccount.All", "User.ReadWrite.All"}
      /\ Broader("Mail.ReadWrite") = {"Mail.ReadWrite"}
      /\ Broader("Machine.Isolate") = {"Machine.Isolate"}
      /\ Broader("Machine.StopAndQuarantine") = {"Machine.StopAndQuarantine"}
      /\ Broader("Ti.ReadWrite.All") = {"Ti.ReadWrite.All"}
      /\ Broader("SecurityIncident.ReadWrite.All") = {"SecurityIncident.ReadWrite.All"}
  BY DEF Broader
<1>2. \A name \in ContainingNames \cup {"add_incident_comment"} :
        Named(name).name = name /\ DeclaredAs(Named(name))
  BY NamedAre
<1>3. /\ Named("isolate_machine").permissions = {"Machine.Isolate"}
      /\ Named("revoke_sign_in_sessions").permissions = {"User.RevokeSessions.All"}
      /\ Named("disable_account").permissions = {"User.EnableDisableAccount.All"}
      /\ Named("delete_inbox_rule").permissions = {"Mail.ReadWrite"}
      /\ Named("stop_and_quarantine_file").permissions = {"Machine.StopAndQuarantine"}
      /\ Named("create_indicator").permissions = {"Ti.ReadWrite.All"}
      /\ Named("add_incident_comment").permissions = {"SecurityIncident.ReadWrite.All"}
  BY <1>2 DEF DeclaredAs, ContainingNames
<1>. QED BY <1>1, <1>3 DEF Granting

\* The classes that act, and the one that writes.
LEMMA ActingIs ==
  ASSUME NEW names, NEW name \in names, NEW all \in SUBSET Rested, NEW any \in SUBSET Rested,
         NEW back \in RollbackNames \cup {"none"}, back # "none" => <<name, back>> \in Rollbacks,
         \/ \E r \in Granting(name) : Role(r) \in all
         \/ any # {} /\ any \subseteq {Role(r) : r \in Granting(name)}
  PROVE  Option(name, all, any, back) \in ActingOptions(names)
<1>. DEFINE o == Option(name, all, any, back)
            Gives == \/ \E r \in Granting(o.operation) : Role(r) \in o.all
                     \/ o.any # {} /\ o.any \subseteq {Role(r) : r \in Granting(o.operation)}
<1>1. /\ o \in [operation : names, all : SUBSET Rested, any : SUBSET Rested,
             rollback : RollbackNames \cup {"none"}]
      /\ o.operation = name /\ o.all = all /\ o.any = any /\ o.rollback = back
  BY DEF Option
<1>. HIDE DEF o
<1>2. Gives
  BY <1>1
<1>3. o.rollback # "none" => <<o.operation, o.rollback>> \in Rollbacks
  BY <1>1
<1>4. o \in ActingOptions(names)
  BY <1>1, <1>2, <1>3, Zenon DEF ActingOptions
<1>. QED BY <1>4 DEF o

LEMMA ContainmentAre ==
  \A p \in ContainmentClasses : OptionsOf(p[2], ActingOptions(ContainingNames))
<1>. DEFINE S == ActingOptions(ContainingNames)
<1>. HIDE DEF S
<1>1. Option("isolate_machine", Mde \cup {Role("Machine.Isolate")}, {}, "unisolate_machine") \in S
  <2>. DEFINE all == Mde \cup {Role("Machine.Isolate")}
  <2>1. all \in SUBSET Rested /\ Role("Machine.Isolate") \in all
    BY MdeRests, RoleRests
  <2>2. \E r \in Granting("isolate_machine") : Role(r) \in all
    BY <2>1, GrantingAre
  <2>3. <<"isolate_machine", "unisolate_machine">> \in Rollbacks
        /\ "unisolate_machine" \in RollbackNames /\ "isolate_machine" \in ContainingNames
    BY DEF ContainingNames, Rollbacks, RollbackNames
  <2>. HIDE DEF all
  <2>4. Option("isolate_machine", all, {}, "unisolate_machine") \in S
    BY <2>1, <2>2, <2>3, ActingIs DEF S
  <2>. QED BY <2>4 DEF all
<1>2. Option("revoke_sign_in_sessions", Users,
             {Role("User.RevokeSessions.All"), Role("User.ReadWrite.All")}, "none") \in S
  <2>. DEFINE any == {Role("User.RevokeSessions.All"), Role("User.ReadWrite.All")}
  <2>1. any \in SUBSET Rested /\ any # {}
    BY RoleRests
  <2>2. any \subseteq {Role(r) : r \in Granting("revoke_sign_in_sessions")}
    BY GrantingAre
  <2>. HIDE DEF any
  <2>3. Option("revoke_sign_in_sessions", Users, any, "none") \in S
    BY <2>1, <2>2, MdeRests, ActingIs DEF ContainingNames, S
  <2>. QED BY <2>3 DEF any
<1>3. Option("disable_account", Users,
             {Role("User.EnableDisableAccount.All"), Role("User.ReadWrite.All")},
             "enable_account") \in S
  <2>. DEFINE any == {Role("User.EnableDisableAccount.All"), Role("User.ReadWrite.All")}
  <2>1. any \in SUBSET Rested /\ any # {}
    BY RoleRests
  <2>2. any \subseteq {Role(r) : r \in Granting("disable_account")}
    BY GrantingAre
  <2>3. <<"disable_account", "enable_account">> \in Rollbacks
        /\ "enable_account" \in RollbackNames /\ "disable_account" \in ContainingNames
    BY DEF ContainingNames, Rollbacks, RollbackNames
  <2>. HIDE DEF any
  <2>4. Option("disable_account", Users, any, "enable_account") \in S
    BY <2>1, <2>2, <2>3, MdeRests, ActingIs DEF S
  <2>. QED BY <2>4 DEF any
<1>4. Option("delete_inbox_rule", Users, {Role("Mail.ReadWrite")}, "create_inbox_rule") \in S
  <2>. DEFINE any == {Role("Mail.ReadWrite")}
  <2>1. any \in SUBSET Rested /\ any # {}
    BY RoleRests
  <2>2. any \subseteq {Role(r) : r \in Granting("delete_inbox_rule")}
    BY GrantingAre
  <2>3. <<"delete_inbox_rule", "create_inbox_rule">> \in Rollbacks
        /\ "create_inbox_rule" \in RollbackNames /\ "delete_inbox_rule" \in ContainingNames
    BY DEF ContainingNames, Rollbacks, RollbackNames
  <2>. HIDE DEF any
  <2>4. Option("delete_inbox_rule", Users, any, "create_inbox_rule") \in S
    BY <2>1, <2>2, <2>3, MdeRests, ActingIs DEF S
  <2>. QED BY <2>4 DEF any
<1>5. Needs("stop_and_quarantine_file", Mde \cup {Role("Machine.StopAndQuarantine")}) \in S
  <2>. DEFINE all == Mde \cup {Role("Machine.StopAndQuarantine")}
  <2>1. all \in SUBSET Rested /\ Role("Machine.StopAndQuarantine") \in all
    BY MdeRests, RoleRests
  <2>2. \E r \in Granting("stop_and_quarantine_file") : Role(r) \in all
    BY <2>1, GrantingAre
  <2>. HIDE DEF all
  <2>3. Option("stop_and_quarantine_file", all, {}, "none") \in S
    BY <2>1, <2>2, ActingIs DEF ContainingNames, S
  <2>. QED BY <2>3 DEF all, Needs
<1>6. Option("create_indicator", Mde \cup {Role("Ti.ReadWrite.All")}, {}, "delete_indicator") \in S
  <2>. DEFINE all == Mde \cup {Role("Ti.ReadWrite.All")}
  <2>1. all \in SUBSET Rested /\ Role("Ti.ReadWrite.All") \in all
    BY MdeRests, RoleRests
  <2>2. \E r \in Granting("create_indicator") : Role(r) \in all
    BY <2>1, GrantingAre
  <2>3. <<"create_indicator", "delete_indicator">> \in Rollbacks
        /\ "delete_indicator" \in RollbackNames /\ "create_indicator" \in ContainingNames
    BY DEF ContainingNames, Rollbacks, RollbackNames
  <2>. HIDE DEF all
  <2>4. Option("create_indicator", all, {}, "delete_indicator") \in S
    BY <2>1, <2>2, <2>3, ActingIs DEF S
  <2>. QED BY <2>4 DEF all
<1>7. \A p \in ContainmentClasses : OptionsOf(p[2], S)
  BY <1>1, <1>2, <1>3, <1>4, <1>5, <1>6, OneOption DEF ContainmentClasses
<1>. QED BY <1>7 DEF S

LEMMA TicketingIs ==
  \A p \in Ticketing : OptionsOf(p[2], ActingOptions({"add_incident_comment"}))
<1>. DEFINE S == ActingOptions({"add_incident_comment"})
            all == {Api("graph.incidents"), Role("SecurityIncident.ReadWrite.All")}
<1>1. all \in SUBSET Rested /\ Role("SecurityIncident.ReadWrite.All") \in all
  BY RestedAre, RoleRests DEF ApiChecks
<1>. HIDE DEF S, all
<1>2. \E r \in Granting("add_incident_comment") : Role(r) \in all
  BY <1>1, GrantingAre
<1>3. Option("add_incident_comment", all, {}, "none") \in S
  BY <1>1, <1>2, ActingIs DEF S
<1>4. \A p \in Ticketing : OptionsOf(p[2], S)
  BY <1>3, OneOption DEF Ticketing, Needs, all
<1>. QED BY <1>4 DEF S

\* The options of every class: those of a class that contains act, the others
\* read or write.
LEMMA ClassesAre ==
  ASSUME NEW class \in DOMAIN ClassBindings
  PROVE  \/ /\ class \notin Keys(ContainmentClasses)
            /\ OptionsOf(ClassBindings[class], ReadingOptions)
         \/ /\ class \in Keys(ContainmentClasses)
            /\ OptionsOf(ClassBindings[class], ActingOptions(ContainingNames))
         \/ /\ class \notin Keys(ContainmentClasses)
            /\ OptionsOf(ClassBindings[class], ActingOptions({"add_incident_comment"}))
<1>1. PICK p \in ReadingClasses \cup ContainmentClasses \cup Ticketing :
        p[1] = class /\ ClassBindings[class] = p[2]
  BY TableIs DEF ClassBindings
<1>2. Keys(ContainmentClasses) =
        {"containment.isolate_host", "containment.suspend_sessions", "containment.disable_account",
         "containment.remove_inbox_rule", "containment.quarantine_file",
         "containment.block_indicator"}
  BY DEF Keys, ContainmentClasses
<1>3. CASE p \in ReadingClasses
  <2>1. p[1] \notin Keys(ContainmentClasses)
    BY <1>2, <1>3 DEF ReadingClasses
  <2>. QED BY <1>1, <1>3, <2>1, ReadingAre
<1>4. CASE p \in ContainmentClasses
  BY <1>1, <1>4, ContainmentAre DEF Keys
<1>5. CASE p \in Ticketing
  <2>1. p[1] \notin Keys(ContainmentClasses)
    BY <1>2, <1>5 DEF Ticketing
  <2>. QED BY <1>1, <1>5, <2>1, TicketingIs
<1>. QED BY <1>1, <1>3, <1>4, <1>5

\* What an option is, whatever its class.
LEMMA OptionsAre ==
  ASSUME NEW class \in DOMAIN ClassBindings
  PROVE  /\ DOMAIN ClassBindings[class] \in {{1}, {1, 2}}
         /\ \A i \in DOMAIN ClassBindings[class] :
              /\ ClassBindings[class][i].all \subseteq Rested
              /\ ClassBindings[class][i].any \subseteq Rested
<1>1. \A o \in ReadingOptions : o.all \subseteq Rested /\ o.any \subseteq Rested
  BY DEF ReadingOptions
<1>2. \A names : \A o \in ActingOptions(names) : o.all \subseteq Rested /\ o.any \subseteq Rested
  BY DEF ActingOptions
<1>. QED BY <1>1, <1>2, ClassesAre DEF OptionsOf

\* Searching the SIEM takes one table with rows of those that hold raw events.
LEMMA SearchIs ==
  /\ "siem.search" \in DOMAIN ClassBindings
  /\ DOMAIN ClassBindings["siem.search"] = {1}
  /\ ClassBindings["siem.search"][1].all = {}
  /\ ClassBindings["siem.search"][1].any = Hunting(RawTables)
<1>. DEFINE o == Option("run_hunting_query", {}, Hunting(RawTables), "none")
            pairs == ReadingClasses \cup ContainmentClasses \cup Ticketing
<1>1. <<"siem.search", <<o>>>> \in pairs
  BY DEF ReadingClasses
<1>2. "siem.search" \in DOMAIN ClassBindings
  <2>. HIDE DEF pairs, o
  <2>1. "siem.search" \in Keys(pairs)
    BY <1>1 DEF Keys
  <2>. QED BY <2>1, TableKeys DEF ClassBindings, pairs
<1>3. PICK p \in pairs : p[1] = "siem.search" /\ ClassBindings["siem.search"] = p[2]
  BY <1>2, TableIs DEF ClassBindings
<1>4. p[2] = <<o>>
  <2>1. p \in ReadingClasses
    BY <1>3 DEF ContainmentClasses, Ticketing
  <2>. HIDE DEF o
  <2>. QED BY <1>3, <2>1 DEF ReadingClasses, o
<1>5. o.all = {} /\ o.any = Hunting(RawTables)
  BY DEF Option
<1>. HIDE DEF o
<1>6. DOMAIN <<o>> = {1} /\ <<o>>[1] = o
  OBVIOUS
<1>. QED BY <1>2, <1>3, <1>4, <1>5, <1>6

\* Every source of the framework rests on checks the probe makes.
LEMMA SourcesAre ==
  ASSUME NEW s \in DOMAIN DataSources
  PROVE  DataSources[s].any \subseteq Rested /\ DataSources[s].all \subseteq Rested
<1>. DEFINE Rests(rule) == rule.any \subseteq Rested /\ rule.all \subseteq Rested
<1>1. \A any \in SUBSET Rested : Rests(AnyOf(any)) /\ Rests(Rule(any, {}, TRUE))
  BY DEF AnyOf, Rule
<1>2. \A all \in SUBSET Rested : Rests(Rule({}, all, FALSE))
  BY DEF Rule
<1>3. /\ {} \in SUBSET Rested
      /\ {Api("graph.alerts")} \in SUBSET Rested
      /\ {Api("graph.directory_audits")} \in SUBSET Rested
      /\ {Api("graph.sign_ins")} \in SUBSET Rested
      /\ {Api("mde.software")} \in SUBSET Rested
  BY RestedAre DEF ApiChecks
<1>4. /\ Hunting({"CloudAppEvents"}) \in SUBSET Rested
      /\ Hunting({"DeviceProcessEvents"}) \in SUBSET Rested
      /\ Hunting({"EmailEvents"}) \in SUBSET Rested
      /\ Hunting({"DeviceNetworkEvents"}) \in SUBSET Rested
      /\ Hunting({"IdentityLogonEvents"}) \in SUBSET Rested
  BY HuntingRests
<1>5. Hunting({"EmailUrlInfo", "EmailAttachmentInfo"}) \in SUBSET Rested
  <2>1. {"EmailUrlInfo", "EmailAttachmentInfo"} \in SUBSET HuntingTables
    BY DEF HuntingTables, EmailTables
  <2>. QED BY <2>1, RestedAre
<1>6. Hunting({"EmailAttachmentInfo"}) \in SUBSET Rested
  <2>1. {"EmailAttachmentInfo"} \in SUBSET HuntingTables
    BY DEF HuntingTables, EmailTables
  <2>. QED BY <2>1, RestedAre
<1>7. Hunting({"IdentityLogonEvents"}) \cup {Api("graph.sign_ins")} \in SUBSET Rested
  BY <1>3, <1>4
<1>8. Mde \cup {Role("File.Read.All")} \in SUBSET Rested
  <2>1. Mde \subseteq Rested /\ Role("File.Read.All") \in Rested
    BY MdeRests, RoleRests
  <2>. QED BY <2>1
<1>. HIDE DEF Rests
<1>9. \E p : Rests(p[2]) /\ DataSources[s] = p[2]
  <2>. SUFFICES ASSUME NEW p \in SourceRules PROVE Rests(p[2])
    BY TableIs DEF DataSources
  <2>1. CASE p = <<"DNS logs", AnyOf({})>>
    BY <1>1, <1>3, <2>1
  <2>2. CASE p = <<"Anti-virus / anti-malware", AnyOf({Api("graph.alerts")})>>
    BY <1>1, <1>3, <2>2
  <2>3. CASE p = <<"CASB", AnyOf(Hunting({"CloudAppEvents"}))>>
    BY <1>1, <1>4, <2>3
  <2>4. CASE p = <<"Directory audit logs", AnyOf({Api("graph.directory_audits")})>>
    BY <1>1, <1>3, <2>4
  <2>5. CASE p = <<"EDR", Rule(Hunting({"DeviceProcessEvents"}), {}, TRUE)>>
    BY <1>1, <1>4, <2>5
  <2>6. CASE p = <<"Email detonation / sandbox",
                    AnyOf(Hunting({"EmailUrlInfo", "EmailAttachmentInfo"}))>>
    BY <1>1, <1>5, <2>6
  <2>7. CASE p = <<"Email gateway logs", AnyOf(Hunting({"EmailEvents"}))>>
    BY <1>1, <1>4, <2>7
  <2>8. CASE p = <<"Identity provider sign-in logs",
                    AnyOf(Hunting({"IdentityLogonEvents"}) \cup {Api("graph.sign_ins")})>>
    BY <1>1, <1>7, <2>8
  <2>9. CASE p = <<"MFA logs", AnyOf({Api("graph.sign_ins")})>>
    BY <1>1, <1>3, <2>9
  <2>10. CASE p = <<"Netflow to/from the device", AnyOf(Hunting({"DeviceNetworkEvents"}))>>
    BY <1>1, <1>4, <2>10
  <2>11. CASE p = <<"Software inventory / SBOM", AnyOf({Api("mde.software")})>>
    BY <1>1, <1>3, <2>11
  <2>12. CASE p = <<"Threat-intel / reputation enrichment (hash, IP, domain)",
                    Rule({}, Mde \cup {Role("File.Read.All")}, FALSE)>>
    BY <1>2, <1>8, <2>12
  <2>13. CASE p = <<"Email gateway / attachment sandbox logs",
                    AnyOf(Hunting({"EmailAttachmentInfo"}))>>
    BY <1>1, <1>6, <2>13
  <2>. QED BY <2>1, <2>2, <2>3, <2>4, <2>5, <2>6, <2>7, <2>8, <2>9, <2>10, <2>11, <2>12, <2>13,
              Zenon DEF SourceRules
<1>. QED BY <1>9 DEF Rests

-----------------------------------------------------------------------------
(* What a binding says of its tenant.                                      *)

\* An option is met when its checks hold.
Meets(option, result) ==
  /\ \A c \in option.all : Holds(result, c)
  /\ option.any = {} \/ \E c \in option.any : Holds(result, c)

LEMMA UnmetIs ==
  ASSUME NEW option, NEW result
  PROVE  Unmet(option, result) = {} <=> Meets(option, result)
<1>. DEFINE unheld(checks) == {c \in checks : ~ Holds(result, c)}
<1>1. Unmet(option, result) =
        unheld(option.all) \cup IF unheld(option.any) = option.any THEN option.any ELSE {}
  BY DEF Unmet
<1>2. unheld(option.all) = {} <=> \A c \in option.all : Holds(result, c)
  OBVIOUS
<1>3. (unheld(option.any) = option.any /\ option.any # {})
        <=> option.any # {} /\ ~ \E c \in option.any : Holds(result, c)
  OBVIOUS
<1>. HIDE DEF unheld
<1>. QED BY <1>1, <1>2, <1>3 DEF Meets

\* The fields of a binding.
LEMMA FieldsAre ==
  ASSUME NEW result, NEW actions
  PROVE  LET made == BuildBinding(result, actions) IN
         /\ DOMAIN made.capabilities = {c \in DOMAIN ClassBindings : Satisfied(c, result) # {}}
         /\ \A c \in DOMAIN made.capabilities :
              made.capabilities[c] = Entry(c, Chosen(c, result), result, actions)
         /\ DOMAIN made.unbound = {c \in DOMAIN ClassBindings : Satisfied(c, result) = {}}
         /\ \A s \in DOMAIN DataSources :
              made.data_sources[s] <=> Provided(DataSources[s], result)
         /\ \A c \in DOMAIN result.checks : made.checks[c] = StatusOf(result, c)
         /\ made.hunting = HuntingSummary(result)
         /\ made.manual = Manual(result)
         /\ made.complete <=> Complete(result)
<1>. DEFINE made == BuildBinding(result, actions)
            bound == {c \in DOMAIN ClassBindings : Satisfied(c, result) # {}}
<1>1. made.capabilities = [c \in bound |-> Entry(c, Chosen(c, result), result, actions)]
  BY DEF BuildBinding
<1>2. DOMAIN made.unbound = DOMAIN ClassBindings \ bound
  BY DEF BuildBinding
<1>3. made.data_sources = [s \in DOMAIN DataSources |-> Provided(DataSources[s], result)]
  BY DEF BuildBinding
<1>4. made.checks = [c \in DOMAIN result.checks |-> StatusOf(result, c)]
  BY DEF BuildBinding
<1>5. made.hunting = HuntingSummary(result) /\ made.manual = Manual(result)
  BY DEF BuildBinding
<1>6. made.complete = Complete(result)
  BY DEF BuildBinding
<1>. HIDE DEF made
<1>7. /\ DOMAIN made.capabilities = bound
      /\ \A c \in bound : made.capabilities[c] = Entry(c, Chosen(c, result), result, actions)
  BY <1>1
<1>8. \A s \in DOMAIN DataSources : made.data_sources[s] <=> Provided(DataSources[s], result)
  BY <1>3
<1>9. \A c \in DOMAIN result.checks : made.checks[c] = StatusOf(result, c)
  BY <1>4
<1>. QED BY <1>2, <1>5, <1>6, <1>7, <1>8, <1>9 DEF made

\* A class is bound by an option that is met.
LEMMA BoundIs ==
  ASSUME NEW result, NEW actions,
         NEW class \in DOMAIN BuildBinding(result, actions).capabilities
  PROVE  /\ class \in DOMAIN ClassBindings
         /\ \E i \in DOMAIN ClassBindings[class] :
              /\ Meets(ClassBindings[class][i], result)
              /\ BuildBinding(result, actions).capabilities[class] =
                   Entry(class, ClassBindings[class][i], result, actions)
<1>. DEFINE met == Satisfied(class, result)
            first == CHOOSE i \in met : \A j \in met : i <= j
<1>1. /\ class \in DOMAIN ClassBindings /\ met # {}
      /\ BuildBinding(result, actions).capabilities[class] =
           Entry(class, Chosen(class, result), result, actions)
  BY FieldsAre
<1>2. met \subseteq {1, 2} /\ met \subseteq DOMAIN ClassBindings[class]
  BY <1>1, OptionsAre DEF Satisfied
<1>3. \E i \in met : \A j \in met : i <= j
  <2>. HIDE DEF met
  <2>1. CASE 1 \in met
    BY <1>2, <2>1
  <2>2. CASE 1 \notin met
    <3>1. met = {2}
      BY <1>1, <1>2, <2>2
    <3>. QED BY <3>1
  <2>. QED BY <2>1, <2>2
<1>4. first \in met
  <2>. HIDE DEF met
  <2>. QED BY <1>3
<1>5. Chosen(class, result) = ClassBindings[class][first]
  BY DEF Chosen
<1>6. Meets(ClassBindings[class][first], result)
  BY <1>4, UnmetIs DEF Satisfied
<1>. HIDE DEF first
<1>. QED BY <1>1, <1>2, <1>4, <1>5, <1>6

\* A class that is not bound has no option that is met.
LEMMA UnboundIs ==
  ASSUME NEW result, NEW actions,
         NEW class \in DOMAIN BuildBinding(result, actions).unbound
  PROVE  /\ class \in DOMAIN ClassBindings
         /\ \A i \in DOMAIN ClassBindings[class] : ~ Meets(ClassBindings[class][i], result)
<1>1. class \in DOMAIN ClassBindings /\ Satisfied(class, result) = {}
  BY FieldsAre
<1>. QED BY <1>1, UnmetIs DEF Satisfied

\* A gated table without rows is said to be what the tenant has of it.
LEMMA TablesAreToldTruly ==
  ASSUME Typed, Truthful, NEW outage, binding = BuildBinding(ResultOf(outage), AllowActions)
  PROVE  TablesAreTrue
<1>. SUFFICES ASSUME NEW t \in DOMAIN TableEntitlement, Reaches(Check("hunting", t))
              PROVE  LET e == TableEntitlement[t]
                         status == binding.checks[Check("hunting", t)]
                     IN
                     /\ status = "unlicensed" => SpokenFor(e) /\ ~ Held(e)
                     /\ status = "entitled_no_rows" => Held(e) /\ ~ tenant.acted
                     /\ status = "undeclared" => ~ SpokenFor(e)
                     /\ status = "empty" => Held(e) /\ t \notin ActingTables
  BY DEF TablesAreTrue
<1>. DEFINE R == ResultOf(outage)
            c == Check("hunting", t)
            said == Asked(c, outage)
            stated == Entitled(t, environment.declared)
<1>1. c \in Probed /\ c.kind = "hunting" /\ c.of = t
  BY TablesAre DEF Check
<1>2. binding.checks[c] = StatusOf(R, c)
  <2>1. c \in DOMAIN R.checks
    BY <1>1, StatusIs DEF Typed
  <2>. QED BY <2>1, FieldsAre
<1>3. binding.checks[c] = IF said = "empty" THEN stated ELSE said
  BY <1>1, <1>2, StatusIs DEF Typed
<1>4. said \in {"available", "empty", "error"} /\ (said = "empty" => ~ HasRows(t))
  BY <1>1, AskedIs DEF Typed
<1>5. LET e == TableEntitlement[t] IN
      /\ stated = "undeclared" => ~ SpokenFor(e)
      /\ stated = "unlicensed" => SpokenFor(e) /\ ~ Held(e)
      /\ stated = "entitled_no_rows" => SpokenFor(e) /\ Held(e) /\ t \in ActingTables
      /\ stated = "empty" => Held(e) /\ t \notin ActingTables
  BY DeclaredIsHeld DEF Typed
<1>6. ~ HasRows(t) /\ Held(TableEntitlement[t]) /\ t \in ActingTables => ~ tenant.acted
  BY TablesAre
<1>. HIDE DEF said, stated, c, R
<1>7. CASE said = "empty"
  BY <1>3, <1>4, <1>5, <1>6, <1>7 DEF c
<1>8. CASE said # "empty"
  BY <1>3, <1>4, <1>8 DEF c
<1>. QED BY <1>7, <1>8

\* What the tenant answers meets an option, and what meets one it answers.
Serves(option) ==
  /\ \A c \in option.all : Answers(c)
  /\ option.any = {} \/ \E c \in option.any : Answers(c)

LEMMA MetIsServed ==
  ASSUME Typed, Truthful, NEW outage, NEW option, Meets(option, ResultOf(outage))
  PROVE  Serves(option)
BY HoldsIsTrue DEF Meets, Serves

LEMMA ServedIsMet ==
  ASSUME Typed, Truthful, NEW outage, Complete(ResultOf(outage)),
         NEW option, option.all \subseteq Rested, option.any \subseteq Rested, Serves(option)
  PROVE  Meets(option, ResultOf(outage))
BY AnswersHold DEF Meets, Serves

LEMMA ClaimsAreToldTruly ==
  ASSUME Typed, Truthful, NEW outage, binding = BuildBinding(ResultOf(outage), AllowActions)
  PROVE  ClaimsAreTrue
<1>. DEFINE R == ResultOf(outage)
            provides(rule) ==
              (\E c \in rule.any : Answers(c)) \/ (rule.all # {} /\ \A c \in rule.all : Answers(c))
<1>1. \A class \in DOMAIN binding.capabilities :
        \E i \in DOMAIN ClassBindings[class] :
          /\ ClassBindings[class][i].operation = binding.capabilities[class].operation
          /\ Serves(ClassBindings[class][i])
  <2>. SUFFICES ASSUME NEW class \in DOMAIN binding.capabilities
                PROVE  \E i \in DOMAIN ClassBindings[class] :
                         /\ ClassBindings[class][i].operation
                              = binding.capabilities[class].operation
                         /\ Serves(ClassBindings[class][i])
    OBVIOUS
  <2>1. PICK i \in DOMAIN ClassBindings[class] :
          /\ Meets(ClassBindings[class][i], R)
          /\ binding.capabilities[class] = Entry(class, ClassBindings[class][i], R, AllowActions)
    BY BoundIs
  <2>2. Serves(ClassBindings[class][i])
    BY <2>1, MetIsServed
  <2>3. binding.capabilities[class].operation = ClassBindings[class][i].operation
    BY <2>1 DEF Entry
  <2>. QED BY <2>2, <2>3
<1>2. \A s \in DOMAIN DataSources :
        binding.data_sources[s] <=> Provided(DataSources[s], R)
  BY FieldsAre
<1>3. \A s \in DOMAIN DataSources : binding.data_sources[s] => provides(DataSources[s])
  <2>. SUFFICES ASSUME NEW s \in DOMAIN DataSources, Provided(DataSources[s], R)
                PROVE  provides(DataSources[s])
    BY <1>2
  <2>. QED BY HoldsIsTrue DEF Provided
<1>4. binding.complete <=> Complete(R)
  BY FieldsAre
<1>5. ASSUME Complete(R), NEW class \in DOMAIN binding.unbound,
             NEW i \in DOMAIN ClassBindings[class]
      PROVE  ~ Serves(ClassBindings[class][i])
  <2>1. class \in DOMAIN ClassBindings /\ ~ Meets(ClassBindings[class][i], R)
    BY UnboundIs
  <2>2. ClassBindings[class][i].all \subseteq Rested /\ ClassBindings[class][i].any \subseteq Rested
    BY <2>1, OptionsAre
  <2>. QED BY <1>5, <2>1, <2>2, ServedIsMet
<1>6. ASSUME Complete(R), NEW s \in DOMAIN DataSources, ~ Provided(DataSources[s], R)
      PROVE  ~ provides(DataSources[s])
  BY <1>6, SourcesAre, AnswersHold DEF Provided
<1>7. binding.complete =>
        /\ \A class \in DOMAIN binding.unbound :
             ~ \E i \in DOMAIN ClassBindings[class] : Serves(ClassBindings[class][i])
        /\ \A s \in DOMAIN DataSources : ~ binding.data_sources[s] => ~ provides(DataSources[s])
  <2>. HIDE DEF R, provides
  <2>. QED BY <1>2, <1>4, <1>5, <1>6
<1>. HIDE DEF R
<1>. QED BY <1>1, <1>3, <1>7 DEF ClaimsAreTrue, Serves

\* The portal is asked for unless the tenant's answer, or its licence, stands in.
LEMMA PortalIsTruly ==
  ASSUME Typed, Truthful, NEW outage, binding = BuildBinding(ResultOf(outage), AllowActions)
  PROVE  PortalIsAskedFor
<1>. DEFINE R == ResultOf(outage)
            c == Check("hunting", "DisruptionAndResponseEvents")
            said == Asked(c, outage)
            stated == Entitled("DisruptionAndResponseEvents", environment.declared)
<1>1. "DisruptionAndResponseEvents" \in ActingTables
  BY DEF ActingTables
<1>2. /\ "DisruptionAndResponseEvents" \in DOMAIN TableEntitlement
      /\ TableEntitlement["DisruptionAndResponseEvents"] = "endpoint_p2"
      /\ c \in Probed
  BY <1>1, ActingIsGated, TablesAre
<1>3. c.kind = "hunting" /\ c.of = "DisruptionAndResponseEvents"
  BY DEF Check
<1>4. StatusOf(R, c) = IF said = "empty" THEN stated ELSE said
  BY <1>2, <1>3, StatusIs DEF Typed
<1>5. binding.manual.required <=> StatusOf(R, c) \notin {"available", "unlicensed", "not_exposed"}
  <2>1. binding.manual = Manual(R)
    BY FieldsAre
  <2>2. Manual(R) = [status |-> StatusOf(R, c), automated |-> Ok(StatusOf(R, c)),
                     required |-> Required(StatusOf(R, c))]
    BY DEF Manual
  <2>3. binding.manual.required = Required(StatusOf(R, c))
    BY <2>1, <2>2
  <2>. QED BY <2>3 DEF Required
<1>6. /\ said = "available" => Reaches(c) /\ HasRows(c.of)
      /\ said = "empty" => Reaches(c)
      /\ said = "unlicensed" => tenant.hunting = "licence"
      /\ said = "not_exposed" => c.of \in tenant.unresolved
  BY <1>3, AskedIs DEF Typed
<1>7. /\ stated \in {"empty", "undeclared", "unlicensed", "entitled_no_rows"}
      /\ stated = "unlicensed" => SpokenFor("endpoint_p2") /\ ~ Held("endpoint_p2")
  BY <1>2, EntitledIs, DeclaredIsHeld DEF Typed
<1>. HIDE DEF said, stated, R, c
<1>8. \/ binding.manual.required
      \/ Reaches(c) /\ HasRows(c.of)
      \/ Reaches(c) /\ SpokenFor("endpoint_p2") /\ ~ Held("endpoint_p2")
      \/ tenant.hunting = "licence" \/ c.of \in tenant.unresolved
  BY <1>4, <1>5, <1>6, <1>7
<1>. QED BY <1>8 DEF PortalIsAskedFor, c

\* The SIEM is searched exactly where a table of raw events has rows.
LEMMA SearchIsSummed ==
  ASSUME Typed, NEW outage, binding = BuildBinding(ResultOf(outage), AllowActions)
  PROVE  "siem.search" \in DOMAIN binding.capabilities <=> binding.hunting = "available"
<1>. DEFINE R == ResultOf(outage)
            raw == \E t \in RawTables : StatusOf(R, Check("hunting", t)) = "available"
<1>1. RawTables \subseteq HuntingTables /\ RawTables # {} /\ RawTables \cap ActingTables = {}
  BY DEF RawTables, HuntingTables, DeviceTables, EmailTables, ActingTables
<1>2. \A t \in RawTables :
        Holds(R, Check("hunting", t)) <=> StatusOf(R, Check("hunting", t)) = "available"
  <2>. SUFFICES ASSUME NEW t \in RawTables
                PROVE  Ok(StatusOf(R, Check("hunting", t)))
                         <=> StatusOf(R, Check("hunting", t)) = "available"
    BY DEF Holds
  <2>. DEFINE c == Check("hunting", t)
  <2>1. c \in Probed /\ c.kind = "hunting" /\ c.of = t
    BY <1>1 DEF Probed, Hunting, Check
  <2>2. StatusOf(R, c) = IF Asked(c, outage) = "empty" THEN Entitled(t, environment.declared)
                         ELSE Asked(c, outage)
    BY <2>1, StatusIs DEF Typed
  <2>3. Asked(c, outage) \in
          {"available", "empty", "error", "unlicensed", "forbidden", "not_exposed"}
    BY <2>1, AskedIs DEF Typed
  <2>4. Entitled(t, environment.declared) \in {"empty", "undeclared", "unlicensed"}
    BY <1>1, EntitledIs DEF Typed
  <2>. HIDE DEF R, c
  <2>5. Ok(StatusOf(R, c)) <=> StatusOf(R, c) = "available"
    BY <2>2, <2>3, <2>4 DEF Ok
  <2>. QED BY <2>5 DEF c
<1>3. "siem.search" \in DOMAIN binding.capabilities <=> raw
  <2>. DEFINE o == ClassBindings["siem.search"][1]
  <2>1. "siem.search" \in DOMAIN binding.capabilities <=> Satisfied("siem.search", R) # {}
    BY SearchIs, FieldsAre
  <2>2. Satisfied("siem.search", R) # {} <=> Meets(o, R)
    BY SearchIs, UnmetIs DEF Satisfied
  <2>3. o.all = {} /\ o.any = Hunting(RawTables)
    BY SearchIs
  <2>4. Hunting(RawTables) = {Check("hunting", t) : t \in RawTables}
    BY DEF Hunting
  <2>. HIDE DEF o, R
  <2>5. Meets(o, R) <=> \E t \in RawTables : Holds(R, Check("hunting", t))
    BY <1>1, <2>3, <2>4 DEF Meets
  <2>. QED BY <1>2, <2>1, <2>2, <2>5
<1>4. binding.hunting = "available" <=> raw
  <2>. DEFINE with(status) == {t \in HuntingTables : StatusOf(R, Check("hunting", t)) = status}
  <2>1. binding.hunting =
          IF with("available") \cap RawTables # {} THEN "available"
          ELSE IF with("available") \ AlertTables # {} THEN "partial"
          ELSE IF with("available") # {} THEN "alert tables only"
          ELSE IF with("forbidden") = HuntingTables THEN "forbidden" ELSE "unavailable"
    BY FieldsAre DEF HuntingSummary
  <2>2. with("available") \cap RawTables # {} <=> raw
    BY <1>1
  <2>. HIDE DEF with, raw
  <2>. QED BY <2>1, <2>2
<1>. QED BY <1>3, <1>4

\* What a built binding says of its tenant is so.
LEMMA BuiltIsTrue ==
  ASSUME Typed, BindingIsBuilt
  PROVE  BindingIsTrue
<1>. SUFFICES ASSUME binding # NoBinding, Truthful
              PROVE  /\ TablesAreTrue /\ ClaimsAreTrue /\ PortalIsAskedFor
                     /\ "siem.search" \in DOMAIN binding.capabilities
                          <=> binding.hunting = "available"
  BY DEF BindingIsTrue
<1>1. PICK outage \in Outages : binding = BuildBinding(ResultOf(outage), AllowActions)
  BY DEF BindingIsBuilt
<1>. QED BY <1>1, TablesAreToldTruly, ClaimsAreToldTruly, PortalIsTruly, SearchIsSummed

-----------------------------------------------------------------------------
(* What a request leaves of the estate.                                    *)

\* The operations of each part, by name.
MachineNames == {"update_machine", "add_remove_machine_tag", "isolate_machine",
                 "unisolate_machine", "run_av_scan", "restrict_code_execution",
                 "unrestrict_code_execution", "stop_and_quarantine_file",
                 "collect_investigation_package", "offboard_machine"}
LiveNames == {"cancel_machine_action", "run_live_response", "start_investigation",
              "upload_library_file", "delete_library_file"}
IdentityNames == {"revoke_sign_in_sessions", "disable_account", "enable_account"}
MailboxNames == {"delete_inbox_rule", "create_inbox_rule"}
IndicatorNames == {"create_indicator", "import_indicators", "delete_indicator",
                   "batch_delete_indicators"}

LEMMA DeclaredNames ==
  ASSUME NEW kind, NEW permissions, NEW names
  PROVE  {o.name : o \in Declared(kind, permissions, names)} = names
<1>1. \A o \in Declared(kind, permissions, names) : o.name \in names
  BY DEF Declared
<1>2. ASSUME NEW n \in names
      PROVE  \E o \in Declared(kind, permissions, names) : o.name = n
  <2>1. [name |-> n, kind |-> kind, permissions |-> permissions]
          \in Declared(kind, permissions, names)
    BY DEF Declared
  <2>. QED BY <2>1
<1>. QED BY <1>1, <1>2

LEMMA NamesOfBoth ==
  ASSUME NEW S, NEW T
  PROVE  {o.name : o \in S \cup T} = {o.name : o \in S} \cup {o.name : o \in T}
OBVIOUS

LEMMA GroupsAre ==
  /\ {o.name : o \in MachineOperations} = MachineNames
  /\ {o.name : o \in LiveOperations} = LiveNames
  /\ {o.name : o \in IdentityOperations} = IdentityNames
  /\ {o.name : o \in MailboxOperations} = MailboxNames
  /\ {o.name : o \in IndicatorOperations} = IndicatorNames
<1>1. {o.name : o \in MachineOperations} = MachineNames
  <2>1. \A o \in MachineOperations : o.name \in MachineNames
    BY DEF MachineOperations, MachineNames, Declared
  <2>2. ASSUME NEW n \in MachineNames
        PROVE  \E o \in MachineOperations : o.name = n
    <3>. DEFINE o(kind, role) == [name |-> n, kind |-> kind, permissions |-> {role}]
    <3>1. CASE n \in {"update_machine", "add_remove_machine_tag"}
      <4>1. o("write", "Machine.ReadWrite.All") \in MachineOperations
        BY <3>1 DEF MachineOperations, Declared
      <4>. QED BY <4>1
    <3>2. CASE n \in {"isolate_machine", "unisolate_machine"}
      <4>1. o("action", "Machine.Isolate") \in MachineOperations
        BY <3>2 DEF MachineOperations, Declared
      <4>. QED BY <4>1
    <3>3. CASE n = "run_av_scan"
      <4>1. o("action", "Machine.Scan") \in MachineOperations
        BY <3>3 DEF MachineOperations, Declared
      <4>. QED BY <4>1
    <3>4. CASE n \in {"restrict_code_execution", "unrestrict_code_execution"}
      <4>1. o("action", "Machine.RestrictExecution") \in MachineOperations
        BY <3>4 DEF MachineOperations, Declared
      <4>. QED BY <4>1
    <3>5. CASE n = "stop_and_quarantine_file"
      <4>1. o("action", "Machine.StopAndQuarantine") \in MachineOperations
        BY <3>5 DEF MachineOperations, Declared
      <4>. QED BY <4>1
    <3>6. CASE n = "collect_investigation_package"
      <4>1. o("action", "Machine.CollectForensics") \in MachineOperations
        BY <3>6 DEF MachineOperations, Declared
      <4>. QED BY <4>1
    <3>7. CASE n = "offboard_machine"
      <4>1. o("action", "Machine.Offboard") \in MachineOperations
        BY <3>7 DEF MachineOperations, Declared
      <4>. QED BY <4>1
    <3>. QED BY <2>2, <3>1, <3>2, <3>3, <3>4, <3>5, <3>6, <3>7 DEF MachineNames
  <2>. QED BY <2>1, <2>2
<1>2. {o.name : o \in LiveOperations} = LiveNames
  <2>1. \A o \in LiveOperations : o.name \in LiveNames
    BY DEF LiveOperations, LiveNames, Declared
  <2>2. ASSUME NEW n \in LiveNames
        PROVE  \E o \in LiveOperations : o.name = n
    <3>. DEFINE o(roles) == [name |-> n, kind |-> "action", permissions |-> roles]
    <3>1. CASE n = "cancel_machine_action"
      <4>1. o({"Machine.Isolate", "Machine.Scan", "Machine.LiveResponse"}) \in LiveOperations
        BY <3>1 DEF LiveOperations, Declared
      <4>. QED BY <4>1
    <3>2. CASE n = "run_live_response"
      <4>1. o({"Machine.LiveResponse"}) \in LiveOperations
        BY <3>2 DEF LiveOperations, Declared
      <4>. QED BY <4>1
    <3>3. CASE n = "start_investigation"
      <4>1. o({"Alert.ReadWrite.All"}) \in LiveOperations
        BY <3>3 DEF LiveOperations, Declared
      <4>. QED BY <4>1
    <3>4. CASE n \in {"upload_library_file", "delete_library_file"}
      <4>1. o({"Library.Manage"}) \in LiveOperations
        BY <3>4 DEF LiveOperations, Declared
      <4>. QED BY <4>1
    <3>. QED BY <2>2, <3>1, <3>2, <3>3, <3>4 DEF LiveNames
  <2>. QED BY <2>1, <2>2
<1>3. {o.name : o \in IdentityOperations} = IdentityNames
  BY DeclaredNames, NamesOfBoth DEF IdentityOperations, IdentityNames
<1>4. {o.name : o \in MailboxOperations} = MailboxNames
  BY DeclaredNames, NamesOfBoth DEF MailboxOperations, MailboxNames
<1>5. {o.name : o \in IndicatorOperations} = IndicatorNames
  BY DeclaredNames, NamesOfBoth DEF IndicatorOperations, IndicatorNames
<1>. QED BY <1>1, <1>2, <1>3, <1>4, <1>5

LEMMA MachinesStay ==
  ASSUME NEW name, NEW m \in Machine
  PROVE  MachineEffect(name, m) \in Machine
<1>1. \A b \in BOOLEAN :
        /\ [m EXCEPT !.isolated = b] \in Machine /\ [m EXCEPT !.restricted = b] \in Machine
        /\ [m EXCEPT !.quarantined = b] \in Machine /\ [m EXCEPT !.onboarded = b] \in Machine
  BY DEF Machine
<1>2. \A j \in {"scan", "package", "live", "investigation"} :
        [m EXCEPT !.jobs = @ \cup {j}] \in Machine
  BY DEF Machine
<1>. QED BY <1>1, <1>2, Zenon DEF MachineEffect

LEMMA LivesStay ==
  ASSUME NEW name, NEW m \in Machine, NEW after \in LiveEffects(name, m)
  PROVE  after \in Machine
<1>1. \A j \in {"scan", "package", "live", "investigation"} :
        [m EXCEPT !.jobs = @ \cup {j}] \in Machine
  BY DEF Machine
<1>2. \A j \in m.jobs : [m EXCEPT !.jobs = @ \ {j}] \in Machine
  BY DEF Machine
<1>. QED BY <1>1, <1>2, Zenon DEF LiveEffects

LEMMA LibraryStays ==
  ASSUME NEW name, NEW scripts \in SUBSET {"script"}
  PROVE  LibraryEffect(name, scripts) \in SUBSET {"script"}
<1>1. {"script"} \in SUBSET {"script"} /\ {} \in SUBSET {"script"}
  OBVIOUS
<1>. QED BY <1>1, Zenon DEF LibraryEffect

LEMMA AccountsStay ==
  ASSUME NEW name, NEW account \in Account
  PROVE  AccountEffect(name, account) \in Account
<1>1. \A b \in BOOLEAN :
        [account EXCEPT !.sessions = b] \in Account /\ [account EXCEPT !.enabled = b] \in Account
  BY DEF Account
<1>. QED BY <1>1, Zenon DEF AccountEffect

LEMMA ArgumentsAre ==
  ASSUME NEW e, NEW r
  PROVE  /\ Arguments("delete_inbox_rule", e, r) = e.rules
         /\ Arguments("get_inbox_rule", e, r) = e.rules
         /\ Arguments("create_inbox_rule", e, r)
              = {x \in {r} \ {NoRule} : Cardinality(e.rules) < MaxRules}
         /\ Arguments("create_indicator", e, r)
              = [asks : UNION {[{v} -> Verdicts] : v \in Values}]
         /\ Arguments("import_indicators", e, r)
              = [asks : UNION {[vs -> Verdicts] : vs \in SUBSET Values}]
         /\ Arguments("delete_indicator", e, r) = [ids : {{i} : i \in IdsOf(e.indicators)}]
         /\ Arguments("update_machine", e, r) = [tagged : BOOLEAN, empty : BOOLEAN]
         /\ Arguments("add_remove_machine_tag", e, r) = [tagged : BOOLEAN]
         /\ \A name \in {"isolate_machine", "unisolate_machine", "disable_account",
                         "enable_account"} :
              Arguments(name, e, r) = {[tagged |-> TRUE]}
<1>1. Arguments("delete_inbox_rule", e, r) = e.rules
  BY Zenon DEF Arguments
<1>2. Arguments("get_inbox_rule", e, r) = e.rules
  BY Zenon DEF Arguments
<1>3. Arguments("create_inbox_rule", e, r)
        = {x \in {r} \ {NoRule} : Cardinality(e.rules) < MaxRules}
  BY Zenon DEF Arguments
<1>4. Arguments("create_indicator", e, r) = [asks : UNION {[{v} -> Verdicts] : v \in Values}]
  BY Zenon DEF Arguments
<1>5. Arguments("import_indicators", e, r)
        = [asks : UNION {[vs -> Verdicts] : vs \in SUBSET Values}]
  BY Zenon DEF Arguments
<1>6. Arguments("delete_indicator", e, r) = [ids : {{i} : i \in IdsOf(e.indicators)}]
  BY Zenon DEF Arguments
<1>7. Arguments("update_machine", e, r) = [tagged : BOOLEAN, empty : BOOLEAN]
  BY Zenon DEF Arguments
<1>8. Arguments("add_remove_machine_tag", e, r) = [tagged : BOOLEAN]
  BY Zenon DEF Arguments
<1>9. /\ Arguments("isolate_machine", e, r) = {[tagged |-> TRUE]}
      /\ Arguments("unisolate_machine", e, r) = {[tagged |-> TRUE]}
      /\ Arguments("disable_account", e, r) = {[tagged |-> TRUE]}
      /\ Arguments("enable_account", e, r) = {[tagged |-> TRUE]}
  BY Zenon DEF Arguments
<1>. QED BY <1>1, <1>2, <1>3, <1>4, <1>5, <1>6, <1>7, <1>8, <1>9

\* The operations on incidents and alerts that write, by name.
IncidentNames == {"update_incident", "add_incident_comment", "merge_incidents",
                  "update_alert", "add_alert_comment"}

\* Only tagging and what is done to incidents and alerts write without acting.
LEMMA WritingIs ==
  ASSUME NEW o \in Operations, o.kind = "write"
  PROVE  o.name \in {"update_machine", "add_remove_machine_tag"} \cup IncidentNames
<1>1. CASE o \in Reading
  BY <1>1, ReadsAre
<1>2. CASE o \in MachineOperations
  BY <1>2 DEF MachineOperations, Declared
<1>3. CASE o \in LiveOperations \cup IdentityOperations \cup MailboxOperations
                \cup IndicatorOperations
  BY <1>3 DEF LiveOperations, IdentityOperations, MailboxOperations, IndicatorOperations, Declared
<1>4. CASE o \in IncidentOperations
  BY <1>4 DEF IncidentOperations, AlertOperations, IncidentNames, Declared
<1>. QED BY <1>1, <1>2, <1>3, <1>4 DEF Operations

\* A rule taken away or put back, with an id nobody has, is the only one to change.
LEMMA DeletingIs ==
  ASSUME NEW a, NEW rules
  PROVE  RuleEffects("delete_inbox_rule", a, rules) = {rules \ {a}}
BY Zenon DEF RuleEffects

LEMMA CreatingIs ==
  ASSUME NEW a \in InboxRule, NEW rules
  PROVE  RuleEffects("create_inbox_rule", a, rules) =
           {rules \cup {[a EXCEPT !.id = i]} : i \in Ids \ (IdsOf(rules) \cup {a.id})}
<1>1. "id" \notin DOMAIN a \ READ_ONLY_FIELDS
  BY DEF READ_ONLY_FIELDS
<1>. QED BY <1>1, Zenon DEF RuleEffects

\* A mailbox keeps its rules apart and fits its bound.
Mailbox(rules) ==
  /\ rules \in SUBSET InboxRule /\ Distinct(rules) /\ Cardinality(rules) <= MaxRules

LEMMA RulesAreFinite ==
  ASSUME NEW rules, Mailbox(rules)
  PROVE  /\ IsFiniteSet(rules) /\ Cardinality(rules) \in Nat
         /\ IsFiniteSet(Ids) /\ Cardinality(Ids) \in Nat
         /\ Ids \ IdsOf(rules) # {}
<1>. DEFINE f == [x \in rules |-> x.id]
<1>1. IsFiniteSet(Ids) /\ Cardinality(Ids) \in Nat
  BY ValuesAssumption, FS_CardinalityType
<1>2. f \in Injection(rules, Ids)
  <2>1. f \in [rules -> Ids]
    BY DEF Mailbox, InboxRule
  <2>2. \A x, y \in DOMAIN f : f[x] = f[y] => x = y
    BY DEF Mailbox, Distinct
  <2>. QED BY <2>1, <2>2 DEF Injection, IsInjective
<1>. HIDE DEF f
<1>3. IsFiniteSet(rules) /\ (Cardinality(rules) = Cardinality(Ids) <=> f \in Surjection(rules, Ids))
  BY <1>1, <1>2, FS_Injection
<1>4. Cardinality(rules) \in Nat
  BY <1>3, FS_CardinalityType
<1>5. f \notin Surjection(rules, Ids)
  BY <1>1, <1>3, <1>4 DEF Mailbox, MaxRules
<1>6. f \in [rules -> Ids]
  BY <1>2 DEF Injection
<1>7. \E i \in Ids : \A x \in rules : f[x] # i
  BY <1>5, <1>6 DEF Surjection
<1>8. Ids \ IdsOf(rules) # {}
  BY <1>7 DEF f, IdsOf
<1>. QED BY <1>1, <1>3, <1>4, <1>8

LEMMA RemovedFits ==
  ASSUME NEW rules, Mailbox(rules), NEW a \in rules
  PROVE  Mailbox(rules \ {a}) /\ Cardinality(rules \ {a}) = Cardinality(rules) - 1
<1>1. IsFiniteSet(rules) /\ Cardinality(rules) \in Nat /\ Cardinality(Ids) \in Nat
  BY RulesAreFinite
<1>2. Cardinality(rules \ {a}) = Cardinality(rules) - 1
  BY <1>1, FS_RemoveElement
<1>. QED BY <1>1, <1>2 DEF Mailbox, Distinct, MaxRules

LEMMA RestoredFits ==
  ASSUME NEW rules, Mailbox(rules), Cardinality(rules) < MaxRules,
         NEW x \in InboxRule, x.id \notin IdsOf(rules)
  PROVE  /\ Mailbox(rules \cup {x})
         /\ Cardinality(rules \cup {x}) = Cardinality(rules) + 1
<1>1. IsFiniteSet(rules) /\ Cardinality(rules) \in Nat /\ Cardinality(Ids) \in Nat
  BY RulesAreFinite
<1>2. x \notin rules
  BY DEF IdsOf
<1>3. Cardinality(rules \cup {x}) = Cardinality(rules) + 1
  BY <1>1, <1>2, FS_AddElement
<1>4. Distinct(rules \cup {x})
  BY DEF Mailbox, Distinct, IdsOf
<1>. QED BY <1>1, <1>3, <1>4 DEF Mailbox, MaxRules

\* What a caller asks of indicators is of values and verdicts.
LEMMA AskedOfIndicators ==
  ASSUME NEW name \in {"create_indicator", "import_indicators"}, NEW e, NEW r,
         NEW a \in Arguments(name, e, r)
  PROVE  /\ DOMAIN a.asks \in SUBSET Values /\ \A v \in DOMAIN a.asks : a.asks[v] \in Verdicts
         /\ name = "create_indicator" => \E w \in Values : DOMAIN a.asks = {w}
<1>1. CASE name = "create_indicator"
  <2>1. a \in Arguments("create_indicator", e, r)
    BY <1>1
  <2>2. a \in [asks : UNION {[{v} -> Verdicts] : v \in Values}]
    BY <2>1, ArgumentsAre
  <2>3. PICK v \in Values : a.asks \in [{v} -> Verdicts]
    BY <2>2
  <2>. QED BY <2>3
<1>2. CASE name = "import_indicators"
  <2>1. a \in Arguments("import_indicators", e, r)
    BY <1>2
  <2>2. a \in [asks : UNION {[vs -> Verdicts] : vs \in SUBSET Values}]
    BY <2>1, ArgumentsAre
  <2>3. PICK vs \in SUBSET Values : a.asks \in [vs -> Verdicts]
    BY <2>2
  <2>. QED BY <1>2, <2>3
<1>. QED BY <1>1, <1>2

\* The indicators that are there, updated, and those that are new.
Updated(held, values, asks) ==
  {IF x.value \in values THEN [x EXCEPT !.does = asks[x.value]] ELSE x : x \in held}
Added(given, values, asks) == {[id |-> given[v], value |-> v, does |-> asks[v]] : v \in values}

\* What is updated among the indicators keeps its id.
LEMMA UpdatedStay ==
  ASSUME NEW held \in SUBSET Indicator, Distinct(held), NEW values, NEW asks,
         \A v \in values : asks[v] \in Verdicts
  PROVE  LET after == Updated(held, values, asks) IN
         after \in SUBSET Indicator /\ Distinct(after) /\ IdsOf(after) = IdsOf(held)
<1>. DEFINE to(x) == IF x.value \in values THEN [x EXCEPT !.does = asks[x.value]] ELSE x
            after == {to(x) : x \in held}
<1>0. Updated(held, values, asks) = after
  BY DEF Updated
<1>1. ASSUME NEW x \in held
      PROVE  to(x) \in Indicator /\ to(x).id = x.id
  BY DEF Indicator
<1>. HIDE DEF to
<1>2. after \in SUBSET Indicator
  BY <1>1
<1>3. \A y \in after : \E x \in held : y = to(x) /\ y.id = x.id
  BY <1>1
<1>4. Distinct(after)
  BY <1>3 DEF Distinct
<1>5. IdsOf(after) = IdsOf(held)
  <2>1. IdsOf(after) \subseteq IdsOf(held)
    BY <1>3 DEF IdsOf
  <2>2. ASSUME NEW x \in held
        PROVE  x.id \in IdsOf(after)
    <3>1. to(x) \in after /\ to(x).id = x.id
      BY <1>1
    <3>. HIDE DEF after
    <3>. QED BY <3>1 DEF IdsOf
  <2>. QED BY <2>1, <2>2 DEF IdsOf
<1>. QED BY <1>0, <1>2, <1>4, <1>5

\* What is added to the indicators has ids of its own.
LEMMA AddedStay ==
  ASSUME NEW held \in SUBSET Indicator, Distinct(held), NEW values \in SUBSET Values,
         NEW asks, \A v \in values : asks[v] \in Verdicts,
         NEW given \in Injection(values, Ids \ IdsOf(held))
  PROVE  LET after == held \cup Added(given, values, asks) IN
         after \in SUBSET Indicator /\ Distinct(after)
<1>. DEFINE new == {[id |-> given[v], value |-> v, does |-> asks[v]] : v \in values}
<1>1. /\ given \in [values -> Ids \ IdsOf(held)]
      /\ \A v, w \in values : given[v] = given[w] => v = w
  BY DEF Injection, IsInjective
<1>2. \A x \in new : \E v \in values :
        x = [id |-> given[v], value |-> v, does |-> asks[v]] /\ x.id = given[v]
  OBVIOUS
<1>3. new \in SUBSET Indicator
  <2>1. \A v \in values : given[v] \in Ids /\ v \in Values
    BY <1>1
  <2>2. \A v \in values : [id |-> given[v], value |-> v, does |-> asks[v]] \in Indicator
    BY <2>1 DEF Indicator
  <2>. QED BY <2>2
<1>. HIDE DEF new
<1>4. \A x \in new : x.id \notin IdsOf(held)
  BY <1>1, <1>2
<1>5. \A x, y \in new : x.id = y.id => x = y
  <2>. SUFFICES ASSUME NEW x \in new, NEW y \in new, x.id = y.id PROVE x = y
    OBVIOUS
  <2>1. PICK v \in values : x = [id |-> given[v], value |-> v, does |-> asks[v]]
                             /\ x.id = given[v]
    BY <1>2
  <2>2. PICK w \in values : y = [id |-> given[w], value |-> w, does |-> asks[w]]
                             /\ y.id = given[w]
    BY <1>2
  <2>3. v = w
    BY <1>1, <2>1, <2>2
  <2>. QED BY <2>1, <2>2, <2>3
<1>6. Distinct(held \cup new)
  BY <1>4, <1>5 DEF Distinct, IdsOf
<1>. QED BY <1>3, <1>6 DEF new, Added

LEMMA IndicatorsStay ==
  ASSUME NEW held \in SUBSET Indicator, Distinct(held), NEW name \in IndicatorNames, NEW a,
         name \in {"create_indicator", "import_indicators"} =>
           DOMAIN a.asks \in SUBSET Values /\ \A v \in DOMAIN a.asks : a.asks[v] \in Verdicts,
         NEW after \in IndicatorEffects(name, a, held)
  PROVE  after \in SUBSET Indicator /\ Distinct(after)
<1>. DEFINE setting(values) ==
              {Updated(held, values, a.asks) \cup Added(given, values \ ValuesOf(held), a.asks) :
                 given \in Injection(values \ ValuesOf(held), Ids \ IdsOf(held))}
<1>1. ASSUME name \in {"create_indicator", "import_indicators"},
             NEW values \in SUBSET DOMAIN a.asks, NEW some \in setting(values)
      PROVE  some \in SUBSET Indicator /\ Distinct(some)
  <2>1. values \in SUBSET Values /\ \A v \in values : a.asks[v] \in Verdicts
    BY <1>1
  <2>. DEFINE new == values \ ValuesOf(held)
              there == Updated(held, values, a.asks)
  <2>2. PICK given \in Injection(new, Ids \ IdsOf(held)) :
          some = there \cup Added(given, new, a.asks)
    BY <1>1
  <2>3. there \in SUBSET Indicator /\ Distinct(there) /\ IdsOf(there) = IdsOf(held)
    BY <2>1, UpdatedStay
  <2>4. new \in SUBSET Values /\ \A v \in new : a.asks[v] \in Verdicts
    BY <2>1
  <2>. HIDE DEF new, there
  <2>5. given \in Injection(new, Ids \ IdsOf(there))
    BY <2>2, <2>3
  <2>. QED BY <2>2, <2>3, <2>4, <2>5, AddedStay
<1>2. CASE name = "create_indicator"
  <2>1. IndicatorEffects(name, a, held) = setting(DOMAIN a.asks)
    BY <1>2, Zenon DEF IndicatorEffects, Updated, Added
  <2>. HIDE DEF setting
  <2>. QED BY <1>1, <1>2, <2>1
<1>3. CASE name = "import_indicators"
  <2>1. IndicatorEffects(name, a, held) = UNION {setting(some) : some \in SUBSET DOMAIN a.asks}
    BY <1>3, Zenon DEF IndicatorEffects, Updated, Added
  <2>. HIDE DEF setting
  <2>2. PICK some \in SUBSET DOMAIN a.asks : after \in setting(some)
    BY <2>1
  <2>. QED BY <1>1, <1>3, <2>2
<1>4. CASE name \notin {"create_indicator", "import_indicators"}
  <2>1. IndicatorEffects(name, a, held) = {{x \in held : x.id \notin a.ids}}
    BY <1>4, Zenon DEF IndicatorEffects
  <2>. QED BY <2>1 DEF Distinct
<1>. QED BY <1>2, <1>3, <1>4

\* An estate of things that are told apart, whose mailbox fits.
Sound(e) ==
  /\ e \in Estate
  /\ Distinct(e.rules) /\ Distinct(e.indicators) /\ Cardinality(e.rules) <= MaxRules

\* Every request that is accepted leaves a sound estate.
LEMMA EffectsAreSound ==
  ASSUME NEW e, Sound(e), NEW r \in InboxRule \cup {NoRule}, NEW name \in Names,
         NEW a \in Arguments(name, e, r), NEW after \in Effects(name, a, e)
  PROVE  Sound(after)
<1>. DEFINE of(group) == name \in {o.name : o \in group}
<1>0. /\ e.machine \in Machine /\ e.account \in Account /\ e.rules \in SUBSET InboxRule
      /\ e.indicators \in SUBSET Indicator /\ e.scripts \in SUBSET {"script"}
      /\ e.tagged \in BOOLEAN
      /\ e = [machine |-> e.machine, account |-> e.account, rules |-> e.rules,
              indicators |-> e.indicators, scripts |-> e.scripts, tagged |-> e.tagged]
  BY DEF Sound, Estate
<1>1. CASE of(MachineOperations)
  <2>. DEFINE m == MachineEffect(name, e.machine)
              t == IF Named(name).kind = "write" THEN a.tagged ELSE e.tagged
  <2>1. after = [e EXCEPT !.machine = m, !.tagged = t]
    BY <1>1 DEF Effects
  <2>2. m \in Machine
    BY <1>0, MachinesStay
  <2>3. t \in BOOLEAN
    <3>1. CASE Named(name).kind = "write"
      <4>1. Named(name) \in Operations /\ Named(name).name = name
        BY IsNamed DEF Names
      <4>2. name \in {"update_machine", "add_remove_machine_tag"}
        <5>1. name \in {"update_machine", "add_remove_machine_tag"} \cup IncidentNames
          BY <3>1, <4>1, WritingIs
        <5>2. name \notin IncidentNames
          BY <1>1, GroupsAre DEF MachineNames, IncidentNames
        <5>. QED BY <5>1, <5>2
      <4>3. a \in [tagged : BOOLEAN, empty : BOOLEAN] \/ a \in [tagged : BOOLEAN]
        <5>1. CASE name = "update_machine"
          <6>1. a \in [tagged : BOOLEAN, empty : BOOLEAN]
            BY <5>1, ArgumentsAre
          <6>. QED BY <6>1
        <5>2. CASE name = "add_remove_machine_tag"
          <6>1. a \in [tagged : BOOLEAN]
            BY <5>2, ArgumentsAre
          <6>. QED BY <6>1
        <5>. QED BY <4>2, <5>1, <5>2
      <4>4. a.tagged \in BOOLEAN
        BY <4>3
      <4>. QED BY <3>1, <4>4
    <3>2. CASE Named(name).kind # "write"
      BY <1>0, <3>2
    <3>. QED BY <3>1, <3>2
  <2>. HIDE DEF m, t
  <2>. QED BY <1>0, <2>1, <2>2, <2>3 DEF Sound, Estate
<1>2. CASE ~ of(MachineOperations) /\ of(LiveOperations)
  <2>1. PICK m \in LiveEffects(name, e.machine) :
          after = [e EXCEPT !.machine = m, !.scripts = LibraryEffect(name, e.scripts)]
    BY <1>2 DEF Effects
  <2>2. m \in Machine
    BY <1>0, <2>1, LivesStay
  <2>3. LibraryEffect(name, e.scripts) \in SUBSET {"script"}
    BY <1>0, LibraryStays
  <2>. QED BY <1>0, <2>1, <2>2, <2>3 DEF Sound, Estate
<1>3. CASE ~ of(MachineOperations) /\ ~ of(LiveOperations) /\ of(IdentityOperations)
  <2>1. after = [e EXCEPT !.account = AccountEffect(name, e.account)]
    BY <1>3 DEF Effects
  <2>2. AccountEffect(name, e.account) \in Account
    BY <1>0, AccountsStay
  <2>. QED BY <1>0, <2>1, <2>2 DEF Sound, Estate
<1>4. CASE /\ ~ of(MachineOperations) /\ ~ of(LiveOperations) /\ ~ of(IdentityOperations)
           /\ of(MailboxOperations)
  <2>1. PICK rules \in RuleEffects(name, a, e.rules) : after = [e EXCEPT !.rules = rules]
    BY <1>4 DEF Effects
  <2>2. Mailbox(e.rules)
    BY <1>0 DEF Sound, Mailbox
  <2>3. Mailbox(rules)
    <3>1. name \in MailboxNames
      BY <1>4, GroupsAre
    <3>2. CASE name = "delete_inbox_rule"
      <4>1. a \in e.rules
        BY <3>2, ArgumentsAre
      <4>2. rules = e.rules \ {a}
        BY <2>1, <3>2, DeletingIs
      <4>. QED BY <2>2, <4>1, <4>2, RemovedFits
    <3>3. CASE name = "create_inbox_rule"
      <4>1. a \in InboxRule /\ Cardinality(e.rules) < MaxRules
        BY <3>3, ArgumentsAre
      <4>2. PICK i \in Ids \ (IdsOf(e.rules) \cup {a.id}) :
              rules = e.rules \cup {[a EXCEPT !.id = i]}
        BY <2>1, <3>3, <4>1, CreatingIs
      <4>. DEFINE x == [a EXCEPT !.id = i]
      <4>3. x \in InboxRule /\ x.id \notin IdsOf(e.rules)
        BY <4>1, <4>2 DEF InboxRule
      <4>. HIDE DEF x
      <4>4. Mailbox(e.rules \cup {x})
        BY <2>2, <4>1, <4>3, RestoredFits
      <4>. QED BY <4>2, <4>4 DEF x
    <3>. QED BY <3>1, <3>2, <3>3 DEF MailboxNames
  <2>. QED BY <1>0, <2>1, <2>3 DEF Sound, Estate, Mailbox
<1>5. CASE /\ ~ of(MachineOperations) /\ ~ of(LiveOperations) /\ ~ of(IdentityOperations)
           /\ ~ of(MailboxOperations) /\ of(IndicatorOperations)
  <2>1. PICK held \in IndicatorEffects(name, a, e.indicators) :
          after = [e EXCEPT !.indicators = held]
    BY <1>5 DEF Effects
  <2>2. name \in IndicatorNames
    BY <1>5, GroupsAre
  <2>3. name \in {"create_indicator", "import_indicators"} =>
          DOMAIN a.asks \in SUBSET Values /\ \A v \in DOMAIN a.asks : a.asks[v] \in Verdicts
    BY AskedOfIndicators
  <2>4. held \in SUBSET Indicator /\ Distinct(held)
    BY <1>0, <2>1, <2>2, <2>3, IndicatorsStay DEF Sound
  <2>. QED BY <1>0, <2>1, <2>4 DEF Sound, Estate
<1>6. CASE /\ ~ of(MachineOperations) /\ ~ of(LiveOperations) /\ ~ of(IdentityOperations)
           /\ ~ of(MailboxOperations) /\ ~ of(IndicatorOperations)
  <2>1. after = e
    BY <1>6 DEF Effects
  <2>. QED BY <2>1
<1>. HIDE DEF of
<1>. QED BY <1>1, <1>2, <1>3, <1>4, <1>5, <1>6

-----------------------------------------------------------------------------
(* The invariant.                                                          *)

LEMMA DeploymentsAre ==
  ASSUME deployment \in Deployments
  PROVE  /\ Refusing
         /\ environment.credential \in BOOLEAN
         /\ Mailbox(deployment.rules)
<1>1. /\ deployment.tenant.hunting \in {"open", "permission", "licence"}
      /\ \A c \in DOMAIN deployment.tenant.refused :
           deployment.tenant.refused[c] \in {"permission", "licence", "auditing off"}
      /\ deployment.environment.credential \in BOOLEAN
      /\ deployment.rules \subseteq InboxRule /\ Distinct(deployment.rules)
      /\ Cardinality(deployment.rules) <= MaxRules
  BY DeploymentsAssumption
<1>. QED BY <1>1 DEF tenant, environment, Mailbox, Refusing

LEMMA InitHolds ==
  ASSUME Init
  PROVE  Inductive
<1>1. deployment \in Deployments
  BY DEF Init
<1>2. Mailbox(deployment.rules)
  BY <1>1, DeploymentsAre
<1>3. Sound(NewEstate)
  <2>1. NewEstate \in Estate
    BY <1>2 DEF NewEstate, Estate, Machine, Account, Mailbox
  <2>2. NewEstate.rules = deployment.rules /\ NewEstate.indicators = {}
    BY DEF NewEstate
  <2>. QED BY <1>2, <2>1, <2>2 DEF Sound, Mailbox, Distinct
<1>4. TypeOK
  BY <1>1, <1>3 DEF Init, TypeOK, Sound
<1>5. BindingIsBuilt /\ ToolsAreListed
  BY DEF Init, BindingIsBuilt, ToolsAreListed
<1>6. RulesFit
  BY <1>3 DEF Init, RulesFit, Sound
<1>. QED BY <1>4, <1>5, <1>6 DEF Inductive

\* A deployment's probe and tools stay what they are while it stays itself.
LEMMA ProbesStay ==
  ASSUME deployment' = deployment
  PROVE  /\ \A outage \in Outages :
              BuildBinding(ResultOf(outage), AllowActions)'
                = BuildBinding(ResultOf(outage), AllowActions)
         /\ Listed' = Listed
         /\ environment' = environment
<1>1. environment' = environment /\ tenant' = tenant
  BY DEF environment, tenant
<1>2. AllowActions' = AllowActions
  BY <1>1 DEF AllowActions
<1>3. Listed' = Listed
  BY <1>2 DEF Listed
<1>4. ASSUME NEW outage \in Outages
      PROVE  ResultOf(outage)' = ResultOf(outage)
  BY <1>1 DEF ResultOf, Asked, Reaches, Refusal, HasRows
<1>. QED BY <1>1, <1>2, <1>3, <1>4

\* What is left of the invariant when only the binding may change.
LEMMA AskingKeeps ==
  ASSUME Inductive, phase \notin {"down", "refused"},
         NEW refresh \in BOOLEAN, GetCapabilities(refresh), warming' \in {warming, FALSE},
         UNCHANGED <<deployment, phase, listed, estate, read>>
  PROVE  Inductive'
<1>1. /\ kept' \in {binding', NoBinding}
      /\ outcome' \in {"none", "disabled", "invalid", "not configured", "forbidden", "done"}
      /\ \/ binding' = binding
         \/ \E outage \in Outages : binding' = BuildBinding(ResultOf(outage), AllowActions)
  <2>1. CASE kept # NoBinding /\ ~ refresh
    BY <2>1 DEF GetCapabilities, Inductive, TypeOK
  <2>2. CASE ~ (kept # NoBinding /\ ~ refresh) /\ ~ environment.credential
    BY <2>2 DEF GetCapabilities, Inductive, TypeOK
  <2>3. CASE ~ (kept # NoBinding /\ ~ refresh) /\ environment.credential
    BY <2>3 DEF GetCapabilities
  <2>. QED BY <2>1, <2>2, <2>3
<1>2. TypeOK'
  <2>1. environment' = environment
    BY ProbesStay
  <2>. QED BY <1>1, <2>1 DEF Inductive, TypeOK
<1>3. BindingIsBuilt'
  <2>. SUFFICES ASSUME binding' # NoBinding
                PROVE  \E outage \in Outages :
                         binding' = BuildBinding(ResultOf(outage), AllowActions)'
    BY Zenon DEF BindingIsBuilt, NoBinding, Outages
  <2>1. \E outage \in Outages : binding' = BuildBinding(ResultOf(outage), AllowActions)
    BY <1>1 DEF Inductive, BindingIsBuilt
  <2>. QED BY <2>1, ProbesStay
<1>4. ToolsAreListed'
  BY ProbesStay DEF Inductive, ToolsAreListed
<1>5. RulesFit'
  BY DEF Inductive, RulesFit
<1>. QED BY <1>2, <1>3, <1>4, <1>5 DEF Inductive

\* The binding and the tools stay while a serving deployment does.
LEMMA BindingStays ==
  ASSUME Inductive, UNCHANGED <<deployment, binding, listed>>,
         binding # NoBinding => phase' \notin {"down", "refused"},
         phase' = "serving" => phase = "serving"
  PROVE  BindingIsBuilt' /\ ToolsAreListed'
<1>1. BindingIsBuilt'
  <2>. SUFFICES ASSUME binding' # NoBinding
                PROVE  \E outage \in Outages :
                         binding' = BuildBinding(ResultOf(outage), AllowActions)'
    BY Zenon DEF BindingIsBuilt, NoBinding, Outages
  <2>1. \E outage \in Outages : binding = BuildBinding(ResultOf(outage), AllowActions)
    BY DEF Inductive, BindingIsBuilt
  <2>. QED BY <2>1, ProbesStay
<1>2. ToolsAreListed'
  BY ProbesStay DEF Inductive, ToolsAreListed
<1>. QED BY <1>1, <1>2

LEMMA CallsKeep ==
  ASSUME Inductive, NEW o \in Operations, Call(o)
  PROVE  Inductive'
<1>1. PICK a \in Arguments(o.name, estate, read) :
        /\ outcome' = Ends(o, a)
        /\ estate' \in IF outcome' = "done" THEN Effects(o.name, a, estate) ELSE {estate}
        /\ read' = IF o.name = "get_inbox_rule" /\ outcome' = "done" THEN a ELSE read
  BY DEF Call
<1>2. UNCHANGED <<deployment, phase, listed, warming, binding, kept>>
  BY DEF Call
<1>3. Sound(estate) /\ read \in InboxRule \cup {NoRule} /\ o.name \in Names
  BY DEF Inductive, TypeOK, RulesFit, Sound, Names
<1>4. Sound(estate')
  <2>1. CASE outcome' = "done"
    <3>1. estate' \in Effects(o.name, a, estate)
      BY <1>1, <2>1
    <3>. QED BY <1>3, <3>1, EffectsAreSound
  <2>2. CASE outcome' # "done"
    BY <1>1, <1>3, <2>2
  <2>. QED BY <2>1, <2>2
<1>5. read' \in InboxRule \cup {NoRule}
  <2>1. CASE o.name = "get_inbox_rule" /\ outcome' = "done"
    <3>1. read' = a /\ a \in estate.rules
      BY <1>1, <2>1, ArgumentsAre
    <3>. QED BY <1>3, <3>1 DEF Sound, Estate
  <2>2. CASE ~ (o.name = "get_inbox_rule" /\ outcome' = "done")
    BY <1>1, <1>3, <2>2
  <2>. QED BY <2>1, <2>2
<1>6. outcome' \in {"disabled", "invalid", "not configured", "forbidden", "done"}
  BY <1>1 DEF Ends
<1>7. TypeOK'
  <2>1. environment' = environment
    BY <1>2, ProbesStay
  <2>. QED BY <1>2, <1>4, <1>5, <1>6, <2>1 DEF Inductive, TypeOK, Sound
<1>8. BindingIsBuilt' /\ ToolsAreListed'
  BY <1>2, BindingStays DEF Inductive, BindingIsBuilt
<1>9. RulesFit'
  BY <1>4 DEF Sound, RulesFit
<1>. QED BY <1>7, <1>8, <1>9 DEF Inductive

LEMMA StartsKeep ==
  ASSUME Inductive, Start \/ Embed
  PROVE  Inductive'
<1>1. /\ UNCHANGED <<deployment, binding, kept, estate, read, outcome>>
      /\ binding = NoBinding
      /\ phase' \in {"serving", "embedded", "refused"}
      /\ phase' # "refused" => Known(environment.declared)
      /\ IF phase' = "serving" THEN listed' = Listed ELSE listed' = listed
      /\ warming' \in BOOLEAN
  <2>1. environment.credential \in BOOLEAN
    BY DeploymentsAre DEF Inductive, TypeOK
  <2>2. CASE Start
    BY <2>1, <2>2 DEF Start, Inductive, TypeOK, BindingIsBuilt
  <2>3. CASE Embed
    BY <2>3 DEF Embed, Inductive, TypeOK, BindingIsBuilt
  <2>. QED BY <2>2, <2>3
<1>2. environment' = environment /\ Listed' = Listed
  BY <1>1, ProbesStay
<1>3. TypeOK'
  <2>1. Listed \subseteq Names
    BY DEF Listed, Names
  <2>2. listed' \subseteq Names
    BY <1>1, <2>1 DEF Inductive, TypeOK
  <2>3. phase' \notin {"down", "refused"} => environment'.declared.ids \subseteq Entitlements
    BY <1>1, <1>2 DEF Known
  <2>. QED BY <1>1, <2>2, <2>3 DEF Inductive, TypeOK
<1>4. BindingIsBuilt'
  BY <1>1, Zenon DEF BindingIsBuilt, NoBinding
<1>5. ToolsAreListed'
  BY <1>1, <1>2 DEF Inductive, ToolsAreListed
<1>6. RulesFit'
  BY <1>1 DEF Inductive, RulesFit
<1>. QED BY <1>3, <1>4, <1>5, <1>6 DEF Inductive

LEMMA StopKeeps ==
  ASSUME Inductive, Stop
  PROVE  Inductive'
<1>1. /\ UNCHANGED <<deployment, listed, binding, kept, estate, read, outcome>>
      /\ phase \in {"serving", "embedded"} /\ phase' = "stopped" /\ warming' = FALSE
  BY DEF Stop
<1>2. TypeOK'
  <2>1. environment' = environment
    BY <1>1, ProbesStay
  <2>. QED BY <1>1, <2>1 DEF Inductive, TypeOK
<1>3. BindingIsBuilt' /\ ToolsAreListed'
  BY <1>1, BindingStays
<1>4. RulesFit'
  BY <1>1 DEF Inductive, RulesFit
<1>. QED BY <1>2, <1>3, <1>4 DEF Inductive

LEMMA StepHolds ==
  ASSUME Inductive, [Next]_vars
  PROVE  Inductive'
<1>1. CASE Start \/ Embed
  BY <1>1, StartsKeep
<1>2. CASE Stop
  BY <1>2, StopKeeps
<1>3. CASE WarmUp
  <2>1. /\ GetCapabilities(FALSE) /\ phase = "serving" /\ warming' = FALSE
        /\ UNCHANGED <<deployment, phase, listed, estate, read>>
    BY <1>3 DEF WarmUp
  <2>. QED BY <2>1, AskingKeeps
<1>4. CASE AskCapabilities
  <2>1. PICK refresh \in BOOLEAN : GetCapabilities(refresh)
    BY <1>4 DEF AskCapabilities
  <2>2. /\ phase \in {"serving", "embedded"} /\ warming' = warming
        /\ UNCHANGED <<deployment, phase, listed, estate, read>>
    BY <1>4 DEF AskCapabilities, Callable
  <2>. QED BY <2>1, <2>2, AskingKeeps
<1>5. CASE \E o \in Operations : o.name \in deployment.repertoire /\ Call(o)
  BY <1>5, CallsKeep
<1>6. CASE UNCHANGED vars
  <2>1. UNCHANGED <<deployment, phase, listed, warming, binding, kept, estate, read, outcome>>
    BY <1>6 DEF vars
  <2>2. TypeOK'
    <3>1. environment' = environment
      BY <2>1, ProbesStay
    <3>. QED BY <2>1, <3>1 DEF Inductive, TypeOK
  <2>3. BindingIsBuilt' /\ ToolsAreListed'
    BY <2>1, BindingStays DEF Inductive, BindingIsBuilt
  <2>4. RulesFit'
    BY <2>1 DEF Inductive, RulesFit
  <2>. QED BY <2>2, <2>3, <2>4 DEF Inductive
<1>. QED BY <1>1, <1>2, <1>3, <1>4, <1>5, <1>6 DEF Next

-----------------------------------------------------------------------------
(* What is taken back.                                                     *)

\* What a request of these operations leaves.
LEMMA MachineEffects ==
  ASSUME NEW name \in MachineNames \ {"update_machine", "add_remove_machine_tag"},
         NEW a, NEW e
  PROVE  Effects(name, a, e) = {[e EXCEPT !.machine = MachineEffect(name, @), !.tagged = @]}
<1>1. Named(name) \in Operations /\ Named(name).name = name
  <2>1. \E o \in MachineOperations : o.name = name
    BY GroupsAre
  <2>. QED BY <2>1, IsNamed DEF Operations
<1>2. Named(name).kind # "write"
  BY <1>1, WritingIs DEF MachineNames, IncidentNames
<1>3. Effects(name, a, e) =
        {[e EXCEPT !.machine = MachineEffect(name, @),
                   !.tagged = IF Named(name).kind = "write" THEN a.tagged ELSE @]}
  BY GroupsAre DEF Effects
<1>. QED BY <1>2, <1>3

LEMMA AccountEffects ==
  ASSUME NEW name \in IdentityNames, NEW a, NEW e
  PROVE  Effects(name, a, e) = {[e EXCEPT !.account = AccountEffect(name, @)]}
<1>1. name \notin MachineNames /\ name \notin LiveNames
  BY DEF IdentityNames, MachineNames, LiveNames
<1>. QED BY <1>1, GroupsAre DEF Effects

LEMMA MailboxEffects ==
  ASSUME NEW name \in MailboxNames, NEW a, NEW e
  PROVE  Effects(name, a, e) = {[e EXCEPT !.rules = r] : r \in RuleEffects(name, a, e.rules)}
<1>1. name \notin MachineNames /\ name \notin LiveNames /\ name \notin IdentityNames
  BY DEF IdentityNames, MachineNames, LiveNames, MailboxNames
<1>. QED BY <1>1, GroupsAre DEF Effects

LEMMA BlockEffects ==
  ASSUME NEW name \in IndicatorNames, NEW a, NEW e
  PROVE  Effects(name, a, e) =
           {[e EXCEPT !.indicators = i] : i \in IndicatorEffects(name, a, e.indicators)}
<1>1. /\ name \notin MachineNames /\ name \notin LiveNames /\ name \notin IdentityNames
      /\ name \notin MailboxNames
  BY DEF IdentityNames, MachineNames, LiveNames, MailboxNames, IndicatorNames
<1>. QED BY <1>1, GroupsAre DEF Effects

LEMMA SameIsSame ==
  ASSUME NEW e
  PROVE  SameButIds(e, e)
BY DEF SameButIds

LEMMA IsolationIsUndone ==
  ASSUME Sound(estate)
  PROVE  Undoes("unisolate_machine", "isolate_machine")
<1>. SUFFICES ASSUME NEW a \in Arguments("isolate_machine", estate, read),
                     NEW after \in Effects("isolate_machine", a, estate) \ {estate}
              PROVE  \E b \in Arguments("unisolate_machine", after, a) :
                       \E undone \in Effects("unisolate_machine", b, after) :
                         SameButIds(undone, estate)
  BY DEF Undoes
<1>. DEFINE b == [tagged |-> TRUE]
            undone == [after EXCEPT !.machine = [@ EXCEPT !.isolated = FALSE], !.tagged = @]
<1>1. /\ after = [estate EXCEPT !.machine = [@ EXCEPT !.isolated = TRUE], !.tagged = @]
      /\ after # estate
  <2>1. MachineEffect("isolate_machine", estate.machine)
          = [estate.machine EXCEPT !.isolated = TRUE]
    BY Zenon DEF MachineEffect
  <2>2. Effects("isolate_machine", a, estate)
          = {[estate EXCEPT !.machine = MachineEffect("isolate_machine", @), !.tagged = @]}
    BY MachineEffects DEF MachineNames
  <2>. QED BY <2>1, <2>2
<1>2. b \in Arguments("unisolate_machine", after, a)
  BY ArgumentsAre
<1>3. undone \in Effects("unisolate_machine", b, after)
  <2>1. MachineEffect("unisolate_machine", after.machine)
          = [after.machine EXCEPT !.isolated = FALSE]
    BY Zenon DEF MachineEffect
  <2>2. Effects("unisolate_machine", b, after)
          = {[after EXCEPT !.machine = MachineEffect("unisolate_machine", @), !.tagged = @]}
    BY MachineEffects DEF MachineNames
  <2>. QED BY <2>1, <2>2
<1>4. undone = estate
  <2>1. estate \in Estate /\ estate.machine \in Machine
    BY DEF Sound, Estate
  <2>2. estate.machine.isolated = FALSE
    BY <1>1, <2>1 DEF Estate, Machine
  <2>. QED BY <1>1, <2>1, <2>2 DEF Estate, Machine
<1>. QED BY <1>2, <1>3, <1>4, SameIsSame

LEMMA DisablingIsUndone ==
  ASSUME Sound(estate)
  PROVE  Undoes("enable_account", "disable_account")
<1>. SUFFICES ASSUME NEW a \in Arguments("disable_account", estate, read),
                     NEW after \in Effects("disable_account", a, estate) \ {estate}
              PROVE  \E b \in Arguments("enable_account", after, a) :
                       \E undone \in Effects("enable_account", b, after) :
                         SameButIds(undone, estate)
  BY DEF Undoes
<1>. DEFINE b == [tagged |-> TRUE]
            undone == [after EXCEPT !.account = [@ EXCEPT !.enabled = TRUE]]
<1>1. /\ after = [estate EXCEPT !.account = [@ EXCEPT !.enabled = FALSE]]
      /\ after # estate
  <2>1. AccountEffect("disable_account", estate.account)
          = [estate.account EXCEPT !.enabled = FALSE]
    BY Zenon DEF AccountEffect
  <2>2. Effects("disable_account", a, estate)
          = {[estate EXCEPT !.account = AccountEffect("disable_account", @)]}
    BY AccountEffects DEF IdentityNames
  <2>. QED BY <2>1, <2>2
<1>2. b \in Arguments("enable_account", after, a)
  BY ArgumentsAre
<1>3. undone \in Effects("enable_account", b, after)
  <2>1. AccountEffect("enable_account", after.account) = [after.account EXCEPT !.enabled = TRUE]
    BY Zenon DEF AccountEffect
  <2>2. Effects("enable_account", b, after)
          = {[after EXCEPT !.account = AccountEffect("enable_account", @)]}
    BY AccountEffects DEF IdentityNames
  <2>. QED BY <2>1, <2>2
<1>4. undone = estate
  <2>1. estate \in Estate /\ estate.account \in Account
    BY DEF Sound, Estate
  <2>2. estate.account.enabled = TRUE
    BY <1>1, <2>1 DEF Estate, Account
  <2>. QED BY <1>1, <2>1, <2>2 DEF Estate, Account
<1>. QED BY <1>2, <1>3, <1>4, SameIsSame

LEMMA DeletionIsUndone ==
  ASSUME Sound(estate)
  PROVE  Undoes("create_inbox_rule", "delete_inbox_rule")
<1>. SUFFICES ASSUME NEW a \in Arguments("delete_inbox_rule", estate, read),
                     NEW after \in Effects("delete_inbox_rule", a, estate) \ {estate}
              PROVE  \E b \in Arguments("create_inbox_rule", after, a) :
                       \E undone \in Effects("create_inbox_rule", b, after) :
                         SameButIds(undone, estate)
  BY DEF Undoes
<1>. DEFINE left == estate.rules \ {a}
<1>1. Mailbox(estate.rules) /\ estate.rules \in SUBSET InboxRule /\ estate \in Estate
  BY DEF Sound, Mailbox, Estate
<1>2. a \in estate.rules /\ a \in InboxRule
  BY <1>1, ArgumentsAre
<1>3. after = [estate EXCEPT !.rules = left]
  <2>1. RuleEffects("delete_inbox_rule", a, estate.rules) = {left}
    BY DeletingIs
  <2>2. Effects("delete_inbox_rule", a, estate)
          = {[estate EXCEPT !.rules = r] : r \in RuleEffects("delete_inbox_rule", a, estate.rules)}
    BY MailboxEffects DEF MailboxNames
  <2>. QED BY <2>1, <2>2
<1>4. after.rules = left
  BY <1>1, <1>3 DEF Estate
<1>5. Mailbox(left) /\ Cardinality(left) = Cardinality(estate.rules) - 1
  BY <1>1, <1>2, RemovedFits
<1>6. /\ Cardinality(left) \in Nat /\ Cardinality(estate.rules) \in Nat /\ MaxRules \in Int
      /\ Cardinality(left) < MaxRules
  BY <1>1, <1>5, RulesAreFinite DEF Mailbox, MaxRules
<1>7. a \in Arguments("create_inbox_rule", after, a)
  <2>1. a # NoRule
    BY <1>2, ValuesAssumption DEF InboxRule, NoRule
  <2>2. Arguments("create_inbox_rule", after, a)
          = {r \in {a} \ {NoRule} : Cardinality(after.rules) < MaxRules}
    BY ArgumentsAre
  <2>. QED BY <1>4, <1>6, <2>1, <2>2
<1>8. PICK i \in Ids \ IdsOf(estate.rules) : TRUE
  BY <1>1, RulesAreFinite
<1>. DEFINE x == [a EXCEPT !.id = i]
            undone == [after EXCEPT !.rules = left \cup {x}]
<1>9. x \in InboxRule /\ x.id = i /\ x.does = a.does
  BY <1>2 DEF InboxRule
<1>10. i \in Ids \ (IdsOf(left) \cup {a.id})
  BY <1>2 DEF IdsOf
<1>11. undone \in Effects("create_inbox_rule", a, after)
  <2>1. left \cup {x} \in RuleEffects("create_inbox_rule", a, left)
    BY <1>2, <1>10, CreatingIs
  <2>2. Effects("create_inbox_rule", a, after)
          = {[after EXCEPT !.rules = r] : r \in RuleEffects("create_inbox_rule", a, after.rules)}
    BY MailboxEffects DEF MailboxNames
  <2>. HIDE DEF left, x
  <2>. QED BY <1>4, <2>1, <2>2
<1>12. /\ Cardinality(left \cup {x}) = Cardinality(estate.rules)
       /\ {r.does : r \in left \cup {x}} = {r.does : r \in estate.rules}
  <2>1. x.id \notin IdsOf(left)
    BY <1>9, <1>10
  <2>2. Cardinality(left \cup {x}) = Cardinality(left) + 1
    <3>. HIDE DEF left, x
    <3>. QED BY <1>5, <1>6, <1>9, <2>1, RestoredFits
  <2>3. Cardinality(left \cup {x}) = Cardinality(estate.rules)
    <3>. HIDE DEF left, x
    <3>. QED BY <1>5, <1>6, <2>2
  <2>4. {r.does : r \in left \cup {x}} = {r.does : r \in estate.rules}
    <3>. HIDE DEF x
    <3>. QED BY <1>2, <1>9
  <2>. QED BY <2>3, <2>4
<1>13. SameButIds(undone, estate)
  <2>. HIDE DEF left, x
  <2>. QED BY <1>1, <1>3, <1>12 DEF SameButIds, Estate
<1>. HIDE DEF undone
<1>. QED BY <1>7, <1>11, <1>13

LEMMA BlockingIsUndone ==
  ASSUME Sound(estate)
  PROVE  Undoes("delete_indicator", "create_indicator")
<1>. SUFFICES ASSUME NEW a \in Arguments("create_indicator", estate, read),
                     ~ Overwrites("create_indicator", a),
                     NEW after \in Effects("create_indicator", a, estate) \ {estate}
              PROVE  \E b \in Arguments("delete_indicator", after, a) :
                       \E undone \in Effects("delete_indicator", b, after) :
                         SameButIds(undone, estate)
  BY DEF Undoes
<1>. DEFINE held == estate.indicators
            asked == DOMAIN a.asks
            updated == {IF y.value \in asked THEN [y EXCEPT !.does = a.asks[y.value]] ELSE y :
                          y \in held}
            made(given) == {[id |-> given[v], value |-> v, does |-> a.asks[v]] :
                              v \in asked \ ValuesOf(held)}
<1>1. estate \in Estate /\ held \in SUBSET Indicator
  BY DEF Sound, Estate
<1>2. PICK w \in Values : asked = {w}
  BY AskedOfIndicators
<1>3. asked \ ValuesOf(held) = {w} /\ updated = held
  <2>1. asked \cap ValuesOf(held) = {}
    BY DEF Overwrites
  <2>2. \A y \in held : y.value \notin asked
    BY <2>1 DEF ValuesOf
  <2>. QED BY <1>2, <2>1, <2>2
<1>4. PICK given \in Injection({w}, Ids \ IdsOf(held)) :
        after = [estate EXCEPT !.indicators = held \cup made(given)]
  <2>1. IndicatorEffects("create_indicator", a, held)
          = {updated \cup made(given) :
               given \in Injection(asked \ ValuesOf(held), Ids \ IdsOf(held))}
    BY Zenon DEF IndicatorEffects
  <2>2. Effects("create_indicator", a, estate)
          = {[estate EXCEPT !.indicators = i] : i \in IndicatorEffects("create_indicator", a, held)}
    BY BlockEffects DEF IndicatorNames
  <2>. HIDE DEF asked, updated, made
  <2>. QED BY <1>3, <2>1, <2>2
<1>. DEFINE x == [id |-> given[w], value |-> w, does |-> a.asks[w]]
            b == [ids |-> {x.id}]
            undone == [after EXCEPT !.indicators = held]
<1>5. made(given) = {x}
  BY <1>3
<1>6. x.id \notin IdsOf(held)
  BY DEF Injection
<1>. HIDE DEF made, asked, updated, x
<1>7. after.indicators = held \cup {x}
  BY <1>1, <1>4, <1>5 DEF Estate
<1>8. b \in Arguments("delete_indicator", after, a)
  <2>1. x.id \in IdsOf(after.indicators)
    BY <1>7 DEF IdsOf
  <2>2. Arguments("delete_indicator", after, a) = [ids : {{i} : i \in IdsOf(after.indicators)}]
    BY ArgumentsAre
  <2>. QED BY <2>1, <2>2
<1>9. undone \in Effects("delete_indicator", b, after)
  <2>1. IndicatorEffects("delete_indicator", b, after.indicators)
          = {{y \in after.indicators : y.id \notin b.ids}}
    BY Zenon DEF IndicatorEffects
  <2>2. {y \in after.indicators : y.id \notin b.ids} = held
    BY <1>6, <1>7 DEF IdsOf
  <2>. HIDE DEF b, held
  <2>3. Effects("delete_indicator", b, after)
          = {[after EXCEPT !.indicators = i] :
               i \in IndicatorEffects("delete_indicator", b, after.indicators)}
    BY BlockEffects DEF IndicatorNames
  <2>. QED BY <2>1, <2>2, <2>3
<1>10. undone = estate
  BY <1>1, <1>4 DEF Estate
<1>. HIDE DEF undone, b
<1>. QED BY <1>8, <1>9, <1>10, SameIsSame

-----------------------------------------------------------------------------
(* What is bound can be called.                                            *)

LEMMA BackIsUndone ==
  ASSUME Sound(estate), NEW name, NEW back, <<name, back>> \in Rollbacks
  PROVE  Undoes(back, name)
<1>1. CASE name = "isolate_machine" /\ back = "unisolate_machine"
  BY <1>1, IsolationIsUndone
<1>2. CASE name = "disable_account" /\ back = "enable_account"
  BY <1>2, DisablingIsUndone
<1>3. CASE name = "delete_inbox_rule" /\ back = "create_inbox_rule"
  BY <1>3, DeletionIsUndone
<1>4. CASE name = "create_indicator" /\ back = "delete_indicator"
  BY <1>4, BlockingIsUndone
<1>. QED BY <1>1, <1>2, <1>3, <1>4 DEF Rollbacks

\* What takes an operation back is declared as it is.
LEMMA BackIsDeclared ==
  ASSUME NEW name, NEW back, <<name, back>> \in Rollbacks
  PROVE  /\ name \in ContainingNames /\ back \in RollbackNames
         /\ Named(name).kind = "action" /\ Named(back).kind = "action"
         /\ Named(back).permissions = Named(name).permissions
<1>. DEFINE o == Named(name)
            p == Named(back)
<1>1. name \in ContainingNames /\ back \in RollbackNames
  BY DEF Rollbacks, ContainingNames, RollbackNames
<1>2. o.name = name /\ DeclaredAs(o) /\ p.name = back /\ DeclaredAs(p)
  BY <1>1, NamedAre
<1>. HIDE DEF o, p
<1>3. o.kind = "action" /\ p.kind = "action" /\ p.permissions = o.permissions
  <2>1. CASE name = "isolate_machine" /\ back = "unisolate_machine"
    BY <1>2, <2>1 DEF DeclaredAs
  <2>2. CASE name = "disable_account" /\ back = "enable_account"
    BY <1>2, <2>2 DEF DeclaredAs
  <2>3. CASE name = "delete_inbox_rule" /\ back = "create_inbox_rule"
    BY <1>2, <2>3 DEF DeclaredAs
  <2>4. CASE name = "create_indicator" /\ back = "delete_indicator"
    BY <1>2, <2>4 DEF DeclaredAs
  <2>. QED BY <2>1, <2>2, <2>3, <2>4 DEF Rollbacks
<1>. QED BY <1>1, <1>3 DEF o, p

\* A server lists an action only if it was allowed to act.
LEMMA ListedIs ==
  ASSUME NEW name \in ReadingNames \cup ContainingNames \cup RollbackNames
                      \cup {"add_incident_comment"}
  PROVE  name \in Listed <=> Named(name).kind # "action" \/ AllowActions
<1>1. Named(name) \in Operations /\ Named(name).name = name
  BY NamedAre
<1>2. ASSUME NEW o \in Operations, o.name = name, o.kind # "action"
      PROVE  Named(name).kind # "action"
  <2>1. DeclaredAs(o) /\ DeclaredAs(Named(name))
    BY <1>1, AllDeclared
  <2>. QED BY <1>1, <1>2, <2>1 DEF DeclaredAs, ContainingNames, RollbackNames
<1>. QED BY <1>1, <1>2 DEF Listed

\* A role that holds is one the token has, where its roles were read.
LEMMA HeldRoleIsGranted ==
  ASSUME NEW outage, NEW r, Holds(ResultOf(outage), Role(r)), tenant.readable = {"graph", "mde"}
  PROVE  r \in tenant.granted
<1>. DEFINE R == ResultOf(outage)
<1>1. StatusOf(R, Role(r)) = Granted(R.roles, r)
  BY DEF StatusOf, Role, Check
<1>2. ApiOfRole(r) \in tenant.readable
  BY DEF ApiOfRole
<1>3. Granted(R.roles, r) = IF r \in tenant.granted THEN "granted" ELSE "missing"
  BY <1>2, GrantedIs
<1>. QED BY <1>1, <1>3 DEF Holds, Ok

\* An option to act that is met is one the token may act with.
LEMMA MetIsPermitted ==
  ASSUME NEW outage, tenant.readable = {"graph", "mde"},
         NEW names, NEW option \in ActingOptions(names), Meets(option, ResultOf(outage))
  PROVE  Permitted(Named(option.operation), tenant.granted)
<1>1. \E r \in Granting(option.operation) : r \in tenant.granted
  <2>1. \/ \E r \in Granting(option.operation) : Role(r) \in option.all
        \/ /\ option.any # {}
           /\ option.any \subseteq {Role(r) : r \in Granting(option.operation)}
    BY DEF ActingOptions
  <2>2. \E r \in Granting(option.operation) : Holds(ResultOf(outage), Role(r))
    BY <2>1 DEF Meets
  <2>. QED BY <2>2, HeldRoleIsGranted
<1>. QED BY <1>1 DEF Granting, Permitted

LEMMA BoundAreCallable ==
  ASSUME Inductive
  PROVE  BoundIsCallable
<1>. SUFFICES ASSUME binding # NoBinding, NEW class \in DOMAIN binding.capabilities
              PROVE  LET entry == binding.capabilities[class]
                         o == Named(entry.operation)
                         known == o.kind = "read" \/ tenant.readable = {"graph", "mde"}
                     IN
                     /\ phase = "serving" => (entry.disabled <=> o.name \notin listed)
                     /\ phase = "embedded" => (entry.disabled <=> ~ Gate(o))
                     /\ known /\ o.kind # "read" => Permitted(o, tenant.granted)
                     /\ entry.rollback # "none" =>
                          /\ o.name \in listed <=> entry.rollback \in listed
                          /\ known => Permitted(Named(entry.rollback), tenant.granted)
                          /\ Undoes(entry.rollback, o.name)
  BY DEF BoundIsCallable
<1>1. PICK outage \in Outages : binding = BuildBinding(ResultOf(outage), AllowActions)
  BY DEF Inductive, BindingIsBuilt
<1>2. Sound(estate)
  BY DEF Inductive, TypeOK, RulesFit, Sound
<1>3. (phase = "serving" => listed = Listed) /\ listed \in {{}, Listed}
  BY DEF Inductive, ToolsAreListed
<1>4. class \in DOMAIN ClassBindings
  BY <1>1, BoundIs
<1>5. PICK i \in DOMAIN ClassBindings[class] :
        /\ Meets(ClassBindings[class][i], ResultOf(outage))
        /\ binding.capabilities[class] =
             Entry(class, ClassBindings[class][i], ResultOf(outage), AllowActions)
  BY <1>1, BoundIs
<1>. DEFINE option == ClassBindings[class][i]
            entry == binding.capabilities[class]
            o == Named(option.operation)
<1>6. /\ entry.operation = option.operation /\ entry.rollback = option.rollback
      /\ entry.disabled <=> class \in Keys(ContainmentClasses) /\ ~ AllowActions
  <2>. DEFINE off == class \in Keys(ContainmentClasses) /\ ~ AllowActions
              unread == {c \in option.all : StatusOf(ResultOf(outage), c) = "unknown"}
  <2>1. entry = [operation |-> option.operation, rollback |-> option.rollback,
                 unread |-> unread, disabled |-> off]
    BY <1>5 DEF Entry
  <2>. HIDE DEF entry, option, off, unread
  <2>2. /\ entry.operation = option.operation /\ entry.rollback = option.rollback
        /\ entry.disabled = off
    BY <2>1
  <2>. QED BY <2>2 DEF off
<1>7. \/ class \notin Keys(ContainmentClasses) /\ option \in ReadingOptions
      \/ class \in Keys(ContainmentClasses) /\ option \in ActingOptions(ContainingNames)
      \/ /\ class \notin Keys(ContainmentClasses)
         /\ option \in ActingOptions({"add_incident_comment"})
  BY <1>4, <1>5, ClassesAre DEF OptionsOf
<1>8. /\ option.rollback # "none" => <<option.operation, option.rollback>> \in Rollbacks
      /\ option.rollback # "none" => option.operation \in ContainingNames
      /\ \/ /\ option.operation \in ReadingNames /\ option.rollback = "none"
            /\ class \notin Keys(ContainmentClasses)
         \/ /\ option.operation \in ContainingNames /\ class \in Keys(ContainmentClasses)
            /\ \E names : option \in ActingOptions(names)
         \/ /\ option.operation = "add_incident_comment" /\ option.rollback = "none"
            /\ class \notin Keys(ContainmentClasses)
            /\ \E names : option \in ActingOptions(names)
  <2>. HIDE DEF option
  <2>1. CASE class \notin Keys(ContainmentClasses) /\ option \in ReadingOptions
    BY <2>1 DEF ReadingOptions
  <2>2. CASE class \in Keys(ContainmentClasses) /\ option \in ActingOptions(ContainingNames)
    <3>1. /\ option.operation \in ContainingNames
          /\ option.rollback # "none" => <<option.operation, option.rollback>> \in Rollbacks
      BY <2>2 DEF ActingOptions
    <3>. QED BY <2>2, <3>1
  <2>3. CASE /\ class \notin Keys(ContainmentClasses)
             /\ option \in ActingOptions({"add_incident_comment"})
    <3>1. /\ option.operation = "add_incident_comment"
          /\ option.rollback # "none" => <<option.operation, option.rollback>> \in Rollbacks
      BY <2>3 DEF ActingOptions
    <3>2. option.rollback = "none"
      BY <3>1 DEF Rollbacks
    <3>. QED BY <2>3, <3>1, <3>2
  <2>. QED BY <1>7, <2>1, <2>2, <2>3
<1>9. /\ o.name = option.operation
      /\ option.operation \in Listed <=> o.kind # "action" \/ AllowActions
      /\ option.operation \in ReadingNames => o.kind = "read"
      /\ option.operation \in ContainingNames => o.kind = "action"
      /\ option.operation = "add_incident_comment" => o.kind = "write"
  <2>. HIDE DEF option
  <2>1. o.name = option.operation /\ DeclaredAs(o)
    BY <1>8, NamedAre
  <2>2. option.operation \in Listed <=> o.kind # "action" \/ AllowActions
    BY <1>8, ListedIs
  <2>. QED BY <2>1, <2>2 DEF DeclaredAs, ContainingNames
<1>10. tenant.readable = {"graph", "mde"} /\ o.kind # "read" => Permitted(o, tenant.granted)
  <2>. SUFFICES ASSUME tenant.readable = {"graph", "mde"}, o.kind # "read"
                PROVE  Permitted(o, tenant.granted)
    OBVIOUS
  <2>1. PICK names : option \in ActingOptions(names)
    BY <1>8, <1>9
  <2>. HIDE DEF option
  <2>2. Permitted(Named(option.operation), tenant.granted)
    <3>1. Meets(option, ResultOf(outage))
      BY <1>5 DEF option
    <3>. QED BY <2>1, <3>1, MetIsPermitted
  <2>. QED BY <2>2
<1>11. option.rollback # "none" =>
         /\ o.kind = "action"
         /\ option.operation \in Listed <=> option.rollback \in Listed
         /\ Permitted(o, tenant.granted) <=> Permitted(Named(option.rollback), tenant.granted)
         /\ Undoes(option.rollback, option.operation)
  <2>. HIDE DEF option
  <2>. SUFFICES ASSUME option.rollback # "none"
                PROVE  /\ o.kind = "action"
                       /\ option.operation \in Listed <=> option.rollback \in Listed
                       /\ Permitted(o, tenant.granted)
                            <=> Permitted(Named(option.rollback), tenant.granted)
                       /\ Undoes(option.rollback, option.operation)
    OBVIOUS
  <2>1. <<option.operation, option.rollback>> \in Rollbacks
    BY <1>8
  <2>2. Undoes(option.rollback, option.operation)
    BY <1>2, <2>1, BackIsUndone
  <2>3. /\ option.operation \in ContainingNames /\ option.rollback \in RollbackNames
        /\ o.kind = "action" /\ Named(option.rollback).kind = "action"
        /\ Named(option.rollback).permissions = o.permissions
    BY <2>1, BackIsDeclared
  <2>4. option.operation \in Listed <=> option.rollback \in Listed
    BY <2>3, ListedIs
  <2>5. Permitted(o, tenant.granted) <=> Permitted(Named(option.rollback), tenant.granted)
    BY <2>3 DEF Permitted
  <2>. QED BY <2>2, <2>3, <2>4, <2>5
<1>12. Gate(o) <=> o.kind # "action" \/ AllowActions
  BY DEF Gate
<1>. HIDE DEF option
<1>13. entry.disabled <=> ~ (o.kind # "action" \/ AllowActions)
  BY <1>6, <1>8, <1>9
<1>14. entry.rollback # "none" => (o.name \in listed <=> entry.rollback \in listed)
  BY <1>3, <1>6, <1>9, <1>11
<1>. QED BY <1>3, <1>6, <1>9, <1>10, <1>11, <1>12, <1>13, <1>14

-----------------------------------------------------------------------------
(* The gate.                                                               *)

\* The operations that are no response actions, by name.
Quiet == QuietReads \cup IncidentNames
Tagging == {"update_machine", "add_remove_machine_tag"}

\* Every operation that is not declared an action is one of these.
LEMMA ActionsAreDeclared ==
  ASSUME NEW o \in Operations, o.kind # "action"
  PROVE  o.name \in Quiet \cup Tagging
<1>1. CASE o \in Reading
  BY <1>1, ReadsAre DEF Quiet
<1>2. CASE o \in MachineOperations
  BY <1>2 DEF MachineOperations, Declared, Tagging
<1>3. CASE o \in LiveOperations
  BY <1>3 DEF LiveOperations, Declared
<1>4. CASE o \in IdentityOperations
  BY <1>4 DEF IdentityOperations, Declared
<1>5. CASE o \in MailboxOperations
  BY <1>5 DEF MailboxOperations, Declared
<1>6. CASE o \in IndicatorOperations
  BY <1>6 DEF IndicatorOperations, Declared
<1>7. CASE o \in IncidentOperations
  BY <1>7 DEF IncidentOperations, AlertOperations, Declared, Quiet, IncidentNames
<1>. QED BY <1>1, <1>2, <1>3, <1>4, <1>5, <1>6, <1>7 DEF Operations

\* Those names are nobody else's, but for the tagging ones among the machines'.
LEMMA QuietNames ==
  ASSUME NEW name \in Quiet \cup Tagging
  PROVE  /\ name \in Tagging <=> name \in MachineNames
         /\ name \notin LiveNames \cup IdentityNames \cup MailboxNames \cup IndicatorNames
BY DEF Quiet, QuietReads, IncidentNames, Tagging, MachineNames,
       LiveNames, IdentityNames, MailboxNames, IndicatorNames

\* What such an operation leaves of the estate is what was there, tags aside.
LEMMA OnlyTagsChange ==
  ASSUME NEW name \in Quiet \cup Tagging, NEW a, NEW e, NEW after \in Effects(name, a, e)
  PROVE  [after EXCEPT !.tagged = FALSE] = [e EXCEPT !.tagged = FALSE]
<1>1. CASE name \in Quiet
  <2>1. Effects(name, a, e) = {e}
    BY <1>1, QuietNames, GroupsAre DEF Effects, Quiet, QuietReads, IncidentNames, Tagging
  <2>. QED BY <2>1
<1>2. CASE name \in Tagging
  <2>. DEFINE Tagged(value) ==
         [e EXCEPT !.machine = MachineEffect(name, @), !.tagged = value]
  <2>1. \E value : after = Tagged(value)
    BY <1>2, QuietNames, GroupsAre DEF Effects
  <2>2. PICK value : after = Tagged(value)
    BY <2>1
  <2>3. MachineEffect(name, e.machine) = e.machine
    BY <1>2 DEF MachineEffect, Tagging
  <2>. QED BY <2>2, <2>3
<1>. QED BY <1>1, <1>2

\* A call that changes more than tags was let through the gate, by a client
\* that holds a credential.
LEMMA CallsAreGated ==
  ASSUME NEW o \in Operations, Call(o),
         [estate' EXCEPT !.tagged = FALSE] # [estate EXCEPT !.tagged = FALSE]
  PROVE  AllowActions /\ environment.credential
<1>1. PICK a : /\ outcome' = Ends(o, a)
               /\ estate' \in IF outcome' = "done" THEN Effects(o.name, a, estate) ELSE {estate}
  BY DEF Call
<1>2. outcome' = "done"
  BY <1>1
<1>3. estate' \in Effects(o.name, a, estate)
  BY <1>1, <1>2
<1>4. o.kind = "action"
  BY <1>3, ActionsAreDeclared, OnlyTagsChange
<1>5. o \notin LocalOperations
  BY <1>4, ReadsAre DEF Reading
<1>6. Gate(o) /\ environment.credential
  BY <1>1, <1>2, <1>5 DEF Ends
<1>. QED BY <1>4, <1>6 DEF Gate

-----------------------------------------------------------------------------
(* The theorems.                                                           *)

\* The invariant the others rest on: every variable keeps its type, a binding is
\* that of a probe of this deployment, and the tools are those its setting lists.
THEOREM InductiveHolds == Spec => []Inductive
<1>1. Init => Inductive
  BY InitHolds
<1>2. Inductive /\ [Next]_vars => Inductive'
  BY StepHolds
<1>. QED BY <1>1, <1>2, PTL DEF Spec

\* Every variable keeps its type, ids stay one thing's, and nothing serves under
\* a declaration it does not know (check_entitlements).
THEOREM TypeCorrect == Spec => []TypeOK
<1>1. Inductive => TypeOK
  BY DEF Inductive
<1>. QED BY <1>1, InductiveHolds, PTL

\* What a deployment answers about its tenant is so, whatever its tenant and
\* settings are, and whenever and in whatever order its services fail.
THEOREM BindingsAreTrue == Spec => []BindingIsTrue
<1>1. Inductive => BindingIsTrue
  <2>. SUFFICES ASSUME Inductive, binding # NoBinding PROVE BindingIsTrue
    BY DEF BindingIsTrue
  <2>1. deployment \in Deployments /\ phase \notin {"down", "refused"}
    BY DEF Inductive, TypeOK, BindingIsBuilt
  <2>2. Typed
    BY <2>1, DeploymentsAre DEF Inductive, TypeOK, Typed
  <2>. QED BY <2>2, BuiltIsTrue DEF Inductive
<1>. QED BY <1>1, InductiveHolds, PTL

\* What a class is bound to can be called: it is listed or noted as disabled, a
\* token whose roles were read may call it, and its rollback takes it back
\* (_entry; mailbox.py:93).
THEOREM BoundIsAlwaysCallable == Spec => []BoundIsCallable
<1>1. Inductive => BoundIsCallable
  BY BoundAreCallable
<1>. QED BY <1>1, InductiveHolds, PTL

\* Without "true" in its setting, or without a credential, a deployment changes
\* nothing of the estate but tags, whatever is called in whatever order
\* (operations.py's gate, client.py:47).
THEOREM NoActionUnlessAllowed == Spec => ActionsAreGated
<1>. DEFINE Gated ==
       [estate' EXCEPT !.tagged = FALSE] # [estate EXCEPT !.tagged = FALSE]
         => AllowActions /\ environment.credential
<1>1. [Next]_vars => [Gated]_vars
  <2>. SUFFICES ASSUME Next PROVE Gated
    OBVIOUS
  <2>1. CASE Start \/ Embed \/ Stop \/ WarmUp \/ AskCapabilities
    BY <2>1 DEF Start, Embed, Stop, WarmUp, AskCapabilities
  <2>2. CASE \E o \in Operations : Call(o)
    BY <2>2, CallsAreGated
  <2>. QED BY <2>1, <2>2 DEF Next
<1>. QED BY <1>1, PTL DEF Spec, ActionsAreGated

=============================================================================
