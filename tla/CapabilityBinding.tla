------------------------- MODULE CapabilityBinding -------------------------
(***************************************************************************)
(* What a probe's result means (probe.py) and what this integration knows  *)
(* it can satisfy (capabilities.py): the checks, the entitlements a        *)
(* deployment declares, and the capability binding built from them.        *)
(*                                                                         *)
(* A result has the status each check answered with, the roles read from   *)
(* each API's token, and the declaration. Texts are left out: a note is    *)
(* the set of checks it is about.                                          *)
(***************************************************************************)
EXTENDS Integers, FiniteSets

\* A function by its pairs of a key and a value.
Keys(pairs) == {p[1] : p \in pairs}
Table(pairs) == [k \in Keys(pairs) |-> (CHOOSE p \in pairs : p[1] = k)[2]]

Check(kind, subject) == [kind |-> kind, of |-> subject]
Hunting(tables) == {Check("hunting", t) : t \in tables}
Api(name) == Check("api", name)
Role(name) == Check("role", name)

ApiChecks == {"graph.incidents", "graph.alerts", "graph.sign_ins", "graph.users",
              "graph.directory_audits", "graph.audit_search",
              "mde.machines", "mde.software", "mde.machine_actions"}

DeviceTables == {"DeviceInfo", "DeviceProcessEvents", "DeviceNetworkEvents", "DeviceFileEvents",
                 "DeviceRegistryEvents", "DeviceLogonEvents", "DeviceImageLoadEvents",
                 "DeviceEvents"}
EmailTables == {"EmailEvents", "EmailAttachmentInfo", "EmailUrlInfo", "EmailPostDeliveryEvents",
                "UrlClickEvents"}
ActingTables == {"DisruptionAndResponseEvents"}
AlertTables == {"AlertInfo", "AlertEvidence"}
HuntingTables ==
  AlertTables \cup DeviceTables \cup EmailTables \cup ActingTables \cup
  {"DeviceTvmSoftwareInventory", "DeviceTvmSoftwareVulnerabilities", "IdentityInfo",
   "IdentityLogonEvents", "IdentityDirectoryEvents", "IdentityQueryEvents", "CloudAppEvents"}
RawTables == {"DeviceProcessEvents", "IdentityLogonEvents", "EmailEvents", "CloudAppEvents"}

-----------------------------------------------------------------------------
(* Classes and sources.                                                    *)

Option(operation, all, any, rollback) ==
  [operation |-> operation, all |-> all, any |-> any, rollback |-> rollback]
Needs(operation, all) == Option(operation, all, {}, "none")
Mde == {Api("mde.machines")}
Users == {Api("graph.users")}

ReadingClasses ==
  {<<"asset.cmdb", <<Needs("get_machine", Mde)>>>>,
   <<"identity.directory", <<Needs("run_hunting_query", Hunting({"IdentityInfo"})),
                             Needs("get_user_machines", Mde)>>>>,
   <<"cases.store", <<Needs("list_incidents", {Api("graph.incidents")})>>>>,
   <<"malware.repository", <<Needs("get_file_info", Mde)>>>>,
   <<"decode", <<Needs("decode_command", {Check("always", "local")})>>>>,
   <<"telemetry.endpoint", <<Needs("run_hunting_query", Hunting({"DeviceProcessEvents"})),
                             Needs("get_incident_evidence", {Api("graph.alerts")})>>>>,
   <<"telemetry.identity", <<Needs("list_sign_ins", {Api("graph.sign_ins")}),
                             Needs("run_hunting_query", Hunting({"IdentityLogonEvents"}))>>>>,
   <<"telemetry.email", <<Needs("run_hunting_query", Hunting({"EmailEvents"}))>>>>,
   <<"telemetry.cloud", <<Needs("run_hunting_query", Hunting({"CloudAppEvents"}))>>>>,
   <<"telemetry.network", <<Needs("run_hunting_query", Hunting({"DeviceNetworkEvents"}))>>>>,
   <<"siem.search", <<Option("run_hunting_query", {}, Hunting(RawTables), "none")>>>>}

ContainmentClasses ==
  {<<"containment.isolate_host",
     <<Option("isolate_machine", Mde \cup {Role("Machine.Isolate")}, {}, "unisolate_machine")>>>>,
   <<"containment.suspend_sessions",
     <<Option("revoke_sign_in_sessions", Users,
              {Role("User.RevokeSessions.All"), Role("User.ReadWrite.All")}, "none")>>>>,
   <<"containment.disable_account",
     <<Option("disable_account", Users,
              {Role("User.EnableDisableAccount.All"), Role("User.ReadWrite.All")},
              "enable_account")>>>>,
   <<"containment.remove_inbox_rule",
     <<Option("delete_inbox_rule", Users, {Role("Mail.ReadWrite")}, "create_inbox_rule")>>>>,
   <<"containment.quarantine_file",
     <<Needs("stop_and_quarantine_file", Mde \cup {Role("Machine.StopAndQuarantine")})>>>>,
   <<"containment.block_indicator",
     <<Option("create_indicator", Mde \cup {Role("Ti.ReadWrite.All")}, {}, "delete_indicator")>>>>}

Ticketing ==
  {<<"ticketing", <<Needs("add_incident_comment",
                          {Api("graph.incidents"), Role("SecurityIncident.ReadWrite.All")})>>>>}

ClassBindings == Table(ReadingClasses \cup ContainmentClasses \cup Ticketing)

ApiOfRole(role) ==
  IF role \in {"Machine.Isolate", "Machine.StopAndQuarantine", "Ti.ReadWrite.All", "File.Read.All"}
  THEN "mde" ELSE "graph"

Rule(any, all, fallback) == [any |-> any, all |-> all, fallback |-> fallback]
AnyOf(checks) == Rule(checks, {}, FALSE)

\* One framework source of each rule data_sources.json has.
SourceRules ==
  {<<"DNS logs", AnyOf({})>>,
   <<"Anti-virus / anti-malware", AnyOf({Api("graph.alerts")})>>,
   <<"CASB", AnyOf(Hunting({"CloudAppEvents"}))>>,
   <<"Directory audit logs", AnyOf({Api("graph.directory_audits")})>>,
   <<"EDR", Rule(Hunting({"DeviceProcessEvents"}), {}, TRUE)>>,
   <<"Email detonation / sandbox", AnyOf(Hunting({"EmailUrlInfo", "EmailAttachmentInfo"}))>>,
   <<"Email gateway / attachment sandbox logs", AnyOf(Hunting({"EmailAttachmentInfo"}))>>,
   <<"Email gateway logs", AnyOf(Hunting({"EmailEvents"}))>>,
   <<"Identity provider sign-in logs",
     AnyOf(Hunting({"IdentityLogonEvents"}) \cup {Api("graph.sign_ins")})>>,
   <<"MFA logs", AnyOf({Api("graph.sign_ins")})>>,
   <<"Netflow to/from the device", AnyOf(Hunting({"DeviceNetworkEvents"}))>>,
   <<"Software inventory / SBOM", AnyOf({Api("mde.software")})>>,
   <<"Threat-intel / reputation enrichment (hash, IP, domain)",
     Rule({}, Mde \cup {Role("File.Read.All")}, FALSE)>>}
DataSources == Table(SourceRules)

-----------------------------------------------------------------------------
(* Entitlements.                                                           *)

Entitlements == {"endpoint_p2", "endpoint_p1", "office365_p2", "office365_p1"}
Family ==
  [e \in Entitlements |->
     IF e \in {"endpoint_p2", "endpoint_p1"} THEN "endpoint" ELSE "office365"]
TableEntitlement ==
  [t \in DeviceTables \cup ActingTables \cup EmailTables |->
     IF t \in EmailTables THEN "office365_p2" ELSE "endpoint_p2"]

Undeclared == [stated |-> FALSE, ids |-> {}]
Declares(ids) == [stated |-> TRUE, ids |-> ids]

\* Mutant: one id it knows is enough.
KnownInPart(declared) == declared.ids = {} \/ declared.ids \cap Entitlements # {}

\* check_entitlements lets it through.
Known(declared) == declared.ids \subseteq Entitlements

\* Mutant: a declaration speaks for every family.
StatedOfAll(entitlement, declared) ==
  IF ~ declared.stated THEN "unsaid"
  ELSE IF entitlement \in declared.ids THEN "held" ELSE "absent"

EntitlementStated(entitlement, declared) ==
  IF ~ declared.stated THEN "unsaid"
  ELSE IF entitlement \in declared.ids THEN "held"
  ELSE IF \/ declared.ids = {}
          \/ \E d \in declared.ids \cap Entitlements : Family[d] = Family[entitlement]
  THEN "absent"
  ELSE "unsaid"

-----------------------------------------------------------------------------
(* Reading a result.                                                       *)

Ok(status) == status \in {"available", "granted", "unknown", "entitled_no_rows"}

\* What an empty hunting table says.
Entitled(table, declared) ==
  LET stated == EntitlementStated(TableEntitlement[table], declared) IN
  IF table \notin DOMAIN TableEntitlement THEN "empty"
  ELSE IF stated = "unsaid" THEN "undeclared"
  ELSE IF stated = "absent" THEN "unlicensed"
  ELSE IF table \in ActingTables THEN "entitled_no_rows" ELSE "empty"

Granted(roles, role) ==
  LET api == roles[ApiOfRole(role)] IN
  IF ~ api.readable THEN "unknown"
  ELSE IF role \in api.granted THEN "granted" ELSE "missing"

StatusOf(result, check) ==
  IF check.kind = "always" THEN "available"
  ELSE IF check.kind = "role" THEN Granted(result.roles, check.of)
  ELSE IF check \notin DOMAIN result.checks THEN "error"
  ELSE IF check.kind = "hunting" /\ result.checks[check] = "empty"
  THEN Entitled(check.of, result.declared)
  ELSE result.checks[check]

Holds(result, check) == Ok(StatusOf(result, check))

Complete(result) == \A c \in DOMAIN result.checks : result.checks[c] # "error"

\* _failed: what a refusal of each kind says of its check.
Failed(refusal) ==
  IF refusal \in {"licence", "auditing off"} THEN "unlicensed"
  ELSE IF refusal = "permission" THEN "forbidden"
  ELSE IF refusal = "unresolved" THEN "not_exposed" ELSE "error"

-----------------------------------------------------------------------------
(* The binding.                                                            *)

Unmet(option, result) ==
  LET unheld(checks) == {c \in checks : ~ Holds(result, c)} IN
  unheld(option.all) \cup IF unheld(option.any) = option.any THEN option.any ELSE {}

Satisfied(class, result) ==
  {i \in DOMAIN ClassBindings[class] : Unmet(ClassBindings[class][i], result) = {}}

\* The first option the tenant satisfies.
Chosen(class, result) ==
  LET met == Satisfied(class, result) IN
  ClassBindings[class][CHOOSE i \in met : \A j \in met : i <= j]

Entry(class, option, result, actions) ==
  [operation |-> option.operation,
   rollback |-> option.rollback,
   unread |-> {c \in option.all : StatusOf(result, c) = "unknown"},
   disabled |-> class \in Keys(ContainmentClasses) /\ ~ actions]

Provided(rule, result) ==
  \/ \E c \in rule.any : Holds(result, c)
  \/ rule.all # {} /\ \A c \in rule.all : Holds(result, c)

Required(status) == status \notin {"available", "unlicensed", "not_exposed"}

\* MANUAL_CHECKS has one: attack disruption's actions.
Manual(result) ==
  LET status == StatusOf(result, Check("hunting", "DisruptionAndResponseEvents")) IN
  [status |-> status, automated |-> Ok(status), required |-> Required(status)]

HuntingSummary(result) ==
  LET with(status) == {t \in HuntingTables : StatusOf(result, Check("hunting", t)) = status} IN
  IF with("available") \cap RawTables # {} THEN "available"
  ELSE IF with("available") \ AlertTables # {} THEN "partial"
  ELSE IF with("available") # {} THEN "alert tables only"
  ELSE IF with("forbidden") = HuntingTables THEN "forbidden" ELSE "unavailable"

BuildBinding(result, actions) ==
  LET bound == {c \in DOMAIN ClassBindings : Satisfied(c, result) # {}}
      provided == [s \in DOMAIN DataSources |-> Provided(DataSources[s], result)]
      evidence == Holds(result, Api("graph.alerts"))
  IN
  [capabilities |-> [c \in bound |-> Entry(c, Chosen(c, result), result, actions)],
   unbound |-> [c \in DOMAIN ClassBindings \ bound |-> Unmet(ClassBindings[c][1], result)],
   data_sources |-> provided,
   by_evidence |-> {s \in DOMAIN DataSources :
                      ~ provided[s] /\ DataSources[s].fallback /\ evidence},
   hunting |-> HuntingSummary(result),
   checks |-> [c \in DOMAIN result.checks |-> StatusOf(result, c)],
   manual |-> Manual(result),
   complete |-> Complete(result)]

=============================================================================
