-------------------------- MODULE ResponseActions --------------------------
(***************************************************************************)
(* The operations that write or act (machines.py, machine_actions.py,      *)
(* identity.py, mailbox.py, indicators.py, incidents.py, alerts.py): what  *)
(* each declares of itself, which arguments it refuses before any request, *)
(* and what the request asks of the estate. One device, one account, one   *)
(* mailbox, one script: an operation acts on the one it names. What the    *)
(* services do with a request is theirs; here they do as asked, at once.   *)
(* Incidents and alerts are not of the estate: IncidentMerge has them.     *)
(***************************************************************************)
EXTENDS Integers, FiniteSets, Functions

CONSTANTS
  Values,      \* what an indicator may be about
  Verdicts,    \* what an indicator may do on a match
  Behaviours,  \* what an inbox rule may do
  Ids,         \* bound: the ids a service gives what it creates
  MaxImport    \* MAX_IMPORT

ASSUME ValuesAssumption == Ids \subseteq Nat \ {0} /\ IsFiniteSet(Ids) /\ MaxImport \in Nat

Declared(kind, permissions, names) ==
  [name : names, kind : {kind}, permissions : {permissions}]

\* Operations that send no request.
LocalOperations == Declared("read", {}, {"decode_command", "timestamp_to_utc"})

\* Operations declared as reads, of those that ask the tenant the ones a class
\* is bound to, the ones a caller needs to undo what it did and the audit log's.
Reading ==
  Declared("read", {"SecurityIncident.Read.All"}, {"list_incidents", "get_incident_evidence"})
  \cup Declared("read", {"SecurityIncident.Read.All", "SecurityAlert.Read.All"},
                {"get_capabilities"})
  \cup Declared("read", {"Machine.Read.All"}, {"get_machine", "get_user_machines"})
  \cup Declared("read", {"File.Read.All"}, {"get_file_info"})
  \cup Declared("read", {"ThreatHunting.Read.All"}, {"run_hunting_query"})
  \cup Declared("read", {"AuditLog.Read.All", "Directory.Read.All"}, {"list_sign_ins"})
  \cup Declared("read", {"Mail.Read"}, {"get_inbox_rule"})
  \cup Declared("read", {"AuditLogsQuery.Read.All"},
                {"list_audit_searches", "start_audit_search", "get_audit_search",
                 "list_audit_search_records"})
  \cup LocalOperations

MachineOperations ==
  Declared("write", {"Machine.ReadWrite.All"}, {"update_machine", "add_remove_machine_tag"})
  \cup Declared("action", {"Machine.Isolate"}, {"isolate_machine", "unisolate_machine"})
  \cup Declared("action", {"Machine.Scan"}, {"run_av_scan"})
  \cup Declared("action", {"Machine.RestrictExecution"},
                {"restrict_code_execution", "unrestrict_code_execution"})
  \cup Declared("action", {"Machine.StopAndQuarantine"}, {"stop_and_quarantine_file"})
  \cup Declared("action", {"Machine.CollectForensics"}, {"collect_investigation_package"})
  \cup Declared("action", {"Machine.Offboard"}, {"offboard_machine"})

LiveOperations ==
  Declared("action", {"Machine.Isolate", "Machine.Scan", "Machine.LiveResponse"},
           {"cancel_machine_action"})
  \cup Declared("action", {"Machine.LiveResponse"}, {"run_live_response"})
  \cup Declared("action", {"Alert.ReadWrite.All"}, {"start_investigation"})
  \cup Declared("action", {"Library.Manage"}, {"upload_library_file", "delete_library_file"})

IdentityOperations ==
  Declared("action", {"User.RevokeSessions.All"}, {"revoke_sign_in_sessions"})
  \cup Declared("action", {"User.EnableDisableAccount.All"}, {"disable_account", "enable_account"})

MailboxOperations ==
  Declared("action", {"Mail.ReadWrite"}, {"delete_inbox_rule", "create_inbox_rule"})

IndicatorOperations ==
  Declared("action", {"Ti.ReadWrite.All"},
           {"create_indicator", "import_indicators", "delete_indicator",
            "batch_delete_indicators"})

AlertOperations ==
  Declared("write", {"SecurityAlert.ReadWrite.All"}, {"update_alert", "add_alert_comment"})

IncidentOperations ==
  Declared("write", {"SecurityIncident.ReadWrite.All"},
           {"update_incident", "add_incident_comment", "merge_incidents"})
  \cup AlertOperations

\* operations_of: every operation that writes or acts and the reads above, each
\* with a name of its own. The reads left out go through the same gate.
Operations ==
  Reading \cup MachineOperations \cup LiveOperations \cup IdentityOperations
  \cup MailboxOperations \cup IndicatorOperations \cup IncidentOperations
Named(name) == CHOOSE o \in Operations : o.name = name
Names == {o.name : o \in Operations}

\* A permission that grants what another does, and more.
Broader(permission) ==
  CASE permission \in {"User.RevokeSessions.All", "User.EnableDisableAccount.All"} ->
         {permission, "User.ReadWrite.All"}
    [] permission = "Mail.Read" -> {permission, "Mail.ReadWrite"}
    [] OTHER -> {permission}

\* The service serves the operation to a token with these roles.
Permitted(o, roles) ==
  o.permissions = {} \/ \E p \in o.permissions : Broader(p) \cap roles # {}

-----------------------------------------------------------------------------
(* The estate.                                                             *)

Machine == [isolated : BOOLEAN, restricted : BOOLEAN, quarantined : BOOLEAN, onboarded : BOOLEAN,
            jobs : SUBSET {"scan", "package", "live", "investigation"}]
Account == [enabled : BOOLEAN, sessions : BOOLEAN]
InboxRule == [id : Ids, does : Behaviours]
Indicator == [id : Ids, value : Values, does : Verdicts]
Estate == [machine : Machine, account : Account, rules : SUBSET InboxRule,
           indicators : SUBSET Indicator, scripts : SUBSET {"script"}, tagged : BOOLEAN]

MaxRules == Cardinality(Ids) - 1  \* bounds the mailbox: an id is always free
NoRule == [id |-> 0, does |-> "nothing"]
IdsOf(things) == {t.id : t \in things}
ValuesOf(things) == {t.value : t \in things}
Distinct(things) == \A t, u \in things : t.id = u.id => t = u

\* What a call may be given; `read` is the rule the caller last read.
Arguments(name, estate, read) ==
  CASE name \in {"delete_inbox_rule", "get_inbox_rule"} -> estate.rules
    [] name = "create_inbox_rule" ->
         {r \in {read} \ {NoRule} : Cardinality(estate.rules) < MaxRules}
    [] name = "create_indicator" -> [asks : UNION {[{v} -> Verdicts] : v \in Values}]
    [] name = "import_indicators" -> [asks : UNION {[vs -> Verdicts] : vs \in SUBSET Values}]
    [] name = "delete_indicator" -> [ids : {{i} : i \in IdsOf(estate.indicators)}]
    [] name = "batch_delete_indicators" -> [ids : SUBSET IdsOf(estate.indicators)]
    [] name = "run_live_response" -> [commands : {0, 1, 10, 11}]
    [] name = "upload_library_file" -> [base64 : BOOLEAN]
    [] name = "update_machine" -> [tagged : BOOLEAN, empty : BOOLEAN]
    [] name = "update_alert" -> [empty : BOOLEAN]
    [] name = "update_incident" -> [empty : BOOLEAN, long : BOOLEAN]
    [] name = "add_remove_machine_tag" -> [tagged : BOOLEAN]
    [] OTHER -> {[tagged |-> TRUE]}

\* InvalidInputError, before any request (merge_incidents refuses what it was
\* given only after it has read it). `long`: a resolving comment past its limit.
Refused(name, a) ==
  \/ name = "import_indicators" /\ Cardinality(DOMAIN a.asks) \notin 1..MaxImport
  \/ name = "batch_delete_indicators" /\ Cardinality(a.ids) \notin 1..MaxImport
  \/ name = "run_live_response" /\ a.commands \notin 1..10
  \/ name = "upload_library_file" /\ ~ a.base64
  \/ name \in {"update_machine", "update_alert", "update_incident"} /\ a.empty
  \/ name = "update_incident" /\ a.long

MachineEffect(name, m) ==
  CASE name = "isolate_machine" -> [m EXCEPT !.isolated = TRUE]
    [] name = "unisolate_machine" -> [m EXCEPT !.isolated = FALSE]
    [] name = "restrict_code_execution" -> [m EXCEPT !.restricted = TRUE]
    [] name = "unrestrict_code_execution" -> [m EXCEPT !.restricted = FALSE]
    [] name = "stop_and_quarantine_file" -> [m EXCEPT !.quarantined = TRUE]
    [] name = "run_av_scan" -> [m EXCEPT !.jobs = @ \cup {"scan"}]
    [] name = "collect_investigation_package" -> [m EXCEPT !.jobs = @ \cup {"package"}]
    [] name = "offboard_machine" -> [m EXCEPT !.onboarded = FALSE]
    [] OTHER -> m

\* cancel_machine_action takes back one job that is pending.
LiveEffects(name, m) ==
  CASE name = "run_live_response" -> {[m EXCEPT !.jobs = @ \cup {"live"}]}
    [] name = "start_investigation" -> {[m EXCEPT !.jobs = @ \cup {"investigation"}]}
    [] name = "cancel_machine_action" -> {[m EXCEPT !.jobs = @ \ {j}] : j \in m.jobs}
    [] OTHER -> {m}

LibraryEffect(name, scripts) ==
  CASE name = "upload_library_file" -> {"script"}
    [] name = "delete_library_file" -> {}
    [] OTHER -> scripts

AccountEffect(name, account) ==
  CASE name = "revoke_sign_in_sessions" -> [account EXCEPT !.sessions = FALSE]
    [] name = "disable_account" -> [account EXCEPT !.enabled = FALSE]
    [] name = "enable_account" -> [account EXCEPT !.enabled = TRUE]
    [] OTHER -> account

\* Mutant: the rule is sent back as it was read.
NoReadOnlyFields == {}

\* The fields of a rule the service owns, and refuses to be sent.
READ_ONLY_FIELDS == {"id"}

\* A restored rule is a new rule with the old behaviour.
RuleEffects(name, a, rules) ==
  CASE name = "delete_inbox_rule" -> {rules \ {a}}
    [] name = "create_inbox_rule" /\ "id" \notin DOMAIN a \ READ_ONLY_FIELDS ->
         {rules \cup {[a EXCEPT !.id = i]} : i \in Ids \ (IdsOf(rules) \cup {a.id})}
    [] OTHER -> {rules}

\* "Create or update": an indicator there is for the value already keeps its
\* id and takes on what it is asked to do. An import can partly fail.
IndicatorEffects(name, a, held) ==
  LET updated(values) ==
        {IF x.value \in values THEN [x EXCEPT !.does = a.asks[x.value]] ELSE x : x \in held}
      setting(values) ==
        {updated(values) \cup {[id |-> given[v], value |-> v, does |-> a.asks[v]] :
                                v \in values \ ValuesOf(held)} :
           given \in Injection(values \ ValuesOf(held), Ids \ IdsOf(held))}
  IN
  CASE name = "create_indicator" -> setting(DOMAIN a.asks)
    [] name = "import_indicators" -> UNION {setting(some) : some \in SUBSET DOMAIN a.asks}
    [] OTHER -> {{x \in held : x.id \notin a.ids}}

\* What an accepted request may leave of the estate.
Effects(name, a, e) ==
  LET of(group) == name \in {o.name : o \in group} IN
  IF of(MachineOperations)
  THEN {[e EXCEPT !.machine = MachineEffect(name, @),
                  !.tagged = IF Named(name).kind = "write" THEN a.tagged ELSE @]}
  ELSE IF of(LiveOperations)
  THEN {[e EXCEPT !.machine = m, !.scripts = LibraryEffect(name, @)] :
          m \in LiveEffects(name, e.machine)}
  ELSE IF of(IdentityOperations)
  THEN {[e EXCEPT !.account = AccountEffect(name, @)]}
  ELSE IF of(MailboxOperations)
  THEN {[e EXCEPT !.rules = r] : r \in RuleEffects(name, a, e.rules)}
  ELSE IF of(IndicatorOperations)
  THEN {[e EXCEPT !.indicators = i] : i \in IndicatorEffects(name, a, e.indicators)}
  ELSE {e}

=============================================================================
