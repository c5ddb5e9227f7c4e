---------------------------- MODULE MCDeployment ----------------------------
(***************************************************************************)
(* Deployments for TLC: every tenant and declaration, of which only the    *)
(* binding is asked; and tenants that have everything, where the           *)
(* operations of one module are called.                                    *)
(***************************************************************************)
EXTENDS Deployment

MCVerdicts == {"Block", "Allowed"}
MCBehaviours == {"forward", "move"}
MCIds == 1..3

Declarations ==
  {Undeclared, Declares({}), Declares({"endpoint_p2"}), Declares({"office365_p2"}),
   Declares({"endpoint_p1", "office365_p2"}), Declares({"endpoint_p3", "office365_p2"})}

Environments ==
  [credential : BOOLEAN, allow : AllowValues, declared : Declarations, embeds : BOOLEAN]

Roles == {p : p \in UNION {o.permissions : o \in Operations}} \cup {"User.ReadWrite.All"}

\* What the API checks meet and what the tokens carry.
Nothing == Table({})
Access ==
  {[refused |-> Nothing, granted |-> Roles, readable |-> {"graph", "mde"}],
   [refused |-> Nothing, granted |-> {"User.ReadWrite.All", "Machine.Isolate"},
    readable |-> {"graph", "mde"}],
   [refused |-> Table({<<Api("mde.machines"), "licence">>, <<Api("graph.sign_ins"), "licence">>,
                       <<Api("graph.audit_search"), "auditing off">>}),
    granted |-> {}, readable |-> {"mde"}],
   [refused |-> Table({<<Api("graph.alerts"), "permission">>, <<Api("graph.users"), "permission">>,
                       <<Api("mde.software"), "licence">>}),
    granted |-> {"Ti.ReadWrite.All"}, readable |-> {"graph", "mde"}]}

Gated == DOMAIN TableEntitlement

Tenants ==
  {[endpoint |-> e, acted |-> acted, office365 |-> m, rows |-> rows, hunting |-> h[1],
    unresolved |-> h[2], refused |-> a.refused, granted |-> a.granted, readable |-> a.readable] :
     e \in Tiers, acted \in BOOLEAN, m \in Tiers,
     rows \in {{}, {"AlertInfo"}, HuntingTables},
     h \in {<<"open", {}>>, <<"open", Gated>>, <<"permission", {}>>, <<"licence", {}>>},
     a \in Access}

Environment(allow, declared, embeds) ==
  [credential |-> TRUE, allow |-> allow, declared |-> declared, embeds |-> embeds]

Whole ==
  [endpoint |-> "reporting", acted |-> TRUE, office365 |-> "reporting", rows |-> HuntingTables,
   hunting |-> "open", unresolved |-> {}, refused |-> Nothing, granted |-> Roles,
   readable |-> {"graph", "mde"}]

Repertoires ==
  {{o.name : o \in MachineOperations}, {o.name : o \in LiveOperations \cup IdentityOperations},
   {o.name : o \in MailboxOperations \cup Reading \cup IncidentOperations},
   {o.name : o \in IndicatorOperations}}

Asking ==
  [tenant : Tenants, rules : {{}}, repertoire : {{}},
   environment : {Environment("true", d, FALSE) : d \in Declarations}
                 \cup {Environment("unset", Declares({"endpoint_p2"}), TRUE)}]

Calling ==
  [tenant : {Whole, [Whole EXCEPT !.granted = {"Mail.ReadWrite", "Machine.Scan"}]},
   rules : {{[id |-> 1, does |-> "forward"], [id |-> 2, does |-> "move"]}},
   repertoire : Repertoires,
   environment : {e \in Environments : e.declared = Undeclared /\ (e.embeds => e.credential)}]

MCDeployments == Asking \cup Calling

=============================================================================
