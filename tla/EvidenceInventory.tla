------------------------- MODULE EvidenceInventory -------------------------
(***************************************************************************)
(* The evidence inventory of an incident (get_incident_evidence in         *)
(* incidents.py, evidence.py): its alerts are read, then the rows of every *)
(* alert read are joined to a device and merged, one after the other, into *)
(* entities. Which entity a row goes to depends on the entities made so    *)
(* far, so on the order the service sent alerts and evidence in: here any  *)
(* alert may cite anything, in any order.                                  *)
(*                                                                         *)
(* A device may be cited under several spellings of its name, by its id or *)
(* without one, and a row may name a device's id or none.                  *)
(***************************************************************************)
EXTENDS IncidentAlerts, FiniteSets, SequencesExt

CONSTANTS
  Scoped,     \* identities of processes, files and registry items
  Unscoped,   \* identities of evidence of other types
  DeviceIds,  \* mdeDeviceId
  Names,      \* the spellings of device names
  HostOf,     \* HostOf[n]: the name n is a spelling of, in lower case
  Verdicts,
  Unknown,    \* no id, no device, no verdict
  MaxDevices, \* bound: the device evidence of an alert
  MaxCited,   \* bound: the device evidence of an incident
  MaxRows     \* bound: the rows of an incident

ASSUME ConstantsAssumption ==
  /\ Scoped \cap Unscoped = {}
  /\ Unknown \notin DeviceIds \cup Names \cup Verdicts
  /\ MaxDevices \in Nat /\ MaxCited \in Nat /\ MaxRows \in Nat

AlertIds == Range(Alerts)

\* Device evidence: a name, and an id where the source gives one.
Cited == [id : DeviceIds \cup {Unknown}, name : Names]

VARIABLES
  cited,     \* cited[a]: the device evidence of alert a, in the order it is sent
  rows,      \* the rows merged so far
  entities,  \* _merge's entities
  owner      \* owner[n]: the entity the n-th row went to

inventory == <<cited, rows, entities, owner>>
vars == <<stage, total, got, pages, link, truncated, cited, rows, entities, owner>>

Init ==
  /\ InitReading
  /\ cited = [a \in AlertIds |-> <<>>]
  /\ rows = <<>> /\ entities = <<>> /\ owner = <<>>

\* The alerts kept of what was read, which cite what they cite.
Kept == {Alerts[n] : n \in 1 .. Min({got, MaxAlerts})}
Begin ==
  /\ Finish
  /\ \E sent \in [Kept -> UNION {[1 .. n -> Cited] : n \in 0 .. MaxDevices}] :
       /\ MapThenSumSet(LAMBDA a : Len(sent[a]), Kept) <= MaxCited
       /\ cited' = [a \in AlertIds |-> IF a \in Kept THEN sent[a] ELSE <<>>]
  /\ UNCHANGED <<rows, entities, owner>>

-----------------------------------------------------------------------------
(* The device join.                                                        *)

\* Where an alert names the device, in the order sent.
Naming(a, id) == {k \in 1 .. Len(cited[a]) : cited[a][k].id = id}
FirstName(a, id) == cited[a][Min(Naming(a, id))].name

\* Mutant: a device nobody names goes by its id.
DeviceNameOrId(id) ==
  LET by == {n \in 1 .. Len(Alerts) : Naming(Alerts[n], id) # {}}
  IN  IF by = {} THEN id ELSE FirstName(Alerts[Min(by)], id)

\* _device_names: the first name given to the id, by the first alert that cites it.
DeviceName(id) ==
  LET by == {n \in 1 .. Len(Alerts) : Naming(Alerts[n], id) # {}}
  IN  IF id = Unknown \/ by = {} THEN Unknown ELSE FirstName(Alerts[Min(by)], id)

\* _joined: the device of the row's id, else the one device the alert cites.
Joined(a, id) ==
  LET alone == {cited[a][k].name : k \in 1 .. Len(cited[a])}
  IN  IF DeviceName(id) # Unknown THEN DeviceName(id)
      ELSE IF Cardinality(alone) = 1 THEN CHOOSE n \in alone : TRUE
      ELSE Unknown

-----------------------------------------------------------------------------
(* The merge.                                                              *)

\* Mutant: spellings are compared.
SamePlaceSpelt(e, r) ==
  r.what \in Unscoped \/ e.device = Unknown \/ r.device = Unknown \/ e.device = r.device

\* Mutant: types are not told apart.
SamePlaceAlways(e, r) == TRUE

\* _same_place: scoped rows are apart where both devices are known and differ.
SamePlace(e, r) ==
  \/ r.what \in Unscoped
  \/ e.device = Unknown \/ r.device = Unknown
  \/ HostOf[e.device] = HostOf[r.device]

\* The first entity the row is another mention of, or one more.
EntityOf(r) ==
  LET same == {n \in 1 .. Len(entities) : entities[n].what = r.what /\ SamePlace(entities[n], r)}
  IN  IF same = {} THEN Len(entities) + 1 ELSE Min(same)

NewEntity(r) ==
  [what |-> r.what, device |-> Unknown, devices |-> {}, alerts |-> {},
   verdict |-> Unknown, said |-> [a \in AlertIds |-> Unknown]]

\* A field keeps the first value it is given.
Keep(old, new) == IF old = Unknown THEN new ELSE old

\* Mutant: what alerts say of an entity is kept once, not for each alert.
MentionOnce(e, r) ==
  [e EXCEPT !.device = Keep(@, r.device),
            !.devices = @ \cup ({r.device} \ {Unknown}),
            !.alerts = @ \cup {r.alert},
            !.verdict = Keep(@, r.verdict),
            !.said[r.alert] = Keep(@, Keep(e.verdict, r.verdict))]

\* The entity after one more row: its first device and verdict, every device
\* and alert, and each alert's first verdict.
Mention(e, r) ==
  [what |-> e.what,
   device |-> Keep(e.device, r.device),
   devices |-> e.devices \cup ({r.device} \ {Unknown}),
   alerts |-> e.alerts \cup {r.alert},
   verdict |-> Keep(e.verdict, r.verdict),
   said |-> [e.said EXCEPT ![r.alert] = Keep(@, r.verdict)]]

Merge(r) ==
  /\ owner' = Append(owner, EntityOf(r))
  /\ entities' = IF EntityOf(r) > Len(entities) THEN Append(entities, Mention(NewEntity(r), r))
                 ELSE [entities EXCEPT ![EntityOf(r)] = Mention(@, r)]

\* The alerts whose evidence may come next: one after the other, as sent.
Ahead ==
  {Alerts[n] : n \in {m \in 1 .. Len(Alerts) : \A k \in m + 1 .. Len(Alerts) :
                       \A i \in 1 .. Len(rows) : rows[i].alert # Alerts[k]}}

\* The next row of the incident, of any evidence.
Row(a, what, id, verdict) ==
  LET r == [alert |-> a, what |-> what, device |-> Joined(a, id), verdict |-> verdict]
  IN  /\ stage = "read"
      /\ Len(rows) < MaxRows
      /\ a \in Ahead \cap Kept
      /\ rows' = Append(rows, r)
      /\ Merge(r)
      /\ UNCHANGED <<cited, reading>>

Next ==
  \/ (Expand \/ Follow \/ Fail) /\ UNCHANGED inventory
  \/ Begin
  \/ \E a \in AlertIds, what \in Scoped \cup Unscoped, id \in DeviceIds \cup {Unknown},
        verdict \in Verdicts \cup {Unknown} : Row(a, what, id, verdict)

Spec == Init /\ [][Next]_vars

-----------------------------------------------------------------------------
(* What the inventory answers of an entity.                                *)

\* An entity cited on several devices belongs to none of them.
DeviceOf(e) == IF Cardinality(e.devices) > 1 THEN Unknown ELSE e.device

\* _by_alert: the alerts whose verdicts are told one by one, for they differ.
ByAlert(e) ==
  IF Cardinality({e.said[a] : a \in AlertIds} \ {Unknown}) > 1
  THEN {a \in AlertIds : e.said[a] # Unknown} ELSE {}

-----------------------------------------------------------------------------
(* What the inventory guarantees, whatever order rows come in.             *)

\* Every variable keeps its type; an entity is cited by an alert (_merge).
TypeOK ==
  /\ ReadingTypeOK
  /\ cited \in [AlertIds -> Seq(Cited)]
  /\ rows \in Seq([alert : AlertIds, what : Scoped \cup Unscoped,
                   device : Names \cup {Unknown}, verdict : Verdicts \cup {Unknown}])
  /\ owner \in Seq(1 .. Len(entities)) /\ Len(owner) = Len(rows)
  /\ Len(entities) <= Len(rows)
  /\ \A n \in 1 .. Len(entities) :
       /\ entities[n].what \in Scoped \cup Unscoped
       /\ entities[n].devices \subseteq Names /\ entities[n].device \in Names \cup {Unknown}
       /\ entities[n].alerts \in (SUBSET AlertIds) \ {{}}
       /\ entities[n].said \in [AlertIds -> Verdicts \cup {Unknown}]

\* "True where the incident has more alerts than this client reads to ...: a
\* reader that drops it builds a Case silently missing alerts" (incidents.py:97):
\* an answer not marked truncated is of every alert, whichever ceiling stopped
\* the reading, and the inventory cites no alert that was not read.
CutIsTold ==
  /\ stage = "read" /\ ~ truncated => got = total
  /\ UNION {entities[n].alerts : n \in 1 .. Len(entities)} \subseteq Kept

\* The hosts the rows of one identity were found on.
HostsOf(what) ==
  {HostOf[rows[n].device] : n \in {m \in 1 .. Len(rows) : rows[m].what = what
                                                          /\ rows[m].device # Unknown}}

\* How many entities of an identity there should be: one if it is mentioned, and
\* of a scoped one as many as hosts it is known to be on.
Expected(what) ==
  IF \A n \in 1 .. Len(rows) : rows[n].what # what THEN 0
  ELSE IF what \in Unscoped \/ HostsOf(what) = {} THEN 1
  ELSE Cardinality(HostsOf(what))

\* The entities of an identity, so entityCount, do not depend on the order the
\* service sent rows in, though where a row goes does (evidence.py:8).
CountIsOrderFree ==
  \A what \in Scoped \cup Unscoped :
    Cardinality({k \in 1 .. Len(entities) : entities[k].what = what}) = Expected(what)

\* "The same name on two devices is two entities" (evidence.py:52): the rows of
\* a scoped entity are all of one host.
OneHostEach ==
  \A m, n \in 1 .. Len(rows) :
    /\ owner[m] = owner[n] /\ rows[m].what \in Scoped
    /\ rows[m].device # Unknown /\ rows[n].device # Unknown
    => HostOf[rows[m].device] = HostOf[rows[n].device]

\* Every row is found again in the entity it went to: its alert, its device.
NothingLost ==
  \A n \in 1 .. Len(rows) :
    LET e == entities[owner[n]]
    IN  /\ rows[n].what = e.what
        /\ rows[n].alert \in e.alerts
        /\ rows[n].device \in e.devices \cup {Unknown}

\* The verdict an alert gave an entity: that of its first row that has one.
Said(k, a) ==
  LET by == {n \in 1 .. Len(rows) : owner[n] = k /\ rows[n].alert = a /\ rows[n].verdict # Unknown}
  IN  IF by = {} THEN Unknown ELSE rows[Min(by)].verdict

\* "Where the alerts say different things of the entity ... by_alert gives each
\* alert's values" (evidence.py:27-29): two alerts that differ are both told.
DisagreementIsTold ==
  \A k \in 1 .. Len(entities) : \A a, b \in AlertIds :
    /\ Said(k, a) # Unknown /\ Said(k, b) # Unknown
    /\ Said(k, a) # Said(k, b)
    => /\ {a, b} \subseteq ByAlert(entities[k])
       /\ entities[k].said[a] = Said(k, a) /\ entities[k].said[b] = Said(k, b)

\* No row and no verdict is lost in the merge (_merge, _by_alert).
EverythingSaid == NothingLost /\ DisagreementIsTold

\* The inductive invariant: what was read, what each row left in its entity, the
\* entity's host among it, that the entity says of each alert what its rows said
\* first, and that entities of one identity are on hosts of rows, and on different
\* ones.
Entity ==
  [what : Scoped \cup Unscoped, device : Names \cup {Unknown}, devices : SUBSET Names,
   alerts : (SUBSET AlertIds) \ {{}}, verdict : Verdicts \cup {Unknown},
   said : [AlertIds -> Verdicts \cup {Unknown}]]

RowKept(n) ==
  LET e == entities[owner[n]]
      r == rows[n]
  IN  /\ r.what = e.what /\ r.alert \in e.alerts /\ r.device \in e.devices \cup {Unknown}
      /\ r.device # Unknown =>
           e.device # Unknown /\ (e.what \in Scoped => HostOf[e.device] = HostOf[r.device])

OfRows(k) ==
  /\ \E n \in 1 .. Len(rows) : rows[n].what = entities[k].what
  /\ entities[k].device # Unknown =>
       \E n \in 1 .. Len(rows) :
         rows[n].what = entities[k].what /\ rows[n].device = entities[k].device

Apart(j, k) ==
  j # k /\ entities[j].what = entities[k].what =>
    /\ entities[j].what \in Scoped
    /\ entities[j].device # Unknown /\ entities[k].device # Unknown
    /\ HostOf[entities[j].device] # HostOf[entities[k].device]

Inductive ==
  /\ TypeOK
  /\ ReadingKnown
  /\ stage # "read" => rows = <<>> /\ entities = <<>>
  /\ entities \in Seq(Entity)
  /\ CutIsTold
  /\ \A n \in 1 .. Len(rows) : RowKept(n)
  /\ \A k \in 1 .. Len(entities) : \A a \in AlertIds : entities[k].said[a] = Said(k, a)
  /\ \A k \in 1 .. Len(entities) : OfRows(k)
  /\ \A j, k \in 1 .. Len(entities) : Apart(j, k)

\* "Cited on several devices: it belongs to none of them" (evidence.py:481): an
\* entity that answers with no device for that reason was cited on two hosts.
SeveralAreSeveral ==
  \A k \in 1 .. Len(entities) :
    entities[k].device # Unknown /\ DeviceOf(entities[k]) = Unknown =>
      \E m, n \in entities[k].devices : HostOf[m] # HostOf[n]

=============================================================================
