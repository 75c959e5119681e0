------------------------------ MODULE Analysis ------------------------------
(***************************************************************************)
(* What a scan makes of the inventory it has stored: analyze_topology and   *)
(* evaluate_custom_rules, which turn the graph (Topology) and the rules     *)
(* (CustomRules) into findings, while other scans write rows and admins     *)
(* edit rules.  A finding is its key: category, title and resource_ref.     *)
(* Scans never close one: the next one that meets it takes it over, the     *)
(* others stay OPEN as the older run left them.                             *)
(***************************************************************************)
EXTENDS Topology, CustomRules

CONSTANTS
  ScheduleNames, NameOf,  \* NameOf[s]: a schedule's name, which need not be unique
  RuleIds,
  RuleNames, RuleName,    \* RuleName[i]: a rule's name, likewise; numbers in the order of the query
  RuleForms,              \* what a rule form may hold, for every account or this one
  InitialRules,           \* the rules to start with
  Fields, ValueOf,        \* ValueOf[f][item]: what path f of an item leads to
  Severities,
  NoRule,
  MaxRuns, MaxOthers      \* bounds: scans, and rows others change or rules they edit

Items == {<<"resource", r>> : r \in Resources} \cup {<<"schedule", s>> : s \in Schedules}

ASSUME AnalysisAssumption ==
  /\ NameOf \in [Schedules -> ScheduleNames]
  /\ RuleName \in [RuleIds -> RuleNames] /\ RuleNames \subseteq Nat
  /\ RuleForms \subseteq [target : {"resource", "schedule"}, field : Fields, operator : Operators,
                          value : Texts, severity : Severities, enabled : BOOLEAN]
  /\ ValueOf \in [Fields -> [Items -> Texts \cup {Missing, Structure}]]
  /\ "none" \notin Severities
  /\ NoRule \notin RuleForms /\ InitialRules \subseteq [RuleIds -> RuleForms \cup {NoRule}]
  /\ MaxRuns \in Nat /\ MaxOthers \in Nat

VARIABLES
  rules,      \* rows of CustomRule
  owner,      \* owner[k]: the scan_run of the OPEN finding k; 0 if there is none
  grade,      \* its severity, of rule findings
  \* the scan
  run,        \* its number
  evaluating, \* the rule objects it has still to evaluate
  \* history
  others,     \* how often others wrote
  moved,      \* rows changed since the scan read its first
  applied     \* the rule objects the scan fetched

findingVars  == <<owner, grade>>
analysisVars == <<rules, findingVars, run, evaluating, others, moved, applied>>
vars         == <<topologyVars, analysisVars>>

OrphanKey(s, ref)   == <<"orphan", NameOf[s], ref>>
HotspotKey(r, fans) == <<"hotspot", r, fans>>
UntriggeredKey(r)   == <<"untriggered", r>>
RuleKey(i, item)    == <<"custom", RuleName[i], item>>
TopologyKeys == {OrphanKey(s, ref) : s \in Schedules, ref \in Internal}
                  \cup {HotspotKey(r, n) : r \in Resources, n \in 1..NumSchedules}
                  \cup {UntriggeredKey(r) : r \in Resources}
RuleKeys == {RuleKey(i, item) : i \in RuleIds, item \in Items}

Init ==
  /\ TopologyInit
  /\ rules \in InitialRules
  /\ owner = [k \in TopologyKeys \cup RuleKeys |-> 0]
  /\ grade = [k \in RuleKeys |-> "none"]
  /\ run = 0 /\ evaluating = {} /\ others = 0 /\ moved = {} /\ applied = {}

-----------------------------------------------------------------------------
(* Others: scans of the same account, and the pages of the rules. *)

ChangedRows == {<<"resource", r>> : r \in {r \in Resources : r \in resources <=> r \notin resources'}}
                 \cup {<<"schedule", s>> : s \in {s \in Schedules : targets'[s] # targets[s]}}

OtherScan ==
  /\ others < MaxOthers /\ others' = others + 1
  /\ ChangeResources \/ ChangeSchedules
  /\ moved' = moved \cup ChangedRows
  /\ UNCHANGED <<rules, findingVars, run, evaluating, applied>>

\* rule_create, rule_edit, rule_delete: the row is written whole.
SaveRule(i, form) ==
  /\ others < MaxOthers /\ others' = others + 1
  /\ rules[i] # form
  /\ rules' = [rules EXCEPT ![i] = form]
  /\ UNCHANGED <<topologyVars, findingVars, run, evaluating, moved, applied>>

-----------------------------------------------------------------------------
(* The scan. *)

BeginRun ==
  /\ run < MaxRuns /\ run' = run + 1
  /\ ListResources
  /\ moved' = {} /\ applied' = {}
  /\ UNCHANGED <<rules, findingVars, evaluating, others>>

Build == BuildStep /\ UNCHANGED analysisVars

\* upsert_finding of the keys: the OPEN row is taken over, or made.
Upsert(keys) == owner' = [k \in DOMAIN owner |-> IF k \in keys THEN run ELSE owner[k]]

\* Mutant: a finding that is OPEN is left as it is.
PersistNew ==
  LET keys == {OrphanKey(s, aim[s]) : s \in orphans}
                \cup {HotspotKey(r, inbound[r]) : r \in hotspots}
                \cup {UntriggeredKey(r) : r \in untriggered}
  IN /\ place = "built" /\ place' = "rules"
     /\ Upsert({k \in keys : owner[k] = 0})
     /\ UNCHANGED <<tables, listed, aim, todo, drawn, edges, inbound, orphans, inactive, hotspots,
                    untriggered, rules, grade, run, evaluating, others, moved, applied>>

\* analyze_topology's three loops, none of which is over the inactive schedules; the title of
\* a hotspot has its fan-in.
Persist ==
  LET keys == {OrphanKey(s, aim[s]) : s \in orphans}
                \cup {HotspotKey(r, inbound[r]) : r \in hotspots}
                \cup {UntriggeredKey(r) : r \in untriggered}
  IN /\ place = "built" /\ place' = "rules"
     /\ Upsert(keys)
     /\ UNCHANGED <<tables, listed, aim, todo, drawn, edges, inbound, orphans, inactive, hotspots,
                    untriggered, rules, grade, run, evaluating, others, moved, applied>>

\* The query for the rules: the enabled ones of every account or of this one.
FetchRules ==
  /\ place = "rules" /\ place' = "evaluate"
  /\ applied' = {<<i, rules[i]>> : i \in {i \in RuleIds : rules[i] # NoRule}}
  /\ evaluating' = {object \in applied' : object[2].enabled}
  /\ UNCHANGED <<tables, listed, aim, todo, drawn, edges, inbound, orphans, inactive, hotspots,
                 untriggered, rules, findingVars, run, others, moved>>

\* The items a rule looks at: the rows there are now.
ItemsOf(target) ==
  IF target = "resource" THEN {<<"resource", r>> : r \in resources}
  ELSE {<<"schedule", s>> : s \in {s \in Schedules : targets[s] # NoRow}}

\* Mutant: a field that is missing is compared as the text of None.
AppliesToMissing(rule, item) ==
  LET found == Resolve(ValueOf[rule.field][item])
  IN IF found = Missing THEN rule.operator \in {"not_equals", "not_contains"}
     ELSE Matches(rule.operator, found, rule.value)

Applies(rule, item) ==
  LET found == Resolve(ValueOf[rule.field][item])
  IN found # Missing /\ Matches(rule.operator, found, rule.value)

\* One rule of the loop, with the object that was fetched; rules go in the order of names.
EvaluateRule ==
  /\ place = "evaluate"
  /\ \E object \in evaluating :
       /\ \A other \in evaluating : RuleName[object[1]] <= RuleName[other[1]]
       /\ LET rule == object[2]
              keys == {RuleKey(object[1], item) :
                         item \in {item \in ItemsOf(rule.target) : Applies(rule, item)}}
          IN /\ Upsert(keys)
             /\ grade' = [k \in RuleKeys |-> IF k \in keys THEN rule.severity ELSE grade[k]]
       /\ evaluating' = evaluating \ {object}
  /\ UNCHANGED <<topologyVars, rules, run, others, moved, applied>>

EndRun ==
  /\ place = "evaluate" /\ evaluating = {}
  /\ place' = "idle"
  /\ UNCHANGED <<tables, listed, aim, todo, drawn, edges, inbound, orphans, inactive, hotspots,
                 untriggered, analysisVars>>

Next ==
  \/ OtherScan \/ BeginRun \/ Build \/ Persist \/ FetchRules \/ EvaluateRule \/ EndRun
  \/ \E i \in RuleIds, form \in RuleForms \cup {NoRule} : SaveRule(i, form)

Spec == Init /\ [][Next]_vars

-----------------------------------------------------------------------------
(* Properties. *)

TypeOK ==
  /\ resources \in SUBSET Resources /\ targets \in Targets
  /\ place \in {"idle", "listing", "resources", "schedules", "built", "rules", "evaluate"}
  /\ drawn \in [Nodes -> Nat] /\ inbound \in [Resources -> Nat]
  /\ rules \in [RuleIds -> RuleForms \cup {NoRule}]
  /\ owner \in [TopologyKeys \cup RuleKeys -> 0..run]
  /\ \A k \in RuleKeys : owner[k] > 0 <=> grade[k] \in Severities
  /\ evaluating \subseteq applied

Analyzed == run > 0 /\ place \in {"rules", "evaluate", "idle"}

\* The target of schedule s by the rows themselves.
StartedBy(s, r) ==
  /\ targets[s] \in Refs /\ r \in resources
  /\ \/ targets[s] = IdOf[r]
     \/ /\ \A q \in resources : IdOf[q] # targets[s]
        /\ r \in Mentions[targets[s]]
        /\ \A q \in resources \cap Mentions[targets[s]] : r <= q

FanIn(r) == Cardinality({s \in Schedules : StartedBy(s, r)})

(***************************************************************************)
(* Three of the four classes of "orphan schedule targets, untriggered       *)
(* workloads, fan-in hotspots, paused schedules" that are "persisted as     *)
(* findings on every scan" (docs/ROADMAP.md:48-49; for the fourth see       *)
(* PausedIsReported): if no other scan wrote meanwhile, the topology        *)
(* findings that name the run are those true of the rows, each orphan,      *)
(* hotspot and untriggered workload, and nothing that was reported earlier  *)
(* and is true no more.  Two schedules of one name and target share their   *)
(* finding.                                                                 *)
(***************************************************************************)
FindingsMatchInventory ==
  Analyzed /\ moved = {} =>
    /\ \A s \in Schedules, ref \in Internal :
         owner[OrphanKey(s, ref)] = run <=>
           \E z \in Schedules : /\ NameOf[z] = NameOf[s] /\ targets[z] = ref
                                /\ \A r \in resources : ~StartedBy(z, r)
    /\ \A r \in Resources, n \in 1..NumSchedules :
         owner[HotspotKey(r, n)] = run <=> r \in resources /\ FanIn(r) = n /\ n >= HotspotFanIn
    /\ \A r \in Resources :
         owner[UntriggeredKey(r)] = run <=> r \in resources \cap Triggered /\ FanIn(r) = 0

(***************************************************************************)
(* "Structural problems are persisted as topology findings on every scan:   *)
(* ... a schedule is disabled or paused" (README.md:143-149): each schedule *)
(* the graph has found inactive is named by a topology finding of the run,  *)
(* whatever that finding says of it.  (Scanners that meet one write a       *)
(* finding of the category schedule, gcp.py:103 and aws.py:125; the page's  *)
(* list of insights names it too, topology.py:278.)                         *)
(***************************************************************************)
NamedBy(k, s) == k[1] = "orphan" /\ k[2] = NameOf[s]

PausedIsReported ==
  Analyzed => \A s \in inactive : \E k \in TopologyKeys : NamedBy(k, s) /\ owner[k] = run

(***************************************************************************)
(* A run reports, for each rule that was enabled when it fetched the rules, *)
(* each item the rule speaks of whose field is a text that satisfies it,    *)
(* and nothing else: not for rules disabled, nor fields that are missing or *)
(* structured, whatever the operator; edits made meanwhile do not count.    *)
(* The severity is that of such a rule: two rules of one name share their   *)
(* findings (rules.py:71-84), and as the rules are ordered by name alone    *)
(* the database may serve either of them last.                              *)
(***************************************************************************)
Fires(object, item) ==
  LET rule == object[2]
      text == ValueOf[rule.field][item]
  IN /\ rule.enabled /\ item[1] = rule.target
     /\ text \in Texts /\ Matches(rule.operator, text, rule.value)

RuleFindingsExact ==
  run > 0 /\ place = "idle" =>
    \A i \in RuleIds, item \in Items \ moved :
      LET present == IF item[1] = "resource" THEN item[2] \in resources ELSE targets[item[2]] # NoRow
          firing  == {object \in applied : RuleName[object[1]] = RuleName[i] /\ Fires(object, item)}
      IN /\ owner[RuleKey(i, item)] = run <=> present /\ firing # {}
         /\ present /\ firing # {} =>
              grade[RuleKey(i, item)] \in {object[2].severity : object \in firing}

(***************************************************************************)
(* Rules that say the opposite (models.py:651-658), whose names are theirs  *)
(* alone.  Of equals and not_equals, and of contains and not_contains, with *)
(* one value, exactly one has reported a text.  Of gt and lt exactly one    *)
(* has if text and value are different numbers, inf being one, and none if  *)
(* either is nan or no number (rules.py:58-63).                             *)
(***************************************************************************)
Opposites == {<<"equals", "not_equals">>, <<"contains", "not_contains">>, <<"gt", "lt">>}

Comparable(text, value) ==
  /\ {NumberOf[text], NumberOf[value]} \subseteq Floats
  /\ NumberOf[text] # NumberOf[value]

OppositesPartition ==
  run > 0 /\ place = "idle" =>
    \A f, g \in applied : \A item \in ItemsOf(f[2].target) \ moved :
      LET text == ValueOf[f[2].field][item]
      IN /\ f[2].enabled /\ g[2].enabled
         /\ \A h, k \in applied :
              h # k /\ {h, k} \cap {f, g} # {} => RuleName[h[1]] # RuleName[k[1]]
         /\ <<f[2].operator, g[2].operator>> \in Opposites
         /\ <<f[2].target, f[2].field, f[2].value>> = <<g[2].target, g[2].field, g[2].value>>
         /\ text \in Texts
         => Cardinality({h \in {f, g} : owner[RuleKey(h[1], item)] = run})
              = IF f[2].operator = "gt" /\ ~Comparable(text, f[2].value) THEN 0 ELSE 1
=============================================================================
