------------------------------ MODULE Topology ------------------------------
(***************************************************************************)
(* build_topology for one account: the graph of its schedules and the       *)
(* resources they start, and what it says of them.  The rows are read by    *)
(* two queries, resources first, and other scans of the account may write   *)
(* between the two.  The loops over the rows are steps, one a row.          *)
(*                                                                          *)
(* Resources are numbered in the order of their query (type, name).  What   *)
(* of a text matters is which resource it is the id of, and whose short     *)
(* name (of four characters or more) occurs in it.                          *)
(***************************************************************************)
EXTENDS Integers, FiniteSets

CONSTANTS
  NumResources, NumSchedules,  \* the rows there may be
  Refs,       \* the texts a schedule may have as its target_ref
  IdOf,       \* IdOf[r]: provider_id
  Mentions,   \* Mentions[ref]: the resources whose short name occurs in ref
  Paused,     \* the schedules whose state is DISABLED or PAUSED
  Internal,   \* the refs whose target_type is in INTERNAL_TARGET_TYPES
  Triggered,  \* the resources whose type is in TRIGGERED_KINDS
  Roles,      \* IAM roles
  RoleOf,     \* RoleOf[r]: metadata["iam_role"], or NoRole
  InitialTargets,  \* the schedules to start with
  NoRole, NoRef, NoRow

Resources == 1..NumResources
Schedules == 1..NumSchedules
Targets == [Schedules -> Refs \cup {NoRef, NoRow}]
HotspotFanIn == 3
NoMatch == 0

ASSUME TopologyAssumption ==
  /\ NumResources \in Nat /\ NumSchedules \in Nat
  /\ IdOf \in [Resources -> Refs]
  /\ \A r, q \in Resources : r # q => IdOf[r] # IdOf[q]
  /\ Mentions \in [Refs -> SUBSET Resources] /\ Internal \subseteq Refs
  /\ Paused \subseteq Schedules
  /\ RoleOf \in [Resources -> Roles \cup {NoRole}]
  /\ InitialTargets \subseteq Targets
  /\ NoRole \notin Roles /\ NoRef \notin Refs /\ NoRow \notin Refs /\ NoRow # NoRef

VARIABLES
  \* the database
  resources,  \* rows of Resource
  targets,    \* targets[s]: target_ref of the row of Schedule, NoRef, or NoRow
  \* build_topology
  place,
  listed,     \* the resources it read
  aim,        \* the targets it read
  todo,       \* rows its loop has still to do
  drawn,      \* drawn[n]: how often node n was put into the graph
  edges,
  inbound,    \* inbound[r]: schedules that start r
  orphans,    \* schedules whose target was not found and should have been
  inactive,   \* schedules that are disabled or paused
  hotspots, untriggered

tables    == <<resources, targets>>
graphVars == <<place, listed, aim, todo, drawn, edges, inbound, orphans, inactive, hotspots,
               untriggered>>
topologyVars == <<tables, graphVars>>

ResourceNode(r)   == <<"resource", r>>
IamNode(role)     == <<"iam", role>>
ScheduleNode(s)   == <<"schedule", s>>
ExternalNode(ref) == <<"external", ref>>
Nodes == {ResourceNode(r) : r \in Resources} \cup {IamNode(role) : role \in Roles}
           \cup {ScheduleNode(s) : s \in Schedules} \cup {ExternalNode(ref) : ref \in Refs}

TopologyInit ==
  /\ resources \in SUBSET Resources
  /\ targets \in InitialTargets
  /\ place = "idle"
  /\ listed = {} /\ aim = [s \in Schedules |-> NoRow] /\ todo = {}
  /\ drawn = [n \in Nodes |-> 0] /\ edges = {}
  /\ inbound = [r \in Resources |-> 0]
  /\ orphans = {} /\ inactive = {} /\ hotspots = {} /\ untriggered = {}

-----------------------------------------------------------------------------
(* Another scan of the account, that adds a row or deletes a stale one. *)

ChangeResources ==
  /\ \E r \in Resources : resources' \in {resources \cup {r}, resources \ {r}}
  /\ resources' # resources
  /\ UNCHANGED <<targets, graphVars>>

ChangeSchedules ==
  /\ \E s \in Schedules, ref \in Refs \cup {NoRef, NoRow} : targets' = [targets EXCEPT ![s] = ref]
  /\ targets' # targets
  /\ UNCHANGED <<resources, graphVars>>

-----------------------------------------------------------------------------
(* _add_account. *)

\* The graph starts empty; account.resources.all().
ListResources ==
  /\ place = "idle"
  /\ listed' = resources
  /\ drawn' = [n \in Nodes |-> 0] /\ edges' = {}
  /\ inbound' = [r \in Resources |-> 0]
  /\ orphans' = {} /\ inactive' = {} /\ hotspots' = {} /\ untriggered' = {}
  /\ aim' = [s \in Schedules |-> NoRow] /\ todo' = {}
  /\ place' = "listing"
  /\ UNCHANGED tables

\* account.schedules.all().
ListSchedules ==
  /\ place = "listing"
  /\ aim' = targets
  /\ todo' = listed
  /\ place' = "resources"
  /\ UNCHANGED <<tables, listed, drawn, edges, inbound, orphans, inactive, hotspots, untriggered>>

Draw(graph, n)     == [graph EXCEPT ![n] = @ + 1]
DrawOnce(graph, n) == IF graph[n] = 0 THEN Draw(graph, n) ELSE graph

\* The rows are taken in their order.
NextRow(row) == row \in todo /\ \A other \in todo : row <= other

\* Mutant: every resource draws its role.
AddResourceAndRole ==
  /\ place = "resources"
  /\ \E r \in todo :
       /\ NextRow(r)
       /\ todo' = todo \ {r}
       /\ LET withResource == Draw(drawn, ResourceNode(r))
          IN IF RoleOf[r] = NoRole
             THEN drawn' = withResource /\ UNCHANGED edges
             ELSE /\ drawn' = Draw(withResource, IamNode(RoleOf[r]))
                  /\ edges' = edges \cup {<<ResourceNode(r), IamNode(RoleOf[r])>>}
  /\ UNCHANGED <<tables, place, listed, aim, inbound, orphans, inactive, hotspots, untriggered>>

\* A resource, and the role it has, which others may share.
AddResource ==
  /\ place = "resources"
  /\ \E r \in todo :
       /\ NextRow(r)
       /\ todo' = todo \ {r}
       /\ LET withResource == Draw(drawn, ResourceNode(r))
          IN IF RoleOf[r] = NoRole
             THEN drawn' = withResource /\ UNCHANGED edges
             ELSE /\ drawn' = DrawOnce(withResource, IamNode(RoleOf[r]))
                  /\ edges' = edges \cup {<<ResourceNode(r), IamNode(RoleOf[r])>>}
  /\ UNCHANGED <<tables, place, listed, aim, inbound, orphans, inactive, hotspots, untriggered>>

ResourcesAdded ==
  /\ place = "resources" /\ todo = {}
  /\ todo' = {s \in Schedules : aim[s] # NoRow}
  /\ place' = "schedules"
  /\ UNCHANGED <<tables, listed, aim, drawn, edges, inbound, orphans, inactive, hotspots,
                 untriggered>>

\* Mutant: a name in the ref is looked for first.
MatchResourceByName(ref) ==
  LET named == Mentions[ref] \cap listed
      exact == {r \in listed : IdOf[r] = ref}
  IN IF named # {} THEN CHOOSE r \in named : \A q \in named : r <= q
     ELSE IF exact # {} THEN CHOOSE r \in exact : TRUE ELSE NoMatch

\* _match_resource: by id, else the first resource named in the ref.
MatchResource(ref) ==
  LET exact == {r \in listed : IdOf[r] = ref}
      named == Mentions[ref] \cap listed
  IN IF exact # {} THEN CHOOSE r \in exact : TRUE
     ELSE IF named # {} THEN CHOOSE r \in named : \A q \in named : r <= q ELSE NoMatch

\* What is said of every schedule, whatever its target.
AddInactive(s) == inactive' = IF s \in Paused THEN inactive \cup {s} ELSE inactive

\* A schedule without a target is a node and no more.
AddIdleSchedule ==
  /\ place = "schedules"
  /\ \E s \in todo :
       /\ NextRow(s) /\ aim[s] = NoRef
       /\ AddInactive(s)
       /\ todo' = todo \ {s}
       /\ drawn' = Draw(drawn, ScheduleNode(s))
  /\ UNCHANGED <<tables, place, listed, aim, edges, inbound, orphans, hotspots, untriggered>>

AddMatchedSchedule ==
  /\ place = "schedules"
  /\ \E s \in todo :
       /\ NextRow(s) /\ aim[s] # NoRef
       /\ AddInactive(s)
       /\ LET r == MatchResource(aim[s])
          IN /\ r # NoMatch
             /\ inbound' = [inbound EXCEPT ![r] = @ + 1]
             /\ edges' = edges \cup {<<ScheduleNode(s), ResourceNode(r)>>}
       /\ todo' = todo \ {s}
       /\ drawn' = Draw(drawn, ScheduleNode(s))
  /\ UNCHANGED <<tables, place, listed, aim, orphans, hotspots, untriggered>>

\* An external node a target_ref, shared by the schedules that have it.
AddUnmatchedSchedule ==
  /\ place = "schedules"
  /\ \E s \in todo :
       /\ NextRow(s) /\ aim[s] # NoRef
       /\ AddInactive(s)
       /\ MatchResource(aim[s]) = NoMatch
       /\ orphans' = IF aim[s] \in Internal THEN orphans \cup {s} ELSE orphans
       /\ drawn' = DrawOnce(Draw(drawn, ScheduleNode(s)), ExternalNode(aim[s]))
       /\ edges' = edges \cup {<<ScheduleNode(s), ExternalNode(aim[s])>>}
       /\ todo' = todo \ {s}
  /\ UNCHANGED <<tables, place, listed, aim, inbound, hotspots, untriggered>>

\* The last loop.
Classify ==
  /\ place = "schedules" /\ todo = {}
  /\ hotspots' = {r \in listed : inbound[r] >= HotspotFanIn}
  /\ untriggered' = {r \in listed \cap Triggered : inbound[r] = 0}
  /\ place' = "built"
  /\ UNCHANGED <<tables, listed, aim, todo, drawn, edges, inbound, orphans, inactive>>

BuildStep ==
  \/ ListSchedules \/ AddResource \/ ResourcesAdded \/ AddIdleSchedule \/ AddMatchedSchedule
  \/ AddUnmatchedSchedule \/ Classify

-----------------------------------------------------------------------------
(* Properties. *)

(***************************************************************************)
(* The chart is well-formed (topology.py:80-170, drawn by render_mermaid):  *)
(* no node is declared twice although roles and external targets are        *)
(* shared, and both ends of every edge are declared, although the rows of   *)
(* the two queries need not fit together.                                   *)
(***************************************************************************)
GraphWellFormed ==
  /\ \A n \in Nodes : drawn[n] <= 1
  /\ \A e \in edges : drawn[e[1]] = 1 /\ drawn[e[2]] = 1

\* The schedules whose target is r: by id, or because r is the first resource named in a
\* ref that is nobody's id.
Starts(s, r) ==
  /\ aim[s] \in Refs /\ r \in listed
  /\ \/ aim[s] = IdOf[r]
     \/ /\ \A q \in listed : IdOf[q] # aim[s]
        /\ r \in Mentions[aim[s]]
        /\ \A q \in listed \cap Mentions[aim[s]] : r <= q

\* The loops are over.
Built == place \notin {"idle", "listing", "resources", "schedules"}

(***************************************************************************)
(* Once built, the graph counts for every resource exactly the schedules    *)
(* that start it, has an edge for each of them, and calls a schedule an     *)
(* orphan exactly when it starts nothing and its target should be known,    *)
(* and inactive exactly when it is disabled or paused, whatever it starts.  *)
(***************************************************************************)
GraphIsExact ==
  Built =>
    /\ \A r \in listed : inbound[r] = Cardinality({s \in Schedules : Starts(s, r)})
    /\ \A s \in Schedules, r \in listed :
         Starts(s, r) <=> <<ScheduleNode(s), ResourceNode(r)>> \in edges
    /\ orphans = {s \in Schedules : /\ aim[s] \in Internal \cap Refs
                                    /\ \A r \in listed : ~Starts(s, r)}
    /\ inactive = {s \in Paused : aim[s] # NoRow}
=============================================================================
