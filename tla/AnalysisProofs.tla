--------------------------- MODULE AnalysisProofs ---------------------------
(***************************************************************************)
(* The graph of an account (Topology) and what a scan makes of it and of    *)
(* the rules (Analysis), for any inventory, any rules and whatever others   *)
(* write meanwhile.                                                         *)
(***************************************************************************)
EXTENDS Analysis, FiniteSetTheorems, TLAPS

-----------------------------------------------------------------------------
(* Matching: _match_resource on the resources L. *)

MatchIn(L, ref) ==
  LET exact == {r \in L : IdOf[r] = ref}
      named == Mentions[ref] \cap L
  IN IF exact # {} THEN CHOOSE r \in exact : TRUE
     ELSE IF named # {} THEN CHOOSE r \in named : \A q \in named : r <= q ELSE NoMatch

LEMMA MatchIs == \A ref : MatchResource(ref) = MatchIn(listed, ref)
  BY DEF MatchResource, MatchIn

\* Numbers have a first one: of the initial segments they end, one is within all others.
LEMMA Least ==
  ASSUME NEW S, S \subseteq Nat, S # {}
  PROVE  \E x \in S : \A y \in S : x <= y
<1> DEFINE T == {0..x : x \in S}
<1>1. T \subseteq FiniteSubsetsOf(Nat) /\ T # {}
  <2>1. ASSUME NEW x \in S PROVE IsFiniteSet(0..x) /\ 0..x \subseteq Nat
    BY <2>1, FS_Interval
  <2> QED
    BY <2>1 DEF FiniteSubsetsOf
<1>2. IsWellFoundedOn(StrictSubsetOrdering(Nat), FiniteSubsetsOf(Nat))
  BY FS_StrictSubsetOrderingWellFounded
<1>3. \E m \in T : \A t \in T : ~(<<t, m>> \in StrictSubsetOrdering(Nat))
  <2> HIDE DEF T
  <2> QED
    BY <1>1, <1>2, WFMin, Zenon
<1>4. PICK x \in S : \A y \in S : ~(<<0..y, 0..x>> \in StrictSubsetOrdering(Nat))
  BY <1>3
<1>5. ASSUME NEW y \in S, y < x PROVE FALSE
  <2>1. 0..y \subseteq 0..x /\ x \in 0..x /\ x \notin 0..y
    BY <1>5
  <2>2. 0..y \in SUBSET Nat /\ 0..x \in SUBSET Nat
    OBVIOUS
  <2>3. 0..y # 0..x
    BY <2>1
  <2>4. <<0..y, 0..x>> \in StrictSubsetOrdering(Nat)
    BY <2>1, <2>2, <2>3 DEF StrictSubsetOrdering
  <2> QED
    BY <2>4, <1>4
<1> QED
  BY <1>5

\* r is what a ref names among the resources L.
Named(L, ref, r) ==
  /\ r \in L
  /\ \/ ref = IdOf[r]
     \/ /\ \A q \in L : IdOf[q] # ref
        /\ r \in Mentions[ref]
        /\ \A q \in L \cap Mentions[ref] : r <= q

\* A ref matches at most one resource, and matches one whenever it names one.
LEMMA Matching ==
  ASSUME NEW L \in SUBSET Resources, NEW ref \in Refs
  PROVE  /\ MatchIn(L, ref) \in L \cup {NoMatch}
         /\ \A r \in L : Named(L, ref, r) <=> MatchIn(L, ref) = r
         /\ NoMatch \notin L
<1> DEFINE exact == {r \in L : IdOf[r] = ref}
           named == Mentions[ref] \cap L
<1> USE TopologyAssumption
<1>1. \A r, q \in L : IdOf[r] = IdOf[q] => r = q
  BY DEF Resources
<1>2. L \subseteq Nat \ {0} /\ named \subseteq L
  BY DEF Resources
<1>3. MatchIn(L, ref) = IF exact # {} THEN CHOOSE r \in exact : TRUE
                        ELSE IF named # {} THEN CHOOSE r \in named : \A q \in named : r <= q
                        ELSE NoMatch
  BY DEF MatchIn
<1>4. CASE exact # {}
  <2>1. PICK x \in exact : TRUE
    BY <1>4
  <2>2. \A y \in exact : y = x
    BY <1>1, <2>1
  <2>3. (CHOOSE r \in exact : TRUE) \in exact
    BY <1>4
  <2>4. MatchIn(L, ref) = x
    BY <1>3, <1>4, <2>2, <2>3
  <2>5. \A r \in L : Named(L, ref, r) <=> x = r
    BY <2>1, <2>2 DEF Named
  <2> QED
    BY <2>1, <2>4, <2>5, <1>2 DEF NoMatch
<1>5. CASE exact = {} /\ named # {}
  <2>1. \E x \in named : \A q \in named : x <= q
    BY <1>2, <1>5, Least
  <2>2. PICK x \in named : MatchIn(L, ref) = x /\ \A q \in named : x <= q
    BY <1>3, <1>5, <2>1
  <2>3. \A y \in named : (\A q \in named : y <= q) => y = x
    BY <1>2, <2>2
  <2>4. \A r \in L : Named(L, ref, r) <=> r \in named /\ \A q \in named : r <= q
    BY <1>5 DEF Named
  <2> QED
    BY <1>2, <2>2, <2>3, <2>4 DEF NoMatch
<1>6. CASE exact = {} /\ named = {}
  BY <1>2, <1>3, <1>6 DEF Named, NoMatch
<1> QED
  BY <1>4, <1>5, <1>6

-----------------------------------------------------------------------------
(* The graph so far: what the rows that are done have put into it. *)

Rows == {s \in Schedules : aim[s] # NoRow}

\* No row is left to do.
Complete == place \notin {"listing", "resources", "schedules"}

DoneResources ==
  IF place = "listing" THEN {} ELSE IF place = "resources" THEN listed \ todo ELSE listed
DoneSchedules ==
  IF place \in {"listing", "resources"} THEN {}
  ELSE IF place = "schedules" THEN Rows \ todo ELSE Rows

Target(s)    == MatchIn(listed, aim[s])
Aimed(S)     == {s \in S : aim[s] \in Refs}
Matched(S)   == {s \in Aimed(S) : Target(s) # NoMatch}
Unmatched(S) == {s \in Aimed(S) : Target(s) = NoMatch}

GraphTypes ==
  /\ resources \in SUBSET Resources /\ targets \in Targets
  /\ place \in {"idle", "listing", "resources", "schedules", "built", "rules", "evaluate"}
  /\ listed \in SUBSET Resources /\ aim \in Targets
  /\ drawn \in [Nodes -> {0, 1}] /\ inbound \in [Resources -> Nat]
  /\ place = "resources" => todo \subseteq listed
  /\ place = "schedules" => todo \subseteq Rows

\* Each node is drawn by the rows that are done and have it, and so is each edge.
NodesDrawn ==
  /\ \A r \in Resources : drawn[ResourceNode(r)] = 1 <=> r \in DoneResources
  /\ \A role \in Roles : drawn[IamNode(role)] = 1 <=> \E r \in DoneResources : RoleOf[r] = role
  /\ \A s \in Schedules : drawn[ScheduleNode(s)] = 1 <=> s \in DoneSchedules
  /\ \A ref \in Refs : drawn[ExternalNode(ref)] = 1
                         <=> \E s \in Unmatched(DoneSchedules) : aim[s] = ref

RoleEdges(R)     == {<<ResourceNode(r), IamNode(RoleOf[r])>> : r \in {r \in R : RoleOf[r] # NoRole}}
StartEdges(S)    == {<<ScheduleNode(s), ResourceNode(Target(s))>> : s \in Matched(S)}
ExternalEdges(S) == {<<ScheduleNode(s), ExternalNode(aim[s])>> : s \in Unmatched(S)}

EdgesDrawn ==
  edges = RoleEdges(DoneResources) \cup StartEdges(DoneSchedules) \cup ExternalEdges(DoneSchedules)

Starters(S, r) == {s \in Matched(S) : Target(s) = r}

Counted ==
  /\ \A r \in listed : inbound[r] = Cardinality(Starters(DoneSchedules, r))
  /\ orphans = {s \in Unmatched(DoneSchedules) : aim[s] \in Internal}
  /\ inactive = DoneSchedules \cap Paused

Classified ==
  Complete => /\ hotspots = {r \in listed : inbound[r] >= HotspotFanIn}
           /\ untriggered = {r \in listed \cap Triggered : inbound[r] = 0}

GraphInv == GraphTypes /\ NodesDrawn /\ EdgesDrawn /\ Counted /\ Classified

\* Declaring a node that is new, or one that may be shared.
LEMMA Declares ==
  ASSUME NEW graph \in [Nodes -> {0, 1}], NEW n \in Nodes
  PROVE  /\ DrawOnce(graph, n) = [graph EXCEPT ![n] = 1]
         /\ graph[n] = 0 => Draw(graph, n) = [graph EXCEPT ![n] = 1]
<1>1. graph[n] = 0 => Draw(graph, n) = [graph EXCEPT ![n] = 1]
  BY DEF Draw
<1>2. graph[n] # 0 => graph = [graph EXCEPT ![n] = 1]
  BY graph[n] \in {0, 1}
<1> QED
  BY <1>1, <1>2 DEF DrawOnce

LEMMA SchedulesFinite == \A S : S \subseteq Schedules => IsFiniteSet(S) /\ Cardinality(S) \in Nat
<1>1. IsFiniteSet(Schedules)
  BY TopologyAssumption, FS_Interval DEF Schedules
<1> QED
  BY <1>1, FS_Subset, FS_CardinalityType

\* A step that leaves the loops alone.
LEMMA GraphRests ==
  ASSUME GraphInv, resources' \in SUBSET Resources, targets' \in Targets,
         place' = place \/ (Complete /\ place' \in {"idle", "built", "rules", "evaluate"}),
         UNCHANGED <<listed, aim, todo, drawn, edges, inbound, orphans, inactive, hotspots,
                     untriggered>>
  PROVE  GraphInv'
<1> USE DEF GraphInv, Complete
<1>1. DoneResources' = DoneResources /\ DoneSchedules' = DoneSchedules /\ Rows' = Rows
  BY DEF DoneResources, DoneSchedules, Rows
<1>2. \A S : Unmatched(S)' = Unmatched(S) /\ Matched(S)' = Matched(S)
  BY DEF Unmatched, Matched, Aimed, Target
<1>3. GraphTypes'
  BY <1>1 DEF GraphTypes
<1>4. NodesDrawn'
  BY <1>1, <1>2 DEF NodesDrawn, Unmatched, Aimed, Target
<1>5. EdgesDrawn'
  BY <1>1, <1>2 DEF EdgesDrawn, RoleEdges, StartEdges, ExternalEdges, Unmatched, Matched, Aimed,
     Target
<1>6. Counted'
  BY <1>1, <1>2 DEF Counted, Starters, Unmatched, Matched, Aimed, Target
<1>7. Classified'
  BY DEF Classified
<1> QED
  BY <1>3, <1>4, <1>5, <1>6, <1>7

\* The graph starts empty.
LEMMA GraphStarts ==
  ASSUME GraphTypes, ListResources
  PROVE  GraphInv'
<1> USE TopologyAssumption DEF ListResources, tables
<1>1. DoneResources' = {} /\ DoneSchedules' = {}
  BY DEF DoneResources, DoneSchedules
<1>2. GraphTypes'
  BY DEF GraphTypes, Targets
<1>3. NodesDrawn'
  BY <1>1 DEF NodesDrawn, Unmatched, Aimed, Nodes
<1>4. EdgesDrawn'
  BY <1>1 DEF EdgesDrawn, RoleEdges, StartEdges, ExternalEdges, Unmatched, Matched, Aimed
<1>5. Counted'
  BY <1>1, FS_EmptySet DEF Counted, Starters, Matched, Unmatched, Aimed, GraphTypes
<1> QED
  BY <1>2, <1>3, <1>4, <1>5 DEF GraphInv, Classified, Complete

LEMMA SchedulesListed ==
  ASSUME GraphInv, ListSchedules
  PROVE  GraphInv'
<1> USE DEF ListSchedules, tables, GraphInv
<1>1. DoneResources = {} /\ DoneSchedules = {} /\ DoneResources' = {} /\ DoneSchedules' = {}
  BY DEF DoneResources, DoneSchedules
<1>2. GraphTypes'
  BY DEF GraphTypes
<1>3. NodesDrawn'
  BY <1>1 DEF NodesDrawn, Unmatched, Aimed
<1>4. EdgesDrawn'
  BY <1>1 DEF EdgesDrawn, RoleEdges, StartEdges, ExternalEdges, Unmatched, Matched, Aimed
<1>5. Counted'
  BY <1>1, FS_EmptySet DEF Counted, Starters, Matched, Unmatched, Aimed
<1> QED
  BY <1>2, <1>3, <1>4, <1>5 DEF Classified, Complete

LEMMA ResourceAdded ==
  ASSUME GraphInv, AddResource
  PROVE  GraphInv'
<1> USE TopologyAssumption DEF GraphInv
<1>1. PICK r \in todo :
        /\ todo' = todo \ {r}
        /\ LET withResource == Draw(drawn, ResourceNode(r))
           IN IF RoleOf[r] = NoRole
              THEN drawn' = withResource /\ UNCHANGED edges
              ELSE /\ drawn' = DrawOnce(withResource, IamNode(RoleOf[r]))
                   /\ edges' = edges \cup {<<ResourceNode(r), IamNode(RoleOf[r])>>}
  BY DEF AddResource
<1>2. /\ place = "resources"
      /\ UNCHANGED <<resources, targets, place, listed, aim, inbound, orphans, inactive, hotspots,
                     untriggered>>
  BY DEF AddResource, tables
<1>3. r \in listed /\ r \in Resources /\ r \notin DoneResources
  BY <1>1, <1>2 DEF GraphTypes, DoneResources
<1>4. DoneResources' = DoneResources \cup {r} /\ DoneSchedules = {} /\ DoneSchedules' = {}
  BY <1>1, <1>2, <1>3 DEF DoneResources, DoneSchedules, GraphTypes
<1>5. ResourceNode(r) \in Nodes /\ (RoleOf[r] # NoRole => IamNode(RoleOf[r]) \in Nodes)
  BY <1>3 DEF Nodes
<1>6. Draw(drawn, ResourceNode(r)) = [drawn EXCEPT ![ResourceNode(r)] = 1]
  BY <1>3, <1>5, Declares DEF GraphTypes, NodesDrawn
<1>7. drawn' = IF RoleOf[r] = NoRole THEN [drawn EXCEPT ![ResourceNode(r)] = 1]
               ELSE [drawn EXCEPT ![ResourceNode(r)] = 1, ![IamNode(RoleOf[r])] = 1]
  BY <1>1, <1>5, <1>6, Declares DEF GraphTypes
<1>8. GraphTypes'
  BY <1>1, <1>2, <1>5, <1>7 DEF GraphTypes
<1>9. NodesDrawn'
  <2>1. \A q \in Resources : drawn'[ResourceNode(q)] = 1 <=> q \in DoneResources'
    BY <1>3, <1>4, <1>5, <1>7 DEF NodesDrawn, GraphTypes, Nodes, ResourceNode, IamNode
  <2>2. \A role \in Roles :
          drawn'[IamNode(role)] = 1 <=> \E q \in DoneResources' : RoleOf[q] = role
    <3> SUFFICES ASSUME NEW role \in Roles
                 PROVE  drawn'[IamNode(role)] = 1 <=> \E q \in DoneResources' : RoleOf[q] = role
      OBVIOUS
    <3>1. drawn'[IamNode(role)] = 1 <=> RoleOf[r] = role \/ drawn[IamNode(role)] = 1
      <4>1. IamNode(role) \in Nodes /\ IamNode(role) # ResourceNode(r) /\ role # NoRole
        BY DEF Nodes, IamNode, ResourceNode
      <4>2. IamNode(role) = IamNode(RoleOf[r]) <=> role = RoleOf[r]
        BY DEF IamNode
      <4> QED
        BY <1>5, <1>7, <4>1, <4>2 DEF GraphTypes
    <3>2. drawn[IamNode(role)] = 1 <=> \E q \in DoneResources : RoleOf[q] = role
      BY DEF NodesDrawn
    <3> QED
      BY <1>4, <3>1, <3>2
  <2>3. \A s \in Schedules : drawn'[ScheduleNode(s)] = 1 <=> s \in DoneSchedules'
    BY <1>4, <1>5, <1>7 DEF NodesDrawn, GraphTypes, Nodes, ResourceNode, IamNode, ScheduleNode
  <2>4. \A ref \in Refs : drawn'[ExternalNode(ref)] = 1
                            <=> \E s \in Unmatched(DoneSchedules)' : aim'[s] = ref
    BY <1>2, <1>4, <1>5, <1>7 DEF NodesDrawn, GraphTypes, Nodes, ResourceNode, IamNode,
       ExternalNode, Unmatched, Aimed
  <2> QED
    BY <2>1, <2>2, <2>3, <2>4 DEF NodesDrawn
<1>10. EdgesDrawn'
  <2>1. RoleEdges(DoneResources)' = IF RoleOf[r] = NoRole THEN RoleEdges(DoneResources)
            ELSE RoleEdges(DoneResources) \cup {<<ResourceNode(r), IamNode(RoleOf[r])>>}
    BY <1>4 DEF RoleEdges
  <2>2. /\ StartEdges(DoneSchedules) = {} /\ ExternalEdges(DoneSchedules) = {}
        /\ StartEdges(DoneSchedules)' = {} /\ ExternalEdges(DoneSchedules)' = {}
    BY <1>4 DEF StartEdges, ExternalEdges, Matched, Unmatched, Aimed
  <2> QED
    BY <1>1, <2>1, <2>2 DEF EdgesDrawn
<1>11. Counted'
  BY <1>2, <1>4 DEF Counted, Starters, Matched, Unmatched, Aimed
<1> QED
  BY <1>2, <1>8, <1>9, <1>10, <1>11 DEF Classified, Complete

LEMMA AllResourcesAdded ==
  ASSUME GraphInv, ResourcesAdded
  PROVE  GraphInv'
<1> USE DEF ResourcesAdded, tables, GraphInv
<1>1. DoneResources' = DoneResources /\ DoneSchedules = {} /\ DoneSchedules' = {}
  BY DEF DoneResources, DoneSchedules, Rows
<1>2. GraphTypes'
  BY DEF GraphTypes, Rows
<1>3. NodesDrawn'
  BY <1>1 DEF NodesDrawn, Unmatched, Aimed
<1>4. EdgesDrawn'
  BY <1>1 DEF EdgesDrawn, RoleEdges, StartEdges, ExternalEdges, Unmatched, Matched, Aimed
<1>5. Counted'
  BY <1>1 DEF Counted, Starters, Matched, Unmatched, Aimed
<1> QED
  BY <1>2, <1>3, <1>4, <1>5 DEF Classified, Complete

\* One schedule more is done.
ScheduleDone(s) ==
  /\ place = "schedules" /\ s \in todo
  /\ todo' = todo \ {s}
  /\ UNCHANGED <<tables, place, listed, aim, hotspots, untriggered>>

LEMMA OneScheduleMore ==
  ASSUME GraphInv, NEW s, ScheduleDone(s)
  PROVE  /\ s \in Rows /\ s \in Schedules /\ s \notin DoneSchedules
         /\ DoneSchedules' = DoneSchedules \cup {s} /\ DoneResources' = DoneResources
         /\ DoneSchedules \subseteq Schedules /\ Rows' = Rows
         /\ Matched({s}) \in {{}, {s}} /\ Unmatched({s}) \in {{}, {s}}
         /\ Matched(DoneSchedules)' = Matched(DoneSchedules) \cup Matched({s})
         /\ Unmatched(DoneSchedules)' = Unmatched(DoneSchedules) \cup Unmatched({s})
         /\ RoleEdges(DoneResources)' = RoleEdges(DoneResources)
         /\ StartEdges(DoneSchedules)' = StartEdges(DoneSchedules) \cup StartEdges({s})
         /\ ExternalEdges(DoneSchedules)' = ExternalEdges(DoneSchedules) \cup ExternalEdges({s})
<1> USE DEF ScheduleDone
<1>1. s \in Rows /\ s \in Schedules /\ s \notin DoneSchedules
  BY DEF GraphInv, GraphTypes, Rows, DoneSchedules
<1>2. /\ DoneSchedules' = DoneSchedules \cup {s} /\ DoneResources' = DoneResources
      /\ DoneSchedules \subseteq Schedules /\ Rows' = Rows
  BY <1>1 DEF DoneSchedules, DoneResources, Rows
<1>3. Matched({s}) \in {{}, {s}} /\ Unmatched({s}) \in {{}, {s}}
  <2>1. Matched({s}) \subseteq {s} /\ Unmatched({s}) \subseteq {s}
    BY DEF Matched, Unmatched, Aimed
  <2> QED
    BY <2>1
<1>4. /\ Matched(DoneSchedules)' = Matched(DoneSchedules) \cup Matched({s})
      /\ Unmatched(DoneSchedules)' = Unmatched(DoneSchedules) \cup Unmatched({s})
  BY <1>2 DEF Matched, Unmatched, Aimed, Target
<1>5. RoleEdges(DoneResources)' = RoleEdges(DoneResources)
  BY <1>2 DEF RoleEdges
<1>6. /\ StartEdges(DoneSchedules)' = StartEdges(DoneSchedules) \cup StartEdges({s})
      /\ ExternalEdges(DoneSchedules)' = ExternalEdges(DoneSchedules) \cup ExternalEdges({s})
  BY <1>4 DEF StartEdges, ExternalEdges, Target
<1> QED
  BY <1>1, <1>2, <1>3, <1>4, <1>5, <1>6

\* It has drawn itself, the external node it points to, an edge, and counts for its resource.
LEMMA ScheduleAdded ==
  ASSUME GraphInv, NEW s, ScheduleDone(s),
         drawn' = IF Unmatched({s}) = {} THEN [drawn EXCEPT ![ScheduleNode(s)] = 1]
                  ELSE [drawn EXCEPT ![ScheduleNode(s)] = 1, ![ExternalNode(aim[s])] = 1],
         edges' = edges \cup StartEdges({s}) \cup ExternalEdges({s}),
         inbound' = IF Matched({s}) = {} THEN inbound
                    ELSE [inbound EXCEPT ![Target(s)] = @ + 1],
         orphans' = orphans \cup {z \in Unmatched({s}) : aim[z] \in Internal},
         AddInactive(s)
  PROVE  GraphInv'
<1> USE TopologyAssumption DEF GraphInv
<1>1. UNCHANGED <<tables, place, listed, aim, hotspots, untriggered>> /\ place = "schedules"
  BY DEF ScheduleDone
<1>2. s \in Schedules /\ ScheduleNode(s) \in Nodes
  BY OneScheduleMore DEF Nodes
<1>3. Unmatched({s}) # {} => aim[s] \in Refs /\ ExternalNode(aim[s]) \in Nodes
  BY DEF Unmatched, Aimed, Nodes
<1>4. Matched({s}) # {} => aim[s] \in Refs /\ Target(s) \in listed /\ Target(s) \in Resources
  BY Matching DEF Matched, Aimed, Target, GraphTypes
<1>5. GraphTypes'
  <2>1. drawn' \in [Nodes -> {0, 1}]
    BY <1>2, <1>3 DEF GraphTypes
  <2>2. inbound' \in [Resources -> Nat]
    <3>1. inbound \in [Resources -> Nat]
      BY DEF GraphTypes
    <3>2. CASE Matched({s}) = {}
      BY <3>1, <3>2
    <3>3. CASE Matched({s}) # {}
      <4>1. Target(s) \in Resources /\ inbound[Target(s)] + 1 \in Nat
        <5>1. Target(s) \in Resources
          BY <1>4, <3>3
        <5> HIDE TopologyAssumption DEF GraphInv
        <5> QED
          BY <3>1, <5>1
      <4> QED
        BY <3>1, <3>3, <4>1
    <3> QED
      BY <3>2, <3>3
  <2>3. todo' \subseteq Rows'
    BY <1>1, OneScheduleMore DEF ScheduleDone, GraphTypes
  <2> QED
    BY <1>1, <2>1, <2>2, <2>3 DEF GraphTypes, tables
<1>6. NodesDrawn'
  <2>1. \A r \in Resources : /\ ResourceNode(r) \in Nodes
                            /\ drawn'[ResourceNode(r)] = drawn[ResourceNode(r)]
    BY <1>2, <1>3 DEF GraphTypes, Nodes, ResourceNode, ScheduleNode, ExternalNode
  <2>2. \A role \in Roles : IamNode(role) \in Nodes /\ drawn'[IamNode(role)] = drawn[IamNode(role)]
    BY <1>2, <1>3 DEF GraphTypes, Nodes, IamNode, ScheduleNode, ExternalNode
  <2>3. ASSUME NEW z \in Schedules
        PROVE  drawn'[ScheduleNode(z)] = 1 <=> z = s \/ drawn[ScheduleNode(z)] = 1
    <3>1. ScheduleNode(z) \in Nodes /\ (ScheduleNode(z) = ScheduleNode(s) <=> z = s)
      BY DEF Nodes, ScheduleNode
    <3>2. ScheduleNode(z) # ExternalNode(aim[s])
      BY DEF ScheduleNode, ExternalNode
    <3> QED
      BY <1>2, <1>3, <3>1, <3>2 DEF GraphTypes
  <2>4. ASSUME NEW ref \in Refs
        PROVE  drawn'[ExternalNode(ref)] = 1
                 <=> drawn[ExternalNode(ref)] = 1 \/ (Unmatched({s}) # {} /\ aim[s] = ref)
    <3>1. ExternalNode(ref) \in Nodes /\ (ExternalNode(ref) = ExternalNode(aim[s]) <=> ref = aim[s])
      BY DEF Nodes, ExternalNode
    <3>2. ExternalNode(ref) # ScheduleNode(s)
      BY DEF ScheduleNode, ExternalNode
    <3> QED
      BY <1>2, <1>3, <3>1, <3>2 DEF GraphTypes
  <2>5. \A z \in Schedules : drawn'[ScheduleNode(z)] = 1 <=> z \in DoneSchedules'
    <3>1. \A z \in Schedules : z \in DoneSchedules' <=> z = s \/ z \in DoneSchedules
      <4>1. DoneSchedules' = DoneSchedules \cup {s}
        BY OneScheduleMore
      <4> QED
        BY <4>1
    <3> QED
      BY <2>3, <3>1 DEF NodesDrawn
  <2>6. ASSUME NEW ref \in Refs
        PROVE  drawn'[ExternalNode(ref)] = 1 <=> \E z \in Unmatched(DoneSchedules)' : aim'[z] = ref
    <3>1. Unmatched(DoneSchedules)' = Unmatched(DoneSchedules) \cup Unmatched({s})
      BY OneScheduleMore
    <3>2. Unmatched({s}) \in {{}, {s}}
      BY OneScheduleMore
    <3> QED
      BY <1>1, <2>4, <3>1, <3>2 DEF NodesDrawn
  <2> QED
    BY <2>1, <2>2, <2>5, <2>6, OneScheduleMore, Zenon DEF NodesDrawn
<1>7. EdgesDrawn'
  BY OneScheduleMore DEF EdgesDrawn
<1>8. Counted'
  <2>1. ASSUME NEW r \in listed
        PROVE  inbound'[r] = Cardinality(Starters(DoneSchedules, r)')
    <3> DEFINE S == Starters(DoneSchedules, r)
    <3>1. S \subseteq Schedules /\ s \notin S /\ IsFiniteSet(S) /\ Cardinality(S) \in Nat
      BY OneScheduleMore, SchedulesFinite DEF Starters, Matched, Aimed
    <3>2. inbound[r] = Cardinality(S) /\ r \in Resources
      BY DEF Counted, GraphTypes
    <3>3. Starters(DoneSchedules, r)' = S \cup Starters({s}, r)
      <4>1. Matched(DoneSchedules)' = Matched(DoneSchedules) \cup Matched({s})
        BY OneScheduleMore
      <4> QED
        BY <1>1, <4>1 DEF Starters, Target
    <3>4. CASE Matched({s}) = {} \/ Target(s) # r
      <4>1. Starters({s}, r) = {}
        BY <3>4, OneScheduleMore DEF Starters
      <4>2. inbound'[r] = inbound[r]
        BY <3>4, <3>2, <1>4 DEF GraphTypes
      <4> QED
        BY <3>2, <3>3, <4>1, <4>2
    <3>5. CASE Matched({s}) = {s} /\ Target(s) = r
      <4>1. Starters({s}, r) = {s}
        BY <3>5 DEF Starters
      <4>2. inbound'[r] = inbound[r] + 1
        BY <3>5, <3>2, <1>4 DEF GraphTypes
      <4> QED
        <5>1. Cardinality(S \cup {s}) = Cardinality(S) + 1
          BY <3>1, FS_AddElement
        <5> QED
          BY <3>2, <3>3, <4>1, <4>2, <5>1
    <3> QED
      BY <3>4, <3>5, OneScheduleMore
  <2>2. orphans' = {z \in Unmatched(DoneSchedules)' : aim'[z] \in Internal}
    <3>1. Unmatched(DoneSchedules)' = Unmatched(DoneSchedules) \cup Unmatched({s})
      BY OneScheduleMore
    <3>2. orphans = {z \in Unmatched(DoneSchedules) : aim[z] \in Internal}
      BY DEF Counted
    <3> QED
      BY <1>1, <3>1, <3>2
  <2>3. inactive' = DoneSchedules' \cap Paused
    <3>1. DoneSchedules' = DoneSchedules \cup {s} /\ inactive = DoneSchedules \cap Paused
      BY OneScheduleMore DEF Counted
    <3> HIDE DEF GraphInv
    <3>2. inactive' = IF s \in Paused THEN inactive \cup {s} ELSE inactive
      BY DEF AddInactive
    <3> QED
      BY <3>1, <3>2, Zenon
  <2> QED
    BY <1>1, <2>1, <2>2, <2>3 DEF Counted
<1> QED
  BY <1>1, <1>5, <1>6, <1>7, <1>8 DEF Classified, Complete

LEMMA BuildKeepsGraph ==
  ASSUME GraphInv, BuildStep
  PROVE  GraphInv'
<1>1. CASE ListSchedules
  BY <1>1, SchedulesListed
<1>2. CASE AddResource
  BY <1>2, ResourceAdded
<1>3. CASE ResourcesAdded
  BY <1>3, AllResourcesAdded
<1>4. CASE AddIdleSchedule
  <2>1. PICK s \in todo : /\ aim[s] = NoRef /\ todo' = todo \ {s} /\ AddInactive(s)
                         /\ drawn' = Draw(drawn, ScheduleNode(s))
    BY <1>4 DEF AddIdleSchedule
  <2>2. ScheduleDone(s) /\ UNCHANGED <<edges, inbound, orphans>>
    BY <1>4, <2>1 DEF AddIdleSchedule, ScheduleDone
  <2>3. Matched({s}) = {} /\ Unmatched({s}) = {}
    BY <2>1, TopologyAssumption DEF Matched, Unmatched, Aimed
  <2>4. drawn' = [drawn EXCEPT ![ScheduleNode(s)] = 1]
    <3>1. ScheduleNode(s) \in Nodes /\ drawn[ScheduleNode(s)] = 0
      BY <2>2, OneScheduleMore DEF Nodes, GraphInv, GraphTypes, NodesDrawn
    <3> QED
      BY <2>1, <3>1, Declares DEF GraphInv, GraphTypes
  <2>5. StartEdges({s}) = {} /\ ExternalEdges({s}) = {}
    BY <2>3 DEF StartEdges, ExternalEdges
  <2> QED
    BY <2>1, <2>2, <2>3, <2>4, <2>5, ScheduleAdded
<1>5. CASE AddMatchedSchedule
  <2>1. PICK s \in todo :
          /\ aim[s] # NoRef
          /\ MatchResource(aim[s]) # NoMatch
          /\ inbound' = [inbound EXCEPT ![MatchResource(aim[s])] = @ + 1]
          /\ edges' = edges \cup {<<ScheduleNode(s), ResourceNode(MatchResource(aim[s]))>>}
          /\ todo' = todo \ {s} /\ AddInactive(s)
          /\ drawn' = Draw(drawn, ScheduleNode(s))
    BY <1>5 DEF AddMatchedSchedule
  <2>2. ScheduleDone(s) /\ UNCHANGED orphans
    BY <1>5, <2>1 DEF AddMatchedSchedule, ScheduleDone
  <2>3. MatchResource(aim[s]) = Target(s) /\ aim[s] \in Refs
    BY <2>1, <2>2, MatchIs, OneScheduleMore DEF Target, Rows, GraphInv, GraphTypes, Targets
  <2>4. Matched({s}) = {s} /\ Unmatched({s}) = {}
    BY <2>1, <2>3 DEF Matched, Unmatched, Aimed
  <2>5. drawn' = [drawn EXCEPT ![ScheduleNode(s)] = 1]
    <3>1. ScheduleNode(s) \in Nodes /\ drawn[ScheduleNode(s)] = 0
      BY <2>2, OneScheduleMore DEF Nodes, GraphInv, GraphTypes, NodesDrawn
    <3> QED
      BY <2>1, <3>1, Declares DEF GraphInv, GraphTypes
  <2>6. StartEdges({s}) = {<<ScheduleNode(s), ResourceNode(Target(s))>>} /\ ExternalEdges({s}) = {}
    BY <2>4 DEF StartEdges, ExternalEdges
  <2> QED
    BY <2>1, <2>2, <2>3, <2>4, <2>5, <2>6, ScheduleAdded
<1>6. CASE AddUnmatchedSchedule
  <2>1. PICK s \in todo :
          /\ aim[s] # NoRef
          /\ MatchResource(aim[s]) = NoMatch
          /\ orphans' = IF aim[s] \in Internal THEN orphans \cup {s} ELSE orphans
          /\ drawn' = DrawOnce(Draw(drawn, ScheduleNode(s)), ExternalNode(aim[s]))
          /\ edges' = edges \cup {<<ScheduleNode(s), ExternalNode(aim[s])>>}
          /\ todo' = todo \ {s} /\ AddInactive(s)
    BY <1>6 DEF AddUnmatchedSchedule
  <2>2. ScheduleDone(s) /\ UNCHANGED inbound
    BY <1>6, <2>1 DEF AddUnmatchedSchedule, ScheduleDone
  <2>3. MatchResource(aim[s]) = Target(s) /\ aim[s] \in Refs
    BY <2>1, <2>2, MatchIs, OneScheduleMore DEF Target, Rows, GraphInv, GraphTypes, Targets
  <2>4. Matched({s}) = {} /\ Unmatched({s}) = {s}
    BY <2>1, <2>3 DEF Matched, Unmatched, Aimed
  <2>5. drawn' = [drawn EXCEPT ![ScheduleNode(s)] = 1, ![ExternalNode(aim[s])] = 1]
    <3>1. ScheduleNode(s) \in Nodes /\ drawn[ScheduleNode(s)] = 0 /\ ExternalNode(aim[s]) \in Nodes
      BY <2>2, <2>3, OneScheduleMore DEF Nodes, GraphInv, GraphTypes, NodesDrawn
    <3>2. Draw(drawn, ScheduleNode(s)) = [drawn EXCEPT ![ScheduleNode(s)] = 1]
      BY <3>1, Declares DEF GraphInv, GraphTypes
    <3> DEFINE withSchedule == [drawn EXCEPT ![ScheduleNode(s)] = 1]
    <3>3. withSchedule \in [Nodes -> {0, 1}]
      BY <3>1 DEF GraphInv, GraphTypes
    <3>4. drawn' = DrawOnce(withSchedule, ExternalNode(aim[s]))
      BY <2>1, <3>2
    <3> HIDE DEF withSchedule
    <3>5. drawn' = [withSchedule EXCEPT ![ExternalNode(aim[s])] = 1]
      BY <3>1, <3>3, <3>4, Declares
    <3> QED
      BY <3>5 DEF withSchedule
  <2>6. StartEdges({s}) = {} /\ ExternalEdges({s}) = {<<ScheduleNode(s), ExternalNode(aim[s])>>}
    BY <2>4 DEF StartEdges, ExternalEdges
  <2> QED
    BY <2>1, <2>2, <2>4, <2>5, <2>6, ScheduleAdded
<1>7. CASE Classify
  <2> USE <1>7 DEF Classify, tables, GraphInv
  <2>1. DoneResources' = DoneResources /\ DoneSchedules' = DoneSchedules /\ Rows' = Rows
    BY DEF DoneResources, DoneSchedules, Rows
  <2>2. GraphTypes'
    BY <2>1 DEF GraphTypes
  <2>3. NodesDrawn'
    BY <2>1 DEF NodesDrawn, Unmatched, Aimed, Target
  <2>4. EdgesDrawn'
    BY <2>1 DEF EdgesDrawn, RoleEdges, StartEdges, ExternalEdges, Unmatched, Matched, Aimed, Target
  <2>5. Counted'
    BY <2>1 DEF Counted, Starters, Unmatched, Matched, Aimed, Target
  <2>6. Classified'
    BY DEF Classified
  <2> QED
    BY <2>2, <2>3, <2>4, <2>5, <2>6
<1> QED
  BY <1>1, <1>2, <1>3, <1>4, <1>5, <1>6, <1>7 DEF BuildStep

LEMMA GraphNext == GraphInv /\ [Next]_vars => GraphInv'
<1> SUFFICES ASSUME GraphInv, [Next]_vars PROVE GraphInv'
  OBVIOUS
<1> USE DEF tables, graphVars, topologyVars, analysisVars, findingVars
<1>1. CASE OtherScan
  <2>1. /\ resources' \in SUBSET Resources /\ targets' \in Targets /\ place' = place
        /\ UNCHANGED <<listed, aim, todo, drawn, edges, inbound, orphans, inactive, hotspots,
                     untriggered>>
    BY <1>1 DEF OtherScan, ChangeResources, ChangeSchedules, GraphInv, GraphTypes, Targets
  <2> QED
    BY <2>1, GraphRests
<1>2. CASE BeginRun
  BY <1>2, GraphStarts DEF BeginRun, GraphInv
<1>3. CASE Build
  BY <1>3, BuildKeepsGraph DEF Build
<1>4. CASE Persist \/ FetchRules \/ EndRun
  BY <1>4, GraphRests DEF Persist, FetchRules, EndRun, GraphInv, GraphTypes, Complete
<1>5. CASE \/ EvaluateRule \/ UNCHANGED vars
           \/ \E i \in RuleIds, form \in RuleForms \cup {NoRule} : SaveRule(i, form)
  <2>1. /\ resources' \in SUBSET Resources /\ targets' \in Targets /\ place' = place
        /\ UNCHANGED <<listed, aim, todo, drawn, edges, inbound, orphans, inactive, hotspots,
                     untriggered>>
    BY <1>5 DEF EvaluateRule, SaveRule, vars, GraphInv, GraphTypes
  <2> QED
    BY <2>1, GraphRests
<1> QED
  BY <1>1, <1>2, <1>3, <1>4, <1>5 DEF Next

LEMMA GraphInit == Init => GraphInv
<1> SUFFICES ASSUME Init PROVE GraphInv
  OBVIOUS
<1> USE TopologyAssumption DEF Init, TopologyInit
<1>1. DoneResources = {} /\ DoneSchedules = {}
  BY DEF DoneResources, DoneSchedules, Rows
<1>2. GraphTypes
  BY DEF GraphTypes, Targets
<1>3. NodesDrawn
  BY <1>1 DEF NodesDrawn, Unmatched, Aimed, Nodes
<1>4. EdgesDrawn
  BY <1>1 DEF EdgesDrawn, RoleEdges, StartEdges, ExternalEdges, Unmatched, Matched, Aimed
<1>5. Counted
  BY <1>1 DEF Counted, Starters, Matched, Unmatched, Aimed
<1> QED
  BY <1>2, <1>3, <1>4, <1>5 DEF GraphInv, Classified

\* The inductive invariant of build_topology.
THEOREM GraphSoFar == Spec => []GraphInv
  BY GraphInit, GraphNext, PTL DEF Spec

\* No node is declared twice, though roles and external targets are shared, and no edge has an
\* end that is not declared, whatever is written between the two queries (topology.py:80-170).
THEOREM ChartIsWellFormed == Spec => []GraphWellFormed
<1>1. GraphInv => GraphWellFormed
  <2> SUFFICES ASSUME GraphInv PROVE GraphWellFormed
    OBVIOUS
  <2> USE TopologyAssumption DEF GraphInv
  <2>1. \A n \in Nodes : drawn[n] <= 1
    BY DEF GraphTypes
  <2>2. /\ DoneResources \subseteq listed /\ listed \subseteq Resources
        /\ DoneSchedules \subseteq Schedules
    BY DEF DoneResources, DoneSchedules, Rows, GraphTypes
  <2>3. ASSUME NEW e \in edges PROVE drawn[e[1]] = 1 /\ drawn[e[2]] = 1
    <3>1. CASE e \in RoleEdges(DoneResources)
      <4>1. PICK r \in DoneResources :
              RoleOf[r] # NoRole /\ e = <<ResourceNode(r), IamNode(RoleOf[r])>>
        BY <3>1 DEF RoleEdges
      <4>2. RoleOf[r] \in Roles
        BY <2>2, <4>1
      <4> QED
        BY <2>2, <4>1, <4>2 DEF NodesDrawn
    <3>2. CASE e \in StartEdges(DoneSchedules)
      <4>1. PICK s \in Matched(DoneSchedules) : e = <<ScheduleNode(s), ResourceNode(Target(s))>>
        BY <3>2 DEF StartEdges
      <4>2. Target(s) \in listed /\ s \in DoneSchedules
        BY <2>2, <4>1, Matching DEF Matched, Aimed, Target
      <4>3. DoneResources = listed
        BY <4>2 DEF DoneResources, DoneSchedules
      <4> QED
        BY <2>2, <4>1, <4>2, <4>3 DEF NodesDrawn
    <3>3. CASE e \in ExternalEdges(DoneSchedules)
      <4>1. PICK s \in Unmatched(DoneSchedules) : e = <<ScheduleNode(s), ExternalNode(aim[s])>>
        BY <3>3 DEF ExternalEdges
      <4>2. aim[s] \in Refs /\ s \in DoneSchedules
        BY <4>1 DEF Unmatched, Aimed
      <4> QED
        BY <2>2, <4>1, <4>2 DEF NodesDrawn
    <3> QED
      BY <3>1, <3>2, <3>3 DEF EdgesDrawn
  <2> QED
    BY <2>1, <2>3 DEF GraphWellFormed
<1> QED
  BY <1>1, GraphSoFar, PTL

\* Of what a graph that is built has counted, in terms of the rows.
LEMMA StartsIs ==
  ASSUME GraphInv, NEW s \in Schedules, NEW r \in listed
  PROVE  Starts(s, r) <=> s \in Starters(Rows, r)
<1> USE TopologyAssumption
<1>1. Starts(s, r) <=> aim[s] \in Refs /\ Named(listed, aim[s], r)
  BY DEF Starts, Named
<1>2. ASSUME aim[s] \in Refs
      PROVE  /\ Named(listed, aim[s], r) <=> Target(s) = r
             /\ r # NoMatch /\ s \in Rows
  <2>1. listed \in SUBSET Resources
    BY DEF GraphInv, GraphTypes
  <2> HIDE TopologyAssumption
  <2>2. (Named(listed, aim[s], r) <=> MatchIn(listed, aim[s]) = r) /\ r # NoMatch
    <3>1. /\ \A q \in listed : Named(listed, aim[s], q) <=> MatchIn(listed, aim[s]) = q
          /\ NoMatch \notin listed
      BY <1>2, <2>1, Matching
    <3> QED
      BY <3>1
  <2> QED
    BY <1>2, <2>2, TopologyAssumption DEF Target, Rows
<1> QED
  BY <1>1, <1>2 DEF Starters, Matched, Aimed

LEMMA OrphanIs ==
  ASSUME GraphInv, Complete
  PROVE  orphans = {s \in Schedules : /\ aim[s] \in Internal \cap Refs
                                      /\ \A r \in listed : ~Starts(s, r)}
<1> USE TopologyAssumption
<1>1. DoneSchedules = Rows
  BY DEF Complete, DoneSchedules
<1>2. orphans = {s \in Unmatched(Rows) : aim[s] \in Internal}
  BY <1>1 DEF GraphInv, Counted
<1>3. ASSUME NEW s \in Schedules, aim[s] \in Refs
      PROVE  s \in Unmatched(Rows) <=> \A r \in listed : ~Starts(s, r)
  <2>1. s \in Rows
    BY <1>3 DEF Rows
  <2>2. Target(s) \in listed \cup {NoMatch} /\ NoMatch \notin listed
    BY <1>3, Matching DEF Target, GraphInv, GraphTypes
  <2>3. \A r \in listed : Starts(s, r) <=> Target(s) = r
    BY <1>3, <2>1, <2>2, StartsIs DEF Starters, Matched, Aimed
  <2> QED
    BY <1>3, <2>1, <2>2, <2>3 DEF Unmatched, Aimed
<1>4. \A s \in Unmatched(Rows) : s \in Schedules /\ aim[s] \in Refs
  BY DEF Unmatched, Aimed, Rows
<1> QED
  BY <1>2, <1>3, <1>4

LEMMA InboundIs ==
  ASSUME GraphInv, Complete, NEW r \in listed
  PROVE  inbound[r] = Cardinality({s \in Schedules : Starts(s, r)}) /\ inbound[r] \in Nat
<1>1. DoneSchedules = Rows
  BY DEF Complete, DoneSchedules
<1>2. Starters(Rows, r) = {s \in Schedules : Starts(s, r)}
  <2>1. Starters(Rows, r) \subseteq Schedules
    BY DEF Starters, Matched, Aimed, Rows
  <2> QED
    BY <2>1, StartsIs
<1> QED
  BY <1>1, <1>2 DEF GraphInv, GraphTypes, Counted

\* Once built, the graph counts the schedules of each resource, has an edge for each, and calls
\* an orphan exactly what starts nothing it should, inactive what is paused (topology.py:116-169).
THEOREM GraphCountsExactly == Spec => []GraphIsExact
<1>1. GraphInv => GraphIsExact
  <2> SUFFICES ASSUME GraphInv, Built PROVE GraphIsExact
    BY DEF GraphIsExact
  <2>1. Complete /\ DoneSchedules = Rows
    BY DEF Built, Complete, DoneSchedules
  <2>2. ASSUME NEW s \in Schedules, NEW r \in listed
        PROVE  Starts(s, r) <=> <<ScheduleNode(s), ResourceNode(r)>> \in edges
    <3> DEFINE e == <<ScheduleNode(s), ResourceNode(r)>>
    <3>1. e \notin RoleEdges(DoneResources) /\ e \notin ExternalEdges(DoneSchedules)
      BY DEF RoleEdges, ExternalEdges, ScheduleNode, ResourceNode, ExternalNode
    <3>2. e \in StartEdges(Rows) <=> s \in Matched(Rows) /\ Target(s) = r
      BY DEF StartEdges, ScheduleNode, ResourceNode
    <3> QED
      BY <2>1, <3>1, <3>2, StartsIs DEF Starters, GraphInv, EdgesDrawn
  <2>3. inactive = {s \in Paused : aim[s] # NoRow}
    BY <2>1, TopologyAssumption DEF GraphInv, Counted, Rows
  <2> QED
    BY <2>1, <2>2, <2>3, InboundIs, OrphanIs DEF GraphIsExact
<1> QED
  BY <1>1, GraphSoFar, PTL

-----------------------------------------------------------------------------
(* What a run has reported. *)

\* What the rows of the database are, as far as nobody has changed them since the run read them.
Unmoved == run > 0 /\ moved = {} => listed = resources /\ (place # "listing" => aim = targets)

Reports == {OrphanKey(s, aim[s]) : s \in orphans}
             \cup {HotspotKey(r, inbound[r]) : r \in hotspots}
             \cup {UntriggeredKey(r) : r \in untriggered}

\* A run's number is on nothing before the run has come to it, then on what it reports.
TopologyReported ==
  /\ place \in {"listing", "resources", "schedules", "built"} =>
       \A k \in TopologyKeys : owner[k] # run
  /\ Analyzed => \A k \in TopologyKeys : owner[k] = run <=> k \in Reports

IsPresent(item) == IF item[1] = "resource" THEN item[2] \in resources ELSE targets[item[2]] # NoRow

\* The rules of i's name that are evaluated and satisfied.
Firing(i, item) ==
  {object \in applied \ evaluating : RuleName[object[1]] = RuleName[i] /\ Fires(object, item)}

RulesReported ==
  /\ place \in {"listing", "resources", "schedules", "built", "rules"} =>
       \A k \in RuleKeys : owner[k] # run
  /\ run > 0 /\ place \in {"evaluate", "idle"} =>
       \A i \in RuleIds, item \in Items \ moved :
         /\ owner[RuleKey(i, item)] = run <=> IsPresent(item) /\ Firing(i, item) # {}
         /\ owner[RuleKey(i, item)] = run =>
              grade[RuleKey(i, item)] \in {object[2].severity : object \in Firing(i, item)}

AnalysisTypes ==
  /\ rules \in [RuleIds -> RuleForms \cup {NoRule}]
  /\ run \in Nat /\ (run = 0 => place = "idle")
  /\ owner \in [TopologyKeys \cup RuleKeys -> 0..run]
  /\ grade \in [RuleKeys -> Severities \cup {"none"}]
  /\ \A k \in RuleKeys : owner[k] > 0 <=> grade[k] \in Severities
  /\ applied \subseteq RuleIds \X RuleForms
  /\ evaluating \subseteq {object \in applied : object[2].enabled}
  /\ place # "evaluate" => evaluating = {}

AnalysisInv == GraphInv /\ AnalysisTypes /\ Unmoved /\ TopologyReported /\ RulesReported

-----------------------------------------------------------------------------
(* Keys, items and rules. *)

LEMMA KeysDiffer ==
  /\ \A k \in TopologyKeys : k \notin RuleKeys
  /\ \A i, j, item, other : RuleKey(i, item) = RuleKey(j, other)
                              <=> RuleName[i] = RuleName[j] /\ item = other
  /\ \A i \in RuleIds, item \in Items : RuleKey(i, item) \in RuleKeys
<1>1. \A k \in TopologyKeys : k[1] \in {"orphan", "hotspot", "untriggered"}
  BY DEF TopologyKeys, OrphanKey, HotspotKey, UntriggeredKey
<1>2. \A k \in RuleKeys : k[1] = "custom"
  BY DEF RuleKeys, RuleKey
<1>3. \A i, j, item, other : RuleKey(i, item) = RuleKey(j, other)
                               <=> RuleName[i] = RuleName[j] /\ item = other
  BY DEF RuleKey
<1>4. \A i \in RuleIds, item \in Items : RuleKey(i, item) \in RuleKeys
  BY DEF RuleKeys
<1> QED
  BY <1>1, <1>2, <1>3, <1>4

LEMMA ItemIs ==
  ASSUME GraphTypes
  PROVE  /\ ItemsOf("resource") \subseteq Items /\ ItemsOf("schedule") \subseteq Items
         /\ \A item \in Items, target \in {"resource", "schedule"} :
              item \in ItemsOf(target) <=> item[1] = target /\ IsPresent(item)
BY DEF ItemsOf, Items, IsPresent, GraphTypes

\* What the loop tests is what the rule says, of the objects it tests.
LEMMA AppliesIs ==
  ASSUME GraphTypes, NEW object \in RuleIds \X RuleForms, object[2].enabled, NEW item \in Items
  PROVE  item \in ItemsOf(object[2].target) /\ Applies(object[2], item)
           <=> IsPresent(item) /\ Fires(object, item)
<1> DEFINE rule == object[2]
           text == ValueOf[rule.field][item]
<1>1. /\ rule.target \in {"resource", "schedule"} /\ rule.field \in Fields
      /\ text \in Texts \cup {Missing, Structure}
  BY AnalysisAssumption
<1>2. Applies(rule, item) <=> text \in Texts /\ Matches(rule.operator, text, rule.value)
  BY <1>1, RulesAssumption DEF Applies, Resolve
<1>3. item \in ItemsOf(rule.target) <=> item[1] = rule.target /\ IsPresent(item)
  BY <1>1, ItemIs
<1> QED
  BY <1>2, <1>3 DEF Fires

-----------------------------------------------------------------------------
(* The invariant of a run. *)

LEMMA OthersMove ==
  ASSUME GraphTypes, OtherScan
  PROVE  /\ UNCHANGED <<graphVars, rules, findingVars, run, evaluating, applied>>
         /\ moved' # {} /\ moved \subseteq moved'
         /\ \A item \in Items \ moved' : IsPresent(item)' = IsPresent(item)
<1> USE DEF OtherScan
<1>1. /\ UNCHANGED <<graphVars, rules, findingVars, run, evaluating, applied>>
      /\ moved \subseteq moved'
  BY DEF ChangeResources, ChangeSchedules
<1>2. ChangedRows # {}
  <2>1. CASE ChangeResources
    <3>1. PICK r \in Resources : ~(r \in resources <=> r \in resources')
      BY <2>1 DEF ChangeResources, GraphTypes
    <3>2. <<"resource", r>> \in ChangedRows
      BY <3>1 DEF ChangedRows
    <3> QED
      BY <3>2
  <2>2. CASE ChangeSchedules
    <3>1. PICK s \in Schedules : targets'[s] # targets[s]
      BY <2>2 DEF ChangeSchedules, GraphTypes, Targets
    <3>2. <<"schedule", s>> \in ChangedRows
      BY <3>1 DEF ChangedRows
    <3> QED
      BY <3>2
  <2> QED
    BY <2>1, <2>2
<1>3. ASSUME NEW item \in Items, item \notin ChangedRows PROVE IsPresent(item)' = IsPresent(item)
  <2>1. CASE item[1] = "resource"
    <3>1. PICK r \in Resources : item = <<"resource", r>>
      BY <2>1 DEF Items
    <3>2. r \in resources <=> r \in resources'
      BY <1>3, <3>1 DEF ChangedRows
    <3> QED
      BY <3>1, <3>2 DEF IsPresent
  <2>2. CASE item[1] # "resource"
    <3>1. PICK s \in Schedules : item = <<"schedule", s>>
      BY <2>2 DEF Items
    <3>2. targets'[s] = targets[s]
      BY <1>3, <3>1 DEF ChangedRows
    <3> QED
      BY <3>1, <3>2 DEF IsPresent
  <2> QED
    BY <2>1, <2>2
<1> QED
  BY <1>1, <1>2, <1>3

LEMMA TypesStep == GraphInv /\ AnalysisTypes /\ [Next]_vars => AnalysisTypes'
<1> SUFFICES ASSUME GraphInv, AnalysisTypes, [Next]_vars PROVE AnalysisTypes'
  OBVIOUS
<1> USE DEF tables, graphVars, topologyVars, analysisVars, findingVars
<1>1. CASE OtherScan
  BY <1>1, OthersMove DEF GraphInv, AnalysisTypes
<1>2. CASE BeginRun
  BY <1>2 DEF BeginRun, ListResources, AnalysisTypes
<1>3. CASE Build
  BY <1>3 DEF Build, BuildStep, ListSchedules, AddResource, ResourcesAdded, AddIdleSchedule,
     AddMatchedSchedule, AddUnmatchedSchedule, Classify, AnalysisTypes
<1>4. CASE Persist
  <2>1. /\ \A k \in RuleKeys : owner'[k] = owner[k]
        /\ owner' \in [TopologyKeys \cup RuleKeys -> 0..run]
    <3>1. PICK keys : keys \subseteq Reports /\ Upsert(keys)
      BY <1>4 DEF Persist, Reports
    <3>2. \A k \in Reports : k \notin RuleKeys
      <4>1. \A k \in Reports : k[1] \in {"orphan", "hotspot", "untriggered"}
        BY DEF Reports, OrphanKey, HotspotKey, UntriggeredKey
      <4> QED
        BY <4>1 DEF RuleKeys, RuleKey
    <3> QED
      BY <3>1, <3>2 DEF Upsert, AnalysisTypes
  <2> QED
    BY <1>4, <2>1 DEF Persist, AnalysisTypes
<1>5. CASE FetchRules
  <2>1. applied' \subseteq RuleIds \X RuleForms
    BY <1>5 DEF FetchRules, AnalysisTypes
  <2> QED
    BY <1>5, <2>1 DEF FetchRules, AnalysisTypes
<1>6. CASE EvaluateRule
  <2>1. PICK object, keys :
          /\ object \in evaluating
          /\ Upsert(keys)
          /\ grade' = [k \in RuleKeys |-> IF k \in keys THEN object[2].severity ELSE grade[k]]
          /\ evaluating' = evaluating \ {object}
    BY <1>6 DEF EvaluateRule
  <2>2. object[2].severity \in Severities /\ run > 0
    BY <1>6, <2>1, AnalysisAssumption DEF EvaluateRule, AnalysisTypes
  <2>3. owner' \in [TopologyKeys \cup RuleKeys -> 0..run]
    BY <2>1 DEF Upsert, AnalysisTypes
  <2>4. grade' \in [RuleKeys -> Severities \cup {"none"}]
    BY <2>1, <2>2 DEF AnalysisTypes
  <2>5. ASSUME NEW k \in RuleKeys PROVE owner'[k] > 0 <=> grade'[k] \in Severities
    BY <2>1, <2>2 DEF Upsert, AnalysisTypes
  <2> QED
    BY <1>6, <2>1, <2>3, <2>4, <2>5 DEF EvaluateRule, AnalysisTypes
<1>7. CASE EndRun
  BY <1>7 DEF EndRun, AnalysisTypes
<1>8. ASSUME NEW i \in RuleIds, NEW form \in RuleForms \cup {NoRule}, SaveRule(i, form)
      PROVE  AnalysisTypes'
  BY <1>8 DEF SaveRule, AnalysisTypes
<1>9. CASE UNCHANGED vars
  BY <1>9 DEF vars, AnalysisTypes
<1> QED
  BY <1>1, <1>2, <1>3, <1>4, <1>5, <1>6, <1>7, <1>8, <1>9 DEF Next

LEMMA UnmovedStep == GraphInv /\ AnalysisTypes /\ Unmoved /\ [Next]_vars => Unmoved'
<1> SUFFICES ASSUME GraphInv, AnalysisTypes, Unmoved, [Next]_vars PROVE Unmoved'
  OBVIOUS
<1> USE DEF tables, graphVars, topologyVars, analysisVars, findingVars
<1>1. CASE OtherScan
  BY <1>1, OthersMove DEF GraphInv, Unmoved
<1>2. CASE BeginRun
  BY <1>2 DEF BeginRun, ListResources, Unmoved
<1>3. CASE Build
  BY <1>3 DEF Build, BuildStep, ListSchedules, AddResource, ResourcesAdded, AddIdleSchedule,
     AddMatchedSchedule, AddUnmatchedSchedule, Classify, Unmoved
<1>4. CASE Persist \/ FetchRules \/ EvaluateRule \/ EndRun
  BY <1>4 DEF Persist, FetchRules, EvaluateRule, EndRun, Unmoved
<1>5. ASSUME NEW i \in RuleIds, NEW form \in RuleForms \cup {NoRule}, SaveRule(i, form)
      PROVE  Unmoved'
  BY <1>5 DEF SaveRule, Unmoved
<1>6. CASE UNCHANGED vars
  BY <1>6 DEF vars, Unmoved
<1> QED
  BY <1>1, <1>2, <1>3, <1>4, <1>5, <1>6 DEF Next

LEMMA TopologyReportedStep ==
  GraphInv /\ AnalysisTypes /\ TopologyReported /\ [Next]_vars => TopologyReported'
<1> SUFFICES ASSUME GraphInv, AnalysisTypes, TopologyReported, [Next]_vars
             PROVE  TopologyReported'
  OBVIOUS
<1> USE DEF tables, graphVars, topologyVars, analysisVars, findingVars
<1>1. ASSUME UNCHANGED <<orphans, hotspots, untriggered, inbound, aim, run>>,
             \A k \in TopologyKeys : owner'[k] = owner[k],
             place' = place \/ (place \in {"rules", "evaluate"} /\ place' \in {"evaluate", "idle"})
      PROVE  TopologyReported'
  <2>1. Reports' = Reports
    BY <1>1 DEF Reports, OrphanKey, HotspotKey, UntriggeredKey
  <2> QED
    BY <1>1, <2>1 DEF TopologyReported, Analyzed, AnalysisTypes
<1>2. CASE OtherScan
  BY <1>1, <1>2, OthersMove DEF GraphInv
<1>3. CASE BeginRun
  BY <1>3 DEF BeginRun, ListResources, AnalysisTypes, TopologyReported, Analyzed
<1>4. CASE Build
  BY <1>4 DEF Build, BuildStep, ListSchedules, AddResource, ResourcesAdded, AddIdleSchedule,
     AddMatchedSchedule, AddUnmatchedSchedule, Classify, TopologyReported, Analyzed
<1>5. CASE Persist
  <2>1. Reports' = Reports
    BY <1>5 DEF Persist, Reports, OrphanKey, HotspotKey, UntriggeredKey
  <2>2. Upsert(Reports)
    BY <1>5 DEF Persist, Reports
  <2>3. \A k \in TopologyKeys : owner'[k] = IF k \in Reports THEN run ELSE owner[k]
    BY <2>2 DEF Upsert, AnalysisTypes
  <2> QED
    BY <1>5, <2>1, <2>3 DEF Persist, TopologyReported, Analyzed
<1>6. CASE FetchRules \/ EndRun
  BY <1>1, <1>6 DEF FetchRules, EndRun
<1>7. CASE EvaluateRule
  <2>1. PICK object \in evaluating :
          Upsert({RuleKey(object[1], item) :
                    item \in {item \in ItemsOf(object[2].target) : Applies(object[2], item)}})
    BY <1>7 DEF EvaluateRule
  <2>2. object \in RuleIds \X RuleForms /\ object[2].target \in {"resource", "schedule"}
    BY AnalysisAssumption DEF AnalysisTypes
  <2>3. ItemsOf(object[2].target) \subseteq Items
    BY <2>2, ItemIs DEF GraphInv
  <2>4. \A k \in TopologyKeys : owner'[k] = owner[k]
    BY <2>1, <2>2, <2>3, KeysDiffer DEF Upsert, AnalysisTypes
  <2> QED
    BY <1>1, <1>7, <2>4 DEF EvaluateRule
<1>8. ASSUME NEW i \in RuleIds, NEW form \in RuleForms \cup {NoRule}, SaveRule(i, form)
      PROVE  TopologyReported'
  BY <1>1, <1>8 DEF SaveRule
<1>9. CASE UNCHANGED vars
  BY <1>1, <1>9 DEF vars
<1> QED
  BY <1>2, <1>3, <1>4, <1>5, <1>6, <1>7, <1>8, <1>9 DEF Next

LEMMA RulesReportedStep ==
  GraphInv /\ AnalysisTypes /\ RulesReported /\ [Next]_vars => RulesReported'
<1> SUFFICES ASSUME GraphInv, AnalysisTypes, RulesReported, [Next]_vars
             PROVE  RulesReported'
  OBVIOUS
<1> USE DEF tables, graphVars, topologyVars, analysisVars, findingVars
<1>1. ASSUME UNCHANGED <<grade, run, applied, evaluating>>, moved \subseteq moved',
             \A k \in RuleKeys : owner'[k] = owner[k],
             \A item \in Items \ moved' : IsPresent(item)' = IsPresent(item),
             \/ place' = place
             \/ place = "evaluate" /\ place' = "idle"
             \/ /\ place \in {"listing", "resources", "schedules", "built"}
                /\ place' \in {"listing", "resources", "schedules", "built", "rules"}
      PROVE  RulesReported'
  <2>1. \A i \in RuleIds, item \in Items : Firing(i, item)' = Firing(i, item)
    BY <1>1 DEF Firing
  <2>2. ASSUME place' \in {"evaluate", "idle"}, run' > 0,
               NEW i \in RuleIds, NEW item \in Items \ moved'
        PROVE  /\ owner'[RuleKey(i, item)] = run' <=> IsPresent(item)' /\ Firing(i, item)' # {}
               /\ owner'[RuleKey(i, item)] = run' =>
                    grade'[RuleKey(i, item)] \in {object[2].severity : object \in Firing(i, item)'}
    <3>1. RuleKey(i, item) \in RuleKeys
      BY KeysDiffer
    <3> QED
      BY <1>1, <2>1, <2>2, <3>1 DEF RulesReported
  <2> QED
    BY <1>1, <2>2 DEF RulesReported
<1>2. CASE OtherScan
  BY <1>1, <1>2, OthersMove DEF GraphInv
<1>3. CASE BeginRun
  <2>1. \A k \in RuleKeys : owner'[k] # run'
    BY <1>3 DEF BeginRun, AnalysisTypes
  <2> QED
    BY <1>3, <2>1 DEF BeginRun, ListResources, RulesReported
<1>4. CASE Build
  <2>1. /\ UNCHANGED <<analysisVars, resources, targets>>
        /\ place \in {"listing", "resources", "schedules"}
        /\ place' \in {"listing", "resources", "schedules", "built"}
    BY <1>4 DEF Build, BuildStep, ListSchedules, AddResource, ResourcesAdded, AddIdleSchedule,
       AddMatchedSchedule, AddUnmatchedSchedule, Classify
  <2> QED
    BY <1>1, <2>1 DEF IsPresent
<1>5. CASE Persist
  <2>1. Upsert(Reports)
    BY <1>5 DEF Persist, Reports
  <2>2. \A k \in Reports : k \notin RuleKeys
    <3>1. \A k \in Reports : k[1] \in {"orphan", "hotspot", "untriggered"}
      BY DEF Reports, OrphanKey, HotspotKey, UntriggeredKey
    <3> QED
      BY <3>1 DEF RuleKeys, RuleKey
  <2>3. \A k \in RuleKeys : owner'[k] = owner[k]
    BY <2>1, <2>2 DEF Upsert, AnalysisTypes
  <2> QED
    BY <1>1, <1>5, <2>3 DEF Persist, IsPresent
<1>6. CASE FetchRules
  <2>1. \A i \in RuleIds, item \in Items : Firing(i, item)' = {}
    BY <1>6 DEF FetchRules, Firing, Fires
  <2> QED
    BY <1>6, <2>1, KeysDiffer DEF FetchRules, RulesReported
<1>7. CASE EvaluateRule
  <2> DEFINE applying(object) == {item \in ItemsOf(object[2].target) : Applies(object[2], item)}
             keys(object) == {RuleKey(object[1], item) : item \in applying(object)}
  <2>1. PICK object \in evaluating :
          /\ Upsert(keys(object))
          /\ grade' = [k \in RuleKeys |-> IF k \in keys(object) THEN object[2].severity
                                          ELSE grade[k]]
          /\ evaluating' = evaluating \ {object}
    BY <1>7 DEF EvaluateRule
  <2>2. object \in RuleIds \X RuleForms /\ object[2].enabled /\ object \in applied
        /\ object[2].target \in {"resource", "schedule"}
    BY AnalysisAssumption DEF AnalysisTypes
  <2>3. \A item \in Items : item \in applying(object) <=> IsPresent(item) /\ Fires(object, item)
    BY <2>2, AppliesIs DEF GraphInv
  <2>4. ASSUME NEW i \in RuleIds, NEW item \in Items \ moved'
        PROVE  /\ owner'[RuleKey(i, item)] = run' <=> IsPresent(item)' /\ Firing(i, item)' # {}
               /\ owner'[RuleKey(i, item)] = run' =>
                    grade'[RuleKey(i, item)] \in {o[2].severity : o \in Firing(i, item)'}
    <3> DEFINE k == RuleKey(i, item)
    <3>1. k \in RuleKeys
      BY KeysDiffer
    <3>2. k \in keys(object)
            <=> RuleName[object[1]] = RuleName[i] /\ IsPresent(item) /\ Fires(object, item)
      <4>1. k \in keys(object) <=> RuleName[object[1]] = RuleName[i] /\ item \in applying(object)
        BY KeysDiffer
      <4> QED
        BY <2>3, <4>1
    <3>3. Firing(i, item)' = IF RuleName[object[1]] = RuleName[i] /\ Fires(object, item)
                             THEN Firing(i, item) \cup {object} ELSE Firing(i, item)
      BY <1>7, <2>1, <2>2 DEF EvaluateRule, Firing
    <3>4. IsPresent(item)' = IsPresent(item) /\ run' = run /\ moved' = moved /\ run > 0
      BY <1>7 DEF EvaluateRule, IsPresent, AnalysisTypes
    <3>5. /\ owner[k] = run <=> IsPresent(item) /\ Firing(i, item) # {}
          /\ owner[k] = run => grade[k] \in {o[2].severity : o \in Firing(i, item)}
      BY <1>7, <3>4 DEF EvaluateRule, RulesReported
    <3>6. /\ owner'[k] = IF k \in keys(object) THEN run ELSE owner[k]
          /\ grade'[k] = IF k \in keys(object) THEN object[2].severity ELSE grade[k]
      BY <2>1, <3>1 DEF Upsert, AnalysisTypes
    <3> HIDE DEF k, keys, applying
    <3>7. CASE k \in keys(object)
      BY <3>2, <3>3, <3>4, <3>6, <3>7 DEF k
    <3>8. CASE k \notin keys(object)
      <4>1. IsPresent(item) => Firing(i, item)' = Firing(i, item)
        BY <3>2, <3>3, <3>8
      <4> QED
        BY <3>4, <3>5, <3>6, <3>8, <4>1 DEF k
    <3> QED
      BY <3>7, <3>8
  <2> QED
    BY <1>7, <2>4 DEF EvaluateRule, RulesReported
<1>8. CASE EndRun
  BY <1>1, <1>8 DEF EndRun, IsPresent
<1>9. ASSUME NEW i \in RuleIds, NEW form \in RuleForms \cup {NoRule}, SaveRule(i, form)
      PROVE  RulesReported'
  BY <1>1, <1>9 DEF SaveRule, IsPresent
<1>10. CASE UNCHANGED vars
  BY <1>1, <1>10 DEF vars, IsPresent
<1> QED
  BY <1>2, <1>3, <1>4, <1>5, <1>6, <1>7, <1>8, <1>9, <1>10 DEF Next

\* The inductive invariant of a scan's analysis.
THEOREM AnalysisSoFar == Spec => []AnalysisInv
<1>1. Init => AnalysisInv
  <2> SUFFICES ASSUME Init PROVE AnalysisInv
    OBVIOUS
  <2>1. AnalysisTypes
    BY AnalysisAssumption DEF Init, TopologyInit, AnalysisTypes
  <2>2. Unmoved /\ TopologyReported /\ RulesReported
    BY DEF Init, TopologyInit, Unmoved, TopologyReported, RulesReported, Analyzed
  <2> QED
    BY <2>1, <2>2, GraphInit DEF AnalysisInv
<1>2. AnalysisInv /\ [Next]_vars => AnalysisInv'
  BY GraphNext, TypesStep, UnmovedStep, TopologyReportedStep, RulesReportedStep DEF AnalysisInv
<1> QED
  BY <1>1, <1>2, PTL DEF Spec

\* The rows, the graph, the rules and the findings keep their types (models.py).
THEOREM TypeCorrect == Spec => []TypeOK
<1>1. AnalysisInv => TypeOK
  BY DEF AnalysisInv, GraphInv, GraphTypes, AnalysisTypes, TypeOK
<1> QED
  BY <1>1, AnalysisSoFar, PTL

\* A scan that nobody interferes with reports the orphans, hotspots and untriggered workloads
\* there are and no other, whatever was reported before (topology.py:289-345).
THEOREM FindingsAreTrue == Spec => []FindingsMatchInventory
<1>1. AnalysisInv => FindingsMatchInventory
  <2> SUFFICES ASSUME AnalysisInv, Analyzed, moved = {} PROVE FindingsMatchInventory
    BY DEF FindingsMatchInventory
  <2> USE TopologyAssumption DEF AnalysisInv
  <2>1. GraphInv /\ Complete /\ listed = resources /\ aim = targets
    <3>1. run > 0 /\ place \in {"rules", "evaluate", "idle"}
      BY DEF Analyzed
    <3>2. Complete /\ place # "listing"
      BY <3>1 DEF Complete
    <3>3. listed = resources /\ aim = targets
      BY <3>1, <3>2 DEF Unmoved
    <3> QED
      BY <3>2, <3>3
  <2>2. \A s \in Schedules, r \in resources : Starts(s, r) <=> StartedBy(s, r)
    BY <2>1 DEF Starts, StartedBy
  <2>3. \A k \in TopologyKeys : owner[k] = run <=> k \in Reports
    BY DEF TopologyReported
  <2>4. ASSUME NEW r \in resources
        PROVE  inbound[r] = FanIn(r) /\ FanIn(r) \in Nat /\ r \in Resources
    <3>1. {s \in Schedules : Starts(s, r)} = {s \in Schedules : StartedBy(s, r)}
      BY <2>2
    <3> QED
      BY <2>1, <3>1, InboundIs DEF FanIn, GraphInv, GraphTypes
  <2>5. /\ hotspots = {r \in resources : inbound[r] >= HotspotFanIn}
        /\ untriggered = {r \in resources \cap Triggered : inbound[r] = 0}
    BY <2>1 DEF GraphInv, Classified
  <2>6. ASSUME NEW s \in Schedules, NEW ref \in Internal
        PROVE  owner[OrphanKey(s, ref)] = run <=>
                 \E z \in Schedules : /\ NameOf[z] = NameOf[s] /\ targets[z] = ref
                                      /\ \A r \in resources : ~StartedBy(z, r)
    <3>1. OrphanKey(s, ref) \in TopologyKeys
      BY DEF TopologyKeys
    <3>2. OrphanKey(s, ref) \in Reports <=> \E z \in orphans : NameOf[z] = NameOf[s] /\ aim[z] = ref
      BY DEF Reports, OrphanKey, HotspotKey, UntriggeredKey
    <3>3. orphans = {z \in Schedules : /\ aim[z] \in Internal \cap Refs
                                       /\ \A r \in listed : ~Starts(z, r)}
      BY <2>1, OrphanIs
    <3> QED
      BY <2>1, <2>2, <2>3, <3>1, <3>2, <3>3
  <2>7. ASSUME NEW r \in Resources, NEW n \in 1..NumSchedules
        PROVE  owner[HotspotKey(r, n)] = run
                 <=> r \in resources /\ FanIn(r) = n /\ n >= HotspotFanIn
    <3>1. HotspotKey(r, n) \in TopologyKeys
      BY DEF TopologyKeys
    <3>2. HotspotKey(r, n) \in Reports <=> r \in hotspots /\ inbound[r] = n
      BY DEF Reports, OrphanKey, HotspotKey, UntriggeredKey
    <3> QED
      BY <2>3, <2>4, <2>5, <3>1, <3>2
  <2>8. ASSUME NEW r \in Resources
        PROVE  owner[UntriggeredKey(r)] = run <=> r \in resources \cap Triggered /\ FanIn(r) = 0
    <3>1. UntriggeredKey(r) \in TopologyKeys
      BY DEF TopologyKeys
    <3>2. UntriggeredKey(r) \in Reports <=> r \in untriggered
      BY DEF Reports, OrphanKey, HotspotKey, UntriggeredKey
    <3> QED
      BY <2>3, <2>4, <2>5, <3>1, <3>2
  <2> QED
    BY <2>6, <2>7, <2>8 DEF FindingsMatchInventory
<1> QED
  BY <1>1, AnalysisSoFar, PTL

\* What a run has reported of an item that did not change is what the rules it fetched say of it,
\* of rules of one name together (rules.py:71-84).
THEOREM RulesAreApplied == Spec => []RuleFindingsExact
<1>1. AnalysisInv => RuleFindingsExact
  <2> SUFFICES ASSUME AnalysisInv, run > 0, place = "idle",
                      NEW i \in RuleIds, NEW item \in Items \ moved
      PROVE  LET present == IF item[1] = "resource" THEN item[2] \in resources
                            ELSE targets[item[2]] # NoRow
                 firing  == {object \in applied : /\ RuleName[object[1]] = RuleName[i]
                                                  /\ Fires(object, item)}
             IN /\ owner[RuleKey(i, item)] = run <=> present /\ firing # {}
                /\ present /\ firing # {} =>
                     grade[RuleKey(i, item)] \in {object[2].severity : object \in firing}
    BY DEF RuleFindingsExact
  <2>1. Firing(i, item) = {object \in applied : /\ RuleName[object[1]] = RuleName[i]
                                                /\ Fires(object, item)}
    BY DEF Firing, AnalysisInv, AnalysisTypes
  <2>2. /\ owner[RuleKey(i, item)] = run <=> IsPresent(item) /\ Firing(i, item) # {}
        /\ owner[RuleKey(i, item)] = run =>
             grade[RuleKey(i, item)] \in {object[2].severity : object \in Firing(i, item)}
    BY DEF AnalysisInv, RulesReported
  <2> QED
    BY <2>1, <2>2 DEF IsPresent
<1> QED
  BY <1>1, AnalysisSoFar, PTL

\* Rules that say the opposite.
LEMMA OppositeRules ==
  ASSUME NEW text \in Texts, NEW value \in Texts,
         NEW f \in Operators, NEW g \in Operators, <<f, g>> \in Opposites
  PROVE  /\ f # g
         /\ f = "gt" /\ ~Comparable(text, value) =>
              ~Matches(f, text, value) /\ ~Matches(g, text, value)
         /\ ~(f = "gt" /\ ~Comparable(text, value)) =>
              (Matches(f, text, value) <=> ~Matches(g, text, value))
<1>1. CASE f = "equals" /\ g = "not_equals"
  BY <1>1 DEF Matches
<1>2. CASE f = "contains" /\ g = "not_contains"
  BY <1>2 DEF Matches
<1>3. CASE f = "gt" /\ g = "lt"
  <2> DEFINE x == NumberOf[text]
             y == NumberOf[value]
  <2>1. /\ Matches(f, text, value) <=> Greater(x, y)
        /\ Matches(g, text, value) <=> Greater(y, x)
    BY <1>3 DEF Matches
  <2>2. /\ x \in Floats \cup {NaN, NoNumber} /\ y \in Floats \cup {NaN, NoNumber}
        /\ NaN \notin Int /\ NoNumber \notin Int
    BY RulesAssumption
  <2>3. Floats \subseteq Int
    BY RulesAssumption DEF Floats
  <2>4. x \in Int <=> x \in Floats
    BY <2>2, <2>3
  <2>5. y \in Int <=> y \in Floats
    BY <2>2, <2>3
  <2>6. Comparable(text, value) <=> x \in Int /\ y \in Int /\ x # y
    BY <2>4, <2>5 DEF Comparable
  <2> HIDE DEF x, y
  <2>7. (x \in Int /\ y \in Int /\ x # y) => (Greater(x, y) <=> ~Greater(y, x))
    BY DEF Greater
  <2>8. ~(x \in Int /\ y \in Int /\ x # y) => ~Greater(x, y) /\ ~Greater(y, x)
    BY DEF Greater
  <2> QED
    BY <1>3, <2>1, <2>6, <2>7, <2>8
<1> QED
  BY <1>1, <1>2, <1>3 DEF Opposites

\* Of two rules that say the opposite, and share their names with no other, exactly one reports
\* a text, except that numbers which cannot be compared satisfy neither gt nor lt
\* (rules.py:49-69).
THEOREM OppositesReportOnce == Spec => []OppositesPartition
<1>1. AnalysisInv /\ RuleFindingsExact => OppositesPartition
  <2> SUFFICES ASSUME AnalysisInv, RuleFindingsExact, run > 0, place = "idle",
                      NEW f \in applied, NEW g \in applied,
                      NEW item \in ItemsOf(f[2].target) \ moved,
                      f[2].enabled /\ g[2].enabled,
                      \A h, k \in applied :
                        h # k /\ {h, k} \cap {f, g} # {} => RuleName[h[1]] # RuleName[k[1]],
                      <<f[2].operator, g[2].operator>> \in Opposites,
                      <<f[2].target, f[2].field, f[2].value>>
                        = <<g[2].target, g[2].field, g[2].value>>,
                      ValueOf[f[2].field][item] \in Texts
               PROVE  Cardinality({h \in {f, g} : owner[RuleKey(h[1], item)] = run})
                        = IF /\ f[2].operator = "gt"
                             /\ ~Comparable(ValueOf[f[2].field][item], f[2].value)
                          THEN 0 ELSE 1
    BY DEF OppositesPartition
  <2> DEFINE text     == ValueOf[f[2].field][item]
             none     == f[2].operator = "gt" /\ ~Comparable(text, f[2].value)
             holds(h) == Matches(h[2].operator, text, f[2].value)
             reported == {h \in {f, g} : owner[RuleKey(h[1], item)] = run}
  <2>1. /\ f \in RuleIds \X RuleForms /\ g \in RuleIds \X RuleForms
        /\ f[2].target \in {"resource", "schedule"} /\ f[2].value \in Texts
        /\ f[2].operator \in Operators /\ g[2].operator \in Operators
    BY AnalysisAssumption DEF AnalysisInv, AnalysisTypes
  <2>2. item \in Items /\ item[1] = f[2].target /\ IsPresent(item)
    BY <2>1, ItemIs DEF AnalysisInv, GraphInv
  <2>3. ASSUME NEW h \in {f, g}
        PROVE  owner[RuleKey(h[1], item)] = run <=> holds(h)
    <3>1. {o \in applied : RuleName[o[1]] = RuleName[h[1]] /\ Fires(o, item)}
            = IF Fires(h, item) THEN {h} ELSE {}
      <4>1. ASSUME NEW o \in applied, RuleName[o[1]] = RuleName[h[1]] PROVE o = h
        BY <4>1
      <4> QED
        BY <4>1
    <3>2. owner[RuleKey(h[1], item)] = run <=> Fires(h, item)
      <4>1. h[1] \in RuleIds
        BY <2>1
      <4>2. owner[RuleKey(h[1], item)] = run
              <=> /\ IsPresent(item)
                  /\ {o \in applied : RuleName[o[1]] = RuleName[h[1]] /\ Fires(o, item)} # {}
        BY <2>2, <4>1 DEF RuleFindingsExact, IsPresent
      <4> QED
        BY <2>2, <3>1, <4>2
    <3>3. Fires(h, item) <=> holds(h)
      BY <2>2 DEF Fires
    <3> QED
      BY <3>2, <3>3
  <2>4. f # g /\ (IF none THEN ~holds(f) /\ ~holds(g) ELSE holds(f) <=> ~holds(g))
    <3>1. f[2].operator # g[2].operator
      BY <2>1, OppositeRules
    <3>2. IF none THEN ~holds(f) /\ ~holds(g) ELSE holds(f) <=> ~holds(g)
      BY <2>1, OppositeRules
    <3> QED
      BY <3>1, <3>2
  <2>5. reported = {h \in {f, g} : holds(h)}
    BY <2>3
  <2> HIDE DEF holds, none
  <2>6. reported = IF none THEN {} ELSE IF holds(f) THEN {f} ELSE {g}
    BY <2>4, <2>5
  <2>7. Cardinality(reported) = IF none THEN 0 ELSE 1
    <3>1. Cardinality({}) = 0 /\ Cardinality({f}) = 1 /\ Cardinality({g}) = 1
      BY FS_EmptySet, FS_Singleton
    <3> QED
      BY <2>6, <3>1
  <2> QED
    BY <2>7 DEF none
<1> QED
  BY <1>1, AnalysisSoFar, RulesAreApplied, PTL
=============================================================================
