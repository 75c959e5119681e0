------------------------- MODULE ScanPipelineProofs -------------------------
(***************************************************************************)
(* Proofs about ScanPipeline, for any number of scans, items, changes and   *)
(* faults: its types; that OPEN findings are duplicated only by scans that  *)
(* overlap; that what a successful scan found is sent; that a scan without  *)
(* company leaves the map as the provider listed it; that what never left   *)
(* the provider stays on the map unless a stalled write sets it back; and   *)
(* that rows are announced but for named causes.  TypeOK and OverlapInv, proved first, are what the others      *)
(* stand on; StepFrame says what a step of one run leaves to the others.    *)
(***************************************************************************)
EXTENDS ScanPipeline, FiniteSetTheorems, TLAPS

\* The keys the phases of a scan compute are keys: a change finding counts at most every
\* item added and every item removed.
LEMMA PhaseKeys ==
  ASSUME NEW S \in SUBSET Items, NEW T \in SUBSET Items
  PROVE  /\ \A p \in {"scanner", "topology", "custom"} : {p} \X S \subseteq Keys
         /\ <<"refused", 0>> \in Keys
         /\ Cardinality(S) + Cardinality(T) \in Nat
         /\ Cardinality(S) + Cardinality(T) > 0 =>
              <<"change", Cardinality(S) + Cardinality(T)>> \in Keys
<1> USE PipelineAssumption
<1>1. (\A p \in {"scanner", "topology", "custom"} : {p} \X S \subseteq Keys)
        /\ <<"refused", 0>> \in Keys
  BY DEF Keys
<1>2. Cardinality(Items) \in Nat
  BY FS_CardinalityType
<1>3. Cardinality(S) \in Nat /\ Cardinality(S) <= Cardinality(Items)
  BY FS_Subset, FS_CardinalityType
<1>4. Cardinality(T) \in Nat /\ Cardinality(T) <= Cardinality(Items)
  BY FS_Subset, FS_CardinalityType
<1>5. Cardinality(S) + Cardinality(T) > 0 => Cardinality(S) + Cardinality(T) \in Counts
  BY <1>2, <1>3, <1>4 DEF Counts
<1> QED
  BY <1>1, <1>3, <1>4, <1>5 DEF Keys

-----------------------------------------------------------------------------
(* Types *)

\* Nothing is scanned, found or sent at first.
LEMMA InitTypeOK == Init => TypeOK
<1> SUFFICES ASSUME Init PROVE TypeOK
  OBVIOUS
<1>1. /\ cloud \subseteq Items /\ resources \subseteq Items /\ announced \subseteq Items
      /\ overlaps \in SUBSET (SUBSET Runs) /\ notified \subseteq Keys
  BY PipelineAssumption DEF Init
<1>2. open \in [Keys -> [Runs -> Runs \cup {NoRun}]]
  BY DEF Init
<1>3. /\ usage \in Nat
      /\ changes \in 0..MaxChanges /\ faults \in 0..MaxFaults
  BY PipelineAssumption DEF Init
<1>4. /\ scanned \in BOOLEAN
      /\ status \in [Runs -> {"none", "running", "success", "failed"}]
      /\ pc \in [Runs -> {"idle", "loaded", "snapshot", "list", "upsert", "delete",
                          "compare", "change", "topology", "evaluate", "rules", "dispatch",
                          "done", "raised"}]
      /\ inserting \in [Runs -> Keys \cup {NoKey}]
      /\ writing \in [Runs -> Items \cup {NoItem}]
      /\ author \in [Items -> Runs \cup {NoRun}]
  BY DEF Init
<1>5. /\ had \in [Runs -> BOOLEAN]
      /\ previous \in [Runs -> SUBSET Items] /\ listed \in [Runs -> SUBSET Items]
      /\ todo \in [Runs -> SUBSET Items]     /\ fresh \in [Runs -> SUBSET Items]
      /\ removed \in [Runs -> SUBSET Items] /\ stamp \in [Runs -> SUBSET Runs]
      /\ backdated \in [Runs -> SUBSET Items]
      /\ keys \in [Runs -> SUBSET Keys]      /\ found \in [Runs -> SUBSET Keys]
  BY DEF Init
<1> QED
  BY <1>1, <1>2, <1>3, <1>4, <1>5 DEF TypeOK

\* A step of one scan keeps the types; what a phase will upsert are keys, by PhaseKeys.
LEMMA TypeStep ==
  ASSUME TypeOK, NEW r \in Runs, RunStep(r)
  PROVE  TypeOK'
<1> USE PipelineAssumption DEF TypeOK, Goto, PhaseEnds, dbVars, runVars, itemVars, rowHistory, history
<1>1. CASE LoadAccount(r)
  BY <1>1 DEF LoadAccount
<1>2. CASE StartRun(r)
  BY <1>2 DEF StartRun
<1>3. CASE Snapshot(r)
  BY <1>3 DEF Snapshot
<1>4. ASSUME NEW S \in SUBSET Items, NEW notes \in SUBSET {<<"refused", 0>>},
             Listing(r, S, notes), faults' \in 0..MaxFaults
      PROVE  TypeOK'
  <2>1. ({"scanner"} \X (S \cap Alarming)) \cup notes \subseteq Keys
    BY PhaseKeys
  <2>2. keys' \in [Runs -> SUBSET Keys]
    BY <1>4, <2>1 DEF Listing
  <2> QED
    BY <1>4, <2>2 DEF Listing
<1>5. CASE List(r)
  BY <1>4, <1>5 DEF List
<1>6. CASE ListRefused(r)
  <2>1. PICK notes \in SUBSET {<<"refused", 0>>} : Listing(r, cloud \ Guarded, notes)
    BY <1>6 DEF ListRefused
  <2>2. faults' \in 0..MaxFaults
    BY <1>6 DEF ListRefused
  <2>3. cloud \ Guarded \in SUBSET Items
    OBVIOUS
  <2> QED
    BY <1>4, <2>1, <2>2, <2>3
<1>7. CASE StampItem(r) \/ UpsertItem(r)
  <2>1. CASE StampItem(r)
    BY <2>1 DEF StampItem
  <2>2. CASE UpsertItem(r)
    BY <2>2 DEF UpsertItem
  <2> QED
    BY <1>7, <2>1, <2>2
<1>8. CASE ScannerRaises(r)
  BY <1>8 DEF ScannerRaises, Fail
<1>9. CASE InsertFinding(r)
  BY <1>9 DEF InsertFinding
<1>10. ASSUME NEW k \in Keys, UpdateFinding(r, k) PROVE TypeOK'
  BY <1>10 DEF UpdateFinding
<1>11. ASSUME NEW k \in Keys, MissFinding(r, k) PROVE TypeOK'
  BY <1>11 DEF MissFinding
<1>12. ASSUME NEW k \in Keys, DuplicateFailsScan(r, k) PROVE TypeOK'
  BY <1>12 DEF DuplicateFailsScan, Fail
<1>13. ASSUME NEW k \in Keys, DuplicateEscapes(r, k) PROVE TypeOK'
  BY <1>13 DEF DuplicateEscapes
<1>14. CASE ReadStale(r)
  BY <1>14 DEF ReadStale
<1>15. CASE DeleteStale(r)
  BY <1>15 DEF DeleteStale
<1>16. CASE Compare(r)
  <2>1. Added(r) \in SUBSET Items /\ removed[r] \in SUBSET Items
    BY DEF Added
  <2> DEFINE total == Cardinality(Added(r)) + Cardinality(removed[r])
  <2>2. total > 0 => <<"change", total>> \in Keys
    BY <2>1, PhaseKeys
  <2> HIDE DEF total
  <2>3. keys' \in [Runs -> SUBSET Keys]
    BY <1>16, <2>2 DEF Compare, total
  <2> QED
    BY <1>16, <2>1, <2>3 DEF Compare
<1>17. CASE AnalyzeTopology(r)
  BY <1>17, PhaseKeys DEF AnalyzeTopology
<1>18. CASE MarkSuccess(r)
  BY <1>18 DEF MarkSuccess
<1>19. CASE EvaluateRules(r)
  BY <1>19, PhaseKeys DEF EvaluateRules
<1>20. CASE RecordUsage(r)
  BY <1>20 DEF RecordUsage
<1>21. CASE Dispatch(r)
  BY <1>21 DEF Dispatch, Owned
<1>22. CASE DispatchRaises(r)
  BY <1>22 DEF DispatchRaises
<1> QED
  BY <1>1, <1>2, <1>3, <1>5, <1>6, <1>7, <1>8, <1>9, <1>10, <1>11, <1>12, <1>13, <1>14,
     <1>15, <1>16, <1>17, <1>18, <1>19, <1>20, <1>21, <1>22 DEF RunStep

\* So does every step of the system.
LEMMA TypeNext == TypeOK /\ [Next]_vars => TypeOK'
<1> SUFFICES ASSUME TypeOK, [Next]_vars
             PROVE  TypeOK'
  OBVIOUS
<1>1. ASSUME NEW x \in Items, CloudChanges(x) PROVE TypeOK'
  BY <1>1, PipelineAssumption DEF CloudChanges, TypeOK, dbVars, runVars, itemVars, rowHistory
<1>2. CASE UNCHANGED vars
  BY <1>2 DEF vars, dbVars, runVars, itemVars, rowHistory, history, TypeOK
<1> QED
  BY <1>1, <1>2, TypeStep DEF Next

\* The types of run_scan_pipeline's model hold for any number of scans: the counts of a
\* change finding stay within what the map can have added and removed.
THEOREM TypeCorrect == Spec => []TypeOK
BY InitTypeOK, TypeNext, PTL DEF Spec

-----------------------------------------------------------------------------
(* What a step of a run leaves alone *)

\* A finding is inserted in a phase that upserts findings, the one that looked it up; an
\* item is written by the scanner, with a time its run has had its start before.
InPhase ==
  \A r \in Runs :
    /\ inserting[r] # NoKey => pc[r] \in FindingPhases
    /\ writing[r] # NoItem => pc[r] = "upsert" /\ writing[r] \in todo[r] /\ r \in stamp[r]

\* A phase ends with nothing left to insert, and what fails the scan leaves the phases.
LEMMA InPhaseStep ==
  ASSUME TypeOK, InPhase, NEW r \in Runs, RunStep(r)
  PROVE  InPhase'
<1> USE DEF TypeOK, InPhase, FindingPhases, Goto, PhaseEnds, Upserting, dbVars, runVars, itemVars, rowHistory
<1>1. CASE LoadAccount(r)
  BY <1>1 DEF LoadAccount
<1>2. CASE StartRun(r)
  BY <1>2 DEF StartRun
<1>3. CASE Snapshot(r)
  BY <1>3 DEF Snapshot
<1>4. CASE List(r)
  BY <1>4 DEF List, Listing
<1>5. CASE ListRefused(r)
  BY <1>5 DEF ListRefused, Listing
<1>6. CASE StampItem(r) \/ UpsertItem(r)
  BY <1>6 DEF StampItem, UpsertItem
<1>7. CASE ScannerRaises(r)
  BY <1>7 DEF ScannerRaises, Fail
<1>8. CASE InsertFinding(r)
  BY <1>8 DEF InsertFinding
<1>9. CASE \E k \in Keys : UpdateFinding(r, k)
  BY <1>9 DEF UpdateFinding
<1>10. CASE \E k \in Keys : MissFinding(r, k)
  BY <1>10 DEF MissFinding
<1>11. CASE \E k \in Keys : DuplicateFailsScan(r, k)
  BY <1>11 DEF DuplicateFailsScan, Fail
<1>12. CASE \E k \in Keys : DuplicateEscapes(r, k)
  BY <1>12 DEF DuplicateEscapes
<1>13. CASE ReadStale(r)
  BY <1>13 DEF ReadStale
<1>14. CASE DeleteStale(r)
  BY <1>14 DEF DeleteStale
<1>15. CASE Compare(r)
  BY <1>15 DEF Compare
<1>16. CASE AnalyzeTopology(r)
  BY <1>16 DEF AnalyzeTopology
<1>17. CASE MarkSuccess(r)
  BY <1>17 DEF MarkSuccess
<1>18. CASE EvaluateRules(r)
  BY <1>18 DEF EvaluateRules
<1>19. CASE RecordUsage(r)
  BY <1>19 DEF RecordUsage
<1>20. CASE Dispatch(r)
  BY <1>20 DEF Dispatch
<1>21. CASE DispatchRaises(r)
  BY <1>21 DEF DispatchRaises
<1> QED
  BY <1>1, <1>2, <1>3, <1>4, <1>5, <1>6, <1>7, <1>8, <1>9, <1>10, <1>11, <1>12, <1>13,
     <1>14, <1>15, <1>16, <1>17, <1>18, <1>19, <1>20, <1>21 DEF RunStep

\* A step of a run is a step of a run in progress, or its first; it moves no other run
\* and takes back no overlap.
LEMMA StepFrame ==
  ASSUME TypeOK, InPhase, NEW r \in Runs, RunStep(r)
  PROVE  /\ \A s \in Runs \ {r} :
              /\ pc'[s] = pc[s] /\ status'[s] = status[s]
              /\ previous'[s] = previous[s] /\ listed'[s] = listed[s]
              /\ todo'[s] = todo[s] /\ removed'[s] = removed[s]
              /\ keys'[s] = keys[s] /\ inserting'[s] = inserting[s]
              /\ found'[s] = found[s]
         /\ Active(r) \/ LoadAccount(r)
         /\ cloud' = cloud /\ changes' = changes
         /\ overlaps \subseteq overlaps'
<1> USE DEF TypeOK, Goto, PhaseEnds, dbVars, runVars, itemVars, rowHistory, history, Active
<1>1. CASE LoadAccount(r)
  BY <1>1 DEF LoadAccount
<1>2. CASE StartRun(r)
  BY <1>2 DEF StartRun
<1>3. CASE Snapshot(r)
  BY <1>3 DEF Snapshot
<1>4. CASE List(r)
  BY <1>4 DEF List, Listing
<1>5. CASE ListRefused(r)
  BY <1>5 DEF ListRefused, Listing
<1>6. CASE StampItem(r) \/ UpsertItem(r)
  <2>1. CASE StampItem(r)
    BY <2>1 DEF StampItem
  <2>2. CASE UpsertItem(r)
    BY <2>2 DEF UpsertItem, InPhase
  <2> QED
    BY <1>6, <2>1, <2>2
<1>7. CASE ScannerRaises(r)
  BY <1>7 DEF ScannerRaises, Fail
<1>8. CASE InsertFinding(r)
  BY <1>8 DEF InsertFinding, InPhase, FindingPhases
<1>9. CASE \E k \in Keys : UpdateFinding(r, k)
  BY <1>9 DEF UpdateFinding, Upserting, FindingPhases
<1>10. CASE \E k \in Keys : MissFinding(r, k)
  BY <1>10 DEF MissFinding, Upserting, FindingPhases
<1>11. CASE \E k \in Keys : DuplicateFailsScan(r, k)
  BY <1>11 DEF DuplicateFailsScan, Fail, Upserting, FindingPhases
<1>12. CASE \E k \in Keys : DuplicateEscapes(r, k)
  BY <1>12 DEF DuplicateEscapes, Upserting, FindingPhases
<1>13. CASE ReadStale(r)
  BY <1>13 DEF ReadStale
<1>14. CASE DeleteStale(r)
  BY <1>14 DEF DeleteStale
<1>15. CASE Compare(r)
  BY <1>15 DEF Compare
<1>16. CASE AnalyzeTopology(r)
  BY <1>16 DEF AnalyzeTopology
<1>17. CASE MarkSuccess(r)
  BY <1>17 DEF MarkSuccess
<1>18. CASE EvaluateRules(r)
  BY <1>18 DEF EvaluateRules
<1>19. CASE RecordUsage(r)
  BY <1>19 DEF RecordUsage
<1>20. CASE Dispatch(r)
  BY <1>20 DEF Dispatch
<1>21. CASE DispatchRaises(r)
  BY <1>21 DEF DispatchRaises
<1> QED
  BY <1>1, <1>2, <1>3, <1>4, <1>5, <1>6, <1>7, <1>8, <1>9, <1>10, <1>11, <1>12, <1>13,
     <1>14, <1>15, <1>16, <1>17, <1>18, <1>19, <1>20, <1>21 DEF RunStep

-----------------------------------------------------------------------------
(* Overlaps, and duplicates *)

\* Two runs that are in progress together overlap, and the history says so.
ActiveOverlap == \A r, s \in Runs : r # s /\ Active(r) /\ Active(s) => {r, s} \in overlaps

\* Whoever inserts a finding looked it up and found no row, so a row that another run
\* has inserted since is the row of a run it overlaps.
InsertersOverlap ==
  \A r \in Runs : inserting[r] # NoKey =>
    \A c \in Copies(inserting[r]) : c # r => {c, r} \in overlaps

\* The inductive invariant: the lookup and the INSERT of update_or_create are two steps.
OverlapInv ==
  /\ TypeOK
  /\ InPhase
  /\ ActiveOverlap
  /\ InsertersOverlap
  /\ DuplicatesNeedOverlap

\* A run enters among those in progress with LoadAccount, which records whom it met.
LEMMA CompanyIsRecorded ==
  ASSUME TypeOK, InPhase, ActiveOverlap, NEW r \in Runs, RunStep(r)
  PROVE  /\ \A s \in Runs \ {r} : Active(s) => {r, s} \in overlaps'
         /\ ActiveOverlap'
<1>1. ASSUME NEW s \in Runs \ {r}, Active(s) PROVE {r, s} \in overlaps'
  <2>1. CASE Active(r)
    BY <1>1, <2>1, StepFrame DEF ActiveOverlap
  <2>2. CASE LoadAccount(r)
    BY <1>1, <2>2 DEF LoadAccount
  <2> QED
    BY <2>1, <2>2, StepFrame
<1>2. ASSUME NEW a \in Runs, NEW b \in Runs, a # b, Active(a)', Active(b)'
      PROVE  {a, b} \in overlaps'
  <2>1. CASE a = r
    <3>1. Active(b)
      BY <1>2, <2>1, StepFrame DEF Active
    <3> QED
      BY <1>1, <1>2, <2>1, <3>1
  <2>2. CASE b = r
    <3>1. Active(a) /\ {a, b} = {b, a}
      BY <1>2, <2>2, StepFrame DEF Active
    <3> QED
      BY <1>1, <1>2, <2>2, <3>1
  <2>3. CASE a # r /\ b # r
    <3>1. Active(a) /\ Active(b)
      BY <1>2, <2>3, StepFrame DEF Active
    <3> QED
      BY <1>2, <3>1, StepFrame DEF ActiveOverlap
  <2> QED
    BY <2>1, <2>2, <2>3
<1> QED
  BY <1>1, <1>2 DEF ActiveOverlap

\* Only an INSERT makes a row of a key, and only a lookup that finds none leads to one.
LEMMA RowsFrame ==
  ASSUME TypeOK, InPhase, NEW r \in Runs, RunStep(r)
  PROVE  /\ \A k \in Keys, c \in Runs : open'[k][c] # NoRun =>
              \/ open[k][c] # NoRun
              \/ k = inserting[r] /\ c = r /\ inserting'[r] = NoKey
         /\ \/ inserting'[r] \in {inserting[r], NoKey}
            \/ \A c \in Runs : open'[inserting'[r]][c] = NoRun
<1> USE PipelineAssumption
    DEF TypeOK, Copies, Goto, PhaseEnds, Upserting, dbVars, runVars, itemVars, rowHistory
<1>1. CASE LoadAccount(r)
  BY <1>1 DEF LoadAccount
<1>2. CASE StartRun(r)
  BY <1>2 DEF StartRun
<1>3. CASE Snapshot(r)
  BY <1>3 DEF Snapshot
<1>4. CASE List(r)
  BY <1>4 DEF List, Listing
<1>5. CASE ListRefused(r)
  BY <1>5 DEF ListRefused, Listing
<1>6. CASE StampItem(r) \/ UpsertItem(r)
  BY <1>6 DEF StampItem, UpsertItem
<1>7. CASE ScannerRaises(r)
  BY <1>7 DEF ScannerRaises, Fail
<1>8. CASE InsertFinding(r)
  BY <1>8 DEF InsertFinding
<1>9. CASE \E k \in Keys : UpdateFinding(r, k)
  BY <1>9 DEF UpdateFinding
<1>10. CASE \E k \in Keys : MissFinding(r, k)
  <2>1. PICK k \in Keys : MissFinding(r, k)
    BY <1>10
  <2>2. inserting'[r] = k /\ open' = open /\ \A c \in Runs : open[k][c] = NoRun
    BY <2>1 DEF MissFinding
  <2> QED
    BY <2>2
<1>11. CASE \E k \in Keys : DuplicateFailsScan(r, k)
  BY <1>11 DEF DuplicateFailsScan, Fail
<1>12. CASE \E k \in Keys : DuplicateEscapes(r, k)
  BY <1>12 DEF DuplicateEscapes
<1>13. CASE ReadStale(r)
  BY <1>13 DEF ReadStale
<1>14. CASE DeleteStale(r)
  BY <1>14 DEF DeleteStale
<1>15. CASE Compare(r)
  BY <1>15 DEF Compare
<1>16. CASE AnalyzeTopology(r)
  BY <1>16 DEF AnalyzeTopology
<1>17. CASE MarkSuccess(r)
  BY <1>17 DEF MarkSuccess
<1>18. CASE EvaluateRules(r)
  BY <1>18 DEF EvaluateRules
<1>19. CASE RecordUsage(r)
  BY <1>19 DEF RecordUsage
<1>20. CASE Dispatch(r)
  BY <1>20 DEF Dispatch
<1>21. CASE DispatchRaises(r)
  BY <1>21 DEF DispatchRaises
<1> QED
  BY <1>1, <1>2, <1>3, <1>4, <1>5, <1>6, <1>7, <1>8, <1>9, <1>10, <1>11, <1>12, <1>13,
     <1>14, <1>15, <1>16, <1>17, <1>18, <1>19, <1>20, <1>21 DEF RunStep

\* The four conjuncts after the types are preserved together.
LEMMA OverlapStep ==
  ASSUME OverlapInv, NEW r \in Runs, RunStep(r)
  PROVE  OverlapInv'
<1>1. TypeOK' /\ InPhase' /\ ActiveOverlap'
  BY TypeStep, InPhaseStep, CompanyIsRecorded DEF OverlapInv
<1>2. ASSUME NEW a \in Runs, inserting'[a] # NoKey,
             NEW c \in Runs, open'[inserting'[a]][c] # NoRun, c # a
      PROVE  {c, a} \in overlaps'
  <2>1. inserting'[a] \in Keys
    BY <1>1, <1>2 DEF TypeOK
  <2>2. CASE a = r
    <3>1. inserting'[a] = inserting[a] /\ open[inserting[a]][c] # NoRun
      BY <1>2, <2>1, <2>2, RowsFrame DEF OverlapInv
    <3> QED
      BY <1>2, <3>1, StepFrame DEF OverlapInv, InsertersOverlap, Copies
  <2>3. CASE a # r
    <3>1. inserting'[a] = inserting[a] /\ Active(a)
      BY <1>2, <2>3, StepFrame DEF OverlapInv, InPhase, FindingPhases, Active
    <3>2. open[inserting[a]][c] # NoRun \/ c = r
      BY <1>2, <2>1, <3>1, RowsFrame DEF OverlapInv
    <3>3. CASE open[inserting[a]][c] # NoRun
      BY <1>2, <3>1, <3>3, StepFrame DEF OverlapInv, InsertersOverlap, Copies
    <3>4. CASE c = r
      BY <2>3, <3>1, <3>4, CompanyIsRecorded DEF OverlapInv
    <3> QED
      BY <3>2, <3>3, <3>4
  <2> QED
    BY <2>2, <2>3
<1>3. ASSUME NEW k \in Keys, NEW c \in Runs, NEW d \in Runs, c # d,
             open'[k][c] # NoRun, open'[k][d] # NoRun
      PROVE  {c, d} \in overlaps'
  <2>1. CASE open[k][c] # NoRun /\ open[k][d] # NoRun
    BY <1>3, <2>1, StepFrame DEF OverlapInv, DuplicatesNeedOverlap, Copies
  <2>2. ASSUME k = inserting[r], NEW e \in Runs, e # r, open'[k][e] # NoRun
        PROVE  {e, r} \in overlaps'
    <3>1. open[k][e] # NoRun /\ inserting[r] # NoKey
      BY <2>2, RowsFrame, PipelineAssumption DEF OverlapInv
    <3> QED
      BY <2>2, <3>1, StepFrame DEF OverlapInv, InsertersOverlap, Copies
  <2>3. {c, d} = {d, c}
    OBVIOUS
  <2> QED
    BY <1>3, <2>1, <2>2, <2>3, RowsFrame DEF OverlapInv
<1>4. InsertersOverlap'
  BY <1>2 DEF InsertersOverlap, Copies
<1>5. DuplicatesNeedOverlap'
  BY <1>3 DEF DuplicatesNeedOverlap, Copies
<1> QED
  BY <1>1, <1>4, <1>5 DEF OverlapInv

\* The inductive invariant behind the duplicates: the lookup and the INSERT of
\* update_or_create are two statements, and between them only a scan in progress inserts.
THEOREM Overlaps == Spec => []OverlapInv
<1>1. Init => OverlapInv
  <2> SUFFICES ASSUME Init PROVE OverlapInv
    OBVIOUS
  <2>1. \A k \in Keys : Copies(k) = {}
    BY DEF Init, Copies
  <2> QED
    BY <2>1, InitTypeOK
    DEF Init, OverlapInv, InPhase, ActiveOverlap, Active, InsertersOverlap, DuplicatesNeedOverlap
<1>2. OverlapInv /\ [Next]_vars => OverlapInv'
  <2> SUFFICES ASSUME OverlapInv, [Next]_vars
               PROVE  OverlapInv'
    OBVIOUS
  <2>1. ASSUME NEW x \in Items, CloudChanges(x) PROVE OverlapInv'
    <3>1. TypeOK'
      BY <2>1, TypeNext DEF OverlapInv, Next
    <3> QED
      BY <2>1, <3>1 DEF CloudChanges, dbVars, runVars, itemVars, rowHistory, OverlapInv, InPhase,
         ActiveOverlap, Active, InsertersOverlap, DuplicatesNeedOverlap, Copies
  <2>2. CASE UNCHANGED vars
    <3>1. TypeOK'
      BY <2>2, TypeNext DEF OverlapInv
    <3> QED
      BY <2>2, <3>1 DEF vars, dbVars, runVars, itemVars, rowHistory, history, OverlapInv, InPhase,
         ActiveOverlap, Active, InsertersOverlap, DuplicatesNeedOverlap, Copies
  <2> QED
    BY <2>1, <2>2, OverlapStep DEF Next
<1> QED
  BY <1>1, <1>2, PTL DEF Spec

\* Two OPEN rows with one key are the rows of two scans that were in progress at the same
\* time (upsert_finding): scans that follow one another keep one row per problem.
THEOREM NoDuplicatesWithoutOverlap == Spec => []DuplicatesNeedOverlap
<1>1. OverlapInv => DuplicatesNeedOverlap
  BY DEF OverlapInv
<1> QED
  BY <1>1, Overlaps, PTL

-----------------------------------------------------------------------------
(* What was found is sent *)

\* What was found was sent, or is held by a run that has yet to send, or that failed.
Held(k) == \E s \in Runs : k \in Owned(s) /\ (pc[s] # "done" \/ status[s] = "failed")

FoundIsHeld == \A r \in Runs : \A k \in found[r] : k \in notified \/ Held(k)

\* An OPEN finding leaves a run only for the run that upserts it, and what a run has
\* upserted is its own; what was sent is to be sent again only when a run upserts it.
LEMMA OwnedFrame ==
  ASSUME TypeOK, InPhase, NEW r \in Runs, RunStep(r)
  PROVE  /\ \A k \in Keys, s \in Runs : k \in Owned(s) =>
              k \in Owned(s)' \/ (k \in Owned(r)' /\ pc'[r] # "done")
         /\ \A k \in found'[r] : k \in found[r] \/ (k \in Owned(r)' /\ pc'[r] # "done")
         /\ \A k \in notified : k \in notified' \/ (k \in Owned(r)' /\ pc'[r] # "done")
<1> USE PipelineAssumption
    DEF TypeOK, Owned, InPhase, FindingPhases, Goto, PhaseEnds, Upserting, dbVars, runVars, itemVars, rowHistory, history
<1>1. CASE LoadAccount(r)
  BY <1>1 DEF LoadAccount
<1>2. CASE StartRun(r)
  BY <1>2 DEF StartRun
<1>3. CASE Snapshot(r)
  BY <1>3 DEF Snapshot
<1>4. CASE List(r)
  BY <1>4 DEF List, Listing
<1>5. CASE ListRefused(r)
  BY <1>5 DEF ListRefused, Listing
<1>6. CASE StampItem(r) \/ UpsertItem(r)
  BY <1>6 DEF StampItem, UpsertItem
<1>7. CASE ScannerRaises(r)
  BY <1>7 DEF ScannerRaises, Fail
<1>8. CASE InsertFinding(r)
  <2> DEFINE k == inserting[r]
  <2>1. k \in Keys /\ open' = [open EXCEPT ![k][r] = r]
    BY <1>8 DEF InsertFinding
  <2>2. /\ open'[k][r] = r /\ pc'[r] # "done" /\ found'[r] = found[r] \cup {k}
        /\ notified' = notified \ {k}
    BY <1>8, <2>1 DEF InsertFinding
  <2>3. \A j \in Keys, d \in Runs : j # k \/ d # r => open'[j][d] = open[j][d]
    BY <2>1
  <2> HIDE DEF k
  <2> QED
    BY <2>1, <2>2, <2>3
<1>9. CASE \E k \in Keys : UpdateFinding(r, k)
  <2>1. PICK k \in Keys : UpdateFinding(r, k)
    BY <1>9
  <2>2. PICK c \in Runs : open' = [open EXCEPT ![k][c] = r]
    BY <2>1 DEF UpdateFinding
  <2>3. /\ open'[k][c] = r /\ pc'[r] # "done" /\ found'[r] = found[r] \cup {k}
        /\ notified' = notified \ {k}
    BY <2>1, <2>2 DEF UpdateFinding
  <2>4. \A j \in Keys, d \in Runs : j # k \/ d # c => open'[j][d] = open[j][d]
    BY <2>2
  <2>5. k \in Owned(r)'
    BY <2>3
  <2>6. \A j \in Keys, s \in Runs : j \in Owned(s) => j \in Owned(s)' \/ j = k
    BY <2>4
  <2> QED
    BY <2>3, <2>5, <2>6
<1>10. CASE \E k \in Keys : MissFinding(r, k)
  BY <1>10 DEF MissFinding
<1>11. CASE \E k \in Keys : DuplicateFailsScan(r, k)
  BY <1>11 DEF DuplicateFailsScan, Fail
<1>12. CASE \E k \in Keys : DuplicateEscapes(r, k)
  BY <1>12 DEF DuplicateEscapes
<1>13. CASE ReadStale(r)
  BY <1>13 DEF ReadStale
<1>14. CASE DeleteStale(r)
  BY <1>14 DEF DeleteStale
<1>15. CASE Compare(r)
  BY <1>15 DEF Compare
<1>16. CASE AnalyzeTopology(r)
  BY <1>16 DEF AnalyzeTopology
<1>17. CASE MarkSuccess(r)
  BY <1>17 DEF MarkSuccess
<1>18. CASE EvaluateRules(r)
  BY <1>18 DEF EvaluateRules
<1>19. CASE RecordUsage(r)
  BY <1>19 DEF RecordUsage
<1>20. CASE Dispatch(r)
  BY <1>20 DEF Dispatch
<1>21. CASE DispatchRaises(r)
  BY <1>21 DEF DispatchRaises
<1> QED
  BY <1>1, <1>2, <1>3, <1>4, <1>5, <1>6, <1>7, <1>8, <1>9, <1>10, <1>11, <1>12, <1>13,
     <1>14, <1>15, <1>16, <1>17, <1>18, <1>19, <1>20, <1>21 DEF RunStep

\* A run that is done has failed, or has just sent all it held.
LEMMA DoneFrame ==
  ASSUME TypeOK, InPhase, NEW r \in Runs, RunStep(r)
  PROVE  /\ pc[r] # "done"
         /\ pc'[r] = "done" => status'[r] = "failed" \/ Owned(r) \subseteq notified'
<1> USE DEF TypeOK, InPhase, FindingPhases, Goto, PhaseEnds, Upserting, dbVars, runVars, itemVars, rowHistory, history
<1>1. CASE LoadAccount(r)
  BY <1>1 DEF LoadAccount
<1>2. CASE StartRun(r)
  BY <1>2 DEF StartRun
<1>3. CASE Snapshot(r)
  BY <1>3 DEF Snapshot
<1>4. CASE List(r)
  BY <1>4 DEF List, Listing
<1>5. CASE ListRefused(r)
  BY <1>5 DEF ListRefused, Listing
<1>6. CASE StampItem(r) \/ UpsertItem(r)
  BY <1>6 DEF StampItem, UpsertItem
<1>7. CASE ScannerRaises(r)
  BY <1>7 DEF ScannerRaises, Fail
<1>8. CASE InsertFinding(r)
  BY <1>8 DEF InsertFinding
<1>9. CASE \E k \in Keys : UpdateFinding(r, k)
  BY <1>9 DEF UpdateFinding
<1>10. CASE \E k \in Keys : MissFinding(r, k)
  BY <1>10 DEF MissFinding
<1>11. CASE \E k \in Keys : DuplicateFailsScan(r, k)
  BY <1>11 DEF DuplicateFailsScan, Fail
<1>12. CASE \E k \in Keys : DuplicateEscapes(r, k)
  BY <1>12 DEF DuplicateEscapes
<1>13. CASE ReadStale(r)
  BY <1>13 DEF ReadStale
<1>14. CASE DeleteStale(r)
  BY <1>14 DEF DeleteStale
<1>15. CASE Compare(r)
  BY <1>15 DEF Compare
<1>16. CASE AnalyzeTopology(r)
  BY <1>16 DEF AnalyzeTopology
<1>17. CASE MarkSuccess(r)
  BY <1>17 DEF MarkSuccess
<1>18. CASE EvaluateRules(r)
  BY <1>18 DEF EvaluateRules
<1>19. CASE RecordUsage(r)
  BY <1>19 DEF RecordUsage
<1>20. CASE Dispatch(r)
  BY <1>20 DEF Dispatch
<1>21. CASE DispatchRaises(r)
  BY <1>21 DEF DispatchRaises
<1> QED
  BY <1>1, <1>2, <1>3, <1>4, <1>5, <1>6, <1>7, <1>8, <1>9, <1>10, <1>11, <1>12, <1>13,
     <1>14, <1>15, <1>16, <1>17, <1>18, <1>19, <1>20, <1>21 DEF RunStep

\* Whoever upserts a finding takes it over before the run that held it can be blamed.
LEMMA HeldStep ==
  ASSUME TypeOK, InPhase, FoundIsHeld, NEW r \in Runs, RunStep(r)
  PROVE  FoundIsHeld'
<1>1. ASSUME NEW k \in Keys, k \in notified \/ Held(k)
      PROVE  k \in notified' \/ Held(k)'
  <2>1. CASE k \in notified
    BY <2>1, OwnedFrame DEF Held
  <2>2. ASSUME NEW s \in Runs, k \in Owned(s), pc[s] # "done" \/ status[s] = "failed"
        PROVE  k \in notified' \/ Held(k)'
    <3>1. CASE k \in Owned(r)' /\ pc'[r] # "done"
      BY <3>1 DEF Held
    <3>2. CASE k \in Owned(s)' /\ s # r
      BY <2>2, <3>2, StepFrame DEF Held
    <3>3. CASE k \in Owned(s)' /\ s = r
      BY <2>2, <3>3, DoneFrame DEF Held
    <3> QED
      BY <2>2, <3>1, <3>2, <3>3, OwnedFrame
  <2> QED
    BY <1>1, <2>1, <2>2 DEF Held
<1>2. ASSUME NEW a \in Runs, NEW k \in found'[a] PROVE k \in notified' \/ Held(k)'
  <2>1. k \in Keys
    BY <1>2, TypeStep DEF TypeOK
  <2>2. CASE k \in found[a]
    BY <1>1, <2>1, <2>2 DEF FoundIsHeld
  <2>3. CASE a = r /\ k \in Owned(r)' /\ pc'[r] # "done"
    BY <2>3 DEF Held
  <2> QED
    BY <1>2, <2>2, <2>3, OwnedFrame, StepFrame
<1> QED
  BY <1>2 DEF FoundIsHeld

\* What a successful scan has found is sent by it (dispatch_scan_notifications), or by the
\* scan that took it over, unless that one is still going, failed or raised.
THEOREM SuccessIsSent == Spec => []FoundIsNotified
<1>1. Init => FoundIsHeld
  BY DEF Init, FoundIsHeld
<1>2. OverlapInv /\ FoundIsHeld /\ [Next]_vars => FoundIsHeld'
  <2> SUFFICES ASSUME OverlapInv, FoundIsHeld, [Next]_vars
               PROVE  FoundIsHeld'
    OBVIOUS
  <2>1. ASSUME NEW x \in Items, CloudChanges(x) PROVE FoundIsHeld'
    BY <2>1 DEF CloudChanges, dbVars, runVars, itemVars, rowHistory, FoundIsHeld, Held, Owned
  <2>2. CASE UNCHANGED vars
    BY <2>2 DEF vars, dbVars, runVars, itemVars, rowHistory, history, FoundIsHeld, Held, Owned
  <2> QED
    BY <2>1, <2>2, HeldStep DEF Next, OverlapInv
<1>3. FoundIsHeld => FoundIsNotified
  BY DEF FoundIsHeld, Held, FoundIsNotified
<1> QED
  BY <1>1, <1>2, <1>3, Overlaps, PTL DEF Spec

-----------------------------------------------------------------------------
(* A scan without company *)

\* How a scan comes to hold the provider's answer: what it has upserted is what it has
\* seen, what it has not seen is deleted, and until then the rows it found stay.
LoneProgress(r) ==
  /\ pc[r] \in {"snapshot", "list"} => fresh[r] = {}
  /\ pc[r] = "upsert" => listed[r] = fresh[r] \cup todo[r] /\ fresh[r] \subseteq resources
  /\ pc[r] = "delete" => listed[r] = fresh[r] /\ fresh[r] \subseteq resources
  /\ pc[r] \in {"compare", "change", "topology", "evaluate", "rules", "dispatch"} =>
       resources = listed[r]
  /\ pc[r] \in {"list", "upsert", "delete"} => previous[r] \subseteq resources

\* Every scan without company so far makes that progress.
LoneInv == \A r \in Runs : Alone(r) => LoneProgress(r)

\* The run's own steps, alone or not.
LEMMA OwnProgress ==
  ASSUME TypeOK, InPhase, NEW r \in Runs, RunStep(r), LoneProgress(r)
  PROVE  LoneProgress(r)'
<1> USE DEF TypeOK, InPhase, LoneProgress, Goto, PhaseEnds, Upserting, dbVars, runVars, itemVars, rowHistory, history
<1>1. CASE LoadAccount(r)
  BY <1>1 DEF LoadAccount
<1>2. CASE StartRun(r)
  BY <1>2 DEF StartRun
<1>3. CASE Snapshot(r)
  BY <1>3 DEF Snapshot
<1>4. CASE List(r)
  BY <1>4 DEF List, Listing
<1>5. CASE ListRefused(r)
  BY <1>5 DEF ListRefused, Listing
<1>6. CASE StampItem(r) \/ UpsertItem(r)
  BY <1>6 DEF StampItem, UpsertItem
<1>7. CASE ScannerRaises(r)
  BY <1>7 DEF ScannerRaises, Fail
<1>8. CASE InsertFinding(r)
  BY <1>8 DEF InsertFinding
<1>9. CASE \E k \in Keys : UpdateFinding(r, k)
  BY <1>9 DEF UpdateFinding
<1>10. CASE \E k \in Keys : MissFinding(r, k)
  BY <1>10 DEF MissFinding
<1>11. CASE \E k \in Keys : DuplicateFailsScan(r, k)
  BY <1>11 DEF DuplicateFailsScan, Fail
<1>12. CASE \E k \in Keys : DuplicateEscapes(r, k)
  BY <1>12 DEF DuplicateEscapes
<1>13. CASE ReadStale(r)
  BY <1>13 DEF ReadStale
<1>14. CASE DeleteStale(r)
  BY <1>14 DEF DeleteStale
<1>15. CASE Compare(r)
  BY <1>15 DEF Compare
<1>16. CASE AnalyzeTopology(r)
  BY <1>16 DEF AnalyzeTopology
<1>17. CASE MarkSuccess(r)
  BY <1>17 DEF MarkSuccess
<1>18. CASE EvaluateRules(r)
  BY <1>18 DEF EvaluateRules
<1>19. CASE RecordUsage(r)
  BY <1>19 DEF RecordUsage
<1>20. CASE Dispatch(r)
  BY <1>20 DEF Dispatch
<1>21. CASE DispatchRaises(r)
  BY <1>21 DEF DispatchRaises
<1> QED
  BY <1>1, <1>2, <1>3, <1>4, <1>5, <1>6, <1>7, <1>8, <1>9, <1>10, <1>11, <1>12, <1>13,
     <1>14, <1>15, <1>16, <1>17, <1>18, <1>19, <1>20, <1>21 DEF RunStep

\* A step of another run is a step of a run it overlaps, unless it is not in progress.
LEMMA LoneStep ==
  ASSUME OverlapInv, LoneInv, NEW r \in Runs, RunStep(r)
  PROVE  LoneInv'
<1> SUFFICES ASSUME NEW a \in Runs, Alone(a)' PROVE LoneProgress(a)'
  BY DEF LoneInv
<1>1. Alone(a)
  BY StepFrame DEF Alone, OverlapInv
<1>2. CASE a = r
  BY <1>1, <1>2, OwnProgress DEF LoneInv, OverlapInv
<1>3. CASE a # r
  <2>1. ~ Active(a)
    <3>1. {a, r} = {r, a} /\ {a, r} \notin overlaps'
      BY DEF Alone
    <3> QED
      BY <1>3, <3>1, CompanyIsRecorded DEF OverlapInv
  <2>2. pc'[a] = pc[a]
    BY <1>3, StepFrame DEF OverlapInv
  <2> QED
    BY <2>1, <2>2 DEF Active, LoneProgress
<1> QED
  BY <1>2, <1>3

\* The invariant of a scan without company, by induction on its own steps only.
THEOREM LoneScans == Spec => []LoneInv
<1>1. Init => LoneInv
  BY DEF Init, LoneInv, LoneProgress
<1>2. OverlapInv /\ LoneInv /\ [Next]_vars => LoneInv'
  <2> SUFFICES ASSUME OverlapInv, LoneInv, [Next]_vars
               PROVE  LoneInv'
    OBVIOUS
  <2>1. ASSUME NEW x \in Items, CloudChanges(x) PROVE LoneInv'
    BY <2>1 DEF CloudChanges, dbVars, runVars, itemVars, rowHistory, LoneInv, LoneProgress, Alone
  <2>2. CASE UNCHANGED vars
    BY <2>2 DEF vars, dbVars, runVars, itemVars, rowHistory, history, LoneInv, LoneProgress, Alone
  <2> QED
    BY <2>1, <2>2, LoneStep DEF Next
<1> QED
  BY <1>1, <1>2, Overlaps, PTL DEF Spec

\* From the end of _apply_change_diff until the scan ends, the map is the provider's
\* answer, when no other scan was in progress with it.
THEOREM LoneScanLeavesListing == Spec => []LoneScanIsExact
<1>1. LoneInv => LoneScanIsExact
  BY DEF LoneInv, LoneProgress, LoneScanIsExact
<1> QED
  BY <1>1, LoneScans, PTL

-----------------------------------------------------------------------------
(* What never left the provider *)

\* What the provider holds from the start and never refuses to list.
Stable == InitialCloud \ Guarded

\* What a stalled write has set back for some run.
Lost == UNION {backdated[r] : r \in Runs}

\* While the provider's inventory does not change, every scan lists the stable items, so
\* a stable item is stale for a scan that comes to delete only when it was set back.
StableInv ==
  changes = 0 =>
    /\ cloud = InitialCloud
    /\ \A r \in Runs :
         /\ Stable \cap fresh[r] \subseteq resources \cup Lost
         /\ pc[r] = "upsert" => Stable \subseteq todo[r] \cup fresh[r] \cup backdated[r]
         /\ pc[r] \in {"delete", "compare", "change", "topology", "evaluate", "rules", "dispatch"} =>
              Stable \subseteq fresh[r] \cup backdated[r]
         /\ status[r] = "success" => Stable \subseteq resources \cup Lost

\* Each step of a scan, overlapping or not, keeps what never left the provider on the map.
LEMMA StableStep ==
  ASSUME TypeOK, InPhase, StableInv, NEW r \in Runs, RunStep(r)
  PROVE  StableInv'
<1> USE DEF TypeOK, InPhase, StableInv, Stable, Lost, Goto, PhaseEnds, Upserting, dbVars, runVars, itemVars, rowHistory, history
<1>1. CASE LoadAccount(r)
  BY <1>1 DEF LoadAccount
<1>2. CASE StartRun(r)
  BY <1>2 DEF StartRun
<1>3. CASE Snapshot(r)
  BY <1>3 DEF Snapshot
<1>4. CASE List(r)
  BY <1>4 DEF List, Listing
<1>5. CASE ListRefused(r)
  BY <1>5 DEF ListRefused, Listing
<1>6. CASE StampItem(r) \/ UpsertItem(r)
  <2>1. CASE StampItem(r)
    BY <2>1 DEF StampItem
  <2>2. CASE UpsertItem(r)
    BY <2>2 DEF UpsertItem
  <2> QED
    BY <1>6, <2>1, <2>2
<1>7. CASE ScannerRaises(r)
  BY <1>7 DEF ScannerRaises, Fail
<1>8. CASE InsertFinding(r)
  BY <1>8 DEF InsertFinding
<1>9. CASE \E k \in Keys : UpdateFinding(r, k)
  BY <1>9 DEF UpdateFinding
<1>10. CASE \E k \in Keys : MissFinding(r, k)
  BY <1>10 DEF MissFinding
<1>11. CASE \E k \in Keys : DuplicateFailsScan(r, k)
  BY <1>11 DEF DuplicateFailsScan, Fail
<1>12. CASE \E k \in Keys : DuplicateEscapes(r, k)
  BY <1>12 DEF DuplicateEscapes
<1>13. CASE ReadStale(r)
  BY <1>13 DEF ReadStale
<1>14. CASE DeleteStale(r)
  BY <1>14 DEF DeleteStale
<1>15. CASE Compare(r)
  BY <1>15 DEF Compare
<1>16. CASE AnalyzeTopology(r)
  BY <1>16 DEF AnalyzeTopology
<1>17. CASE MarkSuccess(r)
  BY <1>17 DEF MarkSuccess
<1>18. CASE EvaluateRules(r)
  BY <1>18 DEF EvaluateRules
<1>19. CASE RecordUsage(r)
  BY <1>19 DEF RecordUsage
<1>20. CASE Dispatch(r)
  BY <1>20 DEF Dispatch
<1>21. CASE DispatchRaises(r)
  BY <1>21 DEF DispatchRaises
<1> QED
  BY <1>1, <1>2, <1>3, <1>4, <1>5, <1>6, <1>7, <1>8, <1>9, <1>10, <1>11, <1>12, <1>13,
     <1>14, <1>15, <1>16, <1>17, <1>18, <1>19, <1>20, <1>21 DEF RunStep

\* However scans overlap and fail, once a scan has succeeded the map holds everything that
\* the provider always held and never refuses to list, but for the items of which a stalled
\* upsert_resource or upsert_schedule wrote an older last_seen_at over a newer one.
THEOREM StableItemsStay == Spec => []StableItemStays
<1>1. Init => StableInv
  BY DEF Init, StableInv
<1>2. OverlapInv /\ StableInv /\ [Next]_vars => StableInv'
  <2> SUFFICES ASSUME OverlapInv, StableInv, [Next]_vars
               PROVE  StableInv'
    OBVIOUS
  <2>1. ASSUME NEW x \in Items, CloudChanges(x) PROVE StableInv'
    BY <2>1 DEF CloudChanges, OverlapInv, TypeOK, StableInv
  <2>2. CASE UNCHANGED vars
    BY <2>2 DEF vars, dbVars, runVars, itemVars, rowHistory, history, StableInv, Lost
  <2> QED
    BY <2>1, <2>2, StableStep DEF Next, OverlapInv
<1>3. StableInv => StableItemStays
  BY DEF StableInv, StableItemStays, Stable, Lost
<1> QED
  BY <1>1, <1>2, <1>3, Overlaps, PTL DEF Spec

-----------------------------------------------------------------------------
(* What is added is announced *)

\* The row of an item names the run that inserted it.  A run without company knows that
\* the rows it inserted were not there before, and announces them when it compares.
Announces(a, x) ==
  /\ pc[a] \notin {"idle", "loaded", "snapshot", "list"}
  /\ Alone(a) /\ pc[a] \in {"upsert", "delete", "compare"} => x \notin previous[a]
  /\ Alone(a) /\ pc[a] \in {"change", "topology", "evaluate", "rules", "dispatch"} => x \in announced
  /\ Alone(a) /\ pc[a] = "done" /\ status[a] # "failed" => x \in announced

AuthorInv == \A x \in resources : author[x] \in Runs /\ Announces(author[x], x)

\* A row stays the row of its author, announced if it was, until it is deleted; a new one
\* is written by the scanner.
LEMMA RowFrame ==
  ASSUME TypeOK, InPhase, NEW r \in Runs, RunStep(r), NEW x \in resources'
  PROVE  /\ x \in Items
         /\ \/ /\ x \in resources /\ author'[x] = author[x]
               /\ x \in announced => x \in announced'
            \/ /\ x \notin resources /\ author'[x] = r
               /\ pc[r] = "upsert" /\ pc'[r] = "upsert" /\ previous'[r] = previous[r]
<1> USE DEF TypeOK, InPhase, Goto, PhaseEnds, Upserting, dbVars, runVars, itemVars, rowHistory, history
<1>1. CASE LoadAccount(r)
  BY <1>1 DEF LoadAccount
<1>2. CASE StartRun(r)
  BY <1>2 DEF StartRun
<1>3. CASE Snapshot(r)
  BY <1>3 DEF Snapshot
<1>4. CASE List(r)
  BY <1>4 DEF List, Listing
<1>5. CASE ListRefused(r)
  BY <1>5 DEF ListRefused, Listing
<1>6. CASE StampItem(r) \/ UpsertItem(r)
  BY <1>6 DEF StampItem, UpsertItem
<1>7. CASE ScannerRaises(r)
  BY <1>7 DEF ScannerRaises, Fail
<1>8. CASE InsertFinding(r)
  BY <1>8 DEF InsertFinding
<1>9. CASE \E k \in Keys : UpdateFinding(r, k)
  BY <1>9 DEF UpdateFinding
<1>10. CASE \E k \in Keys : MissFinding(r, k)
  BY <1>10 DEF MissFinding
<1>11. CASE \E k \in Keys : DuplicateFailsScan(r, k)
  BY <1>11 DEF DuplicateFailsScan, Fail
<1>12. CASE \E k \in Keys : DuplicateEscapes(r, k)
  BY <1>12 DEF DuplicateEscapes
<1>13. CASE ReadStale(r)
  BY <1>13 DEF ReadStale
<1>14. CASE DeleteStale(r)
  BY <1>14 DEF DeleteStale
<1>15. CASE Compare(r)
  BY <1>15 DEF Compare, Added
<1>16. CASE AnalyzeTopology(r)
  BY <1>16 DEF AnalyzeTopology
<1>17. CASE MarkSuccess(r)
  BY <1>17 DEF MarkSuccess
<1>18. CASE EvaluateRules(r)
  BY <1>18 DEF EvaluateRules
<1>19. CASE RecordUsage(r)
  BY <1>19 DEF RecordUsage
<1>20. CASE Dispatch(r)
  BY <1>20 DEF Dispatch
<1>21. CASE DispatchRaises(r)
  BY <1>21 DEF DispatchRaises
<1> QED
  BY <1>1, <1>2, <1>3, <1>4, <1>5, <1>6, <1>7, <1>8, <1>9, <1>10, <1>11, <1>12, <1>13,
     <1>14, <1>15, <1>16, <1>17, <1>18, <1>19, <1>20, <1>21 DEF RunStep

\* A run that inserts rows read the rows before it, keeps what it read, and announces the
\* difference before it goes on.
LEMMA OwnRowFrame ==
  ASSUME TypeOK, InPhase, NEW r \in Runs, RunStep(r),
         pc[r] \notin {"idle", "loaded", "snapshot", "list"}
  PROVE  /\ pc'[r] \notin {"idle", "loaded", "snapshot", "list"}
         /\ previous'[r] = previous[r]
         /\ pc'[r] \in {"upsert", "delete", "compare"} => pc[r] \in {"upsert", "delete"}
         /\ pc'[r] \in {"change", "topology", "evaluate", "rules", "dispatch"}
              \/ (pc'[r] = "done" /\ status'[r] # "failed") =>
              \/ pc[r] \in {"change", "topology", "evaluate", "rules", "dispatch"}
              \/ pc[r] = "compare" /\ resources \ previous[r] \subseteq announced'
<1> USE DEF TypeOK, InPhase, FindingPhases, Goto, PhaseEnds, Upserting, dbVars, runVars, itemVars,
            rowHistory, history
<1>1. CASE LoadAccount(r)
  BY <1>1 DEF LoadAccount
<1>2. CASE StartRun(r)
  BY <1>2 DEF StartRun
<1>3. CASE Snapshot(r)
  BY <1>3 DEF Snapshot
<1>4. CASE List(r)
  BY <1>4 DEF List, Listing
<1>5. CASE ListRefused(r)
  BY <1>5 DEF ListRefused, Listing
<1>6. CASE StampItem(r) \/ UpsertItem(r)
  BY <1>6 DEF StampItem, UpsertItem
<1>7. CASE ScannerRaises(r)
  BY <1>7 DEF ScannerRaises, Fail
<1>8. CASE InsertFinding(r)
  BY <1>8 DEF InsertFinding
<1>9. CASE \E k \in Keys : UpdateFinding(r, k)
  BY <1>9 DEF UpdateFinding
<1>10. CASE \E k \in Keys : MissFinding(r, k)
  BY <1>10 DEF MissFinding
<1>11. CASE \E k \in Keys : DuplicateFailsScan(r, k)
  BY <1>11 DEF DuplicateFailsScan, Fail
<1>12. CASE \E k \in Keys : DuplicateEscapes(r, k)
  BY <1>12 DEF DuplicateEscapes
<1>13. CASE ReadStale(r)
  BY <1>13 DEF ReadStale
<1>14. CASE DeleteStale(r)
  BY <1>14 DEF DeleteStale
<1>15. CASE Compare(r)
  BY <1>15 DEF Compare, Added
<1>16. CASE AnalyzeTopology(r)
  BY <1>16 DEF AnalyzeTopology
<1>17. CASE MarkSuccess(r)
  BY <1>17 DEF MarkSuccess
<1>18. CASE EvaluateRules(r)
  BY <1>18 DEF EvaluateRules
<1>19. CASE RecordUsage(r)
  BY <1>19 DEF RecordUsage
<1>20. CASE Dispatch(r)
  BY <1>20 DEF Dispatch
<1>21. CASE DispatchRaises(r)
  BY <1>21 DEF DispatchRaises
<1> QED
  BY <1>1, <1>2, <1>3, <1>4, <1>5, <1>6, <1>7, <1>8, <1>9, <1>10, <1>11, <1>12, <1>13,
     <1>14, <1>15, <1>16, <1>17, <1>18, <1>19, <1>20, <1>21 DEF RunStep

\* What one run does to the rows of the map leaves every row announced, or its author on
\* the way to it.
LEMMA AuthorStep ==
  ASSUME OverlapInv, LoneInv, AuthorInv, NEW r \in Runs, RunStep(r)
  PROVE  AuthorInv'
<1> SUFFICES ASSUME NEW x \in resources', NEW a, a = author'[x]
             PROVE  a \in Runs /\ Announces(a, x)'
  BY DEF AuthorInv, Announces, Alone
<1>1. \A s \in Runs : Alone(s)' => Alone(s)
  BY StepFrame DEF OverlapInv, Alone
<1>2. CASE x \in resources /\ a = author[x] /\ (x \in announced => x \in announced')
  <2>1. a \in Runs /\ Announces(a, x)
    BY <1>2 DEF AuthorInv
  <2>2. CASE a = r
    <3>1. Alone(r)' /\ pc[r] \in {"upsert", "delete"} => x \notin previous'[r]
      BY <1>1, <2>1, <2>2, OwnRowFrame DEF OverlapInv, Announces
    <3>2. ASSUME Alone(r)', \/ pc[r] \in {"change", "topology", "evaluate", "rules", "dispatch"}
                            \/ pc[r] = "compare" /\ resources \ previous[r] \subseteq announced'
          PROVE  x \in announced'
      BY <1>1, <1>2, <2>1, <2>2, <3>2 DEF Announces
    <3> QED
      BY <2>1, <2>2, <3>1, <3>2, OwnRowFrame DEF OverlapInv, Announces
  <2>3. CASE a # r
    <3>1. pc'[a] = pc[a] /\ status'[a] = status[a] /\ previous'[a] = previous[a]
      BY <2>1, <2>3, StepFrame DEF OverlapInv
    <3> QED
      BY <1>1, <1>2, <2>1, <3>1 DEF Announces
  <2> QED
    BY <2>2, <2>3
<1>3. CASE /\ x \notin resources /\ a = r
           /\ pc[r] = "upsert" /\ pc'[r] = "upsert" /\ previous'[r] = previous[r]
  <2>1. Alone(r)' => x \notin previous'[r]
    BY <1>1, <1>3 DEF LoneInv, LoneProgress
  <2> QED
    BY <1>3, <2>1 DEF Announces
<1> QED
  BY <1>2, <1>3, RowFrame DEF OverlapInv

\* Whatever fails or overlaps, a row that is not announced was inserted by a run that
\* failed, raised, had company or has not compared yet (_apply_change_diff).
THEOREM RowsAreAnnounced == Spec => []AddedIsAnnounced
<1>1. Init => AuthorInv
  BY DEF Init, AuthorInv
<1>2. OverlapInv /\ LoneInv /\ AuthorInv /\ [Next]_vars => AuthorInv'
  <2> SUFFICES ASSUME OverlapInv, LoneInv, AuthorInv, [Next]_vars
               PROVE  AuthorInv'
    OBVIOUS
  <2>1. ASSUME NEW x \in Items, CloudChanges(x) PROVE AuthorInv'
    BY <2>1 DEF CloudChanges, dbVars, runVars, rowHistory, AuthorInv, Announces, Alone
  <2>2. CASE UNCHANGED vars
    BY <2>2 DEF vars, dbVars, runVars, rowHistory, history, AuthorInv, Announces, Alone
  <2> QED
    BY <2>1, <2>2, AuthorStep DEF Next
<1>3. OverlapInv /\ AuthorInv => AddedIsAnnounced
  <2> SUFFICES ASSUME OverlapInv, AuthorInv, NEW x \in resources \ announced
               PROVE  \/ pc[author[x]] \in {"upsert", "delete", "compare", "raised"}
                      \/ status[author[x]] = "failed"
                      \/ ~ Alone(author[x])
    BY DEF AddedIsAnnounced, AuthorInv
  <2>1. author[x] \in Runs /\ Announces(author[x], x)
    BY DEF AuthorInv
  <2> QED
    BY <2>1 DEF Announces, OverlapInv, TypeOK
<1> QED
  BY <1>1, <1>2, <1>3, Overlaps, LoneScans, PTL DEF Spec

=============================================================================
