---------------------------- MODULE BillingProofs ----------------------------
(* Theorems about Billing, for any number of proposals, days and events: the plan, the
   meter of AI calls, and the limit checked against it. *)
EXTENDS Billing, FiniteSetTheorems, TLAPS

(***************************************************************************)
(* PlanAsBilled is not inductive: what a settings page will write is what   *)
(* was last billed as long as no event has made the page stale.             *)
(***************************************************************************)
PageIsCurrent ==
  /\ page \in {"closed", "open", "stale"}
  /\ page = "open" => overtaken \/ form = billed

IInv == PlanAsBilled /\ PageIsCurrent

(***************************************************************************)
(* A Stripe event (apply_stripe_event) makes an open page stale.            *)
(***************************************************************************)
LEMMA ApplyPreserves ==
  ASSUME IInv, NEW to, Apply(to)
  PROVE  IInv'
<1>1. PlanAsBilled'
  BY DEF Apply, PlanAsBilled
<1>2. page' # "open" /\ page' \in {"closed", "open", "stale"}
  BY DEF Apply, IInv, PageIsCurrent
<1> QED
  BY <1>1, <1>2 DEF IInv, PageIsCurrent

(***************************************************************************)
(* The settings page: what it loads is what was billed, or an earlier stale *)
(* save was not yet billed over; what it saves is what it loaded.           *)
(***************************************************************************)
LEMMA SettingsPreserve ==
  ASSUME IInv, OpenSettings \/ SaveSettings
  PROVE  IInv'
<1>1. CASE OpenSettings
  BY <1>1 DEF OpenSettings, IInv, PageIsCurrent, PlanAsBilled
<1>2. CASE SaveSettings
  <2>1. page \in {"open", "stale"}
    BY <1>2 DEF SaveSettings, IInv, PageIsCurrent
  <2>2. PlanAsBilled'
    BY <1>2, <2>1 DEF SaveSettings, IInv, PageIsCurrent, PlanAsBilled
  <2> QED
    BY <1>2, <2>2 DEF SaveSettings, IInv, PageIsCurrent
<1> QED
  BY <1>1, <1>2

(***************************************************************************)
(* Proposals and the clock touch neither the plan nor the page.             *)
(***************************************************************************)
LEMMA PlanVarsPreserve ==
  ASSUME IInv, UNCHANGED planVars
  PROVE  IInv'
BY DEF planVars, IInv, PageIsCurrent, PlanAsBilled

(***************************************************************************)
(* Every step preserves the inductive invariant.                            *)
(***************************************************************************)
LEMMA NextIInv == IInv /\ [Next]_vars => IInv'
<1> SUFFICES ASSUME IInv, [Next]_vars
             PROVE  IInv'
  OBVIOUS
<1>1. CASE Subscribed \/ Unsubscribed
  BY <1>1, ApplyPreserves DEF Subscribed, Unsubscribed
<1>2. CASE OpenSettings \/ SaveSettings
  BY <1>2, SettingsPreserve
<1>3. CASE Midnight \/ UNCHANGED vars
  <2>1. UNCHANGED planVars
    BY <1>3 DEF Midnight, vars
  <2> QED
    BY <2>1, PlanVarsPreserve
<1>4. ASSUME NEW p \in Proposals,
             \/ ReadUsage(p) \/ CheckLimit(p) \/ Answer(p) \/ CreateRecord(p) \/ FindRecord(p)
             \/ AddUsage(p) \/ SaveProposal(p) \/ Break(p)
      PROVE  IInv'
  <2>1. UNCHANGED planVars
    BY <1>4 DEF ReadUsage, CheckLimit, Answer, CreateRecord, FindRecord, AddUsage, SaveProposal,
                Break
  <2> QED
    BY <2>1, PlanVarsPreserve
<1> QED
  BY <1>1, <1>2, <1>3, <1>4 DEF Next

(***************************************************************************)
(* The plan is the one last billed, whatever the settings page saves, or a  *)
(* page loaded before the last event was saved after it.                    *)
(***************************************************************************)
THEOREM PlanFollowsBilling == Spec => []PlanAsBilled
<1>1. Init => IInv
  BY DEF Init, IInv, PageIsCurrent, PlanAsBilled
<1>2. IInv => PlanAsBilled
  BY DEF IInv
<1> QED
  BY <1>1, <1>2, NextIInv, PTL DEF Spec

-----------------------------------------------------------------------------
(***************************************************************************)
(* The meter.  A proposal is not counted before it has been added; the day  *)
(* whose record it adds to is a day; a plan that is paid for, in the row or *)
(* on a settings page, was subscribed to.                                   *)
(***************************************************************************)
NotCountedYet == \A p \in Proposals :
  pc[p] \in {"idle", "limit", "ask", "record", "add"} => counted[p] = NoDate

RowIsADay == \A p \in Proposals : pc[p] = "add" => row[p] \in Days

PaidIsSubscribed == plan.name = "paid" \/ form.name = "paid" => subscribed

MeterInv ==
  /\ TypeOK
  /\ NotCountedYet
  /\ RowIsADay
  /\ PaidIsSubscribed
  /\ UsageIsExact

CountedOn(d) == {p \in Proposals : counted[p] = d}

(***************************************************************************)
(* The calls counted on a day are some of the calls; one more is one more.  *)
(***************************************************************************)
LEMMA CountedFinite ==
  ASSUME NEW S \in SUBSET Proposals
  PROVE  IsFiniteSet(S) /\ Cardinality(S) \in Nat /\ Cardinality(S) \in 0..Cardinality(Proposals)
<1>1. IsFiniteSet(Proposals) /\ Cardinality(Proposals) \in Nat
  BY BillingAssumption, FS_CardinalityType
<1>2. IsFiniteSet(S) /\ Cardinality(S) <= Cardinality(Proposals)
  BY <1>1, FS_Subset
<1>3. Cardinality(S) \in Nat
  BY <1>2, FS_CardinalityType
<1> QED
  BY <1>1, <1>2, <1>3

(***************************************************************************)
(* record_usage adds the call to the count of one day and to no other.      *)
(***************************************************************************)
LEMMA CountAdds ==
  ASSUME MeterInv, NEW p \in Proposals, counted[p] = NoDate,
         NEW d \in Days, Count(p, d, usage[d] + 1)
  PROVE  /\ UsageIsExact'
         /\ usage' \in [Days -> 0..Cardinality(Proposals)]
         /\ counted' \in [Proposals -> Days \cup {NoDate}]
         /\ raced' \subseteq Proposals
<1> USE DEF MeterInv, TypeOK
<1>1. /\ usage' = [usage EXCEPT ![d] = @ + 1]
      /\ counted' = [counted EXCEPT ![p] = d]
      /\ raced' \subseteq Proposals
  BY DEF Count
<1>2. \A e \in Days : usage'[e] = Cardinality(CountedOn(e)')
  <2> TAKE e \in Days
  <2>1. usage[e] = Cardinality(CountedOn(e)) /\ CountedOn(e) \in SUBSET Proposals
    BY DEF UsageIsExact, CountedOn
  <2>2. CASE e = d
    <3>1. p \notin CountedOn(e) /\ CountedOn(e)' = CountedOn(e) \cup {p}
      BY <1>1, <2>2 DEF CountedOn, Days, NoDate
    <3>2. Cardinality(CountedOn(e)') = Cardinality(CountedOn(e)) + 1
      BY <2>1, <3>1, CountedFinite, FS_AddElement
    <3> QED
      BY <1>1, <2>1, <2>2, <3>2
  <2>3. CASE e # d
    <3>1. CountedOn(e)' = CountedOn(e)
      BY <1>1, <2>3 DEF CountedOn, Days, NoDate
    <3> QED
      BY <1>1, <2>1, <2>3, <3>1
  <2> QED
    BY <2>2, <2>3
<1>3. \A e \in Days : CountedOn(e)' \in SUBSET Proposals
  BY DEF CountedOn
<1>4. \A e \in Days : usage'[e] \in 0..Cardinality(Proposals)
  BY <1>2, <1>3, CountedFinite
<1> QED
  BY <1>1, <1>2, <1>4 DEF UsageIsExact, CountedOn

(***************************************************************************)
(* What a proposal leaves alone while it is not counted.                    *)
(***************************************************************************)
LEMMA MeterStays ==
  ASSUME MeterInv, UNCHANGED <<usage, counted>>
  PROVE  UsageIsExact'
BY DEF MeterInv, UsageIsExact

(***************************************************************************)
(* An event, the settings page and the clock: the plan they leave, paid     *)
(* only if subscribed to, and that a subscription is not forgotten.         *)
(***************************************************************************)
LEMMA PlanStepPaid ==
  ASSUME TypeOK, PaidIsSubscribed,
         Subscribed \/ Unsubscribed \/ OpenSettings \/ SaveSettings \/ Midnight
  PROVE  /\ plan' \in Plan /\ billed' \in Plan /\ form' \in Plan
         /\ page' \in {"closed", "open", "stale"} /\ overtaken' \in BOOLEAN /\ subscribed' \in BOOLEAN
         /\ PaidIsSubscribed'
         /\ subscribed => subscribed'
<1> USE DEF TypeOK
<1>0. Free \in Plan /\ Free.name # "paid"
  BY DEF Free, Plan
<1>1. ASSUME NEW to \in Plan, Apply(to) PROVE
        /\ plan' \in Plan /\ billed' \in Plan /\ form' \in Plan
        /\ page' \in {"closed", "open", "stale"} /\ overtaken' \in BOOLEAN /\ subscribed' \in BOOLEAN
        /\ PaidIsSubscribed'
        /\ subscribed => subscribed'
  <2>1. subscribed' \in BOOLEAN /\ overtaken' \in BOOLEAN
    BY <1>1, ZenonT(20) DEF Apply
  <2>2. (subscribed => subscribed') /\ (to.name = "paid" => subscribed')
    BY <1>1, ZenonT(20) DEF Apply
  <2>3. plan' = to /\ billed' = to /\ form' = form /\ page' \in {"closed", "open", "stale"}
    BY <1>1 DEF Apply
  <2>4. PaidIsSubscribed'
    BY <2>2, <2>3 DEF PaidIsSubscribed
  <2> QED
    BY <1>1, <2>1, <2>2, <2>3, <2>4
<1>2. CASE Subscribed
  BY <1>1, <1>2 DEF Subscribed, Plan
<1>3. CASE Unsubscribed
  BY <1>0, <1>1, <1>3 DEF Unsubscribed
<1>4. CASE OpenSettings
  BY <1>4 DEF OpenSettings, PaidIsSubscribed
<1>5. CASE SaveSettings
  <2>1. overtaken' \in BOOLEAN
    BY <1>5, ZenonT(20) DEF SaveSettings
  <2> QED
    BY <1>0, <1>5, <2>1 DEF SaveSettings, PaidIsSubscribed
<1>6. CASE Midnight
  BY <1>6 DEF Midnight, planVars, PaidIsSubscribed
<1> QED
  BY <1>2, <1>3, <1>4, <1>5, <1>6

(***************************************************************************)
(* Events, the settings page and the clock leave the meter alone, and make  *)
(* no plan paid that was not subscribed to.                                 *)
(***************************************************************************)
LEMMA PlanStepMeter ==
  ASSUME MeterInv, Subscribed \/ Unsubscribed \/ OpenSettings \/ SaveSettings \/ Midnight
  PROVE  MeterInv'
<1>1. UNCHANGED useVars
  BY DEF Subscribed, Unsubscribed, Apply, OpenSettings, SaveSettings, Midnight
<1>2. UsageIsExact' /\ NotCountedYet' /\ RowIsADay'
  BY <1>1, MeterStays DEF useVars, MeterInv, NotCountedYet, RowIsADay
<1>3. today' \in Days /\ events' \in 0..MaxEvents
  BY BillingAssumption DEF Subscribed, Unsubscribed, Apply, OpenSettings, SaveSettings, Midnight,
     planVars, MeterInv, TypeOK, Days
<1>4. /\ plan' \in Plan /\ billed' \in Plan /\ form' \in Plan
      /\ page' \in {"closed", "open", "stale"} /\ overtaken' \in BOOLEAN /\ subscribed' \in BOOLEAN
      /\ PaidIsSubscribed'
  BY PlanStepPaid DEF MeterInv
<1> QED
  BY <1>1, <1>2, <1>3, <1>4 DEF useVars, MeterInv, TypeOK

(***************************************************************************)
(* Every step of a proposal keeps the meter exact.                          *)
(***************************************************************************)
LEMMA ProposalStepMeter ==
  ASSUME MeterInv, NEW p \in Proposals,
         \/ ReadUsage(p) \/ CheckLimit(p) \/ Answer(p) \/ CreateRecord(p) \/ FindRecord(p)
         \/ AddUsage(p) \/ SaveProposal(p) \/ Break(p)
  PROVE  MeterInv'
<1> USE DEF MeterInv, TypeOK, NotCountedYet, RowIsADay, PaidIsSubscribed, Goto, planVars
<1>1. CASE ReadUsage(p)
  BY <1>1, MeterStays DEF ReadUsage
<1>2. CASE CheckLimit(p)
  BY <1>2, MeterStays DEF CheckLimit
<1>3. CASE Answer(p)
  BY <1>3, MeterStays DEF Answer
<1>4. CASE CreateRecord(p)
  <2>1. Count(p, today, usage[today] + 1) /\ counted[p] = NoDate
    BY <1>4 DEF CreateRecord
  <2>2. counted' = [counted EXCEPT ![p] = today]
    BY <2>1 DEF Count
  <2> QED
    BY <1>4, <2>1, <2>2, CountAdds DEF CreateRecord
<1>5. CASE FindRecord(p)
  BY <1>5, MeterStays DEF FindRecord
<1>6. CASE AddUsage(p)
  <2>1. row[p] \in Days /\ counted[p] = NoDate /\ Count(p, row[p], usage[row[p]] + 1)
    BY <1>6 DEF AddUsage
  <2>2. counted' = [counted EXCEPT ![p] = row[p]]
    BY <2>1 DEF Count
  <2> QED
    BY <1>6, <2>1, <2>2, CountAdds DEF AddUsage
<1>7. CASE SaveProposal(p)
  BY <1>7, MeterStays DEF SaveProposal
<1>8. CASE Break(p)
  BY <1>8, MeterStays DEF Break
<1> QED
  BY <1>1, <1>2, <1>3, <1>4, <1>5, <1>6, <1>7, <1>8

(***************************************************************************)
(* No call of an AI provider is lost from the count of its day, and none is *)
(* counted twice, however many proposals overlap (record_usage): the        *)
(* inductive invariant of the meter, which holds the types too.             *)
(***************************************************************************)
THEOREM MeterIsExact == Spec => []MeterInv
<1>1. Init => MeterInv
  <2> SUFFICES ASSUME Init PROVE MeterInv
    OBVIOUS
  <2>1. \A d \in Days : {p \in Proposals : counted[p] = d} = {}
    BY DEF Init, Days, NoDate
  <2>2. UsageIsExact
    BY <2>1, FS_EmptySet DEF Init, UsageIsExact
  <2>3. Cardinality(Proposals) \in Nat
    BY BillingAssumption, FS_CardinalityType
  <2>4. today \in Days /\ events \in 0..MaxEvents
    BY BillingAssumption DEF Init, Days
  <2>5. plan \in Plan /\ billed \in Plan /\ form \in Plan
    BY DEF Init, Plan, Free
  <2>6. /\ usage \in [Days -> 0..Cardinality(Proposals)]
        /\ used \in [Proposals -> 0..Cardinality(Proposals)]
    BY <2>3 DEF Init
  <2>7. /\ page \in {"closed", "open", "stale"} /\ raced \subseteq Proposals
        /\ pc \in [Proposals -> {"idle", "limit", "ask", "record", "add", "save", "done",
                                 "refused", "failed"}]
        /\ \A f \in {row, checked, counted} : f \in [Proposals -> Days \cup {NoDate}]
    BY DEF Init
  <2>8. NotCountedYet /\ RowIsADay
    BY DEF Init, NotCountedYet, RowIsADay
  <2>9. PaidIsSubscribed /\ subscribed \in BOOLEAN /\ overtaken \in BOOLEAN
    BY DEF Init, PaidIsSubscribed, Free
  <2> QED
    BY <2>2, <2>4, <2>5, <2>6, <2>7, <2>8, <2>9 DEF MeterInv, TypeOK
<1>2. MeterInv /\ [Next]_vars => MeterInv'
  <2> SUFFICES ASSUME MeterInv, [Next]_vars
               PROVE  MeterInv'
    OBVIOUS
  <2>1. CASE UNCHANGED vars
    BY <2>1 DEF vars, planVars, useVars, MeterInv, TypeOK, NotCountedYet, RowIsADay,
       PaidIsSubscribed, UsageIsExact
  <2> QED
    BY <2>1, PlanStepMeter, ProposalStepMeter DEF Next
<1> QED
  BY <1>1, <1>2, PTL DEF Spec

(***************************************************************************)
(* The types, of which the bound on a day's count needs the exact meter.    *)
(***************************************************************************)
THEOREM TypeCorrect == Spec => []TypeOK
<1>1. MeterInv => TypeOK
  BY DEF MeterInv
<1> QED
  BY <1>1, MeterIsExact, PTL

(***************************************************************************)
(* A day's count is the number of calls that were counted on it.            *)
(***************************************************************************)
THEOREM UsageCountsCalls == Spec => []UsageIsExact
<1>1. MeterInv => UsageIsExact
  BY DEF MeterInv
<1> QED
  BY <1>1, MeterIsExact, PTL

-----------------------------------------------------------------------------
(***************************************************************************)
(* The limit.  A proposal nobody overtook still holds the count it was      *)
(* checked against, and one that passed the check was below the limit.      *)
(***************************************************************************)
Limit == IF subscribed THEN PaidCalls ELSE FreeCalls

Excused(d) == {p \in Proposals : counted[p] = d /\ (p \in raced \/ checked[p] # d)}

ReadIsCurrent == \A p \in Proposals :
  Pending(p) /\ p \notin raced => checked[p] \in Days /\ used[p] = usage[checked[p]]

BelowLimit == \A p \in Proposals : pc[p] \in {"ask", "record", "add"} => used[p] < Limit

LimitInv == ReadIsCurrent /\ BelowLimit /\ LimitKeptButForRaces

(***************************************************************************)
(* The limit of the plan in effect is never above the limit from the first  *)
(* subscription on, and that one never falls.                               *)
(***************************************************************************)
LEMMA LimitBounds ==
  ASSUME MeterInv
  PROVE  /\ Limit \in Nat /\ CallLimit \in Nat /\ CallLimit <= Limit
         /\ subscribed => Limit = PaidCalls
BY BillingAssumption DEF Limit, CallLimit, EffectivePlan, MeterInv, TypeOK, PaidIsSubscribed, Plan

(***************************************************************************)
(* While nothing is counted, a limit that is kept stays kept.               *)
(***************************************************************************)
LEMMA LimitStays ==
  ASSUME MeterInv, MeterInv', LimitKeptButForRaces, Limit <= Limit',
         UNCHANGED <<usage, counted, raced>>,
         \A p \in Proposals : counted[p] # NoDate => checked'[p] = checked[p]
  PROVE  LimitKeptButForRaces'
<1> SUFFICES ASSUME NEW d \in Days
             PROVE  usage'[d] <= Limit' + Cardinality(Excused(d)')
  BY DEF LimitKeptButForRaces, Limit, Excused
<1>1. Excused(d)' = Excused(d)
  BY DEF Excused, Days, NoDate
<1>2. usage[d] <= Limit + Cardinality(Excused(d))
  BY DEF LimitKeptButForRaces, Limit, Excused
<1>3. usage[d] \in Nat /\ Cardinality(Excused(d)) \in Nat
  <2>1. Cardinality(Proposals) \in Nat /\ Excused(d) \in SUBSET Proposals
    BY CountedFinite DEF Excused
  <2> QED
    BY <2>1, CountedFinite DEF MeterInv, TypeOK
<1>4. Limit \in Nat /\ Limit' \in Nat
  BY BillingAssumption DEF Limit
<1> QED
  BY <1>1, <1>2, <1>3, <1>4

(***************************************************************************)
(* A call that is counted was below the limit when nothing else had been    *)
(* counted since it was checked, or it is excused.                          *)
(***************************************************************************)
LEMMA CountKeepsLimit ==
  ASSUME MeterInv, LimitInv, NEW p \in Proposals, pc[p] \in {"record", "add"},
         NEW d \in Days, Count(p, d, usage[d] + 1), UNCHANGED <<checked, subscribed>>
  PROVE  LimitKeptButForRaces'
<1> USE DEF MeterInv, TypeOK
<1>1. /\ usage' = [usage EXCEPT ![d] = @ + 1]
      /\ counted' = [counted EXCEPT ![p] = d]
      /\ raced \subseteq raced' /\ (p \in raced' <=> p \in raced)
      /\ \A q \in raced' : q \in raced \/ Pending(q)
  BY DEF Count
<1>2. \A q \in Proposals : Pending(q) => counted[q] = NoDate
  BY DEF Pending, NotCountedYet
<1>3. counted[p] = NoDate /\ Pending(p)
  BY <1>2 DEF Pending
<1>4. Limit' = Limit /\ Limit \in Nat
  BY BillingAssumption DEF Limit
<1> SUFFICES ASSUME NEW e \in Days
             PROVE  usage'[e] <= Limit + Cardinality(Excused(e)')
  BY <1>4 DEF LimitKeptButForRaces, Limit, Excused
<1>5. usage[e] \in Nat /\ usage[e] <= Limit + Cardinality(Excused(e))
  <2>1. Cardinality(Proposals) \in Nat
    BY CountedFinite
  <2> QED
    BY <2>1 DEF LimitInv, LimitKeptButForRaces, Limit, Excused
<1>6. /\ Excused(e) \in SUBSET Proposals /\ IsFiniteSet(Excused(e)) /\ Cardinality(Excused(e)) \in Nat
      /\ Excused(e)' \in SUBSET Proposals /\ Cardinality(Excused(e)') \in Nat
  <2>1. Excused(e) \in SUBSET Proposals /\ Excused(e)' \in SUBSET Proposals
    BY DEF Excused
  <2> QED
    BY <2>1, CountedFinite
<1>7. CASE e # d
  <2>1. Excused(e)' = Excused(e)
    BY <1>1, <1>2, <1>3, <1>7 DEF Excused, Days, NoDate
  <2> QED
    BY <1>1, <1>5, <1>7, <2>1
<1>8. CASE e = d /\ (p \in raced \/ checked[p] # d)
  <2>1. p \notin Excused(e) /\ Excused(e)' = Excused(e) \cup {p}
    BY <1>1, <1>2, <1>3, <1>8 DEF Excused, Days, NoDate
  <2>2. Cardinality(Excused(e)') = Cardinality(Excused(e)) + 1
    BY <1>6, <2>1, FS_AddElement
  <2> QED
    BY <1>1, <1>4, <1>5, <1>6, <1>8, <2>2
<1>9. CASE e = d /\ p \notin raced /\ checked[p] = d
  <2>1. used[p] = usage[d] /\ used[p] < Limit
    BY <1>3, <1>9 DEF LimitInv, ReadIsCurrent, BelowLimit
  <2> QED
    BY <1>1, <1>4, <1>5, <1>6, <1>9, <2>1
<1> QED
  BY <1>7, <1>8, <1>9

(***************************************************************************)
(* Events and the settings page do not take back what was within the limit. *)
(***************************************************************************)
LEMMA PlanStepLimit ==
  ASSUME MeterInv, MeterInv', LimitInv, UNCHANGED useVars, subscribed => subscribed'
  PROVE  LimitInv'
<1>1. Limit \in Nat /\ Limit' \in Nat /\ Limit <= Limit'
  BY BillingAssumption DEF Limit, MeterInv, TypeOK
<1>2. LimitKeptButForRaces'
  BY <1>1, LimitStays DEF LimitInv, useVars
<1>3. ReadIsCurrent'
  BY DEF useVars, LimitInv, ReadIsCurrent, Pending
<1>4. BelowLimit'
  <2>1. \A p \in Proposals : used[p] \in Nat
    BY CountedFinite DEF MeterInv, TypeOK
  <2> QED
    BY <1>1, <2>1 DEF useVars, LimitInv, BelowLimit
<1> QED
  BY <1>2, <1>3, <1>4 DEF LimitInv

(***************************************************************************)
(* Every step of a proposal keeps the limit.                                *)
(***************************************************************************)
LEMMA ProposalStepLimit ==
  ASSUME MeterInv, MeterInv', LimitInv, NEW p \in Proposals,
         \/ ReadUsage(p) \/ CheckLimit(p) \/ Answer(p) \/ CreateRecord(p) \/ FindRecord(p)
         \/ AddUsage(p) \/ SaveProposal(p) \/ Break(p)
  PROVE  LimitInv'
<1>a. Limit' = Limit /\ Limit \in Nat /\ Limit <= Limit'
  <2>1. UNCHANGED subscribed
    BY DEF planVars, ReadUsage, CheckLimit, Answer, CreateRecord, FindRecord, AddUsage,
       SaveProposal, Break
  <2> QED
    BY <2>1, LimitBounds DEF Limit
<1>b. ASSUME UNCHANGED <<usage, counted, raced, checked>> PROVE LimitKeptButForRaces'
  BY <1>a, <1>b, LimitStays DEF LimitInv
<1> USE DEF MeterInv, TypeOK, LimitInv, ReadIsCurrent, BelowLimit, Pending, Goto, planVars
<1>1. CASE ReadUsage(p)
  <2>1. counted[p] = NoDate
    BY <1>1 DEF ReadUsage, NotCountedYet
  <2>2. LimitKeptButForRaces'
    BY <1>1, <1>a, <2>1, LimitStays DEF ReadUsage
  <2> QED
    BY <1>1, <1>a, <2>2 DEF ReadUsage
<1>2. CASE CheckLimit(p)
  <2>1. used[p] \in Nat
    BY CountedFinite
  <2>2. pc'[p] = "ask" => used[p] < Limit
    BY <1>2, <2>1, LimitBounds DEF CheckLimit
  <2> QED
    BY <1>2, <1>a, <1>b, <2>2 DEF CheckLimit
<1>3. CASE Answer(p)
  BY <1>3, <1>a, <1>b DEF Answer
<1>4. ASSUME NEW d \in Days, pc[p] \in {"record", "add"}, Count(p, d, usage[d] + 1), Goto(p, "save"),
             UNCHANGED <<today, planVars, used, row, checked>>
      PROVE  LimitInv'
  <2>1. LimitKeptButForRaces'
    BY <1>4, CountKeepsLimit
  <2>2. \A q \in Proposals \ {p} : Pending(q) => q \in raced'
    BY <1>4 DEF Count
  <2> QED
    BY <1>4, <1>a, <2>1, <2>2
<1>5. CASE CreateRecord(p)
  BY <1>4, <1>5 DEF CreateRecord
<1>6. CASE FindRecord(p)
  BY <1>6, <1>a, <1>b DEF FindRecord
<1>7. CASE AddUsage(p)
  BY <1>4, <1>7 DEF AddUsage, RowIsADay
<1>8. CASE SaveProposal(p)
  BY <1>8, <1>a, <1>b DEF SaveProposal
<1>9. CASE Break(p)
  BY <1>9, <1>a, <1>b DEF Break
<1> QED
  BY <1>1, <1>2, <1>3, <1>5, <1>6, <1>7, <1>8, <1>9

(***************************************************************************)
(* The day's limit of AI proposals is exceeded by no more calls than were   *)
(* checked before another was counted, or on another day: what the check    *)
(* before the call and the count after it can guarantee (services.py).      *)
(***************************************************************************)
THEOREM LimitIsKept == Spec => []LimitKeptButForRaces
<1>1. Init /\ MeterInv => LimitInv
  <2> SUFFICES ASSUME Init, MeterInv PROVE LimitInv
    OBVIOUS
  <2>1. \A d \in Days : Cardinality(Excused(d)) \in Nat
    BY CountedFinite DEF Excused
  <2>2. LimitKeptButForRaces
    BY <2>1, LimitBounds DEF Init, LimitKeptButForRaces, Limit, Excused
  <2> QED
    BY <2>2 DEF Init, LimitInv, ReadIsCurrent, BelowLimit, Pending
<1>2. MeterInv /\ MeterInv' /\ LimitInv /\ [Next]_vars => LimitInv'
  <2> SUFFICES ASSUME MeterInv, MeterInv', LimitInv, [Next]_vars
               PROVE  LimitInv'
    OBVIOUS
  <2>1. CASE \/ Subscribed \/ Unsubscribed \/ OpenSettings \/ SaveSettings \/ Midnight
             \/ UNCHANGED vars
    <3>1. UNCHANGED useVars
      BY <2>1 DEF Subscribed, Unsubscribed, Apply, OpenSettings, SaveSettings, Midnight, vars
    <3>2. subscribed => subscribed'
      BY <2>1, PlanStepPaid DEF MeterInv, vars, planVars
    <3> QED
      BY <3>1, <3>2, PlanStepLimit
  <2> QED
    BY <2>1, ProposalStepLimit DEF Next
<1>3. LimitInv => LimitKeptButForRaces
  BY DEF LimitInv
<1> QED
  BY <1>1, <1>2, <1>3, MeterIsExact, PTL DEF Spec
=============================================================================
