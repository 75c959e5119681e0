------------------------------- MODULE Billing -------------------------------
(***************************************************************************)
(* The plan of an installation and the metered use of it.                   *)
(*                                                                          *)
(* The plan is two columns of the one GlobalSettings row, written by the    *)
(* Stripe webhook and, although its form shows neither, by the settings     *)
(* page.  Everything above FREE is "paid": the tiers differ in their limits *)
(* only.  The limit used here is the day's AI proposals: it is checked      *)
(* before a call that takes seconds, and the call is counted after it.      *)
(*                                                                          *)
(* A step is one database statement or the AI provider's answer.  A day     *)
(* without a UsageRecord counts 0.                                          *)
(***************************************************************************)
EXTENDS Integers, FiniteSets

CONSTANTS
  Proposals,             \* requests for a fix proposal
  FreeCalls, PaidCalls,  \* PLAN_LIMITS[...]["ai_proposals_per_day"]
  MaxDay,                \* bound: days
  MaxEvents              \* bound: Stripe events that change the plan

Days   == 1..MaxDay
NoDate == 0
Plan   == [name : {"free", "paid"}, until : Days \cup {NoDate}]
Free   == [name |-> "free", until |-> NoDate]

ASSUME BillingAssumption ==
  /\ IsFiniteSet(Proposals)
  /\ FreeCalls \in Nat /\ PaidCalls \in Nat /\ FreeCalls <= PaidCalls
  /\ MaxDay \in Nat \ {0} /\ MaxEvents \in Nat

VARIABLES
  today,
  plan,        \* plan and plan_valid_until of the row
  form, page,  \* the settings page's copy of them, and whether it is held
  usage,       \* usage[d]: count of the day's UsageRecord of AI calls
  pc,          \* where each proposal is
  used,        \* the count it read
  row,         \* the day whose record it writes
  \* history
  events,      \* Stripe events so far
  billed,      \* what the last one said
  subscribed,  \* one of them was a subscription
  overtaken,   \* a settings page loaded before the last event was saved after it
  checked,     \* the day a proposal was checked on
  counted,     \* the day it was counted on
  raced        \* proposals that were checked before another was counted, and not yet counted

planVars == <<plan, form, page, events, billed, subscribed, overtaken>>
useVars  == <<usage, pc, used, row, checked, counted, raced>>
vars     == <<today, planVars, useVars>>

TypeOK ==
  /\ today \in Days
  /\ plan \in Plan /\ billed \in Plan /\ form \in Plan
  /\ page \in {"closed", "open", "stale"}
  /\ usage \in [Days -> 0..Cardinality(Proposals)]
  /\ pc \in [Proposals -> {"idle", "limit", "ask", "record", "add", "save", "done", "refused",
                           "failed"}]
  /\ used \in [Proposals -> 0..Cardinality(Proposals)]
  /\ \A f \in {row, checked, counted} : f \in [Proposals -> Days \cup {NoDate}]
  /\ events \in 0..MaxEvents
  /\ subscribed \in BOOLEAN /\ overtaken \in BOOLEAN
  /\ raced \subseteq Proposals

Init ==
  /\ today = 1
  /\ plan = Free /\ billed = Free /\ form = Free /\ page = "closed"
  /\ events = 0 /\ subscribed = FALSE /\ overtaken = FALSE
  /\ usage = [d \in Days |-> 0]
  /\ pc = [p \in Proposals |-> "idle"]
  /\ used = [p \in Proposals |-> 0]
  /\ row = [p \in Proposals |-> NoDate]
  /\ checked = [p \in Proposals |-> NoDate]
  /\ counted = [p \in Proposals |-> NoDate]
  /\ raced = {}

-----------------------------------------------------------------------------
(* The plan. *)

\* effective_plan: the last day of a paid plan is still paid.
EffectivePlan ==
  IF plan.name # "free" /\ plan.until # NoDate /\ plan.until < today THEN "free" ELSE plan.name

CallLimit == IF EffectivePlan = "free" THEN FreeCalls ELSE PaidCalls


\* apply_stripe_event: one UPDATE of the plan's columns, in the order events arrive.
Apply(to) ==
  /\ events < MaxEvents
  /\ events' = events + 1
  /\ plan' = to /\ billed' = to
  /\ subscribed' = (subscribed \/ to.name = "paid")
  /\ overtaken' = FALSE
  /\ page' = IF page = "open" THEN "stale" ELSE page
  /\ UNCHANGED <<today, form, useVars>>

\* checkout.session.completed and customer.subscription.updated, with a period's end or none.
Subscribed == \E until \in Days \cup {NoDate} : Apply([name |-> "paid", until |-> until])

\* customer.subscription.deleted.
Unsubscribed == Apply(Free)

\* settings_view loads the row ...
OpenSettings ==
  /\ page = "closed"
  /\ form' = plan /\ page' = "open"
  /\ UNCHANGED <<today, plan, events, billed, subscribed, overtaken, useVars>>

\* Mutant: settings_view builds the form without the row it has loaded.
SaveSettingsAnew ==
  /\ page # "closed"
  /\ plan' = Free
  /\ overtaken' = (overtaken \/ page = "stale")
  /\ form' = Free /\ page' = "closed"
  /\ UNCHANGED <<today, events, billed, subscribed, useVars>>

\* ... and GlobalSettingsForm.save writes all of its columns.
SaveSettings ==
  /\ page # "closed"
  /\ plan' = form
  /\ overtaken' = (overtaken \/ page = "stale")
  /\ form' = Free /\ page' = "closed"
  /\ UNCHANGED <<today, events, billed, subscribed, useVars>>

Midnight ==
  /\ today < MaxDay
  /\ today' = today + 1
  /\ UNCHANGED <<planVars, useVars>>

-----------------------------------------------------------------------------
(* A proposal: finding_propose_fix, create_remediation_proposal. *)

Goto(p, place) == pc' = [pc EXCEPT ![p] = place]

\* usage_today ...
ReadUsage(p) ==
  /\ pc[p] = "idle"
  /\ used' = [used EXCEPT ![p] = usage[today]]
  /\ checked' = [checked EXCEPT ![p] = today]
  /\ Goto(p, "limit")
  /\ UNCHANGED <<today, planVars, usage, row, counted, raced>>

\* Mutant: one call too many.
CheckLimitOffByOne(p) ==
  /\ pc[p] = "limit"
  /\ Goto(p, IF used[p] <= CallLimit THEN "ask" ELSE "refused")
  /\ UNCHANGED <<today, planVars, usage, used, row, checked, counted, raced>>

\* ... against plan_limits.
CheckLimit(p) ==
  /\ pc[p] = "limit"
  /\ Goto(p, IF used[p] < CallLimit THEN "ask" ELSE "refused")
  /\ UNCHANGED <<today, planVars, usage, used, row, checked, counted, raced>>

\* The provider has answered; without an answer the proposal is a template and not counted.
Answer(p) ==
  /\ pc[p] = "ask"
  /\ \E place \in {"record", "save"} : Goto(p, place)
  /\ UNCHANGED <<today, planVars, usage, used, row, checked, counted, raced>>

\* The proposals that have read the usage and may still be counted.
Pending(q) == pc[q] \in {"limit", "ask", "record", "add"}

Count(p, d, n) ==
  /\ usage' = [usage EXCEPT ![d] = n]
  /\ counted' = [counted EXCEPT ![p] = d]
  /\ raced' = raced \cup {q \in Proposals \ {p} : Pending(q)}

\* record_usage: get_or_create finds no row of the day and inserts one with count 1 (a second
\* insert is refused by unique_together and becomes a get) ...
CreateRecord(p) ==
  /\ pc[p] = "record" /\ usage[today] = 0
  /\ Count(p, today, 1) /\ Goto(p, "save")
  /\ UNCHANGED <<today, planVars, used, row, checked>>

\* ... or it finds the row ...
FindRecord(p) ==
  /\ pc[p] = "record" /\ usage[today] # 0
  /\ row' = [row EXCEPT ![p] = today]
  /\ Goto(p, "add")
  /\ UNCHANGED <<today, planVars, usage, used, checked, counted, raced>>

\* Mutant: the count read for the limit is written back, plus one.
AddUsageToRead(p) ==
  /\ pc[p] = "add"
  /\ Count(p, row[p], used[p] + 1) /\ Goto(p, "save")
  /\ UNCHANGED <<today, planVars, used, row, checked>>

\* Mutant: a call that is counted is counted again, as by a retry.
AddUsageAgain(p) ==
  /\ pc[p] = "add"
  /\ Count(p, row[p], usage[row[p]] + 1) /\ Goto(p, "record")
  /\ UNCHANGED <<today, planVars, used, row, checked>>

\* ... which the database increments.
AddUsage(p) ==
  /\ pc[p] = "add"
  /\ Count(p, row[p], usage[row[p]] + 1) /\ Goto(p, "save")
  /\ UNCHANGED <<today, planVars, used, row, checked>>

\* RemediationProposal.objects.create.
SaveProposal(p) ==
  /\ pc[p] = "save"
  /\ Goto(p, "done")
  /\ UNCHANGED <<today, planVars, usage, used, row, checked, counted, raced>>

\* An exception or the end of the process, before the call is counted or after.
Break(p) ==
  /\ pc[p] \in {"ask", "record", "add", "save"}
  /\ Goto(p, "failed")
  /\ UNCHANGED <<today, planVars, usage, used, row, checked, counted, raced>>

Next ==
  \/ Subscribed \/ Unsubscribed \/ OpenSettings \/ SaveSettings \/ Midnight
  \/ \E p \in Proposals :
       \/ ReadUsage(p) \/ CheckLimit(p) \/ Answer(p) \/ CreateRecord(p) \/ FindRecord(p)
       \/ AddUsage(p) \/ SaveProposal(p) \/ Break(p)

Spec == Init /\ [][Next]_vars

-----------------------------------------------------------------------------
(* Properties. *)

(***************************************************************************)
(* The plan in effect is the one last billed, whatever settings are saved,  *)
(* unless they were loaded before the last event and saved after it         *)
(* (forms.py:342 writes the columns billing.py:133 wrote).                  *)
(***************************************************************************)
PlanAsBilled == overtaken \/ plan = billed

(***************************************************************************)
(* No call is lost from a day's count and none is counted twice, however    *)
(* the calls overlap, and also over midnight (record_usage).                *)
(***************************************************************************)
UsageIsExact == \A d \in Days : usage[d] = Cardinality({p \in Proposals : counted[p] = d})

(***************************************************************************)
(* The day's limit is exceeded by no more calls than were checked before    *)
(* another was counted, or were checked the day before.  The limit is the   *)
(* paid one from the first subscription on.                                 *)
(***************************************************************************)
LimitKeptButForRaces ==
  \A d \in Days :
    usage[d] <= (IF subscribed THEN PaidCalls ELSE FreeCalls)
                  + Cardinality({p \in Proposals :
                      counted[p] = d /\ (p \in raced \/ checked[p] # d)})
=============================================================================
