---------------------------- MODULE Notifications ----------------------------
(***************************************************************************)
(* Who is told of a scan's findings: the subscriptions of webhook endpoints *)
(* to one account, and dispatch_scan_notifications, which goes through them *)
(* while users lose their roles and the account may be deleted.  An         *)
(* endpoint stands for its one subscription; Deliver is the post and the    *)
(* record of it, whichever the answer.                                      *)
(***************************************************************************)
EXTENDS Integers, FiniteSets

CONSTANTS
  NumEndpoints,  \* rows of WebhookEndpoint, in the order of subscriptions (account, endpoint name)
  Users, UserOf, \* UserOf[n]: whose endpoint it is
  Active,        \* endpoints with is_active, which no view changes
  Broken,        \* endpoints whose URL does not decrypt
  InitialSubs,   \* the subscriptions to start with
  Severities,    \* by their SEVERITY_RANK
  Scans,
  NoSub

Endpoints  == 1..NumEndpoints
Subs       == [min : Severities, enabled : BOOLEAN]

NotificationsAssumption ==
  /\ NumEndpoints \in Nat /\ Severities \subseteq Nat
  /\ UserOf \in [Endpoints -> Users] /\ Broken \subseteq Endpoints /\ Active \subseteq Endpoints
  /\ InitialSubs \subseteq [Endpoints -> Subs \cup {NoSub}]
  /\ NoSub \notin Subs

VARIABLES
  \* the database
  sub,        \* sub[n]: the subscription of endpoint n to the account, or NoSub
  viewers,    \* users with a role on the account
  records,    \* records[d][n]: rows of NotificationDelivery
  \* dispatch_scan_notifications
  dispatch,   \* where each is
  severities, \* of the findings it read
  list,       \* the subscriptions it read
  at,         \* the endpoint it is at
  \* history
  posted,     \* posted[d]: endpoints whose service was called
  steady,     \* steady[d]: endpoints of which nothing has changed since it began
  cascaded    \* dispatches whose run was deleted with the account

dispatchVars == <<dispatch, severities, list, at, posted, steady>>
noticeVars   == <<sub, viewers, records, dispatchVars, cascaded>>

Init ==
  /\ sub \in InitialSubs /\ viewers = Users
  /\ records = [d \in Scans |-> [n \in Endpoints |-> 0]]
  /\ dispatch = [d \in Scans |-> "idle"] /\ severities = [d \in Scans |-> {}]
  /\ list = [d \in Scans |-> [n \in Endpoints |-> NoSub]]
  /\ at = [d \in Scans |-> 0]
  /\ posted = [d \in Scans |-> {}] /\ steady = [d \in Scans |-> {}] /\ cascaded = {}

-----------------------------------------------------------------------------
(* Users. *)

Unsteady(S) == steady' = [d \in Scans |-> steady[d] \ S]

\* subscription_create: endpoints that are active and one's own, accounts one may see; a
\* second subscription violates unique_together.
Subscribe(n, new) ==
  /\ sub[n] = NoSub /\ n \in Active /\ UserOf[n] \in viewers
  /\ sub' = [sub EXCEPT ![n] = new]
  /\ Unsteady({n})
  /\ UNCHANGED <<viewers, records, dispatch, severities, list, at, posted, cascaded>>

\* The access form gives a user a role or takes it away (Access).
ChangeRole(u) ==
  /\ viewers' = IF u \in viewers THEN viewers \ {u} ELSE viewers \cup {u}
  /\ Unsteady({n \in Endpoints : UserOf[n] = u})
  /\ UNCHANGED <<sub, records, dispatch, severities, list, at, posted, cascaded>>

\* What goes with a row of CloudAccount: memberships, subscriptions, the runs there are, and
\* deliveries.
Cascade(runs) ==
  /\ sub' = [n \in Endpoints |-> NoSub]
  /\ viewers' = {}
  /\ records' = [d \in Scans |-> [n \in Endpoints |-> 0]]
  /\ Unsteady(Endpoints)
  /\ cascaded' = cascaded \cup runs
  /\ UNCHANGED <<dispatch, severities, list, at, posted>>

-----------------------------------------------------------------------------
(* dispatch_scan_notifications. *)

\* The OPEN findings of the run.
Begin(d, found) ==
  /\ dispatch[d] = "idle" /\ d \notin cascaded
  /\ severities' = [severities EXCEPT ![d] = found]
  /\ dispatch' = [dispatch EXCEPT ![d] = IF found = {} THEN "done" ELSE "fetching"]
  /\ steady' = [steady EXCEPT ![d] = Endpoints]
  /\ UNCHANGED <<sub, viewers, records, list, at, posted, cascaded>>

\* The query for the subscriptions.
Fetch(d) ==
  /\ dispatch[d] = "fetching"
  /\ list' = [list EXCEPT ![d] =
                [n \in Endpoints |-> IF n \in Active /\ sub[n] # NoSub /\ sub[n].enabled
                                     THEN sub[n] ELSE NoSub]]
  /\ at' = [at EXCEPT ![d] = 1]
  /\ dispatch' = [dispatch EXCEPT ![d] = "matching"]
  /\ UNCHANGED <<sub, viewers, records, severities, posted, steady, cascaded>>

Matches(found, s) == \E severity \in found : severity >= s.min

\* has_account_role of the owner, as it is now, and the threshold of the row that was read.
Wanted(d, n) ==
  /\ list[d][n] # NoSub
  /\ UserOf[n] \in viewers
  /\ Matches(severities[d], list[d][n])

\* Mutant: the loop ends at the first subscription that is not wanted.
SkipRest(d) ==
  /\ dispatch[d] = "matching" /\ at[d] \in Endpoints /\ ~Wanted(d, at[d])
  /\ at' = [at EXCEPT ![d] = NumEndpoints + 1]
  /\ UNCHANGED <<sub, viewers, records, dispatch, severities, list, posted, steady, cascaded>>

Skip(d) ==
  /\ dispatch[d] = "matching" /\ at[d] \in Endpoints /\ ~Wanted(d, at[d])
  /\ at' = [at EXCEPT ![d] = @ + 1]
  /\ UNCHANGED <<sub, viewers, records, dispatch, severities, list, posted, steady, cascaded>>

\* decrypt_text raises before the post: the loop is over.
Undecryptable(d) ==
  /\ dispatch[d] = "matching" /\ at[d] \in Broken /\ Wanted(d, at[d])
  /\ dispatch' = [dispatch EXCEPT ![d] = "raised"]
  /\ UNCHANGED <<sub, viewers, records, severities, list, at, posted, steady, cascaded>>

\* The service is called; a timeout, a refusal and a success are recorded alike.
Post(d) ==
  /\ dispatch[d] = "matching" /\ at[d] \in Endpoints \ Broken /\ Wanted(d, at[d])
  /\ posted' = [posted EXCEPT ![d] = @ \cup {at[d]}]
  /\ dispatch' = [dispatch EXCEPT ![d] = "recording"]
  /\ UNCHANGED <<sub, viewers, records, severities, list, at, steady, cascaded>>

\* NotificationDelivery.objects.create, as FAILED or SUCCESS ...
Record(d) ==
  /\ dispatch[d] = "recording" /\ d \notin cascaded
  /\ records' = [records EXCEPT ![d][at[d]] = @ + 1]
  /\ at' = [at EXCEPT ![d] = @ + 1]
  /\ dispatch' = [dispatch EXCEPT ![d] = "matching"]
  /\ UNCHANGED <<sub, viewers, severities, list, posted, steady, cascaded>>

\* ... which the foreign key refuses when the run is gone.
RecordRaises(d) ==
  /\ dispatch[d] = "recording" /\ d \in cascaded
  /\ dispatch' = [dispatch EXCEPT ![d] = "raised"]
  /\ UNCHANGED <<sub, viewers, records, severities, list, at, posted, steady, cascaded>>

Finish(d) ==
  /\ dispatch[d] = "matching" /\ at[d] = NumEndpoints + 1
  /\ dispatch' = [dispatch EXCEPT ![d] = "done"]
  /\ UNCHANGED <<sub, viewers, records, severities, list, at, posted, steady, cascaded>>

DispatchStep(d) ==
  Fetch(d) \/ Skip(d) \/ Undecryptable(d) \/ Post(d) \/ Record(d) \/ RecordRaises(d) \/ Finish(d)

Next ==
  \/ \E n \in Endpoints, new \in Subs : Subscribe(n, new)
  \/ \E u \in Users : ChangeRole(u)
  \/ \E runs \in SUBSET Scans : {d \in Scans : dispatch[d] # "idle"} \subseteq runs /\ Cascade(runs)
  \/ \E d \in Scans : DispatchStep(d) \/ \E found \in SUBSET Severities : Begin(d, found)

Spec == Init /\ [][Next]_noticeVars

-----------------------------------------------------------------------------
(* Properties. *)

TypeOK ==
  /\ sub \in [Endpoints -> Subs \cup {NoSub}]
  /\ viewers \subseteq Users
  /\ records \in [Scans -> [Endpoints -> Nat]]
  /\ dispatch \in [Scans -> {"idle", "fetching", "matching", "recording", "done", "raised"}]
  /\ severities \in [Scans -> SUBSET Severities]
  /\ list \in [Scans -> [Endpoints -> Subs \cup {NoSub}]]
  /\ at \in [Scans -> 0..(NumEndpoints + 1)]
  /\ posted \in [Scans -> SUBSET Endpoints] /\ steady \in [Scans -> SUBSET Endpoints]
  /\ cascaded \subseteq Scans

\* Who is to hear of the findings d read, by the rows as they are.
Entitled(d, n) ==
  /\ n \in Active /\ UserOf[n] \in viewers
  /\ sub[n] # NoSub /\ sub[n].enabled /\ Matches(severities[d], sub[n])

Over(d) == dispatch[d] \in {"done", "raised"}

\* Of the endpoints that nothing happened to during a dispatch, those entitled are called
\* and no other is (services.py:532-561): one that is not skips nobody after it, and
\* entitled ones are left out only if the dispatch broke off at or before them, at an
\* endpoint that does not decrypt or because the account was deleted.  Every call, failed
\* or not, leaves one record (services.py:671-689), but for those the account took along.
EntitledAreTold ==
  \A d \in Scans : Over(d) => \A n \in Endpoints :
    /\ n \in steady[d] /\ n \in posted[d] => Entitled(d, n)
    /\ n \in steady[d] /\ Entitled(d, n) =>
         \/ n \in posted[d]
         \/ dispatch[d] = "raised" /\ at[d] <= n /\ (at[d] \in Broken \/ d \in cascaded)
    /\ d \notin cascaded => records[d][n] = IF n \in posted[d] THEN 1 ELSE 0
=============================================================================
