------------------------------ MODULE Console ------------------------------
(***************************************************************************)
(* The pages of an installation with one account, used at the same time:    *)
(* the account's row (AccountRow), AI providers (AIProviders), issues       *)
(* (GithubIssues) and notifications of its scans (Notifications).  What     *)
(* they share is the account, whose deletion cascades, and its scans.       *)
(* Providers share nothing with the rest, so a behaviour is either of them  *)
(* or of the account.  Requests are taken in the order of their numbers:    *)
(* which request does a thing makes no difference.                          *)
(***************************************************************************)
EXTENDS Integers, FiniteSets

CONSTANTS
  Edits, Scans, MaxVersion, NoRow,                            \* AccountRow
  Providers, Saves, MaxKey, NoProvider,                       \* AIProviders
  Findings, Clicks, NoIssue, NoFinding,                       \* GithubIssues
  NumEndpoints, Users, UserOf, Active, Broken, InitialSubs, Severities, NoSub,  \* Notifications
  MaxBegun  \* bound: requests, scans and changes of roles, subscriptions and settings that begin

VARIABLES
  row, edit, loaded, scan, stamp, newest, crossed, deleted, late,
  providers, save, object, draft, born, latest, overtaken, standing,
  url, configured, click, about, issues, alongside, lost,
  sub, viewers, records, dispatch, severities, list, at, posted, steady, cascaded,
  begun,
  page  \* which pages a behaviour is about

Row == INSTANCE AccountRow
AI  == INSTANCE AIProviders WITH loaded <- draft, newest <- latest, crossed <- overtaken
Issues  == INSTANCE GithubIssues
Notices == INSTANCE Notifications

ASSUME ConsoleAssumption ==
  /\ Row!RowAssumption /\ AI!ProvidersAssumption
  /\ Issues!IssuesAssumption /\ Notices!NotificationsAssumption
  /\ MaxBegun \in Nat

rowVars      == <<row, edit, loaded, scan, stamp, newest, crossed, deleted, late>>
providerVars == <<providers, save, object, draft, born, latest, overtaken, standing>>
issueVars    == <<url, configured, click, about, issues, alongside, lost>>
noticeVars   == <<sub, viewers, records, dispatch, severities, list, at, posted, steady, cascaded>>
vars         == <<rowVars, providerVars, issueVars, noticeVars, begun, page>>

Init == Row!Init /\ AI!Init /\ Issues!Init /\ Notices!Init /\ begun = 0
        /\ page \in {"account", "providers"}

\* Somebody begins something about the account.
Begins == page = "account" /\ begun < MaxBegun /\ begun' = begun + 1 /\ UNCHANGED page

\* The first of the requests that have not begun.
IsNext(place, r) == \A other \in DOMAIN place : place[other] = "idle" => r <= other

-----------------------------------------------------------------------------
RowBegins ==
  /\ Begins
  /\ \/ Row!RotateToken
     \/ \E e \in Edits : IsNext(edit, e) /\ Row!OpenEdit(e)
     \/ \E s \in Scans : Row!StartScan(s)
  /\ UNCHANGED <<providerVars, issueVars, noticeVars>>

RowGoesOn ==
  /\ \/ \E e \in Edits : Row!RefuseEdit(e) \/ Row!SaveBlank(e) \/ Row!SaveCredentials(e)
     \/ \E s \in Scans : Row!FinishScan(s) \/ Row!EndScan(s) \/ Row!ScanFails(s)
  /\ UNCHANGED <<providerVars, issueVars, noticeVars, begun, page>>

ProviderBegins ==
  /\ page = "providers"
  /\ \/ \E s \in Saves, p \in Providers :
          /\ IsNext(save, s)
          /\ \/ AI!OpenCreate(s, p) /\ \A q \in Providers \ born : p <= q
             \/ AI!OpenEdit(s, p)
     \/ \E p \in Providers : AI!DeleteProvider(p)
  /\ UNCHANGED <<rowVars, issueVars, noticeVars, begun, page>>

ProviderGoesOn ==
  /\ \/ \E s \in Saves, isActive, isDefault \in BOOLEAN : \/ AI!SaveKey(s, isActive, isDefault)
                                                          \/ AI!SaveBlank(s, isActive, isDefault)
     \/ \E s \in Saves : AI!Refuse(s) \/ AI!ClearOthers(s)
  /\ UNCHANGED <<rowVars, issueVars, noticeVars, begun, page>>

IssueBegins ==
  /\ Begins
  /\ Issues!Configure \/ \E c \in Clicks, f \in Findings : IsNext(click, c) /\ Issues!OpenPage(c, f)
  /\ UNCHANGED <<rowVars, providerVars, noticeVars>>

IssueGoesOn ==
  /\ \E c \in Clicks : \/ Issues!Refuse(c) \/ Issues!Create(c) \/ Issues!CreateUnanswered(c)
                       \/ Issues!Store(c) \/ Issues!StoreRaises(c)
  /\ UNCHANGED <<rowVars, providerVars, noticeVars, begun, page>>

\* Roles and subscriptions belong to an account that is there.
NoticeBegins ==
  /\ Begins
  /\ row # NoRow
  /\ \/ \E n \in 1..NumEndpoints, new \in Notices!Subs : Notices!Subscribe(n, new)
     \/ \E u \in Users : Notices!ChangeRole(u)
  /\ UNCHANGED <<rowVars, providerVars, issueVars>>

\* run_scan_pipeline goes on to the subscribers when the scan has succeeded.
NoticeGoesOn ==
  /\ \E s \in Scans : \/ /\ scan[s] = "succeeded"
                         /\ \E found \in SUBSET Severities : Notices!Begin(s, found)
                      \/ Notices!DispatchStep(s)
  /\ UNCHANGED <<rowVars, providerVars, issueVars, begun, page>>

\* account_delete, with what hangs on the row.
DeleteAccount ==
  /\ Begins
  /\ Row!DeleteAccount /\ Issues!DropFindings
  /\ Notices!Cascade({s \in Scans : scan[s] # "idle"})
  /\ UNCHANGED providerVars

Next ==
  \/ RowBegins \/ RowGoesOn \/ ProviderBegins \/ ProviderGoesOn \/ IssueBegins \/ IssueGoesOn
  \/ NoticeBegins \/ NoticeGoesOn \/ DeleteAccount

Spec == Init /\ [][Next]_vars

-----------------------------------------------------------------------------
(* Properties: those of the parts. *)

OnlyOverlapUndoes    == Row!OnlyOverlapUndoes
DeletedStaysDeleted  == Row!DeletedStaysDeleted
DefaultsBeingCleared == AI!DefaultsBeingCleared
DefaultStays         == AI!DefaultStays
KeyStays             == AI!KeyStays
SecondIssueHasCause  == Issues!SecondIssueHasCause
EntitledAreTold      == Notices!EntitledAreTold
=============================================================================
