---------------------------- MODULE GithubIssues ----------------------------
(***************************************************************************)
(* GitHub issues of findings.  The page of a finding offers to create one   *)
(* while github_issue_url is empty; finding_github_issue creates one        *)
(* whenever it is asked and stores the URL after GitHub has answered.       *)
(***************************************************************************)
EXTENDS Integers

CONSTANTS
  Findings,  \* the findings there are at first
  Clicks,    \* a page of a finding and the POST its button makes; also the issue that creates
  NoIssue, NoFinding

IssuesAssumption ==
  NoIssue \notin Clicks /\ NoFinding \notin Findings \cup Clicks \cup {NoIssue}

VARIABLES
  url,         \* url[f]: the issue in github_issue_url of the row, NoIssue, or NoFinding: no row
  configured,  \* a repository and a token are set
  click,       \* where each click is
  about,       \* its finding
  \* GitHub
  issues,      \* the issues that were created
  \* history
  alongside,   \* alongside[c]: clicks between their page and their end while c was
  lost         \* clicks whose issue was created without an answer that could be stored

issueVars == <<url, configured, click, about, issues, alongside, lost>>

Init ==
  /\ url = [f \in Findings |-> NoIssue]
  /\ configured \in BOOLEAN
  /\ click = [c \in Clicks |-> "idle"] /\ about = [c \in Clicks |-> NoFinding]
  /\ issues = {} /\ alongside = [c \in Clicks |-> {}] /\ lost = {}

UnderWay(f) == {c \in Clicks : about[c] = f /\ click[c] \in {"page", "store"}}

-----------------------------------------------------------------------------
\* Mutant: the button is always there.
OpenPageAlways(c, f) ==
  /\ click[c] = "idle" /\ url[f] # NoFinding
  /\ click' = [click EXCEPT ![c] = "page"] /\ about' = [about EXCEPT ![c] = f]
  /\ alongside' = [d \in Clicks |-> IF d = c THEN UnderWay(f)
                                    ELSE IF d \in UnderWay(f) THEN alongside[d] \cup {c}
                                    ELSE alongside[d]]
  /\ UNCHANGED <<url, configured, issues, lost>>

\* finding_detail with the button.
OpenPage(c, f) ==
  /\ click[c] = "idle" /\ url[f] = NoIssue
  /\ click' = [click EXCEPT ![c] = "page"] /\ about' = [about EXCEPT ![c] = f]
  /\ alongside' = [d \in Clicks |-> IF d = c THEN UnderWay(f)
                                    ELSE IF d \in UnderWay(f) THEN alongside[d] \cup {c}
                                    ELSE alongside[d]]
  /\ UNCHANGED <<url, configured, issues, lost>>

ClickEnds(c) == click' = [click EXCEPT ![c] = "done"]

\* No finding (404), no role, nothing configured, or GitHub refuses.
Refuse(c) ==
  /\ click[c] = "page"
  /\ ClickEnds(c)
  /\ UNCHANGED <<url, configured, about, issues, alongside, lost>>

\* GitHub creates the issue and answers.
Create(c) ==
  /\ click[c] = "page" /\ configured /\ url[about[c]] # NoFinding
  /\ issues' = issues \cup {c}
  /\ click' = [click EXCEPT ![c] = "store"]
  /\ UNCHANGED <<url, configured, about, alongside, lost>>

\* It creates it and the answer is lost (a timeout) or has no html_url.
CreateUnanswered(c) ==
  /\ click[c] = "page" /\ configured /\ url[about[c]] # NoFinding
  /\ issues' = issues \cup {c}
  /\ lost' = lost \cup {c}
  /\ ClickEnds(c)
  /\ UNCHANGED <<url, configured, about, alongside>>

\* save(update_fields=["github_issue_url"]) ...
Store(c) ==
  /\ click[c] = "store" /\ url[about[c]] # NoFinding
  /\ url' = [url EXCEPT ![about[c]] = c]
  /\ ClickEnds(c)
  /\ UNCHANGED <<configured, about, issues, alongside, lost>>

\* ... which raises if the finding has gone with its account.
StoreRaises(c) ==
  /\ click[c] = "store" /\ url[about[c]] = NoFinding
  /\ lost' = lost \cup {c}
  /\ ClickEnds(c)
  /\ UNCHANGED <<url, configured, about, issues, alongside>>

\* settings_view.
Configure ==
  /\ configured' = ~configured
  /\ UNCHANGED <<url, click, about, issues, alongside, lost>>

\* The cascade from the account.
DropFindings ==
  /\ url' = [f \in Findings |-> NoFinding]
  /\ UNCHANGED <<configured, click, about, issues, alongside, lost>>

Next ==
  \/ \E c \in Clicks, f \in Findings : OpenPage(c, f)
  \/ \E c \in Clicks : Refuse(c) \/ Create(c) \/ CreateUnanswered(c) \/ Store(c) \/ StoreRaises(c)
  \/ Configure \/ DropFindings

Spec == Init /\ [][Next]_issueVars

-----------------------------------------------------------------------------
(* Properties. *)

TypeOK ==
  /\ url \in [Findings -> Clicks \cup {NoIssue, NoFinding}]
  /\ configured \in BOOLEAN
  /\ click \in [Clicks -> {"idle", "page", "store", "done"}]
  /\ about \in [Clicks -> Findings \cup {NoFinding}]
  /\ \A c \in Clicks : click[c] # "idle" => about[c] # NoFinding
  /\ issues \subseteq Clicks /\ lost \subseteq issues
  /\ alongside \in [Clicks -> SUBSET Clicks]

\* A finding has one issue, and a link to it: a second issue of a finding comes from a page
\* that was open together with that of the first, or the first one's URL was never stored
\* (services.py:372-387 looks at nothing before it posts).
SecondIssueHasCause ==
  \A c, d \in issues : c # d /\ about[c] = about[d] =>
    d \in alongside[c] \/ {c, d} \cap lost # {}
=============================================================================
