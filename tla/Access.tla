------------------------------- MODULE Access -------------------------------
(***************************************************************************)
(* Who may use an installation: the first-run setup, users made by an       *)
(* admin, invitation links, cloud accounts, the limits of the plan on       *)
(* users and accounts, and the roles of users on accounts.  Requests run at *)
(* the same time and no view opens a transaction (ATOMIC_REQUESTS is off),  *)
(* so a step is one statement: what a view has checked may be gone when it  *)
(* writes.                                                                  *)
(*                                                                          *)
(* A user is named by the request that creates it, so no name is used       *)
(* twice, as with a primary key; born keeps accounts from it.               *)
(***************************************************************************)
EXTENDS Integers, FiniteSets

CONSTANTS
  Requests,  \* POST requests to the views below
  Founder,   \* an owner the installation may already have
  Tokens,    \* invitation links
  Accounts,  \* cloud accounts there may be
  FreeSeats, PaidSeats,        \* PLAN_LIMITS[...]["seats"]
  FreeAccounts, PaidAccounts,  \* PLAN_LIMITS[...]["accounts"]
  NoRole, NoToken, NoUser

Roles    == {"viewer", "owner"}  \* of four, the two that guard what is modelled
Rank     == [role \in Roles \cup {NoRole} |->
               CASE role = "viewer" -> 10 [] role = "owner" -> 40 [] OTHER -> 0]
Users    == Requests \cup {Founder}
Grants   == [Accounts -> Roles \cup {NoRole}]
NoGrants == [a \in Accounts |-> NoRole]

ASSUME AccessAssumption ==
  /\ FreeSeats \in Nat \ {0} /\ PaidSeats \in Nat /\ FreeSeats <= PaidSeats
  /\ FreeAccounts \in Nat /\ PaidAccounts \in Nat /\ FreeAccounts <= PaidAccounts
  /\ IsFiniteSet(Accounts)
  /\ IsFiniteSet(Requests) /\ Founder \notin Requests
  /\ NoRole \notin Roles /\ NoToken \notin Tokens /\ NoUser \notin Users

VARIABLES
  \* the database
  users, admins,  \* rows of User, and those with is_staff and is_superuser
  accounts,
  members,        \* AccountMembership: members[u][a]
  invites,        \* rows of Invitation
  plan,           \* effective_plan(), see Billing
  \* the requests
  pc, kind,
  tok,            \* the link an acceptance came by
  target, wish,   \* whose roles a request writes, and which
  todo,           \* accounts it has still to write
  seen,           \* the count of users it read
  \* history
  joined, born,   \* users and accounts there have ever been
  raced,          \* requests after whose check another saved one more of what they count
  mixed,          \* requests whose target another request wrote after they began
  stamped,        \* stamped[t]: users ever written to accepted_by
  alongside,      \* pairs of acceptances in progress at once by one link
  paid            \* the plan was ever a paid one

vars == <<users, admins, accounts, members, invites, plan, pc, kind, tok, target, wish, todo,
          seen, joined, born, raced, mixed, stamped, alongside, paid>>

\* groups of variables an action leaves alone together
rows     == <<users, admins, accounts, members, invites, plan>>
requests == <<kind, tok, target, wish, todo, seen>>
history  == <<joined, born, raced, mixed, stamped, alongside, paid>>

NoInvite == [sent |-> FALSE, admin |-> FALSE, roles |-> NoGrants, expired |-> FALSE, by |-> NoUser]

TypeOK ==
  /\ plan \in {"free", "paid"} /\ paid \in BOOLEAN
  /\ users \subseteq Users /\ admins \subseteq users /\ joined \subseteq Users
  /\ accounts \subseteq born /\ born \subseteq Accounts
  /\ members \in [Users -> Grants]
  /\ invites \in [Tokens -> [sent : BOOLEAN, admin : BOOLEAN, roles : Grants, expired : BOOLEAN,
                             by : users \cup {NoUser}]]
  /\ pc \in [Requests -> {"idle", "count", "limit", "save", "grant", "done", "refused", "failed"}]
  /\ kind \in [Requests -> {"none", "setup", "create", "accept", "access",
                           "account"}]
  /\ tok \in [Requests -> Tokens \cup {NoToken}]
  /\ target \in [Requests -> Users \cup {NoUser}]
  /\ wish \in [Requests -> Grants]
  /\ todo \in [Requests -> SUBSET Accounts]
  /\ seen \in [Requests -> Nat]
  /\ raced \subseteq Requests /\ mixed \subseteq Requests
  /\ stamped \in [Tokens -> SUBSET Users]
  /\ alongside \subseteq SUBSET Requests

Init ==
  /\ plan = "free" /\ paid = FALSE
  /\ users \in {{}, {Founder}} /\ admins = users /\ joined = users
  /\ accounts \in {S \in SUBSET Accounts : Cardinality(S) <= FreeAccounts} /\ born = accounts
  /\ members = [u \in Users |-> NoGrants]
  /\ invites = [t \in Tokens |-> NoInvite]
  /\ pc = [r \in Requests |-> "idle"] /\ kind = [r \in Requests |-> "none"]
  /\ tok = [r \in Requests |-> NoToken]
  /\ target = [r \in Requests |-> NoUser] /\ wish = [r \in Requests |-> NoGrants]
  /\ todo = [r \in Requests |-> {}] /\ seen = [r \in Requests |-> 0]
  /\ raced = {} /\ mixed = {} /\ alongside = {}
  /\ stamped = [t \in Tokens |-> {}]

-----------------------------------------------------------------------------
(* Guards of the views. *)

\* global_admin_required: somebody who may ask for it is there.
AdminPresent == admins # {}

\* has_account_role.
HasAccountRole(u, a, minimum) ==
  u \in admins \/ (u \in users /\ Rank[members[u][a]] >= Rank[minimum])

\* Mutant: the link's expiry is all that is looked at.
IsUsableUnlessExpired(t) == invites[t].sent /\ ~invites[t].expired

\* Invitation.is_usable, of a row that exists.
IsUsable(t) == invites[t].sent /\ invites[t].by = NoUser /\ ~invites[t].expired

Goto(r, place) == pc' = [pc EXCEPT ![r] = place]

-----------------------------------------------------------------------------
(* setup_view, user_create, invitation_accept. *)

\* Mutant: the check that nobody is there yet is only made where the form is shown.
OpenSetupUnchecked(r) ==
  /\ pc[r] = "idle"
  /\ kind' = [kind EXCEPT ![r] = "setup"]
  /\ Goto(r, "save")
  /\ UNCHANGED <<rows, tok, target, wish, todo, seen, history>>

\* users_exist() is false.
OpenSetup(r) ==
  /\ pc[r] = "idle" /\ users = {}
  /\ kind' = [kind EXCEPT ![r] = "setup"]
  /\ Goto(r, "save")
  /\ UNCHANGED <<rows, tok, target, wish, todo, seen, history>>

OpenCreate(r) ==
  /\ pc[r] = "idle" /\ AdminPresent
  /\ kind' = [kind EXCEPT ![r] = "create"]
  /\ Goto(r, "count")
  /\ UNCHANGED <<rows, tok, target, wish, todo, seen, history>>

InProgress(q) == pc[q] \in {"count", "limit", "save", "grant"}

\* The invitation is fetched; anybody who has the link may.
OpenLink(r, t) ==
  /\ pc[r] = "idle" /\ IsUsable(t)
  /\ kind' = [kind EXCEPT ![r] = "accept"]
  /\ tok' = [tok EXCEPT ![r] = t]
  /\ target' = [target EXCEPT ![r] = r]
  /\ wish' = [wish EXCEPT ![r] = invites[t].roles]
  /\ alongside' = alongside \cup {{r, q} : q \in {q \in Requests : tok[q] = t /\ InProgress(q)}}
  /\ Goto(r, "count")
  /\ UNCHANGED <<rows, todo, seen, joined, born, raced, mixed, stamped, paid>>

\* account_create, by an admin who becomes the owner of the account.
OpenAccount(r, u) ==
  /\ pc[r] = "idle" /\ u \in admins
  /\ kind' = [kind EXCEPT ![r] = "account"]
  /\ target' = [target EXCEPT ![r] = u]
  /\ Goto(r, "count")
  /\ UNCHANGED <<rows, tok, wish, todo, seen, history>>

\* can_add_user, can_add_account: the rows are counted, then the plan is loaded.
CountRows(r) ==
  /\ pc[r] = "count"
  /\ seen' = [seen EXCEPT ![r] = Cardinality(IF kind[r] = "account" THEN accounts ELSE users)]
  /\ Goto(r, "limit")
  /\ UNCHANGED <<rows, kind, tok, target, wish, todo, history>>

\* plan_limits.
Limit(r) ==
  CASE plan = "free" /\ kind[r] = "account" -> FreeAccounts
    [] plan = "free" /\ kind[r] # "account" -> FreeSeats
    [] plan # "free" /\ kind[r] = "account" -> PaidAccounts
    [] plan # "free" /\ kind[r] # "account" -> PaidSeats

\* Mutant: one row too many.
CheckLimitOffByOne(r) ==
  /\ pc[r] = "limit"
  /\ Goto(r, IF seen[r] <= Limit(r) THEN "save" ELSE "refused")
  /\ seen' = [seen EXCEPT ![r] = 0]
  /\ UNCHANGED <<rows, kind, tok, target, wish, todo, history>>

CheckLimit(r) ==
  /\ pc[r] = "limit"
  /\ Goto(r, IF seen[r] < Limit(r) THEN "save" ELSE "refused")
  /\ seen' = [seen EXCEPT ![r] = 0]
  /\ UNCHANGED <<rows, kind, tok, target, wish, todo, history>>

\* The others that have passed the count of what r adds to, users or accounts.
Overtaken(r) ==
  {q \in Requests \ {r} : /\ pc[q] \in {"limit", "save"}
                          /\ kind[q] = "account" <=> kind[r] = "account"}

\* user.save() of a valid form.  A form that is refused saves nothing: the request stays here.
SaveUser(r) ==
  /\ pc[r] = "save" /\ kind[r] # "account"
  /\ users' = users \cup {r} /\ joined' = joined \cup {r}
  /\ \E admin \in CASE kind[r] = "setup"  -> {TRUE}
                    [] kind[r] = "create" -> BOOLEAN
                    [] kind[r] = "accept" -> {invites[tok[r]].admin} :
       admins' = IF admin THEN admins \cup {r} ELSE admins
  /\ todo' = [todo EXCEPT ![r] = {a \in Accounts : wish[r][a] # NoRole}]
  /\ raced' = raced \cup Overtaken(r)
  /\ Goto(r, IF kind[r] = "accept" THEN "grant" ELSE "done")
  /\ UNCHANGED <<accounts, members, invites, plan, kind, tok, target, wish, seen, born, mixed,
                 stamped, alongside, paid>>

\* CloudAccountForm.save; the membership of its creator comes next.
SaveAccount(r) ==
  /\ pc[r] = "save" /\ kind[r] = "account"
  /\ \E a \in Accounts \ born :
       /\ accounts' = accounts \cup {a} /\ born' = born \cup {a}
       /\ wish' = [wish EXCEPT ![r][a] = "owner"]
       /\ todo' = [todo EXCEPT ![r] = {a}]
  /\ raced' = raced \cup Overtaken(r)
  /\ Goto(r, "grant")
  /\ UNCHANGED <<users, admins, members, invites, plan, kind, tok, target, seen, joined, mixed,
                 stamped, alongside, paid>>

-----------------------------------------------------------------------------
(* Roles: UserAccessForm.save, the loop of invitation_accept, the owner of a new account. *)

\* user_access: the form lists the accounts there are, and gives a role or none on each.
OpenAccess(r, u) ==
  /\ pc[r] = "idle" /\ AdminPresent /\ u \in users
  /\ \E grants \in Grants :
       /\ \A a \in Accounts \ accounts : grants[a] = NoRole
       /\ wish' = [wish EXCEPT ![r] = grants]
  /\ kind' = [kind EXCEPT ![r] = "access"]
  /\ target' = [target EXCEPT ![r] = u]
  /\ todo' = [todo EXCEPT ![r] = accounts]
  /\ Goto(r, "grant")
  /\ UNCHANGED <<rows, tok, seen, history>>

\* update_or_create, or delete() where the form says no access.
WriteRole(r, a) ==
  /\ members' = [members EXCEPT ![target[r]][a] = wish[r][a]]
  /\ mixed' = mixed \cup {q \in Requests \ {r} : target[q] = target[r]}
  /\ todo' = [todo EXCEPT ![r] = @ \ {a}]

\* Both rows are there; otherwise the insert breaks a foreign key (Break).
Grant(r, a) ==
  /\ pc[r] = "grant" /\ a \in todo[r]
  /\ a \in accounts /\ target[r] \in users
  /\ WriteRole(r, a)
  /\ UNCHANGED <<users, admins, accounts, invites, plan, pc, kind, tok, target, wish, seen, joined,
                 born, raced, stamped, alongside, paid>>

\* An acceptance leaves out an account it does not find; a delete() of no row does nothing.
Missing(r, a) ==
  \/ kind[r] = "accept" /\ a \notin accounts
  \/ kind[r] = "access" /\ wish[r][a] = NoRole /\ (a \notin accounts \/ target[r] \notin users)

\* Mutant: the loop ends at an account that is gone.
SkipAll(r, a) ==
  /\ pc[r] = "grant" /\ a \in todo[r] /\ Missing(r, a)
  /\ todo' = [todo EXCEPT ![r] = {}]
  /\ UNCHANGED <<rows, pc, kind, tok, target, wish, seen, history>>

Skip(r, a) ==
  /\ pc[r] = "grant" /\ a \in todo[r] /\ Missing(r, a)
  /\ todo' = [todo EXCEPT ![r] = @ \ {a}]
  /\ UNCHANGED <<rows, pc, kind, tok, target, wish, seen, history>>

Finish(r) ==
  /\ pc[r] = "grant" /\ kind[r] # "accept" /\ todo[r] = {}
  /\ Goto(r, "done")
  /\ UNCHANGED <<rows, requests, history>>

\* The link is marked accepted, whatever its row says by now.
Stamp(r) ==
  /\ pc[r] = "grant" /\ kind[r] = "accept" /\ todo[r] = {}
  /\ r \in users
  /\ invites' = [invites EXCEPT ![tok[r]].by = r]
  /\ stamped' = [stamped EXCEPT ![tok[r]] = @ \cup {r}]
  /\ Goto(r, "done")
  /\ UNCHANGED <<users, admins, accounts, members, plan, requests, joined, born, raced, mixed,
                 alongside, paid>>

\* An exception or the end of the process after the first write.
Break(r) ==
  /\ pc[r] = "grant"
  /\ Goto(r, "failed")
  /\ UNCHANGED <<rows, requests, history>>

-----------------------------------------------------------------------------
(* Invitations sent, time, and what is deleted. *)

\* invitation_create: one role on the chosen accounts.
SendInvitation(t) ==
  /\ AdminPresent /\ ~invites[t].sent
  /\ \E admin \in BOOLEAN, role \in Roles, chosen \in SUBSET accounts :
       invites' = [invites EXCEPT ![t] =
         [NoInvite EXCEPT !.sent = TRUE, !.admin = admin,
                          !.roles = [a \in Accounts |-> IF a \in chosen THEN role ELSE NoRole]]]
  /\ UNCHANGED <<users, admins, accounts, members, plan, pc, requests, history>>

Expire(t) ==
  /\ invites[t].sent /\ ~invites[t].expired
  /\ invites' = [invites EXCEPT ![t].expired = TRUE]
  /\ UNCHANGED <<users, admins, accounts, members, plan, pc, requests, history>>

\* Mutant: accepted_by is left as it was, as with DO_NOTHING.
DeleteUserKeepsLink(u) ==
  /\ AdminPresent /\ u \in users
  /\ users' = users \ {u} /\ admins' = admins \ {u}
  /\ members' = [members EXCEPT ![u] = NoGrants]
  /\ UNCHANGED <<accounts, invites, plan, pc, requests, history>>

\* The Django admin site; memberships cascade, accepted_by is set to NULL.
DeleteUser(u) ==
  /\ AdminPresent /\ u \in users
  /\ users' = users \ {u} /\ admins' = admins \ {u}
  /\ members' = [members EXCEPT ![u] = NoGrants]
  /\ invites' = [t \in Tokens |-> IF invites[t].by = u THEN [invites[t] EXCEPT !.by = NoUser]
                                                       ELSE invites[t]]
  /\ UNCHANGED <<accounts, plan, pc, requests, history>>

\* account_delete, by an owner of the account.
DeleteAccount(a) ==
  /\ a \in accounts
  /\ \E u \in users : HasAccountRole(u, a, "owner")
  /\ accounts' = accounts \ {a}
  /\ members' = [u \in Users |-> [members[u] EXCEPT ![a] = NoRole]]
  /\ UNCHANGED <<users, admins, invites, plan, pc, requests, history>>

\* A Stripe event, a settings page saved or the end of a paid period (Billing!EffectivePlan).
ChangePlan ==
  /\ plan' \in {"free", "paid"} \ {plan}
  /\ paid' = TRUE
  /\ UNCHANGED <<users, admins, accounts, members, invites, pc, requests, joined, born, raced,
                 mixed, stamped, alongside>>

Next ==
  \/ \E r \in Requests :
       \/ OpenSetup(r) \/ OpenCreate(r) \/ CountRows(r) \/ CheckLimit(r) \/ SaveUser(r)
       \/ SaveAccount(r) \/ Finish(r) \/ Stamp(r) \/ Break(r)
       \/ \E t \in Tokens : OpenLink(r, t)
       \/ \E u \in Users : OpenAccess(r, u) \/ OpenAccount(r, u)
       \/ \E a \in Accounts : Grant(r, a) \/ Skip(r, a)
  \/ \E t \in Tokens : SendInvitation(t) \/ Expire(t)
  \/ \E u \in Users : DeleteUser(u)
  \/ \E a \in Accounts : DeleteAccount(a)
  \/ ChangePlan

Spec == Init /\ [][Next]_vars

-----------------------------------------------------------------------------
(* Properties. *)

(***************************************************************************)
(* Seats and accounts: can_add_user and can_add_account are checks before   *)
(* the act.  There are never more users, or accounts, than the highest      *)
(* limit there was, plus one for each request that was overtaken: another   *)
(* user, or account, was saved between its check and its own save.          *)
(***************************************************************************)
LimitsKeptButForRaces ==
  /\ Cardinality(users) <= (IF paid THEN PaidSeats ELSE FreeSeats)
                              + Cardinality({r \in raced : r \in joined})
  /\ Cardinality(accounts) <= (IF paid THEN PaidAccounts ELSE FreeAccounts)
                                 + Cardinality({r \in raced : kind[r] = "account"
                                                  /\ pc[r] \in {"grant", "done", "failed"}})

(***************************************************************************)
(* A link makes one user.  It makes a second one only if the two            *)
(* acceptances were in progress at once, one of them broke off before the   *)
(* link was stamped, or a user the link was stamped with was deleted        *)
(* (docs/API.md promises "on first use").                                   *)
(***************************************************************************)
JoinedBy(t) == {r \in joined \cap Requests : tok[r] = t}

OneUserPerLink ==
  \A t \in Tokens : \A r, q \in JoinedBy(t) :
    r = q \/ {r, q} \in alongside \/ "failed" \in {pc[r], pc[q]} \/ ~(stamped[t] \subseteq users)

(***************************************************************************)
(* Setup makes one owner, unless two setups raced or the owner was deleted. *)
(***************************************************************************)
OneOwner ==
  \A r, q \in joined \cap Requests :
    r # q /\ kind[r] = "setup" /\ kind[q] = "setup"
      => {r, q} \cap raced # {} \/ ~({r, q} \subseteq users)

(***************************************************************************)
(* A finished acceptance or access form has given its user exactly the      *)
(* roles it named on every account it knew and that still is, and an        *)
(* acceptance exactly the invitation's admin flag; whoever made an account  *)
(* owns it.  Unless another request wrote the same user's roles since.      *)
(***************************************************************************)
GrantsAreExact ==
  \A r \in Requests \ mixed :
    pc[r] = "done" /\ kind[r] \in {"accept", "access", "account"} /\ target[r] \in users
      => /\ \A a \in accounts : \/ members[target[r]][a] = wish[r][a]
                                \/ kind[r] = "account" /\ wish[r][a] = NoRole
         /\ kind[r] = "accept" => (r \in admins <=> invites[tok[r]].admin)
=============================================================================
