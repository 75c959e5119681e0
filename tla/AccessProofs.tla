---------------------------- MODULE AccessProofs ----------------------------
(***************************************************************************)
(* Who may use an installation (Access), for any finite number of requests  *)
(* and accounts, any number of links, and any limits of the plans.          *)
(***************************************************************************)
EXTENDS Access, FiniteSetTheorems, TLAPS

-----------------------------------------------------------------------------
(* The inductive invariant. *)

\* Where a request can be, by what it asks for, and what it knows there.
Places ==
  \A r \in Requests :
    /\ pc[r] \in {"count", "limit"} => kind[r] \in {"create", "accept", "account"}
    /\ pc[r] = "save" => kind[r] \in {"setup", "create", "accept", "account"}
    /\ pc[r] = "grant" => kind[r] \in {"accept", "access", "account"}
    /\ pc[r] = "idle" <=> kind[r] = "none"
    /\ kind[r] \in {"setup", "create"} => pc[r] # "failed"
    /\ IF kind[r] = "accept" THEN tok[r] \in Tokens /\ target[r] = r ELSE tok[r] = NoToken

\* Requests that are past their first write.
Wrote(r) == pc[r] \in {"grant", "done", "failed"}

\* A user is saved once, by the request it is named for, and does not come back.
Saved ==
  /\ users \subseteq joined
  /\ \A r \in Requests : r \in joined <=> kind[r] \in {"setup", "create", "accept"} /\ Wrote(r)
  /\ \A r \in Requests : Wrote(r) /\ kind[r] \in {"accept", "access"} => target[r] \in joined
  /\ \A r \in Requests : kind[r] = "account" => target[r] \in joined

\* A setup to be saved has been overtaken by any owner another setup has made.
OneSetup ==
  \A r \in joined \cap Requests, q \in Requests :
    kind[r] = "setup" /\ kind[q] = "setup" /\ pc[q] = "save" => q \in raced \/ r \notin users

\* A link was sent before it was opened, and keeps the name of who accepted it until that user
\* is deleted.
Links ==
  /\ \A r \in Requests : tok[r] \in Tokens => invites[tok[r]].sent
  /\ \A t \in Tokens : ~invites[t].sent => stamped[t] = {} /\ invites[t].by = NoUser
  /\ \A t \in Tokens : stamped[t] \subseteq joined
  /\ \A t \in Tokens : invites[t].by # NoUser => invites[t].by \in stamped[t]
  /\ \A t \in Tokens : invites[t].by = NoUser /\ stamped[t] # {} => ~(stamped[t] \subseteq users)
  /\ \A r \in Requests : kind[r] = "accept" /\ pc[r] = "done" => r \in stamped[tok[r]]

\* Two acceptances by one link overlap, unless one of them ends before it is stamped or a user
\* it was stamped with is deleted.
LinksMet ==
  \A r, q \in Requests :
    r # q /\ tok[r] \in Tokens /\ tok[q] = tok[r]
      => \/ {r, q} \in alongside
         \/ {"failed", "refused"} \cap {pc[r], pc[q]} # {}
         \/ ~(stamped[tok[r]] \subseteq users)

\* The highest limits there were, and who may exceed them.
Seats == IF paid THEN PaidSeats ELSE FreeSeats
Room  == IF paid THEN PaidAccounts ELSE FreeAccounts
LateUsers    == {r \in raced : r \in joined}
LateAccounts == {r \in raced : kind[r] = "account" /\ pc[r] \in {"grant", "done", "failed"}}

\* A count is too low, or passed the limit wrongly, only if another row was saved after it.
UserCounts ==
  /\ Cardinality(users) <= Seats + Cardinality(LateUsers)
  /\ \A r \in Requests \ raced : kind[r] # "account" =>
       /\ pc[r] = "limit" => Cardinality(users) <= seen[r]
       /\ pc[r] = "save" => Cardinality(users) < Seats
AccountCounts ==
  /\ Cardinality(accounts) <= Room + Cardinality(LateAccounts)
  /\ \A r \in Requests \ raced : kind[r] = "account" =>
       /\ pc[r] = "limit" => Cardinality(accounts) <= seen[r]
       /\ pc[r] = "save" => Cardinality(accounts) < Room
PlanKnown == plan # "free" => paid

\* Nobody has a role on an account that is yet to be made, nor a user who is not there.
Fresh ==
  /\ \A u \in Users \ users : members[u] = NoGrants
  /\ \A a \in Accounts \ born : /\ \A u \in Users : members[u][a] = NoRole
                                /\ \A r \in Requests : wish[r][a] = NoRole
                                /\ \A t \in Tokens : invites[t].roles[a] = NoRole
  /\ \A r \in Requests : kind[r] = "account" /\ ~Wrote(r) => wish[r] = NoGrants
  /\ \A r \in Requests : pc[r] = "idle" => wish[r] = NoGrants

\* What has been written of a request's roles is what it wished.
Written ==
  \A r \in Requests \ mixed :
    /\ pc[r] = "done" /\ kind[r] \in {"accept", "access", "account"} => todo[r] = {}
    /\ pc[r] \in {"grant", "done"} /\ kind[r] \in {"accept", "access", "account"}
         /\ target[r] \in users
         => \A a \in accounts \ todo[r] : \/ members[target[r]][a] = wish[r][a]
                                          \/ kind[r] = "account" /\ wish[r][a] = NoRole
    /\ pc[r] \in {"grant", "done"} /\ kind[r] = "accept" /\ r \in users
         => (r \in admins <=> invites[tok[r]].admin)

AccessInv ==
  /\ TypeOK /\ Places /\ Saved /\ OneSetup /\ OneOwner /\ Links /\ LinksMet
  /\ UserCounts /\ AccountCounts /\ PlanKnown /\ Fresh /\ Written

-----------------------------------------------------------------------------
(* The first state, and types. *)

\* Rows of Invitation.
InviteRows(U) ==
  [sent : BOOLEAN, admin : BOOLEAN, roles : Grants, expired : BOOLEAN, by : U \cup {NoUser}]

LEMMA RowFields ==
  ASSUME NEW U, NEW V, NEW i \in InviteRows(U)
  PROVE  /\ [i EXCEPT !.expired = TRUE] \in InviteRows(U)
         /\ \A u \in V \cup {NoUser} : [i EXCEPT !.by = u] \in InviteRows(V)
         /\ i.by \in V => i \in InviteRows(V)
  BY DEF InviteRows

LEMMA Finite ==
  ASSUME TypeOK
  PROVE  /\ IsFiniteSet(users) /\ Cardinality(users) \in Nat
         /\ IsFiniteSet(accounts) /\ Cardinality(accounts) \in Nat
<1>1. IsFiniteSet(Users)
  BY AccessAssumption, FS_AddElement DEF Users
<1>2. users \in SUBSET Users /\ accounts \in SUBSET Accounts
  BY DEF TypeOK
<1>3. IsFiniteSet(users) /\ IsFiniteSet(accounts)
  BY <1>1, <1>2, AccessAssumption, FS_Subset
<1> QED
  BY <1>3, FS_CardinalityType

LEMMA FiniteRequests ==
  ASSUME NEW S, S \subseteq Requests
  PROVE  IsFiniteSet(S) /\ Cardinality(S) \in Nat
<1>1. S \in SUBSET Requests
  OBVIOUS
<1>2. IsFiniteSet(S)
  BY <1>1, AccessAssumption, FS_Subset
<1> QED
  BY <1>2, FS_CardinalityType

LEMMA Late ==
  ASSUME TypeOK
  PROVE  /\ IsFiniteSet(LateUsers) /\ Cardinality(LateUsers) \in Nat
         /\ IsFiniteSet(LateAccounts) /\ Cardinality(LateAccounts) \in Nat
<1>1. LateUsers \subseteq Requests /\ LateAccounts \subseteq Requests
  BY DEF LateUsers, LateAccounts, TypeOK
<1> QED
  BY <1>1, FiniteRequests

LEMMA Limits ==
  /\ Seats \in Nat /\ Room \in Nat /\ Seats >= 1
  /\ FreeSeats <= Seats /\ FreeAccounts <= Room
  BY AccessAssumption DEF Seats, Room

LEMMA AccessInit == Init => AccessInv
<1> SUFFICES ASSUME Init PROVE AccessInv
  OBVIOUS
<1> USE AccessAssumption DEF Init
<1>1. NoInvite \in InviteRows(users)
  BY DEF NoInvite, InviteRows, Grants, NoGrants
<1>2. invites \in [Tokens -> InviteRows(users)]
  BY <1>1
<1>3. TypeOK
  <2>1. NoGrants \in Grants
    BY DEF NoGrants, Grants
  <2>2. users \subseteq Users /\ users \in {{}, {Founder}}
    BY DEF Users
  <2> QED
    BY <1>2, <2>1, <2>2 DEF TypeOK, InviteRows, Roles
<1>4. Places /\ Saved /\ OneSetup /\ OneOwner /\ LinksMet
  BY DEF Places, Saved, Wrote, OneSetup, OneOwner, LinksMet
<1>5. Links
  BY DEF Links, NoInvite
<1>6. Fresh
  BY DEF Fresh, Wrote, NoInvite, NoGrants
<1>7. Written
  BY DEF Written
<1>8. UserCounts
  <2>1. Cardinality(users) <= 1 /\ Cardinality(users) \in Nat
    <3>1. CASE users = {}
      BY <3>1, FS_EmptySet
    <3>2. CASE users = {Founder}
      <4>1. Cardinality({Founder}) = 1
        BY FS_Singleton
      <4> QED
        BY <3>2, <4>1
    <3> QED
      BY <3>1, <3>2
  <2>2. Cardinality(LateUsers) = 0
    <3>1. LateUsers = {}
      BY DEF LateUsers
    <3> QED
      BY <3>1, FS_EmptySet
  <2> QED
    BY <2>1, <2>2, Limits DEF UserCounts
<1>9. AccountCounts
  <2>1. Cardinality(accounts) <= FreeAccounts /\ Cardinality(accounts) \in Nat
    BY <1>3, Finite
  <2>2. Cardinality(LateAccounts) = 0
    <3>1. LateAccounts = {}
      BY DEF LateAccounts
    <3> QED
      BY <3>1, FS_EmptySet
  <2> QED
    BY <2>1, <2>2, Limits DEF AccountCounts
<1> QED
  BY <1>3, <1>4, <1>5, <1>6, <1>7, <1>8, <1>9 DEF AccessInv, PlanKnown

LEMMA TypesNext ==
  ASSUME TypeOK, Places, [Next]_vars
  PROVE  TypeOK'
<1> USE AccessAssumption DEF TypeOK, Users, Grants, NoGrants, Roles, Places
<1>1. ASSUME NEW r \in Requests, OpenSetup(r) PROVE TypeOK'
  BY <1>1 DEF OpenSetup, Goto, rows, history
<1>2. ASSUME NEW r \in Requests, OpenCreate(r) PROVE TypeOK'
  BY <1>2 DEF OpenCreate, Goto, rows, history
<1>3. ASSUME NEW r \in Requests, CountRows(r) PROVE TypeOK'
  <2>1. Cardinality(IF kind[r] = "account" THEN accounts ELSE users) \in Nat
    BY Finite
  <2> QED
    BY <1>3, <2>1 DEF CountRows, Goto, rows, history
<1>4. ASSUME NEW r \in Requests, CheckLimit(r) PROVE TypeOK'
  BY <1>4 DEF CheckLimit, Goto, rows, history
<1>5. ASSUME NEW r \in Requests, SaveUser(r) PROVE TypeOK'
  BY <1>5 DEF SaveUser, Goto, Overtaken
<1>6. ASSUME NEW r \in Requests, SaveAccount(r) PROVE TypeOK'
  BY <1>6 DEF SaveAccount, Goto, Overtaken
<1>7. ASSUME NEW r \in Requests, Finish(r) PROVE TypeOK'
  BY <1>7 DEF Finish, Goto, rows, requests, history
<1>8. ASSUME NEW r \in Requests, Stamp(r) PROVE TypeOK'
  <2>1. tok[r] \in Tokens /\ r \in users
    BY <1>8 DEF Stamp
  <2>i. invites[tok[r]] \in InviteRows(users)
    BY <2>1 DEF InviteRows
  <2>2. [invites[tok[r]] EXCEPT !.by = r] \in InviteRows(users)
    BY ONLY <2>1, <2>i, RowFields
  <2>3. invites' \in [Tokens -> InviteRows(users)]
    BY <1>8, <2>1, <2>2 DEF Stamp, InviteRows
  <2>4. stamped' \in [Tokens -> SUBSET Users]
    BY <1>8, <2>1 DEF Stamp
  <2> QED
    BY <1>8, <2>3, <2>4 DEF Stamp, Goto, requests, InviteRows
<1>9. ASSUME NEW r \in Requests, Break(r) PROVE TypeOK'
  BY <1>9 DEF Break, Goto, rows, requests, history
<1>10. ASSUME NEW r \in Requests, NEW t \in Tokens, OpenLink(r, t) PROVE TypeOK'
  <2>1. invites[t].roles \in Grants
    OBVIOUS
  <2>2. wish' \in [Requests -> Grants]
    BY <1>10, <2>1 DEF OpenLink
  <2>i. alongside \subseteq SUBSET Requests /\ r \in Requests
    OBVIOUS
  <2>j. alongside' = alongside \cup {{r, q} : q \in {q \in Requests : tok[q] = t /\ InProgress(q)}}
    BY <1>10 DEF OpenLink
  <2>3. alongside' \subseteq SUBSET Requests
    BY ONLY <2>i, <2>j
  <2> QED
    BY <1>10, <2>2, <2>3 DEF OpenLink, Goto, rows
<1>11. ASSUME NEW r \in Requests, NEW u \in Users, OpenAccess(r, u) PROVE TypeOK'
  BY <1>11 DEF OpenAccess, Goto, rows, history
<1>12. ASSUME NEW r \in Requests, NEW u \in Users, OpenAccount(r, u) PROVE TypeOK'
  BY <1>12 DEF OpenAccount, Goto, rows, history
<1>13. ASSUME NEW r \in Requests, NEW a \in Accounts, Grant(r, a) PROVE TypeOK'
  BY <1>13 DEF Grant, WriteRole
<1>14. ASSUME NEW r \in Requests, NEW a \in Accounts, Skip(r, a) PROVE TypeOK'
  BY <1>14 DEF Skip, rows, history
<1>15. ASSUME NEW t \in Tokens, SendInvitation(t) PROVE TypeOK'
  <2>1. PICK admin \in BOOLEAN, role \in Roles, chosen \in SUBSET accounts :
          invites' = [invites EXCEPT ![t] =
            [NoInvite EXCEPT !.sent = TRUE, !.admin = admin,
                             !.roles = [a \in Accounts |-> IF a \in chosen THEN role ELSE NoRole]]]
    BY <1>15 DEF SendInvitation
  <2>2. [a \in Accounts |-> IF a \in chosen THEN role ELSE NoRole] \in Grants
    OBVIOUS
  <2>3. invites'[t] \in InviteRows(users)
    BY <2>1, <2>2 DEF NoInvite, InviteRows
  <2>4. invites' \in [Tokens -> InviteRows(users)]
    BY <2>1, <2>3 DEF InviteRows
  <2> QED
    BY <1>15, <2>4 DEF SendInvitation, requests, history, InviteRows
<1>16. ASSUME NEW t \in Tokens, Expire(t) PROVE TypeOK'
  <2>i. invites[t] \in InviteRows(users)
    BY DEF InviteRows
  <2>1. [invites[t] EXCEPT !.expired = TRUE] \in InviteRows(users)
    BY ONLY <2>i, RowFields
  <2>2. invites' \in [Tokens -> InviteRows(users)]
    BY <1>16, <2>1 DEF Expire, InviteRows
  <2> QED
    BY <1>16, <2>2 DEF Expire, requests, history, InviteRows
<1>17. ASSUME NEW u \in Users, DeleteUser(u) PROVE TypeOK'
  <2>1. \A t \in Tokens : invites'[t] \in InviteRows(users')
    <3>1. TAKE t \in Tokens
    <3>i. invites[t] \in InviteRows(users)
      BY DEF InviteRows
    <3>2. CASE invites[t].by = u
      <4>1. invites'[t] = [invites[t] EXCEPT !.by = NoUser]
        BY <1>17, <3>2 DEF DeleteUser
      <4> QED
        BY ONLY <3>i, <4>1, RowFields
    <3>3. CASE invites[t].by # u
      <4>1. invites'[t] = invites[t] /\ users' = users \ {u}
        BY <1>17, <3>3 DEF DeleteUser
      <4> QED
        BY <4>1, <3>3 DEF InviteRows
    <3> QED
      BY <3>2, <3>3
  <2>2. invites' \in [Tokens -> InviteRows(users')]
    BY <1>17, <2>1 DEF DeleteUser
  <2>3. members' \in [Users -> Grants]
    BY <1>17 DEF DeleteUser
  <2> QED
    BY <1>17, <2>2, <2>3 DEF DeleteUser, requests, history, InviteRows
<1>18. ASSUME NEW a \in Accounts, DeleteAccount(a) PROVE TypeOK'
  BY <1>18 DEF DeleteAccount, requests, history
<1>19. CASE ChangePlan
  BY <1>19 DEF ChangePlan, requests
<1>20. CASE UNCHANGED vars
  BY <1>20 DEF vars
<1> QED
  BY <1>1, <1>2, <1>3, <1>4, <1>5, <1>6, <1>7, <1>8, <1>9, <1>10, <1>11, <1>12, <1>13, <1>14,
     <1>15, <1>16, <1>17, <1>18, <1>19, <1>20 DEF Next

-----------------------------------------------------------------------------
(* Requests and users. *)

LEMMA PlacesNext ==
  ASSUME TypeOK, Places, [Next]_vars
  PROVE  Places'
<1> USE AccessAssumption DEF Places, TypeOK
<1>1. ASSUME NEW r \in Requests, OpenSetup(r) PROVE Places'
  BY <1>1 DEF OpenSetup, Goto, rows, history
<1>2. ASSUME NEW r \in Requests, OpenCreate(r) PROVE Places'
  BY <1>2 DEF OpenCreate, Goto, rows, history
<1>3. ASSUME NEW r \in Requests, CountRows(r) PROVE Places'
  BY <1>3 DEF CountRows, Goto, rows, history
<1>4. ASSUME NEW r \in Requests, CheckLimit(r) PROVE Places'
  BY <1>4 DEF CheckLimit, Goto, rows, history
<1>5. ASSUME NEW r \in Requests, SaveUser(r) PROVE Places'
  BY <1>5 DEF SaveUser, Goto, Overtaken
<1>6. ASSUME NEW r \in Requests, SaveAccount(r) PROVE Places'
  BY <1>6 DEF SaveAccount, Goto, Overtaken
<1>7. ASSUME NEW r \in Requests, Finish(r) PROVE Places'
  BY <1>7 DEF Finish, Goto, rows, requests, history
<1>8. ASSUME NEW r \in Requests, Stamp(r) PROVE Places'
  BY <1>8 DEF Stamp, Goto, requests
<1>9. ASSUME NEW r \in Requests, Break(r) PROVE Places'
  BY <1>9 DEF Break, Goto, rows, requests, history
<1>10. ASSUME NEW r \in Requests, NEW t \in Tokens, OpenLink(r, t) PROVE Places'
  BY <1>10 DEF OpenLink, Goto, IsUsable, InProgress, rows
<1>11. ASSUME NEW r \in Requests, NEW u \in Users, OpenAccess(r, u) PROVE Places'
  BY <1>11 DEF OpenAccess, Goto, rows, history
<1>12. ASSUME NEW r \in Requests, NEW u \in Users, OpenAccount(r, u) PROVE Places'
  BY <1>12 DEF OpenAccount, Goto, rows, history
<1>13. ASSUME NEW r \in Requests, NEW a \in Accounts, Grant(r, a) PROVE Places'
  BY <1>13 DEF Grant, WriteRole
<1>14. ASSUME NEW r \in Requests, NEW a \in Accounts, Skip(r, a) PROVE Places'
  BY <1>14 DEF Skip, rows, history
<1>15. ASSUME NEW t \in Tokens, SendInvitation(t) PROVE Places'
  BY <1>15 DEF SendInvitation, requests, history
<1>16. ASSUME NEW t \in Tokens, Expire(t) PROVE Places'
  BY <1>16 DEF Expire, requests, history
<1>17. ASSUME NEW u \in Users, DeleteUser(u) PROVE Places'
  BY <1>17 DEF DeleteUser, requests, history
<1>18. ASSUME NEW a \in Accounts, DeleteAccount(a) PROVE Places'
  BY <1>18 DEF DeleteAccount, requests, history
<1>19. CASE ChangePlan
  BY <1>19 DEF ChangePlan, requests
<1>20. CASE UNCHANGED vars
  BY <1>20 DEF vars
<1> QED
  BY <1>1, <1>2, <1>3, <1>4, <1>5, <1>6, <1>7, <1>8, <1>9, <1>10, <1>11, <1>12, <1>13, <1>14,
     <1>15, <1>16, <1>17, <1>18, <1>19, <1>20 DEF Next

LEMMA SavedNext ==
  ASSUME TypeOK, Places, Saved, [Next]_vars
  PROVE  Saved'
<1> USE AccessAssumption DEF Saved, Wrote, Places, TypeOK, Users
<1>1. ASSUME NEW r \in Requests, OpenSetup(r) PROVE Saved'
  BY <1>1 DEF OpenSetup, Goto, rows, history
<1>2. ASSUME NEW r \in Requests, OpenCreate(r) PROVE Saved'
  BY <1>2 DEF OpenCreate, Goto, rows, history
<1>3. ASSUME NEW r \in Requests, CountRows(r) PROVE Saved'
  BY <1>3 DEF CountRows, Goto, rows, history
<1>4. ASSUME NEW r \in Requests, CheckLimit(r) PROVE Saved'
  BY <1>4 DEF CheckLimit, Goto, rows, history
<1>5. ASSUME NEW r \in Requests, SaveUser(r) PROVE Saved'
  BY <1>5 DEF SaveUser, Goto, Overtaken
<1>6. ASSUME NEW r \in Requests, SaveAccount(r) PROVE Saved'
  BY <1>6 DEF SaveAccount, Goto, Overtaken
<1>7. ASSUME NEW r \in Requests, Finish(r) PROVE Saved'
  BY <1>7 DEF Finish, Goto, rows, requests, history
<1>8. ASSUME NEW r \in Requests, Stamp(r) PROVE Saved'
  BY <1>8 DEF Stamp, Goto, requests
<1>9. ASSUME NEW r \in Requests, Break(r) PROVE Saved'
  BY <1>9 DEF Break, Goto, rows, requests, history
<1>10. ASSUME NEW r \in Requests, NEW t \in Tokens, OpenLink(r, t) PROVE Saved'
  BY <1>10 DEF OpenLink, Goto, IsUsable, InProgress, rows
<1>11. ASSUME NEW r \in Requests, NEW u \in Users, OpenAccess(r, u) PROVE Saved'
  BY <1>11 DEF OpenAccess, Goto, rows, history
<1>12. ASSUME NEW r \in Requests, NEW u \in Users, OpenAccount(r, u) PROVE Saved'
  BY <1>12 DEF OpenAccount, Goto, rows, history
<1>13. ASSUME NEW r \in Requests, NEW a \in Accounts, Grant(r, a) PROVE Saved'
  BY <1>13 DEF Grant, WriteRole
<1>14. ASSUME NEW r \in Requests, NEW a \in Accounts, Skip(r, a) PROVE Saved'
  BY <1>14 DEF Skip, rows, history
<1>15. ASSUME NEW t \in Tokens, SendInvitation(t) PROVE Saved'
  BY <1>15 DEF SendInvitation, requests, history
<1>16. ASSUME NEW t \in Tokens, Expire(t) PROVE Saved'
  BY <1>16 DEF Expire, requests, history
<1>17. ASSUME NEW u \in Users, DeleteUser(u) PROVE Saved'
  BY <1>17 DEF DeleteUser, requests, history
<1>18. ASSUME NEW a \in Accounts, DeleteAccount(a) PROVE Saved'
  BY <1>18 DEF DeleteAccount, requests, history
<1>19. CASE ChangePlan
  BY <1>19 DEF ChangePlan, requests
<1>20. CASE UNCHANGED vars
  BY <1>20 DEF vars
<1> QED
  BY <1>1, <1>2, <1>3, <1>4, <1>5, <1>6, <1>7, <1>8, <1>9, <1>10, <1>11, <1>12, <1>13, <1>14,
     <1>15, <1>16, <1>17, <1>18, <1>19, <1>20 DEF Next

LEMMA OneSetupNext ==
  ASSUME TypeOK, Places, Saved, OneSetup, OneOwner, [Next]_vars
  PROVE  (OneSetup /\ OneOwner)'
<1> USE DEF OneSetup, OneOwner, Saved, Wrote, Places, TypeOK, Users
<1>1. ASSUME NEW r \in Requests, OpenSetup(r) PROVE (OneSetup /\ OneOwner)'
  BY <1>1 DEF OpenSetup, Goto, rows, history
<1>2. ASSUME NEW r \in Requests, OpenCreate(r) PROVE (OneSetup /\ OneOwner)'
  BY <1>2 DEF OpenCreate, Goto, rows, history
<1>3. ASSUME NEW r \in Requests, CountRows(r) PROVE (OneSetup /\ OneOwner)'
  BY <1>3 DEF CountRows, Goto, rows, history
<1>4. ASSUME NEW r \in Requests, CheckLimit(r) PROVE (OneSetup /\ OneOwner)'
  BY <1>4 DEF CheckLimit, Goto, rows, history
<1>5. ASSUME NEW r \in Requests, SaveUser(r) PROVE (OneSetup /\ OneOwner)'
  BY <1>5 DEF SaveUser, Goto, Overtaken
<1>6. ASSUME NEW r \in Requests, SaveAccount(r) PROVE (OneSetup /\ OneOwner)'
  BY <1>6 DEF SaveAccount, Goto, Overtaken
<1>7. ASSUME NEW r \in Requests, Finish(r) PROVE (OneSetup /\ OneOwner)'
  BY <1>7 DEF Finish, Goto, rows, requests, history
<1>8. ASSUME NEW r \in Requests, Stamp(r) PROVE (OneSetup /\ OneOwner)'
  BY <1>8 DEF Stamp, Goto, requests
<1>9. ASSUME NEW r \in Requests, Break(r) PROVE (OneSetup /\ OneOwner)'
  BY <1>9 DEF Break, Goto, rows, requests, history
<1>10. ASSUME NEW r \in Requests, NEW t \in Tokens, OpenLink(r, t) PROVE (OneSetup /\ OneOwner)'
  BY <1>10 DEF OpenLink, Goto, IsUsable, InProgress, rows
<1>11. ASSUME NEW r \in Requests, NEW u \in Users, OpenAccess(r, u) PROVE (OneSetup /\ OneOwner)'
  BY <1>11 DEF OpenAccess, Goto, rows, history
<1>12. ASSUME NEW r \in Requests, NEW u \in Users, OpenAccount(r, u) PROVE (OneSetup /\ OneOwner)'
  BY <1>12 DEF OpenAccount, Goto, rows, history
<1>13. ASSUME NEW r \in Requests, NEW a \in Accounts, Grant(r, a) PROVE (OneSetup /\ OneOwner)'
  BY <1>13 DEF Grant, WriteRole
<1>14. ASSUME NEW r \in Requests, NEW a \in Accounts, Skip(r, a) PROVE (OneSetup /\ OneOwner)'
  BY <1>14 DEF Skip, rows, history
<1>15. ASSUME NEW t \in Tokens, SendInvitation(t) PROVE (OneSetup /\ OneOwner)'
  BY <1>15 DEF SendInvitation, requests, history
<1>16. ASSUME NEW t \in Tokens, Expire(t) PROVE (OneSetup /\ OneOwner)'
  BY <1>16 DEF Expire, requests, history
<1>17. ASSUME NEW u \in Users, DeleteUser(u) PROVE (OneSetup /\ OneOwner)'
  BY <1>17 DEF DeleteUser, requests, history
<1>18. ASSUME NEW a \in Accounts, DeleteAccount(a) PROVE (OneSetup /\ OneOwner)'
  BY <1>18 DEF DeleteAccount, requests, history
<1>19. CASE ChangePlan
  BY <1>19 DEF ChangePlan, requests
<1>20. CASE UNCHANGED vars
  BY <1>20 DEF vars
<1> QED
  BY <1>1, <1>2, <1>3, <1>4, <1>5, <1>6, <1>7, <1>8, <1>9, <1>10, <1>11, <1>12, <1>13, <1>14,
     <1>15, <1>16, <1>17, <1>18, <1>19, <1>20 DEF Next

-----------------------------------------------------------------------------
(* Links. *)

LEMMA LinksNext ==
  ASSUME TypeOK, Places, Saved, Links, [Next]_vars
  PROVE  Links'
<1> USE AccessAssumption DEF Links, Saved, Wrote, Places, TypeOK, Users
<1>1. ASSUME NEW r \in Requests, OpenSetup(r) PROVE Links'
  BY <1>1 DEF OpenSetup, Goto, rows, history
<1>2. ASSUME NEW r \in Requests, OpenCreate(r) PROVE Links'
  BY <1>2 DEF OpenCreate, Goto, rows, history
<1>3. ASSUME NEW r \in Requests, CountRows(r) PROVE Links'
  BY <1>3 DEF CountRows, Goto, rows, history
<1>4. ASSUME NEW r \in Requests, CheckLimit(r) PROVE Links'
  BY <1>4 DEF CheckLimit, Goto, rows, history
<1>5. ASSUME NEW r \in Requests, SaveUser(r) PROVE Links'
  BY <1>5 DEF SaveUser, Goto, Overtaken
<1>6. ASSUME NEW r \in Requests, SaveAccount(r) PROVE Links'
  BY <1>6 DEF SaveAccount, Goto, Overtaken
<1>7. ASSUME NEW r \in Requests, Finish(r) PROVE Links'
  BY <1>7 DEF Finish, Goto, rows, requests, history
<1>8. ASSUME NEW r \in Requests, Stamp(r) PROVE Links'
  BY <1>8 DEF Stamp, Goto, requests
<1>9. ASSUME NEW r \in Requests, Break(r) PROVE Links'
  BY <1>9 DEF Break, Goto, rows, requests, history
<1>10. ASSUME NEW r \in Requests, NEW t \in Tokens, OpenLink(r, t) PROVE Links'
  <2>1. /\ UNCHANGED <<users, invites, stamped, joined>>
        /\ tok' = [tok EXCEPT ![r] = t] /\ kind' = [kind EXCEPT ![r] = "accept"]
        /\ pc' = [pc EXCEPT ![r] = "count"] /\ invites[t].sent
    BY <1>10 DEF OpenLink, Goto, IsUsable, rows
  <2>2. \A q \in Requests : tok'[q] \in Tokens => invites'[tok'[q]].sent
    BY <2>1
  <2>3. \A q \in Requests : kind'[q] = "accept" /\ pc'[q] = "done" => q \in stamped'[tok'[q]]
    BY <2>1
  <2> QED
    BY <2>1, <2>2, <2>3
<1>11. ASSUME NEW r \in Requests, NEW u \in Users, OpenAccess(r, u) PROVE Links'
  BY <1>11 DEF OpenAccess, Goto, rows, history
<1>12. ASSUME NEW r \in Requests, NEW u \in Users, OpenAccount(r, u) PROVE Links'
  BY <1>12 DEF OpenAccount, Goto, rows, history
<1>13. ASSUME NEW r \in Requests, NEW a \in Accounts, Grant(r, a) PROVE Links'
  BY <1>13 DEF Grant, WriteRole
<1>14. ASSUME NEW r \in Requests, NEW a \in Accounts, Skip(r, a) PROVE Links'
  BY <1>14 DEF Skip, rows, history
<1>15. ASSUME NEW t \in Tokens, SendInvitation(t) PROVE Links'
  BY <1>15 DEF SendInvitation, requests, history, NoInvite
<1>16. ASSUME NEW t \in Tokens, Expire(t) PROVE Links'
  BY <1>16 DEF Expire, requests, history
<1>17. ASSUME NEW u \in Users, DeleteUser(u) PROVE Links'
  BY <1>17 DEF DeleteUser, requests, history
<1>18. ASSUME NEW a \in Accounts, DeleteAccount(a) PROVE Links'
  BY <1>18 DEF DeleteAccount, requests, history
<1>19. CASE ChangePlan
  BY <1>19 DEF ChangePlan, requests
<1>20. CASE UNCHANGED vars
  BY <1>20 DEF vars
<1> QED
  BY <1>1, <1>2, <1>3, <1>4, <1>5, <1>6, <1>7, <1>8, <1>9, <1>10, <1>11, <1>12, <1>13, <1>14,
     <1>15, <1>16, <1>17, <1>18, <1>19, <1>20 DEF Next

LEMMA LinksMetNext ==
  ASSUME TypeOK, Places, Saved, Links, LinksMet, [Next]_vars
  PROVE  LinksMet'
<1> USE AccessAssumption DEF LinksMet, Links, Saved, Wrote, Places, TypeOK, Users
<1>1. ASSUME NEW r \in Requests, OpenSetup(r) PROVE LinksMet'
  BY <1>1 DEF OpenSetup, Goto, rows, history
<1>2. ASSUME NEW r \in Requests, OpenCreate(r) PROVE LinksMet'
  BY <1>2 DEF OpenCreate, Goto, rows, history
<1>3. ASSUME NEW r \in Requests, CountRows(r) PROVE LinksMet'
  BY <1>3 DEF CountRows, Goto, rows, history
<1>4. ASSUME NEW r \in Requests, CheckLimit(r) PROVE LinksMet'
  BY <1>4 DEF CheckLimit, Goto, rows, history
<1>5. ASSUME NEW r \in Requests, SaveUser(r) PROVE LinksMet'
  BY <1>5 DEF SaveUser, Goto, Overtaken
<1>6. ASSUME NEW r \in Requests, SaveAccount(r) PROVE LinksMet'
  BY <1>6 DEF SaveAccount, Goto, Overtaken
<1>7. ASSUME NEW r \in Requests, Finish(r) PROVE LinksMet'
  BY <1>7 DEF Finish, Goto, rows, requests, history
<1>8. ASSUME NEW r \in Requests, Stamp(r) PROVE LinksMet'
  BY <1>8 DEF Stamp, Goto, requests
<1>9. ASSUME NEW r \in Requests, Break(r) PROVE LinksMet'
  BY <1>9 DEF Break, Goto, rows, requests, history
<1>10. ASSUME NEW r \in Requests, NEW t \in Tokens, OpenLink(r, t) PROVE LinksMet'
  <2>1. /\ UNCHANGED <<users, stamped>>
        /\ tok' = [tok EXCEPT ![r] = t] /\ pc' = [pc EXCEPT ![r] = "count"]
    BY <1>10 DEF OpenLink, Goto, rows
  <2>2. alongside' = alongside \cup {{r, q} : q \in {q \in Requests : tok[q] = t /\ InProgress(q)}}
    BY <1>10 DEF OpenLink
  <2>3. ASSUME NEW q \in Requests, q # r, tok[q] = t
        PROVE  \/ {r, q} \in alongside' \/ pc[q] \in {"failed", "refused"}
               \/ ~(stamped[t] \subseteq users)
    <3>1. CASE InProgress(q)
      BY <2>2, <2>3, <3>1
    <3>2. CASE pc[q] = "done"
      <4>1. kind[q] = "accept"
        BY <2>3
      <4>2. q \in stamped[t]
        BY <2>3, <3>2, <4>1
      <4> QED
        BY <1>10, <4>2 DEF OpenLink, IsUsable
    <3>3. pc[q] # "idle"
      BY <2>3
    <3> QED
      BY <3>1, <3>2, <3>3 DEF InProgress
  <2>4. SUFFICES ASSUME NEW q \in Requests, NEW p \in Requests, q # p,
                        tok'[q] \in Tokens, tok'[p] = tok'[q]
                 PROVE  \/ {q, p} \in alongside'
                        \/ {"failed", "refused"} \cap {pc'[q], pc'[p]} # {}
                        \/ ~(stamped'[tok'[q]] \subseteq users')
    OBVIOUS
  <2>5. CASE q # r /\ p # r
    <3>1. alongside \subseteq alongside'
      BY <2>2
    <3> QED
      BY <2>1, <2>4, <2>5, <3>1
  <2>6. CASE q = r
    <3>1. p # r /\ tok[p] = t
      BY <2>1, <2>4, <2>6
    <3>2. \/ {r, p} \in alongside' \/ pc[p] \in {"failed", "refused"}
          \/ ~(stamped[t] \subseteq users)
      BY <2>3, <3>1
    <3>3. pc'[p] = pc[p] /\ tok'[q] = t /\ stamped'[t] = stamped[t] /\ users' = users
      BY <2>1, <2>6, <3>1
    <3> QED
      BY ONLY <2>6, <3>2, <3>3
  <2>7. CASE p = r
    <3>1. q # r /\ tok[q] = t /\ {q, p} = {r, q}
      BY <2>1, <2>4, <2>7
    <3>2. \/ {r, q} \in alongside' \/ pc[q] \in {"failed", "refused"}
          \/ ~(stamped[t] \subseteq users)
      BY <2>3, <3>1
    <3>3. pc'[q] = pc[q] /\ tok'[q] = t /\ stamped'[t] = stamped[t] /\ users' = users
      BY <2>1, <2>7, <3>1
    <3> QED
      BY ONLY <3>1, <3>2, <3>3
  <2> QED
    BY <2>5, <2>6, <2>7
<1>11. ASSUME NEW r \in Requests, NEW u \in Users, OpenAccess(r, u) PROVE LinksMet'
  BY <1>11 DEF OpenAccess, Goto, rows, history
<1>12. ASSUME NEW r \in Requests, NEW u \in Users, OpenAccount(r, u) PROVE LinksMet'
  BY <1>12 DEF OpenAccount, Goto, rows, history
<1>13. ASSUME NEW r \in Requests, NEW a \in Accounts, Grant(r, a) PROVE LinksMet'
  BY <1>13 DEF Grant, WriteRole
<1>14. ASSUME NEW r \in Requests, NEW a \in Accounts, Skip(r, a) PROVE LinksMet'
  BY <1>14 DEF Skip, rows, history
<1>15. ASSUME NEW t \in Tokens, SendInvitation(t) PROVE LinksMet'
  BY <1>15 DEF SendInvitation, requests, history, NoInvite
<1>16. ASSUME NEW t \in Tokens, Expire(t) PROVE LinksMet'
  BY <1>16 DEF Expire, requests, history
<1>17. ASSUME NEW u \in Users, DeleteUser(u) PROVE LinksMet'
  BY <1>17 DEF DeleteUser, requests, history
<1>18. ASSUME NEW a \in Accounts, DeleteAccount(a) PROVE LinksMet'
  BY <1>18 DEF DeleteAccount, requests, history
<1>19. CASE ChangePlan
  BY <1>19 DEF ChangePlan, requests
<1>20. CASE UNCHANGED vars
  BY <1>20 DEF vars
<1> QED
  BY <1>1, <1>2, <1>3, <1>4, <1>5, <1>6, <1>7, <1>8, <1>9, <1>10, <1>11, <1>12, <1>13, <1>14,
     <1>15, <1>16, <1>17, <1>18, <1>19, <1>20 DEF Next

-----------------------------------------------------------------------------
(* Seats and accounts. *)

\* A plan's limit is not above the highest there was.
LEMMA LimitBounds ==
  ASSUME PlanKnown, NEW r \in Requests
  PROVE  IF kind[r] = "account" THEN Limit(r) \in Nat /\ Limit(r) <= Room
                                ELSE Limit(r) \in Nat /\ Limit(r) <= Seats
  BY AccessAssumption DEF PlanKnown, Limit, Seats, Room

\* A step that adds no user and lets nobody past the count or the limit.
LEMMA UserCountsStay ==
  ASSUME TypeOK, TypeOK', UserCounts, users' \subseteq users, LateUsers \subseteq LateUsers',
         raced \subseteq raced', paid => paid',
         \A r \in Requests : kind'[r] # "account" /\ pc'[r] \in {"limit", "save"}
           => pc'[r] = pc[r] /\ kind[r] # "account" /\ seen'[r] = seen[r]
  PROVE  UserCounts'
<1>1. /\ IsFiniteSet(users) /\ Cardinality(users) \in Nat
      /\ Cardinality(users') \in Nat /\ Cardinality(users') <= Cardinality(users)
  <2>1. IsFiniteSet(users) /\ users' \in SUBSET users
    BY Finite
  <2>2. IsFiniteSet(users') /\ Cardinality(users') <= Cardinality(users)
    BY <2>1, FS_Subset
  <2> QED
    BY <2>1, <2>2, FS_CardinalityType
<1>2. /\ Cardinality(LateUsers) \in Nat /\ Cardinality(LateUsers') \in Nat
      /\ Cardinality(LateUsers) <= Cardinality(LateUsers')
  <2>1. LateUsers' \subseteq Requests
    BY DEF LateUsers, TypeOK
  <2>2. /\ IsFiniteSet(LateUsers') /\ Cardinality(LateUsers') \in Nat
        /\ LateUsers \in SUBSET LateUsers'
    BY <2>1, FiniteRequests
  <2>3. Cardinality(LateUsers) <= Cardinality(LateUsers')
    BY <2>2, FS_Subset
  <2> QED
    BY <2>2, <2>3, Late
<1>3. Seats \in Nat /\ Seats' \in Nat /\ Seats <= Seats'
  BY AccessAssumption DEF Seats
<1>4. Cardinality(users') <= Seats' + Cardinality(LateUsers')
  BY <1>1, <1>2, <1>3 DEF UserCounts
<1>5. ASSUME NEW r \in Requests \ raced', kind'[r] # "account"
      PROVE  /\ pc'[r] = "limit" => Cardinality(users') <= seen'[r]
             /\ pc'[r] = "save" => Cardinality(users') < Seats'
  <2>1. seen[r] \in Nat
    BY DEF TypeOK
  <2> QED
    BY <1>1, <1>3, <1>5, <2>1 DEF UserCounts
<1> QED
  BY <1>4, <1>5 DEF UserCounts

\* A step that adds no account and lets nobody past the count or the limit.
LEMMA AccountCountsStay ==
  ASSUME TypeOK, TypeOK', AccountCounts, accounts' \subseteq accounts,
           LateAccounts \subseteq LateAccounts',
         raced \subseteq raced', paid => paid',
         \A r \in Requests : kind'[r] = "account" /\ pc'[r] \in {"limit", "save"}
           => pc'[r] = pc[r] /\ kind[r] = "account" /\ seen'[r] = seen[r]
  PROVE  AccountCounts'
<1>1. /\ IsFiniteSet(accounts) /\ Cardinality(accounts) \in Nat
      /\ Cardinality(accounts') \in Nat /\ Cardinality(accounts') <= Cardinality(accounts)
  <2>1. IsFiniteSet(accounts) /\ accounts' \in SUBSET accounts
    BY Finite
  <2>2. IsFiniteSet(accounts') /\ Cardinality(accounts') <= Cardinality(accounts)
    BY <2>1, FS_Subset
  <2> QED
    BY <2>1, <2>2, FS_CardinalityType
<1>2. /\ Cardinality(LateAccounts) \in Nat /\ Cardinality(LateAccounts') \in Nat
      /\ Cardinality(LateAccounts) <= Cardinality(LateAccounts')
  <2>1. LateAccounts' \subseteq Requests
    BY DEF LateAccounts, TypeOK
  <2>2. /\ IsFiniteSet(LateAccounts') /\ Cardinality(LateAccounts') \in Nat
        /\ LateAccounts \in SUBSET LateAccounts'
    BY <2>1, FiniteRequests
  <2>3. Cardinality(LateAccounts) <= Cardinality(LateAccounts')
    BY <2>2, FS_Subset
  <2> QED
    BY <2>2, <2>3, Late
<1>3. Room \in Nat /\ Room' \in Nat /\ Room <= Room'
  BY AccessAssumption DEF Room
<1>4. Cardinality(accounts') <= Room' + Cardinality(LateAccounts')
  BY <1>1, <1>2, <1>3 DEF AccountCounts
<1>5. ASSUME NEW r \in Requests \ raced', kind'[r] = "account"
      PROVE  /\ pc'[r] = "limit" => Cardinality(accounts') <= seen'[r]
             /\ pc'[r] = "save" => Cardinality(accounts') < Room'
  <2>1. seen[r] \in Nat
    BY DEF TypeOK
  <2> QED
    BY <1>1, <1>3, <1>5, <2>1 DEF AccountCounts
<1> QED
  BY <1>4, <1>5 DEF AccountCounts

LEMMA UserCountsNext ==
  ASSUME TypeOK, TypeOK', Places, Saved, PlanKnown, UserCounts, [Next]_vars
  PROVE  UserCounts'
<1> USE AccessAssumption DEF TypeOK, Places, Saved, Wrote, PlanKnown
<1>1. ASSUME NEW r \in Requests, OpenSetup(r) PROVE UserCounts'
  <2>1. /\ UNCHANGED <<raced, LateUsers, users, seen, Seats>> /\ users = {}
        /\ pc' = [pc EXCEPT ![r] = "save"] /\ kind' = [kind EXCEPT ![r] = "setup"]
    BY <1>1 DEF OpenSetup, Goto, rows, history, LateUsers, Seats
  <2>2. Cardinality(users) < Seats
    BY <2>1, Limits, FS_EmptySet
  <2>3. \A q \in Requests : q # r => pc'[q] = pc[q] /\ kind'[q] = kind[q]
    BY <2>1
  <2>4. pc'[r] = "save"
    BY <2>1
  <2> QED
    BY <2>1, <2>2, <2>3, <2>4 DEF UserCounts
<1>2. ASSUME NEW r \in Requests, OpenCreate(r) PROVE UserCounts'
  BY <1>2, UserCountsStay DEF OpenCreate, Goto, rows, history, LateUsers
<1>3. ASSUME NEW r \in Requests, CountRows(r) PROVE UserCounts'
  <2>1. CASE kind[r] = "account"
    BY <1>3, <2>1, UserCountsStay DEF CountRows, Goto, rows, history, LateUsers
  <2>2. CASE kind[r] # "account"
    <3>1. /\ UNCHANGED <<kind, raced, LateUsers, users, Seats>>
          /\ pc' = [pc EXCEPT ![r] = "limit"] /\ seen' = [seen EXCEPT ![r] = Cardinality(users)]
      BY <1>3, <2>2 DEF CountRows, Goto, rows, history, LateUsers, Seats
    <3>2. Cardinality(users) \in Nat
      BY Finite
    <3> QED
      BY <3>1, <3>2 DEF UserCounts
  <2> QED
    BY <2>1, <2>2
<1>4. ASSUME NEW r \in Requests, CheckLimit(r) PROVE UserCounts'
  <2>1. /\ UNCHANGED <<kind, raced, LateUsers, users, Seats>> /\ pc[r] = "limit"
        /\ pc' = [pc EXCEPT ![r] = IF seen[r] < Limit(r) THEN "save" ELSE "refused"]
        /\ \A q \in Requests : q # r => seen'[q] = seen[q]
    BY <1>4 DEF CheckLimit, Goto, rows, history, LateUsers, Seats
  <2>2. Cardinality(users) \in Nat /\ seen[r] \in Nat /\ Seats \in Nat
    BY Finite, Limits
  <2>3. kind[r] # "account" => Limit(r) \in Nat /\ Limit(r) <= Seats
    BY LimitBounds
  <2>4. r \notin raced /\ kind[r] # "account" /\ pc'[r] = "save" => Cardinality(users) < Seats
    BY <2>1, <2>2, <2>3 DEF UserCounts
  <2>5. \A q \in Requests : q # r => pc'[q] = pc[q]
    BY <2>1
  <2>6. pc'[r] # "limit"
    BY <2>1
  <2> QED
    BY <2>1, <2>4, <2>5, <2>6 DEF UserCounts
<1>5. ASSUME NEW r \in Requests, SaveUser(r) PROVE UserCounts'
  <2>1. /\ users' = users \cup {r} /\ joined' = joined \cup {r} /\ r \notin joined
        /\ raced' = raced \cup Overtaken(r) /\ UNCHANGED <<kind, seen, Seats>>
        /\ kind[r] # "account" /\ pc[r] = "save" /\ pc'[r] \notin {"limit", "save"}
        /\ \A q \in Requests : q # r => pc'[q] = pc[q]
    BY <1>5 DEF SaveUser, Goto, Seats
  <2>2. r \notin users /\ r \notin LateUsers
    BY <2>1 DEF LateUsers
  <2>3. LateUsers \subseteq LateUsers' /\ (r \in raced => r \in LateUsers')
    BY <2>1 DEF LateUsers
  <2>4. Cardinality(users) \in Nat /\ Cardinality(users') = Cardinality(users) + 1
    BY <2>1, <2>2, Finite, FS_AddElement
  <2>5. /\ Cardinality(LateUsers) \in Nat /\ Cardinality(LateUsers') \in Nat
        /\ Cardinality(LateUsers') >= Cardinality(LateUsers) + (IF r \in raced THEN 1 ELSE 0)
    <3>1. LateUsers' \subseteq Requests
      BY DEF LateUsers
    <3>2. IsFiniteSet(LateUsers') /\ Cardinality(LateUsers') \in Nat
      BY <3>1, FiniteRequests
    <3>3. IsFiniteSet(LateUsers) /\ Cardinality(LateUsers) \in Nat
      BY Late
    <3>4. Cardinality(LateUsers) <= Cardinality(LateUsers')
      BY <2>3, <3>2, FS_Subset
    <3>5. CASE r \in raced
      <4>1. LateUsers \cup {r} \in SUBSET LateUsers'
        BY <2>3, <3>5
      <4>2. Cardinality(LateUsers \cup {r}) <= Cardinality(LateUsers')
        BY <3>2, <4>1, FS_Subset
      <4>3. Cardinality(LateUsers \cup {r}) = Cardinality(LateUsers) + 1
        BY <2>2, <3>3, FS_AddElement
      <4> QED
        BY <3>2, <3>3, <3>5, <4>2, <4>3
    <3> QED
      BY <3>2, <3>3, <3>4, <3>5
  <2>6. Seats \in Nat /\ Seats' = Seats
    BY <2>1, Limits
  <2>7. Cardinality(users') <= Seats' + Cardinality(LateUsers')
    <3>1. CASE r \in raced
      BY <2>4, <2>5, <2>6, <3>1 DEF UserCounts
    <3>2. CASE r \notin raced
      <4>1. Cardinality(users) < Seats
        BY <2>1, <3>2 DEF UserCounts
      <4> QED
        BY <2>4, <2>5, <2>6, <4>1
    <3> QED
      BY <3>1, <3>2
  <2>8. \A q \in Requests \ raced' : kind'[q] # "account" => pc'[q] \notin {"limit", "save"}
    BY <2>1 DEF Overtaken
  <2> QED
    BY <2>7, <2>8 DEF UserCounts
<1>6. ASSUME NEW r \in Requests, SaveAccount(r) PROVE UserCounts'
  BY <1>6, UserCountsStay DEF SaveAccount, Goto, LateUsers
<1>7. ASSUME NEW r \in Requests, Finish(r) PROVE UserCounts'
  BY <1>7, UserCountsStay DEF Finish, Goto, rows, requests, history, LateUsers
<1>8. ASSUME NEW r \in Requests, Stamp(r) PROVE UserCounts'
  BY <1>8, UserCountsStay DEF Stamp, Goto, requests, LateUsers
<1>9. ASSUME NEW r \in Requests, Break(r) PROVE UserCounts'
  BY <1>9, UserCountsStay DEF Break, Goto, rows, requests, history, LateUsers
<1>10. ASSUME NEW r \in Requests, NEW t \in Tokens, OpenLink(r, t) PROVE UserCounts'
  BY <1>10, UserCountsStay DEF OpenLink, Goto, IsUsable, InProgress, rows, LateUsers
<1>11. ASSUME NEW r \in Requests, NEW u \in Users, OpenAccess(r, u) PROVE UserCounts'
  BY <1>11, UserCountsStay DEF OpenAccess, Goto, rows, history, LateUsers
<1>12. ASSUME NEW r \in Requests, NEW u \in Users, OpenAccount(r, u) PROVE UserCounts'
  BY <1>12, UserCountsStay DEF OpenAccount, Goto, rows, history, LateUsers
<1>13. ASSUME NEW r \in Requests, NEW a \in Accounts, Grant(r, a) PROVE UserCounts'
  BY <1>13, UserCountsStay DEF Grant, WriteRole, LateUsers
<1>14. ASSUME NEW r \in Requests, NEW a \in Accounts, Skip(r, a) PROVE UserCounts'
  BY <1>14, UserCountsStay DEF Skip, rows, history, LateUsers
<1>15. ASSUME NEW t \in Tokens, SendInvitation(t) PROVE UserCounts'
  BY <1>15, UserCountsStay DEF SendInvitation, requests, history, LateUsers
<1>16. ASSUME NEW t \in Tokens, Expire(t) PROVE UserCounts'
  BY <1>16, UserCountsStay DEF Expire, requests, history, LateUsers
<1>17. ASSUME NEW u \in Users, DeleteUser(u) PROVE UserCounts'
  BY <1>17, UserCountsStay DEF DeleteUser, requests, history, LateUsers
<1>18. ASSUME NEW a \in Accounts, DeleteAccount(a) PROVE UserCounts'
  BY <1>18, UserCountsStay DEF DeleteAccount, requests, history, LateUsers
<1>19. CASE ChangePlan
  BY <1>19, UserCountsStay DEF ChangePlan, requests, LateUsers
<1>20. CASE UNCHANGED vars
  BY <1>20, UserCountsStay DEF vars, LateUsers
<1> QED
  BY <1>1, <1>2, <1>3, <1>4, <1>5, <1>6, <1>7, <1>8, <1>9, <1>10, <1>11, <1>12, <1>13, <1>14,
     <1>15, <1>16, <1>17, <1>18, <1>19, <1>20 DEF Next

LEMMA AccountCountsNext ==
  ASSUME TypeOK, TypeOK', Places, Saved, PlanKnown, AccountCounts, [Next]_vars
  PROVE  AccountCounts'
<1> USE AccessAssumption DEF TypeOK, Places, Saved, Wrote, PlanKnown
<1>1. ASSUME NEW r \in Requests, OpenSetup(r) PROVE AccountCounts'
  BY <1>1, AccountCountsStay DEF OpenSetup, Goto, rows, history, LateAccounts
<1>2. ASSUME NEW r \in Requests, OpenCreate(r) PROVE AccountCounts'
  BY <1>2, AccountCountsStay DEF OpenCreate, Goto, rows, history, LateAccounts
<1>3. ASSUME NEW r \in Requests, CountRows(r) PROVE AccountCounts'
  <2>1. CASE kind[r] # "account"
    BY <1>3, <2>1, AccountCountsStay DEF CountRows, Goto, rows, history, LateAccounts
  <2>2. CASE kind[r] = "account"
    <3>1. /\ UNCHANGED <<kind, raced, LateAccounts, accounts, Room>>
          /\ pc' = [pc EXCEPT ![r] = "limit"] /\ seen' = [seen EXCEPT ![r] = Cardinality(accounts)]
      BY <1>3, <2>2 DEF CountRows, Goto, rows, history, LateAccounts, Room
    <3>2. Cardinality(accounts) \in Nat
      BY Finite
    <3> QED
      BY <3>1, <3>2 DEF AccountCounts
  <2> QED
    BY <2>1, <2>2
<1>4. ASSUME NEW r \in Requests, CheckLimit(r) PROVE AccountCounts'
  <2>1. /\ UNCHANGED <<kind, raced, LateAccounts, accounts, Room>> /\ pc[r] = "limit"
        /\ pc' = [pc EXCEPT ![r] = IF seen[r] < Limit(r) THEN "save" ELSE "refused"]
        /\ \A q \in Requests : q # r => seen'[q] = seen[q]
    BY <1>4 DEF CheckLimit, Goto, rows, history, LateAccounts, Room
  <2>2. Cardinality(accounts) \in Nat /\ seen[r] \in Nat /\ Room \in Nat
    BY Finite, Limits
  <2>3. kind[r] = "account" => Limit(r) \in Nat /\ Limit(r) <= Room
    BY LimitBounds
  <2>4. r \notin raced /\ kind[r] = "account" /\ pc'[r] = "save" => Cardinality(accounts) < Room
    BY <2>1, <2>2, <2>3 DEF AccountCounts
  <2>5. \A q \in Requests : q # r => pc'[q] = pc[q]
    BY <2>1
  <2>6. pc'[r] # "limit"
    BY <2>1
  <2> QED
    BY <2>1, <2>4, <2>5, <2>6 DEF AccountCounts
<1>5. ASSUME NEW r \in Requests, SaveUser(r) PROVE AccountCounts'
  BY <1>5, AccountCountsStay DEF SaveUser, Goto, LateAccounts
<1>6. ASSUME NEW r \in Requests, SaveAccount(r) PROVE AccountCounts'
  <2>1. /\ \E a \in Accounts \ born : accounts' = accounts \cup {a} /\ born' = born \cup {a}
        /\ raced' = raced \cup Overtaken(r) /\ UNCHANGED <<kind, seen, Room>>
        /\ kind[r] = "account" /\ pc[r] = "save" /\ pc'[r] = "grant"
        /\ \A q \in Requests : q # r => pc'[q] = pc[q]
    BY <1>6 DEF SaveAccount, Goto, Room
  <2>2. \E a \in Accounts : /\ accounts' = accounts \cup {a}
                           /\ a \notin accounts /\ r \notin LateAccounts
    BY <2>1 DEF LateAccounts
  <2>3. LateAccounts \subseteq LateAccounts' /\ (r \in raced => r \in LateAccounts')
    BY <2>1 DEF LateAccounts
  <2>4. Cardinality(accounts) \in Nat /\ Cardinality(accounts') = Cardinality(accounts) + 1
    <3>1. PICK a \in Accounts : accounts' = accounts \cup {a} /\ a \notin accounts
      BY <2>2
    <3>2. IsFiniteSet(accounts) /\ Cardinality(accounts) \in Nat
      BY Finite
    <3>3. Cardinality(accounts \cup {a}) = Cardinality(accounts) + 1
      BY <3>1, <3>2, FS_AddElement
    <3> QED
      BY <3>1, <3>2, <3>3
  <2>5. /\ Cardinality(LateAccounts) \in Nat /\ Cardinality(LateAccounts') \in Nat
        /\ Cardinality(LateAccounts') >= Cardinality(LateAccounts) + (IF r \in raced THEN 1 ELSE 0)
    <3>1. LateAccounts' \subseteq Requests
      BY DEF LateAccounts
    <3>2. IsFiniteSet(LateAccounts') /\ Cardinality(LateAccounts') \in Nat
      BY <3>1, FiniteRequests
    <3>3. IsFiniteSet(LateAccounts) /\ Cardinality(LateAccounts) \in Nat
      BY Late
    <3>4. Cardinality(LateAccounts) <= Cardinality(LateAccounts')
      BY <2>3, <3>2, FS_Subset
    <3>5. CASE r \in raced
      <4>1. LateAccounts \cup {r} \in SUBSET LateAccounts'
        BY <2>3, <3>5
      <4>2. Cardinality(LateAccounts \cup {r}) <= Cardinality(LateAccounts')
        BY <3>2, <4>1, FS_Subset
      <4>3. Cardinality(LateAccounts \cup {r}) = Cardinality(LateAccounts) + 1
        BY <2>2, <3>3, FS_AddElement
      <4> QED
        BY <3>2, <3>3, <3>5, <4>2, <4>3
    <3> QED
      BY <3>2, <3>3, <3>4, <3>5
  <2>6. Room \in Nat /\ Room' = Room
    BY <2>1, Limits
  <2>7. Cardinality(accounts') <= Room' + Cardinality(LateAccounts')
    <3>1. CASE r \in raced
      BY <2>4, <2>5, <2>6, <3>1 DEF AccountCounts
    <3>2. CASE r \notin raced
      <4>1. Cardinality(accounts) < Room
        BY <2>1, <3>2 DEF AccountCounts
      <4> QED
        BY <2>4, <2>5, <2>6, <4>1
    <3> QED
      BY <3>1, <3>2
  <2>8. \A q \in Requests \ raced' : kind'[q] = "account" => pc'[q] \notin {"limit", "save"}
    BY <2>1 DEF Overtaken
  <2> QED
    BY <2>7, <2>8 DEF AccountCounts
<1>7. ASSUME NEW r \in Requests, Finish(r) PROVE AccountCounts'
  BY <1>7, AccountCountsStay DEF Finish, Goto, rows, requests, history, LateAccounts
<1>8. ASSUME NEW r \in Requests, Stamp(r) PROVE AccountCounts'
  BY <1>8, AccountCountsStay DEF Stamp, Goto, requests, LateAccounts
<1>9. ASSUME NEW r \in Requests, Break(r) PROVE AccountCounts'
  BY <1>9, AccountCountsStay DEF Break, Goto, rows, requests, history, LateAccounts
<1>10. ASSUME NEW r \in Requests, NEW t \in Tokens, OpenLink(r, t) PROVE AccountCounts'
  BY <1>10, AccountCountsStay DEF OpenLink, Goto, IsUsable, InProgress, rows, LateAccounts
<1>11. ASSUME NEW r \in Requests, NEW u \in Users, OpenAccess(r, u) PROVE AccountCounts'
  BY <1>11, AccountCountsStay DEF OpenAccess, Goto, rows, history, LateAccounts
<1>12. ASSUME NEW r \in Requests, NEW u \in Users, OpenAccount(r, u) PROVE AccountCounts'
  BY <1>12, AccountCountsStay DEF OpenAccount, Goto, rows, history, LateAccounts
<1>13. ASSUME NEW r \in Requests, NEW a \in Accounts, Grant(r, a) PROVE AccountCounts'
  BY <1>13, AccountCountsStay DEF Grant, WriteRole, LateAccounts
<1>14. ASSUME NEW r \in Requests, NEW a \in Accounts, Skip(r, a) PROVE AccountCounts'
  BY <1>14, AccountCountsStay DEF Skip, rows, history, LateAccounts
<1>15. ASSUME NEW t \in Tokens, SendInvitation(t) PROVE AccountCounts'
  BY <1>15, AccountCountsStay DEF SendInvitation, requests, history, LateAccounts
<1>16. ASSUME NEW t \in Tokens, Expire(t) PROVE AccountCounts'
  BY <1>16, AccountCountsStay DEF Expire, requests, history, LateAccounts
<1>17. ASSUME NEW u \in Users, DeleteUser(u) PROVE AccountCounts'
  BY <1>17, AccountCountsStay DEF DeleteUser, requests, history, LateAccounts
<1>18. ASSUME NEW a \in Accounts, DeleteAccount(a) PROVE AccountCounts'
  BY <1>18, AccountCountsStay DEF DeleteAccount, requests, history, LateAccounts
<1>19. CASE ChangePlan
  BY <1>19, AccountCountsStay DEF ChangePlan, requests, LateAccounts
<1>20. CASE UNCHANGED vars
  BY <1>20, AccountCountsStay DEF vars, LateAccounts
<1> QED
  BY <1>1, <1>2, <1>3, <1>4, <1>5, <1>6, <1>7, <1>8, <1>9, <1>10, <1>11, <1>12, <1>13, <1>14,
     <1>15, <1>16, <1>17, <1>18, <1>19, <1>20 DEF Next

LEMMA PlanNext ==
  ASSUME TypeOK, PlanKnown, [Next]_vars
  PROVE  PlanKnown'
<1> USE DEF PlanKnown, TypeOK
<1>1. ASSUME NEW r \in Requests, OpenSetup(r) PROVE PlanKnown'
  BY <1>1 DEF OpenSetup, Goto, rows, history
<1>2. ASSUME NEW r \in Requests, OpenCreate(r) PROVE PlanKnown'
  BY <1>2 DEF OpenCreate, Goto, rows, history
<1>3. ASSUME NEW r \in Requests, CountRows(r) PROVE PlanKnown'
  BY <1>3 DEF CountRows, Goto, rows, history
<1>4. ASSUME NEW r \in Requests, CheckLimit(r) PROVE PlanKnown'
  BY <1>4 DEF CheckLimit, Goto, rows, history
<1>5. ASSUME NEW r \in Requests, SaveUser(r) PROVE PlanKnown'
  BY <1>5 DEF SaveUser, Goto, Overtaken
<1>6. ASSUME NEW r \in Requests, SaveAccount(r) PROVE PlanKnown'
  BY <1>6 DEF SaveAccount, Goto, Overtaken
<1>7. ASSUME NEW r \in Requests, Finish(r) PROVE PlanKnown'
  BY <1>7 DEF Finish, Goto, rows, requests, history
<1>8. ASSUME NEW r \in Requests, Stamp(r) PROVE PlanKnown'
  BY <1>8 DEF Stamp, Goto, requests
<1>9. ASSUME NEW r \in Requests, Break(r) PROVE PlanKnown'
  BY <1>9 DEF Break, Goto, rows, requests, history
<1>10. ASSUME NEW r \in Requests, NEW t \in Tokens, OpenLink(r, t) PROVE PlanKnown'
  BY <1>10 DEF OpenLink, Goto, IsUsable, InProgress, rows
<1>11. ASSUME NEW r \in Requests, NEW u \in Users, OpenAccess(r, u) PROVE PlanKnown'
  BY <1>11 DEF OpenAccess, Goto, rows, history
<1>12. ASSUME NEW r \in Requests, NEW u \in Users, OpenAccount(r, u) PROVE PlanKnown'
  BY <1>12 DEF OpenAccount, Goto, rows, history
<1>13. ASSUME NEW r \in Requests, NEW a \in Accounts, Grant(r, a) PROVE PlanKnown'
  BY <1>13 DEF Grant, WriteRole
<1>14. ASSUME NEW r \in Requests, NEW a \in Accounts, Skip(r, a) PROVE PlanKnown'
  BY <1>14 DEF Skip, rows, history
<1>15. ASSUME NEW t \in Tokens, SendInvitation(t) PROVE PlanKnown'
  BY <1>15 DEF SendInvitation, requests, history
<1>16. ASSUME NEW t \in Tokens, Expire(t) PROVE PlanKnown'
  BY <1>16 DEF Expire, requests, history
<1>17. ASSUME NEW u \in Users, DeleteUser(u) PROVE PlanKnown'
  BY <1>17 DEF DeleteUser, requests, history
<1>18. ASSUME NEW a \in Accounts, DeleteAccount(a) PROVE PlanKnown'
  BY <1>18 DEF DeleteAccount, requests, history
<1>19. CASE ChangePlan
  BY <1>19 DEF ChangePlan, requests
<1>20. CASE UNCHANGED vars
  BY <1>20 DEF vars
<1> QED
  BY <1>1, <1>2, <1>3, <1>4, <1>5, <1>6, <1>7, <1>8, <1>9, <1>10, <1>11, <1>12, <1>13, <1>14,
     <1>15, <1>16, <1>17, <1>18, <1>19, <1>20 DEF Next

-----------------------------------------------------------------------------
(* Roles. *)

LEMMA FreshNext ==
  ASSUME TypeOK, Places, Saved, Links, Fresh, [Next]_vars
  PROVE  Fresh'
<1> USE AccessAssumption DEF Fresh, Links, Saved, Wrote, Places, TypeOK, Users, Grants, NoGrants
<1>1. ASSUME NEW r \in Requests, OpenSetup(r) PROVE Fresh'
  BY <1>1 DEF OpenSetup, Goto, rows, history
<1>2. ASSUME NEW r \in Requests, OpenCreate(r) PROVE Fresh'
  BY <1>2 DEF OpenCreate, Goto, rows, history
<1>3. ASSUME NEW r \in Requests, CountRows(r) PROVE Fresh'
  BY <1>3 DEF CountRows, Goto, rows, history
<1>4. ASSUME NEW r \in Requests, CheckLimit(r) PROVE Fresh'
  BY <1>4 DEF CheckLimit, Goto, rows, history
<1>5. ASSUME NEW r \in Requests, SaveUser(r) PROVE Fresh'
  BY <1>5 DEF SaveUser, Goto, Overtaken
<1>6. ASSUME NEW r \in Requests, SaveAccount(r) PROVE Fresh'
  BY <1>6 DEF SaveAccount, Goto, Overtaken
<1>7. ASSUME NEW r \in Requests, Finish(r) PROVE Fresh'
  BY <1>7 DEF Finish, Goto, rows, requests, history
<1>8. ASSUME NEW r \in Requests, Stamp(r) PROVE Fresh'
  BY <1>8 DEF Stamp, Goto, requests
<1>9. ASSUME NEW r \in Requests, Break(r) PROVE Fresh'
  BY <1>9 DEF Break, Goto, rows, requests, history
<1>10. ASSUME NEW r \in Requests, NEW t \in Tokens, OpenLink(r, t) PROVE Fresh'
  BY <1>10 DEF OpenLink, Goto, IsUsable, InProgress, rows
<1>11. ASSUME NEW r \in Requests, NEW u \in Users, OpenAccess(r, u) PROVE Fresh'
  BY <1>11 DEF OpenAccess, Goto, rows, history
<1>12. ASSUME NEW r \in Requests, NEW u \in Users, OpenAccount(r, u) PROVE Fresh'
  BY <1>12 DEF OpenAccount, Goto, rows, history
<1>13. ASSUME NEW r \in Requests, NEW a \in Accounts, Grant(r, a) PROVE Fresh'
  BY <1>13 DEF Grant, WriteRole
<1>14. ASSUME NEW r \in Requests, NEW a \in Accounts, Skip(r, a) PROVE Fresh'
  BY <1>14 DEF Skip, rows, history
<1>15. ASSUME NEW t \in Tokens, SendInvitation(t) PROVE Fresh'
  BY <1>15 DEF SendInvitation, requests, history, NoInvite
<1>16. ASSUME NEW t \in Tokens, Expire(t) PROVE Fresh'
  BY <1>16 DEF Expire, requests, history
<1>17. ASSUME NEW u \in Users, DeleteUser(u) PROVE Fresh'
  BY <1>17 DEF DeleteUser, requests, history
<1>18. ASSUME NEW a \in Accounts, DeleteAccount(a) PROVE Fresh'
  <2>1. /\ members' = [u \in Users |-> [members[u] EXCEPT ![a] = NoRole]]
        /\ UNCHANGED <<users, born, invites, pc, kind, wish>>
    BY <1>18 DEF DeleteAccount, requests, history
  <2>2. \A u \in Users, b \in Accounts : members'[u][b] = IF b = a THEN NoRole ELSE members[u][b]
    BY <2>1
  <2>3. \A u \in Users : members[u] = NoGrants => members'[u] = NoGrants
    <3>1. TAKE u \in Users
    <3>2. members'[u] = [members[u] EXCEPT ![a] = NoRole]
      BY <2>1
    <3> QED
      BY <3>2
  <2>4. \A b \in Accounts \ born' : \A u \in Users : members'[u][b] = NoRole
    BY <2>1, <2>2
  <2> QED
    BY <2>1, <2>3, <2>4
<1>19. CASE ChangePlan
  BY <1>19 DEF ChangePlan, requests
<1>20. CASE UNCHANGED vars
  BY <1>20 DEF vars
<1> QED
  BY <1>1, <1>2, <1>3, <1>4, <1>5, <1>6, <1>7, <1>8, <1>9, <1>10, <1>11, <1>12, <1>13, <1>14,
     <1>15, <1>16, <1>17, <1>18, <1>19, <1>20 DEF Next

LEMMA WrittenNext ==
  ASSUME TypeOK, Places, Saved, Links, Fresh, Written, [Next]_vars
  PROVE  Written'
<1> USE AccessAssumption DEF Written, Fresh, Links, Saved, Wrote, Places, TypeOK, Users, Grants,
   NoGrants
<1>1. ASSUME NEW r \in Requests, OpenSetup(r) PROVE Written'
  BY <1>1 DEF OpenSetup, Goto, rows, history
<1>2. ASSUME NEW r \in Requests, OpenCreate(r) PROVE Written'
  BY <1>2 DEF OpenCreate, Goto, rows, history
<1>3. ASSUME NEW r \in Requests, CountRows(r) PROVE Written'
  BY <1>3 DEF CountRows, Goto, rows, history
<1>4. ASSUME NEW r \in Requests, CheckLimit(r) PROVE Written'
  BY <1>4 DEF CheckLimit, Goto, rows, history
<1>5. ASSUME NEW r \in Requests, SaveUser(r) PROVE Written'
  <2>1. /\ users' = users \cup {r} /\ r \notin joined /\ r \notin users
        /\ todo' = [todo EXCEPT ![r] = {a \in Accounts : wish[r][a] # NoRole}]
        /\ UNCHANGED <<accounts, members, invites, kind, tok, target, wish, mixed>>
    BY <1>5 DEF SaveUser
  <2>2. admins' \in {admins, admins \cup {r}} /\ kind[r] \in {"setup", "create", "accept"}
        /\ (kind[r] = "accept" => (r \in admins' <=> invites[tok[r]].admin))
    <3>1. kind[r] \in {"setup", "create", "accept"}
      BY <1>5 DEF SaveUser
    <3>2. CASE kind[r] = "accept"
      <4>1. admins' = IF invites[tok[r]].admin THEN admins \cup {r} ELSE admins
        BY <1>5, <3>2 DEF SaveUser
      <4> QED
        BY <2>1, <3>1, <4>1
    <3>3. CASE kind[r] # "accept"
      BY <1>5, <3>1, <3>3 DEF SaveUser
    <3> QED
      BY <3>1, <3>2, <3>3
  <2>3. pc' = [pc EXCEPT ![r] = IF kind[r] = "accept" THEN "grant" ELSE "done"]
    BY <1>5 DEF SaveUser, Goto
  <2>4. SUFFICES ASSUME NEW q \in Requests \ mixed
                 PROVE  /\ pc'[q] = "done" /\ kind[q] \in {"accept", "access", "account"}
                             => todo'[q] = {}
                        /\ pc'[q] \in {"grant", "done"} /\ target[q] \in users'
                             /\ kind[q] \in {"accept", "access", "account"}
                             => \A a \in accounts \ todo'[q] :
                                  \/ members[target[q]][a] = wish[q][a]
                                  \/ kind[q] = "account" /\ wish[q][a] = NoRole
                        /\ pc'[q] \in {"grant", "done"} /\ kind[q] = "accept" /\ q \in users'
                             => (q \in admins' <=> invites[tok[q]].admin)
    BY <2>1
  <2>5. CASE q = r
    <3>1. members[r] = NoGrants
      BY <2>1
    <3>2. CASE kind[r] = "accept"
      BY <2>1, <2>2, <2>3, <2>5, <3>1, <3>2
    <3>3. CASE kind[r] # "accept"
      BY <2>2, <2>5, <3>3
    <3> QED
      BY <3>2, <3>3
  <2>6. CASE q # r
    <3>1. /\ pc'[q] = pc[q] /\ todo'[q] = todo[q]
          /\ q \in users' <=> q \in users
          /\ q \in admins' <=> q \in admins
      BY <2>1, <2>2, <2>3, <2>6
    <3>2. pc[q] \in {"grant", "done"} /\ kind[q] \in {"accept", "access", "account"}
            => target[q] # r
      BY <2>1
    <3> QED
      BY <2>1, <3>1, <3>2
  <2> QED
    BY <2>5, <2>6
<1>6. ASSUME NEW r \in Requests, SaveAccount(r) PROVE Written'
  BY <1>6 DEF SaveAccount, Goto, Overtaken
<1>7. ASSUME NEW r \in Requests, Finish(r) PROVE Written'
  BY <1>7 DEF Finish, Goto, rows, requests, history
<1>8. ASSUME NEW r \in Requests, Stamp(r) PROVE Written'
  BY <1>8 DEF Stamp, Goto, requests
<1>9. ASSUME NEW r \in Requests, Break(r) PROVE Written'
  BY <1>9 DEF Break, Goto, rows, requests, history
<1>10. ASSUME NEW r \in Requests, NEW t \in Tokens, OpenLink(r, t) PROVE Written'
  BY <1>10 DEF OpenLink, Goto, IsUsable, InProgress, rows
<1>11. ASSUME NEW r \in Requests, NEW u \in Users, OpenAccess(r, u) PROVE Written'
  BY <1>11 DEF OpenAccess, Goto, rows, history
<1>12. ASSUME NEW r \in Requests, NEW u \in Users, OpenAccount(r, u) PROVE Written'
  BY <1>12 DEF OpenAccount, Goto, rows, history
<1>13. ASSUME NEW r \in Requests, NEW a \in Accounts, Grant(r, a) PROVE Written'
  BY <1>13 DEF Grant, WriteRole
<1>14. ASSUME NEW r \in Requests, NEW a \in Accounts, Skip(r, a) PROVE Written'
  <2>1. /\ UNCHANGED <<users, admins, accounts, members, invites, pc, kind, tok, target, wish,
                       mixed>>
        /\ pc[r] = "grant" /\ todo' = [todo EXCEPT ![r] = @ \ {a}] /\ Missing(r, a)
    BY <1>14 DEF Skip, rows, history
  <2>2. a \notin accounts \/ target[r] \notin users
    BY <2>1 DEF Missing
  <2>3. target[r] \in users => accounts \ todo'[r] = accounts \ todo[r]
    BY <2>1, <2>2
  <2>4. pc[r] # "done"
    BY <2>1
  <2>5. \A q \in Requests : q # r => todo'[q] = todo[q]
    BY <2>1
  <2> QED
    BY <2>1, <2>3, <2>4, <2>5
<1>15. ASSUME NEW t \in Tokens, SendInvitation(t) PROVE Written'
  BY <1>15 DEF SendInvitation, requests, history, NoInvite
<1>16. ASSUME NEW t \in Tokens, Expire(t) PROVE Written'
  BY <1>16 DEF Expire, requests, history
<1>17. ASSUME NEW u \in Users, DeleteUser(u) PROVE Written'
  BY <1>17 DEF DeleteUser, requests, history
<1>18. ASSUME NEW a \in Accounts, DeleteAccount(a) PROVE Written'
  BY <1>18 DEF DeleteAccount, requests, history
<1>19. CASE ChangePlan
  BY <1>19 DEF ChangePlan, requests
<1>20. CASE UNCHANGED vars
  BY <1>20 DEF vars
<1> QED
  BY <1>1, <1>2, <1>3, <1>4, <1>5, <1>6, <1>7, <1>8, <1>9, <1>10, <1>11, <1>12, <1>13, <1>14,
     <1>15, <1>16, <1>17, <1>18, <1>19, <1>20 DEF Next

-----------------------------------------------------------------------------
(* Theorems. *)

LEMMA AccessNext == AccessInv /\ [Next]_vars => AccessInv'
<1> SUFFICES ASSUME AccessInv, [Next]_vars PROVE AccessInv'
  OBVIOUS
<1> USE DEF AccessInv
<1>1. TypeOK'
  BY TypesNext
<1>2. Places' /\ Saved' /\ PlanKnown'
  BY PlacesNext, SavedNext, PlanNext
<1>3. OneSetup' /\ OneOwner'
  BY OneSetupNext
<1>4. Links' /\ LinksMet'
  BY LinksNext, LinksMetNext
<1>5. UserCounts' /\ AccountCounts'
  BY <1>1, UserCountsNext, AccountCountsNext
<1>6. Fresh' /\ Written'
  BY FreshNext, WrittenNext
<1> QED
  BY <1>1, <1>2, <1>3, <1>4, <1>5, <1>6

LEMMA AccessInvHolds == Spec => []AccessInv
  BY AccessInit, AccessNext, PTL DEF Spec

\* The tables hold rows that refer to rows there are (models.py), whatever is deleted meanwhile.
THEOREM TypeCorrect == Spec => []TypeOK
<1>1. AccessInv => TypeOK
  BY DEF AccessInv
<1> QED
  BY <1>1, AccessInvHolds, PTL

\* Each user, or account, over the highest limit there was is one whose request another one
\* overtook between its check and its save (views.py:132-139, 838-847).
THEOREM LimitsAreKept == Spec => []LimitsKeptButForRaces
<1>1. AccessInv => LimitsKeptButForRaces
  BY DEF AccessInv, UserCounts, AccountCounts, LimitsKeptButForRaces, Seats, Room, LateUsers,
     LateAccounts
<1> QED
  BY <1>1, AccessInvHolds, PTL

\* Two users come of one link only if the acceptances overlapped, one broke off before the link
\* was marked, or a user it was marked with was deleted.
THEOREM LinkMakesOneUser == Spec => []OneUserPerLink
<1>1. AccessInv => OneUserPerLink
  <2> SUFFICES ASSUME AccessInv, NEW t \in Tokens, NEW r \in JoinedBy(t), NEW q \in JoinedBy(t),
                      r # q
               PROVE  \/ {r, q} \in alongside \/ "failed" \in {pc[r], pc[q]}
                      \/ ~(stamped[t] \subseteq users)
    BY DEF OneUserPerLink
  <2>1. /\ r \in Requests /\ q \in Requests /\ r \in joined /\ q \in joined
        /\ tok[r] = t /\ tok[q] = t
    BY DEF JoinedBy
  <2>2. pc[r] # "refused" /\ pc[q] # "refused"
    BY <2>1 DEF AccessInv, Saved, Wrote
  <2>3. \/ {r, q} \in alongside \/ {"failed", "refused"} \cap {pc[r], pc[q]} # {}
        \/ ~(stamped[t] \subseteq users)
    BY <2>1 DEF AccessInv, LinksMet
  <2> QED
    BY <2>2, <2>3
<1> QED
  BY <1>1, AccessInvHolds, PTL

\* Two setups make two owners only if one was overtaken, or one of the owners is gone.
THEOREM SetupMakesOneOwner == Spec => []OneOwner
<1>1. AccessInv => OneOwner
  BY DEF AccessInv
<1> QED
  BY <1>1, AccessInvHolds, PTL

\* A request that has written all its roles, and whose user no other request wrote to, has given
\* exactly those it was to give.
THEOREM GrantsAreWritten == Spec => []GrantsAreExact
<1>1. AccessInv => GrantsAreExact
  <2> SUFFICES ASSUME AccessInv, NEW r \in Requests \ mixed, pc[r] = "done",
                      kind[r] \in {"accept", "access", "account"}, target[r] \in users
               PROVE  /\ \A a \in accounts : \/ members[target[r]][a] = wish[r][a]
                                             \/ kind[r] = "account" /\ wish[r][a] = NoRole
                      /\ kind[r] = "accept" => (r \in admins <=> invites[tok[r]].admin)
    BY DEF GrantsAreExact
  <2>1. todo[r] = {}
    BY DEF AccessInv, Written
  <2>2. \A a \in accounts \ todo[r] : \/ members[target[r]][a] = wish[r][a]
                                      \/ kind[r] = "account" /\ wish[r][a] = NoRole
    BY DEF AccessInv, Written
  <2>3. kind[r] = "accept" => target[r] = r
    BY DEF AccessInv, Places
  <2>4. kind[r] = "accept" => (r \in admins <=> invites[tok[r]].admin)
    BY <2>3 DEF AccessInv, Written
  <2> QED
    BY <2>1, <2>2, <2>4
<1> QED
  BY <1>1, AccessInvHolds, PTL
=============================================================================
