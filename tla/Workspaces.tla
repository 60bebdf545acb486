----------------------------- MODULE Workspaces -----------------------------
(***************************************************************************)
(* Accounts, the workspaces they own or have joined, and the account plan   *)
(* mirrored onto the workspaces they own.                                   *)
(*                                                                         *)
(* A workspace is a tenants row.  An account is an e-mail with a users row  *)
(* per workspace, or one without a tenant until it has a workspace.         *)
(* Handlers interleave at every await.  A transaction is one step, except   *)
(* where it decides by its snapshot (createWorkspace) or keeps rows locked  *)
(* while it awaits other connections (the two accepts).  A request that has *)
(* to wait for a lock is a step that is not enabled.                        *)
(*                                                                         *)
(* Left out as data: names, subdomains (under a UNIQUE key), profiles,      *)
(* passwords, tokens, platform admins, the authorship a purge reassigns,    *)
(* and which accounts are comped: a reconcile may find any of them so.      *)
(***************************************************************************)
EXTENDS Integers, FiniteSets

CONSTANTS
  Accounts,   \* e-mail addresses
  Users,      \* users.id values: row numbers, allocated in order
  Tenants,    \* tenants.id values that may ever be allocated
  Invites,    \* invitations.id values that may ever be allocated
  Procs,      \* concurrently running handlers
  Plans,      \* plan keys
  Free,       \* the plan of an account without a billing row
  Seats, OwnLimit, JoinLimit,  \* the limits of a plan
  MaxOps,     \* bound: requests and administrative changes
  NoAccount, NoUser, NoTenant, NoInvite

ASSUME ConstantsOK ==
  /\ Users \subseteq Nat /\ IsFiniteSet(Users) /\ NoUser \notin Users
  /\ Free \in Plans
  /\ Seats \in [Plans -> Nat] /\ OwnLimit \in [Plans -> Nat] /\ JoinLimit \in [Plans -> Nat]
  /\ MaxOps \in Nat
  /\ NoAccount \notin Accounts /\ NoTenant \notin Tenants
  /\ NoInvite \notin Invites /\ IsFiniteSet(Invites)

VARIABLES
  plan,     \* billing_accounts.plan_name, Free where there is no row
  tenants,  \* tenants: status, and the mirrored plan
  users,    \* users
  invites,  \* invitations
  pc, loc,  \* per process: next step, and what the handler read earlier
  ops,
  missed,   \* history: workspaces where the last change of their owner's plan is not shown
  edited    \* history: workspaces where a role was changed by hand

vars == <<plan, tenants, users, invites, pc, loc, ops, missed, edited>>

-----------------------------------------------------------------------------
TenantStatuses == {"unborn", "active", "suspended", "deleted"}
Roles == {"owner", "user"}
User == [email : Accounts \cup {NoAccount}, tenant : Tenants \cup {NoTenant},
         role : Roles \cup {"unborn", "deleted"}, active : BOOLEAN]
Row(a, t, r) == [email |-> a, tenant |-> t, role |-> r, active |-> TRUE]
NoRow(why)   == [email |-> NoAccount, tenant |-> NoTenant, role |-> why, active |-> FALSE]

\* "expired" is a pending row whose expires_at has passed.
InviteStatuses == {"none", "pending", "expired", "accepted", "revoked"}
Invitation == [status : InviteStatuses, tenant : Tenants \cup {NoTenant},
               email : Accounts \cup {NoAccount}]
Invited(t, a) == [status |-> "pending", tenant |-> t, email |-> a]
NoInvitation  == [status |-> "none", tenant |-> NoTenant, email |-> NoAccount]

\* What a handler holds between two awaits: the users row and account it acts for or
\* on, the workspace and invitation, a plan, a count and a set it read, and whether it
\* claims a row (createWorkspace), clones one (accept) or takes ownership away.
Local == [user : Users \cup {NoUser}, who : Accounts \cup {NoAccount},
          tenant : Tenants \cup {NoTenant}, invite : Invites \cup {NoInvite},
          plan : Plans, count : Int, owned : SUBSET Tenants, flag : BOOLEAN]
NoLocal == [user |-> NoUser, who |-> NoAccount, tenant |-> NoTenant, invite |-> NoInvite,
            plan |-> Free, count |-> 0, owned |-> {}, flag |-> FALSE]

AcceptSteps == {"ac_usage", "ac_tier", "ac_join"}
Steps == AcceptSteps \cup
         {"idle", "su_insert", "cw_usage", "cw_tier", "cw_snapshot", "cw_commit", "ci_member",
          "ci_existing", "ci_plan", "ci_members", "ci_pending", "ci_insert", "ur_owners",
          "ur_update", "pg_txn", "mr_update"}

TypeOK ==
  /\ plan \in [Accounts -> Plans]
  /\ tenants \in [Tenants -> [status : TenantStatuses, plan : Plans]]
  /\ users \in [Users -> User]
  /\ invites \in [Invites -> Invitation]
  /\ pc \in [Procs -> Steps] /\ loc \in [Procs -> Local]
  /\ ops \in Nat /\ missed \subseteq Tenants /\ edited \subseteq Tenants

Init ==
  /\ plan = [a \in Accounts |-> Free]
  /\ tenants = [t \in Tenants |-> [status |-> "unborn", plan |-> Free]]
  /\ users = [u \in Users |-> NoRow("unborn")]
  /\ invites = [i \in Invites |-> NoInvitation]
  /\ pc = [p \in Procs |-> "idle"] /\ loc = [p \in Procs |-> NoLocal]
  /\ ops = 0 /\ missed = {} /\ edited = {}

-----------------------------------------------------------------------------
Active(t)   == tenants[t].status = "active"
Rows(a)     == {u \in Users : users[u].email = a}
Members(t)  == {u \in Users : users[u].tenant = t}
Owners(t)   == {u \in Members(t) : users[u].role = "owner"}
OwnedBy(a)  == {t \in Tenants : \E u \in Rows(a) : u \in Owners(t)}

\* The memberships getAccountWorkspaceUsage counts.
Counted(a, role) ==
  {u \in Rows(a) : users[u].active /\ users[u].role = role
                   /\ \E t \in Tenants : users[u].tenant = t /\ Active(t)}

\* The next id AUTO_INCREMENT gives.
Fresh(u) == users[u].role = "unborn" /\ \A v \in Users : v < u => users[v].role # "unborn"
Inserted(u, row) == [users EXCEPT ![u] = row]
Deleted(gone) == [u \in Users |-> IF u \in gone THEN NoRow("deleted") ELSE users[u]]

Goto(p, step, l) == pc' = [pc EXCEPT ![p] = step] /\ loc' = [loc EXCEPT ![p] = l]
Finish(p) == Goto(p, "idle", NoLocal)
Begin(p, step, l) == pc[p] = "idle" /\ ops < MaxOps /\ ops' = ops + 1 /\ Goto(p, step, l)

\* A request whose one statement, or transaction, decides by nothing read before.
Operate == ops < MaxOps /\ ops' = ops + 1 /\ UNCHANGED <<pc, loc>>

\* SELECT ... FROM invitations JOIN tenants ... FOR UPDATE: an accept keeps both rows.
InviteLocked(i) == \E p \in Procs : pc[p] \in AcceptSteps /\ loc[p].invite = i
TenantLocked(t) == \E p \in Procs : pc[p] \in AcceptSteps /\ loc[p].tenant = t

\* mirrorAccountToTenants, over rows us and workspaces ts: every active workspace
\* that an active owner row of the account belongs to gets the plan.
Reached(us, ts, a) ==
  {t \in Tenants : /\ ts[t].status = "active"
                   /\ \E u \in Users : us[u].email = a /\ us[u].tenant = t
                                       /\ us[u].role = "owner" /\ us[u].active}
Mirrored(ts, reached, newPlan) ==
  [t \in Tenants |-> IF t \in reached THEN [ts[t] EXCEPT !.plan = newPlan] ELSE ts[t]]

Dropped(gone) == [i \in Invites |-> IF i \in gone THEN NoInvitation ELSE invites[i]]

\* Any awaited call may fail: what was not committed is rolled back.
Fail(p) ==
  /\ pc[p] # "idle" /\ Finish(p)
  /\ UNCHANGED <<plan, tenants, users, invites, ops, missed, edited>>

-----------------------------------------------------------------------------
(* Signing up, and the plan.                                                *)

\* registerNewUser, or the first oauthLogin of an e-mail (which overlooks inactive
\* rows): no row is found ...
SignUp(p) ==
  /\ \E a \in Accounts :
       /\ \A u \in Rows(a) : ~users[u].active
       /\ Begin(p, "su_insert", [NoLocal EXCEPT !.who = a])
  /\ UNCHANGED <<plan, tenants, users, invites, missed, edited>>

\* ... and one without a tenant is inserted.
SuInsert(p) ==
  /\ pc[p] = "su_insert"
  /\ \E u \in Users : Fresh(u) /\ users' = Inserted(u, Row(loc[p].who, NoTenant, "user"))
  /\ Finish(p)
  /\ UNCHANGED <<plan, tenants, invites, ops, missed, edited>>

\* Mutant: the account row is written and the workspaces are not.
MutSetAccountPlan(a) ==
  /\ \E newPlan \in Plans \ {plan[a]} : plan' = [plan EXCEPT ![a] = newPlan]
  /\ Operate
  /\ UNCHANGED <<tenants, users, invites, missed, edited>>

\* setAccountPlan: the account row and the mirror in one transaction.
SetAccountPlan(a) ==
  /\ \A t \in OwnedBy(a) : ~TenantLocked(t)
  /\ LET reached == Reached(users, tenants, a) IN
       /\ \E newPlan \in Plans \ {plan[a]} :
            /\ plan' = [plan EXCEPT ![a] = newPlan]
            /\ tenants' = Mirrored(tenants, reached, newPlan)
       /\ missed' = (missed \cup OwnedBy(a)) \ reached
  /\ Operate
  /\ UNCHANGED <<users, invites, edited>>

\* reconcileAccount of a comped account mirrors the plan without a transaction:
\* mirrorAccountToTenants reads the plan ...
ReconcileComped(p) ==
  /\ \E a \in Accounts : Begin(p, "mr_update", [NoLocal EXCEPT !.who = a, !.plan = plan[a]])
  /\ UNCHANGED <<plan, tenants, users, invites, missed, edited>>

\* ... and writes what it read, whatever the account's plan is by now.
MrUpdate(p) ==
  /\ pc[p] = "mr_update"
  /\ LET l == loc[p]  reached == Reached(users, tenants, l.who) IN
       /\ \A t \in OwnedBy(l.who) : ~TenantLocked(t)
       /\ tenants' = Mirrored(tenants, reached, l.plan)
       /\ missed' = IF l.plan = plan[l.who] THEN missed \ reached ELSE missed \cup reached
  /\ Finish(p)
  /\ UNCHANGED <<plan, users, invites, ops, edited>>

-----------------------------------------------------------------------------
(* createWorkspace.                                                         *)

\* The token names a users row, which authenticateToken finds active.
CreateWorkspace(p) ==
  /\ \E u \in Users :
       /\ users[u].active
       /\ Begin(p, "cw_usage", [NoLocal EXCEPT !.user = u, !.who = users[u].email])
  /\ UNCHANGED <<plan, tenants, users, invites, missed, edited>>

\* getAccountWorkspaceUsage counts, and then reads the plan that limits the count.
CwUsage(p) ==
  /\ pc[p] = "cw_usage"
  /\ Goto(p, "cw_tier", [loc[p] EXCEPT !.count = Cardinality(Counted(loc[p].who, "owner"))])
  /\ UNCHANGED <<plan, tenants, users, invites, ops, missed, edited>>

CwTier(p) ==
  /\ pc[p] = "cw_tier"
  /\ IF loc[p].count < OwnLimit[plan[loc[p].who]]
     THEN Goto(p, "cw_snapshot", loc[p]) ELSE Finish(p)
  /\ UNCHANGED <<plan, tenants, users, invites, ops, missed, edited>>

\* The transaction's first SELECT fixes what it will read: the row it acts for, which
\* it claims if it has no tenant, and the account's plan.
CwSnapshot(p) ==
  /\ pc[p] = "cw_snapshot"
  /\ LET l == loc[p]  me == users[l.user] IN
       IF me.email = NoAccount THEN Finish(p)
       ELSE \E claim \in BOOLEAN :
              /\ claim <=> me.tenant = NoTenant
              /\ Goto(p, "cw_commit", [l EXCEPT !.plan = plan[l.who], !.flag = claim])
  /\ UNCHANGED <<plan, tenants, users, invites, ops, missed, edited>>

\* The owner row of the new workspace: the claimed one, whatever has become of it
\* since (an UPDATE by id, which moves a row claimed twice and misses a deleted one),
\* or a new one.
OwnerRow(l, t, us) ==
  IF l.flag
  THEN us = IF users[l.user].email = NoAccount THEN users
            ELSE [users EXCEPT ![l.user].tenant = t, ![l.user].role = "owner"]
  ELSE \E u \in Users : Fresh(u) /\ us = Inserted(u, Row(l.who, t, "owner"))

CwCommit(p) ==
  /\ pc[p] = "cw_commit"
  /\ \A t \in OwnedBy(loc[p].who) : ~TenantLocked(t)
  /\ LET l == loc[p] IN
       \E t \in Tenants :
         /\ tenants[t].status = "unborn"
         /\ OwnerRow(l, t, users')
         /\ LET created == [tenants EXCEPT ![t] = [status |-> "active", plan |-> Free]]
                reached == Reached(users', created, l.who)
            IN  /\ tenants' = Mirrored(created, reached, l.plan)
                /\ missed' = IF l.plan = plan[l.who] THEN (missed \cup {t}) \ reached
                             ELSE missed \cup reached \cup {t}
  /\ Finish(p)
  /\ UNCHANGED <<plan, invites, ops, edited>>

-----------------------------------------------------------------------------
(* Invitations.                                                             *)

\* createInvitation: authenticateToken finds the requester an owner ...
CreateInvitation(p) ==
  /\ \E t \in Tenants, a \in Accounts :
       /\ \E o \in Owners(t) : users[o].active
       /\ Begin(p, "ci_member", [NoLocal EXCEPT !.tenant = t, !.who = a])
  /\ UNCHANGED <<plan, tenants, users, invites, missed, edited>>

\* ... the e-mail is no member and has no valid invitation ...
CiMember(p) ==
  /\ pc[p] = "ci_member"
  /\ IF \E u \in Members(loc[p].tenant) : users[u].email = loc[p].who
     THEN Finish(p) ELSE Goto(p, "ci_existing", loc[p])
  /\ UNCHANGED <<plan, tenants, users, invites, ops, missed, edited>>

CiExisting(p) ==
  /\ pc[p] = "ci_existing"
  /\ IF \E i \in Invites : invites[i] = Invited(loc[p].tenant, loc[p].who)
     THEN Finish(p) ELSE Goto(p, "ci_plan", loc[p])
  /\ UNCHANGED <<plan, tenants, users, invites, ops, missed, edited>>

\* ... and there is a seat: members and valid invitations, counted one after the other.
CiPlan(p) ==
  /\ pc[p] = "ci_plan"
  /\ Goto(p, "ci_members", [loc[p] EXCEPT !.plan = tenants[loc[p].tenant].plan])
  /\ UNCHANGED <<plan, tenants, users, invites, ops, missed, edited>>

CiMembers(p) ==
  /\ pc[p] = "ci_members"
  /\ LET t == loc[p].tenant IN
       Goto(p, "ci_pending", [loc[p] EXCEPT !.count =
         Cardinality({u \in Members(t) : users[u].active /\ users[u].role # "owner"})])
  /\ UNCHANGED <<plan, tenants, users, invites, ops, missed, edited>>

PendingIn(t) == {i \in Invites : invites[i].status = "pending" /\ invites[i].tenant = t}

CiPending(p) ==
  /\ pc[p] = "ci_pending"
  /\ IF loc[p].count + Cardinality(PendingIn(loc[p].tenant)) >= Seats[loc[p].plan]
     THEN Finish(p) ELSE Goto(p, "ci_insert", loc[p])
  /\ UNCHANGED <<plan, tenants, users, invites, ops, missed, edited>>

\* The INSERT asks its foreign key for the workspace, and fails when that is deleted.
CiInsert(p) ==
  /\ pc[p] = "ci_insert"
  /\ LET t == loc[p].tenant IN
       /\ tenants[t].status # "deleted" /\ ~TenantLocked(t)
       /\ \E i \in Invites : /\ invites[i] = NoInvitation
                             /\ invites' = [invites EXCEPT ![i] = Invited(t, loc[p].who)]
  /\ Finish(p)
  /\ UNCHANGED <<plan, tenants, users, ops, missed, edited>>

\* Mutant: the status is not asked.
MutRevokeInvitation(i) ==
  /\ invites[i].status # "none" /\ ~InviteLocked(i)
  /\ invites' = [invites EXCEPT ![i].status = "revoked"]
  /\ Operate
  /\ UNCHANGED <<plan, tenants, users, missed, edited>>

\* One conditional UPDATE.
RevokeInvitation(i) ==
  /\ invites[i].status \in {"pending", "expired"} /\ ~InviteLocked(i)
  /\ invites' = [invites EXCEPT ![i].status = "revoked"]
  /\ Operate
  /\ UNCHANGED <<plan, tenants, users, missed, edited>>

\* Seven days pass.
Expire(i) ==
  /\ invites[i].status = "pending"
  /\ invites' = [invites EXCEPT ![i].status = "expired"]
  /\ Operate
  /\ UNCHANGED <<plan, tenants, users, missed, edited>>

\* Both accepts lock the pending row and its workspace.  A new e-mail joins with the
\* password it brings (after hashing it); an account signs in first, is not yet a
\* member, and is counted against its own plan.
AcceptInvitation(p) ==
  /\ \E i \in Invites :
       LET t == invites[i].tenant  a == invites[i].email
           l == [NoLocal EXCEPT !.who = a, !.tenant = t, !.invite = i]
       IN  /\ invites[i].status = "pending" /\ ~TenantLocked(t)
           /\ \/ Rows(a) = {} /\ Begin(p, "ac_join", l)
              \/ \E u \in Rows(a) :
                   /\ users[u].active /\ Rows(a) \cap Members(t) = {}
                   /\ Begin(p, "ac_usage", [l EXCEPT !.user = u])
  /\ UNCHANGED <<plan, tenants, users, invites, missed, edited>>

AcUsage(p) ==
  /\ pc[p] = "ac_usage"
  /\ Goto(p, "ac_tier", [loc[p] EXCEPT !.count = Cardinality(Counted(loc[p].who, "user"))])
  /\ UNCHANGED <<plan, tenants, users, invites, ops, missed, edited>>

AcTier(p) ==
  /\ pc[p] = "ac_tier"
  /\ IF loc[p].count < JoinLimit[plan[loc[p].who]]
     THEN Goto(p, "ac_join", loc[p]) ELSE Finish(p)
  /\ UNCHANGED <<plan, tenants, users, invites, ops, missed, edited>>

\* joinWorkspace and the commit.  uq_users_tenant_email refuses a second row of the
\* e-mail in the workspace, and the transaction is rolled back.
AcJoin(p) ==
  /\ pc[p] = "ac_join"
  /\ LET l == loc[p] IN
       IF \E u \in Rows(l.who) : users[u].tenant = l.tenant THEN UNCHANGED <<users, invites>>
       ELSE /\ \E u \in Users : Fresh(u) /\ users' = Inserted(u, Row(l.who, l.tenant, "user"))
            /\ invites' = [invites EXCEPT ![l.invite].status = "accepted"]
  /\ Finish(p)
  /\ UNCHANGED <<plan, tenants, ops, missed, edited>>

-----------------------------------------------------------------------------
(* Roles, suspension and deletion.                                          *)

\* updateUserRole, by an owner: a member is promoted only where the list of owners
\* shows no other, and the only owner on it is not demoted.
UpdateUserRole(p) ==
  /\ \E t \in Tenants, u \in Users, demote \in BOOLEAN :
       /\ \E o \in Owners(t) : users[o].active
       /\ Begin(p, "ur_owners", [NoLocal EXCEPT !.tenant = t, !.user = u, !.flag = demote])
  /\ UNCHANGED <<plan, tenants, users, invites, missed, edited>>

UrOwners(p) ==
  /\ pc[p] = "ur_owners"
  /\ LET l == loc[p]  others == Owners(l.tenant) \ {l.user} IN
       IF IF l.flag THEN others = {} /\ l.user \in Owners(l.tenant) ELSE others # {}
       THEN Finish(p) ELSE Goto(p, "ur_update", l)
  /\ UNCHANGED <<plan, tenants, users, invites, ops, missed, edited>>

UrUpdate(p) ==
  /\ pc[p] = "ur_update"
  /\ LET l == loc[p] IN
       IF l.user \in Members(l.tenant)
       THEN /\ users' = [users EXCEPT ![l.user].role = IF l.flag THEN "user" ELSE "owner"]
            /\ edited' = edited \cup {l.tenant}
       ELSE UNCHANGED <<users, edited>>
  /\ Finish(p)
  /\ UNCHANGED <<plan, tenants, invites, ops, missed>>

\* Mutant: the role is not validated, and the platform's own is accepted.
MutEditUser(u) ==
  /\ users[u].email # NoAccount
  /\ \E r \in Roles \cup {"admin"} : users' = [users EXCEPT ![u].role = r]
  /\ Operate
  /\ UNCHANGED <<plan, tenants, invites, missed, edited>>

\* updateUser of the admin console: role and is_active, as given.
EditUser(u) ==
  /\ users[u].email # NoAccount
  /\ \E r \in Roles, on \in BOOLEAN :
       /\ users' = [users EXCEPT ![u].role = r, ![u].active = on]
       /\ edited' = IF r = users[u].role THEN edited ELSE edited \cup ({users[u].tenant} \cap Tenants)
  /\ Operate
  /\ UNCHANGED <<plan, tenants, invites, missed>>

\* is_active, written by updateWorkspace of the admin console and by updateTenant.
SetTenantActive(t) ==
  /\ tenants[t].status \in {"active", "suspended"} /\ ~TenantLocked(t)
  /\ tenants' = [tenants EXCEPT ![t].status = IF @ = "active" THEN "suspended" ELSE "active"]
  /\ Operate
  /\ UNCHANGED <<plan, users, invites, missed, edited>>

\* The rows of the workspace go with it (ON DELETE CASCADE).
DeleteWorkspace(t) ==
  /\ tenants[t].status \in {"active", "suspended"} /\ ~TenantLocked(t)
  /\ tenants' = [tenants EXCEPT ![t].status = "deleted"]
  /\ users' = Deleted(Members(t))
  /\ invites' = Dropped({i \in Invites : invites[i].tenant = t})
  /\ Operate
  /\ UNCHANGED <<plan, missed, edited>>

\* purgeAccount reads the account's rows, then cancels its subscription ...
PurgeAccount(p) ==
  /\ \E a \in Accounts :
       /\ Rows(a) # {}
       /\ Begin(p, "pg_txn", [NoLocal EXCEPT !.who = a, !.owned = OwnedBy(a)])
  /\ UNCHANGED <<plan, tenants, users, invites, missed, edited>>

\* Mutant: the invitations of the account's e-mail stay.
MutPgTxn(p) ==
  /\ pc[p] = "pg_txn"
  /\ LET l == loc[p] IN
       /\ \A t \in l.owned : ~TenantLocked(t)
       /\ tenants' = [t \in Tenants |-> IF t \in l.owned THEN [tenants[t] EXCEPT !.status = "deleted"]
                                        ELSE tenants[t]]
       /\ users' = Deleted(Rows(l.who) \cup UNION {Members(t) : t \in l.owned})
       /\ invites' = Dropped({i \in Invites : invites[i].tenant \in l.owned})
       /\ plan' = [plan EXCEPT ![l.who] = Free]
  /\ Finish(p)
  /\ UNCHANGED <<ops, missed, edited>>

\* ... and then, in one transaction, deletes the workspaces it read as owned and
\* everything under the e-mail.
PgTxn(p) ==
  /\ pc[p] = "pg_txn"
  /\ LET l == loc[p] IN
       /\ \A t \in l.owned : ~TenantLocked(t)
       /\ \A i \in Invites : invites[i].email = l.who => ~InviteLocked(i)
       /\ tenants' = [t \in Tenants |-> IF t \in l.owned THEN [tenants[t] EXCEPT !.status = "deleted"]
                                        ELSE tenants[t]]
       /\ users' = Deleted(Rows(l.who) \cup UNION {Members(t) : t \in l.owned})
       /\ invites' = Dropped({i \in Invites : invites[i].email = l.who \/ invites[i].tenant \in l.owned})
       /\ plan' = [plan EXCEPT ![l.who] = Free]
  /\ Finish(p)
  /\ UNCHANGED <<ops, missed, edited>>

-----------------------------------------------------------------------------
Next ==
  \/ \E a \in Accounts : SetAccountPlan(a)
  \/ \E u \in Users : EditUser(u)
  \/ \E t \in Tenants : SetTenantActive(t) \/ DeleteWorkspace(t)
  \/ \E i \in Invites : RevokeInvitation(i) \/ Expire(i)
  \/ \E p \in Procs :
       \/ SignUp(p) \/ SuInsert(p) \/ Fail(p) \/ ReconcileComped(p) \/ MrUpdate(p)
       \/ CreateWorkspace(p) \/ CwUsage(p) \/ CwTier(p) \/ CwSnapshot(p) \/ CwCommit(p)
       \/ CreateInvitation(p) \/ CiMember(p) \/ CiExisting(p) \/ CiPlan(p) \/ CiMembers(p)
       \/ CiPending(p) \/ CiInsert(p)
       \/ AcceptInvitation(p) \/ AcUsage(p) \/ AcTier(p) \/ AcJoin(p)
       \/ UpdateUserRole(p) \/ UrOwners(p) \/ UrUpdate(p)
       \/ PurgeAccount(p) \/ PgTxn(p)

Spec == Init /\ [][Next]_vars

-----------------------------------------------------------------------------
(* Properties.                                                              *)

\* Where no role was changed by hand, a workspace shows its owner's plan, whatever
\* handlers overlap, unless the last change of that plan found the workspace suspended
\* or its owner inactive, or was overwritten by a creation or by the reconcile of a
\* comped account that had read the old plan (setAccountPlan, createWorkspace,
\* reconcileAccount, purgeAccount).
MirrorFollows ==
  \A t \in Tenants \ (missed \cup edited) : \A u \in Owners(t) : tenants[t].plan = plan[users[u].email]

\* An accepted invitation made a member that is still one: accepting, revoking and
\* purging agree on who is in the workspace (joinWorkspace, purgeAccount).
AcceptedIsMember ==
  \A i \in Invites : invites[i].status = "accepted"
    => \E u \in Members(invites[i].tenant) : users[u].email = invites[i].email

\* An invitation has one outcome: accepted stays accepted, revoked stays revoked
\* ("Single-use: the UPDATE only matches a still-pending row").
OneOutcome ==
  [][ \A i \in Invites : invites[i].status \in {"accepted", "revoked"}
        => invites'[i] \in {invites[i], NoInvitation} ]_vars

\* Where no role was changed by hand, every workspace keeps its owner ("a workspace
\* has exactly one owner [...] so it cannot be left orphaned").
NoOrphanWorkspace ==
  \A t \in Tenants \ edited : Active(t) => Owners(t) # {}
=============================================================================
