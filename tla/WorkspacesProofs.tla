-------------------------- MODULE WorkspacesProofs --------------------------
(***************************************************************************)
(* What Workspaces guarantees for any number of accounts, workspaces,      *)
(* invitations, handlers and requests: its types, that an accepted         *)
(* invitation stands for a membership, that an invitation has one outcome, *)
(* and that the mirrored plan is the owner's.                              *)
(***************************************************************************)
EXTENDS Workspaces, FiniteSetTheorems, TLAPS

-----------------------------------------------------------------------------
(* The inductive invariant.  Held says what a handler relies on between two  *)
(* awaits, over the tables ts, us and is it will find.                       *)

RowOK(ts, row) ==
  /\ row.email = NoAccount <=> row.role \in {"unborn", "deleted"}
  /\ row.email = NoAccount => row.tenant = NoTenant /\ ~row.active
  /\ row.tenant \in Tenants => ts[row.tenant].status # "unborn"

InviteOK(ts, inv) ==
  inv.status # "none" => /\ inv.tenant \in Tenants /\ inv.email \in Accounts
                         /\ ts[inv.tenant].status # "unborn"

Creating == {"cw_usage", "cw_tier", "cw_snapshot", "cw_commit"}
Inviting == {"ci_member", "ci_existing", "ci_plan", "ci_members", "ci_pending", "ci_insert"}
Changing == {"ur_owners", "ur_update"}

\* The row a creation acts for is the account's as long as it exists ...
Signed(us, l) == us[l.user].role # "unborn" /\ us[l.user].email \in {l.who, NoAccount}

\* ... and once it is claimed, the invitations the account has accepted are for other
\* workspaces than the one the row is in.
Claimed(us, is, l) ==
  \A i \in Invites : is[i].status = "accepted" /\ is[i].email = l.who
                       => is[i].tenant # us[l.user].tenant

\* The invitation whose row an accept has locked.
Open(is, l) ==
  /\ l.invite \in Invites
  /\ is[l.invite].status \in {"pending", "expired"}
  /\ is[l.invite].tenant = l.tenant /\ is[l.invite].email = l.who

Held(ts, us, is, step, l) ==
  /\ step \in Creating \cup Inviting \cup AcceptSteps \cup {"su_insert", "pg_txn", "mr_update"}
       => l.who \in Accounts
  /\ step \in Inviting \cup AcceptSteps \cup Changing
       => l.tenant \in Tenants /\ ts[l.tenant].status # "unborn"
  /\ step \in Creating \cup Changing => l.user \in Users
  /\ step \in Creating => Signed(us, l)
  /\ step \in AcceptSteps => Open(is, l)
  /\ (step = "cw_commit" /\ l.flag) => Claimed(us, is, l)

InvRows    == /\ plan \in [Accounts -> Plans]
              /\ tenants \in [Tenants -> [status : TenantStatuses, plan : Plans]]
              /\ users \in [Users -> User]
              /\ ops \in Nat /\ missed \subseteq Tenants /\ edited \subseteq Tenants
              /\ \A u \in Users : RowOK(tenants, users[u])
InvInvites == /\ invites \in [Invites -> Invitation]
              /\ \A i \in Invites : InviteOK(tenants, invites[i])
              /\ AcceptedIsMember
InvProcs   == /\ pc \in [Procs -> Steps] /\ loc \in [Procs -> Local]
              /\ \A p \in Procs : Held(tenants, users, invites, pc[p], loc[p])
InvLocks   == \A p, q \in Procs :
                pc[p] \in AcceptSteps /\ pc[q] \in AcceptSteps /\ loc[p].tenant = loc[q].tenant => p = q
InvPlans   == /\ \A t \in Tenants \ edited : \A u, v \in Owners(t) : users[u].email = users[v].email
              /\ MirrorFollows

IInv == InvRows /\ InvInvites /\ InvProcs /\ InvLocks /\ InvPlans

LEMMA IInvImplies == IInv => TypeOK /\ AcceptedIsMember /\ MirrorFollows
  BY DEF IInv, InvRows, InvInvites, InvProcs, InvPlans, TypeOK

-----------------------------------------------------------------------------
(* What handlers carry.                                                     *)

LEMMA LocalOK ==
  ASSUME NEW l \in Local
  PROVE  /\ \A c \in Int : [l EXCEPT !.count = c] \in Local
         /\ \A x \in Plans : [l EXCEPT !.plan = x] \in Local
         /\ \A x \in Plans, b \in BOOLEAN : [l EXCEPT !.plan = x, !.flag = b] \in Local
         /\ \A u \in Users : [l EXCEPT !.user = u] \in Local
         /\ \A a \in Accounts : [l EXCEPT !.who = a] \in Local
         /\ \A u \in Users, a \in Accounts : [l EXCEPT !.user = u, !.who = a] \in Local
         /\ \A a \in Accounts, x \in Plans : [l EXCEPT !.who = a, !.plan = x] \in Local
         /\ \A t \in Tenants, a \in Accounts : [l EXCEPT !.tenant = t, !.who = a] \in Local
         /\ \A t \in Tenants, a \in Accounts, i \in Invites :
              [l EXCEPT !.who = a, !.tenant = t, !.invite = i] \in Local
         /\ \A t \in Tenants, u \in Users, b \in BOOLEAN :
              [l EXCEPT !.tenant = t, !.user = u, !.flag = b] \in Local
         /\ \A a \in Accounts, o \in SUBSET Tenants : [l EXCEPT !.who = a, !.owned = o] \in Local
  BY DEF Local

LEMMA NoLocalOK == NoLocal \in Local
  BY ConstantsOK DEF NoLocal, Local

LEMMA CountInt ==
  /\ \A S \in SUBSET Users : Cardinality(S) \in Int
  /\ \A S \in SUBSET Invites : Cardinality(S) \in Int
  <1>1. ASSUME NEW S \in SUBSET Users PROVE Cardinality(S) \in Int
    <2>1. IsFiniteSet(S)
      BY ConstantsOK, FS_Subset
    <2> QED
      BY <2>1, FS_CardinalityType
  <1>2. ASSUME NEW S \in SUBSET Invites PROVE Cardinality(S) \in Int
    <2>1. IsFiniteSet(S)
      BY ConstantsOK, FS_Subset
    <2> QED
      BY <2>1, FS_CardinalityType
  <1> QED
    BY <1>1, <1>2

-----------------------------------------------------------------------------
(* Moving from step to step.                                                *)

LEMMA GotoOK ==
  ASSUME IInv, NEW p \in Procs, NEW step \in Steps, NEW l \in Local, Goto(p, step, l),
         Held(tenants', users', invites', step, l),
         \A q \in Procs : q # p => Held(tenants', users', invites', pc[q], loc[q]),
         step \in AcceptSteps => \/ pc[p] \in AcceptSteps /\ l.tenant = loc[p].tenant
                                 \/ ~TenantLocked(l.tenant)
  PROVE  InvProcs' /\ InvLocks'
  <1>1. /\ pc' \in [Procs -> Steps] /\ loc' \in [Procs -> Local]
        /\ pc'[p] = step /\ loc'[p] = l
        /\ \A q \in Procs : q # p => pc'[q] = pc[q] /\ loc'[q] = loc[q]
    BY DEF IInv, InvProcs, Goto
  <1>2. InvProcs'
    BY <1>1 DEF InvProcs
  <1>3. InvLocks'
    BY <1>1 DEF IInv, InvLocks, TenantLocked
  <1> QED
    BY <1>2, <1>3

LEMMA FinishOK ==
  ASSUME IInv, NEW p \in Procs, Finish(p),
         \A q \in Procs : q # p => Held(tenants', users', invites', pc[q], loc[q])
  PROVE  InvProcs' /\ InvLocks'
  <1>1. "idle" \in Steps /\ "idle" \notin AcceptSteps
    BY DEF Steps, AcceptSteps
  <1>2. Held(tenants', users', invites', "idle", NoLocal)
    BY DEF Held, Creating, Inviting, AcceptSteps, Changing
  <1> QED
    BY <1>1, <1>2, NoLocalOK, GotoOK DEF Finish

\* A step that writes no table.
LEMMA QuietOK ==
  ASSUME IInv, UNCHANGED <<plan, tenants, users, invites, missed, edited>>, ops' \in Nat
  PROVE  /\ InvRows' /\ InvInvites' /\ InvPlans'
         /\ \A q \in Procs : Held(tenants', users', invites', pc[q], loc[q])
  BY DEF IInv, InvRows, InvInvites, InvPlans, InvProcs, AcceptedIsMember, MirrorFollows, Members,
         Owners

LEMMA MoveOK ==
  ASSUME IInv, NEW p \in Procs, NEW step \in Steps, NEW l \in Local, Goto(p, step, l),
         UNCHANGED <<plan, tenants, users, invites, missed, edited>>, ops' \in Nat,
         Held(tenants, users, invites, step, l),
         step \in AcceptSteps => \/ pc[p] \in AcceptSteps /\ l.tenant = loc[p].tenant
                                 \/ ~TenantLocked(l.tenant)
  PROVE  IInv'
  BY GotoOK, QuietOK DEF IInv

LEMMA StopOK ==
  ASSUME IInv, NEW p \in Procs, Finish(p),
         UNCHANGED <<plan, tenants, users, invites, missed, edited>>, ops' \in Nat
  PROVE  IInv'
  BY FinishOK, QuietOK DEF IInv

-----------------------------------------------------------------------------
(* Steps that only read.                                                    *)

\* They stay within their handler, and keep whom and what it is about.
LEMMA ReadOK ==
  ASSUME IInv, NEW p \in Procs, NEW step \in Steps, NEW l \in Local,
         Goto(p, step, l) \/ Finish(p),
         UNCHANGED <<plan, tenants, users, invites, ops, missed, edited>>,
         l.user = loc[p].user, l.who = loc[p].who, l.tenant = loc[p].tenant,
         l.invite = loc[p].invite,
         \A handler \in {Creating, Inviting, AcceptSteps, Changing} :
           step \in handler => pc[p] \in handler,
         step \notin {"cw_commit", "su_insert", "pg_txn", "mr_update"}
  PROVE  IInv'
  <1>1. Held(tenants, users, invites, pc[p], loc[p]) /\ ops' \in Nat
    BY DEF IInv, InvRows, InvProcs
  <1>2. Held(tenants, users, invites, step, l)
    BY <1>1 DEF Held, Open, Signed
  <1> QED
    BY <1>1, <1>2, MoveOK, StopOK

\* A check, which passes or ends the request.
LEMMA CheckStep ==
  ASSUME IInv, NEW p \in Procs,
         CwTier(p) \/ CiMember(p) \/ CiExisting(p) \/ CiPending(p) \/ AcTier(p) \/ UrOwners(p)
  PROVE  IInv'
  <1>1. loc[p] \in Local
    BY DEF IInv, InvProcs
  <1>2. CASE CwTier(p)
    BY <1>1, <1>2, ReadOK DEF CwTier, Steps, Creating, Inviting, AcceptSteps, Changing
  <1>3. CASE CiMember(p)
    BY <1>1, <1>3, ReadOK DEF CiMember, Steps, Creating, Inviting, AcceptSteps, Changing
  <1>4. CASE CiExisting(p)
    BY <1>1, <1>4, ReadOK DEF CiExisting, Steps, Creating, Inviting, AcceptSteps, Changing
  <1>5. CASE CiPending(p)
    BY <1>1, <1>5, ReadOK DEF CiPending, Steps, Creating, Inviting, AcceptSteps, Changing
  <1>6. CASE AcTier(p)
    BY <1>1, <1>6, ReadOK DEF AcTier, Steps, Creating, Inviting, AcceptSteps, Changing
  <1>7. CASE UrOwners(p)
    BY <1>1, <1>7, ReadOK DEF UrOwners, Steps, Creating, Inviting, AcceptSteps, Changing
  <1> QED
    BY <1>2, <1>3, <1>4, <1>5, <1>6, <1>7

\* A count of rows or of a workspace's members, kept for the check that follows.
LEMMA CountStep ==
  ASSUME IInv, NEW p \in Procs, CwUsage(p) \/ CiMembers(p) \/ AcUsage(p)
  PROVE  IInv'
  <1>1. ASSUME NEW S \in SUBSET Users, NEW step \in {"cw_tier", "ci_pending", "ac_tier"},
               Goto(p, step, [loc[p] EXCEPT !.count = Cardinality(S)]),
               \/ step = "cw_tier" /\ pc[p] = "cw_usage"
               \/ step = "ci_pending" /\ pc[p] = "ci_members"
               \/ step = "ac_tier" /\ pc[p] = "ac_usage",
               UNCHANGED <<plan, tenants, users, invites, ops, missed, edited>>
        PROVE  IInv'
    <2> DEFINE l == [loc[p] EXCEPT !.count = Cardinality(S)]
    <2>1. /\ l \in Local /\ l.user = loc[p].user /\ l.who = loc[p].who
          /\ l.tenant = loc[p].tenant /\ l.invite = loc[p].invite
      <3>1. loc[p] \in Local /\ Cardinality(S) \in Int
        BY CountInt DEF IInv, InvProcs
      <3>2. l \in Local
        BY <3>1, LocalOK
      <3>3. /\ l.user = loc[p].user /\ l.who = loc[p].who
            /\ l.tenant = loc[p].tenant /\ l.invite = loc[p].invite
        BY <3>1 DEF Local
      <3> QED
        BY <3>2, <3>3
    <2>2. Goto(p, step, l)
      BY <1>1
    <2> HIDE DEF l
    <2> QED
      BY <1>1, <2>1, <2>2, ReadOK DEF Steps, Creating, Inviting, AcceptSteps, Changing
  <1>2. CASE CwUsage(p)
    <2>1. Counted(loc[p].who, "owner") \in SUBSET Users
      BY DEF Counted, Rows
    <2> QED
      BY <1>1, <1>2, <2>1 DEF CwUsage
  <1>3. CASE CiMembers(p)
    <2>1. {u \in Members(loc[p].tenant) : users[u].active /\ users[u].role # "owner"}
            \in SUBSET Users
      BY DEF Members
    <2> QED
      BY <1>1, <1>3, <2>1 DEF CiMembers
  <1>4. CASE AcUsage(p)
    <2>1. Counted(loc[p].who, "user") \in SUBSET Users
      BY DEF Counted, Rows
    <2> QED
      BY <1>1, <1>4, <2>1 DEF AcUsage
  <1> QED
    BY <1>2, <1>3, <1>4

LEMMA CiPlanStep ==
  ASSUME IInv, NEW p \in Procs, CiPlan(p)
  PROVE  IInv'
  <1> DEFINE l == [loc[p] EXCEPT !.plan = tenants[loc[p].tenant].plan]
  <1>1. /\ l \in Local /\ l.user = loc[p].user /\ l.who = loc[p].who
        /\ l.tenant = loc[p].tenant /\ l.invite = loc[p].invite
    <2>1. loc[p] \in Local /\ tenants[loc[p].tenant].plan \in Plans
      BY DEF CiPlan, Held, Inviting, IInv, InvRows, InvProcs
    <2>2. l \in Local
      BY <2>1, LocalOK
    <2>3. /\ l.user = loc[p].user /\ l.who = loc[p].who
          /\ l.tenant = loc[p].tenant /\ l.invite = loc[p].invite
      BY <2>1 DEF Local
    <2> QED
      BY <2>2, <2>3
  <1>2. Goto(p, "ci_members", l) /\ pc[p] = "ci_plan"
    BY DEF CiPlan
  <1> HIDE DEF l
  <1> QED
    BY <1>1, <1>2, ReadOK DEF CiPlan, Steps, Creating, Inviting, AcceptSteps, Changing

\* The claim is made where the row has no tenant, and accepted invitations have one.
LEMMA CwSnapshotStep ==
  ASSUME IInv, NEW p \in Procs, CwSnapshot(p)
  PROVE  IInv'
  <1> DEFINE me == users[loc[p].user]
  <1>0. /\ ops' \in Nat /\ loc[p] \in Local /\ pc[p] = "cw_snapshot"
        /\ Held(tenants, users, invites, "cw_snapshot", loc[p])
    BY DEF IInv, InvRows, InvProcs, CwSnapshot
  <1>1. loc[p].who \in Accounts /\ loc[p].user \in Users
    BY <1>0 DEF Held, Creating
  <1>2. CASE Finish(p)
    BY <1>0, <1>2, StopOK DEF CwSnapshot
  <1>3. ASSUME NEW claim \in BOOLEAN, claim => me.tenant = NoTenant,
               Goto(p, "cw_commit", [loc[p] EXCEPT !.plan = plan[loc[p].who], !.flag = claim])
        PROVE  IInv'
    <2> DEFINE l == [loc[p] EXCEPT !.plan = plan[loc[p].who], !.flag = claim]
    <2>1. plan[loc[p].who] \in Plans /\ "cw_commit" \in Steps /\ "cw_commit" \notin AcceptSteps
      BY <1>1 DEF IInv, InvRows, Steps, AcceptSteps
    <2>2. l \in Local
      BY <1>0, <2>1, LocalOK
    <2>3. l.user = loc[p].user /\ l.who = loc[p].who /\ (l.flag => claim)
      BY <1>0 DEF Local
    <2> HIDE DEF l
    <2>4. l.flag => Claimed(users, invites, l)
      <3>1. ASSUME NEW i \in Invites, invites[i].status = "accepted"
            PROVE  invites[i].tenant # NoTenant
        BY <3>1, ConstantsOK DEF IInv, InvInvites, InviteOK
      <3> QED
        BY <1>3, <2>3, <3>1 DEF Claimed
    <2>5. Held(tenants, users, invites, "cw_commit", l)
      BY <1>0, <1>1, <2>3, <2>4 DEF Held, Signed, Creating, Inviting, AcceptSteps, Changing
    <2>6. Goto(p, "cw_commit", l)
      BY <1>3 DEF l
    <2> QED
      BY <1>0, <2>1, <2>2, <2>5, <2>6, MoveOK DEF CwSnapshot
  <1> QED
    BY <1>2, <1>3 DEF CwSnapshot

-----------------------------------------------------------------------------
(* Requests that arrive.                                                    *)

LEMMA BeginOK ==
  ASSUME IInv, NEW p \in Procs, NEW step \in Steps, NEW l \in Local, Begin(p, step, l),
         UNCHANGED <<plan, tenants, users, invites, missed, edited>>,
         Held(tenants, users, invites, step, l),
         step \in AcceptSteps => ~TenantLocked(l.tenant)
  PROVE  IInv'
  <1>1. ops' \in Nat /\ Goto(p, step, l)
    BY DEF Begin, IInv, InvRows
  <1> QED
    BY <1>1, MoveOK

LEMMA FailStep ==
  ASSUME IInv, NEW p \in Procs, Fail(p)
  PROVE  IInv'
  BY StopOK DEF Fail, IInv, InvRows

LEMMA SignUpStep ==
  ASSUME IInv, NEW p \in Procs, SignUp(p)
  PROVE  IInv'
  <1>1. PICK a \in Accounts : Begin(p, "su_insert", [NoLocal EXCEPT !.who = a])
    BY DEF SignUp
  <1> DEFINE l == [NoLocal EXCEPT !.who = a]
  <1>2. l \in Local /\ l.who = a /\ "su_insert" \in Steps
    BY NoLocalOK, LocalOK DEF NoLocal, Steps, AcceptSteps
  <1>3. Begin(p, "su_insert", l)
    BY <1>1
  <1> HIDE DEF l
  <1>4. Held(tenants, users, invites, "su_insert", l) /\ "su_insert" \notin AcceptSteps
    BY <1>2 DEF Held, Creating, Inviting, AcceptSteps, Changing
  <1> QED
    BY <1>2, <1>3, <1>4, BeginOK DEF SignUp

LEMMA ReconcileCompedStep ==
  ASSUME IInv, NEW p \in Procs, ReconcileComped(p)
  PROVE  IInv'
  <1>1. PICK a \in Accounts :
          Begin(p, "mr_update", [NoLocal EXCEPT !.who = a, !.plan = plan[a]])
    BY DEF ReconcileComped
  <1> DEFINE l == [NoLocal EXCEPT !.who = a, !.plan = plan[a]]
  <1>2. plan[a] \in Plans /\ "mr_update" \in Steps
    BY DEF IInv, InvRows, Steps, AcceptSteps
  <1>3. l \in Local /\ l.who = a
    BY <1>2, NoLocalOK, LocalOK DEF NoLocal
  <1>4. Begin(p, "mr_update", l)
    BY <1>1
  <1> HIDE DEF l
  <1>5. Held(tenants, users, invites, "mr_update", l) /\ "mr_update" \notin AcceptSteps
    BY <1>3 DEF Held, Creating, Inviting, AcceptSteps, Changing
  <1> QED
    BY <1>2, <1>3, <1>4, <1>5, BeginOK DEF ReconcileComped

LEMMA CreateWorkspaceStep ==
  ASSUME IInv, NEW p \in Procs, CreateWorkspace(p)
  PROVE  IInv'
  <1>1. PICK u \in Users :
          /\ users[u].active
          /\ Begin(p, "cw_usage", [NoLocal EXCEPT !.user = u, !.who = users[u].email])
    BY DEF CreateWorkspace
  <1> DEFINE l == [NoLocal EXCEPT !.user = u, !.who = users[u].email]
  <1>2. users[u].email \in Accounts /\ users[u].role # "unborn"
    BY <1>1 DEF IInv, InvRows, RowOK, User
  <1>3. l \in Local /\ l.user = u /\ l.who = users[u].email /\ "cw_usage" \in Steps
    BY <1>2, NoLocalOK, LocalOK DEF NoLocal, Steps, AcceptSteps
  <1>4. Begin(p, "cw_usage", l)
    BY <1>1
  <1> HIDE DEF l
  <1>5. Held(tenants, users, invites, "cw_usage", l) /\ "cw_usage" \notin AcceptSteps
    BY <1>2, <1>3 DEF Held, Signed, Creating, Inviting, AcceptSteps, Changing
  <1> QED
    BY <1>3, <1>4, <1>5, BeginOK DEF CreateWorkspace

\* A workspace with a member has been created.
LEMMA MembersBorn ==
  ASSUME IInv, NEW t \in Tenants, Members(t) # {}
  PROVE  tenants[t].status # "unborn"
  BY DEF IInv, InvRows, RowOK, Members

LEMMA CreateInvitationStep ==
  ASSUME IInv, NEW p \in Procs, CreateInvitation(p)
  PROVE  IInv'
  <1>1. PICK t \in Tenants, a \in Accounts :
          /\ Owners(t) # {}
          /\ Begin(p, "ci_member", [NoLocal EXCEPT !.tenant = t, !.who = a])
    BY DEF CreateInvitation
  <1> DEFINE l == [NoLocal EXCEPT !.tenant = t, !.who = a]
  <1>2. tenants[t].status # "unborn"
    BY <1>1, MembersBorn DEF Owners
  <1>3. l \in Local /\ l.tenant = t /\ l.who = a /\ "ci_member" \in Steps
    BY NoLocalOK, LocalOK DEF NoLocal, Steps, AcceptSteps
  <1>4. Begin(p, "ci_member", l)
    BY <1>1
  <1> HIDE DEF l
  <1>5. Held(tenants, users, invites, "ci_member", l) /\ "ci_member" \notin AcceptSteps
    BY <1>2, <1>3 DEF Held, Creating, Inviting, AcceptSteps, Changing
  <1> QED
    BY <1>3, <1>4, <1>5, BeginOK DEF CreateInvitation

LEMMA UpdateUserRoleStep ==
  ASSUME IInv, NEW p \in Procs, UpdateUserRole(p)
  PROVE  IInv'
  <1>1. PICK t \in Tenants, u \in Users, demote \in BOOLEAN :
          /\ Owners(t) # {}
          /\ Begin(p, "ur_owners", [NoLocal EXCEPT !.tenant = t, !.user = u, !.flag = demote])
    BY DEF UpdateUserRole
  <1> DEFINE l == [NoLocal EXCEPT !.tenant = t, !.user = u, !.flag = demote]
  <1>2. tenants[t].status # "unborn"
    BY <1>1, MembersBorn DEF Owners
  <1>3. l \in Local /\ l.tenant = t /\ l.user = u /\ "ur_owners" \in Steps
    BY NoLocalOK, LocalOK DEF NoLocal, Steps, AcceptSteps
  <1>4. Begin(p, "ur_owners", l)
    BY <1>1
  <1> HIDE DEF l
  <1>5. Held(tenants, users, invites, "ur_owners", l) /\ "ur_owners" \notin AcceptSteps
    BY <1>2, <1>3 DEF Held, Creating, Inviting, AcceptSteps, Changing
  <1> QED
    BY <1>3, <1>4, <1>5, BeginOK DEF UpdateUserRole

LEMMA PurgeAccountStep ==
  ASSUME IInv, NEW p \in Procs, PurgeAccount(p)
  PROVE  IInv'
  <1>1. PICK a \in Accounts :
          Begin(p, "pg_txn", [NoLocal EXCEPT !.who = a, !.owned = OwnedBy(a)])
    BY DEF PurgeAccount
  <1> DEFINE l == [NoLocal EXCEPT !.who = a, !.owned = OwnedBy(a)]
  <1>2. l \in Local /\ l.who = a /\ "pg_txn" \in Steps
    BY NoLocalOK, LocalOK DEF NoLocal, Steps, AcceptSteps, OwnedBy
  <1>3. Begin(p, "pg_txn", l)
    BY <1>1
  <1> HIDE DEF l
  <1>4. Held(tenants, users, invites, "pg_txn", l) /\ "pg_txn" \notin AcceptSteps
    BY <1>2 DEF Held, Creating, Inviting, AcceptSteps, Changing
  <1> QED
    BY <1>2, <1>3, <1>4, BeginOK DEF PurgeAccount

LEMMA AcceptInvitationStep ==
  ASSUME IInv, NEW p \in Procs, AcceptInvitation(p)
  PROVE  IInv'
  <1>1. PICK i \in Invites :
          LET t == invites[i].tenant  a == invites[i].email
              l == [NoLocal EXCEPT !.who = a, !.tenant = t, !.invite = i]
          IN  /\ invites[i].status = "pending" /\ ~TenantLocked(t)
              /\ \/ Begin(p, "ac_join", l)
                 \/ \E u \in Rows(a) : Begin(p, "ac_usage", [l EXCEPT !.user = u])
    BY DEF AcceptInvitation
  <1> DEFINE t == invites[i].tenant
             a == invites[i].email
             m == [NoLocal EXCEPT !.who = a, !.tenant = t, !.invite = i]
  <1>2. t \in Tenants /\ a \in Accounts /\ tenants[t].status # "unborn"
    BY <1>1 DEF IInv, InvInvites, InviteOK
  <1>3. m \in Local /\ m.tenant = t /\ m.who = a /\ m.invite = i
    BY <1>2, NoLocalOK, LocalOK DEF NoLocal
  <1>4. ASSUME NEW step \in {"ac_join", "ac_usage"}, NEW l \in Local, Begin(p, step, l),
               l.tenant = t, l.who = a, l.invite = i
        PROVE  IInv'
    <2>1. step \in Steps /\ step \in AcceptSteps
      BY DEF Steps, AcceptSteps
    <2>2. Open(invites, l)
      BY <1>1, <1>4 DEF Open
    <2>3. Held(tenants, users, invites, step, l)
      BY <1>2, <1>4, <2>1, <2>2 DEF Held, Creating, Inviting, AcceptSteps, Changing
    <2>4. ~TenantLocked(l.tenant)
      BY <1>1, <1>4
    <2> QED
      BY <1>4, <2>1, <2>3, <2>4, BeginOK DEF AcceptInvitation
  <1>5. CASE Begin(p, "ac_join", m)
    <2> HIDE DEF m
    <2> QED
      BY <1>3, <1>4, <1>5
  <1>6. ASSUME NEW u \in Rows(a), Begin(p, "ac_usage", [m EXCEPT !.user = u])
        PROVE  IInv'
    <2> DEFINE l == [m EXCEPT !.user = u]
    <2> HIDE DEF m
    <2>0. u \in Users
      BY <1>6 DEF Rows
    <2>1. l \in Local /\ l.tenant = t /\ l.who = a /\ l.invite = i
      <3>1. l \in Local
        BY <1>3, <2>0, LocalOK
      <3>2. l.tenant = m.tenant /\ l.who = m.who /\ l.invite = m.invite
        BY <1>3 DEF Local
      <3> QED
        BY <1>3, <3>1, <3>2
    <2>2. Begin(p, "ac_usage", l)
      BY <1>6
    <2> HIDE DEF l
    <2> QED
      BY <1>4, <2>1, <2>2
  <1> QED
    BY <1>1, <1>5, <1>6

-----------------------------------------------------------------------------
(* What a write leaves to the handlers that are waiting.                    *)

LEMMA OperateOK ==
  ASSUME IInv, Operate, \A q \in Procs : Held(tenants', users', invites', pc[q], loc[q])
  PROVE  InvProcs' /\ InvLocks' /\ ops' \in Nat
  BY DEF IInv, InvRows, InvProcs, InvLocks, Operate

LEMMA StableOK ==
  ASSUME IInv, NEW q \in Procs,
         \A t \in Tenants : tenants[t].status # "unborn" => tenants'[t].status # "unborn",
         pc[q] \in AcceptSteps => Open(invites', loc[q]),
         pc[q] \in Creating => Signed(users', loc[q]),
         pc[q] = "cw_commit" /\ loc[q].flag => Claimed(users', invites', loc[q])
  PROVE  Held(tenants', users', invites', pc[q], loc[q])
  BY DEF IInv, InvProcs, Held

\* A write that moves no row into a workspace and accepts no invitation.
LEMMA KeptOK ==
  ASSUME IInv,
         \A t \in Tenants : tenants[t].status # "unborn" => tenants'[t].status # "unborn",
         \A u \in Users : users[u].role # "unborn" =>
           /\ users'[u].role # "unborn" /\ users'[u].email \in {users[u].email, NoAccount}
           /\ users'[u].tenant \in {users[u].tenant, NoTenant},
         \A i \in Invites : invites'[i].status = "accepted" => invites'[i] = invites[i],
         \A q \in Procs : pc[q] \in AcceptSteps => Open(invites', loc[q])
  PROVE  \A q \in Procs : Held(tenants', users', invites', pc[q], loc[q])
  <1> SUFFICES ASSUME NEW q \in Procs
               PROVE  Held(tenants', users', invites', pc[q], loc[q])
    OBVIOUS
  <1>1. Held(tenants, users, invites, pc[q], loc[q])
    BY DEF IInv, InvProcs
  <1>2. pc[q] \in Creating => loc[q].user \in Users /\ Signed(users, loc[q])
    BY <1>1 DEF Held
  <1>3. pc[q] \in Creating => Signed(users', loc[q])
    BY <1>2 DEF Signed
  <1>4. ASSUME pc[q] = "cw_commit", loc[q].flag
        PROVE  Claimed(users', invites', loc[q])
    <2>1. Claimed(users, invites, loc[q]) /\ loc[q].user \in Users /\ users[loc[q].user].role # "unborn"
      BY <1>1, <1>2, <1>4 DEF Held, Creating, Signed
    <2>2. \A i \in Invites : invites[i].status = "accepted" => invites[i].tenant # NoTenant
      BY ConstantsOK DEF IInv, InvInvites, InviteOK
    <2> QED
      BY <2>1, <2>2 DEF Claimed
  <1> QED
    BY <1>3, <1>4, StableOK

\* Locked invitations are pending, and their workspace is locked too.
LEMMA LockedOpen ==
  ASSUME IInv, NEW q \in Procs, pc[q] \in AcceptSteps
  PROVE  /\ Open(invites, loc[q]) /\ loc[q].invite \in Invites
         /\ loc[q].tenant \in Tenants /\ loc[q].who \in Accounts
         /\ InviteLocked(loc[q].invite) /\ TenantLocked(loc[q].tenant)
  BY DEF IInv, InvProcs, Held, InviteLocked, TenantLocked, Open

-----------------------------------------------------------------------------
(* The administrator's and the clock's writes.                              *)

LEMMA RevokeInvitationStep ==
  ASSUME IInv, NEW i \in Invites, RevokeInvitation(i)
  PROVE  IInv'
  <1>1. /\ invites' = [invites EXCEPT ![i].status = "revoked"]
        /\ ~InviteLocked(i) /\ invites[i].status \in {"pending", "expired"} /\ Operate
        /\ UNCHANGED <<plan, tenants, users, missed, edited>>
    BY DEF RevokeInvitation
  <1>2. /\ invites' \in [Invites -> Invitation]
        /\ \A j \in Invites : j # i => invites'[j] = invites[j]
        /\ invites'[i].status = "revoked" /\ invites'[i].tenant = invites[i].tenant
        /\ invites'[i].email = invites[i].email
    BY <1>1 DEF IInv, InvInvites, Invitation, InviteStatuses
  <1>3. \A q \in Procs : pc[q] \in AcceptSteps => Open(invites', loc[q])
    BY <1>1, <1>2, LockedOpen DEF Open
  <1>4. InvProcs' /\ InvLocks' /\ ops' \in Nat
    <2>1. \A q \in Procs : Held(tenants', users', invites', pc[q], loc[q])
      BY <1>1, <1>2, <1>3, KeptOK
    <2> QED
      BY <1>1, <2>1, OperateOK
  <1>5. InvInvites'
    BY <1>1, <1>2 DEF IInv, InvInvites, InviteOK, AcceptedIsMember, Members
  <1>6. InvRows' /\ InvPlans'
    BY <1>1, <1>4 DEF IInv, InvRows, InvPlans, MirrorFollows, Owners, Members
  <1> QED
    BY <1>4, <1>5, <1>6 DEF IInv

LEMMA ExpireStep ==
  ASSUME IInv, NEW i \in Invites, Expire(i)
  PROVE  IInv'
  <1>1. /\ invites' = [invites EXCEPT ![i].status = "expired"]
        /\ invites[i].status = "pending" /\ Operate
        /\ UNCHANGED <<plan, tenants, users, missed, edited>>
    BY DEF Expire
  <1>2. /\ invites' \in [Invites -> Invitation]
        /\ \A j \in Invites : j # i => invites'[j] = invites[j]
        /\ invites'[i].status = "expired" /\ invites'[i].tenant = invites[i].tenant
        /\ invites'[i].email = invites[i].email
    BY <1>1 DEF IInv, InvInvites, Invitation, InviteStatuses
  <1>3. \A q \in Procs : pc[q] \in AcceptSteps => Open(invites', loc[q])
    BY <1>1, <1>2, LockedOpen DEF Open
  <1>4. InvProcs' /\ InvLocks' /\ ops' \in Nat
    <2>1. \A q \in Procs : Held(tenants', users', invites', pc[q], loc[q])
      BY <1>1, <1>2, <1>3, KeptOK
    <2> QED
      BY <1>1, <2>1, OperateOK
  <1>5. InvInvites'
    BY <1>1, <1>2 DEF IInv, InvInvites, InviteOK, AcceptedIsMember, Members
  <1>6. InvRows' /\ InvPlans'
    BY <1>1, <1>4 DEF IInv, InvRows, InvPlans, MirrorFollows, Owners, Members
  <1> QED
    BY <1>4, <1>5, <1>6 DEF IInv

LEMMA SetTenantActiveStep ==
  ASSUME IInv, NEW t \in Tenants, SetTenantActive(t)
  PROVE  IInv'
  <1>1. PICK s \in {"active", "suspended"} : tenants' = [tenants EXCEPT ![t].status = s]
    BY DEF SetTenantActive
  <1>2. /\ tenants[t].status \in {"active", "suspended"} /\ Operate
        /\ UNCHANGED <<plan, users, invites, missed, edited>>
    BY DEF SetTenantActive
  <1>3. /\ tenants' \in [Tenants -> [status : TenantStatuses, plan : Plans]]
        /\ \A u \in Tenants : /\ tenants'[u].plan = tenants[u].plan
                              /\ tenants'[u].status = "unborn" <=> tenants[u].status = "unborn"
    BY <1>1, <1>2 DEF IInv, InvRows, TenantStatuses
  <1>4. InvProcs' /\ InvLocks' /\ ops' \in Nat
    <2>1. \A q \in Procs : Held(tenants', users', invites', pc[q], loc[q])
      BY <1>2, <1>3, KeptOK, LockedOpen
    <2> QED
      BY <1>2, <2>1, OperateOK
  <1>5. InvRows'
    BY <1>2, <1>3, <1>4 DEF IInv, InvRows, RowOK
  <1>6. InvInvites'
    BY <1>2, <1>3 DEF IInv, InvInvites, InviteOK, AcceptedIsMember, Members
  <1>7. InvPlans'
    BY <1>2, <1>3 DEF IInv, InvPlans, MirrorFollows, Owners, Members
  <1> QED
    BY <1>4, <1>5, <1>6, <1>7 DEF IInv

LEMMA MirroredOK ==
  ASSUME NEW ts \in [Tenants -> [status : TenantStatuses, plan : Plans]],
         NEW reached, NEW newPlan \in Plans
  PROVE  /\ Mirrored(ts, reached, newPlan) \in [Tenants -> [status : TenantStatuses, plan : Plans]]
         /\ \A t \in Tenants :
              /\ Mirrored(ts, reached, newPlan)[t].status = ts[t].status
              /\ Mirrored(ts, reached, newPlan)[t].plan = IF t \in reached THEN newPlan ELSE ts[t].plan
  BY DEF Mirrored

\* The mirror reaches workspaces of the account, and their one owner is the account.
LEMMA SetAccountPlanStep ==
  ASSUME IInv, NEW a \in Accounts, SetAccountPlan(a)
  PROVE  IInv'
  <1> DEFINE reached == Reached(users, tenants, a)
  <1>1. PICK newPlan \in Plans : /\ plan' = [plan EXCEPT ![a] = newPlan]
                                 /\ tenants' = Mirrored(tenants, reached, newPlan)
    BY DEF SetAccountPlan
  <1>2. /\ missed' = (missed \cup OwnedBy(a)) \ reached /\ Operate
        /\ UNCHANGED <<users, invites, edited>>
    BY DEF SetAccountPlan
  <1>3. /\ tenants' \in [Tenants -> [status : TenantStatuses, plan : Plans]]
        /\ \A t \in Tenants : /\ tenants'[t].status = tenants[t].status
                              /\ tenants'[t].plan = IF t \in reached THEN newPlan ELSE tenants[t].plan
    <2> HIDE DEF reached
    <2> QED
      BY <1>1, MirroredOK DEF IInv, InvRows
  <1>4. \A t \in reached : \E u \in Owners(t) : users[u].email = a
    BY DEF Reached, Owners, Members
  <1>5. OwnedBy(a) = {t \in Tenants : \E u \in Owners(t) : users[u].email = a}
    BY DEF OwnedBy, Rows, Owners, Members
  <1> HIDE DEF reached
  <1>6. InvProcs' /\ InvLocks' /\ ops' \in Nat
    <2>1. \A q \in Procs : Held(tenants', users', invites', pc[q], loc[q])
      BY <1>2, <1>3, KeptOK, LockedOpen
    <2> QED
      BY <1>2, <2>1, OperateOK
  <1>7. InvRows'
    <2>1. plan' \in [Accounts -> Plans] /\ missed' \subseteq Tenants
      BY <1>1, <1>2, <1>5 DEF IInv, InvRows
    <2> QED
      BY <1>2, <1>3, <1>6, <2>1 DEF IInv, InvRows, RowOK
  <1>8. InvInvites'
    BY <1>2, <1>3 DEF IInv, InvInvites, InviteOK, AcceptedIsMember, Members
  <1>9. InvPlans'
    <2>1. \A t \in Tenants : Owners(t)' = Owners(t)
      BY <1>2 DEF Owners, Members
    <2>2. ASSUME NEW t \in Tenants \ (missed' \cup edited'), NEW u \in Owners(t)
          PROVE  tenants'[t].plan = plan'[users[u].email]
      <3>1. users[u].email \in Accounts
        BY DEF Owners, Members, IInv, InvRows, RowOK, User
      <3>2. CASE t \in reached
        <4>1. users[u].email = a
          BY <1>2, <1>4, <2>2, <3>2 DEF IInv, InvPlans
        <4> QED
          BY <1>1, <1>3, <3>2, <4>1 DEF IInv, InvRows
      <3>3. CASE t \notin reached
        <4>1. users[u].email # a /\ t \notin missed \cup edited
          BY <1>2, <1>5, <2>2, <3>3
        <4> QED
          BY <1>1, <1>3, <2>2, <3>1, <3>3, <4>1 DEF IInv, InvRows, InvPlans, MirrorFollows
      <3> QED
        BY <3>2, <3>3
    <2> QED
      BY <1>2, <2>1, <2>2 DEF IInv, InvPlans, MirrorFollows
  <1> QED
    BY <1>6, <1>7, <1>8, <1>9 DEF IInv

\* What the reconcile of a comped account read is the plan, or the workspaces it writes
\* are recorded.
LEMMA MrUpdateStep ==
  ASSUME IInv, NEW p \in Procs, MrUpdate(p)
  PROVE  IInv'
  <1> DEFINE l == loc[p]
  <1> DEFINE reached == Reached(users, tenants, l.who)
  <1>1. /\ l.who \in Accounts /\ l.plan \in Plans
        /\ tenants' = Mirrored(tenants, reached, l.plan) /\ Finish(p)
        /\ missed' = IF l.plan = plan[l.who] THEN missed \ reached ELSE missed \cup reached
        /\ UNCHANGED <<plan, users, invites, ops, edited>>
    BY DEF MrUpdate, IInv, InvProcs, Held, Local
  <1>2. /\ tenants' \in [Tenants -> [status : TenantStatuses, plan : Plans]]
        /\ \A t \in Tenants : /\ tenants'[t].status = tenants[t].status
                              /\ tenants'[t].plan = IF t \in reached THEN l.plan ELSE tenants[t].plan
    <2> HIDE DEF l, reached
    <2> QED
      BY <1>1, MirroredOK DEF IInv, InvRows
  <1>3. reached \subseteq Tenants /\ \A t \in reached : \E u \in Owners(t) : users[u].email = l.who
    BY DEF Reached, Owners, Members
  <1> HIDE DEF reached, l
  <1>4. InvProcs' /\ InvLocks'
    <2>1. \A q \in Procs : Held(tenants', users', invites', pc[q], loc[q])
      BY <1>1, <1>2, KeptOK, LockedOpen
    <2> QED
      BY <1>1, <2>1, FinishOK
  <1>5. InvRows'
    <2>1. missed' \subseteq Tenants
      BY <1>1, <1>3 DEF IInv, InvRows
    <2> QED
      BY <1>1, <1>2, <2>1 DEF IInv, InvRows, RowOK
  <1>6. InvInvites'
    BY <1>1, <1>2 DEF IInv, InvInvites, InviteOK, AcceptedIsMember, Members
  <1>7. InvPlans'
    <2>1. \A t \in Tenants : Owners(t)' = Owners(t)
      BY <1>1 DEF Owners, Members
    <2>2. ASSUME NEW t \in Tenants \ (missed' \cup edited'), NEW u \in Owners(t)
          PROVE  tenants'[t].plan = plan[users[u].email]
      <3>1. CASE t \in reached
        <4>1. l.plan = plan[l.who]
          BY <1>1, <2>2, <3>1
        <4>2. users[u].email = l.who
          BY <1>1, <1>3, <2>2, <3>1 DEF IInv, InvPlans
        <4> QED
          BY <1>2, <3>1, <4>1, <4>2
      <3>2. CASE t \notin reached
        <4>1. t \notin missed \cup edited
          BY <1>1, <2>2, <3>2
        <4> QED
          BY <1>2, <2>2, <3>2, <4>1 DEF IInv, InvPlans, MirrorFollows
      <3> QED
        BY <3>1, <3>2
    <2> QED
      BY <1>1, <2>1, <2>2 DEF IInv, InvPlans, MirrorFollows
  <1> QED
    BY <1>4, <1>5, <1>6, <1>7 DEF IInv

\* A new role counts the workspace as edited; a new is_active changes no owner.
LEMMA RoleWritten ==
  ASSUME IInv, NEW u \in Users, NEW r \in Roles, NEW on \in BOOLEAN,
         users[u].email # NoAccount, users' = [users EXCEPT ![u].role = r, ![u].active = on],
         \/ r = users[u].role /\ edited' = edited
         \/ edited' = edited \cup ({users[u].tenant} \cap Tenants),
         UNCHANGED <<plan, tenants, invites, missed>>, ops' \in Nat
  PROVE  /\ InvRows' /\ InvInvites' /\ InvPlans'
         /\ \A q \in Procs : Held(tenants', users', invites', pc[q], loc[q])
  <1>1. /\ users' \in [Users -> User]
        /\ \A v \in Users : /\ users'[v].email = users[v].email /\ users'[v].tenant = users[v].tenant
                            /\ v # u => users'[v] = users[v]
        /\ users'[u].role = r
    BY DEF IInv, InvRows, User
  <1>2. InvRows'
    BY <1>1 DEF IInv, InvRows, RowOK, Roles
  <1>3. InvInvites'
    BY <1>1 DEF IInv, InvInvites, InviteOK, AcceptedIsMember, Members
  <1>4. InvPlans'
    <2>1. \A t \in Tenants \ edited' : Owners(t)' = Owners(t)
      BY <1>1 DEF Owners, Members, IInv, InvRows, User
    <2>2. edited \subseteq edited'
      OBVIOUS
    <2>3. \A t \in Tenants : \A v \in Owners(t) : v \in Users
      BY DEF Owners, Members
    <2> QED
      BY <1>1, <2>1, <2>2, <2>3 DEF IInv, InvPlans, MirrorFollows
  <1>5. \A q \in Procs : Held(tenants', users', invites', pc[q], loc[q])
    <2>1. \A v \in Users : users[v].role # "unborn" => users'[v].role # "unborn"
      BY <1>1 DEF Roles
    <2> QED
      BY <1>1, <2>1, KeptOK, LockedOpen
  <1> QED
    BY <1>2, <1>3, <1>4, <1>5

LEMMA EditUserStep ==
  ASSUME IInv, NEW u \in Users, EditUser(u)
  PROVE  IInv'
  <1>1. PICK r \in Roles, on \in BOOLEAN :
          /\ users' = [users EXCEPT ![u].role = r, ![u].active = on]
          /\ edited' = IF r = users[u].role THEN edited ELSE edited \cup ({users[u].tenant} \cap Tenants)
    BY DEF EditUser
  <1>2. /\ users[u].email # NoAccount /\ Operate /\ UNCHANGED <<plan, tenants, invites, missed>>
        /\ ops' \in Nat
    BY DEF EditUser, Operate, IInv, InvRows
  <1> QED
    BY <1>1, <1>2, RoleWritten, OperateOK DEF IInv

LEMMA UrUpdateStep ==
  ASSUME IInv, NEW p \in Procs, UrUpdate(p)
  PROVE  IInv'
  <1> DEFINE u == loc[p].user
             t == loc[p].tenant
  <1>0. /\ u \in Users /\ t \in Tenants /\ ops' \in Nat /\ Finish(p)
        /\ UNCHANGED <<plan, tenants, invites, missed>>
    BY DEF UrUpdate, IInv, InvRows, InvProcs, Held, Changing
  <1>1. CASE u \in Members(t)
    <2>1. PICK r \in Roles : users' = [users EXCEPT ![u].role = r]
      BY <1>1 DEF UrUpdate, Roles
    <2>2. users[u] \in User /\ users[u].tenant = t /\ users[u].email # NoAccount
      BY <1>0, <1>1, ConstantsOK DEF Members, IInv, InvRows, RowOK
    <2>3. users' = [users EXCEPT ![u].role = r, ![u].active = users[u].active]
      BY <1>0, <2>1, <2>2 DEF IInv, InvRows, User
    <2>4. edited' = edited \cup ({users[u].tenant} \cap Tenants)
      BY <1>0, <1>1, <2>2 DEF UrUpdate
    <2>5. users[u].active \in BOOLEAN
      BY <2>2 DEF User
    <2> HIDE DEF u, t
    <2> QED
      BY <1>0, <2>2, <2>3, <2>4, <2>5, RoleWritten, FinishOK DEF IInv
  <1>2. CASE u \notin Members(t)
    BY <1>0, <1>2, StopOK DEF UrUpdate
  <1> QED
    BY <1>1, <1>2

-----------------------------------------------------------------------------
(* Rows that go: a workspace is deleted, an account is purged.               *)

LEMMA DroppedOK ==
  ASSUME IInv, NEW gone \in SUBSET Users, users' = Deleted(gone),
         NEW dropped \in SUBSET Invites,
         invites' = [i \in Invites |-> IF i \in dropped THEN NoInvitation ELSE invites[i]],
         \A t \in Tenants : tenants[t].status # "unborn" => tenants'[t].status # "unborn",
         \A i \in Invites \ dropped : \A u \in Members(invites[i].tenant) :
           users[u].email = invites[i].email => u \notin gone,
         \A q \in Procs : pc[q] \in AcceptSteps => loc[q].invite \notin dropped
  PROVE  /\ users' \in [Users -> User] /\ \A u \in Users : RowOK(tenants', users'[u])
         /\ InvInvites'
         /\ \A t \in Tenants : Owners(t)' \subseteq Owners(t)
         /\ \A t \in Tenants : \A u \in Owners(t)' : u \in Users /\ u \notin gone /\ users'[u] = users[u]
         /\ \A q \in Procs : Held(tenants', users', invites', pc[q], loc[q])
  <1>1. \A u \in Users : users'[u] = IF u \in gone THEN NoRow("deleted") ELSE users[u]
    BY DEF Deleted
  <1>2. users' \in [Users -> User] /\ \A u \in Users : RowOK(tenants', users'[u])
    <2>1. NoRow("deleted") \in User
      BY DEF NoRow, User, Roles
    <2>2. RowOK(tenants', NoRow("deleted"))
      BY ConstantsOK DEF NoRow, RowOK
    <2>3. users' \in [Users -> User]
      BY <2>1 DEF Deleted, IInv, InvRows
    <2> QED
      BY <1>1, <2>2, <2>3 DEF IInv, InvRows, RowOK
  <1>3. InvInvites'
    <2>1. NoInvitation \in Invitation /\ NoInvitation.status = "none"
      BY DEF NoInvitation, Invitation, InviteStatuses
    <2>2. /\ invites' \in [Invites -> Invitation]
          /\ \A i \in Invites : invites'[i].status = "none" \/ (i \notin dropped /\ invites'[i] = invites[i])
      BY <2>1 DEF IInv, InvInvites
    <2>3. \A i \in Invites : InviteOK(tenants', invites'[i])
      BY <2>2 DEF IInv, InvInvites, InviteOK
    <2>4. AcceptedIsMember'
      <3> SUFFICES ASSUME NEW i \in Invites, invites'[i].status = "accepted"
                   PROVE  \E u \in Users : users'[u].tenant = invites'[i].tenant
                                           /\ users'[u].email = invites'[i].email
        BY DEF AcceptedIsMember, Members
      <3>1. i \notin dropped /\ invites'[i] = invites[i]
        BY <2>2
      <3>2. PICK u \in Members(invites[i].tenant) : users[u].email = invites[i].email
        BY <3>1 DEF IInv, InvInvites, AcceptedIsMember
      <3>3. u \in Users /\ users[u].tenant = invites[i].tenant /\ u \notin gone
        BY <3>1, <3>2 DEF Members
      <3> QED
        BY <1>1, <3>1, <3>2, <3>3
    <2> QED
      BY <2>2, <2>3, <2>4 DEF InvInvites
  <1>4. ASSUME NEW t \in Tenants, NEW u \in Owners(t)'
        PROVE  u \in Owners(t) /\ u \in Users /\ u \notin gone /\ users'[u] = users[u]
    <2>1. u \in Users /\ users'[u].tenant = t /\ users'[u].role = "owner"
      BY DEF Owners, Members
    <2>2. u \notin gone
      BY <1>1, <2>1 DEF NoRow
    <2> QED
      BY <1>1, <2>1, <2>2 DEF Owners, Members
  <1>5. \A q \in Procs : Held(tenants', users', invites', pc[q], loc[q])
    <2>1. \A u \in Users : users[u].role # "unborn" =>
           /\ users'[u].role # "unborn" /\ users'[u].email \in {users[u].email, NoAccount}
           /\ users'[u].tenant \in {users[u].tenant, NoTenant}
      BY <1>1 DEF NoRow
    <2>2. \A i \in Invites : invites'[i].status = "accepted" => invites'[i] = invites[i]
      BY DEF NoInvitation
    <2>3. \A q \in Procs : pc[q] \in AcceptSteps => Open(invites', loc[q])
      BY LockedOpen DEF Open
    <2> QED
      BY <2>1, <2>2, <2>3, KeptOK
  <1> QED
    BY <1>2, <1>3, <1>4, <1>5

LEMMA DeleteWorkspaceStep ==
  ASSUME IInv, NEW t \in Tenants, DeleteWorkspace(t)
  PROVE  IInv'
  <1> DEFINE gone == Members(t)
             dropped == {i \in Invites : invites[i].tenant = t}
  <1>1. /\ tenants' = [tenants EXCEPT ![t].status = "deleted"] /\ users' = Deleted(gone)
        /\ Operate /\ UNCHANGED <<plan, missed, edited>> /\ ~TenantLocked(t)
    BY DEF DeleteWorkspace
  <1>2. invites' = [i \in Invites |-> IF i \in dropped THEN NoInvitation ELSE invites[i]]
    BY DEF DeleteWorkspace, Dropped
  <1>3. /\ tenants' \in [Tenants -> [status : TenantStatuses, plan : Plans]]
        /\ \A s \in Tenants : /\ tenants'[s].plan = tenants[s].plan
                              /\ tenants[s].status # "unborn" => tenants'[s].status # "unborn"
    BY <1>1 DEF IInv, InvRows, TenantStatuses
  <1>4. gone \in SUBSET Users /\ dropped \in SUBSET Invites
    BY DEF Members
  <1>5. \A i \in Invites \ dropped : \A u \in Members(invites[i].tenant) :
          users[u].email = invites[i].email => u \notin gone
    BY DEF Members
  <1>6. \A q \in Procs : pc[q] \in AcceptSteps => loc[q].invite \notin dropped
    BY <1>1, LockedOpen DEF Open
  <1> HIDE DEF gone, dropped
  <1>7. /\ users' \in [Users -> User] /\ \A u \in Users : RowOK(tenants', users'[u])
        /\ InvInvites'
        /\ \A s \in Tenants : Owners(s)' \subseteq Owners(s)
        /\ \A s \in Tenants : \A u \in Owners(s)' : u \in Users /\ u \notin gone /\ users'[u] = users[u]
        /\ \A q \in Procs : Held(tenants', users', invites', pc[q], loc[q])
    BY <1>1, <1>2, <1>3, <1>4, <1>5, <1>6, DroppedOK
  <1>8. InvProcs' /\ InvLocks' /\ ops' \in Nat
    BY <1>1, <1>7, OperateOK
  <1>9. InvRows'
    BY <1>1, <1>3, <1>7, <1>8 DEF IInv, InvRows
  <1>10. InvPlans'
    BY <1>1, <1>3, <1>7 DEF IInv, InvPlans, MirrorFollows
  <1> QED
    BY <1>7, <1>8, <1>9, <1>10 DEF IInv

LEMMA PgTxnStep ==
  ASSUME IInv, NEW p \in Procs, PgTxn(p)
  PROVE  IInv'
  <1> DEFINE a == loc[p].who
             owned == loc[p].owned
             gone == Rows(a) \cup UNION {Members(t) : t \in owned}
             dropped == {i \in Invites : invites[i].email = a \/ invites[i].tenant \in owned}
  <1>1. /\ tenants' = [t \in Tenants |-> IF t \in owned THEN [tenants[t] EXCEPT !.status = "deleted"]
                                         ELSE tenants[t]]
        /\ users' = Deleted(gone) /\ plan' = [plan EXCEPT ![a] = Free]
        /\ Finish(p) /\ UNCHANGED <<ops, missed, edited>>
        /\ \A t \in owned : ~TenantLocked(t)
        /\ \A i \in Invites : invites[i].email = a => ~InviteLocked(i)
    BY DEF PgTxn
  <1>2. invites' = [i \in Invites |-> IF i \in dropped THEN NoInvitation ELSE invites[i]]
    BY DEF PgTxn, Dropped
  <1>3. /\ tenants' \in [Tenants -> [status : TenantStatuses, plan : Plans]]
        /\ \A s \in Tenants : /\ tenants'[s].plan = tenants[s].plan
                              /\ tenants[s].status # "unborn" => tenants'[s].status # "unborn"
    <2> HIDE DEF owned
    <2> QED
      BY <1>1 DEF IInv, InvRows, TenantStatuses
  <1>4. gone \in SUBSET Users /\ dropped \in SUBSET Invites
    BY DEF Rows, Members
  <1>5. \A i \in Invites \ dropped : \A u \in Members(invites[i].tenant) :
          users[u].email = invites[i].email => u \notin gone
    BY DEF Rows, Members
  <1>6. \A q \in Procs : pc[q] \in AcceptSteps => loc[q].invite \notin dropped
    BY <1>1, LockedOpen DEF Open
  <1>7. plan' \in [Accounts -> Plans] /\ \A b \in Accounts : b # a => plan'[b] = plan[b]
    BY <1>1, ConstantsOK DEF IInv, InvRows
  <1>8. \A u \in Users : u \notin gone => users[u].email # a
    BY DEF Rows
  <1> HIDE DEF gone, dropped, owned, a
  <1>9. /\ users' \in [Users -> User] /\ \A u \in Users : RowOK(tenants', users'[u])
        /\ InvInvites'
        /\ \A s \in Tenants : Owners(s)' \subseteq Owners(s)
        /\ \A s \in Tenants : \A u \in Owners(s)' : u \in Users /\ u \notin gone /\ users'[u] = users[u]
        /\ \A q \in Procs : Held(tenants', users', invites', pc[q], loc[q])
    BY <1>1, <1>2, <1>3, <1>4, <1>5, <1>6, DroppedOK
  <1>10. InvProcs' /\ InvLocks'
    BY <1>1, <1>9, FinishOK
  <1>11. InvRows'
    BY <1>1, <1>3, <1>7, <1>9 DEF IInv, InvRows
  <1>12. InvPlans'
    <2>1. ASSUME NEW t \in Tenants, NEW u \in Owners(t)'
          PROVE  users'[u].email \in Accounts \ {a}
      <3>1. u \in Users /\ u \in Owners(t) /\ u \notin gone /\ users'[u] = users[u]
        BY <1>9
      <3> QED
        BY <1>8, <3>1 DEF Owners, Members, IInv, InvRows, RowOK, User
    <2> QED
      BY <1>1, <1>3, <1>7, <1>9, <2>1 DEF IInv, InvPlans, MirrorFollows
  <1> QED
    BY <1>9, <1>10, <1>11, <1>12 DEF IInv

-----------------------------------------------------------------------------
(* Rows that come: a sign-up, a membership.                                 *)

\* A new row has a number no row had, so that whatever was said of a row stays true.
LEMMA InsertOK ==
  ASSUME IInv, NEW u \in Users, Fresh(u), NEW a \in Accounts, NEW t \in Tenants \cup {NoTenant},
         t \in Tenants => tenants[t].status # "unborn",
         users' = Inserted(u, Row(a, t, "user")), UNCHANGED <<plan, tenants, missed, edited>>,
         ops' \in Nat
  PROVE  /\ InvRows'
         /\ users[u].role = "unborn" /\ users'[u] = Row(a, t, "user")
         /\ \A v \in Users : v # u => users'[v] = users[v]
         /\ \A s \in Tenants : \A v \in Members(s) : v \in Users /\ v # u
         /\ InvPlans'
  <1>1. /\ users[u].role = "unborn" /\ users'[u] = Row(a, t, "user")
        /\ \A v \in Users : v # u => users'[v] = users[v]
    BY DEF Fresh, Inserted, IInv, InvRows
  <1>2. Row(a, t, "user") \in User
    BY DEF Row, User, Roles
  <1>3. RowOK(tenants, Row(a, t, "user"))
    BY ConstantsOK DEF Row, RowOK
  <1>4. InvRows'
    <2>1. users' \in [Users -> User]
      BY <1>2 DEF Inserted, IInv, InvRows
    <2> QED
      BY <1>1, <1>3, <2>1 DEF IInv, InvRows
  <1>5. \A s \in Tenants : \A v \in Members(s) : v \in Users /\ v # u
    BY <1>1, ConstantsOK DEF Members, IInv, InvRows, RowOK
  <1>6. InvPlans'
    <2>1. Row(a, t, "user").role # "owner"
      BY DEF Row
    <2>2. \A s \in Tenants : Owners(s)' = Owners(s)
      BY <1>1, <2>1 DEF Owners, Members
    <2>3. \A s \in Tenants : \A v \in Owners(s) : users'[v] = users[v]
      BY <1>1, <1>5 DEF Owners
    <2> QED
      BY <2>2, <2>3 DEF IInv, InvPlans, MirrorFollows
  <1> QED
    BY <1>1, <1>4, <1>5, <1>6

LEMMA SuInsertStep ==
  ASSUME IInv, NEW p \in Procs, SuInsert(p)
  PROVE  IInv'
  <1> DEFINE a == loc[p].who
  <1>1. PICK u \in Users : Fresh(u) /\ users' = Inserted(u, Row(a, NoTenant, "user"))
    BY DEF SuInsert
  <1>2. a \in Accounts /\ ops' \in Nat
    BY DEF SuInsert, IInv, InvRows, InvProcs, Held
  <1> HIDE DEF a
  <1>3. /\ InvRows'
        /\ users[u].role = "unborn" /\ \A v \in Users : v # u => users'[v] = users[v]
        /\ \A s \in Tenants : \A v \in Members(s) : v \in Users /\ v # u
        /\ InvPlans'
    BY <1>1, <1>2, ConstantsOK, InsertOK DEF SuInsert
  <1>4. InvInvites'
    <2>1. AcceptedIsMember'
      <3> SUFFICES ASSUME NEW i \in Invites, invites[i].status = "accepted"
                   PROVE  \E v \in Users : users'[v].tenant = invites[i].tenant
                                           /\ users'[v].email = invites[i].email
        BY DEF SuInsert, AcceptedIsMember, Members
      <3>1. PICK v \in Members(invites[i].tenant) : users[v].email = invites[i].email
        BY DEF IInv, InvInvites, AcceptedIsMember
      <3>2. invites[i].tenant \in Tenants
        BY DEF IInv, InvInvites, InviteOK
      <3>3. v \in Users /\ users'[v] = users[v] /\ users[v].tenant = invites[i].tenant
        BY <1>3, <3>1, <3>2 DEF Members
      <3> QED
        BY <3>1, <3>3
    <2> QED
      BY <2>1 DEF SuInsert, IInv, InvInvites, InviteOK
  <1>5. \A q \in Procs : Held(tenants', users', invites', pc[q], loc[q])
    <2>1. \A v \in Users : users[v].role # "unborn" => v # u
      BY <1>3
    <2>2. \A q \in Procs : pc[q] \in AcceptSteps => Open(invites', loc[q])
      BY LockedOpen DEF SuInsert
    <2> QED
      BY <1>3, <2>1, <2>2, KeptOK DEF SuInsert
  <1>6. InvProcs' /\ InvLocks'
    BY <1>5, FinishOK DEF SuInsert
  <1> QED
    BY <1>3, <1>4, <1>6 DEF IInv

LEMMA CiInsertStep ==
  ASSUME IInv, NEW p \in Procs, CiInsert(p)
  PROVE  IInv'
  <1> DEFINE t == loc[p].tenant
             a == loc[p].who
  <1>1. PICK i \in Invites : /\ invites[i] = NoInvitation
                             /\ invites' = [invites EXCEPT ![i] = Invited(t, a)]
    BY DEF CiInsert
  <1>2. /\ t \in Tenants /\ a \in Accounts /\ tenants[t].status # "unborn"
        /\ UNCHANGED <<plan, tenants, users, ops, missed, edited>> /\ Finish(p)
    BY DEF CiInsert, IInv, InvProcs, Held, Inviting
  <1> HIDE DEF t, a
  <1>3. /\ invites' \in [Invites -> Invitation]
        /\ \A j \in Invites : j # i => invites'[j] = invites[j]
        /\ invites'[i] = Invited(t, a) /\ invites'[i].status = "pending"
        /\ invites[i].status = "none" /\ InviteOK(tenants, invites'[i])
    <2>1. Invited(t, a) \in Invitation /\ Invited(t, a).status = "pending"
          /\ InviteOK(tenants, Invited(t, a))
      BY <1>2 DEF Invited, Invitation, InviteStatuses, InviteOK
    <2> QED
      BY <1>1, <2>1 DEF IInv, InvInvites, NoInvitation
  <1>4. InvInvites'
    BY <1>2, <1>3 DEF IInv, InvInvites, InviteOK, AcceptedIsMember, Members
  <1>5. InvRows' /\ InvPlans'
    BY <1>2 DEF IInv, InvRows, InvPlans, MirrorFollows, Owners, Members
  <1>6. \A q \in Procs : pc[q] \in AcceptSteps => Open(invites', loc[q])
    BY <1>3, LockedOpen DEF Open
  <1>7. InvProcs' /\ InvLocks'
    <2>1. \A q \in Procs : Held(tenants', users', invites', pc[q], loc[q])
      BY <1>2, <1>3, <1>6, KeptOK
    <2> QED
      BY <1>2, <2>1, FinishOK
  <1> QED
    BY <1>4, <1>5, <1>7 DEF IInv

\* The row locks are what makes the invitation still pending here, and nobody else's.
LEMMA AcJoinStep ==
  ASSUME IInv, NEW p \in Procs, AcJoin(p)
  PROVE  IInv'
  <1> DEFINE t == loc[p].tenant
             a == loc[p].who
             i == loc[p].invite
  <1>1. /\ pc[p] = "ac_join" /\ pc[p] \in AcceptSteps /\ Finish(p)
        /\ UNCHANGED <<plan, tenants, ops, missed, edited>> /\ ops' \in Nat
    BY DEF AcJoin, AcceptSteps, IInv, InvRows
  <1>2. /\ t \in Tenants /\ a \in Accounts /\ tenants[t].status # "unborn" /\ i \in Invites
        /\ invites[i].status \in {"pending", "expired"}
        /\ invites[i].tenant = t /\ invites[i].email = a
    BY <1>1 DEF IInv, InvProcs, Held, Open
  <1>3. CASE UNCHANGED <<users, invites>>
    BY <1>1, <1>3, StopOK
  <1>4. ASSUME \A u \in Rows(a) : users[u].tenant # t,
               NEW u \in Users, Fresh(u), users' = Inserted(u, Row(a, t, "user")),
               invites' = [invites EXCEPT ![i].status = "accepted"]
        PROVE  IInv'
    <2> HIDE DEF t, a, i
    <2>1. /\ InvRows'
          /\ users[u].role = "unborn" /\ users'[u] = Row(a, t, "user")
          /\ \A v \in Users : v # u => users'[v] = users[v]
          /\ \A s \in Tenants : \A v \in Members(s) : v \in Users /\ v # u
          /\ InvPlans'
      BY <1>1, <1>2, <1>4, InsertOK
    <2>2. /\ invites' \in [Invites -> Invitation]
          /\ \A j \in Invites : j # i => invites'[j] = invites[j]
          /\ invites'[i].status = "accepted" /\ invites'[i].tenant = t /\ invites'[i].email = a
      BY <1>2, <1>4 DEF IInv, InvInvites, Invitation, InviteStatuses
    <2>3. AcceptedIsMember'
      <3> SUFFICES ASSUME NEW j \in Invites, invites'[j].status = "accepted"
                   PROVE  \E v \in Users : users'[v].tenant = invites'[j].tenant
                                           /\ users'[v].email = invites'[j].email
        BY DEF AcceptedIsMember, Members
      <3>1. CASE j = i
        BY <2>1, <2>2, <3>1 DEF Row
      <3>2. CASE j # i
        <4>1. PICK v \in Members(invites[j].tenant) : users[v].email = invites[j].email
          BY <2>2, <3>2 DEF IInv, InvInvites, AcceptedIsMember
        <4>2. invites[j].tenant \in Tenants
          BY <2>2, <3>2 DEF IInv, InvInvites, InviteOK
        <4>3. v \in Users /\ users'[v] = users[v] /\ users[v].tenant = invites[j].tenant
          BY <2>1, <4>1, <4>2 DEF Members
        <4> QED
          BY <2>2, <3>2, <4>1, <4>3
      <3> QED
        BY <3>1, <3>2
    <2>4. InvInvites'
      BY <1>1, <1>2, <2>2, <2>3 DEF IInv, InvInvites, InviteOK
    <2>5. ASSUME NEW q \in Procs, q # p
          PROVE  Held(tenants', users', invites', pc[q], loc[q])
      <3>1. ASSUME pc[q] \in AcceptSteps PROVE Open(invites', loc[q])
        <4>1. Open(invites, loc[q]) /\ loc[q].invite # i
          BY <1>1, <1>2, <2>5, <3>1, LockedOpen DEF IInv, InvLocks, Open, t
        <4> QED
          BY <2>2, <4>1 DEF Open
      <3>2. ASSUME pc[q] \in Creating
            PROVE  /\ loc[q].user \in Users /\ Signed(users, loc[q]) /\ Signed(users', loc[q])
                   /\ users'[loc[q].user] = users[loc[q].user]
        BY <2>1, <3>2 DEF IInv, InvProcs, Held, Signed
      <3>3. ASSUME pc[q] = "cw_commit", loc[q].flag
            PROVE  Claimed(users', invites', loc[q])
        <4>1. pc[q] \in Creating /\ Claimed(users, invites, loc[q])
          BY <3>3 DEF IInv, InvProcs, Held, Creating
        <4>2. loc[q].who = a => users[loc[q].user].tenant # t
          BY <1>2, <1>4, <3>2, <4>1, ConstantsOK DEF Signed, Rows, IInv, InvRows, RowOK
        <4> QED
          BY <2>2, <3>2, <4>1, <4>2 DEF Claimed
      <3> QED
        BY <1>1, <3>1, <3>2, <3>3, StableOK
    <2>6. InvProcs' /\ InvLocks'
      BY <1>1, <2>5, FinishOK
    <2> QED
      BY <2>1, <2>4, <2>6 DEF IInv
  <1> QED
    BY <1>3, <1>4 DEF AcJoin

-----------------------------------------------------------------------------
(* A workspace is created: its owner row comes, or is the one claimed.      *)

\* The rows a creation changes become the owner of the new workspace, and no accepted
\* invitation depended on where they were.
MovedTo(us, t, a) ==
  \A v \in Users : \/ us[v] = users[v]
                   \/ /\ us[v].email = a /\ us[v].tenant = t /\ us[v].role = "owner"
                      /\ \/ users[v].role = "unborn"
                         \/ /\ users[v].email = a
                            /\ \A i \in Invites : invites[i].status = "accepted"
                                 => invites[i].email # a \/ invites[i].tenant # users[v].tenant

LEMMA OwnerRowOK ==
  ASSUME IInv, NEW p \in Procs, pc[p] = "cw_commit", NEW t \in Tenants,
         OwnerRow(loc[p], t, users')
  PROVE  users' \in [Users -> User] /\ MovedTo(users', t, loc[p].who)
  <1> DEFINE l == loc[p]
  <1>1. /\ l.who \in Accounts /\ l.user \in Users /\ Signed(users, l)
        /\ l.flag => Claimed(users, invites, l)
    BY DEF IInv, InvProcs, Held, Creating
  <1>2. CASE ~l.flag
    <2>1. PICK u \in Users : Fresh(u) /\ users' = Inserted(u, Row(l.who, t, "owner"))
      BY <1>2 DEF OwnerRow
    <2>2. Row(l.who, t, "owner") \in User
      BY <1>1 DEF Row, User, Roles
    <2>3. /\ users' \in [Users -> User] /\ users'[u] = Row(l.who, t, "owner")
          /\ \A v \in Users : v # u => users'[v] = users[v]
      BY <2>1, <2>2 DEF Inserted, IInv, InvRows
    <2>4. users[u].role = "unborn"
      BY <2>1 DEF Fresh
    <2> QED
      BY <2>3, <2>4 DEF MovedTo, Row
  <1>3. CASE l.flag /\ users[l.user].email = NoAccount
    BY <1>3 DEF OwnerRow, MovedTo, IInv, InvRows
  <1>4. CASE l.flag /\ users[l.user].email # NoAccount
    <2>1. users' = [users EXCEPT ![l.user].tenant = t, ![l.user].role = "owner"]
      BY <1>4 DEF OwnerRow
    <2>2. /\ users' \in [Users -> User]
          /\ users'[l.user].email = users[l.user].email /\ users'[l.user].tenant = t
          /\ users'[l.user].role = "owner"
          /\ \A v \in Users : v # l.user => users'[v] = users[v]
      <3>1. users' = [users EXCEPT ![l.user] = [[users[l.user] EXCEPT !.tenant = t] EXCEPT !.role = "owner"]]
        BY <1>1, <2>1 DEF IInv, InvRows
      <3>2. ASSUME NEW row \in User
            PROVE  LET new == [[row EXCEPT !.tenant = t] EXCEPT !.role = "owner"] IN
                   new \in User /\ new.email = row.email /\ new.tenant = t /\ new.role = "owner"
        BY DEF User, Roles
      <3> HIDE DEF l
      <3> QED
        BY <1>1, <3>1, <3>2 DEF IInv, InvRows
    <2>3. users[l.user].email = l.who
      BY <1>1, <1>4 DEF Signed
    <2> QED
      BY <1>1, <1>4, <2>2, <2>3 DEF MovedTo, Claimed
  <1> QED
    BY <1>2, <1>3, <1>4

LEMMA CwCommitStep ==
  ASSUME IInv, NEW p \in Procs, CwCommit(p)
  PROVE  IInv'
  <1> DEFINE l == loc[p]
             a == l.who
             created(t) == [tenants EXCEPT ![t] = [status |-> "active", plan |-> Free]]
  <1>1. PICK t \in Tenants :
          /\ tenants[t].status = "unborn" /\ OwnerRow(l, t, users')
          /\ tenants' = Mirrored(created(t), Reached(users', created(t), a), l.plan)
          /\ missed' = IF l.plan = plan[a] THEN (missed \cup {t}) \ Reached(users', created(t), a)
                       ELSE missed \cup Reached(users', created(t), a) \cup {t}
    BY DEF CwCommit
  <1> DEFINE reached == Reached(users', created(t), a)
  <1>2. /\ pc[p] = "cw_commit" /\ Finish(p) /\ UNCHANGED <<plan, invites, ops, edited>>
        /\ a \in Accounts /\ l.plan \in Plans
    BY DEF CwCommit, IInv, InvProcs, Held, Creating, Local
  <1>3. users' \in [Users -> User] /\ MovedTo(users', t, a)
    BY <1>1, <1>2, OwnerRowOK
  <1>4. reached \in SUBSET Tenants
        /\ \A s \in reached : \E u \in Owners(s)' : users'[u].email = a
    BY DEF Reached, Owners, Members
  <1>5. /\ created(t) \in [Tenants -> [status : TenantStatuses, plan : Plans]]
        /\ created(t)[t].status = "active"
        /\ \A s \in Tenants : s # t => created(t)[s] = tenants[s]
    BY ConstantsOK DEF IInv, InvRows, TenantStatuses
  <1>6. /\ tenants' = Mirrored(created(t), reached, l.plan)
        /\ missed' = IF l.plan = plan[a] THEN (missed \cup {t}) \ reached
                     ELSE missed \cup reached \cup {t}
    BY <1>1
  <1> HIDE DEF reached, created
  <1>7. /\ tenants' \in [Tenants -> [status : TenantStatuses, plan : Plans]]
        /\ tenants'[t].status = "active"
        /\ \A s \in Tenants : s # t => tenants'[s].status = tenants[s].status
        /\ \A s \in reached : tenants'[s].plan = l.plan
        /\ \A s \in Tenants : s # t /\ s \notin reached => tenants'[s].plan = tenants[s].plan
    <2>1. /\ Mirrored(created(t), reached, l.plan)
               \in [Tenants -> [status : TenantStatuses, plan : Plans]]
          /\ \A s \in Tenants :
               /\ Mirrored(created(t), reached, l.plan)[s].status = created(t)[s].status
               /\ Mirrored(created(t), reached, l.plan)[s].plan
                    = IF s \in reached THEN l.plan ELSE created(t)[s].plan
      BY <1>2, <1>5, MirroredOK
    <2> QED
      BY <1>4, <1>5, <1>6, <2>1
  <1> HIDE DEF l, a
  <1>8. Members(t) = {} /\ \A i \in Invites : invites[i].status # "none" => invites[i].tenant # t
    BY <1>1, MembersBorn DEF IInv, InvInvites, InviteOK
  <1>9. \A s \in Tenants : tenants[s].status # "unborn" => tenants'[s].status # "unborn"
    BY <1>7
  <1>10. InvRows'
    <2>1. missed' \subseteq Tenants
      BY <1>4, <1>6 DEF IInv, InvRows
    <2>2. ASSUME NEW v \in Users PROVE RowOK(tenants', users'[v])
      <3>1. CASE users'[v] = users[v]
        BY <1>9, <3>1 DEF IInv, InvRows, RowOK
      <3>2. CASE users'[v].email = a /\ users'[v].tenant = t /\ users'[v].role = "owner"
        BY <1>2, <1>7, <3>2, ConstantsOK DEF RowOK
      <3> QED
        BY <1>3, <3>1, <3>2 DEF MovedTo
    <2> QED
      BY <1>2, <1>3, <1>7, <2>1, <2>2 DEF IInv, InvRows
  <1>11. InvInvites'
    <2>1. AcceptedIsMember'
      <3> SUFFICES ASSUME NEW i \in Invites, invites[i].status = "accepted"
                   PROVE  \E v \in Users : users'[v].tenant = invites[i].tenant
                                           /\ users'[v].email = invites[i].email
        BY <1>2 DEF AcceptedIsMember, Members
      <3>1. PICK v \in Members(invites[i].tenant) : users[v].email = invites[i].email
        BY DEF IInv, InvInvites, AcceptedIsMember
      <3>2. v \in Users /\ users[v].tenant = invites[i].tenant /\ users[v].email \in Accounts
        BY <3>1 DEF Members, IInv, InvInvites, InviteOK
      <3>3. users[v].role # "unborn"
        BY <3>2, ConstantsOK DEF IInv, InvRows, RowOK
      <3>4. users'[v] = users[v]
        BY <1>3, <3>1, <3>2, <3>3 DEF MovedTo
      <3> QED
        BY <3>1, <3>2, <3>4
    <2> QED
      BY <1>2, <1>9, <2>1 DEF IInv, InvInvites, InviteOK
  <1>12. InvPlans'
    <2>1. ASSUME NEW u \in Owners(t)' PROVE u \in Users /\ users'[u].email = a
      BY <1>3, <1>8 DEF MovedTo, Owners, Members
    <2>2. ASSUME NEW s \in Tenants, s # t, NEW u \in Owners(s)'
          PROVE  u \in Owners(s) /\ u \in Users /\ users'[u] = users[u]
      BY <1>3, <2>2 DEF MovedTo, Owners, Members
    <2>3. ASSUME NEW s \in Tenants \ edited', NEW u \in Owners(s)', NEW v \in Owners(s)'
          PROVE  users'[u].email = users'[v].email
      BY <1>2, <2>1, <2>2, <2>3 DEF IInv, InvPlans
    <2>4. ASSUME NEW s \in Tenants \ (missed' \cup edited'), NEW u \in Owners(s)'
          PROVE  tenants'[s].plan = plan'[users'[u].email]
      <3>1. CASE s \in reached
        <4>1. users'[u].email = a
          BY <1>4, <2>3, <2>4, <3>1
        <4> QED
          BY <1>2, <1>6, <1>7, <2>4, <3>1, <4>1
      <3>2. CASE s \notin reached
        <4>1. s # t /\ s \notin missed \cup edited
          BY <1>2, <1>6, <2>4, <3>2
        <4> QED
          BY <1>2, <1>7, <2>2, <2>4, <3>2, <4>1 DEF IInv, InvPlans, MirrorFollows
      <3> QED
        BY <3>1, <3>2
    <2> QED
      BY <2>3, <2>4 DEF InvPlans, MirrorFollows
  <1>13. ASSUME NEW q \in Procs
         PROVE  Held(tenants', users', invites', pc[q], loc[q])
    <2>1. ASSUME pc[q] \in Creating
          PROVE  loc[q].user \in Users /\ Signed(users, loc[q])
      BY <2>1 DEF IInv, InvProcs, Held
    <2>2. ASSUME pc[q] \in Creating PROVE Signed(users', loc[q])
      BY <1>3, <2>1, <2>2 DEF Signed, MovedTo
    <2>3. ASSUME pc[q] = "cw_commit", loc[q].flag
          PROVE  Claimed(users', invites', loc[q])
      <3>1. pc[q] \in Creating /\ Claimed(users, invites, loc[q])
        BY <2>3 DEF IInv, InvProcs, Held, Creating
      <3>2. \/ users'[loc[q].user] = users[loc[q].user]
            \/ users'[loc[q].user].tenant = t
        BY <1>3, <2>1, <3>1 DEF MovedTo
      <3> QED
        BY <1>2, <1>8, <3>1, <3>2 DEF Claimed
    <2>4. pc[q] \in AcceptSteps => Open(invites', loc[q])
      BY <1>2, LockedOpen
    <2> QED
      BY <1>9, <2>2, <2>3, <2>4, StableOK
  <1>14. InvProcs' /\ InvLocks'
    BY <1>2, <1>13, FinishOK
  <1> QED
    BY <1>10, <1>11, <1>12, <1>14 DEF IInv

-----------------------------------------------------------------------------
(* The theorems.                                                            *)

LEMMA InitOK == Init => IInv
  <1> SUFFICES ASSUME Init PROVE IInv
    OBVIOUS
  <1>1. /\ NoRow("unborn") \in User /\ RowOK(tenants, NoRow("unborn"))
        /\ NoRow("unborn").tenant = NoTenant
    BY ConstantsOK DEF NoRow, User, RowOK
  <1>2. NoInvitation \in Invitation /\ NoInvitation.status = "none"
    BY DEF NoInvitation, Invitation, InviteStatuses
  <1>3. InvRows
    <2>1. \A u \in Users : users[u] = NoRow("unborn")
      BY DEF Init
    <2> QED
      BY <1>1, <2>1, ConstantsOK DEF Init, InvRows, TenantStatuses
  <1>4. InvInvites
    BY <1>2 DEF Init, InvInvites, InviteOK, AcceptedIsMember
  <1>5. InvProcs /\ InvLocks
    BY NoLocalOK DEF Init, InvProcs, InvLocks, Steps, Held, Creating, Inviting, Changing, AcceptSteps
  <1>6. InvPlans
    <2>1. \A t \in Tenants : Owners(t) = {}
      BY <1>1, ConstantsOK DEF Init, Owners, Members
    <2> QED
      BY <2>1 DEF InvPlans, MirrorFollows
  <1> QED
    BY <1>3, <1>4, <1>5, <1>6 DEF IInv

LEMMA NextOK == IInv /\ [Next]_vars => IInv'
  <1> SUFFICES ASSUME IInv, [Next]_vars PROVE IInv'
    OBVIOUS
  <1>1. ASSUME NEW a \in Accounts, SetAccountPlan(a) PROVE IInv'
    BY <1>1, SetAccountPlanStep
  <1>2. ASSUME NEW u \in Users, EditUser(u) PROVE IInv'
    BY <1>2, EditUserStep
  <1>3. ASSUME NEW t \in Tenants, SetTenantActive(t) \/ DeleteWorkspace(t) PROVE IInv'
    BY <1>3, SetTenantActiveStep, DeleteWorkspaceStep
  <1>4. ASSUME NEW i \in Invites, RevokeInvitation(i) \/ Expire(i) PROVE IInv'
    BY <1>4, RevokeInvitationStep, ExpireStep
  <1>5. ASSUME NEW p \in Procs, SignUp(p) \/ SuInsert(p) \/ Fail(p) \/ PurgeAccount(p) \/ PgTxn(p)
        PROVE  IInv'
    BY <1>5, SignUpStep, SuInsertStep, FailStep, PurgeAccountStep, PgTxnStep
  <1>6. ASSUME NEW p \in Procs,
               CreateWorkspace(p) \/ CwUsage(p) \/ CwTier(p) \/ CwSnapshot(p) \/ CwCommit(p)
        PROVE  IInv'
    BY <1>6, CreateWorkspaceStep, CountStep, CheckStep, CwSnapshotStep, CwCommitStep
  <1>7. ASSUME NEW p \in Procs,
               \/ CreateInvitation(p) \/ CiMember(p) \/ CiExisting(p) \/ CiPlan(p) \/ CiMembers(p)
               \/ CiPending(p) \/ CiInsert(p)
        PROVE  IInv'
    BY <1>7, CreateInvitationStep, CheckStep, CiPlanStep, CountStep, CiInsertStep
  <1>8. ASSUME NEW p \in Procs, AcceptInvitation(p) \/ AcUsage(p) \/ AcTier(p) \/ AcJoin(p)
        PROVE  IInv'
    BY <1>8, AcceptInvitationStep, CountStep, CheckStep, AcJoinStep
  <1>9. ASSUME NEW p \in Procs, UpdateUserRole(p) \/ UrOwners(p) \/ UrUpdate(p)
        PROVE  IInv'
    BY <1>9, UpdateUserRoleStep, CheckStep, UrUpdateStep
  <1>10. ASSUME NEW p \in Procs, ReconcileComped(p) \/ MrUpdate(p) PROVE IInv'
    BY <1>10, ReconcileCompedStep, MrUpdateStep
  <1>11. CASE UNCHANGED vars
    BY <1>11 DEF vars, IInv, InvRows, InvInvites, InvProcs, InvLocks, InvPlans, AcceptedIsMember,
       MirrorFollows, Members, Owners
  <1> QED
    BY <1>1, <1>2, <1>3, <1>4, <1>5, <1>6, <1>7, <1>8, <1>9, <1>10, <1>11 DEF Next

LEMMA Inductive == Spec => []IInv
  BY InitOK, NextOK, PTL DEF Spec

\* Every variable of Workspaces keeps its type: what a handler carries across its awaits
\* is a row, an account and a workspace the tables know (createWorkspace, accept, purge).
THEOREM TypeCorrect == Spec => []TypeOK
  BY Inductive, IInvImplies, PTL

\* Accepting, revoking, purging and deleting never leave an accepted invitation without
\* its member (joinWorkspace, purgeAccount, deleteWorkspace).
THEOREM AcceptedStayMembers == Spec => []AcceptedIsMember
  BY Inductive, IInvImplies, PTL

\* Outside the recorded exceptions a workspace shows its owner's plan, for any number of
\* accounts, workspaces and handlers, the mirror outside a transaction among them
\* (setAccountPlan, mirrorAccountToTenants, reconcileAccount).
THEOREM MirrorExact == Spec => []MirrorFollows
  BY Inductive, IInvImplies, PTL

\* A step changes an accepted or revoked invitation only by deleting it: the status guard
\* of the revocation and the row lock of the accepts exclude the rest.
LEMMA OutcomeStep ==
  ASSUME IInv, [Next]_vars, NEW i \in Invites, invites[i].status \in {"accepted", "revoked"}
  PROVE  invites'[i] \in {invites[i], NoInvitation}
  <1> DEFINE Kept == invites'[i] \in {invites[i], NoInvitation}
  <1>1. CASE UNCHANGED invites
    BY <1>1
  <1>2. ASSUME NEW j \in Invites, RevokeInvitation(j) \/ Expire(j) PROVE Kept
    <2>1. j # i /\ \E x : invites' = [invites EXCEPT ![j].status = x]
      BY <1>2 DEF RevokeInvitation, Expire
    <2> QED
      BY <2>1 DEF IInv, InvInvites
  <1>3. ASSUME NEW t \in Tenants, DeleteWorkspace(t) PROVE Kept
    BY <1>3 DEF DeleteWorkspace, Dropped
  <1>4. ASSUME NEW p \in Procs, PgTxn(p) PROVE Kept
    BY <1>4 DEF PgTxn, Dropped
  <1>5. ASSUME NEW p \in Procs, CiInsert(p) PROVE Kept
    <2>1. PICK j \in Invites : /\ invites[j] = NoInvitation
                               /\ invites' = [invites EXCEPT ![j] = Invited(loc[p].tenant, loc[p].who)]
      BY <1>5 DEF CiInsert
    <2>2. j # i
      BY <2>1 DEF NoInvitation
    <2> QED
      BY <2>1, <2>2 DEF IInv, InvInvites
  <1>6. ASSUME NEW p \in Procs, AcJoin(p) PROVE Kept
    <2>1. pc[p] \in AcceptSteps
      BY <1>6 DEF AcJoin, AcceptSteps
    <2>2. loc[p].invite # i
      BY <2>1, LockedOpen DEF Open
    <2> QED
      BY <1>6, <2>2 DEF AcJoin, IInv, InvInvites
  <1>7. CASE Next
    <2>1. ASSUME NEW a \in Accounts, SetAccountPlan(a) PROVE UNCHANGED invites
      BY <2>1 DEF SetAccountPlan
    <2>2. ASSUME NEW u \in Users, EditUser(u) PROVE UNCHANGED invites
      BY <2>2 DEF EditUser
    <2>3. ASSUME NEW t \in Tenants, SetTenantActive(t) PROVE UNCHANGED invites
      BY <2>3 DEF SetTenantActive
    <2>4. ASSUME NEW p \in Procs,
                 \/ SignUp(p) \/ SuInsert(p) \/ Fail(p) \/ CreateWorkspace(p) \/ CwUsage(p)
                 \/ CwTier(p) \/ CwSnapshot(p) \/ CwCommit(p) \/ ReconcileComped(p) \/ MrUpdate(p)
          PROVE  UNCHANGED invites
      BY <2>4 DEF SignUp, SuInsert, Fail, CreateWorkspace, CwUsage, CwTier, CwSnapshot, CwCommit,
         ReconcileComped, MrUpdate
    <2>5. ASSUME NEW p \in Procs,
                 \/ CreateInvitation(p) \/ CiMember(p) \/ CiExisting(p) \/ CiPlan(p)
                 \/ CiMembers(p) \/ CiPending(p)
          PROVE  UNCHANGED invites
      BY <2>5 DEF CreateInvitation, CiMember, CiExisting, CiPlan, CiMembers, CiPending
    <2>6. ASSUME NEW p \in Procs,
                 \/ AcceptInvitation(p) \/ AcUsage(p) \/ AcTier(p) \/ UpdateUserRole(p)
                 \/ UrOwners(p) \/ UrUpdate(p) \/ PurgeAccount(p)
          PROVE  UNCHANGED invites
      BY <2>6 DEF AcceptInvitation, AcUsage, AcTier, UpdateUserRole, UrOwners, UrUpdate,
         PurgeAccount
    <2> QED
      BY <1>1, <1>2, <1>3, <1>4, <1>5, <1>6, <1>7, <2>1, <2>2, <2>3, <2>4, <2>5, <2>6 DEF Next
  <1> QED
    BY <1>1, <1>7 DEF vars

\* However an accept races a revocation, a second accept or the expiry, the invitation has
\* one outcome (acceptInvitation, acceptInvitationExisting, revokeInvitation).
THEOREM OutcomesFinal == Spec => OneOutcome
  <1>1. IInv /\ [Next]_vars
          => [ \A i \in Invites : invites[i].status \in {"accepted", "revoked"}
                 => invites'[i] \in {invites[i], NoInvitation} ]_vars
    BY OutcomeStep
  <1> QED
    BY <1>1, Inductive, PTL DEF Spec, OneOutcome
=============================================================================
