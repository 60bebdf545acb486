------------------------------ MODULE Accounts ------------------------------
(***************************************************************************)
(* The credentials of one account (an e-mail): its users rows, one per     *)
(* workspace, which are to share one password hash; its device sessions;   *)
(* and its password-reset links.  A request is a process of Procs, each    *)
(* awaited query one atomic step of it, a transaction the step it commits. *)
(*                                                                         *)
(* A password is the number of the write that set it, so that "the same    *)
(* hash" is "the same number"; bcrypt only lets a request go on that knows *)
(* the hash it read.  Left out as data: names, devices, addresses, JWT     *)
(* contents, e-mail delivery, which workspace a row belongs to, and every  *)
(* refusal that changes no state.                                          *)
(***************************************************************************)
EXTENDS Integers

CONSTANTS
  Procs,            \* concurrently running requests
  Rows,             \* ids the users rows of the account may have
  Sids,             \* session ids randomBytes may give
  Links,            \* reset tokens randomBytes may give
  MaxOps,           \* bound: requests
  MaxFaults,        \* bound: failed queries
  NoLink

ASSUME ConstantsOK == MaxOps \in Nat /\ MaxFaults \in Nat /\ NoLink \notin Links

VARIABLES
  hash,             \* users.password_hash of each row
  sessions,         \* user_sessions: none, live (seen lately), idle or revoked
  links,            \* password_resets: none, pending, expired or used
  multi,            \* may the plan be signed in on several devices
  pc, loc,          \* per process: next query, and what it knows by then
  ops, faults,
  \* History, for the properties only:
  password,         \* number of the newest password
  by,               \* the password each session was opened with
  alone,            \* sign-ins and link requests with no rival since they began
  late,             \* requests under which the credentials were written
  crowded,          \* a session was added in a way the device gate does not see
  stale,            \* sessions that a write of the password left open
  split,            \* a row was added by a request that was late
  forked,           \* a link was added by a request with a rival
  uses              \* how often each link has set a password

history == <<password, by, alone, late, crowded, stale, split, forked, uses>>
vars == <<hash, sessions, links, multi, pc, loc, ops, faults, history>>

-----------------------------------------------------------------------------
Absent     == -1     \* no such row
NoPassword == 0      \* SQL NULL: an account made by social sign-in
Social     == -1     \* signed in without a password

RowExists(r) == hash[r] # Absent
Registered   == \E r \in Rows : RowExists(r)
Unrevoked    == {s \in Sids : sessions[s] \in {"live", "idle"}}
Live         == {s \in Sids : sessions[s] = "live"}
Pending      == {k \in Links : links[k] = "pending"}

Kinds == {"sign", "request", "other"}
Steps == {"idle", "insert_row", "join_row", "plan", "live", "revoke", "create", "change",
          "admin_update", "admin_delete", "invalidate", "insert_link", "reset", "revoke_all"}

\* What a request knows: the password it was let in with, whether to take over,
\* the plan's answer, its link, and where it goes once its row is there.
Local == [kind : Kinds, auth : Nat \cup {Social}, force : BOOLEAN, multi : BOOLEAN,
          link : Links \cup {NoLink}, next : {"idle", "plan", "create"}]
Knows(kind, auth) ==
  [kind |-> kind, auth |-> auth, force |-> FALSE, multi |-> FALSE, link |-> NoLink,
   next |-> "idle"]
NoLocal == Knows("other", Social)

TypeOK ==
  /\ hash \in [Rows -> Nat \cup {Absent}]
  /\ sessions \in [Sids -> {"none", "live", "idle", "revoked"}]
  /\ links \in [Links -> {"none", "pending", "expired", "used"}]
  /\ multi \in BOOLEAN
  /\ pc \in [Procs -> Steps] /\ loc \in [Procs -> Local]
  /\ ops \in Nat /\ faults \in Nat
  /\ password \in Nat /\ by \in [Sids -> Nat \cup {Social}]
  /\ alone \subseteq Procs /\ late \subseteq Procs
  /\ crowded \in BOOLEAN /\ stale \subseteq Sids
  /\ split \in BOOLEAN /\ forked \in BOOLEAN
  /\ uses \in [Links -> Nat]
  /\ \A q \in Procs : pc[q] = "reset" => loc[q].link \in Pending

\* A new e-mail, or an account with some workspaces.
Init ==
  /\ hash \in [Rows -> {Absent, 1}]
  /\ sessions = [s \in Sids |-> "none"] /\ links = [k \in Links |-> "none"]
  /\ multi = FALSE
  /\ pc = [q \in Procs |-> "idle"] /\ loc = [q \in Procs |-> NoLocal]
  /\ ops = 0 /\ faults = 0
  /\ password = 1 /\ by = [s \in Sids |-> Social]
  /\ alone = {} /\ late = {} /\ crowded = FALSE /\ stale = {}
  /\ split = FALSE /\ forked = FALSE /\ uses = [k \in Links |-> 0]

-----------------------------------------------------------------------------
(* Pieces shared by the requests.                                           *)

Ask == ops < MaxOps /\ ops' = ops + 1

Rivals(q, kind) == {r \in Procs \ {q} : pc[r] # "idle" /\ loc[r].kind = kind}

Begin(q, step, l) ==
  /\ pc[q] = "idle" /\ Ask
  /\ pc' = [pc EXCEPT ![q] = step] /\ loc' = [loc EXCEPT ![q] = l]
  /\ alone' = (alone \ Rivals(q, l.kind))
              \cup (IF l.kind # "other" /\ Rivals(q, l.kind) = {} THEN {q} ELSE {})
  /\ late' = IF l.auth \in {password, Social} THEN late ELSE late \cup {q}
  /\ UNCHANGED <<hash, sessions, links, multi, faults, password, by, crowded, stale,
                 split, forked, uses>>

Goto(q, step, l) ==
  /\ pc' = [pc EXCEPT ![q] = step] /\ loc' = [loc EXCEPT ![q] = l]
  /\ UNCHANGED <<ops, faults, alone>>

Return(q) ==
  /\ pc' = [pc EXCEPT ![q] = "idle"] /\ loc' = [loc EXCEPT ![q] = NoLocal]
  /\ alone' = alone \ {q}
  /\ UNCHANGED <<ops, faults>>

Leave(q, step) == IF step = "idle" THEN Return(q) ELSE Goto(q, step, loc[q])

\* The other running requests now work on credentials that have changed.
Others(q) == {r \in Procs \ {q} : pc[r] # "idle"}

NoRowChange     == UNCHANGED <<hash, password, split>>
NoSessionChange == UNCHANGED <<sessions, by, crowded, stale>>
NoLinkChange    == UNCHANGED <<links, forked, uses>>

\* Mutant: only the row the request came from is written.
MutSetPassword(q) ==
  /\ password' = password + 1
  /\ \E r \in Rows : hash' = [hash EXCEPT ![r] = IF RowExists(r) THEN password + 1 ELSE @]
  /\ split' = FALSE
  /\ late' = (late \cup Others(q)) \ {q}

\* UPDATE users SET password_hash WHERE email: every row of the account.  Sessions
\* stay as they are.
SetPassword(q) ==
  /\ password' = password + 1
  /\ hash' = [r \in Rows |-> IF RowExists(r) THEN password + 1 ELSE Absent]
  /\ split' = FALSE
  /\ late' = (late \cup Others(q)) \ {q}

\* revokeSessionsForEmail, and the admin's DELETE FROM user_sessions.
RevokeSessionsForEmail ==
  /\ sessions' = [s \in Sids |-> IF s \in Unrevoked THEN "revoked" ELSE sessions[s]]
  /\ crowded' = FALSE /\ stale' = {}
  /\ UNCHANGED by

-----------------------------------------------------------------------------
(* The device gate (startSession).                                          *)

\* userLogin: the password is the one on the row the LIMIT 1 picked.
UserLogin(q) ==
  \E r \in Rows, force \in BOOLEAN :
    /\ RowExists(r) /\ hash[r] # NoPassword
    /\ Begin(q, "plan", [Knows("sign", hash[r]) EXCEPT !.force = force])

\* oauthLogin: an account that is not there is made.
OauthLogin(q) ==
  \E force \in BOOLEAN :
    Begin(q, IF Registered THEN "plan" ELSE "insert_row",
          [Knows("sign", Social) EXCEPT !.force = force, !.next = "plan"])

\* The admin panel's "open in dashboard".
EnterWorkspace(q) == Registered /\ Begin(q, "plan", Knows("sign", Social))

\* allowsMultiDevice
GatePlan(q) ==
  /\ pc[q] = "plan"
  /\ Goto(q, IF multi THEN "create" ELSE IF loc[q].force THEN "revoke" ELSE "live",
          [loc[q] EXCEPT !.multi = multi])
  /\ NoRowChange /\ NoSessionChange /\ NoLinkChange /\ UNCHANGED <<multi, late>>

GateLive(q) ==
  /\ pc[q] = "live"
  /\ Leave(q, IF Live # {} THEN "idle" ELSE "revoke")
  /\ NoRowChange /\ NoSessionChange /\ NoLinkChange /\ UNCHANGED <<multi, late>>

\* Mutant: only abandoned sessions are cleared, also on a takeover.
MutGateRevoke(q) ==
  /\ pc[q] = "revoke"
  /\ sessions' = [s \in Sids |-> IF sessions[s] = "idle" THEN "revoked" ELSE sessions[s]]
  /\ crowded' = FALSE /\ stale' = {} /\ UNCHANGED by
  /\ Goto(q, "create", loc[q])
  /\ NoRowChange /\ NoLinkChange /\ UNCHANGED <<multi, late>>

GateRevoke(q) ==
  /\ pc[q] = "revoke"
  /\ RevokeSessionsForEmail
  /\ Goto(q, "create", loc[q])
  /\ NoRowChange /\ NoLinkChange /\ UNCHANGED <<multi, late>>

CreateSession(q) ==
  /\ pc[q] = "create"
  /\ \E s \in Sids :
       /\ sessions[s] = "none"
       /\ sessions' = [sessions EXCEPT ![s] = "live"]
       /\ by' = [by EXCEPT ![s] = loc[q].auth]
       /\ stale' = IF q \in late THEN stale \cup {s} ELSE stale
  /\ crowded' = (crowded \/ q \notin alone \/ loc[q].multi \/ ~Registered)
  /\ Return(q)
  /\ NoRowChange /\ NoLinkChange /\ late' = late \ {q} /\ UNCHANGED multi

-----------------------------------------------------------------------------
(* Rows: register, provision, accept an invitation, join, lose a workspace. *)

\* registerNewUser; acceptInvitationAsNewUser signs in without asking the gate.
RegisterNewUser(q) == ~Registered /\ Begin(q, "insert_row", NoLocal)
AcceptAsNewUser(q) ==
  ~Registered /\ Begin(q, "insert_row", [Knows("sign", Social) EXCEPT !.next = "create"])

\* The first row of the account, with the password that came with the request;
\* oauthLogin's has none.
InsertRow(q) ==
  /\ pc[q] = "insert_row"
  /\ LET new == IF loc[q].next = "plan" THEN NoPassword ELSE password + 1 IN
     /\ \E r \in Rows : ~RowExists(r) /\ hash' = [hash EXCEPT ![r] = new]
     /\ password' = IF new = NoPassword THEN password ELSE new
     /\ Leave(q, loc[q].next)
     /\ UNCHANGED <<sessions, by, crowded>>
  /\ split' = (split \/ Registered)
  /\ late' = late \cup Others(q)
  /\ stale' = stale \cup Unrevoked
  /\ NoLinkChange /\ UNCHANGED multi

\* createWorkspace and acceptInvitationAsExistingUser clone the row they read.
AddMembership(q) ==
  \E r \in Rows : RowExists(r) /\ Begin(q, "join_row", Knows("other", hash[r]))

JoinRow(q) ==
  /\ pc[q] = "join_row"
  /\ \E r \in Rows : ~RowExists(r) /\ hash' = [hash EXCEPT ![r] = loc[q].auth]
  /\ split' = (split \/ q \in late)
  /\ late' = late \ {q}
  /\ Return(q)
  /\ NoSessionChange /\ NoLinkChange /\ UNCHANGED <<multi, password>>

-----------------------------------------------------------------------------
(* Passwords: change, the admin's reset, the e-mailed link.                 *)

\* changeUserPassword and resetUserPassword read a row first.
ChangeUserPassword(q) == Registered /\ Begin(q, "change", NoLocal)
AdminResetPassword(q) == Registered /\ Begin(q, "admin_update", NoLocal)

UpdatePassword(q) ==
  /\ pc[q] = "change"
  /\ SetPassword(q)
  /\ stale' = stale \cup Unrevoked
  /\ Return(q)
  /\ NoLinkChange /\ UNCHANGED <<sessions, by, crowded, multi>>

AdminUpdate(q) ==
  /\ pc[q] = "admin_update"
  /\ SetPassword(q)
  /\ Goto(q, "admin_delete", loc[q])
  /\ NoSessionChange /\ NoLinkChange /\ UNCHANGED multi

\* Mutant: the sessions stay open.
MutEndSessions(q) ==
  /\ pc[q] \in {"admin_delete", "revoke_all"}
  /\ Return(q)
  /\ NoSessionChange /\ NoRowChange /\ NoLinkChange /\ UNCHANGED <<multi, late>>

EndSessions(q) ==
  /\ pc[q] \in {"admin_delete", "revoke_all"}
  /\ RevokeSessionsForEmail
  /\ Return(q)
  /\ NoRowChange /\ NoLinkChange /\ UNCHANGED <<multi, late>>

\* SELECT ... FOR UPDATE holds the link until its transaction ends.
Locked(k) == \E q \in Procs : pc[q] = "reset" /\ loc[q].link = k

RequestPasswordReset(q) == Registered /\ Begin(q, "invalidate", Knows("request", Social))

\* Mutant: earlier links stay.
MutInvalidateLinks(q) ==
  /\ pc[q] = "invalidate"
  /\ forked' = FALSE /\ Goto(q, "insert_link", loc[q])
  /\ NoRowChange /\ NoSessionChange /\ UNCHANGED <<multi, late, links, uses>>

\* Any earlier pending link is invalidated; the UPDATE waits for one being used.
InvalidateLinks(q) ==
  /\ pc[q] = "invalidate" /\ \A k \in Pending : ~Locked(k)
  /\ links' = [k \in Links |-> IF links[k] \in {"pending", "expired"} THEN "used" ELSE links[k]]
  /\ forked' = FALSE
  /\ Goto(q, "insert_link", loc[q])
  /\ NoRowChange /\ NoSessionChange /\ UNCHANGED <<multi, late, uses>>

InsertLink(q) ==
  /\ pc[q] = "insert_link"
  /\ \E k \in Links : links[k] = "none" /\ links' = [links EXCEPT ![k] = "pending"]
  /\ forked' = (forked \/ q \notin alone)
  /\ Return(q)
  /\ NoRowChange /\ NoSessionChange /\ late' = late \ {q} /\ UNCHANGED <<multi, uses>>

\* Mutant: the row is read without FOR UPDATE.
MutResetPassword(q) ==
  \E k \in Pending : Begin(q, "reset", [NoLocal EXCEPT !.link = k])

ResetPassword(q) ==
  \E k \in Pending : ~Locked(k) /\ Begin(q, "reset", [NoLocal EXCEPT !.link = k])

CommitReset(q) ==
  /\ pc[q] = "reset"
  /\ SetPassword(q)
  /\ links' = [links EXCEPT ![loc[q].link] = "used"]
  /\ uses' = [uses EXCEPT ![loc[q].link] = @ + 1]
  /\ Goto(q, "revoke_all", NoLocal)
  /\ NoSessionChange /\ UNCHANGED <<multi, forked>>

\* A query throws.  A transaction rolls back; what was committed stays, and so do the
\* sessions a reset could not revoke.
Fail(q) ==
  /\ pc[q] # "idle" /\ faults < MaxFaults
  /\ faults' = faults + 1
  /\ pc' = [pc EXCEPT ![q] = "idle"] /\ loc' = [loc EXCEPT ![q] = NoLocal]
  /\ alone' = alone \ {q} /\ late' = late \ {q}
  /\ stale' = IF pc[q] \in {"admin_delete", "revoke_all"} THEN stale \cup Unrevoked ELSE stale
  /\ NoRowChange /\ NoLinkChange /\ UNCHANGED <<sessions, by, crowded, multi, ops>>

-----------------------------------------------------------------------------
(* What takes one query, and the passing of time.                           *)

Single == UNCHANGED <<pc, loc, faults, alone>>

\* POST /logout
RevokeSession ==
  /\ \E s \in Unrevoked : sessions' = [sessions EXCEPT ![s] = "revoked"]
  /\ NoRowChange /\ NoLinkChange
  /\ Single /\ UNCHANGED <<ops, multi, late, by, crowded, stale>>

\* authenticateToken lets a session in unless it is revoked, and touches it.
AuthenticateToken ==
  /\ Registered
  /\ \E s \in Sids : sessions[s] = "idle" /\ sessions' = [sessions EXCEPT ![s] = "live"]
  /\ NoRowChange /\ NoLinkChange
  /\ Single /\ UNCHANGED <<ops, multi, late, by, crowded, stale>>

\* IDLE_MINUTES without a request.
BecomeIdle ==
  /\ \E s \in Live : sessions' = [sessions EXCEPT ![s] = "idle"]
  /\ NoRowChange /\ NoLinkChange
  /\ Single /\ UNCHANGED <<ops, multi, late, by, crowded, stale>>

\* RESET_TTL_MINUTES; a transaction that has read the link goes on.
ExpireLink ==
  /\ \E k \in Pending : ~Locked(k) /\ links' = [links EXCEPT ![k] = "expired"]
  /\ NoRowChange /\ NoSessionChange
  /\ Single /\ UNCHANGED <<ops, multi, late, forked, uses>>

\* The account's plan changes (see PaddleBilling, Workspaces).
ChangePlan ==
  /\ Ask /\ multi' = ~multi
  /\ NoRowChange /\ NoSessionChange /\ NoLinkChange
  /\ Single /\ UNCHANGED late

\* A workspace is deleted and its users rows with it; the sessions stay.
LoseWorkspace ==
  /\ Ask
  /\ \E r \in Rows :
       /\ RowExists(r) /\ hash' = [hash EXCEPT ![r] = Absent]
       /\ crowded' = (crowded \/ \A t \in Rows \ {r} : ~RowExists(t))
  /\ NoLinkChange
  /\ Single /\ UNCHANGED <<multi, late, password, split, sessions, by, stale>>

\* purgeAccount: rows, sessions and links of the e-mail, in one transaction.
PurgeAccount ==
  /\ Ask /\ Registered /\ \A k \in Links : ~Locked(k)
  /\ hash' = [r \in Rows |-> Absent] /\ split' = FALSE
  /\ RevokeSessionsForEmail
  /\ links' = [k \in Links |-> IF links[k] = "none" THEN "none" ELSE "used"]
  /\ forked' = FALSE
  /\ late' = late \cup {r \in Procs : pc[r] # "idle"}
  /\ Single /\ UNCHANGED <<multi, password, uses>>

-----------------------------------------------------------------------------
Request(q) ==
  \/ UserLogin(q) \/ OauthLogin(q) \/ EnterWorkspace(q)
  \/ RegisterNewUser(q) \/ AcceptAsNewUser(q) \/ AddMembership(q)
  \/ ChangeUserPassword(q) \/ AdminResetPassword(q)
  \/ RequestPasswordReset(q) \/ ResetPassword(q)

Step(q) ==
  \/ GatePlan(q) \/ GateLive(q) \/ GateRevoke(q) \/ CreateSession(q)
  \/ InsertRow(q) \/ JoinRow(q) \/ UpdatePassword(q) \/ AdminUpdate(q) \/ EndSessions(q)
  \/ InvalidateLinks(q) \/ InsertLink(q) \/ CommitReset(q)

Next ==
  \/ \E q \in Procs : Request(q) \/ Step(q) \/ Fail(q)
  \/ RevokeSession \/ AuthenticateToken \/ BecomeIdle \/ ExpireLink
  \/ ChangePlan \/ LoseWorkspace \/ PurgeAccount

Spec == Init /\ [][Next]_vars

-----------------------------------------------------------------------------
(* Properties.                                                              *)

\* "At most one session is ever live for an account on those plans" (sessions.js): no
\* two sessions are usable, whatever logins, takeovers, resets and timeouts came before,
\* unless one was opened on a plan that allows several, by one of two sign-ins at once,
\* or for an account that has no row (left).
SingleDevice == ~crowded => \A s, t \in Unrevoked : s = t

\* "A completed reset revokes every device session" (passwordReset.js), and so does the
\* admin's: once the reset has returned, no session opened with an earlier password is
\* usable, unless its login was under way, the revocation failed, or the password was
\* changed by its owner, who stays signed in.
ResetEndsSessions ==
  (\A q \in Procs : pc[q] \notin {"admin_delete", "revoke_all"})
    => \A s \in Unrevoked \ stale : by[s] \in {password, Social}

\* "One users row per workspace, all sharing one password_hash" (changeUserPassword.js):
\* unless a row was added with a hash read before the last write of the password, or by
\* one of two first sign-ups at once.
PasswordShared ==
  ~split => \A r, t \in Rows : RowExists(r) /\ RowExists(t) => hash[r] = hash[t]

\* "Only the newest link works" (passwordReset.js): two requests at once excepted.
NewestLinkOnly == ~forked => \A j, k \in Pending : j = k

\* "Two submits of the same link can't both succeed" (passwordReset.js).
LinkSingleUse == \A k \in Links : uses[k] <= 1
=============================================================================
