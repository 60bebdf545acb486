------------------------------- MODULE Admins -------------------------------
(***************************************************************************)
(* Who may enter the admin console.  The role is a flag on users rows      *)
(* (is_platform_admin), granted and revoked by e-mail (manageAdmins.js),   *)
(* asked for by e-mail at the door and at every request (adminLogin.js,    *)
(* authenticateAdmin.js): one flagged, active row is enough.  Meanwhile    *)
(* the rows come and go: an account has one per workspace, those added     *)
(* later are not flagged, and a workspace takes its members' rows along.   *)
(*                                                                         *)
(* Module Workspaces has the handlers that make and delete rows in full;   *)
(* here sign-up, creation and accept are one step each.                    *)
(***************************************************************************)
EXTENDS Integers, FiniteSets

CONSTANTS
  People,          \* e-mail addresses
  Operator,        \* the one scripts/create-admin.js was run for
  NoPerson,
  Boards, NoBoard, \* tenants.id values that may be allocated
  MaxRows,         \* bound: users rows in a behaviour; their ids are AUTO_INCREMENT
  AdminProcs,      \* requests that can be at work at once
  MaxAdminOps      \* bound: requests

ASSUME AdminConstants ==
  /\ Operator \in People /\ NoPerson \notin People /\ NoBoard \notin Boards
  /\ MaxRows \in Nat \ {0} /\ MaxAdminOps \in Nat

VARIABLES
  people,          \* users: [live ids -> rows]
  lastRow,         \* AUTO_INCREMENT
  boards,          \* tenants
  apc, aloc,       \* each request's step and what it holds
  adminOps,        \* requests begun
  \* history
  granted,         \* accounts given the role and not deprived of it
  regained,        \* purges whose account was given the role after their check
  mishaps          \* ways the role was lost that no guard is there for

adminVars == <<people, lastRow, boards, apc, aloc, adminOps, granted, regained, mishaps>>

RowIds == 1..MaxRows
Person == [email : People, board : Boards \cup {NoBoard}, owner : BOOLEAN,
           flag : BOOLEAN, active : BOOLEAN]
NoAdminLoc == [actor |-> NoPerson, who |-> NoPerson, row |-> 0, board |-> NoBoard,
               owned |-> {}, on |-> FALSE]

AdminTypeOK ==
  /\ DOMAIN people \subseteq 1..lastRow /\ lastRow \in RowIds
  /\ people \in [DOMAIN people -> Person]
  /\ \A r \in DOMAIN people : people[r].board # NoBoard => boards[people[r].board] = "live"
  /\ boards \in [Boards -> {"unborn", "live", "gone"}]
  /\ apc \in [AdminProcs -> {"idle", "find", "insert", "email", "set", "edit", "drop_board",
                             "purge_email", "purge_check", "purge_rows", "purge_txn"}]
  /\ aloc \in [AdminProcs -> [actor : People \cup {NoPerson}, who : People \cup {NoPerson},
                              row : 0..MaxRows, board : Boards \cup {NoBoard},
                              owned : SUBSET Boards, on : BOOLEAN]]
  /\ granted \subseteq People /\ regained \subseteq AdminProcs
  /\ mishaps \subseteq {"crossed", "deactivated", "cascaded", "raced"}

AdminInit ==
  /\ people = [r \in {1} |-> [email |-> Operator, board |-> NoBoard, owner |-> FALSE,
                              flag |-> TRUE, active |-> TRUE]]
  /\ lastRow = 1 /\ boards = [b \in Boards |-> "unborn"]
  /\ apc = [q \in AdminProcs |-> "idle"] /\ aloc = [q \in AdminProcs |-> NoAdminLoc]
  /\ adminOps = 0 /\ granted = {Operator} /\ regained = {} /\ mishaps = {}

-----------------------------------------------------------------------------
RowsOf(e)   == {r \in DOMAIN people : people[r].email = e}
Flagged(e)  == \E r \in RowsOf(e) : people[r].flag
IsAdmin(e)  == \E r \in RowsOf(e) : people[r].flag /\ people[r].active

AdminStep(q, step, l) == apc' = [apc EXCEPT ![q] = step] /\ aloc' = [aloc EXCEPT ![q] = l]
AdminDone(q) == AdminStep(q, "idle", NoAdminLoc)
AdminBegin(q, step, l) ==
  /\ apc[q] = "idle" /\ adminOps < MaxAdminOps /\ adminOps' = adminOps + 1
  /\ AdminStep(q, step, l) /\ UNCHANGED regained

RowsUnchanged == UNCHANGED <<people, lastRow, boards, granted, mishaps>>

Insert(row) ==
  /\ lastRow < MaxRows /\ lastRow' = lastRow + 1
  /\ people' = [r \in DOMAIN people \cup {lastRow'} |-> IF r = lastRow' THEN row ELSE people[r]]

\* Who made the request is left an administrator by what happens to the rows of e.
Spared(q, e) == IsAdmin(aloc[q].actor) /\ e # aloc[q].actor

\* The account of a purge past its check is given the role.
Regained(e) ==
  {q \in AdminProcs : apc[q] \in {"purge_rows", "purge_txn"} /\ aloc[q].who = e}

\* The rows of S go.  A mishap is a flagged row of another account, unless it is not that of
\* the administrator who asked, and one of a purged account that had none when checked.
Erase(q, S) ==
  LET lost == {people[r].email : r \in {s \in S : people[s].flag}}
      who  == aloc[q].who IN
  /\ people' = [r \in DOMAIN people \ S |-> people[r]]
  /\ mishaps' = mishaps
       \cup (IF \E e \in lost \ {who} : ~Spared(q, e) THEN {"cascaded"} ELSE {})
       \cup (IF who \in lost /\ q \in regained THEN {"raced"} ELSE {})

-----------------------------------------------------------------------------
(* Rows come: registration, createWorkspace, an invitation accepted.        *)

SignUp(e) ==
  /\ RowsOf(e) = {} /\ adminOps < MaxAdminOps /\ adminOps' = adminOps + 1
  /\ Insert([email |-> e, board |-> NoBoard, owner |-> FALSE, flag |-> FALSE, active |-> TRUE])
  /\ UNCHANGED <<boards, apc, aloc, granted, regained, mishaps>>

\* A row without a workspace becomes the owner's, flag and all; otherwise a row is added
\* from some columns of this one, the flag not among them.
CreateBoard(r, b) ==
  /\ people[r].active /\ boards[b] = "unborn"
  /\ adminOps < MaxAdminOps /\ adminOps' = adminOps + 1
  /\ boards' = [boards EXCEPT ![b] = "live"]
  /\ IF people[r].board = NoBoard
     THEN /\ people' = [people EXCEPT ![r].board = b, ![r].owner = TRUE]
          /\ UNCHANGED lastRow
     ELSE Insert([people[r] EXCEPT !.board = b, !.owner = TRUE, !.flag = FALSE])
  /\ UNCHANGED <<apc, aloc, granted, regained, mishaps>>

\* joinWorkspace adds a row in any case, unless the account has one there.
JoinBoard(e, b) ==
  /\ boards[b] = "live" /\ \A r \in RowsOf(e) : people[r].board # b
  /\ adminOps < MaxAdminOps /\ adminOps' = adminOps + 1
  /\ Insert([email |-> e, board |-> b, owner |-> FALSE, flag |-> FALSE, active |-> TRUE])
  /\ UNCHANGED <<boards, apc, aloc, granted, regained, mishaps>>

-----------------------------------------------------------------------------
(* Requests of the console: authenticateAdmin lets them in, then they run.  *)

CreateAdmin(q) ==
  \E a, e \in People :
    /\ IsAdmin(a)
    /\ AdminBegin(q, "find", [NoAdminLoc EXCEPT !.actor = a, !.who = e, !.on = TRUE])
    /\ RowsUnchanged

\* A pending row for a new person (after the hash), the flag for a known one.
FindAdmin(q) ==
  LET l == aloc[q] IN
  /\ apc[q] = "find"
  /\ IF RowsOf(l.who) = {} THEN AdminStep(q, "insert", l)
     ELSE IF Flagged(l.who) THEN AdminDone(q) ELSE AdminStep(q, "set", l)
  /\ UNCHANGED <<adminOps, regained>> /\ RowsUnchanged

InsertAdmin(q) ==
  LET e == aloc[q].who IN
  /\ apc[q] = "insert"
  /\ Insert([email |-> e, board |-> NoBoard, owner |-> FALSE, flag |-> TRUE, active |-> TRUE])
  /\ granted' = granted \cup {e} /\ regained' = regained \cup Regained(e)
  /\ AdminDone(q) /\ UNCHANGED <<boards, adminOps, mishaps>>

\* setAdminActive, to grant or revoke, and deleteAdmin, which revokes.
SetAdminActive(q) ==
  \E a \in People, r \in DOMAIN people, on \in BOOLEAN :
    /\ IsAdmin(a)
    /\ AdminBegin(q, "email", [NoAdminLoc EXCEPT !.actor = a, !.row = r, !.on = on])
    /\ RowsUnchanged

\* "cannot_modify_self".
EmailForId(q) ==
  LET l == aloc[q] IN
  /\ apc[q] = "email"
  /\ IF l.row \notin DOMAIN people \/ (people[l.row].email = l.actor /\ ~l.on) THEN AdminDone(q)
     ELSE AdminStep(q, "set", [l EXCEPT !.who = people[l.row].email])
  /\ UNCHANGED <<adminOps, regained>> /\ RowsUnchanged

\* By e-mail, on all rows there are now.  An admin who lost the role since the request
\* was let in still decides: two can revoke each other.
SetFlag(q) ==
  LET l == aloc[q] IN
  /\ apc[q] = "set"
  /\ people' = [r \in DOMAIN people |->
                  IF r \in RowsOf(l.who) THEN [people[r] EXCEPT !.flag = l.on] ELSE people[r]]
  /\ granted' = IF ~l.on THEN granted \ {l.who}
                ELSE IF RowsOf(l.who) = {} THEN granted ELSE granted \cup {l.who}
  /\ regained' = IF l.on THEN regained \cup Regained(l.who) ELSE regained
  /\ mishaps' = IF ~l.on /\ ~IsAdmin(l.actor) THEN mishaps \cup {"crossed"} ELSE mishaps
  /\ AdminDone(q) /\ UNCHANGED <<lastRow, boards, adminOps>>

\* updateUser: is_active of one row.  The admin's own is not refused, as revoking it is.
EditPerson(q) ==
  \E a \in People, r \in DOMAIN people, on \in BOOLEAN :
    /\ IsAdmin(a)
    /\ AdminBegin(q, "edit", [NoAdminLoc EXCEPT !.actor = a, !.row = r, !.on = on])
    /\ RowsUnchanged

WriteActive(q) ==
  LET l == aloc[q] IN
  /\ apc[q] = "edit"
  /\ IF l.row \notin DOMAIN people THEN UNCHANGED <<people, mishaps>>
     ELSE /\ people' = [people EXCEPT ![l.row].active = l.on]
          /\ mishaps' = IF people[l.row].flag /\ ~l.on /\ ~Spared(q, people[l.row].email)
                        THEN mishaps \cup {"deactivated"} ELSE mishaps
  /\ AdminDone(q) /\ UNCHANGED <<lastRow, boards, adminOps, granted, regained>>

DeleteBoard(q) ==
  \E a \in People, b \in Boards :
    /\ IsAdmin(a) /\ boards[b] = "live"
    /\ AdminBegin(q, "drop_board", [NoAdminLoc EXCEPT !.actor = a, !.board = b])
    /\ RowsUnchanged

\* fk_users_tenant: ON DELETE CASCADE.
DropBoard(q) ==
  LET b == aloc[q].board IN
  /\ apc[q] = "drop_board"
  /\ boards' = [boards EXCEPT ![b] = "gone"]
  /\ Erase(q, {r \in DOMAIN people : people[r].board = b})
  /\ AdminDone(q) /\ UNCHANGED <<lastRow, adminOps, granted, regained>>

-----------------------------------------------------------------------------
(* Accounts go: deleteUser of the console, deleteAccount of the user.       *)

DeleteUser(q) ==
  \E a \in People, r \in DOMAIN people :
    /\ IsAdmin(a)
    /\ AdminBegin(q, "purge_email", [NoAdminLoc EXCEPT !.actor = a, !.row = r])
    /\ RowsUnchanged

EmailOfUserId(q) ==
  LET l == aloc[q] IN
  /\ apc[q] = "purge_email"
  /\ IF l.row \notin DOMAIN people THEN AdminDone(q)
     ELSE AdminStep(q, "purge_check", [l EXCEPT !.who = people[l.row].email])
  /\ UNCHANGED <<adminOps, regained>> /\ RowsUnchanged

DeleteAccount(q) ==
  \E e \in People :
    /\ \E r \in RowsOf(e) : people[r].active
    /\ AdminBegin(q, "purge_check", [NoAdminLoc EXCEPT !.who = e])
    /\ RowsUnchanged

\* Mutant: an administrator's account is purged as any other.
MutPurgeCheck(q) ==
  /\ apc[q] = "purge_check" /\ AdminStep(q, "purge_rows", aloc[q])
  /\ regained' = regained \ {q} /\ UNCHANGED adminOps /\ RowsUnchanged

\* isPlatformAdminEmail.
PurgeCheck(q) ==
  /\ apc[q] = "purge_check"
  /\ IF Flagged(aloc[q].who) THEN AdminDone(q) ELSE AdminStep(q, "purge_rows", aloc[q])
  /\ regained' = regained \ {q} /\ UNCHANGED adminOps /\ RowsUnchanged

\* Then the subscription is cancelled, with a call to the provider.
PurgeRows(q) ==
  LET l == aloc[q] IN
  /\ apc[q] = "purge_rows"
  /\ IF RowsOf(l.who) = {} THEN AdminDone(q)
     ELSE AdminStep(q, "purge_txn", [l EXCEPT !.owned =
            {people[r].board : r \in {s \in RowsOf(l.who) : people[s].owner}} \cap Boards])
  /\ UNCHANGED <<adminOps, regained>> /\ RowsUnchanged

PurgeTxn(q) ==
  LET l == aloc[q] IN
  /\ apc[q] = "purge_txn"
  /\ boards' = [b \in Boards |-> IF b \in l.owned THEN "gone" ELSE boards[b]]
  /\ Erase(q, RowsOf(l.who) \cup {r \in DOMAIN people : people[r].board \in l.owned})
  /\ granted' = granted \ {l.who}
  /\ AdminDone(q) /\ UNCHANGED <<lastRow, adminOps, regained>>

AdminFail(q) ==
  /\ apc[q] # "idle"
  /\ AdminDone(q) /\ UNCHANGED <<adminOps, regained>> /\ RowsUnchanged

AdminNext ==
  \/ \E e \in People : SignUp(e) \/ \E b \in Boards : JoinBoard(e, b)
  \/ \E r \in DOMAIN people, b \in Boards : CreateBoard(r, b)
  \/ \E q \in AdminProcs :
       \/ CreateAdmin(q) \/ FindAdmin(q) \/ InsertAdmin(q)
       \/ SetAdminActive(q) \/ EmailForId(q) \/ SetFlag(q)
       \/ EditPerson(q) \/ WriteActive(q) \/ DeleteBoard(q) \/ DropBoard(q)
       \/ DeleteUser(q) \/ EmailOfUserId(q) \/ DeleteAccount(q)
       \/ PurgeCheck(q) \/ PurgeRows(q) \/ PurgeTxn(q) \/ AdminFail(q)

AdminSpec == AdminInit /\ [][AdminNext]_adminVars

-----------------------------------------------------------------------------
(* Properties.                                                              *)

\* The console is never left without anyone who can enter: whatever is revoked, deactivated
\* or deleted, at the same time and by whom, does not take the role from the last one
\* ("cannot_modify_self"; "would lock every admin out with no way back in", adminUsers.js;
\* an administrator's account is not purged, accountDeletion.js).  The code has no guard
\* for four things, which are excepted: an admin who lost the role since the request was
\* let in revokes, deactivates or deletes; an admin's own row is deactivated by that admin,
\* or goes with a workspace that admin deletes; a member's account takes along a workspace
\* with an admin's row in it; an account is given the role after its purge checked for it.
AdminRemains == mishaps # {} \/ \E e \in People : IsAdmin(e)

\* The role is "keyed by email across the account's rows" (schema.sql, users): an account
\* that was given it and not deprived of it has it as long as the account exists.
AdminKept == \A e \in granted : RowsOf(e) # {} => Flagged(e)
=============================================================================
