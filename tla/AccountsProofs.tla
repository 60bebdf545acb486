--------------------------- MODULE AccountsProofs ---------------------------
(***************************************************************************)
(* The credentials of an account: one device, no session that survives a   *)
(* reset, one password for all rows, links that work once, for any number  *)
(* of requests, rows, sessions and links.                                  *)
(***************************************************************************)
EXTENDS Accounts, TLAPS

\* Requests about passwords and links know no password.
Knowing == {"join_row", "plan", "live", "revoke", "create"}

\* A request without a rival is at work on something, and nobody else on the same.
AcAlone ==
  \A q \in alone : /\ pc[q] # "idle" /\ loc[q].kind # "other"
                   /\ \A r \in Procs \ {q} : pc[r] # "idle" => loc[r].kind # loc[q].kind

AcKinds ==
  \A q \in Procs :
    /\ pc[q] \in {"plan", "live", "revoke", "create"} => loc[q].kind = "sign"
    /\ pc[q] \in {"invalidate", "insert_link"} => loc[q].kind = "request"
    /\ pc[q] = "insert_row" /\ loc[q].next # "idle" => loc[q].kind = "sign"
    /\ pc[q] = "reset" => loc[q].kind = "other"

\* The password a request was let in with is the newest one, or the request is late.
AcAuth ==
  \A q \in Procs : /\ q \notin late => loc[q].auth \in {password, Social}
                   /\ pc[q] \notin Knowing => loc[q].auth = Social
                   /\ pc[q] = "join_row" => loc[q].auth \in Nat

\* One session at most is open, none while an account is without rows, and none when a
\* sign-in that the gate let through adds its own.
AcDevice ==
  ~crowded => /\ \A s, t \in Unrevoked : s = t
              /\ ~Registered => Unrevoked = {}
              /\ \A q \in alone :
                   \/ pc[q] = "create" /\ ~loc[q].multi
                   \/ pc[q] = "insert_row" /\ loc[q].next = "create"
                   => Unrevoked = {}

AcReset == ResetEndsSessions

\* The rows agree, and so does the hash of a row that will be added in time.
AcRows ==
  ~split => /\ \A r, t \in Rows : RowExists(r) /\ RowExists(t) => hash[r] = hash[t]
            /\ \A q \in Procs \ late : pc[q] = "join_row" =>
                 \A r \in Rows : RowExists(r) => hash[r] = loc[q].auth

\* One link at most works, none when a request without a rival adds one; a link that is
\* being used is used by one transaction and was not used before.
AcLinks ==
  /\ ~forked => /\ \A j, k \in Pending : j = k
                /\ \A q \in alone : pc[q] = "insert_link" => Pending = {}
  /\ \A k \in Links : uses[k] <= 1 /\ (uses[k] = 1 => links[k] = "used")
  /\ \A q, r \in Procs : pc[q] = "reset" /\ pc[r] = "reset" /\ loc[q].link = loc[r].link
                           => q = r

AcInv == TypeOK /\ AcAlone /\ AcKinds /\ AcAuth /\ AcDevice /\ AcReset /\ AcRows /\ AcLinks

-----------------------------------------------------------------------------
\* What a request that is not at work knows.
LEMMA NoLocalFacts ==
  /\ NoLocal \in Local /\ NoLocal.kind = "other" /\ NoLocal.auth = Social
  /\ ~NoLocal.multi /\ NoLocal.next = "idle" /\ NoLocal.link = NoLink
BY DEF NoLocal, Knows, Local, Kinds, Social

\* What a request is given to begin with.
LEMMA KnowsFacts ==
  ASSUME NEW kind \in Kinds, NEW auth \in Nat \cup {Social}
  PROVE  /\ Knows(kind, auth) \in Local /\ Knows(kind, auth).kind = kind
         /\ Knows(kind, auth).auth = auth /\ Knows(kind, auth).next = "idle"
BY DEF Knows, Local

\* An account with some rows or none, no session and no link.
LEMMA InitHolds == Init => AcInv
<1> SUFFICES ASSUME Init PROVE AcInv
  OBVIOUS
<1>1. TypeOK
  <2>1. {Absent, 1} \subseteq Nat \cup {Absent} /\ Social \in Nat \cup {Social}
    OBVIOUS
  <2>2. hash \in [Rows -> Nat \cup {Absent}] /\ by \in [Sids -> Nat \cup {Social}]
    BY <2>1 DEF Init
  <2>3. /\ pc \in [Procs -> Steps] /\ loc \in [Procs -> Local]
        /\ \A q \in Procs : pc[q] # "reset"
    BY NoLocalFacts DEF Init, Steps
  <2>4. /\ sessions \in [Sids -> {"none", "live", "idle", "revoked"}]
        /\ links \in [Links -> {"none", "pending", "expired", "used"}]
        /\ uses \in [Links -> Nat]
    BY DEF Init
  <2> QED BY <2>2, <2>3, <2>4 DEF Init, TypeOK
<1>2. Unrevoked = {} /\ Pending = {}
  BY DEF Init, Unrevoked, Pending
<1>3. AcAlone /\ AcKinds /\ AcAuth
  BY NoLocalFacts DEF Init, AcAlone, AcKinds, AcAuth, Knowing
<1>4. AcDevice /\ AcReset
  BY <1>2 DEF Init, AcDevice, AcReset, ResetEndsSessions
<1>5. AcRows
  BY DEF Init, AcRows, RowExists
<1>6. AcLinks
  BY <1>2 DEF Init, AcLinks
<1> QED BY <1>1, <1>3, <1>4, <1>5, <1>6 DEF AcInv

-----------------------------------------------------------------------------
\* A request begins.  It may have rivals, who are alone no more; it holds no hash but the
\* rows', no link but a free one, and signs up only for an account without rows.
LEMMA BeginKeeps ==
  ASSUME AcInv, NEW q \in Procs, NEW l \in Local,
         NEW step \in {"insert_row", "join_row", "plan", "change", "admin_update",
                       "invalidate", "reset"},
         step = "plan" => l.kind = "sign",
         step = "invalidate" => l.kind = "request",
         step = "insert_row" /\ l.next # "idle" => l.kind = "sign",
         step = "reset" => l.kind = "other",
         step \notin Knowing => l.auth = Social,
         step = "insert_row" /\ l.next = "create" => ~Registered,
         step = "join_row" => \E r \in Rows : RowExists(r) /\ l.auth = hash[r],
         step = "reset" => l.link \in Pending /\ ~Locked(l.link),
         Begin(q, step, l)
  PROVE  AcInv'
<1> DEFINE rivals == Rivals(q, l.kind)
           single == l.kind # "other" /\ rivals = {}
<1>1. /\ pc[q] = "idle" /\ ops' = ops + 1
      /\ pc' = [pc EXCEPT ![q] = step] /\ loc' = [loc EXCEPT ![q] = l]
      /\ alone' = (alone \ rivals) \cup (IF single THEN {q} ELSE {})
      /\ late' = IF l.auth \in {password, Social} THEN late ELSE late \cup {q}
      /\ UNCHANGED <<hash, sessions, links, multi, faults, password, by, crowded, stale,
                     split, forked, uses>>
  BY DEF Begin, Ask
<1>2. /\ pc \in [Procs -> Steps] /\ loc \in [Procs -> Local] /\ alone \subseteq Procs
      /\ late \subseteq Procs /\ ops \in Nat /\ step \in Steps
  BY DEF AcInv, TypeOK, Steps
<1>3. /\ pc' \in [Procs -> Steps] /\ loc' \in [Procs -> Local]
      /\ pc'[q] = step /\ loc'[q] = l
      /\ \A r \in Procs \ {q} : pc'[r] = pc[r] /\ loc'[r] = loc[r]
  BY <1>1, <1>2
<1>4. \A r \in Procs \ {q} : r \in rivals <=> pc[r] # "idle" /\ loc[r].kind = l.kind
  BY DEF Rivals
<1>5. q \notin alone /\ rivals \subseteq Procs \ {q}
  BY <1>1 DEF AcInv, AcAlone, Rivals
<1> HIDE DEF rivals
<1>6. /\ alone' \subseteq Procs /\ alone' \ {q} = alone \ rivals
      /\ q \in alone' => single
  BY <1>1, <1>2, <1>5
<1>7. Unrevoked' = Unrevoked /\ Pending' = Pending /\ (Registered' <=> Registered)
      /\ \A r : RowExists(r)' <=> RowExists(r)
  BY <1>1 DEF Unrevoked, Pending, Registered, RowExists
<1>8. TypeOK'
  <2>1. late' \subseteq Procs /\ ops' \in Nat
    BY <1>1, <1>2
  <2>2. \A r \in Procs : pc'[r] = "reset" => loc'[r].link \in Pending'
    BY <1>3, <1>7 DEF AcInv, TypeOK
  <2> QED BY <1>1, <1>3, <1>6, <2>1, <2>2 DEF AcInv, TypeOK
<1>9. AcAlone'
  <2>1. ASSUME NEW a \in alone'
        PROVE  /\ pc'[a] # "idle" /\ loc'[a].kind # "other"
               /\ \A r \in Procs \ {a} : pc'[r] # "idle" => loc'[r].kind # loc'[a].kind
    <3>1. CASE a = q
      BY <1>3, <1>4, <1>6, <3>1
    <3>2. CASE a # q
      <4>1. a \in alone /\ a \notin rivals /\ a \in Procs
        BY <1>2, <1>6, <3>2
      <4>2. /\ pc[a] # "idle" /\ loc[a].kind # "other"
            /\ \A r \in Procs \ {a} : pc[r] # "idle" => loc[r].kind # loc[a].kind
        BY <4>1 DEF AcInv, AcAlone
      <4> QED BY <1>3, <1>4, <3>2, <4>1, <4>2
    <3> QED BY <3>1, <3>2
  <2> QED BY <2>1 DEF AcAlone
<1>10. AcKinds'
  BY <1>3 DEF AcInv, AcKinds
<1>11. AcAuth'
  <2>1. step = "join_row" => l.auth \in Nat
    <3>1. \A r \in Rows : RowExists(r) => hash[r] \in Nat
      BY DEF AcInv, TypeOK, RowExists
    <3> QED BY <3>1
  <2>2. ASSUME NEW r \in Procs \ {q}
        PROVE  /\ r \notin late' => loc'[r].auth \in {password, Social}
               /\ pc'[r] \notin Knowing => loc'[r].auth = Social
               /\ pc'[r] = "join_row" => loc'[r].auth \in Nat
    BY <1>1, <1>3 DEF AcInv, AcAuth
  <2>3. q \notin late' => l.auth \in {password, Social}
    BY <1>1, <1>2
  <2> QED BY <1>1, <1>3, <2>1, <2>2, <2>3 DEF AcAuth
<1>12. AcDevice'
  <2>1. ASSUME ~crowded, NEW a \in alone',
               \/ pc'[a] = "create" /\ ~loc'[a].multi
               \/ pc'[a] = "insert_row" /\ loc'[a].next = "create"
        PROVE  Unrevoked = {}
    <3>1. CASE a = q
      BY <1>3, <2>1, <3>1 DEF AcInv, AcDevice
    <3>2. CASE a # q
      BY <1>2, <1>3, <1>6, <2>1, <3>2 DEF AcInv, AcDevice
    <3> QED BY <3>1, <3>2
  <2> QED BY <1>1, <1>7, <2>1 DEF AcInv, AcDevice
<1>13. AcReset'
  <2>1. \A r \in Procs : pc'[r] \in {"admin_delete", "revoke_all"}
                           <=> pc[r] \in {"admin_delete", "revoke_all"}
    BY <1>1, <1>3
  <2> QED BY <1>1, <1>7, <2>1 DEF AcInv, AcReset, ResetEndsSessions
<1>14. AcRows'
  <2>1. ASSUME ~split, NEW a \in Procs \ late', pc'[a] = "join_row", NEW r \in Rows, RowExists(r)
        PROVE  hash[r] = loc'[a].auth
    <3>1. CASE a = q
      BY <1>3, <2>1, <3>1 DEF AcInv, AcRows
    <3>2. CASE a # q
      BY <1>1, <1>3, <2>1, <3>2 DEF AcInv, AcRows
    <3> QED BY <3>1, <3>2
  <2> QED BY <1>1, <1>7, <2>1 DEF AcInv, AcRows
<1>15. AcLinks'
  <2>1. ASSUME NEW a \in Procs, NEW b \in Procs, pc'[a] = "reset", pc'[b] = "reset",
               loc'[a].link = loc'[b].link
        PROVE  a = b
    BY <1>3, <2>1 DEF AcInv, AcLinks, Locked
  <2>2. \A a \in alone' : pc'[a] = "insert_link" => a \in alone /\ pc[a] = "insert_link"
    BY <1>2, <1>3, <1>6
  <2> QED BY <1>1, <1>7, <2>1, <2>2 DEF AcInv, AcLinks
<1> QED BY <1>8, <1>9, <1>10, <1>11, <1>12, <1>13, <1>14, <1>15 DEF AcInv
\* The ten ways a request begins.
LEMMA RequestKeeps ==
  ASSUME AcInv, NEW q \in Procs, Request(q)
  PROVE  AcInv'
<1>1. \A r \in Rows : RowExists(r) => hash[r] \in Nat
  BY DEF AcInv, TypeOK, RowExists
<1>2. "sign" \in Kinds /\ "request" \in Kinds /\ "other" \in Kinds /\ Social \in Nat \cup {Social}
  BY DEF Kinds
<1>3. CASE UserLogin(q)
  <2>1. PICK r \in Rows, force \in BOOLEAN :
          RowExists(r) /\ Begin(q, "plan", [Knows("sign", hash[r]) EXCEPT !.force = force])
    BY <1>3 DEF UserLogin
  <2> DEFINE l == [Knows("sign", hash[r]) EXCEPT !.force = force]
  <2>2. l \in Local /\ l.kind = "sign"
    BY <1>1, <1>2, <2>1 DEF Knows, Local
  <2> HIDE DEF l
  <2>3. Begin(q, "plan", l)
    BY <2>1 DEF l
  <2> QED BY <2>2, <2>3, BeginKeeps DEF Knowing
<1>4. CASE OauthLogin(q)
  <2>1. PICK force \in BOOLEAN :
          Begin(q, IF Registered THEN "plan" ELSE "insert_row",
                [Knows("sign", Social) EXCEPT !.force = force, !.next = "plan"])
    BY <1>4 DEF OauthLogin
  <2> DEFINE l    == [Knows("sign", Social) EXCEPT !.force = force, !.next = "plan"]
             step == IF Registered THEN "plan" ELSE "insert_row"
  <2>2. l \in Local /\ l.kind = "sign" /\ l.auth = Social /\ l.next = "plan"
    BY <1>2, <2>1 DEF Knows, Local
  <2>3. step \in {"plan", "insert_row"}
    OBVIOUS
  <2> HIDE DEF l, step
  <2>4. Begin(q, step, l)
    BY <2>1 DEF l, step
  <2> QED BY <2>2, <2>3, <2>4, BeginKeeps
<1>5. CASE EnterWorkspace(q)
  <2>1. Knows("sign", Social) \in Local /\ Knows("sign", Social).kind = "sign"
    BY <1>2, KnowsFacts
  <2>2. Begin(q, "plan", Knows("sign", Social))
    BY <1>5 DEF EnterWorkspace
  <2> QED BY <2>1, <2>2, BeginKeeps DEF Knowing
<1>6. CASE RegisterNewUser(q)
  BY <1>6, NoLocalFacts, BeginKeeps DEF RegisterNewUser
<1>7. CASE AcceptAsNewUser(q)
  <2> DEFINE l == [Knows("sign", Social) EXCEPT !.next = "create"]
  <2>1. l \in Local /\ l.kind = "sign" /\ l.auth = Social
    BY <1>2 DEF Knows, Local
  <2>2. Begin(q, "insert_row", l) /\ ~Registered
    BY <1>7 DEF AcceptAsNewUser
  <2> HIDE DEF l
  <2> QED BY <2>1, <2>2, BeginKeeps
<1>8. CASE AddMembership(q)
  <2>1. PICK r \in Rows : RowExists(r) /\ Begin(q, "join_row", Knows("other", hash[r]))
    BY <1>8 DEF AddMembership
  <2>2. Knows("other", hash[r]) \in Local /\ Knows("other", hash[r]).auth = hash[r]
    BY <1>1, <1>2, <2>1, KnowsFacts
  <2> QED BY <2>1, <2>2, BeginKeeps DEF Knowing
<1>9. CASE ChangeUserPassword(q) \/ AdminResetPassword(q)
  BY <1>9, NoLocalFacts, BeginKeeps DEF ChangeUserPassword, AdminResetPassword
<1>10. CASE RequestPasswordReset(q)
  <2>1. /\ Knows("request", Social) \in Local /\ Knows("request", Social).kind = "request"
        /\ Knows("request", Social).auth = Social
    BY <1>2, KnowsFacts
  <2>2. Begin(q, "invalidate", Knows("request", Social))
    BY <1>10 DEF RequestPasswordReset
  <2> QED BY <2>1, <2>2, BeginKeeps
<1>11. CASE ResetPassword(q)
  <2>1. PICK k \in Pending : ~Locked(k) /\ Begin(q, "reset", [NoLocal EXCEPT !.link = k])
    BY <1>11 DEF ResetPassword
  <2> DEFINE l == [NoLocal EXCEPT !.link = k]
  <2>2. l \in Local /\ l.kind = "other" /\ l.auth = Social /\ l.link = k
    BY <2>1 DEF NoLocal, Knows, Local, Kinds, Pending
  <2> HIDE DEF l
  <2>3. Begin(q, "reset", l)
    BY <2>1 DEF l
  <2> QED BY <2>1, <2>2, <2>3, BeginKeeps
<1> QED BY <1>3, <1>4, <1>5, <1>6, <1>7, <1>8, <1>9, <1>10, <1>11 DEF Request

-----------------------------------------------------------------------------
\* A request goes on, or ends: who is without a rival stays so.
LEMMA MoveFacts ==
  ASSUME AcInv, NEW q \in Procs, pc[q] # "idle", NEW step \in Steps, NEW l \in Local,
         pc' = [pc EXCEPT ![q] = step], loc' = [loc EXCEPT ![q] = l],
         alone' = IF step = "idle" THEN alone \ {q} ELSE alone,
         step # "idle" => l.kind = loc[q].kind
  PROVE  /\ pc' \in [Procs -> Steps] /\ loc' \in [Procs -> Local] /\ alone' \subseteq Procs
         /\ pc'[q] = step /\ loc'[q] = l
         /\ \A r \in Procs \ {q} : pc'[r] = pc[r] /\ loc'[r] = loc[r]
         /\ alone' \subseteq alone
         /\ AcAlone'
<1>1. pc \in [Procs -> Steps] /\ loc \in [Procs -> Local] /\ alone \subseteq Procs
  BY DEF AcInv, TypeOK
<1>2. /\ pc' \in [Procs -> Steps] /\ loc' \in [Procs -> Local] /\ alone' \subseteq Procs
      /\ pc'[q] = step /\ loc'[q] = l
      /\ \A r \in Procs \ {q} : pc'[r] = pc[r] /\ loc'[r] = loc[r]
      /\ alone' \subseteq alone /\ (q \in alone' => step # "idle")
  BY <1>1
<1>3. ASSUME NEW a \in alone'
      PROVE  /\ pc'[a] # "idle" /\ loc'[a].kind # "other"
             /\ \A r \in Procs \ {a} : pc'[r] # "idle" => loc'[r].kind # loc'[a].kind
  <2>1. /\ pc[a] # "idle" /\ loc[a].kind # "other" /\ a \in Procs
        /\ \A r \in Procs \ {a} : pc[r] # "idle" => loc[r].kind # loc[a].kind
    BY <1>1, <1>2 DEF AcInv, AcAlone
  <2>2. \A r \in Procs : pc'[r] # "idle" => pc[r] # "idle" /\ loc'[r].kind = loc[r].kind
    BY <1>2
  <2>3. pc'[a] # "idle"
    BY <1>2, <2>1
  <2> QED BY <2>1, <2>2, <2>3
<1> QED BY <1>2, <1>3 DEF AcAlone

\* What one request does to the others' view.
Moves(q) == \A r \in Procs \ {q} : pc'[r] = pc[r] /\ loc'[r] = loc[r]

\* A step that writes no row.
LEMMA SameRows ==
  ASSUME AcInv, NEW q \in Procs, Moves(q), UNCHANGED <<hash, password, split>>,
         \A r \in Procs \ {q} : r \in late' <=> r \in late,
         pc'[q] # "join_row",
         q \notin late' => loc'[q].auth \in {password, Social},
         pc'[q] \notin Knowing => loc'[q].auth = Social
  PROVE  AcAuth' /\ AcRows' /\ (Registered' <=> Registered)
<1>1. AcAuth'
  BY DEF AcInv, AcAuth, Moves
<1>2. AcRows'
  BY DEF AcInv, AcRows, Moves, RowExists
<1>3. Registered' <=> Registered
  BY DEF Registered, RowExists
<1> QED BY <1>1, <1>2, <1>3

\* A step that opens no session and takes no last row, of a request that is to add no
\* session (but on a plan that allows several).
LEMMA SameDevice ==
  ASSUME AcInv, NEW q \in Procs, Moves(q), alone' \subseteq alone,
         UNCHANGED <<sessions, crowded>>, ~Registered' => ~Registered,
         pc'[q] = "create" => loc'[q].multi, pc'[q] # "insert_row"
  PROVE  AcDevice' /\ Unrevoked' = Unrevoked
<1>1. Unrevoked' = Unrevoked /\ alone \subseteq Procs
  BY DEF Unrevoked, AcInv, TypeOK
<1>2. ASSUME ~crowded, NEW a \in alone',
             \/ pc'[a] = "create" /\ ~loc'[a].multi
             \/ pc'[a] = "insert_row" /\ loc'[a].next = "create"
      PROVE  Unrevoked = {}
  <2>1. a # q /\ a \in alone /\ a \in Procs
    BY <1>1, <1>2
  <2> QED BY <1>2, <2>1 DEF AcInv, AcDevice, Moves
<1> QED BY <1>1, <1>2 DEF AcInv, AcDevice

\* The same of a step that neither begins nor finishes an ending of sessions.
LEMMA SameSessions ==
  ASSUME AcInv, NEW q \in Procs, Moves(q), alone' \subseteq alone,
         UNCHANGED <<sessions, by, crowded, stale, password>>, ~Registered' => ~Registered,
         pc'[q] = "create" => loc'[q].multi, pc'[q] # "insert_row",
         pc'[q] \in {"admin_delete", "revoke_all"} <=> pc[q] \in {"admin_delete", "revoke_all"}
  PROVE  AcDevice' /\ AcReset'
<1>1. AcDevice' /\ Unrevoked' = Unrevoked
  BY SameDevice
<1>2. \A r \in Procs : pc'[r] \in {"admin_delete", "revoke_all"}
                         <=> pc[r] \in {"admin_delete", "revoke_all"}
  BY DEF Moves
<1> QED BY <1>1, <1>2 DEF AcInv, AcReset, ResetEndsSessions

\* A step that writes no link, of a request that is to add none and uses none.
LEMMA SameLinks ==
  ASSUME AcInv, NEW q \in Procs, Moves(q), alone' \subseteq alone,
         UNCHANGED <<links, forked, uses>>, pc'[q] \notin {"insert_link", "reset"}
  PROVE  /\ AcLinks' /\ Pending' = Pending
         /\ \A r \in Procs : pc'[r] = "reset" => loc'[r].link \in Pending'
<1>1. Pending' = Pending /\ alone \subseteq Procs
  BY DEF Pending, AcInv, TypeOK
<1>2. \A r \in Procs : pc'[r] \in {"insert_link", "reset"} => pc'[r] = pc[r] /\ loc'[r] = loc[r]
  BY DEF Moves
<1>3. AcLinks'
  <2>1. \A a \in alone' : pc'[a] = "insert_link" => a \in alone /\ pc[a] = "insert_link"
    BY <1>1, <1>2
  <2>2. ASSUME NEW a \in Procs, NEW b \in Procs, pc'[a] = "reset", pc'[b] = "reset",
               loc'[a].link = loc'[b].link
        PROVE  a = b
    BY <1>2, <2>2 DEF AcInv, AcLinks
  <2> QED BY <1>1, <2>1, <2>2 DEF AcInv, AcLinks
<1> QED BY <1>1, <1>2, <1>3 DEF AcInv, TypeOK

\* All sessions are revoked: nothing is open.
LEMMA RevokeFacts ==
  ASSUME AcInv, RevokeSessionsForEmail
  PROVE  /\ Unrevoked' = {} /\ AcDevice' /\ AcReset'
         /\ sessions' \in [Sids -> {"none", "live", "idle", "revoked"}]
         /\ crowded' \in BOOLEAN /\ stale' \subseteq Sids
         /\ by' \in [Sids -> Nat \cup {Social}]
<1>1. /\ sessions' \in [Sids -> {"none", "live", "idle", "revoked"}]
      /\ Unrevoked' = {}
  BY DEF AcInv, TypeOK, RevokeSessionsForEmail, Unrevoked
<1>2. AcDevice' /\ AcReset'
  BY <1>1 DEF AcDevice, AcReset, ResetEndsSessions
<1> QED BY <1>1, <1>2 DEF AcInv, TypeOK, RevokeSessionsForEmail
\* A password is written to all rows: they agree, and the others at work are late.
LEMMA PasswordFacts ==
  ASSUME AcInv, NEW q \in Procs, Moves(q), SetPassword(q), loc'[q].auth = Social,
         pc'[q] # "join_row"
  PROVE  /\ AcAuth' /\ AcRows' /\ (Registered' <=> Registered)
         /\ hash' \in [Rows -> Nat \cup {Absent}] /\ password' \in Nat
         /\ late' \subseteq Procs /\ split' \in BOOLEAN
<1>1. /\ password \in Nat /\ hash \in [Rows -> Nat \cup {Absent}] /\ late \subseteq Procs
  BY DEF AcInv, TypeOK
<1>2. /\ hash' = [r \in Rows |-> IF RowExists(r) THEN password + 1 ELSE Absent]
      /\ password' = password + 1 /\ split' = FALSE
      /\ late' = (late \cup Others(q)) \ {q}
  BY DEF SetPassword
<1>3. \A r \in Rows : RowExists(r)' <=> RowExists(r)
  BY <1>1, <1>2 DEF RowExists, Absent
<1>4. /\ \A r \in Procs \ {q} : r \notin late' => r \notin late /\ pc[r] = "idle"
      /\ late' \subseteq Procs
  BY <1>1, <1>2 DEF Others
<1>5. AcAuth'
  <2>1. ASSUME NEW r \in Procs \ {q}
        PROVE  /\ r \notin late' => loc'[r].auth \in {password', Social}
               /\ pc'[r] \notin Knowing => loc'[r].auth = Social
               /\ pc'[r] = "join_row" => loc'[r].auth \in Nat
    BY <1>4 DEF AcInv, AcAuth, Moves, Knowing
  <2> QED BY <2>1 DEF AcAuth
<1>6. AcRows'
  <2>1. \A r, t \in Rows : RowExists(r)' /\ RowExists(t)' => hash'[r] = hash'[t]
    BY <1>2, <1>3
  <2>2. \A r \in Procs \ late' : pc'[r] # "join_row"
    BY <1>4 DEF Moves
  <2> QED BY <2>1, <2>2 DEF AcRows
<1>7. Registered' <=> Registered
  BY <1>3 DEF Registered
<1>8. hash' \in [Rows -> Nat \cup {Absent}]
  BY <1>1, <1>2
<1>9. password' \in Nat
  BY <1>1, <1>2
<1>10. split' \in BOOLEAN
  BY <1>2
<1> QED BY <1>4, <1>5, <1>6, <1>7, <1>8, <1>9, <1>10

-----------------------------------------------------------------------------
\* Leaving or going on moves a request.
LEMMA GotoFacts ==
  ASSUME AcInv, NEW q \in Procs, pc[q] # "idle", NEW step \in Steps \ {"idle"},
         NEW l \in Local, l.kind = loc[q].kind, Goto(q, step, l)
  PROVE  /\ pc' \in [Procs -> Steps] /\ loc' \in [Procs -> Local] /\ alone' \subseteq Procs
         /\ pc'[q] = step /\ loc'[q] = l /\ Moves(q)
         /\ alone' \subseteq alone /\ AcAlone' /\ UNCHANGED <<ops, faults>>
<1>1. /\ pc' = [pc EXCEPT ![q] = step] /\ loc' = [loc EXCEPT ![q] = l]
      /\ alone' = IF step = "idle" THEN alone \ {q} ELSE alone
      /\ UNCHANGED <<ops, faults>>
  BY DEF Goto
<1> QED BY <1>1, MoveFacts DEF Moves

\* The same of a request that ends.
LEMMA ReturnFacts ==
  ASSUME AcInv, NEW q \in Procs, pc[q] # "idle", pc' = [pc EXCEPT ![q] = "idle"],
         loc' = [loc EXCEPT ![q] = NoLocal], alone' = alone \ {q}
  PROVE  /\ pc' \in [Procs -> Steps] /\ loc' \in [Procs -> Local] /\ alone' \subseteq Procs
         /\ pc'[q] = "idle" /\ loc'[q] = NoLocal /\ Moves(q)
         /\ alone' \subseteq alone /\ AcAlone'
<1>1. "idle" \in Steps
  BY DEF Steps
<1>2. alone' = IF "idle" = "idle" THEN alone \ {q} ELSE alone
  OBVIOUS
<1> QED BY <1>1, <1>2, NoLocalFacts, MoveFacts DEF Moves

\* What the locals of a request are, as the invariant has it.
LEMMA LocalFacts ==
  ASSUME AcInv, NEW q \in Procs
  PROVE  loc[q] \in Local /\ pc[q] \in Steps /\ loc[q].auth \in Nat \cup {Social}
BY DEF AcInv, TypeOK, Local

\* The plan decides whether the gate is asked.
LEMMA GatePlanKeeps ==
  ASSUME AcInv, NEW q \in Procs, GatePlan(q)
  PROVE  AcInv'
<1> DEFINE l    == [loc[q] EXCEPT !.multi = multi]
           step == IF multi THEN "create" ELSE IF loc[q].force THEN "revoke" ELSE "live"
<1>1. /\ pc[q] = "plan" /\ loc[q] \in Local /\ multi \in BOOLEAN /\ loc[q].kind = "sign"
      /\ UNCHANGED <<hash, password, split, sessions, by, crowded, stale, links, forked, uses,
                     multi, late>>
  BY LocalFacts DEF GatePlan, NoRowChange, NoSessionChange, NoLinkChange, AcInv, TypeOK, AcKinds
<1>2. /\ l \in Local /\ l.kind = "sign" /\ l.auth = loc[q].auth /\ (l.multi <=> multi)
  BY <1>1 DEF Local
<1>3. step \in {"create", "revoke", "live"} /\ (step = "create" => multi)
  OBVIOUS
<1>4. Goto(q, step, l)
  BY DEF GatePlan
<1> HIDE DEF l, step
<1>5. /\ pc' \in [Procs -> Steps] /\ loc' \in [Procs -> Local] /\ alone' \subseteq Procs
      /\ pc'[q] = step /\ loc'[q] = l /\ Moves(q)
      /\ alone' \subseteq alone /\ AcAlone' /\ UNCHANGED <<ops, faults>>
  BY <1>1, <1>2, <1>3, <1>4, GotoFacts DEF Steps
<1>6. AcAuth' /\ AcRows' /\ (Registered' <=> Registered)
  <2>1. q \notin late => loc[q].auth \in {password, Social}
    BY DEF AcInv, AcAuth
  <2> QED BY <1>1, <1>2, <1>3, <1>5, <2>1, SameRows DEF Knowing
<1>7. AcDevice' /\ AcReset'
  BY <1>1, <1>2, <1>3, <1>5, <1>6, SameSessions
<1>8. /\ AcLinks' /\ Pending' = Pending
      /\ \A r \in Procs : pc'[r] = "reset" => loc'[r].link \in Pending'
  BY <1>1, <1>3, <1>5, SameLinks
<1>9. AcKinds'
  BY <1>2, <1>3, <1>5 DEF AcInv, AcKinds, Moves
<1>10. TypeOK'
  BY <1>1, <1>5, <1>8 DEF AcInv, TypeOK
<1> QED BY <1>5, <1>6, <1>7, <1>8, <1>9, <1>10 DEF AcInv

\* With a live session the sign-in ends there, or the abandoned ones are to go.
LEMMA GateLiveKeeps ==
  ASSUME AcInv, NEW q \in Procs, GateLive(q)
  PROVE  AcInv'
<1>1. /\ pc[q] = "live" /\ loc[q] \in Local /\ loc[q].kind = "sign"
      /\ UNCHANGED <<hash, password, split, sessions, by, crowded, stale, links, forked, uses,
                     multi, late>>
      /\ (q \notin late => loc[q].auth \in {password, Social})
  BY LocalFacts
     DEF GateLive, NoRowChange, NoSessionChange, NoLinkChange, AcInv, AcKinds, AcAuth
<1>2. /\ pc' \in [Procs -> Steps] /\ loc' \in [Procs -> Local] /\ alone' \subseteq Procs
      /\ \/ pc'[q] = "idle" /\ loc'[q] = NoLocal
         \/ pc'[q] = "revoke" /\ loc'[q] = loc[q]
      /\ Moves(q) /\ alone' \subseteq alone /\ AcAlone' /\ UNCHANGED <<ops, faults>>
  <2>1. CASE Live # {}
    <3>1. Return(q)
      BY <2>1 DEF GateLive, Leave
    <3> QED BY <1>1, <3>1, ReturnFacts DEF Return
  <2>2. CASE Live = {}
    <3>1. Goto(q, "revoke", loc[q])
      BY <2>2 DEF GateLive, Leave
    <3>2. "revoke" \in Steps \ {"idle"}
      BY DEF Steps
    <3> QED BY <1>1, <3>1, <3>2, GotoFacts
  <2> QED BY <2>1, <2>2
<1>3. AcAuth' /\ AcRows' /\ (Registered' <=> Registered)
  BY <1>1, <1>2, NoLocalFacts, SameRows DEF Knowing
<1>4. AcDevice' /\ AcReset'
  BY <1>1, <1>2, <1>3, SameSessions
<1>5. /\ AcLinks' /\ Pending' = Pending
      /\ \A r \in Procs : pc'[r] = "reset" => loc'[r].link \in Pending'
  BY <1>1, <1>2, SameLinks
<1>6. AcKinds'
  BY <1>1, <1>2 DEF AcInv, AcKinds, Moves
<1>7. TypeOK'
  BY <1>1, <1>2, <1>5 DEF AcInv, TypeOK
<1> QED BY <1>2, <1>3, <1>4, <1>5, <1>6, <1>7 DEF AcInv

\* The other sessions are revoked before the new one is there.
LEMMA GateRevokeKeeps ==
  ASSUME AcInv, NEW q \in Procs, GateRevoke(q)
  PROVE  AcInv'
<1>1. /\ pc[q] = "revoke" /\ loc[q] \in Local /\ loc[q].kind = "sign"
      /\ UNCHANGED <<hash, password, split, links, forked, uses, multi, late>>
      /\ (q \notin late => loc[q].auth \in {password, Social})
      /\ RevokeSessionsForEmail /\ Goto(q, "create", loc[q])
  BY LocalFacts DEF GateRevoke, NoRowChange, NoLinkChange, AcInv, AcKinds, AcAuth
<1>2. /\ pc' \in [Procs -> Steps] /\ loc' \in [Procs -> Local] /\ alone' \subseteq Procs
      /\ pc'[q] = "create" /\ loc'[q] = loc[q]
      /\ Moves(q) /\ alone' \subseteq alone /\ AcAlone' /\ UNCHANGED <<ops, faults>>
  <2>1. "create" \in Steps \ {"idle"}
    BY DEF Steps
  <2> QED BY <1>1, <2>1, GotoFacts
<1>3. AcAuth' /\ AcRows'
  BY <1>1, <1>2, SameRows DEF Knowing
<1>4. /\ AcLinks' /\ Pending' = Pending
      /\ \A r \in Procs : pc'[r] = "reset" => loc'[r].link \in Pending'
  BY <1>1, <1>2, SameLinks
<1>5. AcKinds'
  BY <1>1, <1>2 DEF AcInv, AcKinds, Moves
<1>6. TypeOK' /\ AcDevice' /\ AcReset'
  BY <1>1, <1>2, <1>4, RevokeFacts DEF AcInv, TypeOK
<1> QED BY <1>2, <1>3, <1>4, <1>5, <1>6 DEF AcInv
\* The new session is the only one when the gate let it through alone.
LEMMA CreateSessionKeeps ==
  ASSUME AcInv, NEW q \in Procs, CreateSession(q)
  PROVE  AcInv'
<1>1. /\ pc[q] = "create" /\ loc[q] \in Local /\ loc[q].kind = "sign"
      /\ loc[q].auth \in Nat \cup {Social}
      /\ UNCHANGED <<hash, password, split, links, forked, uses, multi, ops, faults>>
      /\ (q \notin late => loc[q].auth \in {password, Social})
      /\ late' = late \ {q}
      /\ crowded' = (crowded \/ q \notin alone \/ loc[q].multi \/ ~Registered)
      /\ pc' = [pc EXCEPT ![q] = "idle"] /\ loc' = [loc EXCEPT ![q] = NoLocal]
      /\ alone' = alone \ {q}
  BY LocalFacts DEF CreateSession, Return, NoRowChange, NoLinkChange, AcInv, AcKinds, AcAuth
<1>2. PICK s \in Sids :
        /\ sessions[s] = "none" /\ sessions' = [sessions EXCEPT ![s] = "live"]
        /\ by' = [by EXCEPT ![s] = loc[q].auth]
        /\ stale' = IF q \in late THEN stale \cup {s} ELSE stale
  BY DEF CreateSession
<1>3. /\ pc' \in [Procs -> Steps] /\ loc' \in [Procs -> Local] /\ alone' \subseteq Procs
      /\ pc'[q] = "idle" /\ loc'[q] = NoLocal /\ Moves(q)
      /\ alone' \subseteq alone /\ AcAlone'
  BY <1>1, ReturnFacts
<1>4. AcAuth' /\ AcRows' /\ (Registered' <=> Registered)
  BY <1>1, <1>3, NoLocalFacts, SameRows
<1>5. /\ AcLinks' /\ Pending' = Pending
      /\ \A r \in Procs : pc'[r] = "reset" => loc'[r].link \in Pending'
  BY <1>1, <1>3, SameLinks
<1>6. /\ sessions \in [Sids -> {"none", "live", "idle", "revoked"}]
      /\ by \in [Sids -> Nat \cup {Social}] /\ stale \subseteq Sids
      /\ crowded \in BOOLEAN /\ late \subseteq Procs /\ alone \subseteq Procs
  BY DEF AcInv, TypeOK
<1>7. Unrevoked' = Unrevoked \cup {s}
  BY <1>2, <1>6 DEF Unrevoked
<1>8. AcDevice'
  <2>1. ASSUME ~crowded'
        PROVE  /\ Unrevoked' = {s} /\ Registered'
               /\ \A a \in alone' : /\ ~(pc'[a] = "create" /\ ~loc'[a].multi)
                                    /\ ~(pc'[a] = "insert_row" /\ loc'[a].next = "create")
    <3>1. ~crowded /\ q \in alone /\ ~loc[q].multi /\ Registered
      BY <1>1, <1>6, <2>1
    <3>2. Unrevoked = {}
      BY <1>1, <3>1 DEF AcInv, AcDevice
    <3>3. ASSUME NEW a \in alone'
          PROVE  loc'[a].kind # "sign" /\ a \in Procs
      <4>1. a \in alone /\ a # q /\ a \in Procs
        BY <1>1, <1>6
      <4>2. loc[q].kind # loc[a].kind
        BY <1>1, <4>1 DEF AcInv, AcAlone
      <4> QED BY <1>1, <1>3, <4>1, <4>2 DEF Moves
    <3>4. \A a \in alone' : a # q /\ pc'[a] = pc[a] /\ loc'[a] = loc[a]
      BY <1>1, <1>3, <1>6 DEF Moves
    <3>5. \A a \in alone' : pc[a] = "create" \/ (pc[a] = "insert_row" /\ loc[a].next = "create")
                              => loc[a].kind = "sign"
      BY <3>3 DEF AcInv, AcKinds
    <3>6. ASSUME NEW a \in alone'
          PROVE  /\ ~(pc'[a] = "create" /\ ~loc'[a].multi)
                 /\ ~(pc'[a] = "insert_row" /\ loc'[a].next = "create")
      BY <3>3, <3>4, <3>5
    <3>7. Unrevoked' = {s}
      BY <1>7, <3>2
    <3>8. Registered'
      BY <1>4, <3>1
    <3> QED BY <3>6, <3>7, <3>8
  <2> QED BY <2>1 DEF AcDevice
<1>9. AcReset'
  <2>1. \A r \in Procs : pc'[r] \in {"admin_delete", "revoke_all"}
                           <=> pc[r] \in {"admin_delete", "revoke_all"}
    BY <1>1, <1>3 DEF Moves
  <2>2. ASSUME NEW t \in Unrevoked' \ stale',
               \A r \in Procs : pc[r] \notin {"admin_delete", "revoke_all"}
        PROVE  by'[t] \in {password, Social}
    <3>1. CASE t = s
      BY <1>1, <1>2, <1>6, <2>2, <3>1
    <3>2. CASE t # s
      <4>1. t \in Unrevoked \ stale /\ t \in Sids
        BY <1>2, <1>7, <2>2, <3>2 DEF Unrevoked
      <4>2. by[t] \in {password, Social}
        BY <2>2, <4>1 DEF AcInv, AcReset, ResetEndsSessions
      <4> QED BY <1>2, <1>6, <3>2, <4>1, <4>2
    <3> QED BY <3>1, <3>2
  <2> QED BY <1>1, <2>1, <2>2 DEF AcReset, ResetEndsSessions
<1>10. AcKinds'
  BY <1>3 DEF AcInv, AcKinds, Moves
<1>11. TypeOK'
  <2>1. /\ sessions' \in [Sids -> {"none", "live", "idle", "revoked"}]
        /\ by' \in [Sids -> Nat \cup {Social}] /\ stale' \subseteq Sids
        /\ late' \subseteq Procs
    BY <1>1, <1>2, <1>6
  <2>2. crowded' \in BOOLEAN
    BY <1>1
  <2> QED BY <1>1, <1>3, <1>5, <2>1, <2>2 DEF AcInv, TypeOK
<1> QED BY <1>3, <1>4, <1>5, <1>8, <1>9, <1>10, <1>11 DEF AcInv

\* The first row: the others at work are late, and the sessions there are, stale.
LEMMA InsertRowKeeps ==
  ASSUME AcInv, NEW q \in Procs, InsertRow(q)
  PROVE  AcInv'
<1> DEFINE new == IF loc[q].next = "plan" THEN NoPassword ELSE password + 1
<1>1. /\ pc[q] = "insert_row" /\ loc[q] \in Local /\ loc[q].auth = Social
      /\ (loc[q].next # "idle" => loc[q].kind = "sign")
      /\ loc[q].next \in {"idle", "plan", "create"}
      /\ UNCHANGED <<sessions, by, crowded, links, forked, uses, multi>>
      /\ password' = (IF new = NoPassword THEN password ELSE new)
      /\ split' = (split \/ Registered)
      /\ late' = late \cup Others(q)
      /\ stale' = stale \cup Unrevoked
      /\ Leave(q, loc[q].next)
  BY LocalFacts DEF InsertRow, NoLinkChange, AcInv, AcKinds, AcAuth, Knowing, Local
<1>2. /\ hash \in [Rows -> Nat \cup {Absent}] /\ password \in Nat /\ late \subseteq Procs
      /\ stale \subseteq Sids /\ alone \subseteq Procs /\ split \in BOOLEAN
  BY DEF AcInv, TypeOK
<1>3. PICK r \in Rows : ~RowExists(r) /\ hash' = [hash EXCEPT ![r] = new]
  BY DEF InsertRow
<1>4. new \in Nat
  BY <1>2 DEF NoPassword
<1> HIDE DEF new
<1>5. /\ pc' \in [Procs -> Steps] /\ loc' \in [Procs -> Local] /\ alone' \subseteq Procs
      /\ \/ loc[q].next = "idle" /\ pc'[q] = "idle" /\ loc'[q] = NoLocal
         \/ loc[q].next # "idle" /\ pc'[q] = loc[q].next /\ loc'[q] = loc[q]
      /\ Moves(q) /\ alone' \subseteq alone /\ AcAlone' /\ UNCHANGED <<ops, faults>>
  <2>1. CASE loc[q].next = "idle"
    <3>1. Return(q)
      BY <1>1, <2>1 DEF Leave
    <3> QED BY <1>1, <2>1, <3>1, ReturnFacts DEF Return
  <2>2. CASE loc[q].next # "idle"
    <3>1. Goto(q, loc[q].next, loc[q]) /\ loc[q].next \in Steps \ {"idle"}
      BY <1>1, <2>2 DEF Leave, Steps
    <3> QED BY <1>1, <2>2, <3>1, GotoFacts
  <2> QED BY <2>1, <2>2
<1>6. Unrevoked' = Unrevoked /\ Unrevoked \subseteq Sids /\ Others(q) \subseteq Procs
  BY <1>1 DEF Unrevoked, Others
<1>7. \A p \in Procs \ {q} : p \notin late' => pc[p] = "idle" /\ p \notin late
  BY <1>1 DEF Others
<1>8. /\ \A t \in Rows : RowExists(t)' <=> RowExists(t) \/ t = r
      /\ Registered' /\ hash' \in [Rows -> Nat \cup {Absent}] /\ password' \in Nat
      /\ hash'[r] = new
  <2>1. new # Absent
    BY <1>4 DEF Absent
  <2>2. /\ \A t \in Rows : RowExists(t)' <=> RowExists(t) \/ t = r
        /\ hash' \in [Rows -> Nat \cup {Absent}] /\ hash'[r] = new
    BY <1>2, <1>3, <1>4, <2>1 DEF RowExists
  <2> QED BY <1>1, <1>2, <1>4, <2>2 DEF Registered
<1>9. AcAuth'
  <2>1. ASSUME NEW p \in Procs \ {q}
        PROVE  /\ p \notin late' => loc'[p].auth \in {password', Social}
               /\ pc'[p] \notin Knowing => loc'[p].auth = Social
               /\ pc'[p] = "join_row" => loc'[p].auth \in Nat
    BY <1>5, <1>7 DEF AcInv, AcAuth, Moves, Knowing
  <2> QED BY <1>1, <1>5, <2>1, NoLocalFacts DEF AcAuth
<1>10. AcRows'
  <2>1. ~split' => \A t \in Rows : RowExists(t)' => t = r
    BY <1>1, <1>8 DEF Registered
  <2>2. \A p \in Procs \ late' : pc'[p] # "join_row"
    BY <1>1, <1>5, <1>7 DEF Moves
  <2> QED BY <2>1, <2>2 DEF AcRows
<1>11. AcDevice'
  <2>1. ASSUME ~crowded, NEW a \in alone',
               \/ pc'[a] = "create" /\ ~loc'[a].multi
               \/ pc'[a] = "insert_row" /\ loc'[a].next = "create"
        PROVE  Unrevoked = {}
    <3>1. a \in alone /\ a \in Procs
      BY <1>2, <1>5
    <3>2. CASE a = q
      BY <1>1, <1>5, <2>1, <3>1, <3>2 DEF AcInv, AcDevice
    <3>3. CASE a # q
      BY <1>5, <2>1, <3>1, <3>3 DEF AcInv, AcDevice, Moves
    <3> QED BY <3>2, <3>3
  <2> QED BY <1>1, <1>6, <1>8, <2>1 DEF AcInv, AcDevice
<1>12. AcReset'
  BY <1>1, <1>6 DEF AcReset, ResetEndsSessions
<1>13. /\ AcLinks' /\ Pending' = Pending
       /\ \A p \in Procs : pc'[p] = "reset" => loc'[p].link \in Pending'
  BY <1>1, <1>5, SameLinks
<1>14. AcKinds'
  BY <1>1, <1>5 DEF AcInv, AcKinds, Moves
<1>15. TypeOK'
  <2>1. late' \subseteq Procs /\ stale' \subseteq Sids /\ split' \in BOOLEAN
    BY <1>1, <1>2, <1>6
  <2> QED BY <1>1, <1>5, <1>8, <1>13, <2>1 DEF AcInv, TypeOK
<1> QED BY <1>5, <1>9, <1>10, <1>11, <1>12, <1>13, <1>14, <1>15 DEF AcInv

\* A further row: its hash is the others', unless the request was late.
LEMMA JoinRowKeeps ==
  ASSUME AcInv, NEW q \in Procs, JoinRow(q)
  PROVE  AcInv'
<1>1. /\ pc[q] = "join_row" /\ loc[q] \in Local /\ loc[q].auth \in Nat \cup {Social}
      /\ UNCHANGED <<sessions, by, crowded, stale, links, forked, uses, multi, password,
                     ops, faults>>
      /\ split' = (split \/ q \in late) /\ late' = late \ {q}
      /\ pc' = [pc EXCEPT ![q] = "idle"] /\ loc' = [loc EXCEPT ![q] = NoLocal]
      /\ alone' = alone \ {q}
  BY LocalFacts DEF JoinRow, Return, NoSessionChange, NoLinkChange
<1>2. PICK r \in Rows : ~RowExists(r) /\ hash' = [hash EXCEPT ![r] = loc[q].auth]
  BY DEF JoinRow
<1>3. /\ hash \in [Rows -> Nat \cup {Absent}] /\ late \subseteq Procs /\ split \in BOOLEAN
  BY DEF AcInv, TypeOK
<1>4. /\ pc' \in [Procs -> Steps] /\ loc' \in [Procs -> Local] /\ alone' \subseteq Procs
      /\ pc'[q] = "idle" /\ loc'[q] = NoLocal /\ Moves(q)
      /\ alone' \subseteq alone /\ AcAlone'
  BY <1>1, ReturnFacts
<1>5. /\ hash' \in [Rows -> Nat \cup {Absent}] /\ hash'[r] = loc[q].auth
      /\ \A t \in Rows \ {r} : hash'[t] = hash[t]
      /\ \A t \in Rows : RowExists(t) => RowExists(t)'
  BY <1>1, <1>2, <1>3 DEF RowExists, Absent, Social
<1>6. ~Registered' => ~Registered
  BY <1>5 DEF Registered
<1>7. AcAuth'
  BY <1>1, <1>4, NoLocalFacts DEF AcInv, AcAuth, Moves
<1>8. AcRows'
  <2>1. ASSUME ~split'
        PROVE  /\ ~split /\ q \notin late
               /\ \A t \in Rows : RowExists(t) => hash[t] = loc[q].auth
    BY <1>1, <1>3, <2>1 DEF AcInv, AcRows
  <2>2. ASSUME ~split', NEW t \in Rows, RowExists(t)'
        PROVE  hash'[t] = loc[q].auth
    BY <1>5, <2>1, <2>2 DEF RowExists
  <2>3. ASSUME ~split', NEW p \in Procs \ late', pc'[p] = "join_row", NEW t \in Rows,
               RowExists(t)'
        PROVE  hash'[t] = loc'[p].auth
    <3>1. p # q /\ p \in Procs \ late /\ pc[p] = "join_row" /\ loc'[p] = loc[p]
      BY <1>1, <1>4, <2>3 DEF Moves
    <3>2. CASE t # r
      BY <1>5, <2>1, <2>3, <3>1, <3>2 DEF AcInv, AcRows, RowExists
    <3>3. CASE t = r
      <4>1. loc[p].auth \in Nat /\ loc[p].auth \in {password, Social}
        BY <3>1 DEF AcInv, AcAuth
      <4>2. loc[q].auth \in Nat /\ loc[q].auth \in {password, Social}
        BY <1>1, <2>1, <2>3 DEF AcInv, AcAuth
      <4>3. loc[p].auth = password /\ loc[q].auth = password
        BY <4>1, <4>2 DEF Social
      <4> QED BY <1>5, <3>1, <3>3, <4>3
    <3> QED BY <3>2, <3>3
  <2> QED BY <2>2, <2>3 DEF AcRows
<1>9. AcDevice' /\ AcReset'
  BY <1>1, <1>4, <1>6, SameSessions
<1>10. /\ AcLinks' /\ Pending' = Pending
       /\ \A p \in Procs : pc'[p] = "reset" => loc'[p].link \in Pending'
  BY <1>1, <1>4, SameLinks
<1>11. AcKinds'
  BY <1>4 DEF AcInv, AcKinds, Moves
<1>12. TypeOK'
  BY <1>1, <1>3, <1>4, <1>5, <1>10 DEF AcInv, TypeOK
<1> QED BY <1>4, <1>7, <1>8, <1>9, <1>10, <1>11, <1>12 DEF AcInv
-----------------------------------------------------------------------------
\* The owner's change leaves the sessions open, and they are stale.
LEMMA UpdatePasswordKeeps ==
  ASSUME AcInv, NEW q \in Procs, UpdatePassword(q)
  PROVE  AcInv'
<1>1. /\ pc[q] = "change" /\ SetPassword(q) /\ stale' = stale \cup Unrevoked
      /\ UNCHANGED <<sessions, by, crowded, multi, links, forked, uses, ops, faults>>
      /\ pc' = [pc EXCEPT ![q] = "idle"] /\ loc' = [loc EXCEPT ![q] = NoLocal]
      /\ alone' = alone \ {q}
  BY DEF UpdatePassword, Return, NoLinkChange
<1>2. /\ pc' \in [Procs -> Steps] /\ loc' \in [Procs -> Local] /\ alone' \subseteq Procs
      /\ pc'[q] = "idle" /\ loc'[q] = NoLocal /\ Moves(q)
      /\ alone' \subseteq alone /\ AcAlone'
  BY <1>1, ReturnFacts
<1>3. /\ AcAuth' /\ AcRows' /\ (Registered' <=> Registered)
      /\ hash' \in [Rows -> Nat \cup {Absent}] /\ password' \in Nat
      /\ late' \subseteq Procs /\ split' \in BOOLEAN
  BY <1>1, <1>2, NoLocalFacts, PasswordFacts
<1>4. AcDevice' /\ Unrevoked' = Unrevoked
  BY <1>1, <1>2, <1>3, SameDevice
<1>5. AcReset'
  BY <1>1, <1>4 DEF AcReset, ResetEndsSessions
<1>6. /\ AcLinks' /\ Pending' = Pending
      /\ \A r \in Procs : pc'[r] = "reset" => loc'[r].link \in Pending'
  BY <1>1, <1>2, SameLinks
<1>7. AcKinds'
  BY <1>2 DEF AcInv, AcKinds, Moves
<1>8. stale' \subseteq Sids
  BY <1>1 DEF AcInv, TypeOK, Unrevoked
<1>9. TypeOK'
  BY <1>1, <1>2, <1>3, <1>6, <1>8 DEF AcInv, TypeOK
<1> QED BY <1>2, <1>3, <1>4, <1>5, <1>6, <1>7, <1>9 DEF AcInv

\* The admin's reset is about to end the sessions.
LEMMA AdminUpdateKeeps ==
  ASSUME AcInv, NEW q \in Procs, AdminUpdate(q)
  PROVE  AcInv'
<1>1. /\ pc[q] = "admin_update" /\ SetPassword(q) /\ loc[q] \in Local /\ loc[q].auth = Social
      /\ UNCHANGED <<sessions, by, crowded, stale, multi, links, forked, uses>>
      /\ Goto(q, "admin_delete", loc[q])
  BY LocalFacts DEF AdminUpdate, NoSessionChange, NoLinkChange, AcInv, AcAuth, Knowing
<1>2. /\ pc' \in [Procs -> Steps] /\ loc' \in [Procs -> Local] /\ alone' \subseteq Procs
      /\ pc'[q] = "admin_delete" /\ loc'[q] = loc[q] /\ Moves(q)
      /\ alone' \subseteq alone /\ AcAlone' /\ UNCHANGED <<ops, faults>>
  BY <1>1, GotoFacts DEF Steps
<1>3. /\ AcAuth' /\ AcRows' /\ (Registered' <=> Registered)
      /\ hash' \in [Rows -> Nat \cup {Absent}] /\ password' \in Nat
      /\ late' \subseteq Procs /\ split' \in BOOLEAN
  BY <1>1, <1>2, PasswordFacts
<1>4. AcDevice' /\ Unrevoked' = Unrevoked
  BY <1>1, <1>2, <1>3, SameDevice
<1>5. AcReset'
  BY <1>2 DEF AcReset, ResetEndsSessions
<1>6. /\ AcLinks' /\ Pending' = Pending
      /\ \A r \in Procs : pc'[r] = "reset" => loc'[r].link \in Pending'
  BY <1>1, <1>2, SameLinks
<1>7. AcKinds'
  BY <1>2 DEF AcInv, AcKinds, Moves
<1>8. TypeOK'
  BY <1>1, <1>2, <1>3, <1>6 DEF AcInv, TypeOK
<1> QED BY <1>2, <1>3, <1>4, <1>5, <1>6, <1>7, <1>8 DEF AcInv

\* The sessions are ended.
LEMMA EndSessionsKeeps ==
  ASSUME AcInv, NEW q \in Procs, EndSessions(q)
  PROVE  AcInv'
<1>1. /\ pc[q] \in {"admin_delete", "revoke_all"} /\ RevokeSessionsForEmail
      /\ UNCHANGED <<hash, password, split, links, forked, uses, multi, late, ops, faults>>
      /\ pc' = [pc EXCEPT ![q] = "idle"] /\ loc' = [loc EXCEPT ![q] = NoLocal]
      /\ alone' = alone \ {q}
  BY DEF EndSessions, Return, NoRowChange, NoLinkChange
<1>2. /\ pc' \in [Procs -> Steps] /\ loc' \in [Procs -> Local] /\ alone' \subseteq Procs
      /\ pc'[q] = "idle" /\ loc'[q] = NoLocal /\ Moves(q)
      /\ alone' \subseteq alone /\ AcAlone'
  BY <1>1, ReturnFacts
<1>3. AcAuth' /\ AcRows'
  BY <1>1, <1>2, NoLocalFacts, SameRows
<1>4. /\ AcLinks' /\ Pending' = Pending
      /\ \A r \in Procs : pc'[r] = "reset" => loc'[r].link \in Pending'
  BY <1>1, <1>2, SameLinks
<1>5. AcKinds'
  BY <1>2 DEF AcInv, AcKinds, Moves
<1>6. TypeOK' /\ AcDevice' /\ AcReset'
  BY <1>1, <1>2, <1>4, RevokeFacts DEF AcInv, TypeOK
<1> QED BY <1>2, <1>3, <1>4, <1>5, <1>6 DEF AcInv

-----------------------------------------------------------------------------
\* Earlier links are used up, and none is in use.
LEMMA InvalidateLinksKeeps ==
  ASSUME AcInv, NEW q \in Procs, InvalidateLinks(q)
  PROVE  AcInv'
<1>1. /\ pc[q] = "invalidate" /\ loc[q] \in Local /\ loc[q].kind = "request"
      /\ loc[q].auth = Social /\ \A k \in Pending : ~Locked(k)
      /\ links' = [k \in Links |-> IF links[k] \in {"pending", "expired"} THEN "used"
                                                                          ELSE links[k]]
      /\ forked' = FALSE /\ Goto(q, "insert_link", loc[q])
      /\ UNCHANGED <<hash, password, split, sessions, by, crowded, stale, multi, late, uses>>
  BY LocalFacts DEF InvalidateLinks, NoRowChange, NoSessionChange, AcInv, AcKinds, AcAuth, Knowing
<1>2. /\ pc' \in [Procs -> Steps] /\ loc' \in [Procs -> Local] /\ alone' \subseteq Procs
      /\ pc'[q] = "insert_link" /\ loc'[q] = loc[q] /\ Moves(q)
      /\ alone' \subseteq alone /\ AcAlone' /\ UNCHANGED <<ops, faults>>
  BY <1>1, GotoFacts DEF Steps
<1>3. AcAuth' /\ AcRows' /\ (Registered' <=> Registered)
  BY <1>1, <1>2, SameRows
<1>4. AcDevice' /\ AcReset'
  BY <1>1, <1>2, <1>3, SameSessions
<1>5. /\ links \in [Links -> {"none", "pending", "expired", "used"}]
      /\ links' \in [Links -> {"none", "pending", "expired", "used"}] /\ Pending' = {}
      /\ \A k \in Links : links[k] = "used" => links'[k] = "used"
  BY <1>1 DEF AcInv, TypeOK, Pending
<1>6. \A r \in Procs : pc'[r] # "reset"
  BY <1>1, <1>2 DEF AcInv, TypeOK, Locked, Moves
<1>7. AcLinks'
  BY <1>1, <1>5, <1>6 DEF AcInv, AcLinks
<1>8. AcKinds'
  BY <1>1, <1>2 DEF AcInv, AcKinds, Moves
<1>9. TypeOK'
  BY <1>1, <1>2, <1>5, <1>6 DEF AcInv, TypeOK
<1> QED BY <1>2, <1>3, <1>4, <1>7, <1>8, <1>9 DEF AcInv

\* A new link: the only one that works, unless the request has a rival.
LEMMA InsertLinkKeeps ==
  ASSUME AcInv, NEW q \in Procs, InsertLink(q)
  PROVE  AcInv'
<1>1. /\ pc[q] = "insert_link" /\ loc[q].kind = "request"
      /\ forked' = (forked \/ q \notin alone) /\ late' = late \ {q}
      /\ UNCHANGED <<hash, password, split, sessions, by, crowded, stale, multi, uses, ops,
                     faults>>
      /\ pc' = [pc EXCEPT ![q] = "idle"] /\ loc' = [loc EXCEPT ![q] = NoLocal]
      /\ alone' = alone \ {q}
  BY DEF InsertLink, Return, NoRowChange, NoSessionChange, AcInv, AcKinds
<1>2. PICK k \in Links : links[k] = "none" /\ links' = [links EXCEPT ![k] = "pending"]
  BY DEF InsertLink
<1>3. /\ pc' \in [Procs -> Steps] /\ loc' \in [Procs -> Local] /\ alone' \subseteq Procs
      /\ pc'[q] = "idle" /\ loc'[q] = NoLocal /\ Moves(q)
      /\ alone' \subseteq alone /\ AcAlone'
  BY <1>1, ReturnFacts
<1>4. AcAuth' /\ AcRows' /\ (Registered' <=> Registered)
  BY <1>1, <1>3, NoLocalFacts, SameRows
<1>5. AcDevice' /\ AcReset'
  BY <1>1, <1>3, <1>4, SameSessions
<1>6. /\ links \in [Links -> {"none", "pending", "expired", "used"}]
      /\ links' \in [Links -> {"none", "pending", "expired", "used"}]
      /\ Pending' = Pending \cup {k} /\ uses' = uses /\ uses \in [Links -> Nat]
      /\ \A j \in Links : links[j] = "used" => links'[j] = "used"
      /\ alone \subseteq Procs /\ late \subseteq Procs /\ forked \in BOOLEAN
  BY <1>1, <1>2 DEF AcInv, TypeOK, Pending
<1>7. \A r \in Procs : pc'[r] \in {"reset", "insert_link"}
                         => r # q /\ pc[r] = pc'[r] /\ loc'[r] = loc[r]
  BY <1>3 DEF Moves
<1>8. AcLinks'
  <2>1. ASSUME ~forked'
        PROVE  Pending' = {k} /\ \A a \in alone' : pc'[a] # "insert_link"
    <3>1. ~forked /\ q \in alone
      BY <1>1, <1>6, <2>1
    <3>2. Pending = {}
      BY <1>1, <3>1 DEF AcInv, AcLinks
    <3>3. ASSUME NEW a \in alone', pc'[a] = "insert_link"
          PROVE  FALSE
      <4>1. a \in alone /\ a \in Procs /\ a # q /\ pc[a] = "insert_link"
        BY <1>1, <1>6, <1>7, <3>3
      <4>2. loc[a].kind = "request" /\ loc[q].kind # loc[a].kind
        BY <1>1, <4>1 DEF AcInv, AcKinds, AcAlone
      <4> QED BY <1>1, <4>2
    <3> QED BY <1>6, <3>2, <3>3
  <2>2. \A j \in Links : uses'[j] <= 1 /\ (uses'[j] = 1 => links'[j] = "used")
    BY <1>6 DEF AcInv, AcLinks
  <2>3. \A a, b \in Procs : pc'[a] = "reset" /\ pc'[b] = "reset" /\ loc'[a].link = loc'[b].link
                              => a = b
    BY <1>7 DEF AcInv, AcLinks
  <2> QED BY <2>1, <2>2, <2>3 DEF AcLinks
<1>9. AcKinds'
  BY <1>3 DEF AcInv, AcKinds, Moves
<1>10. TypeOK'
  <2>1. \A r \in Procs : pc'[r] = "reset" => loc'[r].link \in Pending'
    BY <1>6, <1>7 DEF AcInv, TypeOK
  <2>2. late' \subseteq Procs /\ forked' \in BOOLEAN
    BY <1>1, <1>6
  <2> QED BY <1>1, <1>3, <1>6, <2>1, <2>2 DEF AcInv, TypeOK
<1> QED BY <1>3, <1>4, <1>5, <1>8, <1>9, <1>10 DEF AcInv

\* A reset uses its link, which no other transaction holds and none has used.
LEMMA CommitResetKeeps ==
  ASSUME AcInv, NEW q \in Procs, CommitReset(q)
  PROVE  AcInv'
<1> DEFINE k == loc[q].link
<1>1. /\ pc[q] = "reset" /\ SetPassword(q) /\ loc[q].kind = "other" /\ k \in Pending
      /\ links' = [links EXCEPT ![k] = "used"] /\ uses' = [uses EXCEPT ![k] = @ + 1]
      /\ Goto(q, "revoke_all", NoLocal)
      /\ UNCHANGED <<sessions, by, crowded, stale, multi, forked>>
  BY DEF CommitReset, NoSessionChange, AcInv, AcKinds, TypeOK
<1>2. /\ pc' \in [Procs -> Steps] /\ loc' \in [Procs -> Local] /\ alone' \subseteq Procs
      /\ pc'[q] = "revoke_all" /\ loc'[q] = NoLocal /\ Moves(q)
      /\ alone' \subseteq alone /\ AcAlone' /\ UNCHANGED <<ops, faults>>
  BY <1>1, NoLocalFacts, GotoFacts DEF Steps
<1>3. /\ AcAuth' /\ AcRows' /\ (Registered' <=> Registered)
      /\ hash' \in [Rows -> Nat \cup {Absent}] /\ password' \in Nat
      /\ late' \subseteq Procs /\ split' \in BOOLEAN
  BY <1>1, <1>2, NoLocalFacts, PasswordFacts
<1>4. AcDevice' /\ Unrevoked' = Unrevoked
  BY <1>1, <1>2, <1>3, SameDevice
<1>5. AcReset'
  BY <1>2 DEF AcReset, ResetEndsSessions
<1> HIDE DEF k
<1>6. /\ links \in [Links -> {"none", "pending", "expired", "used"}]
      /\ links' \in [Links -> {"none", "pending", "expired", "used"}]
      /\ Pending' = Pending \ {k} /\ k \in Links /\ links[k] = "pending"
      /\ uses \in [Links -> Nat] /\ alone \subseteq Procs
  BY <1>1 DEF AcInv, TypeOK, Pending
<1>7. \A r \in Procs : pc'[r] \in {"reset", "insert_link"}
                         => r # q /\ pc[r] = pc'[r] /\ loc'[r] = loc[r]
  BY <1>2 DEF Moves
<1>8. \A r \in Procs \ {q} : pc[r] = "reset" => loc[r].link # k
  BY <1>1 DEF AcInv, AcLinks, k
<1>9. AcLinks'
  <2>1. ASSUME NEW j \in Links
        PROVE  uses'[j] <= 1 /\ (uses'[j] = 1 => links'[j] = "used")
    <3>1. uses[j] \in Nat /\ uses[j] <= 1 /\ (uses[j] = 1 => links[j] = "used")
      BY <1>6 DEF AcInv, AcLinks
    <3>2. CASE j = k
      BY <1>1, <1>6, <3>1, <3>2
    <3>3. CASE j # k
      BY <1>1, <1>6, <3>1, <3>3
    <3> QED BY <3>2, <3>3
  <2>2. \A a, b \in Procs : pc'[a] = "reset" /\ pc'[b] = "reset" /\ loc'[a].link = loc'[b].link
                              => a = b
    BY <1>7 DEF AcInv, AcLinks
  <2>3. ASSUME ~forked
        PROVE  /\ \A i, j \in Pending' : i = j
               /\ \A a \in alone' : pc'[a] = "insert_link" => Pending' = {}
    BY <1>2, <1>6, <1>7, <2>3 DEF AcInv, AcLinks
  <2> QED BY <1>1, <2>1, <2>2, <2>3 DEF AcLinks
<1>10. AcKinds'
  BY <1>2 DEF AcInv, AcKinds, Moves
<1>11. TypeOK'
  <2>1. \A r \in Procs : pc'[r] = "reset" => loc'[r].link \in Pending'
    BY <1>6, <1>7, <1>8 DEF AcInv, TypeOK
  <2>2. uses' \in [Links -> Nat]
    BY <1>1, <1>6
  <2> QED BY <1>1, <1>2, <1>3, <1>6, <2>1, <2>2 DEF AcInv, TypeOK
<1> QED BY <1>2, <1>3, <1>4, <1>5, <1>9, <1>10, <1>11 DEF AcInv

\* A query throws: what was to end the sessions leaves them stale.
LEMMA FailKeeps ==
  ASSUME AcInv, NEW q \in Procs, Fail(q)
  PROVE  AcInv'
<1>1. /\ pc[q] # "idle" /\ faults' = faults + 1 /\ late' = late \ {q}
      /\ stale' = (IF pc[q] \in {"admin_delete", "revoke_all"} THEN stale \cup Unrevoked
                                                              ELSE stale)
      /\ UNCHANGED <<hash, password, split, links, forked, uses, sessions, by, crowded, multi,
                     ops>>
      /\ pc' = [pc EXCEPT ![q] = "idle"] /\ loc' = [loc EXCEPT ![q] = NoLocal]
      /\ alone' = alone \ {q}
  BY DEF Fail, NoRowChange, NoLinkChange
<1>2. /\ pc' \in [Procs -> Steps] /\ loc' \in [Procs -> Local] /\ alone' \subseteq Procs
      /\ pc'[q] = "idle" /\ loc'[q] = NoLocal /\ Moves(q)
      /\ alone' \subseteq alone /\ AcAlone'
  BY <1>1, ReturnFacts
<1>3. AcAuth' /\ AcRows' /\ (Registered' <=> Registered)
  BY <1>1, <1>2, NoLocalFacts, SameRows
<1>4. AcDevice' /\ Unrevoked' = Unrevoked
  BY <1>1, <1>2, <1>3, SameDevice
<1>5. AcReset'
  <2>1. CASE pc[q] \in {"admin_delete", "revoke_all"}
    BY <1>1, <1>4, <2>1 DEF AcReset, ResetEndsSessions
  <2>2. CASE pc[q] \notin {"admin_delete", "revoke_all"}
    BY <1>1, <1>2, <1>3, <2>2, SameSessions
  <2> QED BY <2>1, <2>2
<1>6. /\ AcLinks' /\ Pending' = Pending
      /\ \A r \in Procs : pc'[r] = "reset" => loc'[r].link \in Pending'
  BY <1>1, <1>2, SameLinks
<1>7. AcKinds'
  BY <1>2 DEF AcInv, AcKinds, Moves
<1>8. faults' \in Nat /\ late' \subseteq Procs /\ stale' \subseteq Sids
  BY <1>1 DEF AcInv, TypeOK, Unrevoked
<1>9. TypeOK'
  BY <1>1, <1>2, <1>6, <1>8 DEF AcInv, TypeOK
<1> QED BY <1>2, <1>3, <1>4, <1>5, <1>6, <1>7, <1>9 DEF AcInv
-----------------------------------------------------------------------------
\* What takes one query leaves every request where it is.
LEMMA SingleFacts ==
  ASSUME AcInv, Single, password' = password, late \subseteq late'
  PROVE  AcAlone' /\ AcKinds' /\ AcAuth'
<1>1. pc' = pc /\ loc' = loc /\ alone' = alone /\ password' = password /\ late \subseteq late'
  BY DEF Single
<1>2. AcAlone' /\ AcKinds'
  BY <1>1 DEF AcInv, AcAlone, AcKinds
<1>3. AcAuth'
  BY <1>1 DEF AcInv, AcAuth
<1> QED BY <1>2, <1>3

\* A session ends, is touched, or is left alone for long: none is opened.
LEMMA SessionKeeps ==
  ASSUME AcInv, RevokeSession \/ AuthenticateToken \/ BecomeIdle
  PROVE  AcInv'
<1>1. /\ Single /\ UNCHANGED <<hash, password, split, links, forked, uses, ops, multi, late, by,
                               crowded, stale>>
  BY DEF RevokeSession, AuthenticateToken, BecomeIdle, NoRowChange, NoLinkChange
<1>2. /\ sessions' \in [Sids -> {"none", "live", "idle", "revoked"}]
      /\ Unrevoked' \subseteq Unrevoked
  <2>1. sessions \in [Sids -> {"none", "live", "idle", "revoked"}]
    BY DEF AcInv, TypeOK
  <2>2. \E s \in Unrevoked, x \in {"live", "idle", "revoked"} :
          sessions' = [sessions EXCEPT ![s] = x]
    BY DEF RevokeSession, AuthenticateToken, BecomeIdle, Unrevoked, Live
  <2> QED BY <2>1, <2>2 DEF Unrevoked
<1>3. pc' = pc /\ loc' = loc /\ faults' = faults /\ alone' = alone
  BY <1>1 DEF Single
<1>4. AcAlone' /\ AcKinds' /\ AcAuth'
  BY <1>1, SingleFacts
<1>5. TypeOK'
  BY <1>1, <1>2, <1>3 DEF AcInv, TypeOK, Pending
<1>6. AcDevice'
  <2>1. Registered' <=> Registered
    BY <1>1 DEF Registered, RowExists
  <2> QED BY <1>1, <1>2, <1>3, <2>1 DEF AcInv, AcDevice
<1>7. AcReset'
  BY <1>1, <1>2, <1>3 DEF AcInv, AcReset, ResetEndsSessions
<1>8. AcRows' /\ AcLinks'
  BY <1>1, <1>3 DEF AcInv, AcRows, RowExists, AcLinks, Pending
<1> QED BY <1>4, <1>5, <1>6, <1>7, <1>8 DEF AcInv

\* A link expires, unless it is in use.
LEMMA ExpireLinkKeeps ==
  ASSUME AcInv, ExpireLink
  PROVE  AcInv'
<1>1. /\ Single /\ UNCHANGED <<hash, password, split, sessions, by, crowded, stale, ops, multi,
                               late, forked, uses>>
  BY DEF ExpireLink, NoRowChange, NoSessionChange
<1>2. PICK k \in Pending : ~Locked(k) /\ links' = [links EXCEPT ![k] = "expired"]
  BY DEF ExpireLink
<1>3. /\ links \in [Links -> {"none", "pending", "expired", "used"}]
      /\ links' \in [Links -> {"none", "pending", "expired", "used"}]
      /\ Pending' = Pending \ {k} /\ k \in Links
      /\ \A j \in Links : links[j] = "used" => links'[j] = "used"
  BY <1>2 DEF AcInv, TypeOK, Pending
<1>4. pc' = pc /\ loc' = loc /\ faults' = faults /\ alone' = alone
  BY <1>1 DEF Single
<1>5. AcAlone' /\ AcKinds' /\ AcAuth'
  BY <1>1, SingleFacts
<1>6. TypeOK'
  <2>1. \A q \in Procs : pc'[q] = "reset" => loc'[q].link \in Pending'
    BY <1>2, <1>3, <1>4 DEF AcInv, TypeOK, Locked
  <2> QED BY <1>1, <1>3, <1>4, <2>1 DEF AcInv, TypeOK
<1>7. AcDevice' /\ AcReset' /\ AcRows'
  BY <1>1, <1>4 DEF AcInv, AcDevice, AcReset, ResetEndsSessions, AcRows, Registered, RowExists,
                    Unrevoked
<1>8. AcLinks'
  BY <1>1, <1>3, <1>4 DEF AcInv, AcLinks
<1> QED BY <1>5, <1>6, <1>7, <1>8 DEF AcInv

\* Another plan: the gate asks for it anew each time.
LEMMA ChangePlanKeeps ==
  ASSUME AcInv, ChangePlan
  PROVE  AcInv'
<1>1. /\ Single /\ ops' = ops + 1 /\ multi' = ~multi
      /\ UNCHANGED <<hash, password, split, sessions, by, crowded, stale, late, links, forked,
                     uses>>
  BY DEF ChangePlan, Ask, NoRowChange, NoSessionChange, NoLinkChange
<1>2. pc' = pc /\ loc' = loc /\ faults' = faults /\ alone' = alone
  BY <1>1 DEF Single
<1>3. AcAlone' /\ AcKinds' /\ AcAuth'
  BY <1>1, SingleFacts
<1>4. TypeOK'
  <2>1. ops' \in Nat /\ multi' \in BOOLEAN
    BY <1>1 DEF AcInv, TypeOK
  <2> QED BY <1>1, <1>2, <2>1 DEF AcInv, TypeOK, Pending
<1>5. AcDevice' /\ AcReset' /\ AcRows'
  BY <1>1, <1>2 DEF AcInv, AcDevice, AcReset, ResetEndsSessions, AcRows, Registered, RowExists,
                    Unrevoked
<1>6. AcLinks'
  BY <1>1, <1>2 DEF AcInv, AcLinks, Pending
<1> QED BY <1>3, <1>4, <1>5, <1>6 DEF AcInv

\* A row goes with its workspace; the last one leaves sessions nobody asks about.
LEMMA LoseWorkspaceKeeps ==
  ASSUME AcInv, LoseWorkspace
  PROVE  AcInv'
<1>1. /\ Single /\ ops' = ops + 1
      /\ UNCHANGED <<multi, late, password, split, sessions, by, stale, links, forked, uses>>
  BY DEF LoseWorkspace, Ask, NoLinkChange
<1>2. PICK r \in Rows :
        /\ RowExists(r) /\ hash' = [hash EXCEPT ![r] = Absent]
        /\ crowded' = (crowded \/ \A t \in Rows \ {r} : ~RowExists(t))
  BY DEF LoseWorkspace
<1>3. /\ hash \in [Rows -> Nat \cup {Absent}] /\ hash' \in [Rows -> Nat \cup {Absent}]
      /\ \A t \in Rows : /\ RowExists(t)' <=> RowExists(t) /\ t # r
                         /\ t # r => hash'[t] = hash[t]
  BY <1>2 DEF AcInv, TypeOK, RowExists
<1>4. pc' = pc /\ loc' = loc /\ faults' = faults /\ alone' = alone
  BY <1>1 DEF Single
<1>5. AcAlone' /\ AcKinds' /\ AcAuth'
  BY <1>1, SingleFacts
<1>6. TypeOK'
  <2>1. ops' \in Nat
    BY <1>1 DEF AcInv, TypeOK
  <2>2. crowded' \in BOOLEAN
    BY <1>2 DEF AcInv, TypeOK
  <2> QED BY <1>1, <1>3, <1>4, <2>1, <2>2 DEF AcInv, TypeOK, Pending
<1>7. AcDevice'
  <2>1. ~crowded' => ~crowded /\ Registered'
    BY <1>2, <1>3 DEF Registered
  <2>2. Unrevoked' = Unrevoked
    BY <1>1 DEF Unrevoked
  <2> QED BY <1>4, <2>1, <2>2 DEF AcInv, AcDevice
<1>8. AcReset'
  BY <1>1, <1>4 DEF AcInv, AcReset, ResetEndsSessions, Unrevoked
<1>9. AcRows'
  BY <1>1, <1>3, <1>4 DEF AcInv, AcRows
<1>10. AcLinks'
  BY <1>1, <1>4 DEF AcInv, AcLinks, Pending
<1> QED BY <1>5, <1>6, <1>7, <1>8, <1>9, <1>10 DEF AcInv

\* Everything of the e-mail is gone, and what is at work is late.
LEMMA PurgeAccountKeeps ==
  ASSUME AcInv, PurgeAccount
  PROVE  AcInv'
<1>1. /\ Single /\ ops' = ops + 1 /\ RevokeSessionsForEmail /\ \A k \in Links : ~Locked(k)
      /\ hash' = [r \in Rows |-> Absent] /\ split' = FALSE /\ forked' = FALSE
      /\ links' = [k \in Links |-> IF links[k] = "none" THEN "none" ELSE "used"]
      /\ late' = late \cup {r \in Procs : pc[r] # "idle"}
      /\ UNCHANGED <<multi, password, uses>>
  BY DEF PurgeAccount, Ask
<1>2. pc' = pc /\ loc' = loc /\ faults' = faults /\ alone' = alone
  BY <1>1 DEF Single
<1>3. AcAlone' /\ AcKinds' /\ AcAuth'
  BY <1>1, SingleFacts
<1>4. /\ links \in [Links -> {"none", "pending", "expired", "used"}]
      /\ links' \in [Links -> {"none", "pending", "expired", "used"}]
      /\ Pending' = {}
      /\ \A k \in Links : links[k] = "used" => links'[k] = "used"
  BY <1>1 DEF AcInv, TypeOK, Pending
<1>5. \A q \in Procs : pc[q] # "reset"
  BY <1>1 DEF AcInv, TypeOK, Locked, Pending
<1>6. TypeOK' /\ AcDevice' /\ AcReset'
  <2>1. ops' \in Nat /\ late' \subseteq Procs /\ hash' \in [Rows -> Nat \cup {Absent}]
    BY <1>1 DEF AcInv, TypeOK
  <2> QED BY <1>1, <1>2, <1>4, <1>5, <2>1, RevokeFacts DEF AcInv, TypeOK
<1>7. AcRows'
  BY <1>1, <1>2 DEF AcRows, RowExists
<1>8. AcLinks'
  BY <1>1, <1>2, <1>4, <1>5 DEF AcInv, AcLinks
<1> QED BY <1>3, <1>6, <1>7, <1>8 DEF AcInv

\* Every step keeps the invariant.
LEMMA StepKeeps == AcInv /\ [Next]_vars => AcInv'
<1> SUFFICES ASSUME AcInv, [Next]_vars PROVE AcInv'
  OBVIOUS
<1>1. CASE UNCHANGED vars
  BY <1>1 DEF vars, history, AcInv, TypeOK, AcAlone, AcKinds, AcAuth, AcDevice, AcReset, AcRows,
              AcLinks, ResetEndsSessions, Unrevoked, Pending, Registered, RowExists
<1>2. ASSUME NEW q \in Procs, Request(q) \/ Fail(q)
      PROVE  AcInv'
  BY <1>2, RequestKeeps, FailKeeps
<1>3. ASSUME NEW q \in Procs, Step(q)
      PROVE  AcInv'
  BY <1>3, GatePlanKeeps, GateLiveKeeps, GateRevokeKeeps, CreateSessionKeeps, InsertRowKeeps,
     JoinRowKeeps, UpdatePasswordKeeps, AdminUpdateKeeps, EndSessionsKeeps,
     InvalidateLinksKeeps, InsertLinkKeeps, CommitResetKeeps DEF Step
<1>4. CASE RevokeSession \/ AuthenticateToken \/ BecomeIdle \/ ExpireLink
  BY <1>4, SessionKeeps, ExpireLinkKeeps
<1>5. CASE ChangePlan \/ LoseWorkspace \/ PurgeAccount
  BY <1>5, ChangePlanKeeps, LoseWorkspaceKeeps, PurgeAccountKeeps
<1> QED BY <1>1, <1>2, <1>3, <1>4, <1>5 DEF Next

\* The invariant of an account's credentials.
LEMMA Invariant == Spec => []AcInv
BY InitHolds, StepKeeps, PTL DEF Spec

-----------------------------------------------------------------------------
\* Every variable has its type, and a link that is being used is a pending one.
THEOREM TypeCorrect == Spec => []TypeOK
<1>1. AcInv => TypeOK
  BY DEF AcInv
<1> QED BY <1>1, Invariant, PTL

\* The device gate keeps an account at one usable session (sessions.js, startSession),
\* outside the windows the history names.
THEOREM OneDevice == Spec => []SingleDevice
<1>1. AcInv => SingleDevice
  BY DEF AcInv, AcDevice, SingleDevice
<1> QED BY <1>1, Invariant, PTL

\* No session of an earlier password survives a completed reset (passwordReset.js).
THEOREM ResetsEndSessions == Spec => []ResetEndsSessions
<1>1. AcInv => ResetEndsSessions
  BY DEF AcInv, AcReset
<1> QED BY <1>1, Invariant, PTL

\* All rows of an account have one hash (changeUserPassword.js, workspaces.js).
THEOREM OnePassword == Spec => []PasswordShared
<1>1. AcInv => PasswordShared
  BY DEF AcInv, AcRows, PasswordShared
<1> QED BY <1>1, Invariant, PTL

\* One reset link works at a time (passwordReset.js, requestPasswordReset).
THEOREM OneWorkingLink == Spec => []NewestLinkOnly
<1>1. AcInv => NewestLinkOnly
  BY DEF AcInv, AcLinks, NewestLinkOnly
<1> QED BY <1>1, Invariant, PTL

\* A link sets one password at most (passwordReset.js, resetPassword, FOR UPDATE).
THEOREM LinksUsedOnce == Spec => []LinkSingleUse
<1>1. AcInv => LinkSingleUse
  BY DEF AcInv, AcLinks, LinkSingleUse
<1> QED BY <1>1, Invariant, PTL
=============================================================================
