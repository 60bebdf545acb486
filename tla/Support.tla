------------------------------- MODULE Support -------------------------------
(***************************************************************************)
(* Support chat.  A user opens a session and writes into it                *)
(* (userSupport.js); the operator answers and closes it (admin/support.js).*)
(* What a side has not read is not stored: each side of a session has the  *)
(* time of its last reading, and the badges count the other side's         *)
(* messages of a later second.                                             *)
(***************************************************************************)
EXTENDS Integers, Sequences

CONSTANTS
  ChatUsers, NoUser, \* users.id values: a person has one per workspace
  SupportProcs,    \* requests that can be at work at once
  MaxSessions,     \* bound
  MaxMessages,     \* bound
  MaxSeconds,      \* bound: seconds of a behaviour
  MaxSupportOps    \* bound: requests

ASSUME SupportConstants ==
  /\ NoUser \notin ChatUsers
  /\ MaxSessions \in Nat /\ MaxMessages \in Nat /\ MaxSupportOps \in Nat
  /\ MaxSeconds \in Nat \ {0}

VARIABLES
  chatUsers,       \* users whose row is there
  sessions,        \* support_sessions, by id
  messages,        \* support_messages, by id
  now,             \* NOW(), a DATETIME: in seconds
  spc, sloc,       \* each request's step and what it holds
  supportOps,      \* requests begun
  \* history
  shown,           \* messages the other side has been sent
  overlooked,      \* messages marked as read although they were not
  doubled          \* users who opened two sessions at the same time

supportVars == <<chatUsers, sessions, messages, now, spc, sloc, supportOps, shown,
                 overlooked, doubled>>

Sides    == {"user", "admin"}
NullTime == 0
Session  == [user : ChatUsers \cup {NoUser}, open : BOOLEAN, read : [Sides -> 0..MaxSeconds]]
Message  == [session : 1..MaxSessions, sender : Sides, at : 1..MaxSeconds]
NoChat   == [side |-> "user", user |-> NoUser, session |-> 0, sends |-> FALSE, list |-> {}]

SupportTypeOK ==
  /\ chatUsers \subseteq ChatUsers /\ now \in 1..MaxSeconds
  /\ sessions \in Seq(Session) /\ Len(sessions) <= MaxSessions
  /\ messages \in Seq(Message) /\ Len(messages) <= MaxMessages
  /\ \A m \in DOMAIN messages : messages[m].session \in DOMAIN sessions
  /\ \A s \in DOMAIN sessions : sessions[s].user \in chatUsers \cup {NoUser}
  /\ spc \in [SupportProcs -> {"idle", "find", "open", "check", "select", "insert", "mark"}]
  /\ sloc \in [SupportProcs -> [side : Sides, user : ChatUsers \cup {NoUser},
                 session : 0..MaxSessions, sends : BOOLEAN, list : SUBSET (1..MaxMessages)]]
  /\ shown \subseteq DOMAIN messages /\ overlooked \subseteq DOMAIN messages
  /\ doubled \subseteq ChatUsers

SupportInit ==
  /\ chatUsers = ChatUsers /\ sessions = <<>> /\ messages = <<>> /\ now = 1
  /\ spc = [q \in SupportProcs |-> "idle"] /\ sloc = [q \in SupportProcs |-> NoChat]
  /\ supportOps = 0 /\ shown = {} /\ overlooked = {} /\ doubled = {}

-----------------------------------------------------------------------------
OtherSide(side)   == IF side = "user" THEN "admin" ELSE "user"
SessionsOf(u)     == {s \in DOMAIN sessions : sessions[s].user = u /\ sessions[s].open}
MessagesFor(side, s) ==
  {m \in DOMAIN messages : messages[m].session = s /\ messages[m].sender = OtherSide(side)}

\* created_at > the side's last reading, or it never read.
UnreadIn(side, s) == {m \in MessagesFor(side, s) : messages[m].at > sessions[s].read[side]}

\* ORDER BY id DESC LIMIT 1.
FindOpenSession(u) == CHOOSE s \in SessionsOf(u) : \A r \in SessionsOf(u) : r <= s

\* The badges: of the user's open session; of a row in the operator's queue, open or
\* closed; of the operator's sidebar, which counts open sessions.
GetUnread(u)    == IF SessionsOf(u) = {} THEN {} ELSE UnreadIn("user", FindOpenSession(u))
ListedUnread(s) == UnreadIn("admin", s)
GetInboxUnread  == {s \in DOMAIN sessions : sessions[s].open /\ UnreadIn("admin", s) # {}}

ChatStep(q, step, l) == spc' = [spc EXCEPT ![q] = step] /\ sloc' = [sloc EXCEPT ![q] = l]
ChatDone(q)          == ChatStep(q, "idle", NoChat)
ChatBegin(q, step, l) ==
  /\ spc[q] = "idle" /\ supportOps < MaxSupportOps /\ supportOps' = supportOps + 1
  /\ ChatStep(q, step, l)
  /\ UNCHANGED <<chatUsers, sessions, messages, now, shown, overlooked, doubled>>
ChatRead == UNCHANGED <<chatUsers, sessions, messages, now, supportOps, overlooked, doubled>>

-----------------------------------------------------------------------------
(* Opening and closing.                                                     *)

OpenSession(q) == \E u \in chatUsers : ChatBegin(q, "find", [NoChat EXCEPT !.user = u])

\* An open session is resumed; otherwise one is made, after the name is looked up.
ResumeOrOpen(q) ==
  /\ spc[q] = "find"
  /\ IF SessionsOf(sloc[q].user) # {} THEN ChatDone(q) ELSE ChatStep(q, "open", sloc[q])
  /\ ChatRead /\ UNCHANGED shown

\* The foreign key refuses a user deleted meanwhile.
InsertSession(q) ==
  LET u == sloc[q].user IN
  /\ spc[q] = "open" /\ Len(sessions) < MaxSessions
  /\ IF u \notin chatUsers THEN UNCHANGED <<sessions, doubled>>
     ELSE /\ sessions' = Append(sessions, [user |-> u, open |-> TRUE,
                                           read |-> [x \in Sides |-> NullTime]])
          /\ doubled' = IF SessionsOf(u) # {} THEN doubled \cup {u} ELSE doubled
  /\ ChatDone(q) /\ UNCHANGED <<chatUsers, messages, now, supportOps, shown, overlooked>>

CloseSession ==
  /\ \E s \in DOMAIN sessions : sessions[s].open /\ sessions' = [sessions EXCEPT ![s].open = FALSE]
  /\ UNCHANGED <<chatUsers, messages, now, spc, sloc, supportOps, shown, overlooked, doubled>>

-----------------------------------------------------------------------------
(* Reading and writing.  Both sides check the session first: the user's     *)
(* own, open one; for the operator one that is there, open if to write.     *)

ChatCheck(q) ==
  LET l == sloc[q] IN
  /\ spc[q] = "check"
  /\ IF \/ l.side = "user" /\ (sessions[l.session].user # l.user \/ ~sessions[l.session].open)
        \/ l.side = "admin" /\ l.sends /\ ~sessions[l.session].open
     THEN ChatDone(q)
     ELSE ChatStep(q, IF l.sends THEN "insert" ELSE "select", l)
  /\ ChatRead /\ UNCHANGED shown

\* getMessages of the user, getSession of the operator.
GetMessages(q) ==
  \E s \in DOMAIN sessions :
    \/ \E u \in chatUsers : ChatBegin(q, "check", [NoChat EXCEPT !.user = u, !.session = s])
    \/ ChatBegin(q, "check", [NoChat EXCEPT !.side = "admin", !.session = s])

SelectMessages(q) ==
  LET l == sloc[q]
      seen == MessagesFor(l.side, l.session) IN
  /\ spc[q] = "select"
  /\ ChatStep(q, "mark", [l EXCEPT !.list = seen])
  /\ ChatRead /\ UNCHANGED shown

SendMessage(q) ==
  \E s \in DOMAIN sessions :
    \/ \E u \in chatUsers :
         ChatBegin(q, "check", [NoChat EXCEPT !.user = u, !.session = s, !.sends = TRUE])
    \/ ChatBegin(q, "check", [NoChat EXCEPT !.side = "admin", !.session = s, !.sends = TRUE])

\* The session may have been closed since.  In the second in which the other side read
\* last, the message counts as read.  A deleted sender is refused by the foreign key.
InsertMessage(q) ==
  LET l == sloc[q]
      m == Len(messages) + 1 IN
  /\ spc[q] = "insert" /\ m <= MaxMessages
  /\ IF l.side = "user" /\ l.user \notin chatUsers
     THEN ChatDone(q) /\ UNCHANGED <<messages, overlooked>>
     ELSE /\ messages' = Append(messages, [session |-> l.session, sender |-> l.side, at |-> now])
          /\ overlooked' = IF sessions[l.session].read[OtherSide(l.side)] = now
                           THEN overlooked \cup {m} ELSE overlooked
          /\ ChatStep(q, "mark", l)
  /\ UNCHANGED <<chatUsers, sessions, now, supportOps, shown, doubled>>

\* Mutant: the reading of one side is kept as the other's.
MutMark(l) == [sessions EXCEPT ![l.session].read[OtherSide(l.side)] = now]

\* user_last_read_at or admin_last_read_at = NOW().
Mark(l) == [sessions EXCEPT ![l.session].read[l.side] = now]

\* Who writes is taken to have read all there is; who reads, what came since the SELECT.
MarkRead(q) ==
  LET l == sloc[q] IN
  /\ spc[q] = "mark"
  /\ sessions' = Mark(l)
  /\ shown' = shown \cup l.list
  /\ overlooked' = overlooked \cup (UnreadIn(l.side, l.session) \ (shown \cup l.list))
  /\ ChatDone(q) /\ UNCHANGED <<chatUsers, messages, now, supportOps, doubled>>

\* A query fails: a message may be in without the mark.
ChatFail(q) ==
  /\ spc[q] # "idle"
  /\ ChatDone(q) /\ ChatRead /\ UNCHANGED shown

-----------------------------------------------------------------------------
\* ON DELETE SET NULL: the transcript stays, nobody's.
DeleteChatUser ==
  /\ \E u \in chatUsers :
       /\ chatUsers' = chatUsers \ {u}
       /\ sessions' = [s \in DOMAIN sessions |->
            IF sessions[s].user = u THEN [sessions[s] EXCEPT !.user = NoUser] ELSE sessions[s]]
  /\ UNCHANGED <<messages, now, spc, sloc, supportOps, shown, overlooked, doubled>>

Second ==
  /\ now < MaxSeconds /\ now' = now + 1
  /\ UNCHANGED <<chatUsers, sessions, messages, spc, sloc, supportOps, shown, overlooked, doubled>>

SupportNext ==
  \/ \E q \in SupportProcs :
       \/ OpenSession(q) \/ ResumeOrOpen(q) \/ InsertSession(q)
       \/ GetMessages(q) \/ SendMessage(q) \/ ChatCheck(q)
       \/ SelectMessages(q) \/ InsertMessage(q) \/ MarkRead(q) \/ ChatFail(q)
  \/ CloseSession \/ DeleteChatUser \/ Second

SupportSpec == SupportInit /\ [][SupportNext]_supportVars

-----------------------------------------------------------------------------
(* Properties.                                                              *)

\* No message is lost between the two files: as long as the session is open, one that was
\* not shown to the other side shows in its badge ("drives the badge", userSupport.js;
\* "open sessions with unread user messages (admin sidebar badge)", admin/support.js).  One
\* of a user counts at its row of the operator's queue even when the session is closed; no
\* sidebar tells of it then.  Excepted are messages overlooked: those there when the other side wrote,
\* or that came between its SELECT and its mark or later in that second; and the older
\* session of a user who opened two at once, which no badge of the user is about ("AT MOST
\* ONE open session", userSupport.js).
NothingMissed ==
  \A m \in DOMAIN messages \ (shown \cup overlooked) :
    LET s == messages[m].session IN
    IF messages[m].sender = "user"
    THEN m \in ListedUnread(s) /\ (sessions[s].open => s \in GetInboxUnread)
    ELSE \/ ~sessions[s].open \/ sessions[s].user \in doubled \cup {NoUser}
         \/ m \in GetUnread(sessions[s].user)
=============================================================================
