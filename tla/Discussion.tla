----------------------------- MODULE Discussion -----------------------------
(***************************************************************************)
(* The comments below the posts of a board: those of the public portal     *)
(* (createPublicComment.js, publicOwnerActions.js), of the dashboard       *)
(* (main/comment), of the admin console (adminComments.js), and their      *)
(* retention (spamRetention.js).                                           *)
(*                                                                         *)
(* A comment is a row with a parent; deleting a row deletes what hangs     *)
(* from it (fk_comments_parent, fk_comments_post: ON DELETE CASCADE).      *)
(* Threads are to be two levels deep, but only the public portal sees to   *)
(* it: it climbs from the comment replied to up to the root, one query a   *)
(* level, while others delete.  Authors are left out (who may delete what  *)
(* never changes while a comment lives), quarantined posts are module      *)
(* Board's, and what the spam guard decides is module WriteGuard's: here a *)
(* public comment may be refused or enter in either state.  "pending" is   *)
(* treated as "published" by every query about comments.                   *)
(***************************************************************************)
EXTENDS Integers, FiniteSets

CONSTANTS
  MaxComments,     \* bound: comments in a behaviour; their ids are AUTO_INCREMENT
  MaxSpam,         \* bound: comments in quarantine at once
  Posts, NoPost,   \* posts of one workspace
  TalkProcs        \* public comment requests that can be at work at once

ASSUME DiscussionConstants == MaxComments \in Nat /\ MaxSpam \in Nat /\ NoPost \notin Posts

VARIABLES
  closed,          \* posts deleted
  comments,        \* [live comments -> rows]
  lastId,          \* AUTO_INCREMENT
  tpc, tloc,       \* each request's step and what it holds
  \* history
  crossed          \* a dashboard reply joined threads of two posts

talkVars == <<closed, comments, lastId, tpc, tloc, crossed>>

CommentIds == 1..MaxComments
NoComment  == 0            \* parent of a top-level comment

Row == [post : Posts, parent : CommentIds \cup {NoComment}, public : BOOLEAN,
        state : {"published", "spam"}]
NoTalk == [post |-> NoPost, at |-> NoComment]

Live == DOMAIN comments

TalkTypeOK ==
  /\ closed \subseteq Posts
  /\ lastId \in 0..MaxComments /\ Live \subseteq 1..lastId
  /\ comments \in [Live -> Row]
  /\ \A c \in Live : comments[c].parent \in Live \cup {NoComment}
                     /\ comments[c].post \notin closed
  /\ tpc \in [TalkProcs -> {"idle", "climb", "insert"}]
  /\ tloc \in [TalkProcs -> [post : Posts \cup {NoPost}, at : CommentIds \cup {NoComment}]]
  /\ crossed \in BOOLEAN

TalkInit ==
  /\ closed = {} /\ comments = << >> /\ lastId = 0
  /\ tpc = [q \in TalkProcs |-> "idle"] /\ tloc = [q \in TalkProcs |-> NoTalk]
  /\ crossed = FALSE

-----------------------------------------------------------------------------
Above(c) == comments[c].parent

\* Rows that go with those of S: ON DELETE CASCADE, level by level.
WithReplies(S) ==
  LET goes[c \in Live] ==      \* a reply is younger than what it answers
        c \in S \/ (Above(c) # NoComment /\ goes[Above(c)])
  IN  {c \in Live : goes[c]}

\* The states one more comment may take beside those of S, for MaxSpam.
StatesOf(S) == {"published"} \cup
  (IF Cardinality({c \in S : comments[c].state = "spam"}) < MaxSpam THEN {"spam"} ELSE {})

Keep(S) == [c \in S |-> comments[c]]
Remove(S) == comments' = Keep(Live \ WithReplies(S))

AddRow(row) ==
  /\ lastId < MaxComments /\ lastId' = lastId + 1
  /\ comments' = [c \in Live \cup {lastId'} |-> IF c = lastId' THEN row ELSE comments[c]]

TalkStep(q, step, l) ==
  /\ tpc' = [tpc EXCEPT ![q] = step] /\ tloc' = [tloc EXCEPT ![q] = l]

-----------------------------------------------------------------------------
(* The public portal.                                                       *)

\* The post is read, then the comment replied to, which must be of this post; the state
\* of that comment is not asked for.
CreatePublicComment(q) ==
  \E p \in Posts \ closed, c \in Live \cup {NoComment} :
    /\ tpc[q] = "idle" /\ lastId < MaxComments
    /\ c # NoComment => comments[c].post = p
    /\ TalkStep(q, IF c = NoComment THEN "insert" ELSE "climb",
                [post |-> p, at |-> c])
    /\ UNCHANGED <<closed, comments, lastId, crossed>>

\* Mutant: a reply joins the comment it answers.
MutClimb(q) ==
  /\ tpc[q] = "climb"
  /\ TalkStep(q, "insert", tloc[q])
  /\ UNCHANGED <<closed, comments, lastId, crossed>>

\* One turn of the loop.  parent_comment_id was read with the row and never changes; a
\* row that is gone ends the climb where it stands.
Climb(q) ==
  LET c == tloc[q].at IN
  /\ tpc[q] = "climb"
  /\ IF c \notin Live \/ Above(c) = NoComment
     THEN TalkStep(q, "insert", tloc[q])
     ELSE TalkStep(q, "climb", [tloc[q] EXCEPT !.at = Above(c)])
  /\ UNCHANGED <<closed, comments, lastId, crossed>>

\* The spam guard has let it through; a parent or a post deleted by now fails the INSERT.
InsertPublicComment(q) ==
  LET l == tloc[q] IN
  /\ tpc[q] = "insert"
  /\ IF l.post \in closed \/ l.at \notin Live \cup {NoComment}
     THEN UNCHANGED <<comments, lastId>>
     ELSE \E s \in StatesOf(Live) :
            AddRow([post |-> l.post, parent |-> l.at, public |-> TRUE, state |-> s])
  /\ TalkStep(q, "idle", NoTalk)
  /\ UNCHANGED <<closed, crossed>>

\* Discarded (honeypot), refused (429), or a query failed.
CommentRefused(q) ==
  /\ tpc[q] # "idle"
  /\ TalkStep(q, "idle", NoTalk)
  /\ UNCHANGED <<closed, comments, lastId, crossed>>

TalkRest == UNCHANGED <<tpc, tloc>>

\* Its comments go with it; publicOwnerActions for its author, the dashboard for a member.
DeletePost ==
  \E p \in Posts \ closed :
    /\ closed' = closed \cup {p}
    /\ Remove({c \in Live : comments[c].post = p})
    /\ UNCHANGED <<lastId, crossed>> /\ TalkRest

-----------------------------------------------------------------------------
(* The dashboard and the admin console.                                     *)

\* A member replies to any comment, of whatever post and at whatever depth: the request
\* is not checked, only that the parent exists (fk_comments_parent).
CreateComment ==
  \E p \in Posts \ closed, c \in Live \cup {NoComment} :
    /\ AddRow([post |-> p, parent |-> c, public |-> FALSE, state |-> "published"])
    /\ crossed' = (crossed \/ (c # NoComment /\ comments[c].post # p))
    /\ UNCHANGED closed /\ TalkRest

\* By its author (portal or dashboard), by the owner, or, with its replies named, by the
\* admin console.
DeleteComment ==
  \E c \in Live :
    /\ Remove({c}) /\ UNCHANGED <<closed, lastId, crossed>> /\ TalkRest

UpdateCommentModeration ==
  \E c \in Live : \E s \in StatesOf(Live \ {c}) :
    /\ s # comments[c].state
    /\ comments' = [comments EXCEPT ![c].state = s]
    /\ UNCHANGED <<closed, lastId, crossed>> /\ TalkRest

-----------------------------------------------------------------------------
(* Retention.                                                               *)

\* DELETE ... WHERE moderation_state = 'spam' AND created_at < ...: the ids follow the
\* clock.  Replies to the spam go too, published ones included.
PurgeSpamComments ==
  \E newest \in {c \in Live : comments[c].state = "spam"} :
    /\ Remove({c \in 1..newest \cap Live : comments[c].state = "spam"})
    /\ UNCHANGED <<closed, lastId, crossed>> /\ TalkRest

TalkNext ==
  \/ \E q \in TalkProcs :
       CreatePublicComment(q) \/ Climb(q) \/ InsertPublicComment(q) \/ CommentRefused(q)
  \/ DeletePost \/ CreateComment \/ DeleteComment \/ UpdateCommentModeration
  \/ PurgeSpamComments

TalkSpec == TalkInit /\ [][TalkNext]_talkVars

-----------------------------------------------------------------------------
(* Properties.                                                              *)

\* "A reply always attaches to the TOP-LEVEL comment", "a reply must target a comment on
\* this same post" (createPublicComment.js): however deep the dashboard has nested the
\* thread, and whatever is deleted, quarantined or purged while a visitor's request
\* climbs it.  A dashboard reply across two posts can take the climb to the other post.
RepliesInPlace ==
  \A c \in Live : (comments[c].public /\ Above(c) # NoComment) =>
    /\ Above(Above(c)) = NoComment
    /\ crossed \/ comments[Above(c)].post = comments[c].post
=============================================================================
