------------------------------- MODULE Board -------------------------------
(***************************************************************************)
(* The feedback posts of one workspace and its roadmap.                    *)
(*                                                                         *)
(* A post has a status (the pipeline) and, on an axis of its own, a        *)
(* moderation state.  A roadmap item puts a post into a column, and a      *)
(* column whose key is a post status stands for that status: roadmapSync   *)
(* carries a change of either side to the other.  A request is a process   *)
(* of Procs, each awaited query one atomic step of it; the operations that *)
(* are a single query need no process.                                     *)
(*                                                                         *)
(* Left out as data: texts, types, priorities, pins, sort orders, release  *)
(* dates, tags, attachments and duplicate marks; who may ask (roles, plan) *)
(* and every refusal that changes no state.                                *)
(***************************************************************************)
EXTENDS Integers

CONSTANTS
  Procs,            \* concurrently running requests
  Posts,            \* ids AUTO_INCREMENT may give to posts,
  Items,            \*   to roadmap items,
  Columns,          \*   to roadmap columns
  Statuses,         \* POST_STATUSES
  Keys,             \* keys a column may have: statuses and others ("backlog")
  Seed,             \* the columns createWorkspace makes, with their keys
  Hide,             \* HIDE_THRESHOLD
  Scores,           \* what spamScore may answer
  MaxOps,           \* bound: requests
  MaxFaults,        \* bound: failed queries
  NoPost, NoItem, NoColumn

Open == "open"

ASSUME ConstantsOK ==
  /\ Open \in Statuses /\ "none" \notin Statuses \cup Keys
  /\ Seed \in [Columns -> Keys \cup {"none"}]
  /\ \A c, d \in Columns : Seed[c] = Seed[d] /\ Seed[c] # "none" => c = d
  /\ Scores \subseteq Nat /\ 0 \in Scores
  /\ Hide \in Nat \ {0}
  /\ MaxOps \in Nat /\ MaxFaults \in Nat
  /\ NoPost \notin Posts /\ NoItem \notin Items /\ NoColumn \notin Columns

VARIABLES
  posts, items,     \* the tables posts and roadmap_items
  keys,             \* roadmap_columns: column_key of each column
  pc, loc,          \* per process: next query, and what it knows by then
  ops, faults,
  \* History, for the properties only:
  loose,            \* posts whose last change was not carried over undisturbed
  alone,            \* requests nobody has disturbed since they began
  scored            \* what the classifier said when the post was made

history == <<loose, alone, scored>>
table   == <<posts, items, keys>>
vars    == <<table, pc, loc, ops, faults, history>>

-----------------------------------------------------------------------------
NoScore == -1      \* SQL NULL in spam_reviewed_score

Visibility == {"published", "pending", "spam"}
Post == [status : Statuses, moderation_state : Visibility \cup {"none", "deleted"},
         spam_score : Scores, spam_reviewed_score : Scores \cup {NoScore}, old : BOOLEAN]
NewPost(status, state, score) ==
  [status |-> status, moderation_state |-> state, spam_score |-> score,
   spam_reviewed_score |-> NoScore, old |-> FALSE]

\* An item's post never changes; a deleted one has lost its column.
Item == [post_id : Posts \cup {NoPost}, column : Columns \cup {NoColumn}]

ColumnKey == Keys \cup {"none", "deleted"}

PostExists(p)   == posts[p].moderation_state \in Visibility
ItemExists(i)   == items[i].column # NoColumn
ColumnExists(c) == keys[c] \notin {"none", "deleted"}
OnRoadmap(p)    == \E i \in Items : ItemExists(i) /\ items[i].post_id = p

\* What a request knows: its item, post and column, and the status it will write.
Local == [item : Items \cup {NoItem}, post : Posts \cup {NoPost},
          column : Columns \cup {NoColumn}, status : Statuses]
Knows(i, p, c, s) == [item |-> i, post |-> p, column |-> c, status |-> s]
NoLocal == Knows(NoItem, NoPost, NoColumn, Open)

Steps == {"idle", "item_post", "column_key", "set_status", "delete_item", "open_post",
          "find_column", "move_item"}

TypeOK ==
  /\ posts \in [Posts -> Post]
  /\ items \in [Items -> Item]
  /\ keys \in [Columns -> ColumnKey]
  /\ \A i \in Items : ItemExists(i) =>
       /\ items[i].post_id # NoPost /\ PostExists(items[i].post_id)
       /\ ColumnExists(items[i].column)
  /\ pc \in [Procs -> Steps] /\ loc \in [Procs -> Local]
  /\ ops \in Nat /\ faults \in Nat
  /\ loose \subseteq Posts /\ alone \subseteq Procs
  /\ scored \in [Posts -> Scores]

Init ==
  /\ posts = [p \in Posts |-> NewPost(Open, "none", 0)]
  /\ items = [i \in Items |-> [post_id |-> NoPost, column |-> NoColumn]]
  /\ keys = Seed
  /\ pc = [q \in Procs |-> "idle"] /\ loc = [q \in Procs |-> NoLocal]
  /\ ops = 0 /\ faults = 0
  /\ loose = {} /\ alone = {} /\ scored = [p \in Posts |-> 0]

-----------------------------------------------------------------------------
(* Pieces shared by the requests.                                           *)

Ask == ops < MaxOps /\ ops' = ops + 1

\* The post a running request is about.
Busy(q, p) == pc[q] # "idle" /\ loc[q].post = p

Begin(q, step, l) ==
  /\ pc[q] = "idle" /\ Ask
  /\ pc' = [pc EXCEPT ![q] = step] /\ loc' = [loc EXCEPT ![q] = l]
  /\ loose' = loose \cup {l.post}
  /\ LET others == {r \in Procs : Busy(r, l.post)} IN
       alone' = (alone \ others) \cup (IF others = {} THEN {q} ELSE {})
  /\ UNCHANGED <<faults, scored>>

Goto(q, step, l) ==
  /\ pc' = [pc EXCEPT ![q] = step] /\ loc' = [loc EXCEPT ![q] = l]
  /\ UNCHANGED <<ops, faults, history>>

\* The request returns; if it ran undisturbed, both sides of its post now agree.
Return(q) ==
  /\ pc' = [pc EXCEPT ![q] = "idle"] /\ loc' = [loc EXCEPT ![q] = NoLocal]
  /\ loose' = IF q \in alone THEN loose \ {loc[q].post} ELSE loose
  /\ alone' = alone \ {q}
  /\ UNCHANGED <<ops, faults, scored>>

\* The request returns without having carried its change over.
GiveUp(q) ==
  /\ pc' = [pc EXCEPT ![q] = "idle"] /\ loc' = [loc EXCEPT ![q] = NoLocal]
  /\ alone' = alone \ {q}
  /\ UNCHANGED <<ops, loose, scored>>

\* ON DELETE CASCADE: a post or column takes its roadmap items with it.
Without(lost) ==
  [i \in Items |-> IF i \in lost THEN [items[i] EXCEPT !.column = NoColumn] ELSE items[i]]

-----------------------------------------------------------------------------
(* The roadmap side: add, move and remove an item.                          *)

\* The unique key on the post and the foreign keys refuse any other insert.
AddItemToRoadmap(q) ==
  \E p \in Posts, c \in Columns, i \in Items :
    /\ PostExists(p) /\ ColumnExists(c) /\ ~OnRoadmap(p)
    /\ items[i].post_id = NoPost
    /\ Begin(q, "column_key", Knows(i, p, c, Open))
    /\ items' = [items EXCEPT ![i] = [post_id |-> p, column |-> c]]
    /\ UNCHANGED <<posts, keys>>

UpdateRoadmapItem(q) ==
  \E i \in Items, c \in Columns :
    /\ ItemExists(i) /\ ColumnExists(c)
    /\ Begin(q, "item_post", Knows(i, items[i].post_id, c, Open))
    /\ items' = [items EXCEPT ![i].column = c]
    /\ UNCHANGED <<posts, keys>>

ItemPost(q) ==
  /\ pc[q] = "item_post"
  /\ IF ItemExists(loc[q].item) THEN Goto(q, "column_key", loc[q]) ELSE Return(q)
  /\ UNCHANGED table

\* syncPostStatusToColumn: a column that is gone or stands for no status ends it.
SyncColumnKey(q) ==
  /\ pc[q] = "column_key"
  /\ LET key == keys[loc[q].column] IN
       IF key \in Statuses THEN Goto(q, "set_status", [loc[q] EXCEPT !.status = key])
       ELSE Return(q)
  /\ UNCHANGED table

\* An UPDATE of a post that is gone changes nothing.
SyncPostStatus(q) ==
  /\ pc[q] = "set_status"
  /\ posts' = IF PostExists(loc[q].post)
              THEN [posts EXCEPT ![loc[q].post].status = loc[q].status] ELSE posts
  /\ Return(q)
  /\ UNCHANGED <<items, keys>>

RemoveItemFromRoadmap(q) ==
  \E i \in Items :
    /\ ItemExists(i)
    /\ Begin(q, "delete_item", Knows(i, items[i].post_id, NoColumn, Open))
    /\ UNCHANGED table

DeleteItem(q) ==
  /\ pc[q] = "delete_item"
  /\ IF ItemExists(loc[q].item) THEN Goto(q, "open_post", loc[q]) ELSE Return(q)
  /\ items' = [items EXCEPT ![loc[q].item].column = NoColumn]
  /\ UNCHANGED <<posts, keys>>

ResetPostStatusToOpen(q) ==
  /\ pc[q] = "open_post"
  /\ posts' = IF PostExists(loc[q].post)
              THEN [posts EXCEPT ![loc[q].post].status = Open] ELSE posts
  /\ Return(q)
  /\ UNCHANGED <<items, keys>>

-----------------------------------------------------------------------------
(* The status side: updatePostStatus, and setPostStatus of the admin panel. *)

UpdatePostStatus(q) ==
  \E p \in Posts, s \in Statuses :
    /\ PostExists(p)
    /\ Begin(q, "find_column", Knows(NoItem, p, NoColumn, s))
    /\ posts' = [posts EXCEPT ![p].status = s]
    /\ UNCHANGED <<items, keys>>

\* syncRoadmapItemToStatus: without a matching column the item stays where it is.
FindColumn(q) ==
  /\ pc[q] = "find_column"
  /\ \/ \E c \in Columns :
          /\ keys[c] = loc[q].status
          /\ Goto(q, "move_item", [loc[q] EXCEPT !.column = c])
     \/ /\ \A c \in Columns : keys[c] # loc[q].status
        /\ GiveUp(q) /\ UNCHANGED faults
  /\ UNCHANGED table

\* Mutant: the item is left where it is.
MutMoveItem(q) ==
  /\ pc[q] = "move_item" /\ Return(q)
  /\ UNCHANGED table

\* A column deleted meanwhile fails the foreign key, if there is an item to move.
MoveItem(q) ==
  /\ pc[q] = "move_item"
  /\ ColumnExists(loc[q].column) \/ ~OnRoadmap(loc[q].post)
  /\ items' = [i \in Items |-> IF ItemExists(i) /\ items[i].post_id = loc[q].post
                               THEN [items[i] EXCEPT !.column = loc[q].column] ELSE items[i]]
  /\ Return(q)
  /\ UNCHANGED <<posts, keys>>

MoveRefused(q) ==
  /\ pc[q] = "move_item"
  /\ ~ColumnExists(loc[q].column) /\ OnRoadmap(loc[q].post)
  /\ GiveUp(q)
  /\ UNCHANGED <<table, faults>>

\* A query throws: roadmapSync swallows it, or the request is refused; what was
\* committed stays.
Fail(q) ==
  /\ pc[q] # "idle" /\ faults < MaxFaults
  /\ faults' = faults + 1
  /\ GiveUp(q)
  /\ UNCHANGED table

-----------------------------------------------------------------------------
(* Columns.                                                                 *)

Single == Ask /\ UNCHANGED <<pc, loc, faults>>

CreateRoadmapColumn ==
  \E c \in Columns, key \in Keys :
    /\ keys[c] = "none" /\ \A d \in Columns : keys[d] # key
    /\ keys' = [keys EXCEPT ![c] = key]
    /\ Single /\ UNCHANGED <<posts, items, history>>

DeleteRoadmapColumn ==
  \E c \in Columns :
    /\ ColumnExists(c)
    /\ keys' = [keys EXCEPT ![c] = "deleted"]
    /\ items' = Without({i \in Items : items[i].column = c})
    /\ Single /\ UNCHANGED <<posts, history>>

-----------------------------------------------------------------------------
(* Posts: create, moderate, delete, purge.                                  *)

ModerationStateFor(score) == IF score >= Hide THEN "spam" ELSE "published"

\* createPost (a member: any status, never scored) and createPublicPost (a guest).
CreatePost ==
  \E p \in Posts, status \in Statuses, score \in Scores :
    /\ posts[p].moderation_state = "none"
    /\ score = 0 \/ status = Open
    /\ posts' = [posts EXCEPT ![p] = NewPost(status, ModerationStateFor(score), score)]
    /\ scored' = [scored EXCEPT ![p] = score]
    /\ Single /\ UNCHANGED <<items, keys, loose, alone>>

\* Mutant: a second review overwrites the first score.
MutReviewed(post) ==
  [post EXCEPT !.moderation_state = "published",
               !.spam_reviewed_score = post.spam_score, !.spam_score = 0]

\* "Not spam": the first classifier score is kept, the running one cleared.
Reviewed(post) ==
  [post EXCEPT !.moderation_state = "published",
               !.spam_reviewed_score = IF @ = NoScore THEN post.spam_score ELSE @,
               !.spam_score = 0]

UpdatePostModeration ==
  \E p \in Posts, state \in Visibility :
    /\ PostExists(p)
    /\ posts' = [posts EXCEPT ![p] = IF state = "published" THEN Reviewed(@)
                                     ELSE [@ EXCEPT !.moderation_state = state]]
    /\ Single /\ UNCHANGED <<items, keys, history>>

\* Mutant: the roadmap items stay (no ON DELETE CASCADE).
MutDeletePosts(gone) ==
  /\ posts' = [p \in Posts |-> IF p \in gone THEN [posts[p] EXCEPT !.moderation_state = "deleted"]
                               ELSE posts[p]]
  /\ UNCHANGED <<items, keys, history>>

DeletePosts(gone) ==
  /\ posts' = [p \in Posts |-> IF p \in gone THEN [posts[p] EXCEPT !.moderation_state = "deleted"]
                               ELSE posts[p]]
  /\ items' = Without({i \in Items : items[i].post_id \in gone})
  /\ UNCHANGED <<keys, history>>

\* deletePost, deletePublicPost, the admin's deleteWorkspacePost: by id.  What they
\* check before (owner, plan, authorship) no other request changes.
DeletePost ==
  \E p \in Posts : PostExists(p) /\ DeletePosts({p}) /\ Single

\* clearWorkspaceFeedback: every post of the workspace in one statement.
ClearWorkspaceFeedback ==
  /\ \E p \in Posts : PostExists(p)
  /\ DeletePosts({p \in Posts : PostExists(p)}) /\ Single

Spam(p) == posts[p].moderation_state = "spam"

\* purgeSpamPosts: of the ids the owner ticked, or of those some days old.
PurgeSpamPosts ==
  \E ids \in SUBSET Posts :
    DeletePosts({p \in ids : Spam(p)}) /\ Single

\* purgeExpiredSpam, started by whoever opens the review queue.
PurgeExpiredSpam ==
  /\ \E p \in Posts : Spam(p) /\ posts[p].old
  /\ DeletePosts({p \in Posts : Spam(p) /\ posts[p].old})
  /\ UNCHANGED <<pc, loc, ops, faults>>

\* The retention period of a post has passed.
Age ==
  \E p \in Posts :
    /\ PostExists(p) /\ ~posts[p].old
    /\ posts' = [posts EXCEPT ![p].old = TRUE]
    /\ UNCHANGED <<items, keys, pc, loc, ops, faults, history>>

-----------------------------------------------------------------------------
Request(q) ==
  \/ AddItemToRoadmap(q) \/ UpdateRoadmapItem(q) \/ RemoveItemFromRoadmap(q)
  \/ UpdatePostStatus(q)

Step(q) ==
  \/ ItemPost(q) \/ SyncColumnKey(q) \/ SyncPostStatus(q) \/ DeleteItem(q)
  \/ ResetPostStatusToOpen(q) \/ FindColumn(q) \/ MoveItem(q) \/ MoveRefused(q)

Next ==
  \/ \E q \in Procs : Request(q) \/ Step(q) \/ Fail(q)
  \/ CreateRoadmapColumn \/ DeleteRoadmapColumn
  \/ CreatePost \/ UpdatePostModeration \/ DeletePost \/ ClearWorkspaceFeedback
  \/ PurgeSpamPosts \/ PurgeExpiredSpam \/ Age

Spec == Init /\ [][Next]_vars

-----------------------------------------------------------------------------
(* Properties.                                                              *)

\* roadmapSync "keeps a post's status and its roadmap position in sync": once the
\* last request about a post has run with no other request about that post under it,
\* the post's status is the one its column stands for, whatever columns, posts and
\* purges did meanwhile.  Excepted are posts whose last change was disturbed, failed
\* half-way, or was to a status that has no column.
StageFollows ==
  \A p \in Posts \ loose : \A i \in Items :
    (ItemExists(i) /\ items[i].post_id = p /\ keys[items[i].column] \in Statuses)
      => posts[p].status = keys[items[i].column]

\* However often a post is reviewed, hidden and published again, the score the
\* classifier gave it is still there: running until the first "not spam", reviewed
\* from then on (updatePostModeration, read by scripts/spam-report.js).
ScoreNeverLost ==
  \A p \in Posts : PostExists(p) =>
    scored[p] = IF posts[p].spam_reviewed_score = NoScore THEN posts[p].spam_score
                ELSE posts[p].spam_reviewed_score
=============================================================================
