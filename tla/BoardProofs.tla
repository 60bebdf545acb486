---------------------------- MODULE BoardProofs ----------------------------
(***************************************************************************)
(* What Board guarantees for any number of posts, items, columns, requests *)
(* and failures: its types with the foreign keys, that status and roadmap  *)
(* position agree for every post whose last change ran undisturbed, and    *)
(* that no sequence of reviews loses the classifier's score.               *)
(***************************************************************************)
EXTENDS Board, TLAPS

-----------------------------------------------------------------------------
(* The inductive invariant.  Held says what a request's local knowledge is   *)
(* worth between two queries, Promise what it has achieved so far as long as *)
(* nobody disturbed it.                                                      *)

ByItem   == {"item_post", "column_key", "set_status", "delete_item", "open_post"}
ByColumn == {"item_post", "column_key", "set_status", "move_item"}

Held(step, l) ==
  /\ step # "idle" => l.post \in Posts /\ posts[l.post].moderation_state # "none"
  /\ step \in ByItem => l.item \in Items /\ items[l.item].post_id = l.post
  /\ step \in ByColumn => l.column \in Columns /\ keys[l.column] # "none"
  /\ step \in {"set_status", "move_item"} => keys[l.column] \in {l.status, "deleted"}

OfPost(i, p) == ItemExists(i) /\ items[i].post_id = p

Promise(step, l) ==
  /\ step \in {"item_post", "delete_item"} =>
       \A i \in Items : OfPost(i, l.post) => i = l.item
  /\ step \in {"item_post", "column_key", "set_status"} =>
       \A i \in Items : OfPost(i, l.post) => items[i].column = l.column
  /\ step = "open_post" => \A i \in Items : ~OfPost(i, l.post)
  /\ step \in {"find_column", "move_item"} => posts[l.post].status = l.status

InvHeld   == \A q \in Procs : Held(pc[q], loc[q])
InvUnique == \A i, j \in Items : ItemExists(i) /\ OfPost(j, items[i].post_id) => i = j
InvAlone  == /\ \A q \in Procs : pc[q] # "idle" => loc[q].post \in loose
             /\ \A q \in alone : pc[q] # "idle"
             /\ \A q \in alone, r \in Procs : Busy(r, loc[q].post) => r = q
InvStage  == StageFollows /\ \A q \in alone : Promise(pc[q], loc[q])

IInv == TypeOK /\ InvHeld /\ InvUnique /\ InvAlone /\ InvStage /\ ScoreNeverLost

-----------------------------------------------------------------------------
LEMMA InitOK == Init => IInv
<1> SUFFICES ASSUME Init PROVE IInv
  OBVIOUS
<1> USE ConstantsOK DEF Init
<1>1. TypeOK
  BY DEF TypeOK, Post, Item, ColumnKey, Local, NoLocal, Knows, NewPost, Steps, ItemExists, Open
<1>2. InvHeld /\ InvUnique /\ InvAlone
  BY DEF InvHeld, Held, ByItem, ByColumn, InvUnique, ItemExists, InvAlone
<1>3. InvStage /\ ScoreNeverLost
  BY DEF InvStage, StageFollows, ItemExists, ScoreNeverLost, PostExists, NewPost, Visibility
<1> QED
  BY <1>1, <1>2, <1>3 DEF IInv

-----------------------------------------------------------------------------
(* Types and foreign keys.                                                  *)

\* What a request knows stays well typed as it learns more.
LEMMA KnowsOK ==
  ASSUME NEW i \in Items \cup {NoItem}, NEW p \in Posts \cup {NoPost},
         NEW c \in Columns \cup {NoColumn}, NEW s \in Statuses
  PROVE  /\ Knows(i, p, c, s) \in Local
         /\ Knows(i, p, c, s).post = p /\ Knows(i, p, c, s).item = i
         /\ Knows(i, p, c, s).column = c /\ Knows(i, p, c, s).status = s
  BY DEF Knows, Local

LEMMA LocalOK ==
  ASSUME NEW l \in Local
  PROVE  /\ NoLocal \in Local
         /\ \A s \in Statuses : [l EXCEPT !.status = s] \in Local
         /\ \A c \in Columns : [l EXCEPT !.column = c] \in Local
  BY ConstantsOK DEF Local, NoLocal, Knows

\* The control state of a step keeps its type.
ControlOK == /\ pc \in [Procs -> Steps] /\ loc \in [Procs -> Local]
             /\ ops \in Nat /\ faults \in Nat /\ loose \subseteq Posts /\ alone \subseteq Procs

LEMMA ControlStep ==
  ASSUME ControlOK, InvHeld, NEW q \in Procs
  PROVE  /\ \A step \in Steps, l \in Local : Goto(q, step, l) => ControlOK'
         /\ \A step \in Steps, l \in Local : l.post \in Posts /\ Begin(q, step, l) => ControlOK'
         /\ Return(q) => ControlOK'
         /\ (GiveUp(q) /\ (UNCHANGED faults \/ faults' = faults + 1)) => ControlOK'
         /\ (Single /\ UNCHANGED <<loose, alone>>) => ControlOK'
<1> USE ConstantsOK, LocalOK DEF ControlOK, Steps
<1>1. \A step \in Steps, l \in Local : Goto(q, step, l) => ControlOK'
  BY DEF Goto, history
<1>2. \A step \in Steps, l \in Local : l.post \in Posts /\ Begin(q, step, l) => ControlOK'
  BY DEF Begin, Ask, Busy
<1>3. Return(q) => ControlOK'
  BY DEF Return
<1>4. (GiveUp(q) /\ (UNCHANGED faults \/ faults' = faults + 1)) => ControlOK'
  BY DEF GiveUp
<1>5. (Single /\ UNCHANGED <<loose, alone>>) => ControlOK'
  BY DEF Single, Ask
<1> QED
  BY <1>1, <1>2, <1>3, <1>4, <1>5

TableOK ==
  /\ posts \in [Posts -> Post] /\ items \in [Items -> Item] /\ keys \in [Columns -> ColumnKey]
  /\ \A i \in Items : ItemExists(i) =>
       /\ items[i].post_id \in Posts /\ PostExists(items[i].post_id)
       /\ items[i].column \in Columns /\ ColumnExists(items[i].column)
  /\ scored \in [Posts -> Scores]

LEMMA TypeSplit ==
  /\ TypeOK => TableOK /\ ControlOK
  /\ TableOK' /\ ControlOK' => TypeOK'
<1>1. TypeOK => TableOK /\ ControlOK
  BY DEF TypeOK, TableOK, ControlOK, Item, ItemExists
<1>2. TableOK' /\ ControlOK' => TypeOK'
  BY ConstantsOK DEF TypeOK, TableOK, ControlOK, Item, ItemExists
<1> QED
  BY <1>1, <1>2

\* A post that is reviewed, hidden or deleted is still a post.
LEMMA PostOK ==
  ASSUME NEW post \in Post
  PROVE  /\ \A s \in Statuses : [post EXCEPT !.status = s] \in Post
         /\ \A state \in Visibility \cup {"deleted"} :
              [post EXCEPT !.moderation_state = state] \in Post
         /\ [post EXCEPT !.old = TRUE] \in Post
         /\ Reviewed(post) \in Post /\ Reviewed(post).status = post.status
         /\ Reviewed(post).moderation_state = "published"
         /\ Reviewed(post).spam_score = 0
         /\ Reviewed(post).spam_reviewed_score =
              IF post.spam_reviewed_score = NoScore THEN post.spam_score
              ELSE post.spam_reviewed_score
  BY ConstantsOK DEF Post, Reviewed, Visibility

\* The steps of the roadmap side and of the status side keep types and foreign keys.
LEMMA SyncTables ==
  ASSUME TypeOK, InvHeld, NEW q \in Procs, Request(q) \/ Step(q) \/ Fail(q)
  PROVE  TypeOK'
<1> USE ConstantsOK
<1>h. TableOK /\ ControlOK /\ Held(pc[q], loc[q]) /\ loc[q] \in Local
  BY TypeSplit DEF InvHeld, ControlOK
<1>k. /\ \A i \in Items, p \in Posts, c \in Columns : Knows(i, p, c, Open) \in Local
      /\ \A i \in Items, p \in Posts : Knows(i, p, NoColumn, Open) \in Local
      /\ \A p \in Posts, s \in Statuses : Knows(NoItem, p, NoColumn, s) \in Local
      /\ \A i, p, c, s : Knows(i, p, c, s).post = p
  BY DEF Knows, Local
<1> DEFINE same == UNCHANGED <<posts, items, keys, scored>>
<1>s. same => TableOK'
  BY <1>h DEF TableOK, ItemExists, PostExists, ColumnExists
<1>1. CASE AddItemToRoadmap(q)
  <2>1. PICK p \in Posts, c \in Columns, i \in Items :
          /\ PostExists(p) /\ ColumnExists(c)
          /\ Begin(q, "column_key", Knows(i, p, c, Open))
          /\ items' = [items EXCEPT ![i] = [post_id |-> p, column |-> c]]
          /\ UNCHANGED <<posts, keys>>
    BY <1>1 DEF AddItemToRoadmap
  <2>2. ControlOK'
    BY <1>h, <1>k, <2>1, ControlStep DEF Steps
  <2>3. TableOK'
    BY <1>h, <2>1 DEF TableOK, Item, ItemExists, PostExists, ColumnExists, Begin
  <2> QED
    BY <2>2, <2>3, TypeSplit
<1>2. CASE UpdateRoadmapItem(q)
  <2>1. PICK i \in Items, c \in Columns :
          /\ ItemExists(i) /\ ColumnExists(c)
          /\ Begin(q, "item_post", Knows(i, items[i].post_id, c, Open))
          /\ items' = [items EXCEPT ![i].column = c]
          /\ UNCHANGED <<posts, keys>>
    BY <1>2 DEF UpdateRoadmapItem
  <2>2. ControlOK'
    <3>1. items[i].post_id \in Posts
      BY <1>h, <2>1 DEF TableOK
    <3>2. Knows(i, items[i].post_id, c, Open) \in Local
      BY <3>1, <1>k
    <3> QED
      BY <1>h, <1>k, <2>1, <3>1, <3>2, ControlStep DEF Steps
  <2>3. TableOK'
    BY <1>h, <2>1 DEF TableOK, Item, ItemExists, PostExists, ColumnExists, Begin
  <2> QED
    BY <2>2, <2>3, TypeSplit
<1>3. CASE RemoveItemFromRoadmap(q)
  <2>1. PICK i \in Items :
          /\ ItemExists(i)
          /\ Begin(q, "delete_item", Knows(i, items[i].post_id, NoColumn, Open))
          /\ UNCHANGED table
    BY <1>3 DEF RemoveItemFromRoadmap
  <2>2. ControlOK'
    <3>1. items[i].post_id \in Posts
      BY <1>h, <2>1 DEF TableOK
    <3>2. Knows(i, items[i].post_id, NoColumn, Open) \in Local
      BY <3>1, <1>k
    <3> QED
      BY <1>h, <1>k, <2>1, <3>1, <3>2, ControlStep DEF Steps
  <2> QED
    BY <1>s, <2>1, <2>2, TypeSplit DEF Begin, table
<1>4. CASE UpdatePostStatus(q)
  <2>1. PICK p \in Posts, s \in Statuses :
          /\ PostExists(p)
          /\ Begin(q, "find_column", Knows(NoItem, p, NoColumn, s))
          /\ posts' = [posts EXCEPT ![p].status = s]
          /\ UNCHANGED <<items, keys>>
    BY <1>4 DEF UpdatePostStatus
  <2>2. ControlOK'
    BY <1>h, <1>k, <2>1, ControlStep DEF Steps
  <2>3. posts' \in [Posts -> Post]
    BY <1>h, <2>1, PostOK DEF TableOK
  <2>4. TableOK'
    BY <1>h, <2>1, <2>3 DEF TableOK, Post, ItemExists, PostExists, ColumnExists, Begin
  <2> QED
    BY <2>2, <2>4, TypeSplit
<1>5. CASE ItemPost(q) \/ SyncColumnKey(q) \/ FindColumn(q) \/ MoveRefused(q) \/ Fail(q)
  <2>1. same
    BY <1>5 DEF ItemPost, SyncColumnKey, FindColumn, MoveRefused, Fail, table, Goto, Return,
                GiveUp, history
  <2>2. CASE ItemPost(q)
    BY <1>h, <2>1, <2>2, <1>s, TypeSplit, ControlStep DEF ItemPost, Steps
  <2>3. CASE SyncColumnKey(q)
    BY <1>h, <2>1, <2>3, <1>s, TypeSplit, ControlStep, LocalOK DEF SyncColumnKey, Steps
  <2>4. CASE FindColumn(q)
    BY <1>h, <2>1, <2>4, <1>s, TypeSplit, ControlStep, LocalOK DEF FindColumn, Steps
  <2>5. CASE MoveRefused(q) \/ Fail(q)
    BY <1>h, <2>1, <2>5, <1>s, TypeSplit, ControlStep DEF MoveRefused, Fail
  <2> QED
    BY <1>5, <2>2, <2>3, <2>4, <2>5
<1>6. CASE SyncPostStatus(q) \/ ResetPostStatusToOpen(q)
  <2>1. ControlOK' /\ UNCHANGED <<items, keys, scored>>
    BY <1>h, <1>6, ControlStep DEF SyncPostStatus, ResetPostStatusToOpen, Return
  <2>2. /\ posts' \in [Posts -> Post]
        /\ \A p \in Posts : posts'[p].moderation_state = posts[p].moderation_state
    <3>1. loc[q].post \in Posts /\ loc[q].status \in Statuses
      BY <1>h, <1>6 DEF Held, SyncPostStatus, ResetPostStatusToOpen, Local
    <3>2. \A s \in Statuses : [posts[loc[q].post] EXCEPT !.status = s] \in Post
      BY <1>h, <3>1, PostOK DEF TableOK
    <3> QED
      BY <1>h, <1>6, <3>1, <3>2 DEF SyncPostStatus, ResetPostStatusToOpen, TableOK, Post
  <2> QED
    BY <1>h, <2>1, <2>2, TypeSplit DEF TableOK, ItemExists, PostExists, ColumnExists
<1>7. CASE DeleteItem(q)
  <2>1. ControlOK' /\ UNCHANGED <<posts, keys, scored>>
    BY <1>h, <1>7, ControlStep DEF DeleteItem, Goto, Return, history, Steps
  <2>2. TableOK'
    BY <1>h, <1>7, <2>1 DEF DeleteItem, TableOK, Item, ItemExists, PostExists, ColumnExists,
                            Held, ByItem
  <2> QED
    BY <2>1, <2>2, TypeSplit
<1>8. CASE MoveItem(q)
  <2>1. ControlOK' /\ UNCHANGED <<posts, keys, scored>>
    BY <1>h, <1>8, ControlStep DEF MoveItem, Return
  <2>2. loc[q].column \in Columns
    BY <1>h, <1>8 DEF MoveItem, Held, ByColumn
  <2>3. TableOK'
    BY <1>h, <1>8, <2>1, <2>2 DEF MoveItem, TableOK, Item, ItemExists, PostExists, ColumnExists,
                                  OnRoadmap
  <2> QED
    BY <2>1, <2>3, TypeSplit
<1> QED
  BY <1>1, <1>2, <1>3, <1>4, <1>5, <1>6, <1>7, <1>8 DEF Request, Step

LEMMA WithoutOK ==
  ASSUME TypeOK, NEW lost \in SUBSET Items
  PROVE  /\ Without(lost) \in [Items -> Item]
         /\ \A i \in Items :
              /\ Without(lost)[i].post_id = items[i].post_id
              /\ Without(lost)[i].column = IF i \in lost THEN NoColumn ELSE items[i].column
              /\ i \notin lost => Without(lost)[i] = items[i]
<1>1. items \in [Items -> Item]
  BY DEF TypeOK
<1>2. \A i \in Items : /\ [items[i] EXCEPT !.column = NoColumn] \in Item
                       /\ [items[i] EXCEPT !.column = NoColumn].post_id = items[i].post_id
                       /\ [items[i] EXCEPT !.column = NoColumn].column = NoColumn
  BY <1>1 DEF Item
<1>3. \A i \in Items : Without(lost)[i] = IF i \in lost THEN [items[i] EXCEPT !.column = NoColumn]
                                          ELSE items[i]
  BY DEF Without
<1>4. Without(lost) \in [Items -> Item]
  BY <1>1, <1>2 DEF Without
<1>5. ASSUME NEW i \in Items
      PROVE  /\ Without(lost)[i].post_id = items[i].post_id
             /\ Without(lost)[i].column = IF i \in lost THEN NoColumn ELSE items[i].column
             /\ i \notin lost => Without(lost)[i] = items[i]
  <2>1. CASE i \in lost
    <3>1. Without(lost)[i] = [items[i] EXCEPT !.column = NoColumn]
      BY <1>3, <2>1
    <3> QED
      BY <1>2, <2>1, <3>1
  <2>2. CASE i \notin lost
    <3>1. Without(lost)[i] = items[i]
      BY <1>3, <2>2
    <3> QED
      BY <2>2, <3>1
  <2> QED
    BY <2>1, <2>2
<1> QED
  BY <1>4, <1>5

\* Whatever is deleted takes its items with it.
LEMMA DeleteTables ==
  ASSUME TypeOK, NEW gone \in SUBSET Posts, DeletePosts(gone)
  PROVE  TableOK' /\ UNCHANGED <<loose, alone>>
<1>h. TableOK
  BY TypeSplit
<1>1. posts' \in [Posts -> Post]
  <2>1. \A p \in Posts : [posts[p] EXCEPT !.moderation_state = "deleted"] \in Post
    BY <1>h, PostOK DEF TableOK
  <2> QED
    BY <1>h, <2>1 DEF DeletePosts, TableOK
<1> DEFINE lost == {i \in Items : items[i].post_id \in gone}
<1>2. lost \in SUBSET Items /\ items' = Without(lost)
  BY DEF DeletePosts
<1>w. /\ items' \in [Items -> Item]
      /\ \A i \in Items :
           /\ items'[i].post_id = items[i].post_id
           /\ items'[i].column = IF i \in lost THEN NoColumn ELSE items[i].column
           /\ i \notin lost => items'[i] = items[i]
  BY <1>2, WithoutOK
<1>3. UNCHANGED <<keys, scored, loose, alone>>
  BY DEF DeletePosts, history
<1>4. \A p \in Posts \ gone : posts'[p] = posts[p]
  BY DEF DeletePosts
<1>5. ASSUME NEW i \in Items, ItemExists(i)'
      PROVE  /\ items'[i].post_id \in Posts /\ PostExists(items[i].post_id)'
             /\ items'[i].post_id = items[i].post_id
             /\ items'[i].column \in Columns /\ ColumnExists(items[i].column)'
             /\ items'[i].column = items[i].column
  <2>1. i \notin lost
    BY <1>w, <1>5 DEF ItemExists
  <2>2. items'[i] = items[i]
    BY <1>w, <2>1
  <2>3. items[i].post_id \notin gone
    BY <2>1
  <2>4. ItemExists(i)
    BY <1>5, <2>2 DEF ItemExists
  <2>5. /\ items[i].post_id \in Posts /\ PostExists(items[i].post_id)
        /\ items[i].column \in Columns /\ ColumnExists(items[i].column)
    BY <1>h, <2>4 DEF TableOK
  <2>6. PostExists(items[i].post_id)'
    BY <1>4, <2>2, <2>3, <2>5 DEF PostExists
  <2>7. ColumnExists(items[i].column)'
    BY <1>3, <2>2, <2>5 DEF ColumnExists
  <2> QED
    BY <2>2, <2>5, <2>6, <2>7
<1>6. keys' \in [Columns -> ColumnKey] /\ scored' \in [Posts -> Scores]
  BY <1>h, <1>3 DEF TableOK
<1> QED
  BY <1>1, <1>w, <1>3, <1>5, <1>6 DEF TableOK

SingleStep ==
  \/ CreateRoadmapColumn \/ DeleteRoadmapColumn \/ CreatePost \/ UpdatePostModeration
  \/ DeletePost \/ ClearWorkspaceFeedback \/ PurgeSpamPosts \/ PurgeExpiredSpam \/ Age

LEMMA DeletesOK ==
  ASSUME DeletePost \/ ClearWorkspaceFeedback \/ PurgeSpamPosts \/ PurgeExpiredSpam
  PROVE  /\ \E gone \in SUBSET Posts : DeletePosts(gone)
         /\ Single \/ UNCHANGED <<pc, loc, ops, faults>>
<1>1. CASE DeletePost
  BY <1>1 DEF DeletePost
<1>2. CASE ClearWorkspaceFeedback
  BY <1>2 DEF ClearWorkspaceFeedback
<1>3. CASE PurgeSpamPosts
  <2>1. PICK ids \in SUBSET Posts : DeletePosts({p \in ids : Spam(p)}) /\ Single
    BY <1>3 DEF PurgeSpamPosts
  <2>2. {p \in ids : Spam(p)} \in SUBSET Posts
    OBVIOUS
  <2> QED
    BY <2>1, <2>2
<1>4. CASE PurgeExpiredSpam
  BY <1>4 DEF PurgeExpiredSpam
<1> QED
  BY <1>1, <1>2, <1>3, <1>4

\* The operations that are one query keep types and foreign keys.
LEMMA SingleTables ==
  ASSUME TypeOK, SingleStep
  PROVE  TypeOK'
<1> USE ConstantsOK
<1>h. TableOK /\ ControlOK
  BY TypeSplit
<1>s. (Single \/ UNCHANGED <<pc, loc, ops, faults>>) /\ UNCHANGED <<loose, alone>> => ControlOK'
  BY <1>h DEF Single, Ask, ControlOK
<1>1. CASE CreateRoadmapColumn
  BY <1>h, <1>1, <1>s, TypeSplit DEF CreateRoadmapColumn, TableOK, ColumnKey, ItemExists, PostExists,
     ColumnExists, history
<1>2. CASE DeleteRoadmapColumn
  <2>1. TableOK'
    BY <1>h, <1>2 DEF DeleteRoadmapColumn, Without, TableOK, ColumnKey, Item, ItemExists, PostExists,
       ColumnExists, history
  <2> QED
    BY <1>2, <1>s, <2>1, TypeSplit DEF DeleteRoadmapColumn, history
<1>3. CASE CreatePost
  <2>1. PICK p \in Posts, status \in Statuses, score \in Scores :
          /\ posts[p].moderation_state = "none"
          /\ posts' = [posts EXCEPT ![p] = NewPost(status, ModerationStateFor(score), score)]
          /\ scored' = [scored EXCEPT ![p] = score]
          /\ Single /\ UNCHANGED <<items, keys, loose, alone>>
    BY <1>3 DEF CreatePost
  <2>2. /\ NewPost(status, ModerationStateFor(score), score) \in Post
        /\ NewPost(status, ModerationStateFor(score), score).moderation_state \in Visibility
    BY DEF NewPost, ModerationStateFor, Post, Visibility
  <2>3. TableOK'
    BY <1>h, <2>1, <2>2 DEF TableOK, ItemExists, PostExists, ColumnExists
  <2> QED
    BY <2>1, <2>3, <1>s, TypeSplit
<1>4. CASE UpdatePostModeration \/ Age
  <2>1. /\ posts' \in [Posts -> Post] /\ \A p \in Posts : PostExists(p) => PostExists(p)'
        /\ UNCHANGED <<items, keys, scored>> /\ ControlOK'
    <3>1. CASE UpdatePostModeration
      <4>1. PICK p \in Posts, state \in Visibility :
              posts' = [posts EXCEPT ![p] = IF state = "published" THEN Reviewed(@)
                                            ELSE [@ EXCEPT !.moderation_state = state]]
        BY <3>1 DEF UpdatePostModeration
      <4>2. /\ Reviewed(posts[p]) \in Post /\ Reviewed(posts[p]).moderation_state = "published"
            /\ [posts[p] EXCEPT !.moderation_state = state] \in Post
        BY <1>h, PostOK DEF TableOK
      <4> QED
        BY <1>h, <1>s, <3>1, <4>1, <4>2 DEF UpdatePostModeration, TableOK, PostExists, Visibility, Post,
           history
    <3>2. CASE Age
      <4>1. \A p \in Posts : [posts[p] EXCEPT !.old = TRUE] \in Post
        BY <1>h, PostOK DEF TableOK
      <4> QED
        BY <1>h, <1>s, <3>2, <4>1 DEF Age, TableOK, PostExists, Post, history
    <3> QED
      BY <1>4, <3>1, <3>2
  <2>2. TableOK'
    BY <1>h, <2>1 DEF TableOK, ItemExists, ColumnExists
  <2> QED
    BY <2>1, <2>2, TypeSplit
<1>5. CASE DeletePost \/ ClearWorkspaceFeedback \/ PurgeSpamPosts \/ PurgeExpiredSpam
  BY <1>5, <1>s, DeletesOK, DeleteTables, TypeSplit
<1> QED
  BY <1>1, <1>2, <1>3, <1>4, <1>5 DEF SingleStep

-----------------------------------------------------------------------------
(* What a request knows stays true.                                         *)

\* Ids are never given twice and a column never gets another key.
Grows ==
  /\ \A p \in Posts : posts[p].moderation_state # "none" => posts'[p].moderation_state # "none"
  /\ \A i \in Items : items[i].post_id # NoPost => items'[i].post_id = items[i].post_id
  /\ \A c \in Columns : keys[c] # "none" => keys'[c] \in {keys[c], "deleted"}

LEMMA HeldStable ==
  ASSUME Grows, NEW step \in Steps, NEW l \in Local, Held(step, l)
  PROVE  Held(step, l)'
  BY ConstantsOK DEF Grows, Held, ByItem, ByColumn, Steps

LEMMA SyncGrows ==
  ASSUME TypeOK, InvHeld, NEW q \in Procs, Request(q) \/ Step(q) \/ Fail(q)
  PROVE  Grows
<1>h. TableOK /\ Held(pc[q], loc[q])
  BY TypeSplit DEF InvHeld
<1>s. UNCHANGED table => Grows
  BY DEF Grows, table
<1>1. CASE AddItemToRoadmap(q) \/ UpdateRoadmapItem(q) \/ DeleteItem(q) \/ MoveItem(q)
  BY <1>h, <1>1 DEF AddItemToRoadmap, UpdateRoadmapItem, DeleteItem, MoveItem, Grows, TableOK, Item
<1>2. CASE UpdatePostStatus(q) \/ SyncPostStatus(q) \/ ResetPostStatusToOpen(q)
  BY <1>h, <1>2 DEF UpdatePostStatus, SyncPostStatus, ResetPostStatusToOpen, Grows, TableOK, Post
<1>3. CASE RemoveItemFromRoadmap(q) \/ ItemPost(q) \/ SyncColumnKey(q) \/ FindColumn(q)
           \/ MoveRefused(q) \/ Fail(q)
  BY <1>3, <1>s DEF RemoveItemFromRoadmap, ItemPost, SyncColumnKey, FindColumn, MoveRefused, Fail, table
<1> QED
  BY <1>1, <1>2, <1>3 DEF Request, Step

LEMMA SingleGrows ==
  ASSUME TypeOK, SingleStep
  PROVE  Grows
<1>h. TableOK
  BY TypeSplit
<1>1. CASE CreateRoadmapColumn \/ DeleteRoadmapColumn
  <2>1. CASE CreateRoadmapColumn
    BY <1>h, <2>1 DEF CreateRoadmapColumn, Grows, TableOK
  <2>2. CASE DeleteRoadmapColumn
    <3>1. PICK c \in Columns, lost \in SUBSET Items :
            /\ keys' = [keys EXCEPT ![c] = "deleted"] /\ items' = Without(lost)
            /\ UNCHANGED posts
      BY <2>2 DEF DeleteRoadmapColumn
    <3> QED
      BY <1>h, <3>1, WithoutOK DEF Grows, TableOK
  <2> QED
    BY <1>1, <2>1, <2>2
<1>2. CASE CreatePost
  BY <1>h, <1>2 DEF CreatePost, Grows, TableOK, NewPost, ModerationStateFor
<1>3. CASE UpdatePostModeration \/ Age
  <2>1. CASE UpdatePostModeration
    <3>1. PICK p \in Posts, state \in Visibility :
            /\ posts' = [posts EXCEPT ![p] = IF state = "published" THEN Reviewed(@)
                                             ELSE [@ EXCEPT !.moderation_state = state]]
            /\ UNCHANGED <<items, keys>>
      BY <2>1 DEF UpdatePostModeration
    <3>2. /\ Reviewed(posts[p]).moderation_state = "published"
          /\ [posts[p] EXCEPT !.moderation_state = state].moderation_state = state
      <4>1. posts[p] \in Post
        BY <1>h DEF TableOK
      <4> QED
        BY <4>1, PostOK DEF Post
    <3> QED
      BY <1>h, <3>1, <3>2 DEF Grows, TableOK, Visibility
  <2>2. CASE Age
    BY <1>h, <2>2 DEF Age, Grows, TableOK, Post
  <2> QED
    BY <1>3, <2>1, <2>2
<1>4. CASE DeletePost \/ ClearWorkspaceFeedback \/ PurgeSpamPosts \/ PurgeExpiredSpam
  <2>1. PICK gone \in SUBSET Posts : DeletePosts(gone)
    BY <1>4, DeletesOK
  <2>2. PICK lost \in SUBSET Items : items' = Without(lost)
    BY <2>1 DEF DeletePosts
  <2>3. \A p \in Posts : posts[p].moderation_state # "none" => posts'[p].moderation_state # "none"
    BY <1>h, <2>1 DEF DeletePosts, TableOK, Post
  <2>4. UNCHANGED keys
    BY <2>1 DEF DeletePosts
  <2> QED
    BY <1>h, <2>2, <2>3, <2>4, WithoutOK DEF Grows, TableOK
<1> QED
  BY <1>1, <1>2, <1>3, <1>4 DEF SingleStep

\* A step leaves a request at another query, knowing something else.
To(q, step, l) == pc' = [pc EXCEPT ![q] = step] /\ loc' = [loc EXCEPT ![q] = l]

LEMMA HeldNext ==
  ASSUME TypeOK, InvHeld, Grows, NEW q \in Procs, NEW step \in Steps, NEW l \in Local,
         To(q, step, l), Held(step, l)'
  PROVE  InvHeld'
<1> SUFFICES ASSUME NEW r \in Procs PROVE Held(pc[r], loc[r])'
  BY DEF InvHeld
<1>h. ControlOK
  BY TypeSplit
<1>1. CASE r = q
  <2>1. pc'[r] = step /\ loc'[r] = l
    BY <1>h, <1>1 DEF To, ControlOK
  <2> QED
    BY <2>1 DEF Held
<1>2. CASE r # q
  <2>1. pc'[r] = pc[r] /\ loc'[r] = loc[r] /\ pc[r] \in Steps /\ loc[r] \in Local
    BY <1>h, <1>2 DEF To, ControlOK
  <2>2. Held(pc[r], loc[r])
    BY DEF InvHeld
  <2> QED
    BY <2>1, <2>2, ConstantsOK DEF Held, Grows, ByItem, ByColumn
<1> QED
  BY <1>1, <1>2

LEMMA SyncHeld ==
  ASSUME TypeOK, InvHeld, NEW q \in Procs, Request(q) \/ Step(q) \/ Fail(q)
  PROVE  InvHeld'
<1> USE ConstantsOK
<1>h. TableOK /\ ControlOK /\ Grows /\ TableOK'
  BY TypeSplit, SyncTables, SyncGrows DEF TypeOK, TableOK, Item, ItemExists
<1>q. Held(pc[q], loc[q]) /\ loc[q] \in Local
  BY <1>h DEF InvHeld, ControlOK
<1>e. To(q, "idle", NoLocal) => InvHeld'
  <2>1. NoLocal \in Local /\ Held("idle", NoLocal)'
    BY DEF NoLocal, Knows, Local, Held, ByItem, ByColumn
  <2> QED
    BY <1>h, <2>1, HeldNext DEF Steps
<1>1. CASE AddItemToRoadmap(q)
  <2>1. PICK p \in Posts, c \in Columns, i \in Items :
          /\ PostExists(p) /\ ColumnExists(c)
          /\ Begin(q, "column_key", Knows(i, p, c, Open))
          /\ items' = [items EXCEPT ![i] = [post_id |-> p, column |-> c]]
          /\ UNCHANGED <<posts, keys>>
    BY <1>1 DEF AddItemToRoadmap
  <2> DEFINE l == Knows(i, p, c, Open)
  <2>2. l \in Local /\ l.item = i /\ l.post = p /\ l.column = c
    BY KnowsOK
  <2> HIDE DEF l
  <2>3. Held("column_key", l)'
    BY <1>h, <2>1, <2>2 DEF Held, ByItem, ByColumn, PostExists, Visibility, ColumnExists, TableOK
  <2>4. To(q, "column_key", l)
    BY <2>1 DEF To, Begin, l
  <2> QED
    BY <1>h, <2>2, <2>3, <2>4, HeldNext DEF Steps
<1>2. CASE UpdateRoadmapItem(q)
  <2>1. PICK i \in Items, c \in Columns :
          /\ ItemExists(i) /\ ColumnExists(c)
          /\ Begin(q, "item_post", Knows(i, items[i].post_id, c, Open))
          /\ items' = [items EXCEPT ![i].column = c]
          /\ UNCHANGED <<posts, keys>>
    BY <1>2 DEF UpdateRoadmapItem
  <2>2. PICK p \in Posts : p = items[i].post_id /\ PostExists(p)
    BY <1>h, <2>1 DEF TableOK
  <2> DEFINE l == Knows(i, p, c, Open)
  <2>3. l \in Local /\ l.item = i /\ l.post = p /\ l.column = c
    BY KnowsOK
  <2> HIDE DEF l
  <2>4. Held("item_post", l)'
    BY <1>h, <2>1, <2>2, <2>3 DEF Held, ByItem, ByColumn, PostExists, Visibility, ColumnExists,
       TableOK, Item
  <2>5. To(q, "item_post", l)
    BY <2>1, <2>2 DEF To, Begin, l
  <2> QED
    BY <1>h, <2>3, <2>4, <2>5, HeldNext DEF Steps
<1>3. CASE RemoveItemFromRoadmap(q)
  <2>1. PICK i \in Items :
          /\ ItemExists(i)
          /\ Begin(q, "delete_item", Knows(i, items[i].post_id, NoColumn, Open))
          /\ UNCHANGED table
    BY <1>3 DEF RemoveItemFromRoadmap
  <2>2. PICK p \in Posts : p = items[i].post_id /\ PostExists(p)
    BY <1>h, <2>1 DEF TableOK
  <2> DEFINE l == Knows(i, p, NoColumn, Open)
  <2>3. l \in Local /\ l.item = i /\ l.post = p
    BY KnowsOK
  <2> HIDE DEF l
  <2>4. Held("delete_item", l)'
    BY <1>h, <2>1, <2>2, <2>3 DEF Held, ByItem, ByColumn, PostExists, Visibility, table
  <2>5. To(q, "delete_item", l)
    BY <2>1, <2>2 DEF To, Begin, l
  <2> QED
    BY <1>h, <2>3, <2>4, <2>5, HeldNext DEF Steps
<1>4. CASE UpdatePostStatus(q)
  <2>1. PICK p \in Posts, s \in Statuses :
          /\ PostExists(p)
          /\ Begin(q, "find_column", Knows(NoItem, p, NoColumn, s))
          /\ posts' = [posts EXCEPT ![p].status = s]
          /\ UNCHANGED <<items, keys>>
    BY <1>4 DEF UpdatePostStatus
  <2> DEFINE l == Knows(NoItem, p, NoColumn, s)
  <2>2. l \in Local /\ l.post = p
    BY KnowsOK
  <2> HIDE DEF l
  <2>3. Held("find_column", l)'
    BY <1>h, <2>1, <2>2 DEF Held, ByItem, ByColumn, PostExists, Visibility, TableOK, Post
  <2>4. To(q, "find_column", l)
    BY <2>1 DEF To, Begin, l
  <2> QED
    BY <1>h, <2>2, <2>3, <2>4, HeldNext DEF Steps
<1>5. CASE Return(q) \/ GiveUp(q)
  BY <1>e, <1>5 DEF Return, GiveUp, To
<1>6. CASE ItemPost(q) /\ Goto(q, "column_key", loc[q])
  <2>1. PICK l \in Local : l = loc[q]
    BY <1>q
  <2>2. Held("column_key", l)' /\ To(q, "column_key", l)
    BY <1>h, <1>q, <1>6, <2>1 DEF ItemPost, Goto, To, Held, ByItem, ByColumn, table
  <2> QED
    BY <1>h, <2>2, HeldNext DEF Steps
<1>7. CASE /\ SyncColumnKey(q) /\ keys[loc[q].column] \in Statuses
           /\ Goto(q, "set_status", [loc[q] EXCEPT !.status = keys[loc[q].column]])
  <2>1. PICK l \in Local : l = [loc[q] EXCEPT !.status = keys[loc[q].column]]
    BY <1>q, <1>7, LocalOK
  <2>2. /\ l.item = loc[q].item /\ l.post = loc[q].post /\ l.column = loc[q].column
        /\ l.status = keys[loc[q].column]
    BY <1>q, <2>1 DEF Local
  <2>3. Held("set_status", l)' /\ To(q, "set_status", l)
    BY <1>h, <1>q, <1>7, <2>1, <2>2 DEF SyncColumnKey, Goto, To, Held, ByItem, ByColumn, table
  <2> QED
    BY <1>h, <2>3, HeldNext DEF Steps
<1>8. CASE DeleteItem(q) /\ Goto(q, "open_post", loc[q])
  <2>1. PICK l \in Local : l = loc[q]
    BY <1>q
  <2>2. UNCHANGED <<posts, keys>> /\ To(q, "open_post", l) /\ pc[q] = "delete_item"
    BY <1>8, <2>1 DEF DeleteItem, Goto, To
  <2>3. \A i \in Items : items'[i].post_id = items[i].post_id
    BY <1>h, <1>8 DEF DeleteItem, TableOK, Item
  <2>4. Held("open_post", l)'
    BY <1>q, <2>1, <2>2, <2>3 DEF Held, ByItem, ByColumn
  <2> QED
    BY <1>h, <2>2, <2>4, HeldNext DEF Steps
<1>9. CASE FindColumn(q) /\ ~GiveUp(q)
  <2>1. PICK c \in Columns : keys[c] = loc[q].status /\ Goto(q, "move_item", [loc[q] EXCEPT !.column = c])
    BY <1>9 DEF FindColumn
  <2>2. PICK l \in Local : l = [loc[q] EXCEPT !.column = c]
    BY <1>q, LocalOK
  <2>3. l.item = loc[q].item /\ l.post = loc[q].post /\ l.column = c /\ l.status = loc[q].status
    BY <1>q, <2>2 DEF Local
  <2>4. keys[c] # "none"
    BY <1>q, <2>1 DEF Local
  <2>5. Held("move_item", l)' /\ To(q, "move_item", l)
    BY <1>h, <1>q, <1>9, <2>1, <2>2, <2>3, <2>4
       DEF FindColumn, Goto, To, Held, ByItem, ByColumn, table
  <2> QED
    BY <1>h, <2>5, HeldNext DEF Steps
<1> QED
  BY <1>1, <1>2, <1>3, <1>4, <1>5, <1>6, <1>7, <1>8, <1>9
     DEF Request, Step, Fail, ItemPost, SyncColumnKey, SyncPostStatus, DeleteItem,
         ResetPostStatusToOpen, MoveItem, MoveRefused

\* The operations that are one query disturb no request's place.
LEMMA SingleControl ==
  ASSUME SingleStep
  PROVE  UNCHANGED <<pc, loc, loose, alone>>
<1>1. CASE CreateRoadmapColumn \/ DeleteRoadmapColumn \/ CreatePost \/ UpdatePostModeration \/ Age
  BY <1>1 DEF CreateRoadmapColumn, DeleteRoadmapColumn, CreatePost, UpdatePostModeration, Age,
     Single, history
<1>2. CASE DeletePost \/ ClearWorkspaceFeedback \/ PurgeSpamPosts \/ PurgeExpiredSpam
  <2>1. PICK gone \in SUBSET Posts : DeletePosts(gone)
    BY <1>2, DeletesOK
  <2> QED
    BY <1>2, <2>1, DeletesOK DEF DeletePosts, Single, history
<1> QED
  BY <1>1, <1>2 DEF SingleStep

LEMMA SingleHeld ==
  ASSUME TypeOK, InvHeld, SingleStep
  PROVE  InvHeld'
<1> SUFFICES ASSUME NEW r \in Procs PROVE Held(pc[r], loc[r])'
  BY DEF InvHeld
<1>1. /\ pc'[r] = pc[r] /\ loc'[r] = loc[r] /\ loc[r] \in Local /\ Held(pc[r], loc[r]) /\ Grows
      /\ ControlOK
  BY SingleControl, SingleGrows, TypeSplit DEF InvHeld, ControlOK
<1> QED
  BY <1>1, ConstantsOK DEF Held, Grows, ByItem, ByColumn

-----------------------------------------------------------------------------
(* A post is on the roadmap once, and requests know when they are alone.    *)

LEMMA UniqueKept ==
  ASSUME InvUnique,
         \A i \in Items : ItemExists(i)' => ItemExists(i) /\ items'[i].post_id = items[i].post_id
  PROVE  InvUnique'
  BY DEF InvUnique, OfPost

LEMMA UniqueStep ==
  ASSUME TypeOK, InvHeld, InvUnique,
         (\E q \in Procs : Request(q) \/ Step(q) \/ Fail(q)) \/ SingleStep
  PROVE  InvUnique'
<1> USE ConstantsOK
<1>h. TableOK
  BY TypeSplit
<1>1. CASE SingleStep
  <2>1. CASE UNCHANGED items
    BY <2>1, UniqueKept DEF ItemExists
  <2>2. CASE \E lost \in SUBSET Items : items' = Without(lost)
    <3>1. PICK lost \in SUBSET Items : items' = Without(lost)
      BY <2>2
    <3>2. ASSUME NEW i \in Items, ItemExists(i)'
          PROVE  ItemExists(i) /\ items'[i].post_id = items[i].post_id
      <4>1. i \notin lost
        BY <3>1, <3>2, WithoutOK DEF ItemExists
      <4>2. items'[i] = items[i]
        BY <3>1, <4>1, WithoutOK
      <4> QED
        BY <3>2, <4>2 DEF ItemExists
    <3> QED
      BY <3>2, UniqueKept
  <2>3. UNCHANGED items \/ \E lost \in SUBSET Items : items' = Without(lost)
    <3>1. CASE DeletePost \/ ClearWorkspaceFeedback \/ PurgeSpamPosts \/ PurgeExpiredSpam
      <4>1. PICK gone \in SUBSET Posts : DeletePosts(gone)
        BY <3>1, DeletesOK
      <4> QED
        BY <4>1 DEF DeletePosts
    <3>2. CASE DeleteRoadmapColumn
      BY <3>2 DEF DeleteRoadmapColumn
    <3>3. CASE CreateRoadmapColumn \/ CreatePost \/ UpdatePostModeration \/ Age
      BY <3>3 DEF CreateRoadmapColumn, CreatePost, UpdatePostModeration, Age
    <3> QED
      BY <1>1, <3>1, <3>2, <3>3 DEF SingleStep
  <2> QED
    BY <2>1, <2>2, <2>3
<1>2. ASSUME NEW q \in Procs, AddItemToRoadmap(q)
      PROVE  InvUnique'
  <2>1. PICK p \in Posts, c \in Columns, i \in Items :
          ~OnRoadmap(p) /\ items' = [items EXCEPT ![i] = [post_id |-> p, column |-> c]]
    BY <1>2 DEF AddItemToRoadmap
  <2> QED
    BY <1>h, <2>1 DEF InvUnique, OfPost, OnRoadmap, ItemExists, TableOK
<1>3. ASSUME NEW q \in Procs, Request(q) \/ Step(q) \/ Fail(q), ~AddItemToRoadmap(q)
      PROVE  InvUnique'
  <2>h. Held(pc[q], loc[q])
    BY DEF InvHeld
  <2>1. CASE UpdateRoadmapItem(q) \/ DeleteItem(q) \/ MoveItem(q)
    <3>1. \A i \in Items : ItemExists(i)' => ItemExists(i) /\ items'[i].post_id = items[i].post_id
      <4>1. CASE UpdateRoadmapItem(q)
        BY <1>h, <4>1 DEF UpdateRoadmapItem, ItemExists, TableOK, Item
      <4>2. CASE DeleteItem(q)
        BY <1>h, <4>2 DEF DeleteItem, ItemExists, TableOK, Item
      <4>3. CASE MoveItem(q)
        BY <1>h, <4>3 DEF MoveItem, ItemExists, TableOK, Item
      <4> QED
        BY <2>1, <4>1, <4>2, <4>3
    <3> QED
      BY <3>1, UniqueKept
  <2>2. CASE UNCHANGED items
    BY <2>2, UniqueKept DEF ItemExists
  <2> QED
    BY <1>3, <2>1, <2>2
       DEF Request, Step, Fail, RemoveItemFromRoadmap, UpdatePostStatus, ItemPost, SyncColumnKey,
           SyncPostStatus, ResetPostStatusToOpen, FindColumn, MoveRefused, table
<1> QED
  BY <1>1, <1>2, <1>3

\* Every step of a request begins it, takes it on, or ends it.
LEMMA Moves ==
  ASSUME TypeOK, NEW q \in Procs, Request(q) \/ Step(q) \/ Fail(q)
  PROVE  \/ \E step \in Steps \ {"idle"}, l \in Local : l.post \in Posts /\ Begin(q, step, l)
         \/ /\ pc[q] # "idle"
            /\ \/ \E step \in Steps \ {"idle"}, l \in Local :
                    l.post = loc[q].post /\ Goto(q, step, l)
               \/ Return(q) \/ GiveUp(q)
<1>h. TableOK /\ loc[q] \in Local
  BY TypeSplit DEF ControlOK
<1>1. CASE AddItemToRoadmap(q)
  <2>1. PICK p \in Posts, c \in Columns, i \in Items : Begin(q, "column_key", Knows(i, p, c, Open))
    BY <1>1 DEF AddItemToRoadmap
  <2>2. Knows(i, p, c, Open) \in Local /\ Knows(i, p, c, Open).post = p
    BY KnowsOK, ConstantsOK
  <2> QED
    BY <2>1, <2>2 DEF Steps
<1>2. CASE UpdateRoadmapItem(q) \/ RemoveItemFromRoadmap(q)
  <2>1. PICK i \in Items, c \in Columns \cup {NoColumn}, step \in {"item_post", "delete_item"} :
          ItemExists(i) /\ Begin(q, step, Knows(i, items[i].post_id, c, Open))
    <3>1. CASE UpdateRoadmapItem(q)
      BY <3>1 DEF UpdateRoadmapItem
    <3>2. CASE RemoveItemFromRoadmap(q)
      BY <3>2 DEF RemoveItemFromRoadmap
    <3> QED
      BY <1>2, <3>1, <3>2
  <2>2. items[i].post_id \in Posts
    BY <1>h, <2>1 DEF TableOK
  <2>3. /\ Knows(i, items[i].post_id, c, Open) \in Local
        /\ Knows(i, items[i].post_id, c, Open).post = items[i].post_id
    BY <2>2, KnowsOK, ConstantsOK
  <2> QED
    BY <2>1, <2>2, <2>3 DEF Steps
<1>3. CASE UpdatePostStatus(q)
  <2>1. PICK p \in Posts, s \in Statuses : Begin(q, "find_column", Knows(NoItem, p, NoColumn, s))
    BY <1>3 DEF UpdatePostStatus
  <2>2. Knows(NoItem, p, NoColumn, s) \in Local /\ Knows(NoItem, p, NoColumn, s).post = p
    BY KnowsOK
  <2> QED
    BY <2>1, <2>2 DEF Steps
<1>4. CASE SyncColumnKey(q)
  <2>1. CASE keys[loc[q].column] \in Statuses
    <3>1. [loc[q] EXCEPT !.status = keys[loc[q].column]] \in Local
      BY <1>h, <2>1, LocalOK
    <3>2. [loc[q] EXCEPT !.status = keys[loc[q].column]].post = loc[q].post
      BY <1>h DEF Local
    <3> QED
      BY <1>4, <2>1, <3>1, <3>2 DEF SyncColumnKey, Steps
  <2>2. CASE keys[loc[q].column] \notin Statuses
    BY <1>4, <2>2 DEF SyncColumnKey
  <2> QED
    BY <2>1, <2>2
<1>5. CASE FindColumn(q)
  <2>1. CASE \E c \in Columns : Goto(q, "move_item", [loc[q] EXCEPT !.column = c])
    <3>1. PICK c \in Columns : Goto(q, "move_item", [loc[q] EXCEPT !.column = c])
      BY <2>1
    <3>2. [loc[q] EXCEPT !.column = c] \in Local
      BY <1>h, LocalOK
    <3>3. [loc[q] EXCEPT !.column = c].post = loc[q].post
      BY <1>h DEF Local
    <3> QED
      BY <1>5, <3>1, <3>2, <3>3 DEF FindColumn, Steps
  <2>2. CASE GiveUp(q)
    BY <1>5, <2>2 DEF FindColumn
  <2> QED
    BY <1>5, <2>1, <2>2 DEF FindColumn
<1>6. CASE ItemPost(q) \/ DeleteItem(q)
  BY <1>h, <1>6 DEF ItemPost, DeleteItem, Steps
<1>7. CASE SyncPostStatus(q) \/ ResetPostStatusToOpen(q) \/ MoveItem(q) \/ MoveRefused(q) \/ Fail(q)
  BY <1>7 DEF SyncPostStatus, ResetPostStatusToOpen, MoveItem, MoveRefused, Fail
<1> QED
  BY <1>1, <1>2, <1>3, <1>4, <1>5, <1>6, <1>7 DEF Request, Step

LEMMA AloneStep ==
  ASSUME TypeOK, InvAlone, NEW q \in Procs, Request(q) \/ Step(q) \/ Fail(q)
  PROVE  InvAlone'
<1>h. ControlOK
  BY TypeSplit
<1>1. ASSUME NEW step \in Steps \ {"idle"}, NEW l \in Local, l.post \in Posts, Begin(q, step, l)
      PROVE  InvAlone'
  <2> DEFINE others == {r \in Procs : Busy(r, l.post)}
  <2>1. /\ pc[q] = "idle" /\ pc' = [pc EXCEPT ![q] = step] /\ loc' = [loc EXCEPT ![q] = l]
        /\ loose' = loose \cup {l.post}
        /\ alone' = (alone \ others) \cup (IF others = {} THEN {q} ELSE {})
    BY <1>1 DEF Begin
  <2>2. q \notin alone
    BY <2>1 DEF InvAlone
  <2>3. \A r \in Procs \ {q} : pc'[r] = pc[r] /\ loc'[r] = loc[r]
    BY <1>h, <2>1 DEF ControlOK
  <2>4. pc'[q] = step /\ loc'[q] = l
    BY <1>h, <2>1 DEF ControlOK
  <2>5. \A r \in Procs : pc'[r] # "idle" => loc'[r].post \in loose'
    BY <2>1, <2>3, <2>4 DEF InvAlone
  <2>6. \A a \in alone' : pc'[a] # "idle"
    BY <1>h, <2>1, <2>3, <2>4 DEF InvAlone, ControlOK
  <2>7. ASSUME NEW a \in alone', NEW r \in Procs, Busy(r, loc[a].post)'
        PROVE  r = a
    <3>1. CASE a = q
      <4>1. others = {}
        BY <2>1, <2>2, <3>1
      <4> QED
        BY <2>3, <2>4, <2>7, <3>1, <4>1 DEF Busy
    <3>2. CASE a # q
      <4>1. a \in alone /\ a \notin others /\ a \in Procs
        BY <1>h, <2>1, <3>2 DEF ControlOK
      <4>2. loc'[a] = loc[a] /\ loc[a].post # l.post
        BY <2>3, <3>2, <4>1 DEF Busy, InvAlone
      <4> QED
        BY <2>3, <2>4, <2>7, <4>1, <4>2 DEF Busy, InvAlone
    <3> QED
      BY <3>1, <3>2
  <2> QED
    BY <2>5, <2>6, <2>7 DEF InvAlone
<1>2. ASSUME pc[q] # "idle", NEW step \in Steps \ {"idle"}, NEW l \in Local,
             l.post = loc[q].post, Goto(q, step, l)
      PROVE  InvAlone'
  <2>1. \A r \in Procs : /\ pc'[r] # "idle" <=> pc[r] # "idle"
                         /\ loc'[r].post = loc[r].post
    BY <1>h, <1>2 DEF Goto, ControlOK
  <2>2. UNCHANGED <<loose, alone>> /\ alone \subseteq Procs
    BY <1>h, <1>2 DEF Goto, history, ControlOK
  <2> QED
    BY <2>1, <2>2 DEF InvAlone, Busy
<1>3. ASSUME pc[q] # "idle", Return(q) \/ GiveUp(q)
      PROVE  InvAlone'
  <2>1. /\ pc' = [pc EXCEPT ![q] = "idle"] /\ loc' = [loc EXCEPT ![q] = NoLocal]
        /\ alone' = alone \ {q} /\ alone \subseteq Procs
        /\ \A p \in loose : p \in loose' \/ (q \in alone /\ p = loc[q].post)
    BY <1>h, <1>3 DEF Return, GiveUp, ControlOK
  <2>2. pc'[q] = "idle" /\ \A r \in Procs \ {q} : pc'[r] = pc[r] /\ loc'[r] = loc[r]
    BY <1>h, <2>1 DEF ControlOK
  <2>3. ASSUME NEW r \in Procs, pc'[r] # "idle" PROVE loc'[r].post \in loose'
    <3>1. r # q /\ pc[r] # "idle" /\ loc'[r] = loc[r]
      BY <2>2, <2>3
    <3>2. loc[r].post \in loose
      BY <3>1 DEF InvAlone
    <3>3. q \in alone => loc[r].post # loc[q].post
      BY <3>1 DEF InvAlone, Busy
    <3> QED
      BY <2>1, <3>1, <3>2, <3>3
  <2>4. ASSUME NEW a \in alone' PROVE pc'[a] # "idle"
    BY <2>1, <2>2 DEF InvAlone
  <2>5. ASSUME NEW a \in alone', NEW r \in Procs, Busy(r, loc[a].post)' PROVE r = a
    BY <2>1, <2>2, <2>5 DEF InvAlone, Busy
  <2> QED
    BY <2>3, <2>4, <2>5 DEF InvAlone
<1> QED
  BY <1>1, <1>2, <1>3, Moves

LEMMA AloneSingle ==
  ASSUME InvAlone, UNCHANGED <<pc, loc, loose, alone>>
  PROVE  InvAlone'
  BY DEF InvAlone, Busy

-----------------------------------------------------------------------------
(* Status and position.  A step is calm for a post if it leaves its status   *)
(* alone and at most takes items of it away.                                 *)

Calm(p) == /\ posts'[p].status = posts[p].status
           /\ \A i \in Items : OfPost(i, p)' => OfPost(i, p) /\ items'[i].column = items[i].column

Follows(p) == \A i \in Items :
  OfPost(i, p) /\ keys[items[i].column] \in Statuses => posts[p].status = keys[items[i].column]

LEMMA FollowsStage == /\ StageFollows <=> \A p \in Posts \ loose : Follows(p)
                      /\ StageFollows' <=> \A p \in Posts \ loose' : Follows(p)'
  BY DEF StageFollows, Follows, OfPost

LEMMA CalmFollows ==
  ASSUME TableOK, TableOK', Grows, NEW p \in Posts, Calm(p), Follows(p)
  PROVE  Follows(p)'
<1> SUFFICES ASSUME NEW i \in Items, OfPost(i, p)', keys'[items'[i].column] \in Statuses
             PROVE  posts'[p].status = keys'[items'[i].column]
  BY DEF Follows
<1>1. OfPost(i, p) /\ items'[i].column = items[i].column /\ posts'[p].status = posts[p].status
  BY DEF Calm
<1>2. /\ items[i].column \in Columns /\ ColumnExists(items[i].column)
      /\ ColumnExists(items[i].column)'
  BY <1>1 DEF TableOK, OfPost, ItemExists, ColumnExists
<1>3. keys'[items[i].column] = keys[items[i].column]
  BY <1>1, <1>2 DEF Grows, ColumnExists
<1> QED
  BY <1>1, <1>3 DEF Follows

LEMMA CalmPromise ==
  ASSUME NEW step \in Steps, NEW l \in Local, l.post \in Posts, Calm(l.post), Promise(step, l)
  PROVE  Promise(step, l)'
  BY DEF Calm, Promise

\* What is left to check of a step of q for post p: the other posts are calm, and q
\* keeps its promise or, returning undisturbed, leaves the post in agreement.
LEMMA StageNext ==
  ASSUME TypeOK, TypeOK', InvHeld, InvStage, Grows, NEW q \in Procs, NEW p \in Posts,
         \A r \in Posts \ {p} : Calm(r),
         \A r \in Procs \ {q} : pc'[r] = pc[r] /\ loc'[r] = loc[r],
         loose \subseteq loose' \cup {p},
         \A a \in alone' \ {q} : a \in alone /\ pc[a] # "idle" /\ loc[a].post # p,
         q \in alone' => Promise(pc[q], loc[q])',
         p \notin loose' => Follows(p)'
  PROVE  InvStage'
<1>h. TableOK /\ TableOK' /\ ControlOK
  BY TypeSplit DEF TypeOK, TableOK, Item, ItemExists
<1>1. \A r \in Posts \ loose' : Follows(r)'
  <2>1. ASSUME NEW r \in Posts \ loose', r # p PROVE Follows(r)'
    BY <1>h, <2>1, CalmFollows, FollowsStage DEF InvStage
  <2> QED
    BY <2>1
<1>2. ASSUME NEW a \in alone', a # q PROVE Promise(pc[a], loc[a])'
  <2>1. a \in alone /\ a \in Procs /\ loc[a].post \in Posts \ {p}
    BY <1>h, <1>2 DEF InvHeld, Held, ControlOK
  <2>2. PICK step \in Steps, l \in Local : step = pc[a] /\ l = loc[a]
    BY <1>h, <2>1 DEF ControlOK
  <2>3. Promise(step, l) /\ Calm(l.post)
    BY <2>1, <2>2 DEF InvStage
  <2>4. Promise(step, l)'
    BY <2>1, <2>2, <2>3, CalmPromise
  <2>5. pc'[a] = step /\ loc'[a] = l
    BY <1>2, <2>1, <2>2
  <2> QED
    BY <2>4, <2>5 DEF Promise
<1> QED
  BY <1>1, <1>2, FollowsStage DEF InvStage

Known == TypeOK /\ TypeOK' /\ InvHeld /\ InvAlone /\ InvStage /\ Grows

LEMMA StageBegin ==
  ASSUME Known, NEW q \in Procs, NEW step \in Steps \ {"idle"}, NEW l \in Local, l.post \in Posts,
         Begin(q, step, l), \A r \in Posts \ {l.post} : Calm(r), Promise(step, l)'
  PROVE  InvStage'
<1>h. ControlOK
  BY TypeSplit DEF Known
<1> DEFINE others == {r \in Procs : Busy(r, l.post)}
<1>1. /\ pc' = [pc EXCEPT ![q] = step] /\ loc' = [loc EXCEPT ![q] = l]
      /\ loose' = loose \cup {l.post}
      /\ alone' = (alone \ others) \cup (IF others = {} THEN {q} ELSE {})
  BY DEF Begin
<1>2. /\ \A r \in Procs \ {q} : pc'[r] = pc[r] /\ loc'[r] = loc[r]
      /\ pc'[q] = step /\ loc'[q] = l
  BY <1>h, <1>1 DEF ControlOK
<1>3. \A a \in alone' \ {q} : a \in alone /\ pc[a] # "idle" /\ loc[a].post # l.post
  BY <1>h, <1>1 DEF Known, InvAlone, Busy, ControlOK
<1>4. Promise(pc[q], loc[q])'
  BY <1>2 DEF Promise
<1> QED
  BY <1>1, <1>2, <1>3, <1>4, StageNext DEF Known

LEMMA StageGoto ==
  ASSUME Known, NEW q \in Procs, NEW step \in Steps \ {"idle"}, NEW l \in Local, pc[q] # "idle",
         l.post = loc[q].post, Goto(q, step, l), \A r \in Posts \ {loc[q].post} : Calm(r),
         q \in alone => Promise(step, l)'
  PROVE  InvStage'
<1>h. ControlOK
  BY TypeSplit DEF Known
<1>p. PICK p \in Posts : p = loc[q].post /\ p \in loose
  BY DEF Known, InvHeld, Held, InvAlone
<1>2. /\ \A r \in Procs \ {q} : pc'[r] = pc[r] /\ loc'[r] = loc[r]
      /\ pc'[q] = step /\ loc'[q] = l /\ UNCHANGED <<loose, alone>>
  BY <1>h DEF ControlOK, Goto, history
<1>3. \A a \in alone' \ {q} : a \in alone /\ pc[a] # "idle" /\ loc[a].post # p
  BY <1>h, <1>2, <1>p DEF Known, InvAlone, Busy, ControlOK
<1>4. q \in alone' => Promise(pc[q], loc[q])'
  BY <1>2 DEF Promise
<1> QED
  BY <1>2, <1>3, <1>4, <1>p, StageNext DEF Known

LEMMA StageEnd ==
  ASSUME Known, NEW q \in Procs, pc[q] # "idle", Return(q) \/ GiveUp(q),
         \A r \in Posts \ {loc[q].post} : Calm(r),
         \A p \in Posts : p = loc[q].post /\ Return(q) /\ q \in alone => Follows(p)'
  PROVE  InvStage'
<1>h. ControlOK
  BY TypeSplit DEF Known
<1>p. PICK p \in Posts : p = loc[q].post /\ p \in loose
  BY DEF Known, InvHeld, Held, InvAlone
<1>1. /\ pc' = [pc EXCEPT ![q] = "idle"] /\ loc' = [loc EXCEPT ![q] = NoLocal]
      /\ alone' = alone \ {q} /\ loose \subseteq loose' \cup {p}
  BY <1>p DEF Return, GiveUp
<1>2. \A r \in Procs \ {q} : pc'[r] = pc[r] /\ loc'[r] = loc[r]
  BY <1>h, <1>1 DEF ControlOK
<1>3. \A a \in alone' \ {q} : a \in alone /\ pc[a] # "idle" /\ loc[a].post # p
  BY <1>h, <1>1, <1>p DEF Known, InvAlone, Busy, ControlOK
<1>4. p \notin loose' => Follows(p)'
  BY <1>p DEF Return, GiveUp
<1> QED
  BY <1>1, <1>2, <1>3, <1>4, <1>p, StageNext DEF Known

LEMMA AllCalm == UNCHANGED <<posts, items>> => \A p \in Posts : Calm(p)
  BY DEF Calm, OfPost, ItemExists

LEMMA SyncStage ==
  ASSUME TypeOK, InvHeld, InvUnique, InvAlone, InvStage,
         NEW q \in Procs, Request(q) \/ Step(q) \/ Fail(q)
  PROVE  InvStage'
<1> USE ConstantsOK
<1>k. Known /\ TableOK /\ TableOK' /\ ControlOK /\ InvUnique'
  <2>1. Known /\ InvUnique'
    BY SyncTables, SyncGrows, UniqueStep DEF Known
  <2> QED
    BY <2>1, TypeSplit DEF Known, TypeOK, TableOK, Item, ItemExists
<1>q. Held(pc[q], loc[q]) /\ loc[q] \in Local /\ (q \in alone => Promise(pc[q], loc[q]))
  BY <1>k DEF InvHeld, ControlOK, InvStage
<1>u. UNCHANGED table => \A p \in Posts : Calm(p)
  BY AllCalm DEF table
<1>1. CASE AddItemToRoadmap(q)
  <2>1. PICK p \in Posts, c \in Columns, i \in Items :
          /\ ~OnRoadmap(p) /\ items[i].post_id = NoPost
          /\ Begin(q, "column_key", Knows(i, p, c, Open))
          /\ items' = [items EXCEPT ![i] = [post_id |-> p, column |-> c]]
          /\ UNCHANGED <<posts, keys>>
    BY <1>1 DEF AddItemToRoadmap
  <2> DEFINE l == Knows(i, p, c, Open)
  <2>2. l \in Local /\ l.item = i /\ l.post = p /\ l.column = c /\ Begin(q, "column_key", l)
    BY <2>1, KnowsOK
  <2> HIDE DEF l
  <2>3. \A r \in Posts \ {p} : Calm(r)
    BY <1>k, <2>1 DEF Calm, OfPost, ItemExists, TableOK
  <2>4. Promise("column_key", l)'
    BY <1>k, <2>1, <2>2 DEF Promise, OfPost, OnRoadmap, ItemExists, TableOK
  <2> QED
    BY <1>k, <2>2, <2>3, <2>4, StageBegin DEF Steps
<1>2. CASE UpdateRoadmapItem(q)
  <2>1. PICK i \in Items, c \in Columns :
          /\ ItemExists(i) /\ ColumnExists(c)
          /\ Begin(q, "item_post", Knows(i, items[i].post_id, c, Open))
          /\ items' = [items EXCEPT ![i].column = c]
          /\ UNCHANGED <<posts, keys>>
    BY <1>2 DEF UpdateRoadmapItem
  <2>2. PICK p \in Posts : p = items[i].post_id
    BY <1>k, <2>1 DEF TableOK
  <2> DEFINE l == Knows(i, p, c, Open)
  <2>3. l \in Local /\ l.item = i /\ l.post = p /\ l.column = c /\ Begin(q, "item_post", l)
    BY <2>1, <2>2, KnowsOK
  <2> HIDE DEF l
  <2>4. /\ items'[i].column = c /\ items'[i].post_id = p
        /\ \A j \in Items \ {i} : items'[j] = items[j]
    BY <1>k, <2>1, <2>2 DEF TableOK, Item
  <2>5. \A r \in Posts \ {p} : Calm(r)
    BY <2>1, <2>2, <2>4 DEF Calm, OfPost, ItemExists
  <2>6. \A j \in Items : OfPost(j, p)' => j = i
    BY <1>k, <2>1, <2>2, <2>4 DEF InvUnique, OfPost, ItemExists
  <2>7. Promise("item_post", l)'
    BY <2>3, <2>4, <2>6 DEF Promise
  <2> QED
    BY <1>k, <2>3, <2>5, <2>7, StageBegin DEF Steps
<1>3. CASE RemoveItemFromRoadmap(q)
  <2>1. PICK i \in Items :
          /\ ItemExists(i)
          /\ Begin(q, "delete_item", Knows(i, items[i].post_id, NoColumn, Open))
          /\ UNCHANGED table
    BY <1>3 DEF RemoveItemFromRoadmap
  <2>2. PICK p \in Posts : p = items[i].post_id
    BY <1>k, <2>1 DEF TableOK
  <2> DEFINE l == Knows(i, p, NoColumn, Open)
  <2>3. l \in Local /\ l.item = i /\ l.post = p /\ Begin(q, "delete_item", l)
    BY <2>1, <2>2, KnowsOK
  <2> HIDE DEF l
  <2>4. Promise("delete_item", l)'
    BY <2>1, <2>2, <2>3 DEF Promise, InvUnique, OfPost, ItemExists, table
  <2> QED
    BY <1>k, <1>u, <2>1, <2>3, <2>4, StageBegin DEF Steps
<1>4. CASE UpdatePostStatus(q)
  <2>1. PICK p \in Posts, s \in Statuses :
          /\ Begin(q, "find_column", Knows(NoItem, p, NoColumn, s))
          /\ posts' = [posts EXCEPT ![p].status = s]
          /\ UNCHANGED <<items, keys>>
    BY <1>4 DEF UpdatePostStatus
  <2> DEFINE l == Knows(NoItem, p, NoColumn, s)
  <2>2. l \in Local /\ l.post = p /\ l.status = s /\ Begin(q, "find_column", l)
    BY <2>1, KnowsOK
  <2> HIDE DEF l
  <2>3. \A r \in Posts \ {p} : Calm(r)
    BY <1>k, <2>1 DEF Calm, OfPost, ItemExists, TableOK
  <2>4. Promise("find_column", l)'
    BY <1>k, <2>1, <2>2 DEF Promise, TableOK, Post
  <2> QED
    BY <1>k, <2>2, <2>3, <2>4, StageBegin DEF Steps
<1>5. CASE ItemPost(q)
  <2>1. pc[q] = "item_post" /\ UNCHANGED table /\ \A p \in Posts : Calm(p)
    BY <1>5, <1>u DEF ItemPost
  <2>2. CASE Goto(q, "column_key", loc[q])
    <3>1. PICK l \in Local : l = loc[q]
      BY <1>q
    <3>2. q \in alone => Promise("column_key", l)'
      BY <1>q, <2>1, <3>1 DEF Promise, OfPost, ItemExists, table
    <3> QED
      BY <1>k, <2>1, <2>2, <3>1, <3>2, StageGoto DEF Steps
  <2>3. CASE ~ItemExists(loc[q].item) /\ Return(q)
    <3>1. \A p \in Posts : p = loc[q].post /\ q \in alone => Follows(p)'
      BY <1>q, <2>1, <2>3 DEF Promise, Follows, OfPost, ItemExists, table
    <3> QED
      BY <1>k, <2>1, <2>3, <3>1, StageEnd
  <2> QED
    BY <1>5, <2>2, <2>3 DEF ItemPost
<1>6. CASE SyncColumnKey(q)
  <2>1. pc[q] = "column_key" /\ UNCHANGED table /\ \A p \in Posts : Calm(p)
    BY <1>6, <1>u DEF SyncColumnKey
  <2>2. CASE /\ keys[loc[q].column] \in Statuses
             /\ Goto(q, "set_status", [loc[q] EXCEPT !.status = keys[loc[q].column]])
    <3>1. PICK l \in Local : l = [loc[q] EXCEPT !.status = keys[loc[q].column]]
      BY <1>q, <2>2, LocalOK
    <3>2. l.post = loc[q].post /\ l.column = loc[q].column
      BY <1>q, <3>1 DEF Local
    <3>3. q \in alone => Promise("set_status", l)'
      BY <1>q, <2>1, <3>2 DEF Promise, OfPost, ItemExists, table
    <3> QED
      BY <1>k, <2>1, <2>2, <3>1, <3>2, <3>3, StageGoto DEF Steps
  <2>3. CASE keys[loc[q].column] \notin Statuses /\ Return(q)
    <3>1. \A p \in Posts : p = loc[q].post /\ q \in alone => Follows(p)'
      BY <1>q, <2>1, <2>3 DEF Promise, Follows, OfPost, ItemExists, table
    <3> QED
      BY <1>k, <2>1, <2>3, <3>1, StageEnd
  <2> QED
    BY <1>6, <2>2, <2>3 DEF SyncColumnKey
<1>7. CASE SyncPostStatus(q) \/ ResetPostStatusToOpen(q)
  <2>1. Return(q) /\ UNCHANGED <<items, keys>> /\ pc[q] \in {"set_status", "open_post"}
    BY <1>7 DEF SyncPostStatus, ResetPostStatusToOpen
  <2>2. PICK p \in Posts : p = loc[q].post
    BY <1>q, <2>1 DEF Held
  <2>3. \A r \in Posts \ {p} : posts'[r] = posts[r]
    BY <1>k, <1>7, <2>2 DEF SyncPostStatus, ResetPostStatusToOpen, TableOK
  <2>4. \A r \in Posts \ {p} : Calm(r)
    BY <2>1, <2>3 DEF Calm, OfPost, ItemExists
  <2>5. ASSUME q \in alone PROVE Follows(p)'
    <3>1. CASE SyncPostStatus(q)
      <4>1. \A i \in Items : OfPost(i, p) => items[i].column = loc[q].column
        BY <1>q, <2>2, <2>5, <3>1 DEF SyncPostStatus, Promise
      <4>2. PostExists(p) => posts'[p].status = loc[q].status
        BY <1>k, <1>q, <2>2, <3>1 DEF SyncPostStatus, TableOK, Post
      <4>3. keys[loc[q].column] \in {loc[q].status, "deleted"}
        BY <1>q, <3>1 DEF SyncPostStatus, Held
      <4>4. \A i \in Items : OfPost(i, p) => PostExists(p) /\ ColumnExists(items[i].column)
        BY <1>k DEF TableOK, OfPost
      <4> QED
        BY <2>1, <4>1, <4>2, <4>3, <4>4 DEF Follows, OfPost, ItemExists, ColumnExists
    <3>2. CASE ResetPostStatusToOpen(q)
      BY <1>q, <2>1, <2>2, <2>5, <3>2 DEF ResetPostStatusToOpen, Promise, Follows, OfPost, ItemExists
    <3> QED
      BY <1>7, <3>1, <3>2
  <2> QED
    BY <1>k, <2>1, <2>2, <2>4, <2>5, StageEnd
<1>8. CASE DeleteItem(q)
  <2>1. /\ pc[q] = "delete_item" /\ UNCHANGED <<posts, keys>>
        /\ items' = [items EXCEPT ![loc[q].item].column = NoColumn]
    BY <1>8 DEF DeleteItem
  <2>2. PICK p \in Posts, i \in Items : p = loc[q].post /\ i = loc[q].item /\ items[i].post_id = p
    BY <1>q, <2>1 DEF Held, ByItem
  <2>3. /\ items'[i].column = NoColumn /\ items'[i].post_id = p
        /\ \A j \in Items \ {i} : items'[j] = items[j]
    BY <1>k, <2>1, <2>2 DEF TableOK, Item
  <2>4. \A r \in Posts \ {p} : Calm(r)
    BY <2>1, <2>2, <2>3 DEF Calm, OfPost, ItemExists
  <2>5. q \in alone => \A j \in Items : ~OfPost(j, p)'
    BY <1>q, <2>1, <2>2, <2>3 DEF Promise, OfPost, ItemExists
  <2>6. CASE Goto(q, "open_post", loc[q])
    <3>1. PICK l \in Local : l = loc[q]
      BY <1>q
    <3>2. q \in alone => Promise("open_post", l)'
      BY <2>2, <2>5, <3>1 DEF Promise
    <3> QED
      BY <1>k, <2>1, <2>2, <2>4, <2>6, <3>1, <3>2, StageGoto DEF Steps
  <2>7. CASE Return(q)
    <3>1. q \in alone => Follows(p)'
      BY <2>5 DEF Follows
    <3> QED
      BY <1>k, <2>1, <2>2, <2>4, <2>7, <3>1, StageEnd
  <2> QED
    BY <1>8, <2>6, <2>7 DEF DeleteItem
<1>9. CASE FindColumn(q)
  <2>1. pc[q] = "find_column" /\ UNCHANGED table /\ \A p \in Posts : Calm(p)
    BY <1>9, <1>u DEF FindColumn
  <2>2. CASE \E c \in Columns : Goto(q, "move_item", [loc[q] EXCEPT !.column = c])
    <3>1. PICK c \in Columns : Goto(q, "move_item", [loc[q] EXCEPT !.column = c])
      BY <2>2
    <3>2. PICK l \in Local : l = [loc[q] EXCEPT !.column = c]
      BY <1>q, LocalOK
    <3>3. l.post = loc[q].post /\ l.status = loc[q].status
      BY <1>q, <3>2 DEF Local
    <3>4. q \in alone => Promise("move_item", l)'
      BY <1>q, <2>1, <3>3 DEF Promise, table
    <3> QED
      BY <1>k, <2>1, <3>1, <3>2, <3>3, <3>4, StageGoto DEF Steps
  <2>3. CASE GiveUp(q)
    <3>1. Return(q) /\ q \in alone => loose' = loose \ {loc[q].post}
      BY DEF Return
    <3>2. loose' = loose /\ loc[q].post \in loose
      BY <1>k, <2>1, <2>3 DEF GiveUp, Known, InvAlone
    <3> QED
      BY <1>k, <2>1, <2>3, <3>1, <3>2, StageEnd
  <2> QED
    BY <1>9, <2>2, <2>3 DEF FindColumn
<1>10. CASE MoveItem(q)
  <2>1. /\ pc[q] = "move_item" /\ Return(q) /\ UNCHANGED <<posts, keys>>
        /\ items' = [i \in Items |-> IF ItemExists(i) /\ items[i].post_id = loc[q].post
                                     THEN [items[i] EXCEPT !.column = loc[q].column] ELSE items[i]]
    BY <1>10 DEF MoveItem
  <2>2. PICK p \in Posts, c \in Columns : p = loc[q].post /\ c = loc[q].column
    BY <1>q, <2>1 DEF Held, ByColumn
  <2>3. \A i \in Items : /\ OfPost(i, p) => items'[i].column = c
                         /\ ~OfPost(i, p) => items'[i] = items[i]
                         /\ items'[i].post_id = items[i].post_id
    BY <1>k, <2>1, <2>2 DEF OfPost, TableOK, Item
  <2>4. \A r \in Posts \ {p} : Calm(r)
    BY <2>1, <2>3 DEF Calm, OfPost, ItemExists
  <2>5. ASSUME q \in alone PROVE Follows(p)'
    <3>1. posts'[p].status = loc[q].status /\ keys'[c] \in {loc[q].status, "deleted"}
      BY <1>q, <2>1, <2>2, <2>5 DEF Promise, Held
    <3>2. \A i \in Items : OfPost(i, p)' => items'[i].column = c
      BY <2>3 DEF OfPost, ItemExists
    <3>3. \A i \in Items : OfPost(i, p)' => keys'[items'[i].column] # "deleted"
      BY <1>k DEF TableOK, OfPost, ColumnExists
    <3> QED
      BY <3>1, <3>2, <3>3 DEF Follows
  <2> QED
    BY <1>k, <2>1, <2>2, <2>4, <2>5, StageEnd
<1>11. CASE MoveRefused(q) \/ Fail(q)
  <2>1. pc[q] # "idle" /\ GiveUp(q) /\ UNCHANGED table /\ \A p \in Posts : Calm(p)
    BY <1>11, <1>u DEF MoveRefused, Fail, table
  <2>2. Return(q) /\ q \in alone => loose' = loose \ {loc[q].post}
    BY DEF Return
  <2>3. loose' = loose /\ loc[q].post \in loose
    BY <1>k, <2>1 DEF GiveUp, Known, InvAlone
  <2> QED
    BY <1>k, <2>1, <2>2, <2>3, StageEnd
<1> QED
  BY <1>1, <1>2, <1>3, <1>4, <1>5, <1>6, <1>7, <1>8, <1>9, <1>10, <1>11 DEF Request, Step

LEMMA SingleStage ==
  ASSUME TypeOK, InvHeld, InvAlone, InvStage, SingleStep
  PROVE  InvStage'
<1>k. /\ TypeOK' /\ TableOK /\ TableOK' /\ ControlOK /\ Grows
      /\ UNCHANGED <<pc, loc, loose, alone>>
  <2>1. TypeOK' /\ Grows /\ UNCHANGED <<pc, loc, loose, alone>>
    BY SingleTables, SingleGrows, SingleControl
  <2> QED
    BY <2>1, TypeSplit DEF TypeOK, TableOK, Item, ItemExists
<1>1. ASSUME NEW p \in Posts
      PROVE  Calm(p) \/ (posts[p].moderation_state = "none" /\ \A i \in Items : ~OfPost(i, p)')
  <2>1. CASE CreatePost
    BY <1>k, <2>1 DEF CreatePost, Calm, OfPost, ItemExists, TableOK, PostExists, Visibility
  <2>2. CASE ~CreatePost
    <3>1. posts'[p].status = posts[p].status
      <4>1. CASE DeletePost \/ ClearWorkspaceFeedback \/ PurgeSpamPosts \/ PurgeExpiredSpam
        <5>1. PICK gone \in SUBSET Posts : DeletePosts(gone)
          BY <4>1, DeletesOK
        <5> QED
          BY <1>k, <5>1 DEF DeletePosts, TableOK, Post
      <4>2. CASE UpdatePostModeration
        <5>1. PICK r \in Posts, state \in Visibility :
                posts' = [posts EXCEPT ![r] = IF state = "published" THEN Reviewed(@)
                                              ELSE [@ EXCEPT !.moderation_state = state]]
          BY <4>2 DEF UpdatePostModeration
        <5>2. posts[r] \in Post
          BY <1>k DEF TableOK
        <5>3. /\ Reviewed(posts[r]).status = posts[r].status
              /\ [posts[r] EXCEPT !.moderation_state = state].status = posts[r].status
          BY <5>2, PostOK DEF Post
        <5> QED
          BY <1>k, <5>1, <5>3 DEF TableOK
      <4>3. CASE Age
        BY <1>k, <4>3 DEF Age, TableOK, Post
      <4>4. CASE CreateRoadmapColumn \/ DeleteRoadmapColumn
        BY <4>4 DEF CreateRoadmapColumn, DeleteRoadmapColumn
      <4> QED
        BY <2>2, <4>1, <4>2, <4>3, <4>4 DEF SingleStep
    <3>2. UNCHANGED items \/ \E lost \in SUBSET Items : items' = Without(lost)
      <4>1. CASE DeletePost \/ ClearWorkspaceFeedback \/ PurgeSpamPosts \/ PurgeExpiredSpam
        <5>1. PICK gone \in SUBSET Posts : DeletePosts(gone)
          BY <4>1, DeletesOK
        <5> QED
          BY <5>1 DEF DeletePosts
      <4>2. CASE DeleteRoadmapColumn
        BY <4>2 DEF DeleteRoadmapColumn
      <4>3. CASE CreateRoadmapColumn \/ UpdatePostModeration \/ Age
        BY <4>3 DEF CreateRoadmapColumn, UpdatePostModeration, Age
      <4> QED
        BY <2>2, <4>1, <4>2, <4>3 DEF SingleStep
    <3>3. CASE UNCHANGED items
      BY <3>1, <3>3 DEF Calm, OfPost, ItemExists
    <3>4. CASE \E lost \in SUBSET Items : items' = Without(lost)
      <4>1. PICK lost \in SUBSET Items : items' = Without(lost)
        BY <3>4
      <4>2. ASSUME NEW i \in Items, OfPost(i, p)'
            PROVE  OfPost(i, p) /\ items'[i].column = items[i].column
        <5>1. i \notin lost
          BY <4>1, <4>2, WithoutOK DEF OfPost, ItemExists
        <5>2. items'[i] = items[i]
          BY <4>1, <5>1, WithoutOK
        <5> QED
          BY <4>2, <5>2 DEF OfPost, ItemExists
      <4> QED
        BY <3>1, <4>2 DEF Calm
    <3> QED
      BY <3>2, <3>3, <3>4
  <2> QED
    BY <2>1, <2>2
<1>2. ASSUME NEW p \in Posts \ loose' PROVE Follows(p)'
  <2>1. CASE Calm(p)
    BY <1>k, <1>2, <2>1, CalmFollows, FollowsStage DEF InvStage
  <2>2. CASE \A i \in Items : ~OfPost(i, p)'
    BY <2>2 DEF Follows
  <2> QED
    BY <1>1, <2>1, <2>2
<1>3. ASSUME NEW a \in alone' PROVE Promise(pc[a], loc[a])'
  <2>1. a \in alone /\ a \in Procs /\ pc[a] # "idle"
    BY <1>k, <1>3 DEF InvAlone, ControlOK
  <2>2. loc[a].post \in Posts /\ posts[loc[a].post].moderation_state # "none"
    BY <2>1 DEF InvHeld, Held
  <2>3. PICK step \in Steps, l \in Local : step = pc[a] /\ l = loc[a]
    BY <1>k, <2>1 DEF ControlOK
  <2>4. Promise(step, l) /\ Calm(l.post) /\ l.post \in Posts
    BY <1>1, <2>1, <2>2, <2>3 DEF InvStage
  <2>5. Promise(step, l)'
    BY <2>4, CalmPromise
  <2>6. pc'[a] = step /\ loc'[a] = l
    BY <1>k, <2>3
  <2> QED
    BY <2>5, <2>6 DEF Promise
<1> QED
  BY <1>2, <1>3, FollowsStage DEF InvStage

-----------------------------------------------------------------------------
(* The classifier's score.                                                  *)

LEMMA ScoreKept ==
  ASSUME ScoreNeverLost, UNCHANGED scored,
         \A p \in Posts : PostExists(p)' =>
           /\ PostExists(p) /\ posts'[p].spam_score = posts[p].spam_score
           /\ posts'[p].spam_reviewed_score = posts[p].spam_reviewed_score
  PROVE  ScoreNeverLost'
  BY DEF ScoreNeverLost

LEMMA SyncScore ==
  ASSUME TypeOK, ScoreNeverLost, NEW q \in Procs, Request(q) \/ Step(q) \/ Fail(q)
  PROVE  ScoreNeverLost'
<1>h. TableOK
  BY TypeSplit
<1>1. UNCHANGED scored
  BY DEF Request, Step, Fail, AddItemToRoadmap, UpdateRoadmapItem, RemoveItemFromRoadmap,
     UpdatePostStatus, ItemPost, SyncColumnKey, SyncPostStatus, DeleteItem, ResetPostStatusToOpen,
     FindColumn, MoveItem, MoveRefused, Begin, Goto, Return, GiveUp, history
<1>2. UNCHANGED posts \/ \E p \in Posts, s \in Statuses : posts' = [posts EXCEPT ![p].status = s]
  <2>1. CASE UpdatePostStatus(q)
    BY <2>1 DEF UpdatePostStatus
  <2>2. CASE SyncPostStatus(q) \/ ResetPostStatusToOpen(q)
    <3>1. loc[q].status \in Statuses /\ Open \in Statuses
      BY TypeSplit, ConstantsOK DEF ControlOK, Local
    <3>2. PostExists(loc[q].post) => loc[q].post \in Posts \/ posts' = posts
      BY <1>h, <2>2 DEF SyncPostStatus, ResetPostStatusToOpen, TableOK
    <3> QED
      BY <2>2, <3>1, <3>2 DEF SyncPostStatus, ResetPostStatusToOpen
  <2>3. CASE UNCHANGED posts
    BY <2>3
  <2> QED
    BY <2>1, <2>2, <2>3
       DEF Request, Step, Fail, AddItemToRoadmap, UpdateRoadmapItem, RemoveItemFromRoadmap, ItemPost,
           SyncColumnKey, DeleteItem, FindColumn, MoveItem, MoveRefused, table
<1>3. ASSUME NEW p \in Posts
      PROVE  /\ posts'[p].moderation_state = posts[p].moderation_state
             /\ posts'[p].spam_score = posts[p].spam_score
             /\ posts'[p].spam_reviewed_score = posts[p].spam_reviewed_score
  BY <1>h, <1>2 DEF TableOK, Post
<1> QED
  BY <1>1, <1>3, ScoreKept DEF PostExists

LEMMA SingleScore ==
  ASSUME TypeOK, ScoreNeverLost, SingleStep
  PROVE  ScoreNeverLost'
<1> USE ConstantsOK
<1>h. TableOK
  BY TypeSplit
<1>1. CASE CreatePost
  <2>1. PICK p \in Posts, status \in Statuses, score \in Scores :
          /\ posts' = [posts EXCEPT ![p] = NewPost(status, ModerationStateFor(score), score)]
          /\ scored' = [scored EXCEPT ![p] = score]
    BY <1>1 DEF CreatePost
  <2>2. \A r \in Posts \ {p} : posts'[r] = posts[r] /\ scored'[r] = scored[r]
    BY <1>h, <2>1 DEF TableOK
  <2>3. /\ posts'[p].spam_score = score /\ posts'[p].spam_reviewed_score = NoScore
        /\ scored'[p] = score
    BY <1>h, <2>1 DEF TableOK, NewPost
  <2> QED
    BY <2>2, <2>3 DEF ScoreNeverLost, PostExists
<1>2. CASE UpdatePostModeration
  <2>1. PICK p \in Posts, state \in Visibility :
          /\ PostExists(p)
          /\ posts' = [posts EXCEPT ![p] = IF state = "published" THEN Reviewed(@)
                                           ELSE [@ EXCEPT !.moderation_state = state]]
          /\ UNCHANGED scored
    BY <1>2 DEF UpdatePostModeration, history
  <2>2. posts[p] \in Post /\ posts[p].spam_score # NoScore
    BY <1>h DEF TableOK, Post, NoScore
  <2>3. \A r \in Posts \ {p} : posts'[r] = posts[r]
    BY <1>h, <2>1 DEF TableOK
  <2>4. CASE state = "published"
    <3>1. posts'[p] = Reviewed(posts[p])
      BY <1>h, <2>1, <2>4 DEF TableOK
    <3>2. posts'[p].spam_reviewed_score = scored[p] /\ scored[p] # NoScore
      <4>1. scored[p] # NoScore
        BY <1>h DEF TableOK, NoScore
      <4>2. scored[p] = IF posts[p].spam_reviewed_score = NoScore THEN posts[p].spam_score
                        ELSE posts[p].spam_reviewed_score
        BY <2>1 DEF ScoreNeverLost
      <4> QED
        BY <2>2, <3>1, <4>1, <4>2, PostOK
    <3> QED
      BY <2>1, <2>3, <3>2 DEF ScoreNeverLost, PostExists
  <2>5. CASE state # "published"
    <3>1. posts'[p] = [posts[p] EXCEPT !.moderation_state = state]
      BY <1>h, <2>1, <2>5 DEF TableOK
    <3>2. /\ posts'[p].spam_reviewed_score = posts[p].spam_reviewed_score
          /\ posts'[p].spam_score = posts[p].spam_score
      BY <2>2, <3>1 DEF Post
    <3>3. \A r \in Posts : PostExists(r)' =>
            /\ PostExists(r) /\ posts'[r].spam_score = posts[r].spam_score
            /\ posts'[r].spam_reviewed_score = posts[r].spam_reviewed_score
      BY <2>1, <2>3, <3>2 DEF PostExists
    <3> QED
      BY <2>1, <3>3, ScoreKept
  <2> QED
    BY <2>4, <2>5
<1>3. CASE DeletePost \/ ClearWorkspaceFeedback \/ PurgeSpamPosts \/ PurgeExpiredSpam
  <2>1. PICK gone \in SUBSET Posts : DeletePosts(gone)
    BY <1>3, DeletesOK
  <2>2. UNCHANGED scored
    BY <2>1 DEF DeletePosts, history
  <2>3. ASSUME NEW p \in Posts, PostExists(p)'
        PROVE  PostExists(p) /\ posts'[p] = posts[p]
    <3>1. CASE p \in gone
      <4>1. posts'[p].moderation_state = "deleted"
        BY <1>h, <2>1, <3>1 DEF DeletePosts, TableOK, Post
      <4> QED
        BY <2>3, <4>1 DEF PostExists, Visibility
    <3>2. CASE p \notin gone
      <4>1. posts'[p] = posts[p]
        BY <2>1, <3>2 DEF DeletePosts
      <4> QED
        BY <2>3, <4>1 DEF PostExists
    <3> QED
      BY <3>1, <3>2
  <2> QED
    BY <2>2, <2>3, ScoreKept
<1>4. CASE Age
  <2>1. PICK p \in Posts : posts' = [posts EXCEPT ![p].old = TRUE] /\ UNCHANGED scored
    BY <1>4 DEF Age, history
  <2>2. ASSUME NEW r \in Posts
        PROVE  /\ posts'[r].moderation_state = posts[r].moderation_state
               /\ posts'[r].spam_score = posts[r].spam_score
               /\ posts'[r].spam_reviewed_score = posts[r].spam_reviewed_score
    BY <1>h, <2>1 DEF TableOK, Post
  <2> QED
    BY <2>1, <2>2, ScoreKept DEF PostExists
<1>5. CASE CreateRoadmapColumn \/ DeleteRoadmapColumn
  BY <1>5, ScoreKept DEF CreateRoadmapColumn, DeleteRoadmapColumn, PostExists, history
<1> QED
  BY <1>1, <1>2, <1>3, <1>4, <1>5 DEF SingleStep

-----------------------------------------------------------------------------
(* The theorems.                                                            *)

LEMMA NextOK == IInv /\ [Next]_vars => IInv'
<1> SUFFICES ASSUME IInv, [Next]_vars PROVE IInv'
  OBVIOUS
<1> USE DEF IInv
<1>1. ASSUME NEW q \in Procs, Request(q) \/ Step(q) \/ Fail(q)
      PROVE  IInv'
  BY <1>1, SyncTables, SyncHeld, UniqueStep, AloneStep, SyncStage, SyncScore
<1>2. CASE SingleStep
  BY <1>2, SingleTables, SingleHeld, UniqueStep, SingleControl, AloneSingle, SingleStage, SingleScore
<1>3. CASE UNCHANGED vars
  BY <1>3 DEF vars, table, history, TypeOK, InvHeld, Held, InvUnique, OfPost, InvAlone, Busy, InvStage,
     StageFollows, Promise, ScoreNeverLost, ItemExists, PostExists, ColumnExists
<1> QED
  BY <1>1, <1>2, <1>3 DEF Next, SingleStep

LEMMA Inductive == Spec => []IInv
  BY InitOK, NextOK, PTL DEF Spec

\* Types, and the foreign keys from a roadmap item to a post and a column that exist.
THEOREM TypeCorrect == Spec => []TypeOK
  BY Inductive, PTL DEF IInv

\* Once the last request about a post has run undisturbed, its status is the one
\* its roadmap column stands for (roadmapSync, in both directions).
THEOREM StageAlwaysFollows == Spec => []StageFollows
  BY Inductive, PTL DEF IInv, InvStage

\* No sequence of reviews loses the score the classifier gave (updatePostModeration).
THEOREM ScoresKept == Spec => []ScoreNeverLost
  BY Inductive, PTL DEF IInv
=============================================================================
