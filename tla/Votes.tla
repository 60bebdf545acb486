-------------------------------- MODULE Votes --------------------------------
(***************************************************************************)
(* The votes of one post of the public board (togglePublicVote.js).  A     *)
(* click is a read, a write and a count, each a query of its own, and any  *)
(* number of clicks run at once, in several processes.                     *)
(*                                                                         *)
(* A visitor is known by a network (voter_hash, derived from the address,  *)
(* NoHash when there is none) and by a browser (guest_id, which the client *)
(* sends).  Both are UNIQUE for a post, and MySQL does not compare NULLs.  *)
(***************************************************************************)
EXTENDS Integers, FiniteSets

CONSTANTS
  Hashes,          \* networks
  NoHash,          \* no address could be derived
  Guests,          \* browsers
  VoteProcs,       \* requests that can be at work at once
  MaxClicks        \* bound: clicks in a behaviour

ASSUME VoteConstants ==
  /\ NoHash \notin Hashes \cup Guests
  /\ MaxClicks \in Nat

VARIABLES
  vpost,           \* the post: "published", "spam" or "gone"
  votes,           \* rows [hash, guest]
  vpc, vloc,       \* each request's step and what it holds
  clicks,          \* requests begun
  \* history
  alone,           \* requests no other click of the same visitor overlapped
  undisturbed      \* requests during which the post stayed as it was read

voteVars == <<vpost, votes, vpc, vloc, clicks, alone, undisturbed>>

Visitors == [hash : Hashes \cup {NoHash}, guest : Guests]
NoClick  == [hash |-> NoHash, guest |-> NoHash, found |-> {},
             voted |-> FALSE]

VoteTypeOK ==
  /\ vpost \in {"published", "spam", "gone"}
  /\ votes \subseteq Visitors
  /\ vpost = "gone" => votes = {}
  /\ vpc \in [VoteProcs -> {"idle", "find", "write", "count"}]
  /\ vloc \in [VoteProcs -> [hash : Hashes \cup {NoHash}, guest : Guests \cup {NoHash},
                             found : SUBSET Visitors, voted : BOOLEAN]]
  /\ clicks \in Nat /\ alone \subseteq VoteProcs /\ undisturbed \subseteq VoteProcs

VoteInit ==
  /\ vpost = "published" /\ votes = {}
  /\ vpc = [q \in VoteProcs |-> "idle"] /\ vloc = [q \in VoteProcs |-> NoClick]
  /\ clicks = 0 /\ alone = {} /\ undisturbed = {}

-----------------------------------------------------------------------------
\* UNIQUE (tenant_id, post_id, voter_hash) and UNIQUE (tenant_id, post_id, guest_id).
SameKey(v, w) == (v.hash = w.hash /\ v.hash # NoHash) \/ v.guest = w.guest

\* Mutant: a visitor is looked for by the browser alone, as before voter_hash.
MutVotesOf(v) == {w \in votes : w.guest = v.guest}

\* The rows the visitor is found by: the network, or the browser where there is none.
VotesOf(v) ==
  IF v.hash # NoHash THEN {w \in votes : w.hash = v.hash}
                     ELSE {w \in votes : w.guest = v.guest}

VoteStep(q, step, l) ==
  /\ vpc' = [vpc EXCEPT ![q] = step] /\ vloc' = [vloc EXCEPT ![q] = l]

\* The post is read first: one that is gone or quarantined takes no vote.
TogglePublicVote(q) ==
  \E h \in Hashes \cup {NoHash}, g \in Guests :
    LET l      == [NoClick EXCEPT !.hash = h, !.guest = g]
        rivals == {r \in VoteProcs : vpc[r] # "idle" /\ SameKey(vloc[r], l)} IN
    /\ vpc[q] = "idle" /\ clicks < MaxClicks /\ vpost = "published"
    /\ clicks' = clicks + 1
    /\ VoteStep(q, "find", l)
    /\ alone' = (alone \ rivals) \cup (IF rivals = {} THEN {q} ELSE {})
    /\ undisturbed' = undisturbed \cup {q}
    /\ UNCHANGED <<vpost, votes>>

FindVote(q) ==
  /\ vpc[q] = "find"
  /\ VoteStep(q, "write", [vloc[q] EXCEPT !.found = VotesOf(vloc[q])])
  /\ UNCHANGED <<vpost, votes, clicks, alone, undisturbed>>

\* existing[0] is deleted by its id: a row a rival removed is removed no more.
RemoveVote(q) ==
  /\ vpc[q] = "write" /\ vloc[q].found # {}
  /\ \E v \in vloc[q].found : votes' = votes \ {v}
  /\ VoteStep(q, "count", [vloc[q] EXCEPT !.found = {}])
  /\ UNCHANGED <<vpost, clicks, alone, undisturbed>>

\* INSERT IGNORE: recorded unless a key is taken (or the post is gone), and voted is
\* what affectedRows says.
AddVote(q) ==
  LET row == [hash |-> vloc[q].hash, guest |-> vloc[q].guest]
      ok  == vpost # "gone" /\ \A v \in votes : ~SameKey(v, row) IN
  /\ vpc[q] = "write" /\ vloc[q].found = {}
  /\ votes' = IF ok THEN votes \cup {row} ELSE votes
  /\ VoteStep(q, "count", [vloc[q] EXCEPT !.voted = ok])
  /\ UNCHANGED <<vpost, clicks, alone, undisturbed>>

\* SELECT COUNT(*): the answer is { voted, voteCount }.
AnswerVote(q) ==
  /\ vpc[q] = "count"
  /\ VoteStep(q, "idle", NoClick)
  /\ alone' = alone \ {q} /\ undisturbed' = undisturbed \ {q}
  /\ UNCHANGED <<vpost, votes, clicks>>

\* The team quarantines, publishes or deletes the post; its votes go with it.
ModeratePost ==
  \E s \in {"published", "spam", "gone"} \ {vpost} :
    /\ vpost # "gone" /\ vpost' = s
    /\ votes' = IF s = "gone" THEN {} ELSE votes
    /\ undisturbed' = IF s = "gone" THEN {} ELSE undisturbed
    /\ UNCHANGED <<vpc, vloc, clicks, alone>>

VoteNext ==
  \/ \E q \in VoteProcs :
       TogglePublicVote(q) \/ FindVote(q) \/ RemoveVote(q) \/ AddVote(q) \/ AnswerVote(q)
  \/ ModeratePost

VoteSpec == VoteInit /\ [][VoteNext]_voteVars

-----------------------------------------------------------------------------
(* Properties.                                                              *)

\* "Report the truthful state rather than claiming a vote we did not record": a click no
\* rival overlapped answers voted exactly if the visitor's vote is in the table when it
\* answers (and the post is still there).
VoteAnswerTruthful ==
  [][\A q \in VoteProcs :
       (vpc[q] = "count" /\ vpc'[q] = "idle" /\ q \in alone /\ q \in undisturbed)
         => (vloc[q].voted <=>
              \E v \in votes : IF vloc[q].hash # NoHash THEN v.hash = vloc[q].hash
                                                      ELSE v.guest = vloc[q].guest)]_voteVars
=============================================================================
