------------------------------ MODULE MCPublic ------------------------------
(***************************************************************************)
(* What visitors of a board can do.  The parts share no state here: a      *)
(* behaviour is of one of them, the variables of the others at rest.       *)
(***************************************************************************)
EXTENDS Votes, Discussion, WriteGuard, SpamScore, TLC

VARIABLE part

vars == <<part, voteVars, talkVars, guardVars, scoreVars>>

Init ==
  /\ part \in {"votes", "talk", "guard", "score"}
  /\ VoteInit /\ TalkInit /\ GuardInit
  /\ IF part = "score" THEN ScoreInit
     ELSE sub = (CHOOSE s \in Possible : TRUE) /\ verdict = "none"

Next ==
  \/ part = "votes" /\ VoteNext /\ UNCHANGED <<part, talkVars, guardVars, scoreVars>>
  \/ part = "talk" /\ TalkNext /\ UNCHANGED <<part, voteVars, guardVars, scoreVars>>
  \/ part = "guard" /\ GuardNext /\ UNCHANGED <<part, voteVars, talkVars, scoreVars>>
  \/ part = "score" /\ ScoreNext /\ UNCHANGED <<part, voteVars, talkVars, guardVars>>

Spec == Init /\ [][Next]_vars

\* Types of the part that runs.
PublicTypeOK ==
  /\ part = "votes" => VoteTypeOK
  /\ part = "talk" => TalkTypeOK
  /\ part = "guard" => GuardTypeOK
  /\ part = "score" => ScoreTypeOK

Symmetry == Permutations(GuardProcs) \cup Permutations(Posts)
=============================================================================
