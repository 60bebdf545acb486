------------------------------ MODULE SpamScore ------------------------------
(***************************************************************************)
(* The verdict on what a guest submits: the reason codes a submission      *)
(* earns, their points and the threshold (spamScore.js), the form token    *)
(* that says when the page was loaded (formToken.js) and the checks of the *)
(* address (emailQuality.js).  A submission is what these functions tell   *)
(* apart; every one of them is an initial state.                           *)
(***************************************************************************)
EXTENDS Integers, FiniteSets, FiniteSetsExt

CONSTANTS MinAge, MaxAge,      \* of a form token: between page load and submission
          Ages                 \* ages to look at

ASSUME TokenConstants == Ages \subseteq Int /\ MinAge \in Int /\ MaxAge \in Int

VARIABLES
  sub,             \* the submission
  verdict          \* "none", then the moderation state it is stored in

scoreVars == <<sub, verdict>>

\* A token is what the client sends: a number is the age of one that is signed.
Tokens == {[kind |-> k, age |-> 0] : k \in {"missing", "malformed", "bad_signature"}}
          \cup {[kind |-> "signed", age |-> a] : a \in Ages}

\* Signs in the wording, each worth the same: how many a submission shows is what counts.
WeakSigns == <<"all_caps", "repeated_characters", "mostly_non_latin", "body_repeats_title">>

\* How many links, whether they lead to three hosts or more, whether the title has one;
\* recent copies; the address; the token; and the wording.
Possible ==
  {s \in [links : {0, 1, 3, 5}, manyHosts : BOOLEAN, linkInTitle : BOOLEAN,
          copies : {0, 1, 3}, disposable : BOOLEAN, mx : {"yes", "no", "unknown"},
          token : Tokens, phrases : 0..3, weak : 0..4] :
     (s.manyHosts => s.links >= 3) /\ (s.linkInTitle => s.links >= 1)}

-----------------------------------------------------------------------------
\* verifyFormToken.
TokenReason(t) ==
  CASE t.kind # "signed" -> t.kind
    [] t.kind = "signed" /\ t.age < MinAge -> "too_fast"
    [] t.kind = "signed" /\ t.age > MaxAge -> "expired"
    [] OTHER -> "valid"

When(condition, reason, points) == IF condition THEN {<<reason, points>>} ELSE {}

LinkSigns(s) ==
  When(s.links >= 5, "many_links", 8) \cup When(s.links \in 3..4, "several_links", 5)
  \cup When(s.manyHosts, "multiple_link_domains", 4)
  \cup When(s.linkInTitle, "link_in_title", 5)

CopySigns(s) ==
  When(s.copies >= 3, "repeat_duplicate", 9) \cup When(s.copies \in 1..2, "duplicate", 5)

\* isDeliverableEmail: only a domain known to have no mail exchanger counts.
EmailSigns(s) ==
  When(s.disposable, "disposable_email", 5) \cup When(s.mx = "no", "email_domain_no_mx", 4)

\* Mutant: the points of a forged and of a stale token are swapped.
MutTokenSigns(s) ==
  LET r == TokenReason(s.token) IN
  When(r = "too_fast", "submitted_too_fast", 6)
  \cup When(r \in {"bad_signature", "malformed"}, "invalid_form_token", 2)
  \cup When(r = "expired", "stale_form_token", 6)
  \cup When(r = "missing", "no_form_token", 3)

TokenSigns(s) ==
  LET r == TokenReason(s.token) IN
  When(r = "too_fast", "submitted_too_fast", 6)
  \cup When(r \in {"bad_signature", "malformed"}, "invalid_form_token", 6)
  \cup When(r = "expired", "stale_form_token", 2)
  \cup When(r = "missing", "no_form_token", 3)

LexicalSigns(s) ==
  When(s.phrases >= 3, "spam_phrases", 6) \cup When(s.phrases = 2, "spam_phrases", 4)
  \cup When(s.phrases = 1, "spam_phrase", 2)
  \cup {<<WeakSigns[i], 2>> : i \in 1..s.weak}

StructuralSigns(s) == LinkSigns(s) \cup CopySigns(s) \cup EmailSigns(s)
Signs(s) == StructuralSigns(s) \cup TokenSigns(s) \cup LexicalSigns(s)

HideThreshold == 12

\* The score (clamp255 has nothing to cut: the sum stays below).
Points(S) == MapThenSumSet(LAMBDA sign : sign[2], S)
ModerationStateFor(s) == IF Points(Signs(s)) >= HideThreshold THEN "spam" ELSE "published"

-----------------------------------------------------------------------------
ScoreInit == sub \in Possible /\ verdict = "none"

\* The last stage of evaluatePublicWrite.
ScoreContent ==
  /\ verdict = "none" /\ verdict' = ModerationStateFor(sub)
  /\ UNCHANGED sub

ScoreNext == ScoreContent
ScoreSpec == ScoreInit /\ [][ScoreNext]_scoreVars

-----------------------------------------------------------------------------
(* Properties.                                                              *)

ScoreTypeOK == sub \in Possible /\ verdict \in {"none", "published", "spam"}

\* How bad a token is: forged is "worse than simply not having one", which is worse than
\* one of a page left open for long; and none is better than a valid one.
TokenRank(t) ==
  LET r == TokenReason(t) IN
  CASE r = "valid" -> 0 [] r = "expired" -> 1 [] r = "missing" -> 2 [] OTHER -> 3

\* What a submission would be with one kind of evidence against it weaker.
Milder(s) ==
  {t \in {[s EXCEPT !.links = n] : n \in 0..s.links}
         \cup {[s EXCEPT !.manyHosts = FALSE], [s EXCEPT !.linkInTitle = FALSE],
               [s EXCEPT !.disposable = FALSE]}
         \cup {[s EXCEPT !.copies = n] : n \in 0..s.copies}
         \cup {[s EXCEPT !.mx = m] : m \in {"yes", "unknown"}}
         \cup {[s EXCEPT !.token = k] : k \in {k \in Tokens : TokenRank(k) < TokenRank(s.token)}}
         \cup {[s EXCEPT !.phrases = n] : n \in 0..s.phrases}
         \cup {[s EXCEPT !.weak = n] : n \in 0..s.weak} : t \in Possible}

\* More evidence never rescues: what is published would be published with any of the
\* evidence against it weaker, although kinds of evidence are graded by exclusive ranges
\* and add up (spamScore, moderationStateFor).
MilderIsPublished ==
  verdict = "published" => \A t \in Milder(sub) : ModerationStateFor(t) = "published"
=============================================================================
