---------------------------- MODULE PublicProofs ----------------------------
(***************************************************************************)
(* What is proved of the parts MCPublic runs side by side, each from its   *)
(* own specification: votes, the write guard and the threads of a post,    *)
(* for any number of requests, visitors, networks, hours and comments.     *)
(***************************************************************************)
EXTENDS Votes, WriteGuard, Discussion, FiniteSetTheorems, TLAPS

-----------------------------------------------------------------------------
(***************************************************************************)
(* A visitor is told the truth about the vote (Votes), for any number of   *)
(* requests, networks, browsers and clicks.                                *)
(***************************************************************************)

Clicks == [hash : Hashes \cup {NoHash}, guest : Guests \cup {NoHash},
           found : SUBSET Visitors, voted : BOOLEAN]

\* The row a request inserts.
Mine(l) == [hash |-> l.hash, guest |-> l.guest]

\* How a request knows a visitor's vote when it sees one.
Matches(l, v) == IF l.hash # NoHash THEN v.hash = l.hash ELSE v.guest = l.guest

\* Requests at work have a browser, claim nothing before they wrote, and found at most
\* one row, by what they look for.
VtLocals ==
  \A q \in VoteProcs : vpc[q] # "idle" =>
    /\ vloc[q].guest \in Guests
    /\ vpc[q] # "count" => ~vloc[q].voted
    /\ \A v \in vloc[q].found : Matches(vloc[q], v)
    /\ \A v, w \in vloc[q].found : v = w

\* A request that no rival overlapped has no rival now.
VtAlone ==
  \A q \in alone : vpc[q] # "idle"
    /\ \A r \in VoteProcs \ {q} : vpc[r] # "idle" => ~SameKey(vloc[r], vloc[q])

\* What an undisturbed request knows: nothing was added that it did not find, and the
\* table is as it is about to say.
Knows(q) ==
  /\ vpc[q] = "write" => \A v \in votes : Matches(vloc[q], v) => v \in vloc[q].found
  /\ vpc[q] = "count" => IF vloc[q].voted THEN Mine(vloc[q]) \in votes
                                          ELSE \A v \in votes : ~Matches(vloc[q], v)

VtKnows == \A q \in alone \cap undisturbed : Knows(q)
VtGone  == vpost = "gone" => undisturbed = {}

\* The unique keys hold: a request has one row to find.
VtUnique == \A v, w \in votes : SameKey(v, w) => v = w

VtInv == VoteTypeOK /\ VtUnique /\ VtLocals /\ VtAlone /\ VtKnows /\ VtGone

-----------------------------------------------------------------------------
\* A visitor's own row matches, and rows that match one visitor have a key in common.
LEMMA MatchFacts ==
  ASSUME NEW l \in Clicks, l.guest \in Guests
  PROVE  /\ Mine(l) \in Visitors /\ Matches(l, Mine(l))
         /\ \A v, w \in Visitors : Matches(l, v) /\ Matches(l, w) => SameKey(v, w)
         /\ \A v \in Visitors : Matches(l, v) => SameKey(v, l)
BY DEF Clicks, Mine, Matches, Visitors, SameKey

\* Who matches somebody else's row is that one's rival, and so is who inserts what matches.
LEMMA RivalFacts ==
  ASSUME NEW l \in Clicks, NEW m \in Clicks, ~SameKey(m, l)
  PROVE  ~Matches(m, Mine(l)) /\ ~Matches(l, Mine(m))
BY DEF Clicks, Mine, Matches, SameKey

\* Two keys in common are so either way round.
LEMMA KeySymmetric ==
  ASSUME NEW l, NEW m
  PROVE  SameKey(l, m) <=> SameKey(m, l)
BY DEF SameKey

\* The rows a visitor is found by are those that match.
LEMMA FoundFacts ==
  ASSUME NEW l \in Clicks
  PROVE  VotesOf(l) = {v \in votes : Matches(l, v)}
BY DEF VotesOf, Matches

LEMMA NoClickType == NoClick \in Clicks
BY DEF NoClick, Clicks

-----------------------------------------------------------------------------
\* No request is at work and nobody has voted.
LEMMA VoteInitHolds == VoteInit => VtInv
BY NoClickType, VoteConstants
   DEF VoteInit, VtInv, VoteTypeOK, VtUnique, VtLocals, VtAlone, VtKnows, VtGone, Clicks

\* A click begins: who has a key in common with it is alone no more.
LEMMA ToggleKeeps ==
  ASSUME VtInv, NEW q \in VoteProcs, TogglePublicVote(q)
  PROVE  VtInv'
<1>1. PICK h \in Hashes \cup {NoHash}, g \in Guests :
        LET l      == [NoClick EXCEPT !.hash = h, !.guest = g]
            rivals == {r \in VoteProcs : vpc[r] # "idle" /\ SameKey(vloc[r], l)} IN
        /\ vpc[q] = "idle" /\ vpost = "published" /\ clicks' = clicks + 1
        /\ VoteStep(q, "find", l)
        /\ alone' = (alone \ rivals) \cup (IF rivals = {} THEN {q} ELSE {})
        /\ undisturbed' = undisturbed \cup {q}
        /\ UNCHANGED <<vpost, votes>>
  BY DEF TogglePublicVote
<1> DEFINE l      == [NoClick EXCEPT !.hash = h, !.guest = g]
           rivals == {r \in VoteProcs : vpc[r] # "idle" /\ SameKey(vloc[r], l)}
<1>2. l \in Clicks /\ l.guest \in Guests /\ l.found = {} /\ ~l.voted
  BY DEF NoClick, Clicks
<1>3. /\ vpc \in [VoteProcs -> {"idle", "find", "write", "count"}]
      /\ vloc \in [VoteProcs -> Clicks] /\ alone \subseteq VoteProcs
      /\ undisturbed \subseteq VoteProcs /\ clicks \in Nat
  BY DEF VtInv, VoteTypeOK, Clicks
<1> HIDE DEF l
<1>4. /\ vpc' = [vpc EXCEPT ![q] = "find"] /\ vloc' = [vloc EXCEPT ![q] = l]
      /\ vpc[q] = "idle" /\ vpost = "published" /\ UNCHANGED <<vpost, votes>>
      /\ clicks' = clicks + 1 /\ undisturbed' = undisturbed \cup {q}
      /\ alone' = (alone \ rivals) \cup (IF rivals = {} THEN {q} ELSE {})
  BY <1>1 DEF VoteStep, l
<1>5. /\ vpc'[q] = "find" /\ vloc'[q] = l
      /\ \A r \in VoteProcs \ {q} : vpc'[r] = vpc[r] /\ vloc'[r] = vloc[r]
  BY <1>3, <1>4
<1>6. VoteTypeOK'
  <2>1. /\ vpc' \in [VoteProcs -> {"idle", "find", "write", "count"}]
        /\ vloc' \in [VoteProcs -> Clicks]
    BY <1>2, <1>3, <1>4
  <2>2. alone' \subseteq VoteProcs /\ undisturbed' \subseteq VoteProcs /\ clicks' \in Nat
    BY <1>3, <1>4
  <2> QED BY <1>4, <2>1, <2>2 DEF VtInv, VoteTypeOK, Clicks
<1>7. VtUnique' /\ VtGone'
  BY <1>4 DEF VtInv, VtUnique, VtGone, SameKey
<1>8. VtLocals'
  BY <1>2, <1>5 DEF VtInv, VtLocals, Matches
<1>9. VtAlone'
  <2>1. ASSUME NEW a \in alone', NEW r \in VoteProcs \ {a}, vpc'[r] # "idle"
        PROVE  vpc'[a] # "idle" /\ ~SameKey(vloc'[r], vloc'[a])
    <3>1. CASE a = q
      <4>1. rivals = {}
        <5>1. q \notin alone
          BY <1>4 DEF VtInv, VtAlone
        <5> QED BY <1>4, <3>1, <5>1
      <4> QED BY <1>5, <2>1, <3>1, <4>1
    <3>2. CASE a # q
      <4>1. a \in alone /\ a \notin rivals /\ a \in VoteProcs
        BY <1>3, <1>4, <2>1, <3>2
      <4>2. vpc[a] # "idle" /\ ~SameKey(vloc[a], l)
        BY <4>1 DEF VtInv, VtAlone
      <4>3. CASE r = q
        BY <1>5, <3>2, <4>1, <4>2, <4>3, KeySymmetric
      <4>4. CASE r # q
        BY <1>5, <2>1, <3>2, <4>1, <4>4 DEF VtInv, VtAlone
      <4> QED BY <4>3, <4>4
    <3> QED BY <3>1, <3>2
  <2>2. \A a \in alone' : vpc'[a] # "idle"
    BY <1>3, <1>4, <1>5 DEF VtInv, VtAlone
  <2> QED BY <2>1, <2>2 DEF VtAlone, SameKey
<1>10. VtKnows'
  <2>1. ASSUME NEW a \in alone' \cap undisturbed'
        PROVE  Knows(a)'
    <3>1. CASE a = q
      BY <1>5, <3>1 DEF Knows
    <3>2. CASE a # q
      <4>1. Knows(a) /\ a \in VoteProcs
        BY <1>3, <1>4, <3>2 DEF VtInv, VtKnows
      <4> QED BY <1>4, <1>5, <3>2, <4>1 DEF Knows, Matches, Mine
    <3> QED BY <3>1, <3>2
  <2> QED BY <2>1 DEF VtKnows
<1> QED BY <1>6, <1>7, <1>8, <1>9, <1>10 DEF VtInv
-----------------------------------------------------------------------------
\* A request that goes on as the same visitor: types, and who is whose rival, stay.
LEMMA StepFacts ==
  ASSUME VtInv, NEW q \in VoteProcs, vpc[q] # "idle",
         NEW step \in {"find", "write", "count"}, NEW l \in Clicks,
         l.hash = vloc[q].hash, l.guest = vloc[q].guest,
         VoteStep(q, step, l), UNCHANGED <<clicks, alone, undisturbed>>
  PROVE  /\ vpc' \in [VoteProcs -> {"idle", "find", "write", "count"}]
         /\ vloc' \in [VoteProcs -> Clicks]
         /\ vpc'[q] = step /\ vloc'[q] = l
         /\ \A r \in VoteProcs \ {q} : vpc'[r] = vpc[r] /\ vloc'[r] = vloc[r]
         /\ VtAlone'
<1>1. /\ vpc \in [VoteProcs -> {"idle", "find", "write", "count"}]
      /\ vloc \in [VoteProcs -> Clicks] /\ alone \subseteq VoteProcs
  BY DEF VtInv, VoteTypeOK, Clicks
<1>2. vpc' = [vpc EXCEPT ![q] = step] /\ vloc' = [vloc EXCEPT ![q] = l]
  BY DEF VoteStep
<1>3. /\ vpc' \in [VoteProcs -> {"idle", "find", "write", "count"}]
      /\ vloc' \in [VoteProcs -> Clicks]
      /\ vpc'[q] = step /\ vloc'[q] = l
      /\ \A r \in VoteProcs \ {q} : vpc'[r] = vpc[r] /\ vloc'[r] = vloc[r]
  BY <1>1, <1>2
<1>4. \A r \in VoteProcs : /\ vloc'[r].hash = vloc[r].hash /\ vloc'[r].guest = vloc[r].guest
                           /\ vpc'[r] # "idle" <=> vpc[r] # "idle"
  BY <1>3
<1>5. ASSUME NEW a \in alone', NEW r \in VoteProcs \ {a}, vpc'[r] # "idle"
      PROVE  vpc'[a] # "idle" /\ ~SameKey(vloc'[r], vloc'[a])
  BY <1>1, <1>4, <1>5 DEF VtInv, VtAlone, SameKey
<1>6. \A a \in alone' : vpc'[a] # "idle"
  BY <1>1, <1>4 DEF VtInv, VtAlone
<1> QED BY <1>3, <1>5, <1>6 DEF VtAlone, SameKey

\* What a request and an undisturbed one beside it are to one another.
LEMMA BesideFacts ==
  ASSUME VtInv, NEW q \in VoteProcs, vpc[q] # "idle", NEW a \in alone, a # q
  PROVE  /\ vloc[a] \in Clicks /\ vloc[q] \in Clicks
         /\ ~Matches(vloc[a], Mine(vloc[q])) /\ ~Matches(vloc[q], Mine(vloc[a]))
<1>1. a \in VoteProcs /\ vloc[a] \in Clicks /\ vloc[q] \in Clicks
  BY DEF VtInv, VoteTypeOK, Clicks
<1>2. ~SameKey(vloc[q], vloc[a])
  BY DEF VtInv, VtAlone
<1> QED BY <1>1, <1>2, RivalFacts

\* A request finds the rows of its visitor, of which there is one at most.
LEMMA FindKeeps ==
  ASSUME VtInv, NEW q \in VoteProcs, FindVote(q)
  PROVE  VtInv'
<1> DEFINE l == [vloc[q] EXCEPT !.found = VotesOf(vloc[q])]
<1>1. /\ vloc[q] \in Clicks /\ votes \subseteq Visitors /\ vloc[q].guest \in Guests
      /\ ~vloc[q].voted /\ vpc[q] = "find"
  BY DEF VtInv, VoteTypeOK, VtLocals, Clicks, FindVote
<1>2. VotesOf(vloc[q]) = {v \in votes : Matches(vloc[q], v)}
  BY <1>1, FoundFacts
<1>3. /\ l \in Clicks /\ l.hash = vloc[q].hash /\ l.guest = vloc[q].guest
      /\ l.found = {v \in votes : Matches(l, v)} /\ ~l.voted
  BY <1>1, <1>2 DEF Clicks, Matches
<1>4. VoteStep(q, "write", l) /\ UNCHANGED <<vpost, votes, clicks, alone, undisturbed>>
  BY DEF FindVote
<1> HIDE DEF l
<1>5. /\ vpc' \in [VoteProcs -> {"idle", "find", "write", "count"}]
      /\ vloc' \in [VoteProcs -> Clicks]
      /\ vpc'[q] = "write" /\ vloc'[q] = l
      /\ \A r \in VoteProcs \ {q} : vpc'[r] = vpc[r] /\ vloc'[r] = vloc[r]
      /\ VtAlone'
  BY <1>1, <1>3, <1>4, StepFacts
<1>6. VoteTypeOK' /\ VtUnique' /\ VtGone'
  BY <1>4, <1>5 DEF VtInv, VoteTypeOK, VtUnique, VtGone, SameKey, Clicks
<1>7. VtLocals'
  <2>1. ASSUME NEW v \in l.found, NEW w \in l.found
        PROVE  Matches(l, v) /\ v = w
    BY <1>1, <1>3, MatchFacts DEF VtInv, VtUnique
  <2>2. ASSUME NEW r \in VoteProcs, vpc'[r] # "idle"
        PROVE  /\ vloc'[r].guest \in Guests
               /\ vpc'[r] # "count" => ~vloc'[r].voted
               /\ \A v \in vloc'[r].found : Matches(vloc'[r], v)
               /\ \A v, w \in vloc'[r].found : v = w
    <3>1. CASE r = q
      BY <1>1, <1>3, <1>5, <2>1, <3>1
    <3>2. CASE r # q
      BY <1>5, <2>2, <3>2 DEF VtInv, VtLocals
    <3> QED BY <3>1, <3>2
  <2> QED BY <2>2 DEF VtLocals, Matches
<1>8. VtKnows'
  <2>1. ASSUME NEW a \in alone' \cap undisturbed'
        PROVE  Knows(a)'
    <3>1. CASE a = q
      BY <1>3, <1>4, <1>5, <3>1 DEF Knows, Matches
    <3>2. CASE a # q
      <4>1. Knows(a) /\ a \in VoteProcs
        BY <1>4 DEF VtInv, VtKnows, VoteTypeOK
      <4> QED BY <1>4, <1>5, <3>2, <4>1 DEF Knows, Matches, Mine
    <3> QED BY <3>1, <3>2
  <2> QED BY <2>1 DEF VtKnows
<1> QED BY <1>5, <1>6, <1>7, <1>8 DEF VtInv
\* A found row is removed: of the rows a visitor is found by none is left, and nobody
\* else's.
LEMMA RemoveKeeps ==
  ASSUME VtInv, NEW q \in VoteProcs, RemoveVote(q)
  PROVE  VtInv'
<1> DEFINE l == [vloc[q] EXCEPT !.found = {}]
<1>1. /\ vloc[q] \in Clicks /\ votes \subseteq Visitors /\ vloc[q].guest \in Guests
      /\ ~vloc[q].voted /\ vpc[q] = "write"
  BY DEF VtInv, VoteTypeOK, VtLocals, Clicks, RemoveVote
<1>2. PICK v \in vloc[q].found : votes' = votes \ {v}
  BY DEF RemoveVote
<1>3. /\ VoteStep(q, "count", l) /\ UNCHANGED <<vpost, clicks, alone, undisturbed>>
      /\ votes' = votes \ {v}
  BY <1>2 DEF RemoveVote
<1>4. /\ l \in Clicks /\ l.hash = vloc[q].hash /\ l.guest = vloc[q].guest
      /\ l.found = {} /\ ~l.voted
  BY <1>1 DEF Clicks
<1> HIDE DEF l
<1>5. /\ vpc' \in [VoteProcs -> {"idle", "find", "write", "count"}]
      /\ vloc' \in [VoteProcs -> Clicks]
      /\ vpc'[q] = "count" /\ vloc'[q] = l
      /\ \A r \in VoteProcs \ {q} : vpc'[r] = vpc[r] /\ vloc'[r] = vloc[r]
      /\ VtAlone'
  BY <1>1, <1>3, <1>4, StepFacts
<1>6. VoteTypeOK' /\ VtUnique' /\ VtGone'
  BY <1>3, <1>5 DEF VtInv, VoteTypeOK, VtUnique, VtGone, SameKey, Clicks
<1>7. VtLocals'
  BY <1>1, <1>4, <1>5 DEF VtInv, VtLocals, Matches
<1>8. VtKnows'
  <2>1. ASSUME NEW a \in alone' \cap undisturbed'
        PROVE  Knows(a)'
    <3>1. Knows(a) /\ a \in VoteProcs /\ a \in alone
      BY <1>3 DEF VtInv, VtKnows, VoteTypeOK
    <3>2. CASE a = q
      <4>1. \A w \in votes : Matches(vloc[q], w) => w = v
        BY <1>1, <1>2, <3>1, <3>2 DEF Knows, VtInv, VtLocals
      <4>2. \A w \in votes' : ~Matches(vloc[q], w)
        BY <1>3, <4>1
      <4>3. \A w \in votes' : ~Matches(l, w)
        BY <1>4, <4>2 DEF Matches
      <4> QED BY <1>4, <1>5, <3>2, <4>3 DEF Knows, Matches
    <3>3. CASE a # q
      <4>1. Matches(vloc[q], v) /\ ~Matches(vloc[q], Mine(vloc[a]))
        BY <1>1, <1>2, <3>1, <3>3, BesideFacts DEF VtInv, VtLocals
      <4>2. v # Mine(vloc[a])
        BY <4>1
      <4> QED BY <1>3, <1>5, <3>1, <3>3, <4>2 DEF Knows, Matches, Mine
    <3> QED BY <3>2, <3>3
  <2> QED BY <2>1 DEF VtKnows
<1> QED BY <1>5, <1>6, <1>7, <1>8 DEF VtInv

\* A row is inserted when no key is taken: then the visitor had none; and when one is
\* taken the visitor, undisturbed, knows there is none of its own.
LEMMA AddKeeps ==
  ASSUME VtInv, NEW q \in VoteProcs, AddVote(q)
  PROVE  VtInv'
<1> DEFINE row == Mine(vloc[q])
           ok  == vpost # "gone" /\ \A v \in votes : ~SameKey(v, row)
           l   == [vloc[q] EXCEPT !.voted = ok]
<1>1. /\ vloc[q] \in Clicks /\ votes \subseteq Visitors /\ vloc[q].guest \in Guests
      /\ vloc[q].found = {} /\ vpc[q] = "write"
  BY DEF VtInv, VoteTypeOK, VtLocals, Clicks, AddVote
<1>2. /\ VoteStep(q, "count", l) /\ UNCHANGED <<vpost, clicks, alone, undisturbed>>
      /\ votes' = IF ok THEN votes \cup {row} ELSE votes
  BY DEF AddVote, Mine
<1>3. row \in Visitors /\ Matches(vloc[q], row)
  BY <1>1, MatchFacts
<1>4. ok \in BOOLEAN
  OBVIOUS
<1>5. ok => vpost # "gone" /\ \A v \in votes : ~SameKey(v, row)
  OBVIOUS
<1> HIDE DEF ok
<1>6. /\ l \in Clicks /\ l.hash = vloc[q].hash /\ l.guest = vloc[q].guest
      /\ l.found = {} /\ l.voted = ok
  BY <1>1, <1>4 DEF Clicks
<1>7. Mine(l) = row
  BY <1>6 DEF Mine
<1> HIDE DEF l, row
<1>8. /\ vpc' \in [VoteProcs -> {"idle", "find", "write", "count"}]
      /\ vloc' \in [VoteProcs -> Clicks]
      /\ vpc'[q] = "count" /\ vloc'[q] = l
      /\ \A r \in VoteProcs \ {q} : vpc'[r] = vpc[r] /\ vloc'[r] = vloc[r]
      /\ VtAlone'
  BY <1>1, <1>2, <1>6, StepFacts
<1>9. VoteTypeOK' /\ VtUnique' /\ VtGone'
  <2>1. votes' \subseteq Visitors /\ (vpost' = "gone" => votes' = {})
    BY <1>1, <1>2, <1>3, <1>5 DEF VtInv, VoteTypeOK
  <2>2. VoteTypeOK' /\ VtGone'
    BY <1>2, <1>8, <2>1 DEF VtInv, VoteTypeOK, VtGone, Clicks
  <2>3. ASSUME NEW v \in votes', NEW w \in votes', SameKey(v, w)
        PROVE  v = w
    <3>1. CASE v \in votes /\ w \in votes
      BY <2>3, <3>1 DEF VtInv, VtUnique
    <3>2. CASE ok /\ v = row /\ w \in votes
      BY <1>5, <2>3, <3>2, KeySymmetric
    <3>3. CASE ok /\ w = row /\ v \in votes
      BY <1>5, <2>3, <3>3
    <3> QED BY <1>2, <3>1, <3>2, <3>3
  <2> QED BY <2>2, <2>3 DEF VtUnique, SameKey
<1>10. VtLocals'
  BY <1>1, <1>6, <1>8 DEF VtInv, VtLocals, Matches
<1>11. VtKnows'
  <2>1. ASSUME NEW a \in alone' \cap undisturbed'
        PROVE  Knows(a)'
    <3>1. Knows(a) /\ a \in VoteProcs /\ a \in alone
      BY <1>2 DEF VtInv, VtKnows, VoteTypeOK
    <3>2. CASE a = q
      <4>1. CASE ok
        BY <1>2, <1>6, <1>7, <1>8, <3>2, <4>1 DEF Knows, Mine
      <4>2. CASE ~ok
        <5>1. \A w \in votes : ~Matches(vloc[q], w)
          BY <1>1, <3>1, <3>2 DEF Knows
        <5>2. \A w \in votes' : ~Matches(l, w)
          BY <1>2, <1>6, <4>2, <5>1 DEF Matches
        <5> QED BY <1>6, <1>8, <3>2, <4>2, <5>2 DEF Knows, Matches
      <4> QED BY <4>1, <4>2
    <3>3. CASE a # q
      <4>1. ~Matches(vloc[a], row)
        BY <1>1, <3>1, <3>3, BesideFacts DEF row
      <4>2. \A w \in votes' : w \in votes \/ w = row
        BY <1>2
      <4>3. votes \subseteq votes'
        BY <1>2
      <4> QED BY <1>8, <3>1, <3>3, <4>1, <4>2, <4>3 DEF Knows, Matches, Mine
    <3> QED BY <3>2, <3>3
  <2> QED BY <2>1 DEF VtKnows
<1> QED BY <1>8, <1>9, <1>10, <1>11 DEF VtInv

\* A request answers and is at work no more.
LEMMA AnswerKeeps ==
  ASSUME VtInv, NEW q \in VoteProcs, AnswerVote(q)
  PROVE  VtInv'
<1>1. /\ vpc \in [VoteProcs -> {"idle", "find", "write", "count"}]
      /\ vloc \in [VoteProcs -> Clicks] /\ alone \subseteq VoteProcs
      /\ undisturbed \subseteq VoteProcs
  BY DEF VtInv, VoteTypeOK, Clicks
<1>2. /\ vpc' = [vpc EXCEPT ![q] = "idle"] /\ vloc' = [vloc EXCEPT ![q] = NoClick]
      /\ alone' = alone \ {q} /\ undisturbed' = undisturbed \ {q}
      /\ UNCHANGED <<vpost, votes, clicks>>
  BY DEF AnswerVote, VoteStep
<1>3. /\ vpc' \in [VoteProcs -> {"idle", "find", "write", "count"}]
      /\ vloc' \in [VoteProcs -> Clicks] /\ vpc'[q] = "idle"
      /\ \A r \in VoteProcs \ {q} : vpc'[r] = vpc[r] /\ vloc'[r] = vloc[r]
  BY <1>1, <1>2, NoClickType
<1>4. VoteTypeOK' /\ VtUnique' /\ VtGone'
  BY <1>1, <1>2, <1>3 DEF VtInv, VoteTypeOK, VtUnique, VtGone, SameKey, Clicks
<1>5. VtLocals'
  BY <1>3 DEF VtInv, VtLocals, Matches
<1>6. VtAlone'
  BY <1>1, <1>2, <1>3 DEF VtInv, VtAlone, SameKey
<1>7. VtKnows'
  <2>1. ASSUME NEW a \in alone' \cap undisturbed'
        PROVE  Knows(a)'
    <3>1. Knows(a) /\ a \in VoteProcs \ {q}
      BY <1>1, <1>2 DEF VtInv, VtKnows
    <3> QED BY <1>2, <1>3, <3>1 DEF Knows, Matches, Mine
  <2> QED BY <2>1 DEF VtKnows
<1> QED BY <1>4, <1>5, <1>6, <1>7 DEF VtInv

\* The post's votes go only with the post, and then nobody is undisturbed.
LEMMA ModerateKeeps ==
  ASSUME VtInv, ModeratePost
  PROVE  VtInv'
<1>1. PICK s \in {"published", "spam", "gone"} \ {vpost} :
        /\ vpost # "gone" /\ vpost' = s
        /\ votes' = IF s = "gone" THEN {} ELSE votes
        /\ undisturbed' = IF s = "gone" THEN {} ELSE undisturbed
        /\ UNCHANGED <<vpc, vloc, clicks, alone>>
  BY DEF ModeratePost
<1>2. VoteTypeOK' /\ VtUnique' /\ VtGone'
  BY <1>1 DEF VtInv, VoteTypeOK, VtUnique, VtGone, SameKey
<1>3. VtLocals' /\ VtAlone'
  BY <1>1 DEF VtInv, VtLocals, VtAlone, Matches, SameKey
<1>4. VtKnows'
  BY <1>1 DEF VtInv, VtKnows, Knows, Matches, Mine
<1> QED BY <1>2, <1>3, <1>4 DEF VtInv

\* Every step keeps the invariant.
LEMMA VoteStepKeeps == VtInv /\ [VoteNext]_voteVars => VtInv'
<1> SUFFICES ASSUME VtInv, [VoteNext]_voteVars PROVE VtInv'
  OBVIOUS
<1>1. CASE UNCHANGED voteVars
  BY <1>1 DEF voteVars, VtInv, VoteTypeOK, VtUnique, VtLocals, VtAlone, VtKnows, VtGone,
              Knows, Matches, Mine, SameKey
<1>2. CASE ModeratePost
  BY <1>2, ModerateKeeps
<1>3. CASE \E q \in VoteProcs : \/ TogglePublicVote(q) \/ FindVote(q) \/ RemoveVote(q)
                               \/ AddVote(q) \/ AnswerVote(q)
  BY <1>3, ToggleKeeps, FindKeeps, RemoveKeeps, AddKeeps, AnswerKeeps
<1> QED BY <1>1, <1>2, <1>3 DEF VoteNext

\* The invariant of the votes.
LEMMA VoteInvariant == VoteSpec => []VtInv
BY VoteInitHolds, VoteStepKeeps, PTL DEF VoteSpec

-----------------------------------------------------------------------------
\* Every variable has its type, and a post that is gone has no votes (togglePublicVote.js).
THEOREM VoteTypes == VoteSpec => []VoteTypeOK
<1>1. VtInv => VoteTypeOK
  BY DEF VtInv
<1> QED BY <1>1, VoteInvariant, PTL

\* A click no rival overlapped, on a post that stays, answers what the table says.
LEMMA AnswerAgrees ==
  ASSUME VtInv, NEW q \in VoteProcs, vpc[q] = "count", q \in alone, q \in undisturbed
  PROVE  vloc[q].voted <=> \E v \in votes : Matches(vloc[q], v)
<1>1. Knows(q) /\ vloc[q] \in Clicks /\ vloc[q].guest \in Guests
  BY DEF VtInv, VtKnows, VoteTypeOK, VtLocals, Clicks
<1>2. Matches(vloc[q], Mine(vloc[q]))
  BY <1>1, MatchFacts
<1>3. vloc[q].voted \in BOOLEAN
  BY <1>1 DEF Clicks
<1> QED BY <1>1, <1>2, <1>3 DEF Knows

\* Such a click never tells a visitor of a vote that was not recorded, nor hides one that
\* was (togglePublicVote.js, after the INSERT IGNORE).
THEOREM AnswersTruthful == VoteSpec => VoteAnswerTruthful
<1>1. ASSUME VtInv, NEW q \in VoteProcs, vpc[q] = "count", q \in alone, q \in undisturbed
      PROVE  vloc[q].voted <=>
               \E v \in votes : IF vloc[q].hash # NoHash THEN v.hash = vloc[q].hash
                                                       ELSE v.guest = vloc[q].guest
  BY <1>1, AnswerAgrees DEF Matches
<1>2. VtInv /\ [VoteNext]_voteVars =>
        [\A q \in VoteProcs :
           (vpc[q] = "count" /\ vpc'[q] = "idle" /\ q \in alone /\ q \in undisturbed)
             => (vloc[q].voted <=>
                  \E v \in votes : IF vloc[q].hash # NoHash THEN v.hash = vloc[q].hash
                                                          ELSE v.guest = vloc[q].guest)]_voteVars
  BY <1>1
<1> QED BY <1>2, VoteInvariant, PTL DEF VoteSpec, VoteAnswerTruthful

-----------------------------------------------------------------------------
(***************************************************************************)
(* The burst caps hold in every window (WriteGuard), for any number of     *)
(* requests, of networks and of hours.  A counter is at least the writes   *)
(* let through plus the requests that counted and have not tripped yet,    *)
(* while the row can still be bumped; and each of those was within the cap *)
(* when it counted.                                                        *)
(***************************************************************************)

Writes == [rows : SUBSET Rows, all : SUBSET Rows, tripped : BOOLEAN]

\* Requests that counted row r and may still be let through.
Held(r) == {q \in GuardProcs : r \in gloc[q].all \ gloc[q].rows /\ ~gloc[q].tripped}

\* What is charged to a row, or will be.
Claimed(r) == charged[r] + Cardinality(Held(r))

GdTypes == GuardTypeOK
GdFresh == \A q \in GuardProcs : \A r \in gloc[q].rows : ~Elapsed(r)
GdCount == \A r \in Rows : ~Elapsed(r) => Claimed(r) <= Count(r)
GdCap   == \A r \in Rows : Claimed(r) <= LimitOf(r[1])

GdInv == GdTypes /\ GdFresh /\ GdCount /\ GdCap

-----------------------------------------------------------------------------
\* A limit is a number.
LEMMA LimitType == \A x : LimitOf(x) \in Nat
BY GuardConstants DEF LimitOf

\* The requests that hold a row are finitely many.
LEMMA HeldFinite ==
  ASSUME NEW r
  PROVE  IsFiniteSet(Held(r)) /\ Cardinality(Held(r)) \in Nat
<1>1. Held(r) \subseteq GuardProcs
  BY DEF Held
<1>2. IsFiniteSet(Held(r))
  BY <1>1, GuardConstants, FS_Subset
<1> QED BY <1>2, FS_CardinalityType

\* The same of the state after a step.
LEMMA HeldFiniteNext ==
  ASSUME NEW r
  PROVE  IsFiniteSet(Held(r)') /\ Cardinality(Held(r)') \in Nat
<1>1. Held(r)' \subseteq GuardProcs
  BY DEF Held
<1>2. IsFiniteSet(Held(r)')
  BY <1>1, GuardConstants, FS_Subset
<1> QED BY <1>2, FS_CardinalityType

\* A count is a number.
LEMMA CountType == GdTypes => \A r : Count(r) \in Nat
BY DEF GdTypes, GuardTypeOK, Count

\* The window of now has begun, and less than a day ago.
LEMMA WindowFacts ==
  ASSUME GdTypes, NEW x \in Scopes
  PROVE  <<x, WindowStart(x)>> \in Rows /\ ~Elapsed(<<x, WindowStart(x)>>)
<1>1. hour \in Nat /\ hour <= MaxHours /\ MaxHours \in Nat
  BY GuardConstants DEF GdTypes, GuardTypeOK
<1>2. DayLength \in Nat /\ DayLength > 0 /\ Retention \in Nat /\ Retention >= DayLength
  BY GuardConstants
<1> DEFINE d == (hour \div DayLength) * DayLength
<1>3. d \in 0..hour /\ hour - d < DayLength
  BY <1>1, <1>2
<1>4. WindowStart(x) \in 0..hour /\ hour - WindowStart(x) <= Retention
  <2>1. CASE x = Domain
    BY <1>1, <1>2, <1>3, <2>1 DEF WindowStart
  <2>2. CASE x # Domain
    BY <1>1, <1>2, <2>2 DEF WindowStart
  <2> QED BY <2>1, <2>2
<1> QED BY <1>1, <1>2, <1>4 DEF Rows, Elapsed

\* Where nobody claims more of a row than before and its counter stays, its bounds stay.
LEMMA RowStays ==
  ASSUME GdInv, NEW r \in Rows, charged' \in [Rows -> Nat],
         Claimed(r)' <= Claimed(r),
         ~Elapsed(r)' => ~Elapsed(r) /\ Count(r)' >= Count(r), Count(r)' \in Nat
  PROVE  /\ ~Elapsed(r)' => Claimed(r)' <= Count(r)'
         /\ Claimed(r)' <= LimitOf(r[1])'
<1>1. Claimed(r) \in Nat /\ Claimed(r)' \in Nat
  BY HeldFinite, HeldFiniteNext DEF Claimed, GdInv, GdTypes, GuardTypeOK
<1>2. Count(r) \in Nat /\ LimitOf(r[1]) \in Nat
  BY CountType, LimitType DEF GdInv
<1>3. LimitOf(r[1])' = LimitOf(r[1])
  BY DEF LimitOf
<1>4. Claimed(r) <= LimitOf(r[1]) /\ (~Elapsed(r) => Claimed(r) <= Count(r))
  BY DEF GdInv, GdCount, GdCap
<1> QED BY <1>1, <1>2, <1>3, <1>4
-----------------------------------------------------------------------------
\* Nothing has been counted.
LEMMA GuardInitHolds == GuardInit => GdInv
<1> SUFFICES ASSUME GuardInit PROVE GdInv
  OBVIOUS
<1>1. hour = 0 /\ gloc = [q \in GuardProcs |-> NoWrite] /\ charged = [r \in Rows |-> 0]
      /\ counters = << >> /\ gpc = [q \in GuardProcs |-> "idle"] /\ writes = 0 /\ blips = 0
  BY DEF GuardInit
<1>2. DOMAIN counters = {}
  BY <1>1
<1>3. NoWrite \in Writes
  BY DEF NoWrite, Writes
<1>4. GdTypes
  BY <1>1, <1>2, <1>3, GuardConstants DEF GdTypes, GuardTypeOK, Writes
<1>5. GdFresh
  BY <1>1 DEF GdFresh, NoWrite
<1>6. ASSUME NEW r \in Rows
      PROVE  Claimed(r) = 0
  <2>1. Held(r) = {}
    BY <1>1 DEF Held, NoWrite
  <2> QED BY <1>1, <2>1, FS_EmptySet DEF Claimed
<1>7. GdCount /\ GdCap
  BY <1>4, <1>6, CountType, LimitType DEF GdCount, GdCap
<1> QED BY <1>4, <1>5, <1>7 DEF GdInv

\* Whether a request of these locals would hold a row.
Holds(l, r) == r \in l.all \ l.rows /\ ~l.tripped

\* A step of one request changes who holds a row by that request at most.
LEMMA HeldStep ==
  ASSUME GdTypes, NEW q \in GuardProcs, NEW l, gloc' = [gloc EXCEPT ![q] = l], NEW r
  PROVE  Held(r)' = IF Holds(l, r) THEN Held(r) \cup {q} ELSE Held(r) \ {q}
BY DEF GdTypes, GuardTypeOK, Held, Holds

\* A request that does not hold the row afterwards leaves no more holders than there were.
LEMMA HeldShrinks ==
  ASSUME GdTypes, NEW q \in GuardProcs, NEW l, gloc' = [gloc EXCEPT ![q] = l], NEW r,
         Holds(l, r) => q \in Held(r)
  PROVE  Cardinality(Held(r)') <= Cardinality(Held(r))
<1>1. Held(r)' \subseteq Held(r)
  BY HeldStep
<1> QED BY <1>1, HeldFinite, FS_Subset

\* A step that moves one request to locals of the right type keeps the types.
LEMMA StepTypes ==
  ASSUME GdTypes, NEW q \in GuardProcs, NEW step \in {"idle", "charge"}, NEW l \in Writes,
         GuardStep(q, step, l)
  PROVE  /\ gpc' \in [GuardProcs -> {"idle", "charge"}] /\ gloc' \in [GuardProcs -> Writes]
         /\ gloc' = [gloc EXCEPT ![q] = l] /\ gloc'[q] = l
         /\ \A p \in GuardProcs \ {q} : gloc'[p] = gloc[p]
BY DEF GdTypes, GuardTypeOK, GuardStep, Writes

\* A request begins: it has counted nothing.
LEMMA EvaluateKeeps ==
  ASSUME GdInv, NEW q \in GuardProcs, EvaluatePublicWrite(q)
  PROVE  GdInv'
<1>1. PICK n \in Networks \cup {NoNetwork}, email \in BOOLEAN :
        LET scopes == ({n} \cap Networks) \cup {Tenant} \cup (IF email THEN {Domain} ELSE {})
            rows   == {<<x, WindowStart(x)>> : x \in scopes} IN
        /\ writes' = writes + 1
        /\ GuardStep(q, "charge", [rows |-> rows, all |-> rows, tripped |-> FALSE])
        /\ UNCHANGED <<hour, counters, blips, charged>>
  BY DEF EvaluatePublicWrite
<1> DEFINE scopes == ({n} \cap Networks) \cup {Tenant} \cup (IF email THEN {Domain} ELSE {})
           rows   == {<<x, WindowStart(x)>> : x \in scopes}
           l      == [rows |-> rows, all |-> rows, tripped |-> FALSE]
<1>2. GdTypes
  BY DEF GdInv
<1>3. scopes \subseteq Scopes
  BY DEF Scopes
<1> HIDE DEF scopes
<1>4. \A r \in rows : r \in Rows /\ ~Elapsed(r)
  BY <1>2, <1>3, WindowFacts
<1> HIDE DEF rows
<1>5. l \in Writes /\ l.rows = rows /\ \A r : ~Holds(l, r)
  BY <1>4 DEF Writes, Holds
<1>6. /\ GuardStep(q, "charge", l) /\ writes' = writes + 1
      /\ UNCHANGED <<hour, counters, blips, charged>>
  BY <1>1 DEF rows, scopes
<1> HIDE DEF l
<1>7. /\ gpc' \in [GuardProcs -> {"idle", "charge"}] /\ gloc' \in [GuardProcs -> Writes]
      /\ gloc' = [gloc EXCEPT ![q] = l] /\ gloc'[q] = l
      /\ \A p \in GuardProcs \ {q} : gloc'[p] = gloc[p]
  BY <1>2, <1>5, <1>6, StepTypes
<1>8. GdTypes'
  BY <1>2, <1>6, <1>7 DEF GdTypes, GuardTypeOK, Writes
<1>9. GdFresh'
  BY <1>4, <1>5, <1>6, <1>7 DEF GdInv, GdFresh, Elapsed
<1>10. ASSUME NEW r \in Rows
       PROVE  (~Elapsed(r)' => Claimed(r)' <= Count(r)') /\ Claimed(r)' <= LimitOf(r[1])'
  <2>1. Cardinality(Held(r)') <= Cardinality(Held(r))
    BY <1>2, <1>5, <1>7, HeldShrinks
  <2>2. Claimed(r)' <= Claimed(r)
    BY <1>2, <1>6, <2>1, HeldFinite, HeldFiniteNext DEF Claimed, GdTypes, GuardTypeOK
  <2>3. (Elapsed(r)' <=> Elapsed(r)) /\ Count(r)' = Count(r) /\ charged' \in [Rows -> Nat]
    BY <1>2, <1>6 DEF Elapsed, Count, GdTypes, GuardTypeOK
  <2>4. Count(r) \in Nat
    BY <1>2, CountType
  <2> QED BY <2>2, <2>3, <2>4, RowStays
<1> QED BY <1>8, <1>9, <1>10 DEF GdInv, GdCount, GdCap

\* A request counts a row that is still kept: the counter goes up by one, and by one at
\* most the claims to it.
LEMMA BumpKeeps ==
  ASSUME GdInv, NEW q \in GuardProcs, Bump(q)
  PROVE  GdInv'
<1>1. PICK b \in gloc[q].rows :
        /\ gpc[q] = "charge"
        /\ counters' = [x \in DOMAIN counters \cup {b} |->
                          IF x = b THEN Count(b) + 1 ELSE counters[x]]
        /\ GuardStep(q, "charge", [gloc[q] EXCEPT !.rows = @ \ {b},
                                     !.tripped = @ \/ Count(b) + 1 > LimitOf(b[1])])
        /\ UNCHANGED <<hour, writes, blips, charged>>
  BY DEF Bump
<1> DEFINE over == Count(b) + 1 > LimitOf(b[1])
           l    == [gloc[q] EXCEPT !.rows = @ \ {b}, !.tripped = @ \/ over]
<1>2. GdTypes /\ gloc[q] \in Writes /\ b \in Rows /\ ~Elapsed(b)
  BY DEF GdInv, GdTypes, GuardTypeOK, Writes, GdFresh
<1>3. over \in BOOLEAN
  OBVIOUS
<1>4. ~over => Count(b) + 1 <= LimitOf(b[1])
  BY <1>2, CountType, LimitType
<1>5. /\ GuardStep(q, "charge", l) /\ UNCHANGED <<hour, writes, blips, charged>>
      /\ counters' = [x \in DOMAIN counters \cup {b} |->
                        IF x = b THEN Count(b) + 1 ELSE counters[x]]
  BY <1>1
<1> HIDE DEF over
<1>6. /\ l \in Writes /\ l.rows = gloc[q].rows \ {b} /\ l.all = gloc[q].all
      /\ (l.tripped <=> gloc[q].tripped \/ over)
  BY <1>2, <1>3 DEF Writes
<1> HIDE DEF l
<1>7. /\ gpc' \in [GuardProcs -> {"idle", "charge"}] /\ gloc' \in [GuardProcs -> Writes]
      /\ gloc' = [gloc EXCEPT ![q] = l] /\ gloc'[q] = l
      /\ \A p \in GuardProcs \ {q} : gloc'[p] = gloc[p]
  BY <1>2, <1>5, <1>6, StepTypes
<1>8. /\ Count(b)' = Count(b) + 1 /\ \A r : r # b => Count(r)' = Count(r)
      /\ \A r : Count(r) \in Nat
  BY <1>2, <1>5, CountType DEF Count
<1>9. GdTypes'
  <2>1. DOMAIN counters' \subseteq Rows
    BY <1>2, <1>5 DEF GdTypes, GuardTypeOK
  <2>2. ASSUME NEW r \in DOMAIN counters'
        PROVE  counters'[r] \in Nat \ {0}
    BY <1>2, <1>5, <1>8 DEF GdTypes, GuardTypeOK
  <2> QED BY <1>2, <1>5, <1>7, <2>1, <2>2 DEF GdTypes, GuardTypeOK, Writes
<1>10. GdFresh'
  BY <1>5, <1>6, <1>7 DEF GdInv, GdFresh, Elapsed
<1>11. ASSUME NEW r \in Rows
       PROVE  (~Elapsed(r)' => Claimed(r)' <= Count(r)') /\ Claimed(r)' <= LimitOf(r[1])'
  <2>1. /\ (Elapsed(r)' <=> Elapsed(r)) /\ charged' = charged /\ charged \in [Rows -> Nat]
        /\ LimitOf(r[1])' = LimitOf(r[1])
    BY <1>2, <1>5 DEF Elapsed, GdTypes, GuardTypeOK, LimitOf
  <2>2. CASE Holds(l, r) => q \in Held(r)
    <3>1. Cardinality(Held(r)') <= Cardinality(Held(r))
      BY <1>2, <1>7, <2>2, HeldShrinks
    <3>2. Claimed(r)' <= Claimed(r)
      BY <2>1, <3>1, HeldFinite, HeldFiniteNext DEF Claimed
    <3>3. Count(r)' \in Nat /\ Count(r)' >= Count(r)
      BY <1>8
    <3> QED BY <2>1, <3>2, <3>3, RowStays
  <2>3. CASE Holds(l, r) /\ q \notin Held(r)
    <3>1. r = b /\ ~over
      BY <1>2, <1>6, <2>3 DEF Holds, Held
    <3>2. Held(r)' = Held(r) \cup {q}
      BY <1>2, <1>7, <2>3, HeldStep
    <3>3. Cardinality(Held(r)') = Cardinality(Held(r)) + 1
      BY <2>3, <3>2, HeldFinite, FS_AddElement
    <3>4. Claimed(r)' = Claimed(r) + 1 /\ Claimed(r) \in Nat
      BY <2>1, <3>3, HeldFinite DEF Claimed
    <3>5. Claimed(r) <= Count(r)
      BY <1>2, <3>1 DEF GdInv, GdCount
    <3> QED BY <1>4, <1>8, <2>1, <3>1, <3>4, <3>5, LimitType
  <2> QED BY <2>2, <2>3
<1> QED BY <1>9, <1>10, <1>11 DEF GdInv, GdCount, GdCap

\* A request leaves without being charged: its claims are gone.
LEMMA LeaveKeeps ==
  ASSUME GdInv, NEW q \in GuardProcs, GuardStep(q, "idle", NoWrite),
         blips' \in Nat, UNCHANGED <<hour, counters, writes, charged>>
  PROVE  GdInv'
<1>1. GdTypes /\ NoWrite \in Writes /\ NoWrite.rows = {} /\ \A r : ~Holds(NoWrite, r)
  BY DEF GdInv, NoWrite, Writes, Holds
<1>2. /\ gpc' \in [GuardProcs -> {"idle", "charge"}] /\ gloc' \in [GuardProcs -> Writes]
      /\ gloc' = [gloc EXCEPT ![q] = NoWrite] /\ gloc'[q] = NoWrite
      /\ \A p \in GuardProcs \ {q} : gloc'[p] = gloc[p]
  BY <1>1, StepTypes
<1>3. GdTypes'
  BY <1>1, <1>2 DEF GdTypes, GuardTypeOK, Writes
<1>4. GdFresh'
  BY <1>1, <1>2 DEF GdInv, GdFresh, Elapsed
<1>5. ASSUME NEW r \in Rows
      PROVE  (~Elapsed(r)' => Claimed(r)' <= Count(r)') /\ Claimed(r)' <= LimitOf(r[1])'
  <2>1. Cardinality(Held(r)') <= Cardinality(Held(r))
    BY <1>1, <1>2, HeldShrinks
  <2>2. /\ (Elapsed(r)' <=> Elapsed(r)) /\ Count(r)' = Count(r) /\ charged' \in [Rows -> Nat]
        /\ charged' = charged /\ Count(r) \in Nat
    BY <1>1, CountType DEF Elapsed, Count, GdTypes, GuardTypeOK
  <2>3. Claimed(r)' <= Claimed(r)
    BY <2>1, <2>2, HeldFinite, HeldFiniteNext DEF Claimed
  <2> QED BY <2>2, <2>3, RowStays
<1> QED BY <1>3, <1>4, <1>5 DEF GdInv, GdCount, GdCap

\* A request that counted everything: what it claimed is charged, and claimed no more.
LEMMA ChargedKeeps ==
  ASSUME GdInv, NEW q \in GuardProcs, Charged(q)
  PROVE  GdInv'
<1>1. CASE gloc[q].tripped
  <2>1. blips' \in Nat /\ UNCHANGED <<hour, counters, writes, charged>>
    BY <1>1 DEF Charged, GdInv, GdTypes, GuardTypeOK
  <2> QED BY <2>1, LeaveKeeps DEF Charged
<1>2. CASE ~gloc[q].tripped
  <2>1. /\ GdTypes /\ NoWrite \in Writes /\ NoWrite.rows = {} /\ \A r : ~Holds(NoWrite, r)
        /\ gloc[q].rows = {} /\ GuardStep(q, "idle", NoWrite)
        /\ UNCHANGED <<hour, counters, writes, blips>>
    BY DEF GdInv, NoWrite, Writes, Holds, Charged
  <2>2. charged' = [r \in Rows |-> IF r \in gloc[q].all THEN charged[r] + 1 ELSE charged[r]]
    BY <1>2 DEF Charged
  <2>3. /\ gpc' \in [GuardProcs -> {"idle", "charge"}] /\ gloc' \in [GuardProcs -> Writes]
        /\ gloc' = [gloc EXCEPT ![q] = NoWrite] /\ gloc'[q] = NoWrite
        /\ \A p \in GuardProcs \ {q} : gloc'[p] = gloc[p]
    BY <2>1, StepTypes
  <2>4. charged \in [Rows -> Nat] /\ charged' \in [Rows -> Nat]
    BY <2>1, <2>2 DEF GdTypes, GuardTypeOK
  <2>5. GdTypes'
    BY <2>1, <2>3, <2>4 DEF GdTypes, GuardTypeOK, Writes
  <2>6. GdFresh'
    BY <2>1, <2>3 DEF GdInv, GdFresh, Elapsed
  <2>7. ASSUME NEW r \in Rows
        PROVE  (~Elapsed(r)' => Claimed(r)' <= Count(r)') /\ Claimed(r)' <= LimitOf(r[1])'
    <3>1. Held(r)' = Held(r) \ {q}
      BY <2>1, <2>3, HeldStep
    <3>2. Claimed(r)' <= Claimed(r)
      <4>1. CASE r \in gloc[q].all
        <5>1. q \in Held(r)
          BY <1>2, <2>1, <4>1 DEF Held
        <5>2. Cardinality(Held(r)') = Cardinality(Held(r)) - 1
          BY <3>1, <5>1, HeldFinite, FS_RemoveElement
        <5>3. charged'[r] = charged[r] + 1
          BY <2>2, <4>1
        <5> QED BY <2>4, <5>2, <5>3, HeldFinite DEF Claimed
      <4>2. CASE r \notin gloc[q].all
        <5>1. Cardinality(Held(r)') <= Cardinality(Held(r))
          BY <2>1, <2>3, HeldShrinks
        <5>2. charged'[r] = charged[r]
          BY <2>2, <4>2
        <5> QED BY <2>4, <5>1, <5>2, HeldFinite, HeldFiniteNext DEF Claimed
      <4> QED BY <4>1, <4>2
    <3>3. (Elapsed(r)' <=> Elapsed(r)) /\ Count(r)' = Count(r) /\ Count(r) \in Nat
      BY <2>1, CountType DEF Elapsed, Count
    <3> QED BY <2>4, <3>2, <3>3, RowStays
  <2> QED BY <2>5, <2>6, <2>7 DEF GdInv, GdCount, GdCap
<1> QED BY <1>1, <1>2

\* Only rows that nobody will bump any more are dropped.
LEMMA PruneKeeps ==
  ASSUME GdInv, PruneCounters
  PROVE  GdInv'
<1>1. /\ counters' = [r \in {x \in DOMAIN counters : ~Elapsed(x)} |-> counters[r]]
      /\ UNCHANGED <<hour, gpc, gloc, writes, blips, charged>> /\ GdTypes
  BY DEF PruneCounters, GdInv
<1>2. GdTypes'
  BY <1>1 DEF GdTypes, GuardTypeOK
<1>3. GdFresh'
  BY <1>1 DEF GdInv, GdFresh, Elapsed
<1>4. ASSUME NEW r \in Rows
      PROVE  (~Elapsed(r)' => Claimed(r)' <= Count(r)') /\ Claimed(r)' <= LimitOf(r[1])'
  <2>1. Held(r)' = Held(r) /\ charged' = charged /\ charged \in [Rows -> Nat]
        /\ (Elapsed(r)' <=> Elapsed(r))
    BY <1>1 DEF Held, Elapsed, GdTypes, GuardTypeOK
  <2>2. Claimed(r)' <= Claimed(r)
    BY <2>1, HeldFinite DEF Claimed
  <2>3. Count(r)' \in Nat /\ Count(r) \in Nat
    BY <1>1, <1>2, CountType DEF Count, GdTypes, GuardTypeOK
  <2>4. ~Elapsed(r) => Count(r)' >= Count(r)
    BY <1>1, <2>3 DEF Count
  <2> QED BY <2>1, <2>2, <2>3, <2>4, RowStays
<1> QED BY <1>2, <1>3, <1>4 DEF GdInv, GdCount, GdCap

\* Time passes: more rows have elapsed, none that a request will still bump.
LEMMA HourKeeps ==
  ASSUME GdInv, HourPasses
  PROVE  GdInv'
<1>1. /\ hour' = hour + 1 /\ hour < MaxHours /\ hour \in 0..MaxHours /\ GdTypes
      /\ \A q \in GuardProcs : \A r \in gloc[q].rows : hour' - r[2] <= Retention
      /\ UNCHANGED <<counters, gpc, gloc, writes, blips, charged>>
      /\ MaxHours \in Nat /\ Retention \in Nat
  BY GuardConstants DEF HourPasses, GdInv, GdTypes, GuardTypeOK
<1>2. GdTypes'
  BY <1>1 DEF GdTypes, GuardTypeOK
<1>3. GdFresh'
  <2>1. ASSUME NEW q \in GuardProcs, NEW r \in gloc[q].rows
        PROVE  ~Elapsed(r)'
    <3>1. r[2] \in 0..MaxHours
      BY <1>1 DEF GdTypes, GuardTypeOK, Rows
    <3> QED BY <1>1, <3>1 DEF Elapsed
  <2> QED BY <1>1, <2>1 DEF GdFresh
<1>4. ASSUME NEW r \in Rows
      PROVE  (~Elapsed(r)' => Claimed(r)' <= Count(r)') /\ Claimed(r)' <= LimitOf(r[1])'
  <2>1. Held(r)' = Held(r) /\ charged' = charged /\ charged \in [Rows -> Nat]
    BY <1>1 DEF Held, GdTypes, GuardTypeOK
  <2>2. Claimed(r)' <= Claimed(r)
    BY <2>1, HeldFinite DEF Claimed
  <2>3. Count(r)' = Count(r) /\ Count(r) \in Nat
    BY <1>1, CountType DEF Count
  <2>4. ~Elapsed(r)' => ~Elapsed(r)
    <3>1. r[2] \in 0..MaxHours
      BY DEF Rows
    <3> QED BY <1>1, <3>1 DEF Elapsed
  <2> QED BY <2>1, <2>2, <2>3, <2>4, RowStays
<1> QED BY <1>2, <1>3, <1>4 DEF GdInv, GdCount, GdCap

\* Every step keeps the invariant.
LEMMA GuardStepKeeps == GdInv /\ [GuardNext]_guardVars => GdInv'
<1> SUFFICES ASSUME GdInv, [GuardNext]_guardVars PROVE GdInv'
  OBVIOUS
<1>1. CASE UNCHANGED guardVars
  <2>1. /\ \A r : Held(r)' = Held(r) /\ Count(r)' = Count(r) /\ (Elapsed(r)' <=> Elapsed(r))
        /\ charged' = charged
    BY <1>1 DEF guardVars, Held, Count, Elapsed
  <2>2. \A r : Claimed(r)' = Claimed(r) /\ LimitOf(r[1])' = LimitOf(r[1])
    BY <2>1 DEF Claimed, LimitOf
  <2>3. GdTypes' /\ GdFresh'
    BY <1>1 DEF guardVars, GdInv, GdTypes, GuardTypeOK, GdFresh, Elapsed
  <2>4. GdCount' /\ GdCap'
    BY <2>1, <2>2 DEF GdInv, GdCount, GdCap, Rows, Scopes
  <2> QED BY <2>3, <2>4 DEF GdInv
<1>2. CASE PruneCounters \/ HourPasses
  BY <1>2, PruneKeeps, HourKeeps
<1>3. ASSUME NEW q \in GuardProcs, EvaluatePublicWrite(q) \/ Bump(q) \/ Charged(q)
      PROVE  GdInv'
  BY <1>3, EvaluateKeeps, BumpKeeps, ChargedKeeps
<1>4. ASSUME NEW q \in GuardProcs, FailOpen(q)
      PROVE  GdInv'
  <2>1. blips' \in Nat /\ UNCHANGED <<hour, counters, writes, charged>>
    BY <1>4 DEF FailOpen, GdInv, GdTypes, GuardTypeOK
  <2> QED BY <1>4, <2>1, LeaveKeeps DEF FailOpen
<1> QED BY <1>1, <1>2, <1>3, <1>4 DEF GuardNext

\* The invariant of the caps.
LEMMA GuardInvariant == GuardSpec => []GdInv
BY GuardInitHolds, GuardStepKeeps, PTL DEF GuardSpec

-----------------------------------------------------------------------------
\* Counters, requests and charges have their types (writeCounters.js).
THEOREM GuardTypes == GuardSpec => []GuardTypeOK
<1>1. GdInv => GuardTypeOK
  BY DEF GdInv, GdTypes
<1> QED BY <1>1, GuardInvariant, PTL

\* No window of a network, a board or a domain lets more writes through than its cap,
\* however requests, pruning and hours interleave (writeCounters.js, bumpCounter).
THEOREM CapsHold == GuardSpec => []CapPerWindow
<1>1. GdInv => CapPerWindow
  <2> SUFFICES ASSUME GdInv, NEW r \in Rows PROVE charged[r] <= LimitOf(r[1])
    BY DEF CapPerWindow
  <2>1. charged[r] \in Nat /\ LimitOf(r[1]) \in Nat /\ Claimed(r) <= LimitOf(r[1])
    BY LimitType DEF GdInv, GdTypes, GuardTypeOK, GdCap
  <2> QED BY <2>1, HeldFinite DEF Claimed
<1> QED BY <1>1, GuardInvariant, PTL

-----------------------------------------------------------------------------
(***************************************************************************)
(* Threads (Discussion) stay two levels deep and within one post.  A       *)
(* delete cascades to the replies of replies, by a recursive function over *)
(* what is left to delete: RepliesGo shows that it has a value, the least  *)
(* set closed under replies.                                               *)
(***************************************************************************)

TalkSteps == {"idle", "climb", "insert"}
Talk == [post : Posts \cup {NoPost}, at : CommentIds \cup {NoComment}]

TkRows ==
  /\ closed \subseteq Posts /\ lastId \in 0..MaxComments /\ crossed \in BOOLEAN
  /\ Live \subseteq 1..lastId /\ comments \in [Live -> Row]
  /\ \A c \in Live : Above(c) \in Live \cup {NoComment} /\ comments[c].post \notin closed

\* Threads of one post, unless a member crossed them; and what the public portal adds to them.
TkThreads ==
  /\ \A c \in Live : (comments[c].public /\ Above(c) # NoComment) => Above(Above(c)) = NoComment
  /\ ~crossed => \A c \in Live : Above(c) # NoComment =>
                                   comments[Above(c)].post = comments[c].post

\* What a request that climbs has reached: a comment of its post, the root before it inserts;
\* one that is gone stays gone, for its number is not given again.
Reached(step, l) ==
  step # "idle" =>
    /\ l.post \in Posts /\ l.at \in 0..lastId
    /\ step = "climb" => l.at # NoComment
    /\ (step = "insert" /\ l.at \in Live) => Above(l.at) = NoComment
    /\ (~crossed /\ l.at \in Live) => comments[l.at].post = l.post
TkRequests ==
  /\ tpc \in [TalkProcs -> TalkSteps] /\ tloc \in [TalkProcs -> Talk]
  /\ \A q \in TalkProcs : Reached(tpc[q], tloc[q])

TkInv == TkRows /\ TkThreads /\ TkRequests

-----------------------------------------------------------------------------
\* The marker of a top-level comment is no comment.
LEMMA TalkFacts ==
  /\ MaxComments \in Nat /\ NoComment = 0 /\ NoComment \notin CommentIds
  /\ 0..MaxComments = CommentIds \cup {NoComment} /\ NoTalk \in Talk
  /\ \A n \in 0..MaxComments : 1..n \subseteq CommentIds
BY DiscussionConstants DEF CommentIds, NoComment, NoTalk, Talk

\* A comment that is there has a row, with a number that was given.
LEMMA RowFacts ==
  ASSUME TkRows, NEW c \in Live
  PROVE  /\ comments[c] \in Row /\ c \in 1..lastId /\ c # NoComment /\ c \in CommentIds
         /\ Above(c) \in Live \cup {NoComment} /\ comments[c].post \in Posts \ closed
BY TalkFacts DEF TkRows, Row

\* ON DELETE CASCADE takes what is named, and with a comment its replies: the set of all
\* that goes is the least one with this property, and so the recursion has a solution.
LEMMA RepliesGo ==
  ASSUME NEW S, \A c \in Live : Above(c) \in Live \cup {NoComment}, NoComment \notin Live
  PROVE  /\ WithReplies(S) \subseteq Live /\ S \cap Live \subseteq WithReplies(S)
         /\ \A c \in Live : Above(c) \in WithReplies(S) => c \in WithReplies(S)
<1> DEFINE Taking(T) == \A c \in Live : (c \in S \/ Above(c) \in T) => c \in T
           W == {c \in Live : \A T \in SUBSET Live : Taking(T) => c \in T}
           w == [c \in Live |-> c \in W]
           Solves(g) == g = [c \in Live |-> c \in S \/ (Above(c) # NoComment /\ g[Above(c)])]
           goes == CHOOSE g : Solves(g)
<1>1. W \subseteq Live /\ Taking(W)
  OBVIOUS
<1>2. ASSUME NEW c \in W
      PROVE  c \in S \/ Above(c) \in W
  <2>1. SUFFICES ASSUME c \notin S, Above(c) \notin W PROVE FALSE
    OBVIOUS
  <2> DEFINE T == W \ {c}
  <2>2. T \in SUBSET Live /\ Taking(T)
    BY <1>1, <2>1
  <2>3. c \in T
    <3> HIDE DEF T
    <3> QED BY <2>2
  <2> QED BY <2>3
<1>3. \A c \in Live : c \in W <=> (c \in S \/ Above(c) \in W)
  BY <1>1, <1>2
<1> HIDE DEF W
<1>4. Solves(w)
  <2>1. ASSUME NEW c \in Live
        PROVE  (c \in W) = (c \in S \/ (Above(c) # NoComment /\ w[Above(c)]))
    <3>1. CASE Above(c) = NoComment
      <4>1. Above(c) \notin W
        BY <3>1, <1>1
      <4> QED BY <3>1, <4>1, <1>3
    <3>2. CASE Above(c) # NoComment
      <4>1. Above(c) \in Live
        BY <3>2
      <4>2. w[Above(c)] = (Above(c) \in W)
        BY <4>1
      <4>3. c \in W <=> (c \in S \/ Above(c) \in W)
        BY <1>3
      <4> HIDE DEF w
      <4>4. (c \in S \/ (Above(c) # NoComment /\ w[Above(c)])) <=> (c \in S \/ Above(c) \in W)
        BY <3>2, <4>2
      <4> QED BY <4>3, <4>4
    <3> QED BY <3>1, <3>2
  <2> QED BY <2>1
<1>5. Solves(goes)
  <2> HIDE DEF Solves, w
  <2> QED BY <1>4
<1>6. WithReplies(S) = {c \in Live : goes[c]}
  BY DEF WithReplies
<1>7. \A c \in Live : goes[c] = (c \in S \/ (Above(c) # NoComment /\ goes[Above(c)]))
  <2> HIDE DEF goes
  <2> QED BY <1>5
<1> HIDE DEF goes
<1> QED BY <1>6, <1>7

-----------------------------------------------------------------------------
\* A request goes to another step.
LEMMA TalkMoves ==
  ASSUME TkInv, UNCHANGED <<closed, comments, lastId, crossed>>,
         NEW q \in TalkProcs, NEW step \in TalkSteps, NEW l \in Talk,
         TalkStep(q, step, l), Reached(step, l)
  PROVE  TkInv'
<1>1. /\ tpc \in [TalkProcs -> TalkSteps] /\ tloc \in [TalkProcs -> Talk]
      /\ tpc' = [tpc EXCEPT ![q] = step] /\ tloc' = [tloc EXCEPT ![q] = l]
  BY DEF TkInv, TkRequests, TalkStep
<1>2. tpc' \in [TalkProcs -> TalkSteps] /\ tloc' \in [TalkProcs -> Talk]
  BY <1>1
<1>3. ASSUME NEW r \in TalkProcs
      PROVE  Reached(tpc'[r], tloc'[r])
  BY <1>1 DEF TkInv, TkRequests
<1>4. TkRequests'
  BY <1>2, <1>3 DEF TkRequests, Reached, Live, Above
<1>5. TkRows' /\ TkThreads'
  BY DEF TkInv, TkRows, TkThreads, Live, Above
<1> QED BY <1>4, <1>5 DEF TkInv

\* Comments go, each with its replies.
LEMMA RowsGo ==
  ASSUME TkInv, NEW S, Remove(S), UNCHANGED <<lastId, crossed, tpc, tloc>>,
         closed' \subseteq Posts,
         \A c \in Live : comments[c].post \in closed' => c \in S
  PROVE  TkInv'
<1> DEFINE W == WithReplies(S)
<1>1. TkRows /\ TkThreads /\ TkRequests
  BY DEF TkInv
<1>2. /\ W \subseteq Live /\ S \cap Live \subseteq W
      /\ \A c \in Live : Above(c) \in W => c \in W
  <2>1. (\A c \in Live : Above(c) \in Live \cup {NoComment}) /\ NoComment \notin Live
    BY <1>1, RowFacts DEF TkRows
  <2> QED BY <2>1, RepliesGo
<1> HIDE DEF W
<1>3. comments' = [c \in Live \ W |-> comments[c]]
  BY DEF Remove, Keep, W
<1>4. Live' = Live \ W /\ \A c \in Live' : comments'[c] = comments[c] /\ Above(c)' = Above(c)
  BY <1>3 DEF Live, Above
<1>5. \A c \in Live' : Above(c) \in Live' \cup {NoComment} /\ comments[c].post \notin closed'
  BY <1>1, <1>2, <1>4 DEF TkRows
<1>6. TkRows'
  <2>1. comments \in [Live -> Row]
    BY <1>1 DEF TkRows
  <2>2. comments' \in [Live' -> Row]
    BY <2>1, <1>3, <1>4
  <2>3. Live' \subseteq 1..lastId /\ lastId' \in 0..MaxComments /\ crossed' \in BOOLEAN
    BY <1>1, <1>4 DEF TkRows
  <2>4. \A c \in Live' : Above(c)' \in Live' \cup {NoComment} /\ comments'[c].post \notin closed'
    BY <1>4, <1>5
  <2> QED BY <2>2, <2>3, <2>4 DEF TkRows
<1>7. TkThreads'
  <2>1. \A c \in Live' : Above(c) # NoComment =>
          /\ c \in Live /\ Above(c) \in Live /\ Above(c) \in Live'
          /\ Above(Above(c))' = Above(Above(c)) /\ comments'[Above(c)] = comments[Above(c)]
    <3> SUFFICES ASSUME NEW c \in Live', Above(c) # NoComment
                 PROVE  /\ c \in Live /\ Above(c) \in Live /\ Above(c) \in Live'
                        /\ Above(Above(c))' = Above(Above(c))
                        /\ comments'[Above(c)] = comments[Above(c)]
      OBVIOUS
    <3>1. c \in Live /\ Above(c) \in Live' /\ Above(c) \in Live /\ Above(c)' = Above(c)
      BY <1>4, <1>5
    <3>2. comments'[Above(c)] = comments[Above(c)]
      BY <1>4, <3>1
    <3>3. comments'[comments'[c].parent].parent = comments[comments[c].parent].parent
      BY <1>4, <3>1, <3>2 DEF Above
    <3> QED BY <3>1, <3>2, <3>3 DEF Above
  <2>2. ASSUME NEW c \in Live', comments'[c].public, Above(c)' # NoComment
        PROVE  Above(Above(c))' = NoComment
    <3>1. c \in Live /\ comments[c].public /\ Above(c) # NoComment
      BY <1>4, <2>2
    <3> QED BY <2>1, <2>2, <3>1, <1>1 DEF TkThreads
  <2>3. ASSUME ~crossed', NEW c \in Live', Above(c)' # NoComment
        PROVE  comments'[Above(c)'].post = comments'[c].post
    <3>1. c \in Live /\ Above(c)' = Above(c) /\ Above(c) # NoComment /\ comments'[c] = comments[c]
      BY <1>4, <2>3
    <3>2. comments[Above(c)].post = comments[c].post
      BY <3>1, <2>3, <1>1 DEF TkThreads
    <3> QED BY <2>1, <3>1, <3>2
  <2> QED BY <2>2, <2>3 DEF TkThreads, Above
<1>8. TkRequests'
  <2>1. ASSUME NEW q \in TalkProcs
        PROVE  Reached(tpc[q], tloc[q])'
    <3>1. Reached(tpc[q], tloc[q])
      BY <1>1 DEF TkRequests
    <3> QED BY <3>1, <1>4 DEF Reached
  <2> QED BY <2>1, <1>1 DEF TkRequests
<1> QED BY <1>6, <1>7, <1>8 DEF TkInv

\* A comment comes: a visitor's below a root of its post, a member's below any.
LEMMA RowComes ==
  ASSUME TkRows, TkThreads, NEW row \in Row, AddRow(row), UNCHANGED closed,
         row.post \notin closed, row.parent \in Live \cup {NoComment},
         crossed' \in BOOLEAN, crossed => crossed',
         (row.public /\ row.parent # NoComment) => Above(row.parent) = NoComment,
         (~crossed' /\ row.parent # NoComment) => comments[row.parent].post = row.post
  PROVE  /\ TkRows' /\ TkThreads' /\ lastId' = lastId + 1
         /\ Live' = Live \cup {lastId'}
         /\ \A c \in Live : comments'[c] = comments[c]
<1>1. lastId \in 0..MaxComments /\ lastId < MaxComments /\ lastId' = lastId + 1
      /\ lastId' \in 0..MaxComments /\ Live \subseteq 1..lastId
  BY TalkFacts DEF TkRows, AddRow
<1>2. lastId' \notin Live /\ lastId' \in 1..lastId' /\ Live \subseteq 1..lastId'
      /\ NoComment \notin Live /\ lastId' # NoComment
  BY <1>1, TalkFacts
<1> DEFINE new == lastId'
<1>3. comments' = [c \in Live \cup {new} |-> IF c = new THEN row ELSE comments[c]]
  BY DEF AddRow
<1>4. Live' = Live \cup {new} /\ comments'[new] = row
      /\ \A c \in Live : comments'[c] = comments[c] /\ comments'[c].parent = Above(c)
  BY <1>2, <1>3 DEF Live, Above
<1>5. comments' \in [Live' -> Row]
  <2>1. comments \in [Live -> Row]
    BY DEF TkRows
  <2> HIDE DEF new
  <2> QED BY <2>1, <1>3, <1>4
<1> HIDE DEF new
<1>6. \A c \in Live' : Above(c)' \in Live' \cup {NoComment} /\ comments'[c].post \notin closed'
  <2>1. \A c \in Live : Above(c) \in Live \cup {NoComment} /\ comments[c].post \notin closed
    BY DEF TkRows
  <2> QED BY <2>1, <1>4 DEF Above
<1>7. TkRows'
  BY <1>1, <1>2, <1>4, <1>5, <1>6 DEF TkRows, new
<1>8. ASSUME NEW c \in Live'
      PROVE  /\ (comments'[c].public /\ comments'[c].parent # NoComment) =>
                  comments'[comments'[c].parent].parent = NoComment
             /\ (~crossed' /\ comments'[c].parent # NoComment) =>
                  comments'[comments'[c].parent].post = comments'[c].post
  <2>1. CASE c \in Live
    <3>1. comments'[c] = comments[c] /\ Above(c) \in Live \cup {NoComment}
          /\ comments'[c].parent = Above(c)
      BY <2>1, <1>4 DEF TkRows
    <3>2. Above(c) \in Live => comments'[Above(c)] = comments[Above(c)]
                               /\ comments'[Above(c)].parent = Above(Above(c))
      BY <1>4
    <3>3. (comments[c].public /\ Above(c) # NoComment) => Above(Above(c)) = NoComment
      BY <2>1 DEF TkThreads
    <3>4. (~crossed /\ Above(c) # NoComment) => comments[Above(c)].post = comments[c].post
      BY <2>1 DEF TkThreads
    <3> QED BY <3>1, <3>2, <3>3, <3>4
  <2>2. CASE c = new
    <3>1. comments'[c] = row
      BY <2>2, <1>4
    <3>2. row.parent \in Live => comments'[row.parent] = comments[row.parent]
                                 /\ comments'[row.parent].parent = Above(row.parent)
      BY <1>4
    <3> QED BY <3>1, <3>2
  <2> QED BY <2>1, <2>2, <1>4
<1>9. TkThreads'
  BY <1>8 DEF TkThreads, Above
<1> QED BY <1>1, <1>4, <1>7, <1>9 DEF new

\* It is no comment that a request has reached, for its number is new.
LEMMA ReachedStays ==
  ASSUME TkRows, NEW step, NEW l, Reached(step, l), crossed => crossed',
         lastId' = lastId + 1, Live' = Live \cup {lastId'},
         \A c \in Live : comments'[c] = comments[c]
  PROVE  Reached(step, l)'
<1> SUFFICES ASSUME step # "idle" PROVE Reached(step, l)'
  BY DEF Reached
<1>1. lastId \in 0..MaxComments /\ l.at \in 0..lastId
  BY DEF TkRows, Reached
<1>2. l.at \in 0..lastId' /\ l.at # lastId'
  BY <1>1, TalkFacts
<1>3. l.at \in Live' => l.at \in Live /\ comments'[l.at] = comments[l.at]
  BY <1>2
<1> QED BY <1>2, <1>3 DEF Reached, Above

-----------------------------------------------------------------------------
\* A visitor's request begins.
LEMMA PublicKeeps ==
  ASSUME TkInv, NEW q \in TalkProcs, CreatePublicComment(q)
  PROVE  TkInv'
<1>1. PICK p \in Posts \ closed, c \in Live \cup {NoComment} :
        /\ c # NoComment => comments[c].post = p
        /\ TalkStep(q, IF c = NoComment THEN "insert" ELSE "climb", [post |-> p, at |-> c])
        /\ UNCHANGED <<closed, comments, lastId, crossed>>
  BY DEF CreatePublicComment
<1> DEFINE l == [post |-> p, at |-> c]
           step == IF c = NoComment THEN "insert" ELSE "climb"
<1>2. TkRows /\ NoComment \notin Live /\ c \in CommentIds \cup {NoComment} /\ c \in 0..lastId
  <2>1. TkRows /\ lastId \in 0..MaxComments
    BY DEF TkInv, TkRows
  <2>2. \A d \in Live : d # NoComment /\ d \in CommentIds /\ d \in 1..lastId
    BY <2>1, RowFacts
  <2> QED BY <2>1, <2>2, TalkFacts
<1>3. l \in Talk /\ step \in TalkSteps
  BY <1>2 DEF Talk, TalkSteps
<1>4. Reached(step, l)
  BY <1>1, <1>2 DEF Reached
<1>5. TalkStep(q, step, l)
  BY <1>1
<1> HIDE DEF l, step
<1> QED BY <1>1, <1>3, <1>4, <1>5, TalkMoves

\* It climbs one comment, or has reached the root or the end of what is left.
LEMMA ClimbKeeps ==
  ASSUME TkInv, NEW q \in TalkProcs, Climb(q)
  PROVE  TkInv'
<1> DEFINE c == tloc[q].at
<1>1. /\ TkRows /\ TkThreads /\ tloc[q] \in Talk /\ Reached("climb", tloc[q])
      /\ UNCHANGED <<closed, comments, lastId, crossed>>
  BY DEF TkInv, TkRequests, Climb
<1>2. CASE (c \notin Live \/ Above(c) = NoComment) /\ TalkStep(q, "insert", tloc[q])
  <2>1. Reached("insert", tloc[q]) /\ "insert" \in TalkSteps
    BY <1>1, <1>2 DEF Reached, TalkSteps
  <2> QED BY <1>1, <1>2, <2>1, TalkMoves
<1>3. CASE c \in Live /\ Above(c) # NoComment
           /\ TalkStep(q, "climb", [tloc[q] EXCEPT !.at = Above(c)])
  <2> DEFINE l == [tloc[q] EXCEPT !.at = Above(c)]
  <2>1. Above(c) \in Live /\ Above(c) \in 1..lastId /\ Above(c) \in CommentIds
    BY <1>1, <1>3, RowFacts
  <2>2. l \in Talk /\ l.at = Above(c) /\ l.post = tloc[q].post /\ "climb" \in TalkSteps
    BY <1>1, <2>1 DEF Talk, TalkSteps
  <2>3. ~crossed => comments[Above(c)].post = tloc[q].post
    BY <1>1, <1>3 DEF Reached, TkThreads
  <2>4. lastId \in 0..MaxComments
    BY <1>1 DEF TkRows
  <2> HIDE DEF l
  <2>5. Reached("climb", l)
    <3>1. l.at \in 0..lastId
      BY <2>1, <2>2, <2>4, TalkFacts
    <3> QED BY <1>1, <1>3, <2>2, <2>3, <3>1 DEF Reached
  <2> QED BY <1>1, <1>3, <2>2, <2>5, TalkMoves DEF l
<1> QED BY <1>2, <1>3 DEF Climb

\* It ends.
LEMMA RefusedKeeps ==
  ASSUME TkInv, NEW q \in TalkProcs, CommentRefused(q)
  PROVE  TkInv'
<1>1. NoTalk \in Talk /\ "idle" \in TalkSteps /\ Reached("idle", NoTalk)
  BY TalkFacts DEF TalkSteps, Reached
<1> QED BY <1>1, TalkMoves DEF CommentRefused

\* It inserts, at the root it has reached.
LEMMA InsertCommentKeeps ==
  ASSUME TkInv, NEW q \in TalkProcs, InsertPublicComment(q)
  PROVE  TkInv'
<1> DEFINE l == tloc[q]
<1>1. /\ TkRows /\ TkThreads /\ l \in Talk /\ Reached("insert", l)
      /\ UNCHANGED <<closed, crossed>> /\ TalkStep(q, "idle", NoTalk)
  BY DEF TkInv, TkRequests, InsertPublicComment
<1>2. NoTalk \in Talk /\ "idle" \in TalkSteps /\ Reached("idle", NoTalk)
  BY TalkFacts DEF TalkSteps, Reached
<1>3. CASE UNCHANGED <<comments, lastId>>
  BY <1>1, <1>2, <1>3, TalkMoves
<1>4. ASSUME l.post \notin closed, l.at \in Live \cup {NoComment}, NEW s \in StatesOf(Live),
             AddRow([post |-> l.post, parent |-> l.at, public |-> TRUE, state |-> s])
      PROVE  TkInv'
  <2> DEFINE row == [post |-> l.post, parent |-> l.at, public |-> TRUE, state |-> s]
  <2>1. row \in Row
    <3>1. l.post \in Posts /\ l.at \in CommentIds \cup {NoComment}
      BY <1>1 DEF Talk, Reached
    <3>2. s \in {"published", "spam"}
      BY DEF StatesOf
    <3> QED BY <3>1, <3>2 DEF Row
  <2>2. row.post = l.post /\ row.parent = l.at /\ AddRow(row)
    BY <1>4
  <2>3. NoComment \notin Live
    BY <1>1, RowFacts
  <2>4. row.parent # NoComment => /\ Above(row.parent) = NoComment
                                  /\ ~crossed => comments[row.parent].post = row.post
    BY <1>1, <1>4, <2>2, <2>3 DEF Reached
  <2> HIDE DEF row
  <2>5. crossed' \in BOOLEAN /\ (crossed => crossed') /\ (~crossed' => ~crossed)
    BY <1>1 DEF TkRows
  <2>6. /\ TkRows' /\ TkThreads' /\ lastId' = lastId + 1 /\ Live' = Live \cup {lastId'}
        /\ \A c \in Live : comments'[c] = comments[c]
    BY <1>1, <1>4, <2>1, <2>2, <2>4, <2>5, RowComes
  <2>7. /\ tpc \in [TalkProcs -> TalkSteps] /\ tloc \in [TalkProcs -> Talk]
        /\ \A r \in TalkProcs : Reached(tpc[r], tloc[r])
    BY DEF TkInv, TkRequests
  <2>8. /\ tpc' \in [TalkProcs -> TalkSteps] /\ tloc' \in [TalkProcs -> Talk]
        /\ tpc'[q] = "idle" /\ \A r \in TalkProcs \ {q} : tpc'[r] = tpc[r] /\ tloc'[r] = tloc[r]
    BY <1>1, <1>2, <2>7 DEF TalkStep
  <2>9. ASSUME NEW r \in TalkProcs
        PROVE  Reached(tpc[r], tloc[r])'
    <3>1. CASE r = q
      BY <2>8, <3>1 DEF Reached
    <3>2. CASE r # q
      <4>1. Reached(tpc[r], tloc[r])
        BY <2>7
      <4>2. \A step, m : Reached(step, m) => Reached(step, m)'
        BY <1>1, <2>5, <2>6, ReachedStays
      <4> QED BY <2>8, <3>2, <4>1, <4>2 DEF Reached
    <3> QED BY <3>1, <3>2
  <2>10. TkRequests'
    BY <2>8, <2>9 DEF TkRequests
  <2> QED BY <2>6, <2>10 DEF TkInv
<1> QED BY <1>3, <1>4 DEF InsertPublicComment

\* A post goes with its comments; comments go one by one, or as spam.
LEMMA DeletesKeep ==
  ASSUME TkInv, DeletePost \/ DeleteComment \/ PurgeSpamComments
  PROVE  TkInv'
<1>1. TkRows
  BY DEF TkInv
<1>2. CASE DeletePost
  <2>1. PICK p \in Posts \ closed :
          /\ closed' = closed \cup {p} /\ Remove({c \in Live : comments[c].post = p})
          /\ UNCHANGED <<lastId, crossed, tpc, tloc>>
    BY <1>2 DEF DeletePost, TalkRest
  <2> DEFINE S == {c \in Live : comments[c].post = p}
  <2>2. closed' \subseteq Posts /\ \A c \in Live : comments[c].post \in closed' => c \in S
    BY <1>1, <2>1 DEF TkRows
  <2>3. Remove(S)
    BY <2>1
  <2> HIDE DEF S
  <2> QED BY <2>1, <2>2, <2>3, RowsGo
<1>3. CASE DeleteComment \/ PurgeSpamComments
  <2>1. PICK S : Remove(S) /\ UNCHANGED <<closed, lastId, crossed, tpc, tloc>>
    BY <1>3 DEF DeleteComment, PurgeSpamComments, TalkRest
  <2>2. closed' \subseteq Posts /\ \A c \in Live : comments[c].post \in closed' => c \in S
    BY <1>1, <2>1 DEF TkRows
  <2> QED BY <2>1, <2>2, RowsGo
<1> QED BY <1>2, <1>3

\* A member's comment, wherever it replies.
LEMMA CreateKeeps ==
  ASSUME TkInv, CreateComment
  PROVE  TkInv'
<1>1. PICK p \in Posts \ closed, c \in Live \cup {NoComment} :
        /\ AddRow([post |-> p, parent |-> c, public |-> FALSE, state |-> "published"])
        /\ crossed' = (crossed \/ (c # NoComment /\ comments[c].post # p))
        /\ UNCHANGED <<closed, tpc, tloc>>
  BY DEF CreateComment, TalkRest
<1>2. TkRows /\ TkThreads /\ TkRequests
  BY DEF TkInv
<1> DEFINE row == [post |-> p, parent |-> c, public |-> FALSE, state |-> "published"]
<1>3. row \in Row /\ row.post = p /\ row.parent = c /\ ~row.public
  <2>1. c \in CommentIds \cup {NoComment}
    BY <1>2, RowFacts
  <2> QED BY <2>1 DEF Row
<1>4. AddRow(row)
  BY <1>1
<1> HIDE DEF row
<1>5. crossed' \in BOOLEAN /\ (crossed => crossed')
      /\ ((~crossed' /\ c # NoComment) => comments[c].post = p)
  BY <1>1, <1>2 DEF TkRows
<1>6. /\ TkRows' /\ TkThreads' /\ lastId' = lastId + 1 /\ Live' = Live \cup {lastId'}
      /\ \A d \in Live : comments'[d] = comments[d]
  BY <1>1, <1>2, <1>3, <1>4, <1>5, RowComes
<1>7. ASSUME NEW q \in TalkProcs
      PROVE  Reached(tpc[q], tloc[q])'
  <2>1. Reached(tpc[q], tloc[q])
    BY <1>2 DEF TkRequests
  <2>2. \A step, m : Reached(step, m) => Reached(step, m)'
    BY <1>2, <1>5, <1>6, ReachedStays
  <2> QED BY <1>1, <2>1, <2>2 DEF Reached
<1>8. TkRequests'
  BY <1>1, <1>2, <1>7 DEF TkRequests
<1> QED BY <1>6, <1>8 DEF TkInv

\* Moderation moves no comment.
LEMMA ModerationKeeps ==
  ASSUME TkInv, UpdateCommentModeration
  PROVE  TkInv'
<1>1. PICK c \in Live, s \in {"published", "spam"} : comments' = [comments EXCEPT ![c].state = s]
  BY DEF UpdateCommentModeration, StatesOf
<1>2. TkRows /\ TkThreads /\ TkRequests /\ UNCHANGED <<closed, lastId, crossed, tpc, tloc>>
  BY DEF TkInv, UpdateCommentModeration, TalkRest
<1>3. comments \in [Live -> Row]
  BY <1>2 DEF TkRows
<1>4. [comments[c] EXCEPT !.state = s] \in Row
  BY <1>3 DEF Row
<1>5. Live' = Live /\ comments' \in [Live -> Row]
  BY <1>1, <1>3, <1>4 DEF Live
<1>6. \A d \in Live : /\ comments'[d].post = comments[d].post
                      /\ comments'[d].parent = comments[d].parent
                      /\ comments'[d].public = comments[d].public
  BY <1>1, <1>3 DEF Row
<1>7. TkRows'
  BY <1>2, <1>5, <1>6 DEF TkRows, Above
<1>8. TkThreads'
  <2>1. \A d \in Live : Above(d) # NoComment => Above(d) \in Live
    BY <1>2 DEF TkRows
  <2> QED BY <1>2, <1>5, <1>6, <2>1 DEF TkThreads, Above
<1>9. TkRequests'
  BY <1>2, <1>5, <1>6 DEF TkRequests, Reached, Above
<1> QED BY <1>7, <1>8, <1>9 DEF TkInv

-----------------------------------------------------------------------------
\* A board without comments.
LEMMA TalkFirst == TalkInit => TkInv
<1> SUFFICES ASSUME TalkInit PROVE TkInv
  OBVIOUS
<1>1. comments = << >> /\ Live = {}
  BY DEF TalkInit, Live
<1>2. TkRows
  <2>1. comments \in [Live -> Row]
    BY <1>1
  <2> QED BY <1>1, <2>1, TalkFacts DEF TalkInit, TkRows
<1>3. TkThreads
  BY <1>1 DEF TkThreads
<1>4. TkRequests
  BY TalkFacts DEF TalkInit, TkRequests, TalkSteps, Reached
<1> QED BY <1>2, <1>3, <1>4 DEF TkInv

\* Every step keeps the invariant.
LEMMA TalkStepKeeps == TkInv /\ [TalkNext]_talkVars => TkInv'
<1> SUFFICES ASSUME TkInv, [TalkNext]_talkVars PROVE TkInv'
  OBVIOUS
<1>1. CASE UNCHANGED talkVars
  BY <1>1 DEF talkVars, TkInv, TkRows, TkThreads, TkRequests, Reached, Live, Above
<1> QED BY <1>1, PublicKeeps, ClimbKeeps, RefusedKeeps, InsertCommentKeeps, DeletesKeep, CreateKeeps,
           ModerationKeeps DEF TalkNext

\* Comments are rows of open posts, below rows that are there (what ON DELETE CASCADE is
\* for), and requests hold what their steps need.
THEOREM TalkTypes == TalkSpec => []TalkTypeOK
<1>1. TkInv => TalkTypeOK
  BY DEF TkInv, TkRows, TkRequests, TalkSteps, Talk, Above, TalkTypeOK
<1> QED BY <1>1, TalkFirst, TalkStepKeeps, PTL DEF TalkSpec

\* A visitor's reply hangs from a top-level comment of its own post (createPublicComment.js),
\* however the thread was nested and whatever is deleted while the request climbs it.
THEOREM RepliesAlwaysInPlace == TalkSpec => []RepliesInPlace
<1>1. TkInv => RepliesInPlace
  BY DEF TkInv, TkThreads, RepliesInPlace
<1> QED BY <1>1, TalkFirst, TalkStepKeeps, PTL DEF TalkSpec

=============================================================================
