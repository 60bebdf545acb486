----------------------------- MODULE BootProofs -----------------------------
(***************************************************************************)
(* No worker serves a half-migrated schema, and none loses a restart to a  *)
(* change twice, for any number of workers, scripts, changes, failures and *)
(* restarts.                                                               *)
(***************************************************************************)
EXTENDS Boot, FiniteSetTheorems, TLAPS

Steps == {"down"} \cup Booting \cup Serving

\* BootTypeOK, one part each.
BtTypes ==
  /\ schema \subseteq Changes
  /\ lock \in Workers \cup {NoWorker}
  /\ bpc \in [Workers -> Steps]
  /\ child \in [Workers -> Job \cup {NoJob}]
  /\ orphans \subseteq Job
  /\ strikes \in [Workers -> 0..MaxRestarts]
  /\ faults \in 0..MaxFaults /\ before \subseteq Changes

BtChild == \A w \in Workers : bpc[w] = "run" <=> child[w] # NoJob
BtLock  == \A w \in Workers : bpc[w] \in {"run", "release"} <=> lock = w

\* A worker that is there was started with a strike left.
BtStrikes == \A w \in Workers : bpc[w] # "down" => strikes[w] < MaxRestarts

\* What the script a worker runs has behind it, and the scripts before it, is in the
\* schema: nothing takes a change away again.
Behind(j) == {x \in Changes : x[1] < j.script \/ (x[1] = j.script /\ x[2] < j.change)}
BtBehind  == \A w \in Workers : bpc[w] = "run" => Behind(child[w]) \subseteq schema

\* A worker that is through with its scripts.
BtDone == \A w \in Workers : bpc[w] \in {"release"} \cup Serving => schema = Changes

\* A change that is about to break a worker's script is in the schema, and when it was
\* looked for it was not: it is paid for once, before it strikes.
Due(w)   == IF Breaks(child[w]) THEN 1 ELSE 0
Paid     == faults + Cardinality(schema \ before)
BtEarned == /\ before \subseteq schema /\ IsFiniteSet(schema \ before)
            /\ \A w \in Workers : strikes[w] + Due(w) <= Paid

BootIInv == BtTypes /\ BtChild /\ BtLock /\ BtStrikes /\ BtBehind /\ BtDone /\ BtEarned

-----------------------------------------------------------------------------
\* The scripts are a non-empty sequence of positive lengths.
LEMMA ScriptFacts ==
  /\ DOMAIN Scripts = 1..Len(Scripts) /\ Len(Scripts) \in Nat \ {0}
  /\ \A s \in DOMAIN Scripts : Scripts[s] \in Nat \ {0}
  /\ MaxRestarts \in Nat /\ MaxFaults \in Nat /\ NoWorker \notin Workers
BY BootConstants

\* A change is a script and one of its numbers.
LEMMA ChangeParts ==
  ASSUME NEW x \in Changes
  PROVE  /\ x[1] \in DOMAIN Scripts /\ x[2] \in 1..Scripts[x[1]]
         /\ x = <<x[1], x[2]>>
BY DEF Changes

\* A script that has not ended is about to make one of the changes.
LEMMA ChangeIn ==
  ASSUME NEW j \in Job, ~Ended(j)
  PROVE  Change(j) \in Changes
<1>1. j.script \in DOMAIN Scripts /\ j.change \in 1..Scripts[j.script]
  BY ScriptFacts DEF Job, Ended
<1>2. Change(j) \in {j.script} \X (1..Scripts[j.script])
  BY <1>1 DEF Change
<1> QED BY <1>1, <1>2 DEF Changes

\* A script that starts is a job, and no job is NoJob.
LEMMA JobFacts ==
  /\ \A s \in DOMAIN Scripts : Run(s) \in Job
  /\ NoJob \notin Job
  /\ \A j \in Job : ~Ended(j) => Advance(j) \in Job
<1>1. 0 \notin DOMAIN Scripts
  BY ScriptFacts
<1>2. NoJob \notin Job
  BY <1>1 DEF NoJob, Job
<1>3. \A s \in DOMAIN Scripts : Run(s) \in Job
  BY DEF Run, Job
<1>4. ASSUME NEW j \in Job
      PROVE  Advance(j) \in Job
  <2>1. [j EXCEPT !.change = @ + 1, !.adds = FALSE] \in Job
    <3>1. j.change + 1 \in Nat \ {0}
      BY DEF Job
    <3>2. \A n \in Nat \ {0} : [j EXCEPT !.change = n, !.adds = FALSE] \in Job
      BY DEF Job
    <3> QED BY <3>1, <3>2
  <2>2. [j EXCEPT !.adds = TRUE] \in Job
    BY DEF Job
  <2> QED BY <2>1, <2>2 DEF Advance
<1> QED BY <1>2, <1>3, <1>4

\* A step of a script only adds to the schema, and never more than the changes.
LEMMA ApplyGrows ==
  ASSUME NEW j \in Job, ~Ended(j), schema \subseteq Changes, Apply(j)
  PROVE  schema \subseteq schema' /\ schema' \subseteq Changes
BY ChangeIn DEF Apply

\* What a script has behind it grows by the change it has just made or found.
LEMMA BehindAdvances ==
  ASSUME NEW j \in Job, ~Ended(j), Apply(j), Behind(j) \subseteq schema
  PROVE  Behind(Advance(j)) \subseteq schema'
<1>1. schema \subseteq schema'
  BY DEF Apply
<1>2. CASE ~j.adds /\ Change(j) \notin schema
  <2>1. Advance(j).script = j.script /\ Advance(j).change = j.change
    BY <1>2 DEF Advance, Job
  <2> QED BY <1>1, <2>1 DEF Behind
<1>3. CASE j.adds \/ Change(j) \in schema
  <2>1. Advance(j).script = j.script /\ Advance(j).change = j.change + 1
    BY <1>3 DEF Advance, Job
  <2>2. Change(j) \in schema'
    BY <1>3 DEF Apply
  <2>3. SUFFICES ASSUME NEW x \in Changes, x[1] = j.script, x[2] = j.change
                 PROVE  x \in schema'
    <3>1. j.change \in Nat
      BY DEF Job
    <3>2. \A x \in Changes : x[2] \in Nat
      BY ChangeParts, ScriptFacts
    <3>3. \A x \in Behind(Advance(j)) : x \in Behind(j) \/ (x[1] = j.script /\ x[2] = j.change)
      BY <2>1, <3>1, <3>2 DEF Behind
    <3> QED BY <1>1, <2>3, <3>3 DEF Behind
  <2>4. x = Change(j)
    BY <2>3, ChangeParts DEF Change
  <2> QED BY <2>2, <2>4
<1> QED BY <1>2, <1>3

\* A script that has ended has all its changes behind it: for the next one to start, or for
\* the last one to end the migration.
LEMMA EndedBehind ==
  ASSUME NEW j \in Job, Ended(j), Behind(j) \subseteq schema, schema \subseteq Changes
  PROVE  /\ j.script # Len(Scripts) => j.script + 1 \in DOMAIN Scripts
                                       /\ Behind(Run(j.script + 1)) \subseteq schema
         /\ j.script = Len(Scripts) => schema = Changes
<1>1. j.script \in 1..Len(Scripts) /\ j.change \in Nat /\ Scripts[j.script] \in Nat
      /\ j.change > Scripts[j.script]
  BY ScriptFacts DEF Job, Ended
<1>2. \A x \in Changes : x[1] \in 1..Len(Scripts) /\ x[2] \in Nat /\ x[2] <= Scripts[x[1]]
                         /\ x[2] >= 1
  BY ChangeParts, ScriptFacts
<1>3. \A x \in Changes : x[1] <= j.script => x \in Behind(j)
  BY <1>1, <1>2 DEF Behind
<1>4. ASSUME j.script # Len(Scripts)
      PROVE  j.script + 1 \in DOMAIN Scripts /\ Behind(Run(j.script + 1)) \subseteq schema
  <2>1. j.script + 1 \in DOMAIN Scripts
    BY <1>1, <1>4, ScriptFacts
  <2>2. Run(j.script + 1).script = j.script + 1 /\ Run(j.script + 1).change = 1
    BY DEF Run
  <2>3. \A x \in Behind(Run(j.script + 1)) : x \in Changes /\ x[1] <= j.script
    BY <1>1, <1>2, <2>2 DEF Behind
  <2> QED BY <1>3, <2>1, <2>3
<1>5. ASSUME j.script = Len(Scripts)
      PROVE  schema = Changes
  <2>1. \A x \in Changes : x[1] <= j.script
    BY <1>1, <1>2, <1>5
  <2>2. Changes \subseteq schema
    BY <1>3, <2>1
  <2> QED BY <2>2
<1> QED BY <1>4, <1>5

\* Nothing is behind the first script when it starts.
LEMMA FirstBehind == Behind(Run(1)) = {}
<1>1. \A x \in Changes : x[1] \in Nat /\ x[1] >= 1 /\ x[2] \in Nat /\ x[2] >= 1
  BY ChangeParts, ScriptFacts
<1> QED BY <1>1 DEF Behind, Run

-----------------------------------------------------------------------------
\* What has been paid is a number.
LEMMA PaidNat ==
  ASSUME BootIInv
  PROVE  /\ Paid \in Nat /\ faults \in Nat /\ Cardinality(schema \ before) \in Nat
         /\ \A w \in Workers : strikes[w] \in Nat /\ Due(w) \in 0..1
<1>1. Cardinality(schema \ before) \in Nat
  BY FS_CardinalityType DEF BootIInv, BtEarned
<1>2. faults \in Nat /\ \A w \in Workers : strikes[w] \in Nat
  BY ScriptFacts DEF BootIInv, BtTypes
<1> QED BY <1>1, <1>2 DEF Paid, Due

\* No strike, no change, and no script that is about to break where there was none.
LEMMA EarnedSame ==
  ASSUME BootIInv, UNCHANGED <<schema, strikes, before>>, faults' \in Nat, faults' >= faults,
         \A w \in Workers : child'[w] = child[w] \/ ~child'[w].adds
  PROVE  BtEarned'
<1>1. Paid' \in Nat /\ Paid' >= Paid
  BY PaidNat DEF Paid
<1>2. ASSUME NEW w \in Workers PROVE strikes'[w] + Due(w)' <= Paid'
  <2>1. Due(w)' = Due(w) \/ Due(w)' = 0
    BY DEF Due, Breaks, Change
  <2>2. strikes[w] + Due(w) <= Paid
    BY DEF BootIInv, BtEarned
  <2> QED BY <1>1, <2>1, <2>2, PaidNat
<1> QED BY <1>2 DEF BootIInv, BtEarned

\* A script's step: a change it makes is new, and pays for the worker that was about to
\* make it too.
LEMMA EarnedGrows ==
  ASSUME BootIInv, NEW j, ~Breaks(j), Apply(j), UNCHANGED <<strikes, before, faults>>,
         \A w \in Workers : child'[w] = child[w] \/ ~child'[w].adds
                            \/ (UNCHANGED schema /\ Change(child'[w]) \notin schema)
  PROVE  BtEarned'
<1>1. CASE j.adds
  <2> DEFINE fresh == schema \ before
  <2>1. Change(j) \notin schema /\ schema' = schema \cup {Change(j)}
    BY <1>1 DEF Breaks, Apply
  <2>2. before \subseteq schema /\ IsFiniteSet(fresh) /\ Change(j) \notin fresh
    BY <2>1 DEF BootIInv, BtEarned
  <2>3. (schema \ before)' = fresh \cup {Change(j)}
    BY <2>1, <2>2
  <2>4. IsFiniteSet((schema \ before)') /\ Cardinality((schema \ before)') = Cardinality(fresh) + 1
    BY <2>2, <2>3, FS_AddElement
  <2>5. Paid' = Paid + 1
    BY <2>4, PaidNat DEF Paid
  <2>6. ASSUME NEW w \in Workers PROVE strikes'[w] + Due(w)' <= Paid'
    <3>1. strikes[w] + Due(w) <= Paid /\ Due(w)' \in 0..1
      BY DEF BootIInv, BtEarned, Due
    <3> QED BY <2>5, <3>1, PaidNat
  <2> QED BY <2>1, <2>2, <2>4, <2>6 DEF BtEarned
<1>2. CASE ~j.adds
  <2>1. UNCHANGED schema
    BY <1>2 DEF Apply
  <2>2. Paid' = Paid
    BY <2>1 DEF Paid
  <2>3. ASSUME NEW w \in Workers PROVE strikes'[w] + Due(w)' <= Paid'
    <3>1. Due(w)' = Due(w) \/ Due(w)' = 0
      BY <2>1 DEF Due, Breaks, Change
    <3>2. strikes[w] + Due(w) <= Paid
      BY DEF BootIInv, BtEarned
    <3> QED BY <2>2, <3>1, <3>2, PaidNat
  <2> QED BY <2>1, <2>3 DEF BootIInv, BtEarned
<1> QED BY <1>1, <1>2

\* A worker that leaves, early or not, keeps the invariant: it gives the lock up, runs no
\* script, and what the others have behind them is untouched.
LEMMA LeaveKeeps ==
  ASSUME BootIInv, NEW w \in Workers, NEW early \in BOOLEAN, Leave(w, early),
         bpc[w] # "down", UNCHANGED <<schema, before>>, orphans' \subseteq Job,
         faults' \in 0..MaxFaults, faults' >= faults,
         early => faults' = faults + 1 \/ Breaks(child[w])
  PROVE  BootIInv'
<1>1. /\ bpc \in [Workers -> Steps] /\ child \in [Workers -> Job \cup {NoJob}]
      /\ bpc' = [bpc EXCEPT ![w] = "down"] /\ child' = [child EXCEPT ![w] = NoJob]
  BY DEF BootIInv, BtTypes, Leave, BootGoto
<1>2. bpc'[w] = "down" /\ child'[w] = NoJob
  BY <1>1
<1>3. \A v \in Workers \ {w} : bpc'[v] = bpc[v] /\ child'[v] = child[v]
  BY <1>1
<1>4. strikes' \in [Workers -> 0..MaxRestarts]
      /\ \A v \in Workers \ {w} : strikes'[v] = strikes[v]
  <2>1. strikes \in [Workers -> 0..MaxRestarts] /\ strikes[w] < MaxRestarts
    BY DEF BootIInv, BtTypes, BtStrikes
  <2>2. strikes[w] + 1 \in 0..MaxRestarts
    BY <2>1, ScriptFacts
  <2> QED BY <2>1, <2>2 DEF Leave
<1>5. BtTypes'
  <2>1. lock' \in Workers \cup {NoWorker}
    BY DEF BootIInv, BtTypes, Leave, Release
  <2>2. bpc' \in [Workers -> Steps] /\ child' \in [Workers -> Job \cup {NoJob}]
    BY <1>1 DEF Steps
  <2>3. schema' \subseteq Changes /\ before' \subseteq Changes
    BY DEF BootIInv, BtTypes
  <2> QED BY <1>4, <2>1, <2>2, <2>3 DEF BtTypes
<1>6. BtChild'
  <2>1. \A v \in Workers : bpc[v] = "run" <=> child[v] # NoJob
    BY DEF BootIInv, BtChild
  <2> QED BY <1>2, <1>3, <2>1 DEF BtChild
<1>7. BtLock'
  <2>1. \A v \in Workers : bpc[v] \in {"run", "release"} <=> lock = v
    BY DEF BootIInv, BtLock
  <2>2. lock' = IF lock = w THEN NoWorker ELSE lock
    BY DEF Leave, Release
  <2>3. \A v \in Workers \ {w} : lock' = v <=> lock = v
    BY <2>2, ScriptFacts
  <2>4. lock' # w
    BY <2>2, ScriptFacts
  <2> QED BY <1>2, <1>3, <2>1, <2>3, <2>4 DEF BtLock
<1>8. BtStrikes'
  <2>1. \A v \in Workers : bpc[v] # "down" => strikes[v] < MaxRestarts
    BY DEF BootIInv, BtStrikes
  <2> QED BY <1>2, <1>3, <1>4, <2>1 DEF BtStrikes
<1>9. BtBehind'
  <2>1. \A v \in Workers : bpc[v] = "run" => Behind(child[v]) \subseteq schema
    BY DEF BootIInv, BtBehind
  <2> QED BY <1>2, <1>3, <2>1 DEF BtBehind, Behind
<1>10. BtDone'
  <2>1. \A v \in Workers : bpc[v] \in {"release"} \cup Serving => schema = Changes
    BY DEF BootIInv, BtDone
  <2> QED BY <1>2, <1>3, <2>1 DEF BtDone, Serving
<1>11. BtEarned'
  <2>1. /\ Paid' \in Nat /\ Paid' >= Paid
        /\ faults' = faults + 1 => Paid' = Paid + 1
    BY PaidNat, ScriptFacts DEF Paid
  <2>2. ASSUME NEW v \in Workers PROVE strikes'[v] + Due(v)' <= Paid'
    <3>1. strikes[v] + Due(v) <= Paid
      BY DEF BootIInv, BtEarned
    <3>2. CASE v # w
      <4>1. Due(v)' = Due(v) /\ strikes'[v] = strikes[v]
        BY <1>3, <1>4, <3>2 DEF Due, Breaks, Change
      <4> QED BY <2>1, <3>1, <4>1, PaidNat
    <3>3. CASE v = w
      <4>1. Due(w)' = 0
        BY <1>2 DEF Due, Breaks, NoJob
      <4>2. CASE early
        <5>1. strikes'[w] = strikes[w] + 1
          BY <4>2 DEF Leave, BootIInv, BtTypes
        <5>2. CASE Breaks(child[w])
          <6>1. Due(w) = 1
            BY <5>2 DEF Due
          <6> QED BY <2>1, <3>1, <3>3, <4>1, <5>1, <6>1, PaidNat
        <5>3. CASE faults' = faults + 1
          BY <2>1, <3>1, <3>3, <4>1, <5>1, <5>3, PaidNat
        <5> QED BY <4>2, <5>2, <5>3
      <4>3. CASE ~early
        <5>1. strikes'[w] = strikes[w]
          BY <4>3 DEF Leave
        <5> QED BY <2>1, <3>1, <3>3, <4>1, <5>1, PaidNat
      <4> QED BY <4>2, <4>3
    <3> QED BY <3>2, <3>3
  <2> QED BY <2>2 DEF BootIInv, BtEarned
<1> QED BY <1>5, <1>6, <1>7, <1>8, <1>9, <1>10, <1>11 DEF BootIInv

\* A worker that goes from one step to another, neither of them one that runs a script,
\* with the lock as the step it comes to has it.
LEMMA MoveKeeps ==
  ASSUME BootIInv, NEW w \in Workers, NEW step \in Steps \ {"run", "down"},
         BootGoto(w, step), UNCHANGED <<schema, child, orphans, strikes, before>>,
         faults' \in 0..MaxFaults, faults' >= faults, bpc[w] # "run", strikes[w] < MaxRestarts,
         \/ UNCHANGED lock /\ (bpc[w] = "release" <=> step = "release")
         \/ Release(w) /\ step # "release",
         step \in {"release"} \cup Serving => schema = Changes
  PROVE  BootIInv'
<1>1. bpc \in [Workers -> Steps] /\ bpc' = [bpc EXCEPT ![w] = step]
  BY DEF BootIInv, BtTypes, BootGoto
<1>2. bpc'[w] = step /\ \A v \in Workers \ {w} : bpc'[v] = bpc[v]
  BY <1>1
<1>3. BtTypes'
  <2>1. bpc' \in [Workers -> Steps]
    BY <1>1
  <2>2. lock' \in Workers \cup {NoWorker}
    BY DEF BootIInv, BtTypes, Release
  <2> QED BY <2>1, <2>2 DEF BootIInv, BtTypes
<1>4. BtChild'
  <2>1. \A v \in Workers : bpc[v] = "run" <=> child[v] # NoJob
    BY DEF BootIInv, BtChild
  <2> QED BY <1>2, <2>1 DEF BtChild
<1>5. BtLock'
  <2>1. \A v \in Workers : bpc[v] \in {"run", "release"} <=> lock = v
    BY DEF BootIInv, BtLock
  <2>2. CASE UNCHANGED lock /\ (bpc[w] = "release" <=> step = "release")
    <3>1. bpc'[w] \in {"run", "release"} <=> lock' = w
      BY <1>2, <2>1, <2>2
    <3> QED BY <1>2, <2>1, <2>2, <3>1 DEF BtLock
  <2>3. CASE Release(w) /\ step # "release"
    <3>1. lock' = IF lock = w THEN NoWorker ELSE lock
      BY <2>3 DEF Release
    <3>2. lock' # w /\ \A v \in Workers \ {w} : lock' = v <=> lock = v
      BY <3>1, ScriptFacts
    <3> QED BY <1>2, <2>1, <2>3, <3>2 DEF BtLock
  <2> QED BY <2>2, <2>3
<1>6. BtStrikes'
  BY <1>2 DEF BootIInv, BtStrikes
<1>7. BtBehind'
  <2>1. \A v \in Workers : bpc'[v] = "run" => bpc[v] = "run"
    BY <1>2
  <2> QED BY <2>1 DEF BootIInv, BtBehind, Behind
<1>8. BtDone'
  <2>1. \A v \in Workers : bpc[v] \in {"release"} \cup Serving => schema = Changes
    BY DEF BootIInv, BtDone
  <2> QED BY <1>2, <2>1 DEF BtDone
<1>9. BtEarned'
  BY EarnedSame, ScriptFacts
<1> QED BY <1>3, <1>4, <1>5, <1>6, <1>7, <1>8, <1>9 DEF BootIInv

-----------------------------------------------------------------------------
\* PM2 starts a worker that has strikes left.
LEMMA StartKeeps ==
  ASSUME BootIInv, NEW w \in Workers, Start(w)
  PROVE  BootIInv'
<1>1. bpc[w] = "down" /\ strikes[w] < MaxRestarts /\ BootGoto(w, "connect")
      /\ UNCHANGED <<schema, lock, child, orphans, strikes, faults, before>>
  BY DEF Start
<1>2. "connect" \in Steps \ {"run", "down"} /\ "connect" \notin {"release"} \cup Serving
  BY DEF Steps, Booting, Serving
<1>3. faults' \in 0..MaxFaults /\ faults' >= faults
  BY <1>1, ScriptFacts DEF BootIInv, BtTypes
<1> QED BY <1>1, <1>2, <1>3, MoveKeeps

\* The lock is free, so nobody runs a script: the worker takes it and begins with the first.
LEMMA AcquireKeeps ==
  ASSUME BootIInv, NEW w \in Workers, AcquireLock(w)
  PROVE  BootIInv'
<1>1. /\ bpc \in [Workers -> Steps] /\ child \in [Workers -> Job \cup {NoJob}]
      /\ bpc[w] = "lock" /\ lock = NoWorker /\ lock' = w
      /\ bpc' = [bpc EXCEPT ![w] = "run"] /\ child' = [child EXCEPT ![w] = Run(1)]
      /\ UNCHANGED <<schema, orphans, strikes, faults, before>>
  BY DEF BootIInv, BtTypes, AcquireLock, BootGoto
<1>2. Run(1) \in Job /\ Run(1) # NoJob
  BY JobFacts, ScriptFacts
<1>3. bpc'[w] = "run" /\ child'[w] = Run(1)
  BY <1>1
<1>4. \A v \in Workers \ {w} : bpc'[v] = bpc[v] /\ child'[v] = child[v]
  BY <1>1
<1>5. BtTypes'
  <2>1. bpc' \in [Workers -> Steps] /\ child' \in [Workers -> Job \cup {NoJob}]
    BY <1>1, <1>2 DEF Steps, Booting
  <2> QED BY <1>1, <2>1 DEF BootIInv, BtTypes
<1>6. BtChild'
  BY <1>2, <1>3, <1>4 DEF BootIInv, BtChild
<1>7. BtLock'
  <2>1. \A v \in Workers : bpc[v] \notin {"run", "release"}
    BY <1>1, ScriptFacts DEF BootIInv, BtLock
  <2> QED BY <1>1, <1>3, <1>4, <2>1 DEF BtLock
<1>8. BtStrikes'
  BY <1>1, <1>3, <1>4 DEF BootIInv, BtStrikes
<1>9. BtBehind'
  <2>1. \A v \in Workers : bpc[v] = "run" => Behind(child[v]) \subseteq schema
    BY DEF BootIInv, BtBehind
  <2> QED BY <1>1, <1>3, <1>4, <2>1, FirstBehind DEF BtBehind, Behind
<1>10. BtDone'
  <2>1. \A v \in Workers : bpc[v] \in {"release"} \cup Serving => schema = Changes
    BY DEF BootIInv, BtDone
  <2> QED BY <1>1, <1>3, <1>4, <2>1 DEF BtDone, Serving
<1>11. BtEarned'
  <2>1. ~child'[w].adds
    BY <1>3 DEF Run
  <2> QED BY <1>1, <1>4, <2>1, EarnedSame, PaidNat
<1> QED BY <1>5, <1>6, <1>7, <1>8, <1>9, <1>10, <1>11 DEF BootIInv

\* A schema that grows by a change leaves what the others rely on in place.
LEMMA GrowthKeeps ==
  ASSUME BootIInv, NEW j \in Job, ~Ended(j), Apply(j)
  PROVE  /\ schema' \subseteq Changes /\ schema \subseteq schema'
         /\ schema = Changes => schema' = Changes
<1>1. schema \subseteq Changes
  BY DEF BootIInv, BtTypes
<1>2. schema \subseteq schema' /\ schema' \subseteq Changes
  BY <1>1, ApplyGrows
<1> QED BY <1>2

\* A script looks for a change or makes it.
LEMMA RunKeeps ==
  ASSUME BootIInv, NEW w \in Workers, RunScript(w)
  PROVE  BootIInv'
<1> DEFINE j == child[w]
<1>1. /\ child \in [Workers -> Job \cup {NoJob}] /\ bpc[w] = "run" /\ ~Ended(j)
      /\ ~Breaks(j) /\ Apply(j) /\ child' = [child EXCEPT ![w] = Advance(j)]
      /\ UNCHANGED <<lock, bpc, orphans, strikes, faults, before>>
  BY DEF BootIInv, BtTypes, RunScript
<1>2. j \in Job
  BY <1>1 DEF BootIInv, BtChild
<1>3. Advance(j) \in Job /\ Advance(j) # NoJob
  BY <1>1, <1>2, JobFacts
<1>4. child'[w] = Advance(j) /\ \A v \in Workers \ {w} : child'[v] = child[v]
  BY <1>1
<1>5. schema' \subseteq Changes /\ schema \subseteq schema'
      /\ (schema = Changes => schema' = Changes)
  BY <1>1, <1>2, GrowthKeeps
<1>6. BtTypes'
  <2>1. child' \in [Workers -> Job \cup {NoJob}]
    BY <1>1, <1>3
  <2> QED BY <1>1, <1>5, <2>1 DEF BootIInv, BtTypes
<1>7. BtChild'
  BY <1>1, <1>3, <1>4 DEF BootIInv, BtChild
<1>8. BtLock' /\ BtStrikes'
  BY <1>1 DEF BootIInv, BtLock, BtStrikes
<1>9. BtBehind'
  <2>1. \A v \in Workers : bpc[v] = "run" => Behind(child[v]) \subseteq schema
    BY DEF BootIInv, BtBehind
  <2>2. Behind(Advance(j)) \subseteq schema'
    BY <1>1, <1>2, <2>1, BehindAdvances
  <2>3. \A v \in Workers \ {w} : bpc'[v] = "run" => Behind(child'[v]) \subseteq schema'
    BY <1>1, <1>4, <1>5, <2>1
  <2> QED BY <1>4, <2>2, <2>3 DEF BtBehind, Behind
<1>10. BtDone'
  BY <1>1, <1>5 DEF BootIInv, BtDone
<1>11. BtEarned'
  <2>1. CASE j.adds \/ Change(j) \in schema
    <3>1. ~child'[w].adds
      BY <1>2, <1>4, <2>1 DEF Advance, Job
    <3> QED BY <1>1, <1>4, <3>1, EarnedGrows
  <2>2. CASE ~j.adds /\ Change(j) \notin schema
    <3>1. UNCHANGED schema
      BY <1>1, <2>2 DEF Apply
    <3>2. Change(child'[w]) = Change(j)
      BY <1>2, <1>4, <2>2 DEF Advance, Job, Change
    <3> QED BY <1>1, <1>4, <2>2, <3>1, <3>2, EarnedGrows
  <2> QED BY <2>1, <2>2
<1> QED BY <1>6, <1>7, <1>8, <1>9, <1>10, <1>11 DEF BootIInv

\* A script has ended: the next one starts, or the migration is done and all is in the schema.
LEMMA EndKeeps ==
  ASSUME BootIInv, NEW w \in Workers, ScriptEnds(w)
  PROVE  BootIInv'
<1> DEFINE j == child[w]
<1>1. /\ child \in [Workers -> Job \cup {NoJob}] /\ bpc \in [Workers -> Steps]
      /\ bpc[w] = "run" /\ Ended(j) /\ schema \subseteq Changes
      /\ UNCHANGED <<schema, lock, orphans, strikes, faults, before>>
  BY DEF BootIInv, BtTypes, ScriptEnds
<1>2. j \in Job
  BY <1>1 DEF BootIInv, BtChild
<1>3. Behind(j) \subseteq schema
  BY <1>1 DEF BootIInv, BtBehind
<1>4. CASE j.script = Len(Scripts)
  <2>1. bpc' = [bpc EXCEPT ![w] = "release"] /\ child' = [child EXCEPT ![w] = NoJob]
    BY <1>4 DEF ScriptEnds, BootGoto
  <2>2. /\ bpc'[w] = "release" /\ child'[w] = NoJob
        /\ \A v \in Workers \ {w} : bpc'[v] = bpc[v] /\ child'[v] = child[v]
    BY <1>1, <2>1
  <2>3. schema = Changes
    BY <1>1, <1>2, <1>3, <1>4, EndedBehind
  <2>4. BtTypes'
    <3>1. bpc' \in [Workers -> Steps] /\ child' \in [Workers -> Job \cup {NoJob}]
      BY <1>1, <2>1 DEF Steps, Booting
    <3> QED BY <1>1, <3>1 DEF BootIInv, BtTypes
  <2>5. BtChild' /\ BtLock' /\ BtStrikes'
    BY <1>1, <2>2 DEF BootIInv, BtChild, BtLock, BtStrikes
  <2>6. BtBehind'
    BY <1>1, <2>2 DEF BootIInv, BtBehind, Behind
  <2>7. BtDone'
    BY <1>1, <2>3 DEF BtDone
  <2>8. BtEarned'
    <3>1. ~child'[w].adds
      BY <2>2 DEF NoJob
    <3> QED BY <1>1, <2>2, <3>1, EarnedSame, PaidNat
  <2> QED BY <2>4, <2>5, <2>6, <2>7, <2>8 DEF BootIInv
<1>5. CASE j.script # Len(Scripts)
  <2>1. bpc' = bpc /\ child' = [child EXCEPT ![w] = Run(j.script + 1)]
    BY <1>5 DEF ScriptEnds
  <2>2. j.script + 1 \in DOMAIN Scripts /\ Behind(Run(j.script + 1)) \subseteq schema
    BY <1>1, <1>2, <1>3, <1>5, EndedBehind
  <2>3. Run(j.script + 1) \in Job /\ Run(j.script + 1) # NoJob
    BY <2>2, JobFacts
  <2>4. /\ child'[w] = Run(j.script + 1)
        /\ \A v \in Workers \ {w} : child'[v] = child[v]
    BY <1>1, <2>1
  <2>5. BtTypes'
    <3>1. child' \in [Workers -> Job \cup {NoJob}]
      BY <1>1, <2>1, <2>3
    <3> QED BY <1>1, <2>1, <3>1 DEF BootIInv, BtTypes
  <2>6. BtChild'
    BY <1>1, <2>1, <2>3, <2>4 DEF BootIInv, BtChild
  <2>7. BtLock' /\ BtStrikes' /\ BtDone'
    BY <1>1, <2>1 DEF BootIInv, BtLock, BtStrikes, BtDone
  <2>8. BtBehind'
    BY <1>1, <2>1, <2>2, <2>4 DEF BootIInv, BtBehind, Behind
  <2>9. BtEarned'
    <3>1. ~child'[w].adds
      BY <2>4 DEF Run
    <3> QED BY <1>1, <2>4, <3>1, EarnedSame, PaidNat
  <2> QED BY <2>5, <2>6, <2>7, <2>8, <2>9 DEF BootIInv
<1> QED BY <1>4, <1>5

\* A script whose worker is gone adds what it finds missing, under nobody's lock.
LEMMA OrphanKeeps ==
  ASSUME BootIInv, OrphanRuns
  PROVE  BootIInv'
<1>1. PICK j \in orphans :
        \/ /\ ~Ended(j) /\ ~Breaks(j) /\ Apply(j)
           /\ orphans' = (orphans \ {j}) \cup {Advance(j)}
        \/ orphans' = orphans \ {j} /\ UNCHANGED schema
  BY DEF OrphanRuns
<1>2. orphans \subseteq Job /\ j \in Job /\ schema \subseteq Changes
      /\ UNCHANGED <<lock, bpc, child, strikes, faults, before>>
  BY DEF BootIInv, BtTypes, OrphanRuns
<1>3. /\ schema' \subseteq Changes /\ schema \subseteq schema' /\ orphans' \subseteq Job
      /\ (schema = Changes => schema' = Changes)
  <2>1. CASE ~Ended(j) /\ Apply(j) /\ orphans' = (orphans \ {j}) \cup {Advance(j)}
    BY <1>2, <2>1, JobFacts, GrowthKeeps
  <2>2. CASE orphans' = orphans \ {j} /\ UNCHANGED schema
    BY <1>2, <2>2
  <2> QED BY <1>1, <2>1, <2>2
<1>4. BtTypes' /\ BtChild' /\ BtLock' /\ BtStrikes'
  BY <1>2, <1>3 DEF BootIInv, BtTypes, BtChild, BtLock, BtStrikes
<1>5. BtBehind'
  BY <1>2, <1>3 DEF BootIInv, BtBehind, Behind
<1>6. BtDone'
  BY <1>2, <1>3 DEF BootIInv, BtDone
<1>7. BtEarned'
  BY <1>1, <1>2, EarnedGrows, EarnedSame, PaidNat
<1> QED BY <1>4, <1>5, <1>6, <1>7 DEF BootIInv

-----------------------------------------------------------------------------
\* A deployment begins with every worker down and part of the changes made.
LEMMA BootInitHolds == BootInit => BootIInv
<1> SUFFICES ASSUME BootInit PROVE BootIInv
  OBVIOUS
<1>1. /\ lock = NoWorker /\ bpc = [w \in Workers |-> "down"]
      /\ child = [w \in Workers |-> NoJob] /\ orphans = {}
      /\ strikes = [w \in Workers |-> 0] /\ faults = 0 /\ before = schema
      /\ schema \subseteq Changes
  BY DEF BootInit
<1>2. BtTypes
  BY <1>1, ScriptFacts DEF BtTypes, Steps
<1>3. BtChild
  BY <1>1 DEF BtChild
<1>4. BtLock
  BY <1>1, ScriptFacts DEF BtLock
<1>5. BtBehind /\ BtDone
  BY <1>1 DEF BtBehind, BtDone, Serving
<1>8. BtEarned
  <2>1. schema \ before = {}
    BY <1>1
  <2>2. IsFiniteSet({}) /\ Cardinality({}) = 0
    BY FS_EmptySet
  <2>3. Paid = 0
    BY <1>1, <2>1, <2>2 DEF Paid
  <2>4. \A w \in Workers : strikes[w] = 0 /\ Due(w) = 0
    BY <1>1 DEF Due, Breaks, NoJob
  <2> QED BY <1>1, <2>1, <2>2, <2>3, <2>4 DEF BtEarned
<1>6. CASE MaxRestarts > 0
  <2>1. BtStrikes
    BY <1>1, <1>6 DEF BtStrikes
  <2> QED BY <1>2, <1>3, <1>4, <1>5, <1>8, <2>1 DEF BootIInv
<1>7. CASE ~(MaxRestarts > 0)
  <2>1. BtStrikes
    BY <1>1 DEF BtStrikes
  <2> QED BY <1>2, <1>3, <1>4, <1>5, <1>8, <2>1 DEF BootIInv
<1> QED BY <1>6, <1>7

\* Every step of a worker, of PM2 or of an orphan keeps the invariant.
LEMMA BootStepKeeps == BootIInv /\ [BootNext]_bootVars => BootIInv'
<1> SUFFICES ASSUME BootIInv, [BootNext]_bootVars PROVE BootIInv'
  OBVIOUS
<1>a. /\ faults \in 0..MaxFaults /\ faults >= faults /\ orphans \subseteq Job
      /\ (BootFault => faults' \in 0..MaxFaults /\ faults' = faults + 1 /\ faults' >= faults)
  BY ScriptFacts DEF BootIInv, BtTypes, BootFault
<1>b. \A w \in Workers : bpc[w] # "down" => strikes[w] < MaxRestarts
  BY DEF BootIInv, BtStrikes
<1>c. \A w \in Workers : bpc[w] \in {"release"} \cup Serving => schema = Changes
  BY DEF BootIInv, BtDone
<1>1. ASSUME NEW w \in Workers, Start(w) PROVE BootIInv'
  BY <1>1, StartKeeps
<1>2. ASSUME NEW w \in Workers, Connect(w) PROVE BootIInv'
  <2>1. "lock" \in Steps \ {"run", "down"} /\ "lock" \notin {"release"} \cup Serving
    BY DEF Steps, Booting, Serving
  <2> QED BY <1>2, <1>a, <1>b, <2>1, MoveKeeps DEF Connect
<1>3. ASSUME NEW w \in Workers, AcquireLock(w) PROVE BootIInv'
  BY <1>3, AcquireKeeps
<1>4. ASSUME NEW w \in Workers, LockTimeout(w) PROVE BootIInv'
  BY <1>4, <1>a, LeaveKeeps DEF LockTimeout
<1>5. ASSUME NEW w \in Workers, RunScript(w) PROVE BootIInv'
  BY <1>5, RunKeeps
<1>6. ASSUME NEW w \in Workers, ScriptEnds(w) PROVE BootIInv'
  BY <1>6, EndKeeps
<1>7. ASSUME NEW w \in Workers, ScriptBreaks(w) PROVE BootIInv'
  <2>1. PICK early \in BOOLEAN : Leave(w, early)
    BY <1>7 DEF ScriptBreaks
  <2> QED BY <1>7, <1>a, <2>1, LeaveKeeps DEF ScriptBreaks
<1>8. ASSUME NEW w \in Workers, ReleaseLock(w) PROVE BootIInv'
  <2>1. "listen" \in Steps \ {"run", "down"} /\ "listen" # "release"
    BY DEF Steps, Serving
  <2>2. schema = Changes /\ strikes[w] < MaxRestarts /\ bpc[w] # "run"
    BY <1>8, <1>b, <1>c DEF ReleaseLock
  <2> QED BY <1>8, <1>a, <2>1, <2>2, MoveKeeps DEF ReleaseLock
<1>9. ASSUME NEW w \in Workers, Listen(w) PROVE BootIInv'
  <2>1. "up" \in Steps \ {"run", "down"} /\ "up" # "release" /\ "listen" \in Serving
    BY DEF Steps, Serving
  <2>2. schema = Changes /\ strikes[w] < MaxRestarts /\ bpc[w] \notin {"run", "release"}
    BY <1>9, <1>b, <1>c, <2>1 DEF Listen
  <2> QED BY <1>9, <1>a, <2>1, <2>2, MoveKeeps DEF Listen
<1>10. ASSUME NEW w \in Workers, Drained(w) PROVE BootIInv'
  BY <1>10, <1>a, LeaveKeeps DEF Drained
<1>11. ASSUME NEW w \in Workers, BootFails(w) PROVE BootIInv'
  <2>1. bpc[w] # "down" /\ UNCHANGED <<schema, orphans, before>> /\ BootFault
    BY <1>11, <1>a DEF BootFails, Booting
  <2>2. PICK early \in BOOLEAN : Leave(w, early)
    BY <1>11 DEF BootFails
  <2> QED BY <1>a, <2>1, <2>2, LeaveKeeps
<1>12. ASSUME NEW w \in Workers, Killed(w) PROVE BootIInv'
  <2>1. bpc[w] # "down" /\ UNCHANGED <<schema, before>> /\ BootFault
    BY <1>12, <1>a DEF Killed
  <2>2. PICK early \in BOOLEAN : Leave(w, early)
    BY <1>12 DEF Killed
  <2>3. orphans' \subseteq Job
    <3>1. child[w] \in Job \cup {NoJob}
      BY DEF BootIInv, BtTypes
    <3> QED BY <1>12, <1>a, <3>1 DEF Killed
  <2> QED BY <1>a, <2>1, <2>2, <2>3, LeaveKeeps
<1>13. ASSUME NEW w \in Workers, Shutdown(w) PROVE BootIInv'
  <2>1. "drain" \in Steps \ {"run", "down"} /\ "drain" # "release" /\ "up" \in Serving
    BY DEF Steps, Serving
  <2>2. schema = Changes /\ strikes[w] < MaxRestarts /\ bpc[w] \notin {"run", "release"}
    BY <1>13, <1>b, <1>c, <2>1 DEF Shutdown
  <2> QED BY <1>13, <1>a, <2>1, <2>2, MoveKeeps DEF Shutdown
<1>14. CASE OrphanRuns
  BY <1>14, OrphanKeeps
<1>15. CASE UNCHANGED bootVars
  BY <1>15 DEF bootVars, BootIInv, BtTypes, BtChild, BtLock, BtStrikes, BtBehind, BtDone, Behind,
     BtEarned, Due, Paid, Breaks, Change
<1> QED
  BY <1>1, <1>2, <1>3, <1>4, <1>5, <1>6, <1>7, <1>8, <1>9, <1>10, <1>11, <1>12, <1>13, <1>14,
     <1>15 DEF BootNext, Boots

\* The strengthened invariant holds in every state of every deployment.
LEMMA BootInductive == BootSpec => []BootIInv
BY BootInitHolds, BootStepKeeps, PTL DEF BootSpec

\* Every variable has its type, the worker that runs the scripts or is about to give the
\* lock back is the one that holds it, and nobody else runs one (runBootMigrations).
THEOREM BootTypes == BootSpec => []BootTypeOK
<1>1. BootIInv => BootTypeOK
  BY DEF BootIInv, BtTypes, BtChild, BtLock, BootTypeOK, Steps
<1> QED BY <1>1, BootInductive, PTL

\* "Nobody serves traffic against a half-migrated schema" (bootMigrations.js): a worker that
\* listens has run every script to its end, and no orphan, failure or restart takes away
\* what a script has made or found.
THEOREM NobodyServesHalfMigrated == BootSpec => []ServesMigrated
<1>1. BootIInv => ServesMigrated
  BY DEF BootIInv, BtDone, ServesMigrated
<1> QED BY <1>1, BootInductive, PTL

\* A worker has no more strikes than there were failures and new changes, however orphans
\* race it: PM2 gives up on none before max_restarts of them (bootMigrations.js,
\* ecosystem.config.js).
THEOREM StrikesAreEarned == BootSpec => []StrikesEarned
<1>1. BootIInv => StrikesEarned
  <2> SUFFICES ASSUME BootIInv, NEW w \in Workers
               PROVE  strikes[w] <= faults + Cardinality(schema \ before)
    BY DEF StrikesEarned
  <2>1. strikes[w] + Due(w) <= Paid
    BY DEF BootIInv, BtEarned
  <2> QED BY <2>1, PaidNat DEF Paid
<1> QED BY <1>1, BootInductive, PTL
=============================================================================
