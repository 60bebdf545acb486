-------------------------------- MODULE Boot --------------------------------
(***************************************************************************)
(* Starting and restarting the workers of the cluster.  Each brings the    *)
(* schema up to date before it listens (bootMigrations.js, app.js): under  *)
(* a MySQL advisory lock, which goes with the connection, it runs the      *)
(* migration scripts in child processes, which do not go with the worker.  *)
(* PM2 (ecosystem.config.js) starts a worker that has left again, but      *)
(* gives up on one that left early too often.                              *)
(***************************************************************************)
EXTENDS Integers, Sequences, FiniteSets

CONSTANTS
  Workers, NoWorker,
  Scripts,         \* MIGRATIONS: how many changes each script makes
  MaxRestarts,     \* max_restarts
  MaxFaults        \* bound: failures, kills and restarts asked for

ASSUME BootConstants ==
  /\ NoWorker \notin Workers /\ Scripts \in Seq(Nat \ {0}) /\ Scripts # <<>>
  /\ MaxRestarts \in Nat /\ MaxFaults \in Nat

VARIABLES
  schema,          \* changes that are in the database
  lock,            \* holder of the advisory lock
  bpc,             \* each worker's step
  child,           \* the script it runs
  orphans,         \* scripts whose worker is gone
  strikes,         \* unstable_restarts
  faults,
  before           \* history: the changes the deployment found

bootVars == <<schema, lock, bpc, child, orphans, strikes, faults, before>>

Changes == UNION {{s} \X (1..Scripts[s]) : s \in DOMAIN Scripts}
Job     == [script : DOMAIN Scripts, change : Nat \ {0}, adds : BOOLEAN]
Run(s)  == [script |-> s, change |-> 1, adds |-> FALSE]
NoJob   == [script |-> 0, change |-> 1, adds |-> FALSE]

Booting == {"connect", "lock", "run", "release"}
Serving == {"listen", "up", "drain"}

BootTypeOK ==
  /\ schema \subseteq Changes
  /\ lock \in Workers \cup {NoWorker}
  /\ bpc \in [Workers -> {"down"} \cup Booting \cup Serving]
  /\ child \in [Workers -> Job \cup {NoJob}]
  /\ orphans \subseteq Job
  /\ strikes \in [Workers -> 0..MaxRestarts]
  /\ faults \in 0..MaxFaults /\ before \subseteq Changes
  /\ \A w \in Workers : bpc[w] = "run" <=> child[w] # NoJob
  /\ \A w \in Workers : bpc[w] \in {"run", "release"} <=> lock = w

\* A deployment: what former releases added is there, what the new one needs is not.
BootInit ==
  /\ \E s \in 0..(Len(Scripts) - 1) : schema = {x \in Changes : x[1] <= s}
  /\ lock = NoWorker /\ bpc = [w \in Workers |-> "down"]
  /\ child = [w \in Workers |-> NoJob] /\ orphans = {}
  /\ strikes = [w \in Workers |-> 0] /\ faults = 0 /\ before = schema

-----------------------------------------------------------------------------
BootGoto(w, step) == bpc' = [bpc EXCEPT ![w] = step]
Release(w)        == lock' = IF lock = w THEN NoWorker ELSE lock
BootFault         == faults < MaxFaults /\ faults' = faults + 1

\* The process is gone, and its connections; one that left early has a strike.
Leave(w, early) ==
  /\ BootGoto(w, "down") /\ Release(w)
  /\ child' = [child EXCEPT ![w] = NoJob]
  /\ strikes' = IF early THEN [strikes EXCEPT ![w] = @ + 1] ELSE strikes

\* autorestart.
Start(w) ==
  /\ bpc[w] = "down" /\ strikes[w] < MaxRestarts
  /\ BootGoto(w, "connect")
  /\ UNCHANGED <<schema, lock, child, orphans, strikes, faults, before>>

Connect(w) ==
  /\ bpc[w] = "connect" /\ BootGoto(w, "lock")
  /\ UNCHANGED <<schema, lock, child, orphans, strikes, faults, before>>

AcquireLock(w) ==
  /\ bpc[w] = "lock" /\ lock = NoWorker
  /\ lock' = w /\ BootGoto(w, "run")
  /\ child' = [child EXCEPT ![w] = Run(1)]
  /\ UNCHANGED <<schema, orphans, strikes, faults, before>>

\* Mutant: who does not get the lock takes the schema for migrated.
MutLockTimeout(w) ==
  /\ bpc[w] = "lock" /\ lock # NoWorker
  /\ BootGoto(w, "listen")
  /\ UNCHANGED <<schema, lock, child, orphans, strikes, faults, before>>

\* GET_LOCK has waited LOCK_TIMEOUT_SECONDS, far longer than min_uptime: no strike.
LockTimeout(w) ==
  /\ bpc[w] = "lock" /\ lock # NoWorker
  /\ Leave(w, FALSE) /\ UNCHANGED <<schema, orphans, faults, before>>

-----------------------------------------------------------------------------
(* A script makes its changes one by one, each if it finds it missing: an   *)
(* ALTER that finds it there after all fails, and the script with it.       *)

Ended(j)   == j.change > Scripts[j.script]
Change(j)  == <<j.script, j.change>>
Breaks(j)  == j.adds /\ Change(j) \in schema

\* Mutant: the change is made without a look whether it is there.
MutAdvance(j) == IF j.adds THEN [j EXCEPT !.change = @ + 1, !.adds = FALSE]
                 ELSE [j EXCEPT !.adds = TRUE]

Advance(j) == IF j.adds \/ Change(j) \in schema
              THEN [j EXCEPT !.change = @ + 1, !.adds = FALSE]
              ELSE [j EXCEPT !.adds = TRUE]
Apply(j)   == schema' = IF j.adds THEN schema \cup {Change(j)} ELSE schema

RunScript(w) ==
  LET j == child[w] IN
  /\ bpc[w] = "run" /\ ~Ended(j) /\ ~Breaks(j)
  /\ Apply(j) /\ child' = [child EXCEPT ![w] = Advance(j)]
  /\ UNCHANGED <<lock, bpc, orphans, strikes, faults, before>>

\* Exit code 0: the next script, or all are done.
ScriptEnds(w) ==
  LET s == child[w].script IN
  /\ bpc[w] = "run" /\ Ended(child[w])
  /\ IF s = Len(Scripts)
     THEN BootGoto(w, "release") /\ child' = [child EXCEPT ![w] = NoJob]
     ELSE child' = [child EXCEPT ![w] = Run(s + 1)] /\ UNCHANGED bpc
  /\ UNCHANGED <<schema, lock, orphans, strikes, faults, before>>

\* Another exit code: the lock is released and the worker refuses to start, before or after
\* min_uptime.
ScriptBreaks(w) ==
  /\ bpc[w] = "run" /\ ~Ended(child[w]) /\ Breaks(child[w])
  /\ \E early \in BOOLEAN : Leave(w, early)
  /\ UNCHANGED <<schema, orphans, faults, before>>

\* An orphan goes on, or ends: done, broken, or when it writes to its worker's pipe.
OrphanRuns ==
  \E j \in orphans :
    /\ \/ /\ ~Ended(j) /\ ~Breaks(j) /\ Apply(j)
          /\ orphans' = (orphans \ {j}) \cup {Advance(j)}
       \/ orphans' = orphans \ {j} /\ UNCHANGED schema
    /\ UNCHANGED <<lock, bpc, child, strikes, faults, before>>

\* Mutant: the connection goes back to the pool with the lock on it.
MutReleaseLock(w) ==
  /\ bpc[w] = "release" /\ BootGoto(w, "listen")
  /\ UNCHANGED <<schema, lock, child, orphans, strikes, faults, before>>

ReleaseLock(w) ==
  /\ bpc[w] = "release" /\ BootGoto(w, "listen") /\ Release(w)
  /\ UNCHANGED <<schema, child, orphans, strikes, faults, before>>

Listen(w) ==
  /\ bpc[w] = "listen" /\ BootGoto(w, "up")
  /\ UNCHANGED <<schema, lock, child, orphans, strikes, faults, before>>

-----------------------------------------------------------------------------
\* A query fails, in the worker or its script, or the port is taken.
BootFails(w) ==
  /\ bpc[w] \in Booting \cup {"listen"} /\ BootFault
  /\ \E early \in BOOLEAN : Leave(w, early)
  /\ UNCHANGED <<schema, orphans, before>>

\* Killed, or asked to stop before it listens: the child may outlive it.
Killed(w) ==
  /\ bpc[w] # "down" /\ BootFault
  /\ \E early \in BOOLEAN : Leave(w, early)
  /\ orphans' \in {orphans, orphans \cup ({child[w]} \ {NoJob})}
  /\ UNCHANGED <<schema, before>>

\* SIGTERM, SIGINT or an uncaught exception: no new connections, then the pool is drained
\* and the process leaves, at the latest when SHUTDOWN_TIMEOUT_MS is over.
Shutdown(w) ==
  /\ bpc[w] = "up" /\ BootFault /\ BootGoto(w, "drain")
  /\ UNCHANGED <<schema, lock, child, orphans, strikes, before>>

Drained(w) ==
  /\ bpc[w] = "drain" /\ Leave(w, FALSE)
  /\ UNCHANGED <<schema, orphans, faults, before>>

Boots(w) ==
  \/ Start(w) \/ Connect(w) \/ AcquireLock(w) \/ RunScript(w) \/ ScriptEnds(w)
  \/ ScriptBreaks(w) \/ ReleaseLock(w) \/ Listen(w) \/ Drained(w)

BootNext ==
  \/ \E w \in Workers :
       Boots(w) \/ LockTimeout(w) \/ BootFails(w) \/ Killed(w) \/ Shutdown(w)
  \/ OrphanRuns

\* PM2 restarts, queries return, and MySQL grants a free lock to one who waits.
BootFair == \A w \in Workers : WF_bootVars(Boots(w))

BootSpec == BootInit /\ [][BootNext]_bootVars /\ BootFair

-----------------------------------------------------------------------------
(* Properties.                                                              *)

\* "Nobody serves traffic against a half-migrated schema" (bootMigrations.js), whoever
\* was killed in the middle and whatever its child still does, and however long the
\* others waited.
ServesMigrated == \A w \in Workers : bpc[w] \in Serving => schema = Changes

\* A script that outlived its worker can break the scripts of others, "Duplicate column
\* name" (bootMigrations.js), but not twice on one change: a worker that left early was
\* killed, failed, or lost a race for a change that is new and that stays.
StrikesEarned == \A w \in Workers : strikes[w] <= faults + Cardinality(schema \ before)

\* A deployment comes up: once nothing is killed or fails any more, every worker serves,
\* whatever orphans still do, except one PM2 has given up on (max_restarts).
GivenUp(w) == bpc[w] = "down" /\ strikes[w] = MaxRestarts
AllServe   == <>[](\A w \in Workers : bpc[w] = "up" \/ GivenUp(w))
=============================================================================
