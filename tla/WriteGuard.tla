----------------------------- MODULE WriteGuard -----------------------------
(***************************************************************************)
(* The gate every guest's post or comment passes (publicWriteGuard.js):    *)
(* honeypot, form token (formToken.js), burst caps counted in MySQL        *)
(* (writeCounters.js), the quality of the e-mail address (emailQuality.js) *)
(* and the score of the content (module SpamScore), in this order.  The    *)
(* steps here are those with state: the caps.                              *)
(*                                                                         *)
(* The counters are rows of fixed windows, one upsert each, bumped at once *)
(* (Promise.all) while other requests bump theirs and old windows are      *)
(* pruned.  Time is counted in hours: the windows of a network and of a    *)
(* board are an hour, that of an e-mail domain DayLength of them.          *)
(***************************************************************************)
EXTENDS Integers, FiniteSets

CONSTANTS
  Networks, NoNetwork,   \* voter_hash; NoNetwork: none could be derived
  MaxVoterHour, MaxTenantHour, MaxDomainDay,   \* LIMITS
  DayLength,             \* hours of a day
  Retention,             \* hours a window is kept for: two days
  GuardProcs,            \* requests that can be at work at once
  MaxHours,              \* bound: hours that pass
  MaxWrites,             \* bound: requests
  MaxBlips               \* bound: failed counter queries

ASSUME GuardConstants ==
  /\ NoNetwork \notin Networks /\ IsFiniteSet(GuardProcs)
  /\ {MaxVoterHour, MaxTenantHour, MaxDomainDay, MaxHours, MaxWrites, MaxBlips} \subseteq Nat
  /\ DayLength \in Nat \ {0} /\ Retention \in Nat /\ Retention >= DayLength

-----------------------------------------------------------------------------
VARIABLES
  hour,            \* the clock
  counters,        \* public_write_counters: [rows -> count], a row is <<scope, window>>
  gpc, gloc,       \* each request's step and what it holds
  writes, blips,   \* requests begun, queries failed
  \* history
  charged          \* writes let through by the caps, per row they were charged to

guardVars == <<hour, counters, gpc, gloc, writes, blips, charged>>

\* Scopes of a request: v:<hash>:<tenant>, t:<tenant>, d:<domain>:<tenant>.
Tenant == "tenant"
Domain == "domain"
Scopes == Networks \cup {Tenant, Domain}

LimitOf(scope) ==
  CASE scope = Tenant -> MaxTenantHour [] scope = Domain -> MaxDomainDay
    [] OTHER -> MaxVoterHour

\* Math.floor(now / size) * size.
WindowStart(scope) == IF scope = Domain THEN (hour \div DayLength) * DayLength ELSE hour

Rows == Scopes \X (0..MaxHours)

NoWrite == [rows |-> {}, all |-> {}, tripped |-> FALSE]

GuardTypeOK ==
  /\ hour \in 0..MaxHours
  /\ DOMAIN counters \subseteq Rows /\ \A r \in DOMAIN counters : counters[r] \in Nat \ {0}
  /\ gpc \in [GuardProcs -> {"idle", "charge"}]
  /\ gloc \in [GuardProcs -> [rows : SUBSET Rows, all : SUBSET Rows, tripped : BOOLEAN]]
  /\ writes \in Nat /\ blips \in Nat /\ charged \in [Rows -> Nat]

GuardInit ==
  /\ hour = 0 /\ counters = << >>
  /\ gpc = [q \in GuardProcs |-> "idle"] /\ gloc = [q \in GuardProcs |-> NoWrite]
  /\ writes = 0 /\ blips = 0 /\ charged = [r \in Rows |-> 0]

GuardStep(q, step, l) ==
  /\ gpc' = [gpc EXCEPT ![q] = step] /\ gloc' = [gloc EXCEPT ![q] = l]

-----------------------------------------------------------------------------
\* A request that fell into the honeypot is answered as if stored, and a signed-in one is
\* clean: neither is charged, so only the guests' are steps here.  The windows are those
\* of the hour the request is charged in.
EvaluatePublicWrite(q) ==
  \E n \in Networks \cup {NoNetwork}, email \in BOOLEAN :
    LET scopes == ({n} \cap Networks) \cup {Tenant} \cup (IF email THEN {Domain} ELSE {})
        rows   == {<<x, WindowStart(x)>> : x \in scopes} IN
    /\ gpc[q] = "idle" /\ writes < MaxWrites /\ writes' = writes + 1
    /\ GuardStep(q, "charge", [rows |-> rows, all |-> rows, tripped |-> FALSE])
    /\ UNCHANGED <<hour, counters, blips, charged>>

Count(r) == IF r \in DOMAIN counters THEN counters[r] ELSE 0

\* Mutant: the count is read, then written: the rival's increment is not in the answer.
MutBump(q) ==
  \E r \in gloc[q].rows :
    /\ gpc[q] = "charge"
    /\ counters' = [x \in DOMAIN counters \cup {r} |->
                      IF x = r THEN Count(r) + 1 ELSE counters[x]]
    /\ GuardStep(q, "charge", [gloc[q] EXCEPT !.rows = @ \ {r},
                                 !.tripped = @ \/ Count(r) > LimitOf(r[1])])
    /\ UNCHANGED <<hour, writes, blips, charged>>

\* INSERT ... ON DUPLICATE KEY UPDATE count = LAST_INSERT_ID(count + 1): the new value is
\* the answer.  Every scope is bumped, also once one has tripped.
Bump(q) ==
  \E r \in gloc[q].rows :
    /\ gpc[q] = "charge"
    /\ counters' = [x \in DOMAIN counters \cup {r} |->
                      IF x = r THEN Count(r) + 1 ELSE counters[x]]
    /\ GuardStep(q, "charge", [gloc[q] EXCEPT !.rows = @ \ {r},
                                 !.tripped = @ \/ Count(r) + 1 > LimitOf(r[1])])
    /\ UNCHANGED <<hour, writes, blips, charged>>

\* A failed query rejects Promise.all: the write is let through, whatever the other
\* counters say.
FailOpen(q) ==
  /\ gpc[q] = "charge" /\ gloc[q].rows # {} /\ blips < MaxBlips /\ blips' = blips + 1
  /\ GuardStep(q, "idle", NoWrite)
  /\ UNCHANGED <<hour, counters, writes, charged>>

\* All counted: 429, or on to the e-mail and the content, and stored in either state.
Charged(q) ==
  /\ gpc[q] = "charge" /\ gloc[q].rows = {}
  /\ GuardStep(q, "idle", NoWrite)
  /\ IF gloc[q].tripped THEN UNCHANGED charged
     ELSE charged' = [r \in Rows |-> IF r \in gloc[q].all THEN charged[r] + 1 ELSE charged[r]]
  /\ UNCHANGED <<hour, counters, writes, blips>>

\* window_start < NOW() - INTERVAL 2 DAY
Elapsed(r) == r[2] < hour - Retention

\* One write in 500 drops the elapsed windows.
PruneCounters ==
  /\ \E r \in DOMAIN counters : Elapsed(r)
  /\ counters' = [r \in {x \in DOMAIN counters : ~Elapsed(x)} |-> counters[r]]
  /\ UNCHANGED <<hour, gpc, gloc, writes, blips, charged>>

\* Requests take less than the retention.
HourPasses ==
  /\ hour < MaxHours /\ hour' = hour + 1
  /\ \A q \in GuardProcs : \A r \in gloc[q].rows : hour' - r[2] <= Retention
  /\ UNCHANGED <<counters, gpc, gloc, writes, blips, charged>>

GuardNext ==
  \/ \E q \in GuardProcs :
       EvaluatePublicWrite(q) \/ Bump(q) \/ FailOpen(q) \/ Charged(q)
  \/ PruneCounters \/ HourPasses

GuardSpec == GuardInit /\ [][GuardNext]_guardVars

-----------------------------------------------------------------------------
(* Properties.                                                              *)

\* "A board can only absorb so many new posts an hour regardless of where they come from"
\* (writeCounters.js): of the writes charged to a window of a network, a board or a domain
\* no more than its cap were let through, however the requests of all processes
\* interleave, whatever is pruned and whatever hour a slow one ends in; a write the guard
\* failed open for is not counted.
CapPerWindow == \A r \in Rows : charged[r] <= LimitOf(r[1])
=============================================================================
