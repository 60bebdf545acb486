----------------------------- MODULE TenantCache -----------------------------
(***************************************************************************)
(* How the public portal finds its workspace: resolvePublicTenant.js reads *)
(* the row of a subdomain through a cache with a TTL (cache.js), one in    *)
(* each worker, and updateTenant.js drops the keys it touched in the       *)
(* worker that handles it.  Other writes (a plan change, a suspension, a   *)
(* deletion) tell no cache.                                                *)
(*                                                                         *)
(* Time passes in ticks; an entry keeps the ticks it has left.  It         *)
(* implements PortalReads with a staleness of TTL + QueryTime: what a      *)
(* query returns is up to QueryTime old when it is put in the cache.       *)
(***************************************************************************)
EXTENDS Integers, FiniteSets

CONSTANTS
  Tenants, NoTenant,   \* workspaces
  Subdomains,
  NoSubdomain,     \* of a workspace that is not there
  NotFound, NoAnswer,
  Workers, NoWorker,   \* processes, each with its cache
  PortalProcs,     \* requests that can be at work at once
  Ttl,             \* TTL.TENANT
  QueryTime,       \* bound: ticks a query may take
  MaxEntries,      \* MAX_ENTRIES
  MaxTenantOps     \* bound: writes

ASSUME PortalConstants ==
  /\ NoSubdomain \notin Subdomains /\ NoTenant \notin Tenants /\ NoWorker \notin Workers
  /\ NotFound # NoAnswer
  /\ Ttl \in Nat \ {0} /\ QueryTime \in Nat /\ MaxEntries \in Nat \ {0}
  /\ MaxTenantOps \in Nat

VARIABLES
  tenants,         \* rows [sub, look, active]; look: name, branding, plan
  store,           \* store[w][k]: entry of subdomain k in the cache of worker w
  qpc, qloc,       \* each request's step and what it holds
  tenantOps,       \* writes begun
  answer,          \* the answer just given
  \* history
  recent,          \* recent[k][a]: what k resolved to, a ticks ago
  behind,          \* behind[w]: subdomains worker w may show as they were
  owes             \* owes[q]: subdomains update q has to show as they are, none if
                   \* another write renamed or deleted its workspace meanwhile

portalVars == <<tenants, store, qpc, qloc, tenantOps, answer, recent, behind, owes>>

Looks == BOOLEAN
Found == [tenant : Tenants, look : Looks]
Results == Found \cup {NotFound}
Empty == [value |-> NotFound, left |-> 0]

\* SELECT ... WHERE is_active = 1 AND subdomain = ?, of the rows ts.
Lookup(ts, k) ==
  IF \E t \in Tenants : ts[t].sub = k /\ ts[t].active
  THEN LET t == CHOOSE u \in Tenants : ts[u].sub = k
       IN  [tenant |-> t, look |-> ts[t].look]
  ELSE NotFound

NoQuery == [worker |-> NoWorker, key |-> NoSubdomain, value |-> NotFound,
            age |-> 0, tenant |-> NoTenant, rename |-> NoSubdomain,
            touched |-> {}]

PortalTypeOK ==
  /\ tenants \in [Tenants -> [sub : Subdomains \cup {NoSubdomain}, look : Looks,
                              active : BOOLEAN]]
  /\ store \in [Workers -> [Subdomains -> [value : Results, left : 0..Ttl]]]
  /\ \A w \in Workers : Cardinality({k \in Subdomains : store[w][k].value # NotFound})
                        <= MaxEntries
  /\ qpc \in [PortalProcs -> {"idle", "load", "fill", "update", "own_sub", "drop"}]
  /\ qloc \in [PortalProcs ->
       [worker : Workers \cup {NoWorker}, key : Subdomains \cup {NoSubdomain}, value : Results,
        age : 0..QueryTime, tenant : Tenants \cup {NoTenant}, rename : Subdomains \cup {NoSubdomain},
        touched : SUBSET Subdomains]]
  /\ behind \in [Workers -> SUBSET Subdomains]
  /\ owes \in [PortalProcs -> SUBSET Subdomains]

PortalInit ==
  /\ tenants \in [Tenants -> [sub : Subdomains \cup {NoSubdomain}, look : {FALSE}, active : {TRUE}]]
  /\ \A t, u \in Tenants : t # u /\ tenants[t].sub = tenants[u].sub => tenants[t].sub = NoSubdomain
  /\ store = [w \in Workers |-> [k \in Subdomains |-> Empty]]
  /\ qpc = [q \in PortalProcs |-> "idle"] /\ qloc = [q \in PortalProcs |-> NoQuery]
  /\ tenantOps = 0 /\ answer = NoAnswer
  /\ recent = [k \in Subdomains |-> [a \in 0..(Ttl + QueryTime) |-> {Lookup(tenants, k)}]]
  /\ behind = [w \in Workers |-> {}] /\ owes = [q \in PortalProcs |-> {}]

-----------------------------------------------------------------------------
PortalStep(q, step, l) ==
  /\ qpc' = [qpc EXCEPT ![q] = step] /\ qloc' = [qloc EXCEPT ![q] = l]

Return(q) == PortalStep(q, "idle", NoQuery)
Say(k, v) == answer' = <<k, v>>
Quiet     == answer' = NoAnswer

\* Every row change is remembered, and leaves every cache behind.
Rewrite(rows) ==
  /\ tenants' = rows
  /\ recent' = [k \in Subdomains |-> [recent[k] EXCEPT ![0] = @ \cup {Lookup(rows, k)}]]
  /\ behind' = [w \in Workers |->
                  behind[w] \cup {k \in Subdomains : Lookup(rows, k) # Lookup(tenants, k)}]

\* Updates about a workspace that these rows rename or delete owe nothing, but for their
\* own.
Overtaken(rows, own) ==
  [r \in PortalProcs |->
     IF r \notin own /\ \E t \in Tenants : t = qloc[r].tenant /\ rows[t].sub # tenants[t].sub
     THEN {} ELSE owes[r]]

-----------------------------------------------------------------------------
(* Reading: resolvePublicTenant and cache.wrap.                             *)

\* Mutant: an entry is served although its time is up.
MutGet(w, k) == store[w][k].value

Get(w, k) == IF store[w][k].left > 0 THEN store[w][k].value ELSE NotFound

\* A hit is answered at once, a miss runs the loader; an entry found expired is dropped.
ResolvePublicTenant(q) ==
  \E w \in Workers, k \in Subdomains :
    /\ qpc[q] = "idle"
    /\ IF Get(w, k) # NotFound
       THEN Say(k, Get(w, k)) /\ UNCHANGED <<qpc, qloc, store>>
       ELSE /\ PortalStep(q, "load", [NoQuery EXCEPT !.worker = w, !.key = k]) /\ Quiet
            /\ store' = [store EXCEPT ![w][k] = Empty]
    /\ UNCHANGED <<tenants, tenantOps, recent, behind, owes>>

Load(q) ==
  /\ qpc[q] = "load"
  /\ PortalStep(q, "fill", [qloc[q] EXCEPT !.value = Lookup(tenants, qloc[q].key)])
  /\ Quiet /\ UNCHANGED <<tenants, store, tenantOps, recent, behind, owes>>

\* cache.set: a full store drops the entry written longest ago to make room.
Put(s, k, v) ==
  LET held   == {j \in Subdomains : s[j].value # NotFound}
      oldest == {j \in held : \A i \in held : s[j].left <= s[i].left}
      new    == [value |-> v, left |-> Ttl] IN
  IF k \in held \/ Cardinality(held) < MaxEntries THEN {[s EXCEPT ![k] = new]}
  ELSE {[s EXCEPT ![k] = new, ![j] = Empty] : j \in oldest}

\* "Not found" is answered and not cached.
Fill(q) ==
  LET l == qloc[q] IN
  /\ qpc[q] = "fill"
  /\ IF l.value = NotFound THEN UNCHANGED store
     ELSE \E s \in Put(store[l.worker], l.key, l.value) :
            store' = [store EXCEPT ![l.worker] = s]
  /\ Say(l.key, l.value) /\ Return(q)
  /\ UNCHANGED <<tenants, tenantOps, recent, behind, owes>>

-----------------------------------------------------------------------------
(* Writing.                                                                 *)

\* Mutant: the subdomain the workspace leaves is not among the touched.
MutUpdateTenant(q) ==
  \E w \in Workers, t \in Tenants, sub \in Subdomains \cup {NoSubdomain} :
    /\ qpc[q] = "idle" /\ tenantOps < MaxTenantOps /\ tenantOps' = tenantOps + 1
    /\ tenants[t].sub # NoSubdomain
    /\ \A u \in Tenants \ {t} : tenants[u].sub = sub => sub = NoSubdomain
    /\ PortalStep(q, "update",
         [NoQuery EXCEPT !.worker = w, !.tenant = t,
            !.rename = IF sub = tenants[t].sub THEN NoSubdomain ELSE sub,
            !.touched = {sub} \ {NoSubdomain}])
    /\ owes' = [owes EXCEPT ![q] = {tenants[t].sub}]
    /\ Quiet /\ UNCHANGED <<tenants, store, recent, behind>>

\* updateTenant: without a subdomain nothing is read first; with one, the current one is,
\* and then it is written only if it differs, unless it is taken.
UpdateTenant(q) ==
  \E w \in Workers, t \in Tenants, sub \in Subdomains \cup {NoSubdomain} :
    /\ qpc[q] = "idle" /\ tenantOps < MaxTenantOps /\ tenantOps' = tenantOps + 1
    /\ tenants[t].sub # NoSubdomain
    /\ \A u \in Tenants \ {t} : tenants[u].sub = sub => sub = NoSubdomain
    /\ PortalStep(q, "update",
         [NoQuery EXCEPT !.worker = w, !.tenant = t,
            !.rename = IF sub = tenants[t].sub THEN NoSubdomain ELSE sub,
            !.touched = IF sub = NoSubdomain THEN {} ELSE {tenants[t].sub, sub}])
    /\ owes' = [owes EXCEPT ![q] = {tenants[t].sub}]
    /\ Quiet /\ UNCHANGED <<tenants, store, recent, behind>>

\* The UPDATE.  A subdomain taken meanwhile fails it (UNIQUE), and a workspace deleted
\* meanwhile is not there to be changed.
Updated(l, look, active) ==
  [tenants EXCEPT ![l.tenant] =
     [@ EXCEPT !.look = look, !.active = active,
               !.sub = IF l.rename = NoSubdomain THEN tenants[l.tenant].sub ELSE l.rename]]

WriteTenant(q) ==
  LET l == qloc[q] IN
  /\ qpc[q] = "update"
  /\ IF \E u \in Tenants \ {l.tenant} : l.rename # NoSubdomain /\ tenants[u].sub = l.rename
     THEN /\ Return(q) /\ owes' = [owes EXCEPT ![q] = {}]
          /\ UNCHANGED <<tenants, recent, behind>>
     ELSE /\ PortalStep(q, IF l.touched = {} THEN "own_sub" ELSE "drop", l)
          /\ \E look \in Looks, active \in BOOLEAN :
               LET rows == Updated(l, look, active) IN
               IF tenants[l.tenant].sub = NoSubdomain
               THEN UNCHANGED <<tenants, recent, behind, owes>>
               ELSE /\ Rewrite(rows)
                    /\ owes' = [Overtaken(rows, {q}) EXCEPT ![q] =
                                  IF @ = {} THEN {} ELSE @ \cup {rows[l.tenant].sub}]
  /\ Quiet /\ UNCHANGED <<store, tenantOps>>

OwnSubdomain(q) ==
  /\ qpc[q] = "own_sub"
  /\ PortalStep(q, "drop",
       [qloc[q] EXCEPT !.touched = {tenants[qloc[q].tenant].sub} \cap Subdomains])
  /\ Quiet /\ UNCHANGED <<tenants, store, tenantOps, recent, behind, owes>>

\* Loads of worker w that had their answer from the database when its keys were dropped.
Underway(w, k) == \E r \in PortalProcs : qpc[r] = "fill" /\ qloc[r].worker = w /\ qloc[r].key = k

\* invalidateTenantCache, in this worker; a load under way puts the old row back.
InvalidateTenantCache(q) ==
  LET w == qloc[q].worker
      S == qloc[q].touched IN
  /\ qpc[q] = "drop"
  /\ store' = [store EXCEPT ![w] = [k \in Subdomains |-> IF k \in S THEN Empty ELSE @[k]]]
  /\ behind' = [behind EXCEPT ![w] = {k \in @ : k \notin owes[q] \/ Underway(w, k)}]
  /\ owes' = [owes EXCEPT ![q] = {}]
  /\ Return(q) /\ Quiet /\ UNCHANGED <<tenants, tenantOps, recent>>

\* A query fails: the cache keeps what it had, and a row already written stays written.
PortalFail(q) ==
  /\ qpc[q] \in {"load", "update", "own_sub"}
  /\ owes' = [owes EXCEPT ![q] = {}]
  /\ Return(q) /\ Quiet /\ UNCHANGED <<tenants, store, tenantOps, recent, behind>>

\* createTenant and createWorkspace; a plan change; suspension and its end; deletion: no
\* cache is told of any of them, nor of a rename that another worker's updateTenant made.
ChangeElsewhere ==
  /\ tenantOps < MaxTenantOps /\ tenantOps' = tenantOps + 1
  /\ \E t \in Tenants :
       \/ \E k \in Subdomains \ {tenants[u].sub : u \in Tenants} :
            Rewrite([tenants EXCEPT ![t].sub = k])
       \/ /\ tenants[t].sub # NoSubdomain
          /\ \/ Rewrite([tenants EXCEPT ![t].look = ~@])
             \/ Rewrite([tenants EXCEPT ![t].active = ~@])
             \/ Rewrite([tenants EXCEPT ![t].sub = NoSubdomain])
  /\ owes' = Overtaken(tenants', {})
  /\ Quiet /\ UNCHANGED <<store, qpc, qloc>>

\* Time passes, for entries and for queries under way.
TimePasses ==
  /\ \A q \in PortalProcs : qpc[q] = "fill" => qloc[q].age < QueryTime
  /\ qloc' = [q \in PortalProcs |->
                IF qpc[q] = "fill" THEN [qloc[q] EXCEPT !.age = @ + 1] ELSE qloc[q]]
  /\ store' = [w \in Workers |-> [k \in Subdomains |->
                 [store[w][k] EXCEPT !.left = IF @ > 0 THEN @ - 1 ELSE 0]]]
  /\ recent' = [k \in Subdomains |-> [a \in 0..(Ttl + QueryTime) |->
                  IF a = 0 THEN {Lookup(tenants, k)} ELSE recent[k][a - 1]]]
  /\ Quiet /\ UNCHANGED <<tenants, qpc, tenantOps, behind, owes>>

PortalNext ==
  \/ \E q \in PortalProcs :
       \/ ResolvePublicTenant(q) \/ Load(q) \/ Fill(q)
       \/ UpdateTenant(q) \/ WriteTenant(q) \/ OwnSubdomain(q)
       \/ InvalidateTenantCache(q) \/ PortalFail(q)
  \/ ChangeElsewhere \/ TimePasses

PortalSpec == PortalInit /\ [][PortalNext]_portalVars

-----------------------------------------------------------------------------
(* Properties.                                                              *)

Reads == INSTANCE PortalReads WITH
  Keys <- Subdomains, Values <- Results, Staleness <- Ttl + QueryTime,
  value <- [k \in Subdomains |-> Lookup(tenants, k)]

\* The cache keeps its promise: whatever is written where, evicted, dropped or loaded at
\* the same time, no worker answers with a row older than the TTL and one query.
BoundedStaleness == Reads!ReadSpec

\* "Must show on the public portal immediately" (updateTenant.js), in the worker that
\* handled the update: under the subdomain the workspace had when it began, and under the
\* one it has once it is written, what the worker has cached is the row as it is.  Excepted
\* are later writes it was not told of, an update during which another renamed or deleted
\* the workspace, and a load that had read the old row when the key was dropped.
ShownAtOnce ==
  \A w \in Workers : \A k \in Subdomains \ behind[w] :
    store[w][k].value \in {NotFound, Lookup(tenants, k)}
=============================================================================
