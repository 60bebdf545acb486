---------------------------- MODULE ConsoleProofs ---------------------------
(***************************************************************************)
(* What is proved of the parts MCConsole runs side by side, each from its  *)
(* own specification: the cache of the portal, the administrators, the     *)
(* support tickets, the offers and the promo codes, for any number of      *)
(* requests, workers, accounts, workspaces, rows and seconds.              *)
(***************************************************************************)
EXTENDS Promo, Offers, TenantCache, Admins, Support, FiniteSetTheorems, TLAPS

-----------------------------------------------------------------------------
(***************************************************************************)
(* The cache of the public portal (TenantCache) implements PortalReads: no *)
(* answer of any worker is older than the TTL and the time of one query.   *)
(* It never holds more entries than it may, and a worker that handled an   *)
(* update shows it at once.                                                *)
(***************************************************************************)

Row   == [sub : Subdomains \cup {NoSubdomain}, look : Looks, active : BOOLEAN]
Entry == [value : Results, left : 0..Ttl]
Query == [worker : Workers \cup {NoWorker}, key : Subdomains \cup {NoSubdomain},
          value : Results, age : 0..QueryTime, tenant : Tenants \cup {NoTenant},
          rename : Subdomains \cup {NoSubdomain}, touched : SUBSET Subdomains]
QuerySteps == {"idle", "load", "fill", "update", "own_sub", "drop"}
Span == 0..(Ttl + QueryTime)

TcTypes ==
  /\ tenants \in [Tenants -> Row]
  /\ store \in [Workers -> [Subdomains -> Entry]]
  /\ qpc \in [PortalProcs -> QuerySteps]
  /\ qloc \in [PortalProcs -> Query]

\* What the local data of a request at a step name.
Names(step, l) ==
  /\ step # "idle" => l.worker \in Workers
  /\ step \in {"load", "fill"} => l.key \in Subdomains
  /\ step = "load" => l.age = 0
  /\ step \in {"update", "own_sub", "drop"} => l.tenant \in Tenants

TcNames == \A q \in PortalProcs : Names(qpc[q], qloc[q])

\* What a subdomain resolves to is among what it resolved to in this tick.
TcRecent ==
  /\ recent \in [Subdomains -> [Span -> SUBSET Results]]
  /\ \A k \in Subdomains : Lookup(tenants, k) \in recent[k][0]

\* What a load holds was so when its query ran.
TcLoads ==
  \A q \in PortalProcs : qpc[q] = "fill" => qloc[q].value \in recent[qloc[q].key][qloc[q].age]

\* What an entry holds was so at most one query before it was stored.
Dated(e, k) == \E a \in 0..(Ttl - e.left + QueryTime) : e.value \in recent[k][a]
TcEntries ==
  \A w \in Workers : \A k \in Subdomains : store[w][k].left > 0 => Dated(store[w][k], k)

TcInv == TcTypes /\ TcNames /\ TcRecent /\ TcLoads /\ TcEntries

-----------------------------------------------------------------------------
\* The bounds are natural numbers.
LEMMA BoundFacts ==
  /\ Ttl \in Nat \ {0} /\ QueryTime \in Nat
  /\ 0 \in Span /\ 0..QueryTime \subseteq Span
  /\ \A left \in 0..Ttl : 0..(Ttl - left + QueryTime) \subseteq Span
BY PortalConstants DEF Span

\* A subdomain resolves to a workspace's row, or to none.
LEMMA LookupType ==
  ASSUME NEW ts \in [Tenants -> Row], NEW k \in Subdomains
  PROVE  Lookup(ts, k) \in Results
<1>1. CASE \E t \in Tenants : ts[t].sub = k /\ ts[t].active
  <2> DEFINE u == CHOOSE v \in Tenants : ts[v].sub = k
  <2>1. u \in Tenants
    BY <1>1
  <2>2. ts[u].look \in Looks
    BY <2>1 DEF Row
  <2>3. Lookup(ts, k) = [tenant |-> u, look |-> ts[u].look]
    BY <1>1 DEF Lookup
  <2> QED BY <2>1, <2>2, <2>3 DEF Results, Found
<1>2. CASE ~ \E t \in Tenants : ts[t].sub = k /\ ts[t].active
  BY <1>2 DEF Lookup, Results
<1> QED BY <1>1, <1>2

\* The data of a request that is not at work.
LEMMA NoQueryType == NoQuery \in Query /\ Names("idle", NoQuery)
BY BoundFacts DEF NoQuery, Query, Names, Results

-----------------------------------------------------------------------------
\* Nothing that was so is forgotten within a tick.
Grows == \A k \in Subdomains : \A a \in Span : recent[k][a] \subseteq recent'[k][a]

\* A write of the rows.
LEMMA RewriteKeeps ==
  ASSUME TcInv, NEW rows \in [Tenants -> Row], Rewrite(rows)
  PROVE  tenants' \in [Tenants -> Row] /\ TcRecent' /\ Grows
<1>1. tenants' = rows
      /\ recent' = [k \in Subdomains |-> [recent[k] EXCEPT ![0] = @ \cup {Lookup(rows, k)}]]
  BY DEF Rewrite
<1>2. \A k \in Subdomains : recent[k] \in [Span -> SUBSET Results] /\ Lookup(rows, k) \in Results
  BY LookupType DEF TcInv, TcRecent
<1>3. \A k \in Subdomains : recent'[k] = [recent[k] EXCEPT ![0] = @ \cup {Lookup(rows, k)}]
  BY <1>1
<1>4. ASSUME NEW k \in Subdomains
      PROVE  /\ recent'[k] \in [Span -> SUBSET Results]
             /\ \A a \in Span : recent[k][a] \subseteq recent'[k][a]
  <2>1. /\ recent[k] \in [Span -> SUBSET Results] /\ Lookup(rows, k) \in Results
        /\ recent'[k] = [recent[k] EXCEPT ![0] = recent[k][0] \cup {Lookup(rows, k)}]
    BY <1>2, <1>3
  <2>2. recent[k][0] \cup {Lookup(rows, k)} \in SUBSET Results
    BY <2>1, BoundFacts
  <2>3. recent'[k][0] = recent[k][0] \cup {Lookup(rows, k)}
        /\ \A a \in Span \ {0} : recent'[k][a] = recent[k][a]
    BY <2>1, BoundFacts
  <2> QED BY <2>1, <2>2, <2>3
<1>5. \A k \in Subdomains : Lookup(tenants', k) \in recent'[k][0]
  BY <1>1, <1>2, <1>3, BoundFacts
<1>6. Grows
  BY <1>4 DEF Grows
<1>7. TcRecent'
  <2>1. recent' \in [Subdomains -> [Span -> SUBSET Results]]
    BY <1>1, <1>3, <1>4
  <2> QED BY <1>5, <2>1 DEF TcRecent, Lookup
<1> QED BY <1>1, <1>6, <1>7

\* A step that writes no row.
LEMMA QuietGrows ==
  ASSUME TcInv, UNCHANGED <<tenants, recent>>
  PROVE  tenants' \in [Tenants -> Row] /\ TcRecent' /\ Grows
BY DEF TcInv, TcTypes, TcRecent, Grows, Lookup

\* A request goes to another step; a load that has its answer has it from the rows as they
\* are, or were when its query ran.
LEMMA StepKeeps ==
  ASSUME TcInv, Grows, NEW q \in PortalProcs, NEW step \in QuerySteps, NEW l \in Query,
         PortalStep(q, step, l), Names(step, l),
         step = "fill" => l.value \in recent'[l.key][l.age]
  PROVE  /\ qpc' \in [PortalProcs -> QuerySteps] /\ qloc' \in [PortalProcs -> Query]
         /\ TcNames' /\ TcLoads'
<1>1. /\ qpc \in [PortalProcs -> QuerySteps] /\ qloc \in [PortalProcs -> Query]
      /\ qpc' = [qpc EXCEPT ![q] = step] /\ qloc' = [qloc EXCEPT ![q] = l]
  BY DEF TcInv, TcTypes, PortalStep
<1>2. /\ qpc'[q] = step /\ qloc'[q] = l
      /\ \A r \in PortalProcs \ {q} : qpc'[r] = qpc[r] /\ qloc'[r] = qloc[r]
  BY <1>1
<1>3. TcNames'
  BY <1>2 DEF TcInv, TcNames, Names
<1>4. TcLoads'
  <2>1. ASSUME NEW r \in PortalProcs \ {q}, qpc[r] = "fill"
        PROVE  qloc[r].value \in recent'[qloc[r].key][qloc[r].age]
    <3>1. qloc[r].key \in Subdomains /\ qloc[r].age \in 0..QueryTime
      BY <2>1, <1>1 DEF TcInv, TcNames, Names, Query
    <3>2. qloc[r].value \in recent[qloc[r].key][qloc[r].age]
      BY <2>1 DEF TcInv, TcLoads
    <3> QED BY <3>1, <3>2, BoundFacts DEF Grows
  <2> QED BY <1>2, <2>1 DEF TcLoads
<1> QED BY <1>1, <1>3, <1>4

\* A step of none of the requests.
LEMMA RestKeeps ==
  ASSUME TcInv, Grows, UNCHANGED <<qpc, qloc>>
  PROVE  /\ qpc' \in [PortalProcs -> QuerySteps] /\ qloc' \in [PortalProcs -> Query]
         /\ TcNames' /\ TcLoads'
<1>1. TcNames'
  BY DEF TcInv, TcNames, Names
<1>2. TcLoads'
  <2>1. ASSUME NEW r \in PortalProcs, qpc[r] = "fill"
        PROVE  qloc[r].value \in recent'[qloc[r].key][qloc[r].age]
    <3>1. qloc[r].key \in Subdomains /\ qloc[r].age \in 0..QueryTime
      BY <2>1 DEF TcInv, TcTypes, TcNames, Names, Query
    <3>2. qloc[r].value \in recent[qloc[r].key][qloc[r].age]
      BY <2>1 DEF TcInv, TcLoads
    <3> QED BY <3>1, <3>2, BoundFacts DEF Grows
  <2> QED BY <2>1 DEF TcLoads
<1> QED BY <1>1, <1>2 DEF TcInv, TcTypes

\* Entries that are dropped or left alone, and those just stored.
LEMMA StoreKeeps ==
  ASSUME TcInv, Grows, store' \in [Workers -> [Subdomains -> Entry]],
         \A w \in Workers : \A k \in Subdomains :
           \/ store'[w][k].left = 0 \/ store'[w][k] = store[w][k]
           \/ store'[w][k].left = Ttl
              /\ \E a \in 0..QueryTime : store'[w][k].value \in recent'[k][a]
  PROVE  TcEntries'
<1> SUFFICES ASSUME NEW w \in Workers, NEW k \in Subdomains, store'[w][k].left > 0
             PROVE  \E a \in 0..(Ttl - store'[w][k].left + QueryTime) :
                       store'[w][k].value \in recent'[k][a]
  BY DEF TcEntries, Dated
<1>1. CASE store'[w][k] = store[w][k]
  <2>1. PICK a \in 0..(Ttl - store[w][k].left + QueryTime) : store[w][k].value \in recent[k][a]
    BY <1>1 DEF TcInv, TcEntries, Dated
  <2>2. store[w][k].left \in 0..Ttl
    BY DEF TcInv, TcTypes, Entry
  <2>3. a \in Span
    BY <2>1, <2>2, BoundFacts
  <2> QED BY <1>1, <2>1, <2>3 DEF Grows
<1>2. CASE /\ store'[w][k].left = Ttl
           /\ \E a \in 0..QueryTime : store'[w][k].value \in recent'[k][a]
  <2>1. Ttl - Ttl + QueryTime = QueryTime
    BY BoundFacts
  <2> QED BY <1>2, <2>1
<1> QED BY <1>1, <1>2

\* cache.set stores one entry and drops at most one.
LEMMA PutType ==
  ASSUME NEW s \in [Subdomains -> Entry], NEW k \in Subdomains, NEW v \in Results,
         NEW e \in Put(s, k, v)
  PROVE  /\ e \in [Subdomains -> Entry]
         /\ \A j \in Subdomains :
              e[j] = s[j] \/ e[j].left = 0 \/ (j = k /\ e[j] = [value |-> v, left |-> Ttl])
<1> DEFINE new == [value |-> v, left |-> Ttl]
<1>1. new \in Entry /\ Empty \in Entry /\ Empty.left = 0
  BY BoundFacts DEF Entry, Empty, Results
<1>2. e = [s EXCEPT ![k] = new]
      \/ \E j \in Subdomains : e = [s EXCEPT ![k] = new, ![j] = Empty]
  BY DEF Put
<1>3. CASE e = [s EXCEPT ![k] = new]
  BY <1>1, <1>3
<1>4. ASSUME NEW j \in Subdomains, e = [s EXCEPT ![k] = new, ![j] = Empty]
      PROVE  /\ e \in [Subdomains -> Entry]
             /\ \A i \in Subdomains : e[i] = s[i] \/ e[i].left = 0 \/ (i = k /\ e[i] = new)
  BY <1>1, <1>4
<1> QED BY <1>2, <1>3, <1>4

-----------------------------------------------------------------------------
\* A hit says what the entry holds, a miss drops what is expired and asks the database.
LEMMA ResolveKeeps ==
  ASSUME TcInv, NEW q \in PortalProcs, ResolvePublicTenant(q)
  PROVE  TcInv'
<1>1. PICK w \in Workers, k \in Subdomains :
        \/ UNCHANGED <<qpc, qloc, store>>
        \/ /\ PortalStep(q, "load", [NoQuery EXCEPT !.worker = w, !.key = k])
           /\ store' = [store EXCEPT ![w][k] = Empty]
  BY DEF ResolvePublicTenant
<1>2. tenants' \in [Tenants -> Row] /\ TcRecent' /\ Grows
  BY QuietGrows DEF ResolvePublicTenant
<1>3. CASE UNCHANGED <<qpc, qloc, store>>
  <2>1. TcEntries'
    BY <1>2, <1>3, StoreKeeps DEF TcInv, TcTypes
  <2>2. /\ qpc' \in [PortalProcs -> QuerySteps] /\ qloc' \in [PortalProcs -> Query]
        /\ TcNames' /\ TcLoads'
    BY <1>2, <1>3, RestKeeps
  <2> QED BY <1>2, <1>3, <2>1, <2>2 DEF TcInv, TcTypes
<1>4. CASE /\ PortalStep(q, "load", [NoQuery EXCEPT !.worker = w, !.key = k])
           /\ store' = [store EXCEPT ![w][k] = Empty]
  <2> DEFINE l == [NoQuery EXCEPT !.worker = w, !.key = k]
  <2>1. l \in Query /\ Names("load", l) /\ "load" \in QuerySteps
    BY NoQueryType DEF Query, Names, QuerySteps, NoQuery
  <2>2. /\ qpc' \in [PortalProcs -> QuerySteps] /\ qloc' \in [PortalProcs -> Query]
        /\ TcNames' /\ TcLoads'
    BY <1>2, <1>4, <2>1, StepKeeps
  <2>3. store \in [Workers -> [Subdomains -> Entry]] /\ Empty \in Entry /\ Empty.left = 0
    BY BoundFacts DEF TcInv, TcTypes, Entry, Empty, Results
  <2>4. store' \in [Workers -> [Subdomains -> Entry]]
    BY <1>4, <2>3
  <2>5. \A v \in Workers : \A j \in Subdomains : store'[v][j].left = 0 \/ store'[v][j] = store[v][j]
    BY <1>4, <2>3
  <2>6. TcEntries'
    BY <1>2, <2>4, <2>5, StoreKeeps
  <2> QED BY <1>2, <2>2, <2>4, <2>6 DEF TcInv, TcTypes
<1> QED BY <1>1, <1>3, <1>4

\* The query of a miss.
LEMMA LoadKeeps ==
  ASSUME TcInv, NEW q \in PortalProcs, Load(q)
  PROVE  TcInv'
<1> DEFINE l == [qloc[q] EXCEPT !.value = Lookup(tenants, qloc[q].key)]
<1>1. PortalStep(q, "fill", l) /\ UNCHANGED <<tenants, store, recent>> /\ qpc[q] = "load"
  BY DEF Load
<1>2. tenants' \in [Tenants -> Row] /\ TcRecent' /\ Grows
  BY <1>1, QuietGrows
<1>3. qloc[q] \in Query /\ Names("load", qloc[q]) /\ tenants \in [Tenants -> Row]
  BY <1>1 DEF TcInv, TcTypes, TcNames
<1>4. Lookup(tenants, qloc[q].key) \in Results
  BY <1>3, LookupType DEF Names
<1>5. l \in Query /\ Names("fill", l) /\ "fill" \in QuerySteps
  BY <1>3, <1>4 DEF Query, Names, QuerySteps
<1>6. l.value \in recent'[l.key][l.age]
  <2>1. l.key \in Subdomains /\ l.value = Lookup(tenants, l.key) /\ l.age \in 0..QueryTime
    BY <1>3, <1>4 DEF Query, Names
  <2>2. l.age = 0
    BY <1>3 DEF Query, Names
  <2> QED BY <1>1, <2>1, <2>2 DEF TcInv, TcRecent
<1>7. /\ qpc' \in [PortalProcs -> QuerySteps] /\ qloc' \in [PortalProcs -> Query]
      /\ TcNames' /\ TcLoads'
  BY <1>1, <1>2, <1>5, <1>6, StepKeeps
<1>8. TcEntries'
  BY <1>1, <1>2, StoreKeeps DEF TcInv, TcTypes
<1> QED BY <1>1, <1>2, <1>7, <1>8 DEF TcInv, TcTypes

\* What the query returned is stored, as old as the query.
LEMMA FillKeeps ==
  ASSUME TcInv, NEW q \in PortalProcs, Fill(q)
  PROVE  TcInv'
<1> DEFINE l == qloc[q]
<1>1. /\ qpc[q] = "fill" /\ PortalStep(q, "idle", NoQuery) /\ UNCHANGED <<tenants, recent>>
      /\ \/ UNCHANGED store
         \/ \E e \in Put(store[l.worker], l.key, l.value) :
              store' = [store EXCEPT ![l.worker] = e]
  BY DEF Fill, Return
<1>2. tenants' \in [Tenants -> Row] /\ TcRecent' /\ Grows
  BY <1>1, QuietGrows
<1>3. /\ l \in Query /\ l.worker \in Workers /\ l.key \in Subdomains
      /\ l.value \in recent[l.key][l.age]
  BY <1>1 DEF TcInv, TcTypes, TcNames, TcLoads, Names
<1>4. l.value \in Results /\ l.age \in 0..QueryTime
  BY <1>3 DEF Query
<1>5. store \in [Workers -> [Subdomains -> Entry]]
  BY DEF TcInv, TcTypes
<1>6. store' \in [Workers -> [Subdomains -> Entry]] /\ TcEntries'
  <2>1. CASE UNCHANGED store
    BY <1>2, <1>5, <2>1, StoreKeeps
  <2>2. ASSUME NEW e \in Put(store[l.worker], l.key, l.value),
               store' = [store EXCEPT ![l.worker] = e]
        PROVE  store' \in [Workers -> [Subdomains -> Entry]] /\ TcEntries'
    <3>1. store[l.worker] \in [Subdomains -> Entry]
      BY <1>3, <1>5
    <3>2. /\ e \in [Subdomains -> Entry]
          /\ \A j \in Subdomains : \/ e[j] = store[l.worker][j] \/ e[j].left = 0
                                   \/ j = l.key /\ e[j] = [value |-> l.value, left |-> Ttl]
      BY <1>3, <1>4, <3>1, PutType
    <3>3. store' \in [Workers -> [Subdomains -> Entry]]
      BY <1>5, <2>2, <3>2
    <3>4. \A w \in Workers : store'[w] = IF w = l.worker THEN e ELSE store[w]
      BY <1>5, <2>2
    <3>5. l.value \in recent'[l.key][l.age]
      BY <1>1, <1>3
    <3>6. ASSUME NEW w \in Workers, NEW k \in Subdomains
          PROVE  \/ store'[w][k].left = 0 \/ store'[w][k] = store[w][k]
                 \/ store'[w][k].left = Ttl
                    /\ \E a \in 0..QueryTime : store'[w][k].value \in recent'[k][a]
      <4>1. CASE w # l.worker
        BY <3>4, <4>1
      <4>2. CASE w = l.worker
        <5>1. store'[w][k] = e[k]
          BY <3>4, <4>2
        <5>2. CASE k = l.key /\ e[k] = [value |-> l.value, left |-> Ttl]
          <6>1. store'[w][k].left = Ttl /\ store'[w][k].value = l.value
            BY <5>1, <5>2
          <6> QED BY <1>4, <3>5, <5>2, <6>1
        <5> QED BY <3>2, <4>2, <5>1, <5>2
      <4> QED BY <4>1, <4>2
    <3> QED BY <1>2, <3>3, <3>6, StoreKeeps
  <2> QED BY <1>1, <2>1, <2>2
<1>7. /\ qpc' \in [PortalProcs -> QuerySteps] /\ qloc' \in [PortalProcs -> Query]
      /\ TcNames' /\ TcLoads'
  BY <1>1, <1>2, NoQueryType, StepKeeps DEF QuerySteps
<1> QED BY <1>2, <1>6, <1>7 DEF TcInv, TcTypes

\* A step of a request that stores nothing and has no load at work.
LEMMA MoveKeeps ==
  ASSUME TcInv, tenants' \in [Tenants -> Row], TcRecent', Grows, UNCHANGED store,
         NEW q \in PortalProcs, NEW step \in QuerySteps \ {"fill"}, NEW l \in Query,
         PortalStep(q, step, l), Names(step, l)
  PROVE  TcInv'
<1>1. /\ qpc' \in [PortalProcs -> QuerySteps] /\ qloc' \in [PortalProcs -> Query]
      /\ TcNames' /\ TcLoads'
  BY StepKeeps
<1>2. TcEntries'
  BY StoreKeeps DEF TcInv, TcTypes
<1> QED BY <1>1, <1>2 DEF TcInv, TcTypes

\* updateTenant begins.
LEMMA UpdateKeeps ==
  ASSUME TcInv, NEW q \in PortalProcs, UpdateTenant(q)
  PROVE  TcInv'
<1>1. PICK w \in Workers, t \in Tenants, sub \in Subdomains \cup {NoSubdomain} :
        /\ tenants[t].sub # NoSubdomain
        /\ PortalStep(q, "update",
             [NoQuery EXCEPT !.worker = w, !.tenant = t,
                !.rename = IF sub = tenants[t].sub THEN NoSubdomain ELSE sub,
                !.touched = IF sub = NoSubdomain THEN {} ELSE {tenants[t].sub, sub}])
        /\ UNCHANGED <<tenants, store, recent>>
  BY DEF UpdateTenant
<1> DEFINE rename  == IF sub = tenants[t].sub THEN NoSubdomain ELSE sub
           touched == IF sub = NoSubdomain THEN {} ELSE {tenants[t].sub, sub}
           l == [NoQuery EXCEPT !.worker = w, !.tenant = t, !.rename = rename,
                                !.touched = touched]
<1>2. tenants[t].sub \in Subdomains
  BY <1>1 DEF TcInv, TcTypes, Row
<1>3. rename \in Subdomains \cup {NoSubdomain} /\ touched \in SUBSET Subdomains
  BY <1>2
<1>4. l \in Query /\ Names("update", l)
  <2> HIDE DEF rename, touched
  <2> QED BY <1>3, NoQueryType DEF Query, Names
<1>5. tenants' \in [Tenants -> Row] /\ TcRecent' /\ Grows
  BY <1>1, QuietGrows
<1> QED BY <1>1, <1>4, <1>5, MoveKeeps DEF QuerySteps

\* What an UPDATE makes of the rows: the others keep their subdomains.
LEMMA UpdatedType ==
  ASSUME tenants \in [Tenants -> Row], NEW l \in Query, l.tenant \in Tenants,
         NEW look \in Looks, NEW active \in BOOLEAN
  PROVE  /\ Updated(l, look, active) \in [Tenants -> Row]
         /\ \A t \in Tenants : Updated(l, look, active)[t].sub =
              IF t = l.tenant /\ l.rename # NoSubdomain THEN l.rename ELSE tenants[t].sub
<1> DEFINE old == tenants[l.tenant]
           sub == IF l.rename = NoSubdomain THEN old.sub ELSE l.rename
           row == [old EXCEPT !.look = look, !.active = active, !.sub = sub]
<1>1. old \in Row /\ l.rename \in Subdomains \cup {NoSubdomain}
  BY DEF Query
<1>2. sub \in Subdomains \cup {NoSubdomain}
  BY <1>1 DEF Row
<1>3. row \in Row /\ row.sub = sub
  <2> HIDE DEF sub
  <2> QED BY <1>1, <1>2 DEF Row
<1>4. Updated(l, look, active) = [tenants EXCEPT ![l.tenant] = row]
  BY <1>1 DEF Row, Updated
<1>5. [tenants EXCEPT ![l.tenant] = row] \in [Tenants -> Row]
      /\ \A t \in Tenants : [tenants EXCEPT ![l.tenant] = row][t] =
                            IF t = l.tenant THEN row ELSE tenants[t]
  <2> HIDE DEF row
  <2> QED BY <1>3
<1> QED BY <1>3, <1>4, <1>5

\* The UPDATE of updateTenant.
LEMMA WriteKeeps ==
  ASSUME TcInv, NEW q \in PortalProcs, WriteTenant(q)
  PROVE  TcInv'
<1> DEFINE l == qloc[q]
<1>1. l \in Query /\ Names("update", l) /\ tenants \in [Tenants -> Row]
  BY DEF WriteTenant, TcInv, TcTypes, TcNames
<1>2. CASE Return(q) /\ UNCHANGED <<tenants, recent, store>>
  <2>1. tenants' \in [Tenants -> Row] /\ TcRecent' /\ Grows
    BY <1>2, QuietGrows
  <2> QED BY <1>2, <2>1, NoQueryType, MoveKeeps DEF Return, QuerySteps
<1>3. CASE /\ PortalStep(q, IF l.touched = {} THEN "own_sub" ELSE "drop", l)
           /\ UNCHANGED store
           /\ tenants' \in [Tenants -> Row] /\ TcRecent' /\ Grows
  <2>1. Names("own_sub", l) /\ Names("drop", l)
    BY <1>1 DEF Names
  <2> QED BY <1>1, <1>3, <2>1, MoveKeeps DEF QuerySteps
<1>4. ASSUME NEW look \in Looks, NEW active \in BOOLEAN,
             UNCHANGED <<tenants, recent>> \/ Rewrite(Updated(l, look, active))
      PROVE  tenants' \in [Tenants -> Row] /\ TcRecent' /\ Grows
  <2>1. CASE UNCHANGED <<tenants, recent>>
    BY <2>1, QuietGrows
  <2>2. CASE Rewrite(Updated(l, look, active))
    <3>1. Updated(l, look, active) \in [Tenants -> Row]
      BY <1>1, UpdatedType DEF Names
    <3> QED BY <2>2, <3>1, RewriteKeeps
  <2> QED BY <1>4, <2>1, <2>2
<1> QED BY <1>2, <1>3, <1>4 DEF WriteTenant

\* The workspace's own subdomain is read.
LEMMA OwnKeeps ==
  ASSUME TcInv, NEW q \in PortalProcs, OwnSubdomain(q)
  PROVE  TcInv'
<1> DEFINE l == [qloc[q] EXCEPT !.touched = {tenants[qloc[q].tenant].sub} \cap Subdomains]
<1>1. qloc[q] \in Query /\ Names("own_sub", qloc[q])
  BY DEF OwnSubdomain, TcInv, TcTypes, TcNames
<1>2. l \in Query /\ Names("drop", l)
  BY <1>1 DEF Query, Names
<1>3. tenants' \in [Tenants -> Row] /\ TcRecent' /\ Grows
  BY QuietGrows DEF OwnSubdomain
<1> QED BY <1>2, <1>3, MoveKeeps DEF OwnSubdomain, QuerySteps

\* The keys an update touched are dropped.
LEMMA InvalidateKeeps ==
  ASSUME TcInv, NEW q \in PortalProcs, InvalidateTenantCache(q)
  PROVE  TcInv'
<1> DEFINE w == qloc[q].worker
           S == qloc[q].touched
           kept == [k \in Subdomains |-> IF k \in S THEN Empty ELSE store[w][k]]
<1>1. /\ PortalStep(q, "idle", NoQuery) /\ UNCHANGED <<tenants, recent>>
      /\ store' = [store EXCEPT ![w] = kept] /\ w \in Workers
  BY DEF InvalidateTenantCache, Return, TcInv, TcNames, Names
<1>2. tenants' \in [Tenants -> Row] /\ TcRecent' /\ Grows
  BY <1>1, QuietGrows
<1>3. store \in [Workers -> [Subdomains -> Entry]] /\ Empty \in Entry /\ Empty.left = 0
  BY BoundFacts DEF TcInv, TcTypes, Entry, Empty, Results
<1>4. kept \in [Subdomains -> Entry]
  BY <1>1, <1>3
<1>5. store' \in [Workers -> [Subdomains -> Entry]]
      /\ \A v \in Workers : store'[v] = IF v = w THEN kept ELSE store[v]
  <2> HIDE DEF kept
  <2> QED BY <1>1, <1>3, <1>4
<1>6. \A v \in Workers : \A k \in Subdomains : store'[v][k].left = 0 \/ store'[v][k] = store[v][k]
  BY <1>3, <1>5
<1>7. TcEntries'
  BY <1>2, <1>5, <1>6, StoreKeeps
<1>8. /\ qpc' \in [PortalProcs -> QuerySteps] /\ qloc' \in [PortalProcs -> Query]
      /\ TcNames' /\ TcLoads'
  BY <1>1, <1>2, NoQueryType, StepKeeps DEF QuerySteps
<1> QED BY <1>2, <1>5, <1>7, <1>8 DEF TcInv, TcTypes

\* A query fails.
LEMMA FailKeeps ==
  ASSUME TcInv, NEW q \in PortalProcs, PortalFail(q)
  PROVE  TcInv'
<1>1. tenants' \in [Tenants -> Row] /\ TcRecent' /\ Grows
  BY QuietGrows DEF PortalFail
<1> QED BY <1>1, NoQueryType, MoveKeeps DEF PortalFail, Return, QuerySteps

\* The writes that tell no cache.
LEMMA ElsewhereKeeps ==
  ASSUME TcInv, ChangeElsewhere
  PROVE  TcInv'
<1>1. PICK rows \in [Tenants -> Row] : Rewrite(rows)
  <2>1. tenants \in [Tenants -> Row]
    BY DEF TcInv, TcTypes
  <2>2. ASSUME NEW t \in Tenants, NEW k \in Subdomains \cup {NoSubdomain}
        PROVE  [tenants EXCEPT ![t].sub = k] \in [Tenants -> Row]
    <3>1. [tenants[t] EXCEPT !.sub = k] \in Row
      BY <2>1 DEF Row
    <3> QED BY <2>1, <3>1
  <2>3. ASSUME NEW t \in Tenants
        PROVE  [tenants EXCEPT ![t].look = ~@] \in [Tenants -> Row]
    <3>1. \A b \in BOOLEAN : [tenants[t] EXCEPT !.look = b] \in Row
      BY <2>1 DEF Row, Looks
    <3>2. \A row \in Row : [tenants EXCEPT ![t] = row] \in [Tenants -> Row]
      BY <2>1
    <3>3. (~tenants[t].look) \in BOOLEAN
      OBVIOUS
    <3>4. [tenants[t] EXCEPT !.look = ~tenants[t].look] \in Row
      BY <3>1, <3>3
    <3>5. [tenants EXCEPT ![t] = [tenants[t] EXCEPT !.look = ~tenants[t].look]] \in [Tenants -> Row]
      BY <3>2, <3>4
    <3> QED BY <3>5
  <2>4. ASSUME NEW t \in Tenants
        PROVE  [tenants EXCEPT ![t].active = ~@] \in [Tenants -> Row]
    <3>1. \A b \in BOOLEAN : [tenants[t] EXCEPT !.active = b] \in Row
      BY <2>1 DEF Row, Looks
    <3>2. \A row \in Row : [tenants EXCEPT ![t] = row] \in [Tenants -> Row]
      BY <2>1
    <3>3. (~tenants[t].active) \in BOOLEAN
      OBVIOUS
    <3>4. [tenants[t] EXCEPT !.active = ~tenants[t].active] \in Row
      BY <3>1, <3>3
    <3>5. [tenants EXCEPT ![t] = [tenants[t] EXCEPT !.active = ~tenants[t].active]] \in [Tenants -> Row]
      BY <3>2, <3>4
    <3> QED BY <3>5
  <2> QED BY <2>2, <2>3, <2>4 DEF ChangeElsewhere
<1>2. tenants' \in [Tenants -> Row] /\ TcRecent' /\ Grows
  BY <1>1, RewriteKeeps
<1>3. /\ qpc' \in [PortalProcs -> QuerySteps] /\ qloc' \in [PortalProcs -> Query]
      /\ TcNames' /\ TcLoads'
  BY <1>2, RestKeeps DEF ChangeElsewhere
<1>4. UNCHANGED store
  BY DEF ChangeElsewhere
<1>5. TcEntries'
  BY <1>2, <1>4, StoreKeeps DEF TcInv, TcTypes
<1> QED BY <1>2, <1>3, <1>4, <1>5 DEF TcInv, TcTypes

\* A tick: everything is one older, and what is stored has one less to live.
LEMMA TimeKeeps ==
  ASSUME TcInv, TimePasses
  PROVE  TcInv'
<1>1. /\ UNCHANGED <<tenants, qpc>> /\ tenants \in [Tenants -> Row]
      /\ qpc \in [PortalProcs -> QuerySteps] /\ qloc \in [PortalProcs -> Query]
      /\ store \in [Workers -> [Subdomains -> Entry]]
      /\ recent \in [Subdomains -> [Span -> SUBSET Results]]
  BY DEF TcInv, TcTypes, TcRecent, TimePasses
<1>2. \A k \in Subdomains :
        recent'[k] = [a \in Span |-> IF a = 0 THEN {Lookup(tenants, k)} ELSE recent[k][a - 1]]
  BY DEF TimePasses, Span
<1>3. TcRecent'
  <2>1. ASSUME NEW k \in Subdomains, NEW a \in Span
        PROVE  (IF a = 0 THEN {Lookup(tenants, k)} ELSE recent[k][a - 1]) \in SUBSET Results
    <3>1. CASE a = 0
      BY <1>1, <3>1, LookupType
    <3>2. CASE a # 0
      <4>1. a - 1 \in Span
        BY <3>2, BoundFacts DEF Span
      <4> QED BY <1>1, <3>2, <4>1
    <3> QED BY <3>1, <3>2
  <2>2. recent' \in [Subdomains -> [Span -> SUBSET Results]]
    <3> DEFINE New(k) == [a \in Span |-> IF a = 0 THEN {Lookup(tenants, k)}
                                                  ELSE recent[k][a - 1]]
    <3>1. \A k \in Subdomains : New(k) \in [Span -> SUBSET Results]
      BY <2>1
    <3>2. recent' = [k \in Subdomains |-> New(k)]
      BY DEF TimePasses, Span
    <3> HIDE DEF New
    <3> QED BY <3>1, <3>2
  <2>3. \A k \in Subdomains : Lookup(tenants', k) \in recent'[k][0]
    <3>1. \A k \in Subdomains : Lookup(tenants, k) \in recent'[k][0]
      BY <1>2, BoundFacts
    <3> QED BY <1>1, <3>1
  <2> QED BY <2>2, <2>3 DEF TcRecent
<1>4. \A k \in Subdomains : \A a \in Span : a + 1 \in Span => recent'[k][a + 1] = recent[k][a]
  <2> SUFFICES ASSUME NEW k \in Subdomains, NEW a \in Span, a + 1 \in Span
               PROVE  recent'[k][a + 1] = recent[k][a]
    OBVIOUS
  <2>1. a \in Nat /\ a + 1 # 0 /\ (a + 1) - 1 = a
    BY BoundFacts DEF Span
  <2>2. \A b \in Span : recent'[k][b] = IF b = 0 THEN {Lookup(tenants, k)} ELSE recent[k][b - 1]
    BY <1>2
  <2>3. recent'[k][a + 1] = recent[k][(a + 1) - 1]
    BY <2>1, <2>2
  <2> QED BY <2>1, <2>3
<1>5. \A q \in PortalProcs :
        qloc'[q] = IF qpc[q] = "fill" THEN [qloc[q] EXCEPT !.age = qloc[q].age + 1] ELSE qloc[q]
  BY DEF TimePasses
<1>6. \A q \in PortalProcs : qpc[q] = "fill" => qloc[q].age \in 0..QueryTime
                                              /\ qloc[q].age + 1 \in 0..QueryTime
  <2> SUFFICES ASSUME NEW q \in PortalProcs, qpc[q] = "fill"
               PROVE  qloc[q].age \in 0..QueryTime /\ qloc[q].age + 1 \in 0..QueryTime
    OBVIOUS
  <2>1. qloc[q].age \in 0..QueryTime /\ qloc[q].age < QueryTime
    BY <1>1 DEF Query, TimePasses
  <2> QED BY <2>1, BoundFacts
<1>7. qloc' \in [PortalProcs -> Query] /\ TcNames'
  <2>1. ASSUME NEW q \in PortalProcs
        PROVE  qloc'[q] \in Query /\ Names(qpc[q], qloc'[q])
    <3>1. qloc[q] \in Query /\ Names(qpc[q], qloc[q])
      BY <1>1 DEF TcInv, TcNames
    <3>2. CASE qpc[q] = "fill"
      <4>1. \A n \in 0..QueryTime : [qloc[q] EXCEPT !.age = n] \in Query
        BY <3>1 DEF Query
      <4>2. qloc'[q] \in Query
        BY <1>5, <1>6, <3>2, <4>1
      <4>3. qloc'[q].worker = qloc[q].worker /\ qloc'[q].key = qloc[q].key
        BY <1>5, <3>1, <3>2 DEF Query
      <4> QED BY <3>1, <3>2, <4>2, <4>3 DEF Names
    <3>3. CASE qpc[q] # "fill"
      BY <1>5, <3>1, <3>3
    <3> QED BY <3>2, <3>3
  <2>2. qloc' = [q \in PortalProcs |-> qloc'[q]]
    BY DEF TimePasses
  <2> QED BY <1>1, <2>1, <2>2 DEF TcNames, Names
<1>8. TcLoads'
  <2>1. ASSUME NEW q \in PortalProcs, qpc[q] = "fill"
        PROVE  qloc'[q].value \in recent'[qloc'[q].key][qloc'[q].age]
    <3>1. /\ qloc[q] \in Query /\ qloc[q].key \in Subdomains
          /\ qloc[q].value \in recent[qloc[q].key][qloc[q].age]
      BY <1>1, <2>1 DEF TcInv, TcNames, TcLoads, Names
    <3>2. /\ qloc'[q].value = qloc[q].value /\ qloc'[q].key = qloc[q].key
          /\ qloc'[q].age = qloc[q].age + 1
      BY <1>5, <2>1, <3>1 DEF Query
    <3>3. recent'[qloc[q].key][qloc[q].age + 1] = recent[qloc[q].key][qloc[q].age]
      BY <1>4, <1>6, <2>1, <3>1, BoundFacts
    <3> QED BY <3>1, <3>2, <3>3
  <2> QED BY <1>1, <2>1 DEF TcLoads
<1>9. \A w \in Workers : \A k \in Subdomains :
        /\ store'[w][k] \in Entry /\ store'[w][k].value = store[w][k].value
        /\ store'[w][k].left > 0 => store[w][k].left = store'[w][k].left + 1
  <2> SUFFICES ASSUME NEW w \in Workers, NEW k \in Subdomains
               PROVE  /\ store'[w][k] \in Entry /\ store'[w][k].value = store[w][k].value
                      /\ store'[w][k].left > 0 => store[w][k].left = store'[w][k].left + 1
    OBVIOUS
  <2> DEFINE e == store[w][k]
             left == IF e.left > 0 THEN e.left - 1 ELSE 0
  <2>1. store'[w][k] = [e EXCEPT !.left = left]
    BY DEF TimePasses
  <2>2. e \in Entry /\ e.left \in 0..Ttl
    BY <1>1 DEF Entry
  <2>3. left \in 0..Ttl /\ (left > 0 => e.left = left + 1)
    BY <2>2, BoundFacts
  <2>4. \A n \in 0..Ttl : [e EXCEPT !.left = n] \in Entry /\ [e EXCEPT !.left = n].left = n
                          /\ [e EXCEPT !.left = n].value = e.value
    BY <2>2 DEF Entry
  <2> QED BY <2>1, <2>3, <2>4
<1>10. store' \in [Workers -> [Subdomains -> Entry]]
  <2>1. store' = [w \in Workers |-> [k \in Subdomains |-> store'[w][k]]]
    BY DEF TimePasses
  <2> QED BY <1>9, <2>1
<1>11. TcEntries'
  <2> SUFFICES ASSUME NEW w \in Workers, NEW k \in Subdomains, store'[w][k].left > 0
               PROVE  \E a \in 0..(Ttl - store'[w][k].left + QueryTime) :
                         store'[w][k].value \in recent'[k][a]
    BY DEF TcEntries, Dated
  <2>1. store[w][k].left \in 0..Ttl /\ store'[w][k].left \in 0..Ttl
        /\ store[w][k].left = store'[w][k].left + 1
    BY <1>1, <1>9 DEF Entry
  <2>2. PICK a \in 0..(Ttl - store[w][k].left + QueryTime) : store[w][k].value \in recent[k][a]
    BY <2>1 DEF TcInv, TcEntries, Dated
  <2>3. a \in Span /\ a + 1 \in Span /\ a + 1 \in 0..(Ttl - store'[w][k].left + QueryTime)
    BY <2>1, BoundFacts DEF Span
  <2>4. recent'[k][a + 1] = recent[k][a]
    BY <1>4, <2>3
  <2> QED BY <1>9, <2>2, <2>3, <2>4
<1> QED BY <1>1, <1>3, <1>7, <1>8, <1>10, <1>11 DEF TcInv, TcTypes

\* Empty caches, and every subdomain as it has been.
LEMMA PortalInitHolds == PortalInit => TcInv
<1> SUFFICES ASSUME PortalInit PROVE TcInv
  OBVIOUS
<1>1. tenants \in [Tenants -> Row]
  BY DEF PortalInit, Row, Looks
<1>2. Empty \in Entry /\ Empty.left = 0
  BY BoundFacts DEF Entry, Empty, Results
<1>3. store = [w \in Workers |-> [k \in Subdomains |-> Empty]]
  BY DEF PortalInit
<1>4. TcTypes /\ TcNames /\ TcLoads
  BY <1>1, <1>2, NoQueryType DEF PortalInit, TcTypes, TcNames, TcLoads, QuerySteps
<1>5. \A k \in Subdomains : Lookup(tenants, k) \in Results
  BY <1>1, LookupType
<1>6. TcRecent
  BY <1>5, BoundFacts DEF PortalInit, TcRecent, Span
<1>7. TcEntries
  BY <1>2, <1>3 DEF TcEntries
<1> QED BY <1>4, <1>6, <1>7 DEF TcInv

\* Every step keeps the invariant.
LEMMA PortalStepKeeps == TcInv /\ [PortalNext]_portalVars => TcInv'
<1> SUFFICES ASSUME TcInv, [PortalNext]_portalVars PROVE TcInv'
  OBVIOUS
<1>1. CASE UNCHANGED portalVars
  BY <1>1 DEF portalVars, TcInv, TcTypes, TcNames, TcRecent, TcLoads, TcEntries, Dated, Names, Lookup
<1> QED
  BY <1>1, ResolveKeeps, LoadKeeps, FillKeeps, UpdateKeeps, WriteKeeps, OwnKeeps,
     InvalidateKeeps, FailKeeps, ElsewhereKeeps, TimeKeeps DEF PortalNext

-----------------------------------------------------------------------------
(* The refinement: what each step is to PortalReads.                        *)

\* A step that answers nothing and writes no row.
LEMMA ForgetMaps ==
  ASSUME Quiet, UNCHANGED <<tenants, recent>>
  PROVE  Reads!ReadNext
BY DEF Quiet, Reads!ReadNext, Reads!Forget, Lookup

\* A write of the rows, of one key or several.
LEMMA WriteMaps ==
  ASSUME NEW rows, Rewrite(rows), tenants' \in [Tenants -> Row], Quiet
  PROVE  Reads!ReadNext
<1>1. tenants' = rows
      /\ recent' = [k \in Subdomains |-> [recent[k] EXCEPT ![0] = @ \cup {Lookup(rows, k)}]]
  BY DEF Rewrite
<1> DEFINE new == [k \in Subdomains |-> Lookup(tenants', k)]
<1>2. new \in [Subdomains -> Results]
  BY <1>1, LookupType
<1>3. recent' = [k \in Subdomains |-> [recent[k] EXCEPT ![0] = @ \cup {new[k]}]]
  BY <1>1
<1>4. Reads!Write
  BY <1>2, <1>3 DEF Quiet, Reads!Write, Lookup
<1> QED BY <1>4 DEF Reads!ReadNext

\* An answer that was true within the span.
LEMMA AnswerMaps ==
  ASSUME UNCHANGED <<tenants, recent>>, NEW k \in Subdomains, NEW a \in Span,
         NEW v \in recent[k][a], Say(k, v)
  PROVE  Reads!ReadNext
<1>1. Reads!Answer
  BY DEF Say, Reads!Answer, Reads!Ages, Span, Lookup
<1> QED BY <1>1 DEF Reads!ReadNext

\* An entry that is served is younger than the TTL, and was a query old when it was stored.
LEMMA ResolveMaps ==
  ASSUME TcInv, NEW q \in PortalProcs, ResolvePublicTenant(q)
  PROVE  Reads!ReadNext
<1>1. UNCHANGED <<tenants, recent>>
  BY DEF ResolvePublicTenant
<1>2. PICK w \in Workers, k \in Subdomains :
        Quiet \/ (Get(w, k) # NotFound /\ Say(k, Get(w, k)))
  BY DEF ResolvePublicTenant
<1>3. CASE Get(w, k) # NotFound /\ Say(k, Get(w, k))
  <2>1. store[w][k].left > 0 /\ Get(w, k) = store[w][k].value
    BY <1>3 DEF Get
  <2>2. PICK a \in 0..(Ttl - store[w][k].left + QueryTime) : store[w][k].value \in recent[k][a]
    BY <2>1 DEF TcInv, TcEntries, Dated
  <2>3. a \in Span
    <3>1. store[w][k].left \in 0..Ttl
      BY DEF TcInv, TcTypes, Entry
    <3> QED BY <2>2, <3>1, BoundFacts
  <2> QED BY <1>1, <1>3, <2>1, <2>2, <2>3, AnswerMaps
<1> QED BY <1>1, <1>2, <1>3, ForgetMaps

\* A miss answers what its query returned.
LEMMA FillMaps ==
  ASSUME TcInv, NEW q \in PortalProcs, Fill(q)
  PROVE  Reads!ReadNext
<1>1. qpc[q] = "fill" /\ Say(qloc[q].key, qloc[q].value) /\ UNCHANGED <<tenants, recent>>
  BY DEF Fill
<1>2. /\ qloc[q].key \in Subdomains /\ qloc[q].age \in Span
      /\ qloc[q].value \in recent[qloc[q].key][qloc[q].age]
  BY <1>1, BoundFacts DEF TcInv, TcTypes, TcNames, TcLoads, Names, Query
<1> QED BY <1>1, <1>2, AnswerMaps

\* A tick is a tick.
LEMMA TimeMaps ==
  ASSUME TimePasses
  PROVE  Reads!ReadNext
<1>1. Quiet /\ UNCHANGED tenants
      /\ recent' = [k \in Subdomains |-> [a \in 0..(Ttl + QueryTime) |->
                      IF a = 0 THEN {Lookup(tenants, k)} ELSE recent[k][a - 1]]]
  BY DEF TimePasses
<1>2. Reads!Tick
  BY <1>1 DEF Quiet, Reads!Tick, Reads!Ages, Lookup
<1> QED BY <1>2 DEF Reads!ReadNext

\* A workspace begins with its subdomain resolved as it is.
LEMMA InitMaps == PortalInit => Reads!ReadInit
<1> SUFFICES ASSUME PortalInit PROVE Reads!ReadInit
  OBVIOUS
<1>1. tenants \in [Tenants -> Row]
  BY DEF PortalInit, Row, Looks
<1>2. [k \in Subdomains |-> Lookup(tenants, k)] \in [Subdomains -> Results]
  BY <1>1, LookupType
<1>3. recent = [k \in Subdomains |-> [a \in 0..(Ttl + QueryTime) |->
                  {[j \in Subdomains |-> Lookup(tenants, j)][k]}]]
  BY DEF PortalInit
<1> QED BY <1>2, <1>3 DEF PortalInit, Reads!ReadInit, Reads!Ages

\* The UPDATE of updateTenant writes a row, or none.
LEMMA UpdateMaps ==
  ASSUME TcInv', NEW q \in PortalProcs, WriteTenant(q)
  PROVE  Reads!ReadNext
<1>1. Quiet /\ tenants' \in [Tenants -> Row]
  BY DEF WriteTenant, TcInv, TcTypes
<1>2. CASE UNCHANGED <<tenants, recent>>
  BY <1>1, <1>2, ForgetMaps
<1>3. ASSUME NEW look \in Looks, NEW active \in BOOLEAN,
             Rewrite(Updated(qloc[q], look, active))
      PROVE  Reads!ReadNext
  BY <1>1, <1>3, WriteMaps
<1> QED BY <1>2, <1>3 DEF WriteTenant

\* Every step of the cache is a step of PortalReads or changes nothing of it.
LEMMA StepMaps ==
  TcInv /\ TcInv' /\ [PortalNext]_portalVars => [Reads!ReadNext]_(Reads!readVars)
<1> SUFFICES ASSUME TcInv, TcInv', [PortalNext]_portalVars
             PROVE  [Reads!ReadNext]_(Reads!readVars)
  OBVIOUS
<1>1. ASSUME NEW q \in PortalProcs,
             Load(q) \/ UpdateTenant(q) \/ OwnSubdomain(q) \/ InvalidateTenantCache(q)
               \/ PortalFail(q)
      PROVE  Reads!ReadNext
  BY <1>1, ForgetMaps
     DEF Load, UpdateTenant, OwnSubdomain, InvalidateTenantCache, PortalFail
<1>2. ASSUME ChangeElsewhere PROVE Reads!ReadNext
  <2>1. Quiet /\ tenants' \in [Tenants -> Row]
    BY <1>2 DEF ChangeElsewhere, TcInv, TcTypes
  <2>2. PICK rows : Rewrite(rows)
    BY <1>2 DEF ChangeElsewhere
  <2> QED BY <2>1, <2>2, WriteMaps
<1>3. CASE UNCHANGED portalVars
  BY <1>3 DEF portalVars, Reads!readVars, Lookup
<1> QED
  BY <1>1, <1>2, <1>3, ResolveMaps, FillMaps, UpdateMaps, TimeMaps DEF PortalNext

\* The cache keeps its promise (cache.js, resolvePublicTenant.js): whatever is written,
\* evicted, dropped or loaded at the same time, and in however many workers, an answer was
\* true within the TTL and the time of one query.
THEOREM CacheImplementsReads == PortalSpec => BoundedStaleness
<1>1. PortalInit => Reads!ReadInit
  BY InitMaps
<1>2. PortalSpec => []TcInv
  BY PortalInitHolds, PortalStepKeeps, PTL DEF PortalSpec
<1>3. PortalSpec => Reads!ReadInit /\ [][Reads!ReadNext]_(Reads!readVars)
  BY <1>1, <1>2, StepMaps, PTL DEF PortalSpec
<1> QED BY <1>3 DEF BoundedStaleness, Reads!ReadSpec

(* What a worker shows after an update it handled, and the size of a cache. *)

Filled(s) == {k \in Subdomains : s[k].value # NotFound}
Cached(w) == Filled(store[w])
TcRoom == \A w \in Workers : IsFiniteSet(Cached(w)) /\ Cardinality(Cached(w)) <= MaxEntries

\* Of a subdomain a worker is not behind on, its cache and every load that has its answer
\* hold the row as it is.
Fresh(w, k) ==
  /\ store[w][k].value \in {NotFound, Lookup(tenants, k)}
  /\ \A q \in PortalProcs : (qpc[q] = "fill" /\ qloc[q].worker = w /\ qloc[q].key = k) =>
       qloc[q].value = Lookup(tenants, k)
TcFresh ==
  /\ behind \in [Workers -> SUBSET Subdomains]
  /\ \A w \in Workers : \A k \in Subdomains \ behind[w] : Fresh(w, k)

\* What an update owes is what its workspace was called when it began, and is called now:
\* it is, or will be, among the keys it drops.
OwedBy(step, l, o, rows) ==
  /\ step = "update" =>
       /\ o \subseteq {rows[l.tenant].sub}
       /\ l.touched = {} => l.rename = NoSubdomain
       /\ l.touched # {} =>
            o \subseteq l.touched /\ l.rename \in l.touched \cup {NoSubdomain}
  /\ step = "own_sub" => o \subseteq {rows[l.tenant].sub}
  /\ step = "drop" => o \subseteq l.touched
TcOwes ==
  /\ owes \in [PortalProcs -> SUBSET Subdomains]
  /\ \A q \in PortalProcs : OwedBy(qpc[q], qloc[q], owes[q], tenants)

TcWhole == TcInv /\ TcRoom /\ TcFresh /\ TcOwes

\* Entries that are dropped make room.
LEMMA RoomQuiet ==
  ASSUME TcRoom, \A w \in Workers : \A k \in Subdomains :
                   store'[w][k].value \in {NotFound, store[w][k].value}
  PROVE  TcRoom'
<1> SUFFICES ASSUME NEW w \in Workers
             PROVE  IsFiniteSet(Cached(w)') /\ Cardinality(Cached(w)') <= MaxEntries
  BY DEF TcRoom
<1>1. Cached(w)' \subseteq Cached(w)
  BY DEF Cached, Filled
<1>2. IsFiniteSet(Cached(w)) /\ Cardinality(Cached(w)) <= MaxEntries
  BY DEF TcRoom
<1>3. IsFiniteSet(Cached(w)') /\ Cardinality(Cached(w)') <= Cardinality(Cached(w))
  BY <1>1, <1>2, FS_Subset
<1>4. Cardinality(Cached(w)') \in Nat /\ Cardinality(Cached(w)) \in Nat /\ MaxEntries \in Nat
  BY <1>2, <1>3, FS_CardinalityType, PortalConstants
<1> QED BY <1>2, <1>3, <1>4

\* No row changes, and no load has a new answer.
LEMMA FreshQuiet ==
  ASSUME TcFresh, UNCHANGED <<tenants, behind>>,
         \A w \in Workers : \A k \in Subdomains :
           store'[w][k].value \in {NotFound, store[w][k].value},
         \A r \in PortalProcs : qpc'[r] = "fill" =>
           /\ qpc[r] = "fill" /\ qloc'[r].worker = qloc[r].worker
           /\ qloc'[r].key = qloc[r].key /\ qloc'[r].value = qloc[r].value
  PROVE  TcFresh'
<1> SUFFICES ASSUME NEW w \in Workers, NEW k \in Subdomains \ behind[w]
             PROVE  Fresh(w, k)'
  BY DEF TcFresh
<1>1. Fresh(w, k) /\ Lookup(tenants', k) = Lookup(tenants, k)
  BY DEF TcFresh
<1> QED BY <1>1 DEF Fresh

\* A row changes, and with it every cache falls behind.
LEMMA FreshRewrite ==
  ASSUME TcFresh, NEW rows, Rewrite(rows), UNCHANGED store,
         \A r \in PortalProcs : qpc'[r] = "fill" =>
           qpc[r] = "fill" /\ qloc'[r] = qloc[r]
  PROVE  TcFresh'
<1>1. /\ tenants' = rows
      /\ behind' = [w \in Workers |-> behind[w] \cup
                      {k \in Subdomains : Lookup(rows, k) # Lookup(tenants, k)}]
  BY DEF Rewrite
<1>2. behind' \in [Workers -> SUBSET Subdomains]
  BY <1>1 DEF TcFresh
<1>3. ASSUME NEW w \in Workers, NEW k \in Subdomains \ behind'[w]
      PROVE  Fresh(w, k)'
  <2>1. k \notin behind[w] /\ Lookup(rows, k) = Lookup(tenants, k)
    BY <1>1
  <2>2. Fresh(w, k) /\ Lookup(tenants', k) = Lookup(tenants, k)
    BY <1>1, <2>1 DEF TcFresh
  <2> QED BY <2>2 DEF Fresh
<1> QED BY <1>2, <1>3 DEF TcFresh

\* cache.set makes room before it stores: the size stays within MAX_ENTRIES.
LEMMA PutRoom ==
  ASSUME NEW s \in [Subdomains -> Entry], NEW k \in Subdomains, NEW v \in Results,
         v # NotFound, NEW e \in Put(s, k, v),
         IsFiniteSet(Filled(s)), Cardinality(Filled(s)) <= MaxEntries
  PROVE  /\ IsFiniteSet(Filled(e)) /\ Cardinality(Filled(e)) <= MaxEntries
         /\ \A j \in Subdomains :
              e[j].value \in {NotFound, s[j].value} \/ (j = k /\ e[j].value = v)
<1> DEFINE new  == [value |-> v, left |-> Ttl]
           held == Filled(s)
           next == Filled(e)
<1>1. new \in Entry /\ Empty \in Entry /\ new.value = v /\ Empty.value = NotFound
  BY BoundFacts DEF Entry, Empty, Results
<1>2. \/ e = [s EXCEPT ![k] = new] /\ (k \in held \/ Cardinality(held) < MaxEntries)
      \/ \E j \in held : k \notin held /\ e = [s EXCEPT ![k] = new, ![j] = Empty]
  BY DEF Put, Filled
<1>3. IsFiniteSet(held) /\ Cardinality(held) \in Nat /\ MaxEntries \in Nat
      /\ Cardinality(held) <= MaxEntries
  BY FS_CardinalityType, PortalConstants
<1>4. CASE e = [s EXCEPT ![k] = new] /\ (k \in held \/ Cardinality(held) < MaxEntries)
  <2>1. /\ next \subseteq held \cup {k}
        /\ \A j \in Subdomains : e[j].value = s[j].value \/ (j = k /\ e[j].value = v)
    BY <1>1, <1>4 DEF Filled
  <2> HIDE DEF held, next, new
  <2>2. IsFiniteSet(held \cup {k}) /\ Cardinality(held \cup {k}) <= MaxEntries
        /\ Cardinality(held \cup {k}) \in Nat
    <3>1. CASE k \in held
      <4>1. held \cup {k} = held
        BY <3>1
      <4> QED BY <1>3, <4>1
    <3>2. CASE k \notin held
      <4>1. IsFiniteSet(held \cup {k}) /\ Cardinality(held \cup {k}) = Cardinality(held) + 1
        BY <1>3, <3>2, FS_AddElement
      <4>2. Cardinality(held) < MaxEntries
        BY <1>4, <3>2
      <4> QED BY <1>3, <4>1, <4>2
    <3> QED BY <3>1, <3>2
  <2>3. IsFiniteSet(next) /\ Cardinality(next) <= Cardinality(held \cup {k})
    BY <2>1, <2>2, FS_Subset
  <2>4. Cardinality(next) \in Nat
    BY <2>3, FS_CardinalityType
  <2>5. IsFiniteSet(next) /\ Cardinality(next) <= MaxEntries
    BY <1>3, <2>2, <2>3, <2>4
  <2> QED BY <2>1, <2>5 DEF next
<1>5. ASSUME NEW j \in held, k \notin held, e = [s EXCEPT ![k] = new, ![j] = Empty]
      PROVE  /\ IsFiniteSet(next) /\ Cardinality(next) <= MaxEntries
             /\ \A i \in Subdomains :
                  e[i].value \in {NotFound, s[i].value} \/ (i = k /\ e[i].value = v)
  <2>1. /\ next \subseteq (held \ {j}) \cup {k}
        /\ \A i \in Subdomains :
             e[i].value \in {NotFound, s[i].value} \/ (i = k /\ e[i].value = v)
    BY <1>1, <1>5 DEF Filled
  <2> HIDE DEF held, next, new
  <2> DEFINE rest == held \ {j}
  <2>2. IsFiniteSet(rest) /\ Cardinality(rest) = Cardinality(held) - 1 /\ k \notin rest
    BY <1>3, <1>5, FS_RemoveElement
  <2>3. next \subseteq rest \cup {k}
    BY <2>1
  <2> HIDE DEF rest
  <2>4. IsFiniteSet(rest \cup {k}) /\ Cardinality(rest \cup {k}) = Cardinality(rest) + 1
    BY <2>2, FS_AddElement
  <2>5. IsFiniteSet(next) /\ Cardinality(next) <= Cardinality(rest \cup {k})
    BY <2>3, <2>4, FS_Subset
  <2>6. Cardinality(next) \in Nat /\ Cardinality(rest \cup {k}) \in Nat
    BY <2>4, <2>5, FS_CardinalityType
  <2>7. Cardinality(next) <= MaxEntries
    BY <1>3, <2>2, <2>4, <2>5, <2>6
  <2> QED BY <2>1, <2>5, <2>7
<1> QED BY <1>2, <1>4, <1>5

\* A request's step leaves the steps of the others alone.
LEMMA OnlyThis ==
  ASSUME TcTypes, NEW q \in PortalProcs, NEW step, NEW l, PortalStep(q, step, l)
  PROVE  /\ qpc'[q] = step /\ qloc'[q] = l
         /\ \A r \in PortalProcs \ {q} : qpc'[r] = qpc[r] /\ qloc'[r] = qloc[r]
BY DEF TcTypes, PortalStep

\* A hit or a miss.
LEMMA ResolveFresh ==
  ASSUME TcWhole, NEW q \in PortalProcs, ResolvePublicTenant(q)
  PROVE  TcRoom' /\ TcFresh'
<1>1. TcTypes /\ TcRoom /\ TcFresh /\ UNCHANGED <<tenants, behind>>
  BY DEF TcWhole, TcInv, ResolvePublicTenant
<1>2. PICK w \in Workers, k \in Subdomains :
        \/ UNCHANGED <<qpc, qloc, store>>
        \/ /\ PortalStep(q, "load", [NoQuery EXCEPT !.worker = w, !.key = k])
           /\ store' = [store EXCEPT ![w][k] = Empty]
  BY DEF ResolvePublicTenant
<1>3. \A v \in Workers : \A j \in Subdomains : store'[v][j].value \in {NotFound, store[v][j].value}
  <2>1. store \in [Workers -> [Subdomains -> Entry]] /\ Empty.value = NotFound
    BY <1>1 DEF TcTypes, Empty
  <2> QED BY <1>2, <2>1
<1>4. \A r \in PortalProcs : qpc'[r] = "fill" => qpc[r] = "fill" /\ qloc'[r] = qloc[r]
  <2>1. CASE UNCHANGED <<qpc, qloc, store>>
    BY <2>1
  <2>2. ASSUME NEW l, PortalStep(q, "load", l)
        PROVE  \A r \in PortalProcs : qpc'[r] = "fill" => qpc[r] = "fill" /\ qloc'[r] = qloc[r]
    BY <1>1, <2>2, OnlyThis
  <2> QED BY <1>2, <2>1, <2>2
<1> QED BY <1>1, <1>3, <1>4, RoomQuiet, FreshQuiet

\* The query of a miss returns the row as it is.
LEMMA LoadFresh ==
  ASSUME TcWhole, NEW q \in PortalProcs, Load(q)
  PROVE  TcRoom' /\ TcFresh'
<1> DEFINE l == [qloc[q] EXCEPT !.value = Lookup(tenants, qloc[q].key)]
<1>1. TcTypes /\ TcRoom /\ TcFresh /\ UNCHANGED <<tenants, store, behind>>
      /\ PortalStep(q, "fill", l)
  BY DEF TcWhole, TcInv, Load
<1>2. l.worker = qloc[q].worker /\ l.key = qloc[q].key /\ l.value = Lookup(tenants, l.key)
  BY <1>1 DEF TcTypes, Query
<1> HIDE DEF l
<1>3. /\ qpc'[q] = "fill" /\ qloc'[q] = l
      /\ \A r \in PortalProcs \ {q} : qpc'[r] = qpc[r] /\ qloc'[r] = qloc[r]
  BY <1>1, OnlyThis
<1>4. ASSUME NEW w \in Workers, NEW k \in Subdomains \ behind[w]
      PROVE  Fresh(w, k)'
  <2>1. Fresh(w, k)
    BY <1>1 DEF TcFresh
  <2>2. \A r \in PortalProcs :
          (qpc'[r] = "fill" /\ qloc'[r].worker = w /\ qloc'[r].key = k) =>
            qloc'[r].value = Lookup(tenants, k)
    BY <1>2, <1>3, <2>1 DEF Fresh
  <2>3. Lookup(tenants', k) = Lookup(tenants, k) /\ store' = store
    BY <1>1
  <2> QED BY <2>1, <2>2, <2>3 DEF Fresh
<1>5. TcFresh'
  BY <1>1, <1>4 DEF TcFresh
<1>6. TcRoom'
  BY <1>1, RoomQuiet
<1> QED BY <1>5, <1>6

\* What the query returned is stored, in a cache that has room.
LEMMA FillFresh ==
  ASSUME TcWhole, NEW q \in PortalProcs, Fill(q)
  PROVE  TcRoom' /\ TcFresh'
<1> DEFINE l == qloc[q]
<1>1. /\ TcTypes /\ TcRoom /\ TcFresh /\ UNCHANGED <<tenants, behind>>
      /\ qpc[q] = "fill" /\ PortalStep(q, "idle", NoQuery)
      /\ \/ UNCHANGED store
         \/ /\ l.value # NotFound
            /\ \E e \in Put(store[l.worker], l.key, l.value) :
                 store' = [store EXCEPT ![l.worker] = e]
  BY DEF TcWhole, TcInv, Fill, Return
<1>2. \A r \in PortalProcs : qpc'[r] = "fill" => qpc[r] = "fill" /\ qloc'[r] = qloc[r]
  BY <1>1, OnlyThis
<1>3. CASE UNCHANGED store
  BY <1>1, <1>2, <1>3, RoomQuiet, FreshQuiet
<1>4. ASSUME l.value # NotFound, NEW e \in Put(store[l.worker], l.key, l.value),
             store' = [store EXCEPT ![l.worker] = e]
      PROVE  TcRoom' /\ TcFresh'
  <2>1. /\ l.worker \in Workers /\ l.key \in Subdomains /\ l.value \in Results
        /\ store \in [Workers -> [Subdomains -> Entry]]
        /\ store[l.worker] \in [Subdomains -> Entry]
    BY <1>1 DEF TcWhole, TcInv, TcTypes, TcNames, Names, Query
  <2> DEFINE s == store[l.worker]
  <2>2. IsFiniteSet(Filled(s)) /\ Cardinality(Filled(s)) <= MaxEntries
    BY <1>1, <2>1 DEF TcRoom, Cached
  <2>3. /\ IsFiniteSet(Filled(e)) /\ Cardinality(Filled(e)) <= MaxEntries
        /\ \A j \in Subdomains :
             e[j].value \in {NotFound, s[j].value} \/ (j = l.key /\ e[j].value = l.value)
    BY <1>4, <2>1, <2>2, PutRoom
  <2>4. \A w \in Workers : store'[w] = IF w = l.worker THEN e ELSE store[w]
    BY <1>4, <2>1
  <2>5. TcRoom'
    <3> SUFFICES ASSUME NEW w \in Workers
                 PROVE  IsFiniteSet(Cached(w)') /\ Cardinality(Cached(w)') <= MaxEntries
      BY DEF TcRoom
    <3>1. CASE w = l.worker
      <4>1. Cached(w)' = Filled(e)
        BY <2>4, <3>1 DEF Cached, Filled
      <4> QED BY <2>3, <4>1
    <3>2. CASE w # l.worker
      <4>1. Cached(w)' = Cached(w)
        BY <2>4, <3>2 DEF Cached, Filled
      <4> QED BY <1>1, <4>1 DEF TcRoom
    <3> QED BY <3>1, <3>2
  <2>6. ASSUME NEW w \in Workers, NEW k \in Subdomains \ behind[w]
        PROVE  Fresh(w, k)'
    <3>1. Fresh(w, k) /\ Lookup(tenants', k) = Lookup(tenants, k)
      BY <1>1 DEF TcFresh
    <3>2. store'[w][k].value \in {NotFound, Lookup(tenants, k)}
      <4>1. CASE w = l.worker /\ k = l.key /\ e[k].value = l.value
        BY <1>1, <2>4, <3>1, <4>1 DEF Fresh
      <4>2. CASE ~(w = l.worker /\ k = l.key /\ e[k].value = l.value)
        BY <2>3, <2>4, <3>1, <4>2 DEF Fresh
      <4> QED BY <4>1, <4>2
    <3> QED BY <1>2, <3>1, <3>2 DEF Fresh
  <2>7. TcFresh'
    BY <1>1, <2>6 DEF TcFresh
  <2> QED BY <2>5, <2>7
<1> QED BY <1>1, <1>3, <1>4

\* The keys an update touched are dropped: but for a load under way, the worker shows the
\* rows as they are.
LEMMA InvalidateFresh ==
  ASSUME TcWhole, NEW q \in PortalProcs, InvalidateTenantCache(q)
  PROVE  TcRoom' /\ TcFresh'
<1> DEFINE w == qloc[q].worker
           S == qloc[q].touched
           O == owes[q]
           kept == [k \in Subdomains |-> IF k \in S THEN Empty ELSE store[w][k]]
<1>1. /\ TcTypes /\ TcRoom /\ TcFresh /\ UNCHANGED tenants /\ w \in Workers
      /\ PortalStep(q, "idle", NoQuery) /\ store' = [store EXCEPT ![w] = kept]
      /\ behind' = [behind EXCEPT ![w] = {k \in behind[w] : k \notin O \/ Underway(w, k)}]
      /\ O \subseteq S
  BY DEF TcWhole, TcInv, TcNames, Names, TcOwes, OwedBy, InvalidateTenantCache, Return
<1>2. \A r \in PortalProcs : qpc'[r] = "fill" => qpc[r] = "fill" /\ qloc'[r] = qloc[r]
  BY <1>1, OnlyThis
<1>3. \A v \in Workers : store'[v] = IF v = w THEN kept ELSE store[v]
  <2> HIDE DEF kept
  <2> QED BY <1>1 DEF TcTypes
<1>4. \A v \in Workers : \A k \in Subdomains :
        store'[v][k] = IF v = w /\ k \in S THEN Empty ELSE store[v][k]
  <2> SUFFICES ASSUME NEW v \in Workers, NEW k \in Subdomains
               PROVE  store'[v][k] = IF v = w /\ k \in S THEN Empty ELSE store[v][k]
    OBVIOUS
  <2>1. CASE v = w
    <3>1. kept[k] = IF k \in S THEN Empty ELSE store[w][k]
      OBVIOUS
    <3> HIDE DEF kept
    <3> QED BY <1>3, <2>1, <3>1
  <2>2. CASE v # w
    BY <1>3, <2>2
  <2> QED BY <2>1, <2>2
<1>5. Empty.value = NotFound
  BY DEF Empty
<1>6. TcRoom'
  BY <1>1, <1>4, <1>5, RoomQuiet
<1>7. /\ behind' \in [Workers -> SUBSET Subdomains]
      /\ \A v \in Workers : behind'[v] =
           IF v = w THEN {k \in behind[v] : k \notin O \/ Underway(v, k)} ELSE behind[v]
  BY <1>1 DEF TcFresh
<1>8. ASSUME NEW v \in Workers, NEW k \in Subdomains \ behind'[v]
      PROVE  Fresh(v, k)'
  <2>1. Lookup(tenants', k) = Lookup(tenants, k)
    BY <1>1
  <2>2. CASE k \notin behind[v]
    <3>1. Fresh(v, k)
      BY <1>1, <2>2 DEF TcFresh
    <3> QED BY <1>2, <1>4, <1>5, <2>1, <3>1 DEF Fresh
  <2>3. CASE k \in behind[v]
    <3>1. v = w /\ k \in S /\ ~Underway(v, k)
      BY <1>1, <1>7, <2>3
    <3>2. \A r \in PortalProcs :
            ~(qpc'[r] = "fill" /\ qloc'[r].worker = v /\ qloc'[r].key = k)
      BY <1>2, <3>1 DEF Underway
    <3> QED BY <1>4, <1>5, <3>1, <3>2 DEF Fresh
  <2> QED BY <2>2, <2>3
<1> QED BY <1>6, <1>7, <1>8 DEF TcFresh

\* Requests that update: the row is written and every cache falls behind, or nothing is.
LEMMA UpdateFresh ==
  ASSUME TcWhole, NEW q \in PortalProcs,
         UpdateTenant(q) \/ WriteTenant(q) \/ OwnSubdomain(q) \/ PortalFail(q)
  PROVE  TcRoom' /\ TcFresh'
<1>1. TcTypes /\ TcRoom /\ TcFresh /\ UNCHANGED store
  BY DEF TcWhole, TcInv, UpdateTenant, WriteTenant, OwnSubdomain, PortalFail
<1>2. PICK step \in {"idle", "update", "own_sub", "drop"} : \E l : PortalStep(q, step, l)
  <2>1. CASE UpdateTenant(q)
    BY <2>1 DEF UpdateTenant
  <2>2. CASE WriteTenant(q)
    BY <2>2 DEF WriteTenant, Return
  <2>3. CASE OwnSubdomain(q)
    BY <2>3 DEF OwnSubdomain
  <2>4. CASE PortalFail(q)
    BY <2>4 DEF PortalFail, Return
  <2> QED BY <2>1, <2>2, <2>3, <2>4
<1>3. \A r \in PortalProcs : qpc'[r] = "fill" => qpc[r] = "fill" /\ qloc'[r] = qloc[r]
  BY <1>1, <1>2, OnlyThis
<1>4. UNCHANGED <<tenants, behind>> \/ \E rows : Rewrite(rows)
  BY DEF UpdateTenant, WriteTenant, OwnSubdomain, PortalFail
<1>5. TcRoom'
  BY <1>1, RoomQuiet
<1>6. TcFresh'
  BY <1>1, <1>3, <1>4, FreshQuiet, FreshRewrite
<1> QED BY <1>5, <1>6

\* Writes that tell no cache, and a tick.
LEMMA RestFresh ==
  ASSUME TcWhole, ChangeElsewhere \/ TimePasses
  PROVE  TcRoom' /\ TcFresh'
<1>1. TcTypes /\ TcRoom /\ TcFresh
  BY DEF TcWhole, TcInv
<1>2. CASE ChangeElsewhere
  <2>1. UNCHANGED <<store, qpc, qloc>>
    BY <1>2 DEF ChangeElsewhere
  <2>2. PICK rows : Rewrite(rows)
    BY <1>2 DEF ChangeElsewhere
  <2> QED BY <1>1, <2>1, <2>2, RoomQuiet, FreshRewrite
<1>3. CASE TimePasses
  <2>1. UNCHANGED <<tenants, qpc, behind>>
    BY <1>3 DEF TimePasses
  <2>2. \A w \in Workers : \A k \in Subdomains : store'[w][k].value = store[w][k].value
    <3> SUFFICES ASSUME NEW w \in Workers, NEW k \in Subdomains
                 PROVE  store'[w][k].value = store[w][k].value
      OBVIOUS
    <3> DEFINE e == store[w][k]
    <3>1. store'[w][k] = [e EXCEPT !.left = IF e.left > 0 THEN e.left - 1 ELSE 0]
      BY <1>3 DEF TimePasses
    <3>2. e \in Entry
      BY <1>1 DEF TcTypes
    <3>3. \A n : [e EXCEPT !.left = n].value = e.value
      BY <3>2 DEF Entry
    <3> QED BY <3>1, <3>3
  <2>3. \A r \in PortalProcs :
          /\ qloc'[r].worker = qloc[r].worker /\ qloc'[r].key = qloc[r].key
          /\ qloc'[r].value = qloc[r].value
    <3> SUFFICES ASSUME NEW r \in PortalProcs
                 PROVE  /\ qloc'[r].worker = qloc[r].worker /\ qloc'[r].key = qloc[r].key
                        /\ qloc'[r].value = qloc[r].value
      OBVIOUS
    <3>1. qloc'[r] = IF qpc[r] = "fill" THEN [qloc[r] EXCEPT !.age = qloc[r].age + 1] ELSE qloc[r]
      BY <1>3 DEF TimePasses
    <3>2. qloc[r] \in Query
      BY <1>1 DEF TcTypes
    <3>3. \A n : /\ [qloc[r] EXCEPT !.age = n].worker = qloc[r].worker
                 /\ [qloc[r] EXCEPT !.age = n].key = qloc[r].key
                 /\ [qloc[r] EXCEPT !.age = n].value = qloc[r].value
      BY <3>2 DEF Query
    <3> QED BY <3>1, <3>3
  <2>4. TcRoom'
    BY <1>1, <2>2, RoomQuiet
  <2>5. TcFresh'
    BY <1>1, <2>1, <2>2, <2>3, FreshQuiet
  <2> QED BY <2>4, <2>5
<1> QED BY <1>2, <1>3

\* A request goes to another step, and owes this much.
LEMMA OwesMove ==
  ASSUME TcWhole, NEW q \in PortalProcs, NEW step, NEW l, PortalStep(q, step, l),
         NEW o \in SUBSET Subdomains, owes' = [owes EXCEPT ![q] = o] \/ (o = owes[q] /\ owes' = owes),
         UNCHANGED tenants, OwedBy(step, l, o, tenants)
  PROVE  TcOwes'
<1>1. TcTypes /\ TcOwes
  BY DEF TcWhole, TcInv
<1>2. /\ owes' \in [PortalProcs -> SUBSET Subdomains] /\ owes'[q] = o
      /\ \A r \in PortalProcs \ {q} : owes'[r] = owes[r]
  BY <1>1 DEF TcOwes
<1>3. /\ qpc'[q] = step /\ qloc'[q] = l
      /\ \A r \in PortalProcs \ {q} : qpc'[r] = qpc[r] /\ qloc'[r] = qloc[r]
  BY <1>1, OnlyThis
<1>4. \A r \in PortalProcs : OwedBy(qpc'[r], qloc'[r], owes'[r], tenants)
  BY <1>1, <1>2, <1>3 DEF TcOwes
<1> QED BY <1>2, <1>4 DEF TcOwes, OwedBy

\* No update takes a step, and no row changes.
LEMMA OwesStay ==
  ASSUME TcWhole, UNCHANGED <<tenants, qpc, owes>>,
         \A r \in PortalProcs : /\ qloc'[r].tenant = qloc[r].tenant
                               /\ qloc'[r].rename = qloc[r].rename
                               /\ qloc'[r].touched = qloc[r].touched
  PROVE  TcOwes'
BY DEF TcWhole, TcOwes, OwedBy

\* A row changes under an update: it still owes the name that its workspace kept.
LEMMA OvertakenKeeps ==
  ASSUME TcWhole, NEW rows, NEW own, NEW r \in PortalProcs, r \notin own
  PROVE  /\ Overtaken(rows, own)[r] \in SUBSET Subdomains
         /\ OwedBy(qpc[r], qloc[r], Overtaken(rows, own)[r], rows)
<1>1. /\ owes[r] \in SUBSET Subdomains /\ OwedBy(qpc[r], qloc[r], owes[r], tenants)
      /\ Names(qpc[r], qloc[r])
  BY DEF TcWhole, TcInv, TcNames, TcOwes
<1>2. Overtaken(rows, own)[r] =
        IF \E t \in Tenants : t = qloc[r].tenant /\ rows[t].sub # tenants[t].sub
        THEN {} ELSE owes[r]
  BY DEF Overtaken
<1> QED BY <1>1, <1>2 DEF OwedBy, Names

\* updateTenant begins: it owes the name its workspace has.
LEMMA UpdateOwes ==
  ASSUME TcWhole, NEW q \in PortalProcs, UpdateTenant(q)
  PROVE  TcOwes'
<1>1. PICK w \in Workers, t \in Tenants, sub \in Subdomains \cup {NoSubdomain} :
        /\ tenants[t].sub # NoSubdomain
        /\ PortalStep(q, "update",
             [NoQuery EXCEPT !.worker = w, !.tenant = t,
                !.rename = IF sub = tenants[t].sub THEN NoSubdomain ELSE sub,
                !.touched = IF sub = NoSubdomain THEN {} ELSE {tenants[t].sub, sub}])
        /\ owes' = [owes EXCEPT ![q] = {tenants[t].sub}] /\ UNCHANGED tenants
  BY DEF UpdateTenant
<1> DEFINE rename  == IF sub = tenants[t].sub THEN NoSubdomain ELSE sub
           touched == IF sub = NoSubdomain THEN {} ELSE {tenants[t].sub, sub}
           l == [NoQuery EXCEPT !.worker = w, !.tenant = t, !.rename = rename,
                                !.touched = touched]
<1>2. tenants[t].sub \in Subdomains
  BY <1>1 DEF TcWhole, TcInv, TcTypes, Row
<1>3. /\ touched = {} => rename = NoSubdomain
      /\ touched # {} =>
           {tenants[t].sub} \subseteq touched /\ rename \in touched \cup {NoSubdomain}
  BY <1>2
<1>4. OwedBy("update", l, {tenants[t].sub}, tenants)
  <2> HIDE DEF rename, touched
  <2>1. l.tenant = t /\ l.rename = rename /\ l.touched = touched
    BY DEF NoQuery
  <2> QED BY <1>3, <2>1 DEF OwedBy
<1>5. /\ PortalStep(q, "update", l) /\ UNCHANGED tenants
      /\ owes' = [owes EXCEPT ![q] = {tenants[t].sub}]
      /\ {tenants[t].sub} \in SUBSET Subdomains
  BY <1>1, <1>2
<1> HIDE DEF l
<1> QED BY <1>4, <1>5, OwesMove

\* The UPDATE: the name it gives its workspace is owed as well.
LEMMA WriteOwes ==
  ASSUME TcWhole, NEW q \in PortalProcs, WriteTenant(q)
  PROVE  TcOwes'
<1> DEFINE l == qloc[q]
           next == IF l.touched = {} THEN "own_sub" ELSE "drop"
<1>1. /\ TcTypes /\ qpc[q] = "update" /\ l \in Query /\ l.tenant \in Tenants
      /\ tenants \in [Tenants -> Row] /\ owes[q] \in SUBSET Subdomains
      /\ OwedBy("update", l, owes[q], tenants)
  BY DEF WriteTenant, TcWhole, TcInv, TcTypes, TcNames, Names, TcOwes
<1>2. CASE Return(q) /\ owes' = [owes EXCEPT ![q] = {}] /\ UNCHANGED tenants
  <2>1. OwedBy("idle", NoQuery, {}, tenants) /\ PortalStep(q, "idle", NoQuery)
    BY <1>2 DEF Return, OwedBy
  <2> QED BY <1>2, <2>1, OwesMove
<1>3. CASE PortalStep(q, next, l) /\ UNCHANGED <<tenants, owes>>
  <2>1. OwedBy(next, l, owes[q], tenants)
    BY <1>1 DEF OwedBy
  <2> QED BY <1>1, <1>3, <2>1, OwesMove
<1>4. ASSUME NEW look \in Looks, NEW active \in BOOLEAN, NEW rows,
             rows = Updated(l, look, active), tenants[l.tenant].sub # NoSubdomain,
             PortalStep(q, next, l), tenants' = rows,
             owes' = [Overtaken(rows, {q}) EXCEPT ![q] =
                        IF @ = {} THEN {} ELSE @ \cup {rows[l.tenant].sub}]
      PROVE  TcOwes'
  <2>1. /\ rows \in [Tenants -> Row]
        /\ rows[l.tenant].sub = IF l.rename # NoSubdomain THEN l.rename ELSE tenants[l.tenant].sub
    BY <1>1, <1>4, UpdatedType
  <2>2. rows[l.tenant].sub \in Subdomains
    BY <1>1, <1>4, <2>1 DEF Row, Query
  <2>3. Overtaken(rows, {q})[q] = owes[q]
    BY DEF Overtaken
  <2> DEFINE o == IF owes[q] = {} THEN {} ELSE owes[q] \cup {rows[l.tenant].sub}
  <2>4. /\ owes' = [r \in PortalProcs |-> IF r = q THEN o ELSE Overtaken(rows, {q})[r]]
    BY <1>4, <2>3 DEF Overtaken
  <2>5. o \in SUBSET Subdomains /\ OwedBy(next, l, o, rows)
    BY <1>1, <2>1, <2>2 DEF OwedBy
  <2>6. \A r \in PortalProcs \ {q} :
          /\ Overtaken(rows, {q})[r] \in SUBSET Subdomains
          /\ OwedBy(qpc[r], qloc[r], Overtaken(rows, {q})[r], rows)
    BY OvertakenKeeps
  <2>7. /\ qpc'[q] = next /\ qloc'[q] = l
        /\ \A r \in PortalProcs \ {q} : qpc'[r] = qpc[r] /\ qloc'[r] = qloc[r]
    BY <1>1, <1>4, OnlyThis
  <2> HIDE DEF o, next, l
  <2>8. owes' \in [PortalProcs -> SUBSET Subdomains]
    BY <2>4, <2>5, <2>6
  <2>9. \A r \in PortalProcs : OwedBy(qpc'[r], qloc'[r], owes'[r], rows)
    BY <2>4, <2>5, <2>6, <2>7
  <2> QED BY <1>4, <2>8, <2>9 DEF TcOwes, OwedBy
<1>5. \/ Return(q) /\ owes' = [owes EXCEPT ![q] = {}] /\ UNCHANGED tenants
      \/ PortalStep(q, next, l) /\ UNCHANGED <<tenants, owes>>
      \/ \E look \in Looks, active \in BOOLEAN :
           /\ tenants[l.tenant].sub # NoSubdomain
           /\ PortalStep(q, next, l) /\ tenants' = Updated(l, look, active)
           /\ owes' = [Overtaken(Updated(l, look, active), {q}) EXCEPT ![q] =
                        IF @ = {} THEN {} ELSE @ \cup {Updated(l, look, active)[l.tenant].sub}]
  BY DEF WriteTenant, Rewrite
<1> HIDE DEF next, l
<1> QED BY <1>2, <1>3, <1>4, <1>5

\* The rest of an update.
LEMMA RestOwes ==
  ASSUME TcWhole, NEW q \in PortalProcs,
         OwnSubdomain(q) \/ InvalidateTenantCache(q) \/ PortalFail(q)
  PROVE  TcOwes'
<1>1. TcTypes /\ owes[q] \in SUBSET Subdomains /\ OwedBy(qpc[q], qloc[q], owes[q], tenants)
  BY DEF TcWhole, TcInv, TcOwes
<1>2. CASE OwnSubdomain(q)
  <2> DEFINE l == [qloc[q] EXCEPT !.touched = {tenants[qloc[q].tenant].sub} \cap Subdomains]
  <2>1. qloc[q] \in Query
    BY <1>1 DEF TcTypes
  <2>2. l.touched = {tenants[qloc[q].tenant].sub} \cap Subdomains
    BY <2>1 DEF Query
  <2>3. owes[q] \subseteq {tenants[qloc[q].tenant].sub}
    BY <1>1, <1>2 DEF OwedBy, OwnSubdomain
  <2>4. OwedBy("drop", l, owes[q], tenants)
    BY <1>1, <2>2, <2>3 DEF OwedBy
  <2> HIDE DEF l
  <2>5. PortalStep(q, "drop", l) /\ UNCHANGED <<tenants, owes>>
    BY <1>2 DEF OwnSubdomain, l
  <2> QED BY <1>1, <2>4, <2>5, OwesMove
<1>3. CASE InvalidateTenantCache(q) \/ PortalFail(q)
  <2>1. PortalStep(q, "idle", NoQuery) /\ owes' = [owes EXCEPT ![q] = {}] /\ UNCHANGED tenants
    BY <1>3 DEF InvalidateTenantCache, PortalFail, Return
  <2>2. OwedBy("idle", NoQuery, {}, tenants)
    BY DEF OwedBy
  <2> QED BY <2>1, <2>2, OwesMove
<1> QED BY <1>2, <1>3

\* Reading owes nothing.
LEMMA ReadOwes ==
  ASSUME TcWhole, NEW q \in PortalProcs, ResolvePublicTenant(q) \/ Load(q) \/ Fill(q)
  PROVE  TcOwes'
<1>1. UNCHANGED <<tenants, owes>> /\ owes[q] \in SUBSET Subdomains
  BY DEF TcWhole, TcOwes, ResolvePublicTenant, Load, Fill
<1>2. UNCHANGED <<qpc, qloc>> \/ \E step \in {"idle", "load", "fill"} : \E l : PortalStep(q, step, l)
  BY DEF ResolvePublicTenant, Load, Fill, Return
<1>3. CASE UNCHANGED <<qpc, qloc>>
  BY <1>1, <1>3, OwesStay
<1>4. ASSUME NEW step \in {"idle", "load", "fill"}, NEW l, PortalStep(q, step, l)
      PROVE  TcOwes'
  <2>1. OwedBy(step, l, owes[q], tenants)
    BY DEF OwedBy
  <2> QED BY <1>1, <1>4, <2>1, OwesMove
<1> QED BY <1>2, <1>3, <1>4

\* Writes by others.
LEMMA ElsewhereOwes ==
  ASSUME TcWhole, ChangeElsewhere
  PROVE  TcOwes'
<1>1. owes' = Overtaken(tenants', {}) /\ UNCHANGED <<qpc, qloc>>
  BY DEF ChangeElsewhere
<1>2. \A r \in PortalProcs : /\ owes'[r] \in SUBSET Subdomains
                            /\ OwedBy(qpc[r], qloc[r], owes'[r], tenants')
  BY <1>1, OvertakenKeeps
<1>3. owes' = [r \in PortalProcs |-> owes'[r]]
  BY <1>1 DEF Overtaken
<1>4. owes' \in [PortalProcs -> SUBSET Subdomains]
  BY <1>2, <1>3
<1> QED BY <1>1, <1>2, <1>4 DEF TcOwes, OwedBy

\* A tick leaves alone what updates hold.
LEMMA TimeOwes ==
  ASSUME TcWhole, TimePasses
  PROVE  TcOwes'
<1>1. UNCHANGED <<tenants, qpc, owes>> /\ TcTypes
  BY DEF TimePasses, TcWhole, TcInv
<1>2. \A r \in PortalProcs : /\ qloc'[r].tenant = qloc[r].tenant
                            /\ qloc'[r].rename = qloc[r].rename
                            /\ qloc'[r].touched = qloc[r].touched
  <2> SUFFICES ASSUME NEW r \in PortalProcs
               PROVE  /\ qloc'[r].tenant = qloc[r].tenant
                      /\ qloc'[r].rename = qloc[r].rename
                      /\ qloc'[r].touched = qloc[r].touched
    OBVIOUS
  <2>1. qloc'[r] = IF qpc[r] = "fill" THEN [qloc[r] EXCEPT !.age = qloc[r].age + 1] ELSE qloc[r]
    BY DEF TimePasses
  <2>2. qloc[r] \in Query
    BY <1>1 DEF TcTypes
  <2>3. \A n : /\ [qloc[r] EXCEPT !.age = n].tenant = qloc[r].tenant
               /\ [qloc[r] EXCEPT !.age = n].rename = qloc[r].rename
               /\ [qloc[r] EXCEPT !.age = n].touched = qloc[r].touched
    BY <2>2 DEF Query
  <2> QED BY <2>1, <2>3
<1> QED BY <1>1, <1>2, OwesStay

\* Every step keeps the whole invariant.
LEMMA WholeStepKeeps == TcWhole /\ [PortalNext]_portalVars => TcWhole'
<1> SUFFICES ASSUME TcWhole, [PortalNext]_portalVars PROVE TcWhole'
  OBVIOUS
<1>1. TcInv'
  BY PortalStepKeeps DEF TcWhole
<1>2. CASE UNCHANGED portalVars
  <2>1. UNCHANGED <<tenants, store, qpc, qloc, behind, owes>>
    BY <1>2 DEF portalVars
  <2>2. TcRoom'
    BY <2>1, RoomQuiet DEF TcWhole
  <2>3. TcFresh'
    BY <2>1, FreshQuiet DEF TcWhole
  <2>4. TcOwes'
    BY <2>1, OwesStay
  <2> QED BY <1>1, <2>2, <2>3, <2>4 DEF TcWhole
<1>3. CASE PortalNext
  <2>1. TcRoom' /\ TcFresh'
    BY <1>3, ResolveFresh, LoadFresh, FillFresh, InvalidateFresh, UpdateFresh, RestFresh
       DEF PortalNext
  <2>2. TcOwes'
    BY <1>3, UpdateOwes, WriteOwes, RestOwes, ReadOwes, ElsewhereOwes, TimeOwes DEF PortalNext
  <2> QED BY <1>1, <2>1, <2>2 DEF TcWhole
<1> QED BY <1>2, <1>3

\* Caches begin empty.
LEMMA WholeFirst == PortalInit => TcWhole
<1> SUFFICES ASSUME PortalInit PROVE TcWhole
  OBVIOUS
<1>1. /\ \A w \in Workers : \A k \in Subdomains : store[w][k].value = NotFound
      /\ \A q \in PortalProcs : qpc[q] = "idle"
      /\ behind \in [Workers -> SUBSET Subdomains]
  BY DEF PortalInit, Empty
<1>2. TcRoom
  <2> SUFFICES ASSUME NEW w \in Workers
               PROVE  IsFiniteSet(Cached(w)) /\ Cardinality(Cached(w)) <= MaxEntries
    BY DEF TcRoom
  <2>1. Cached(w) = {}
    BY <1>1 DEF Cached, Filled
  <2> QED BY <2>1, FS_EmptySet, PortalConstants
<1>3. TcFresh
  BY <1>1 DEF TcFresh, Fresh
<1>4. TcOwes
  BY <1>1 DEF TcOwes, OwedBy, PortalInit
<1> QED BY <1>2, <1>3, <1>4, PortalInitHolds DEF TcWhole

\* What the requests of the public portal work on and know is of its type, and no worker's
\* cache ever holds more than MAX_ENTRIES.
THEOREM PortalTypes == PortalSpec => []PortalTypeOK
<1>1. TcWhole => PortalTypeOK
  BY DEF TcWhole, TcInv, TcTypes, TcRoom, TcFresh, TcOwes, Cached, Filled, PortalTypeOK, Row, Entry, Query,
         QuerySteps
<1> QED BY <1>1, WholeFirst, WholeStepKeeps, PTL DEF PortalSpec

\* What an update changes is shown at once by the worker that handled it ("must show on the
\* public portal immediately", updateTenant.js), under the subdomain the workspace had when
\* it began and under the one it gave it: whatever the update drops is what it owes.  Excepted
\* are workspaces that another write renames or deletes meanwhile, and keys that a load
\* which had read the old row was about to fill when they were dropped.
THEOREM ShownAtOnceAlways == PortalSpec => []ShownAtOnce
<1>1. TcWhole => ShownAtOnce
  BY DEF TcWhole, TcFresh, Fresh, ShownAtOnce
<1> QED BY <1>1, WholeFirst, WholeStepKeeps, PTL DEF PortalSpec

-----------------------------------------------------------------------------
(***************************************************************************)
(* The administrators (Admins): what a request does rests on whom it is    *)
(* about and what it found, and the count of active administrators falls   *)
(* to none only by one of the mishaps the model records.                   *)
(***************************************************************************)

AdRequestSteps == {"idle", "find", "insert", "email", "set", "edit", "drop_board",
               "purge_email", "purge_check", "purge_rows", "purge_txn"}
AdminLocal == [actor : People \cup {NoPerson}, who : People \cup {NoPerson},
               row : 0..MaxRows, board : Boards \cup {NoBoard},
               owned : SUBSET Boards, on : BOOLEAN]
Mishaps    == {"crossed", "deactivated", "cascaded", "raced"}

\* The rows, and what refers to what.
AdRows ==
  /\ DOMAIN people \subseteq 1..lastRow /\ lastRow \in RowIds
  /\ people \in [DOMAIN people -> Person]
  /\ \A r \in DOMAIN people : people[r].board # NoBoard => boards[people[r].board] = "live"
  /\ boards \in [Boards -> {"unborn", "live", "gone"}]
  /\ granted \subseteq People /\ mishaps \subseteq Mishaps

\* Whom a request at a step is about: no one revokes the own role.
Aimed(step, l) ==
  /\ step \in {"find", "insert", "set", "purge_check", "purge_rows", "purge_txn"} => l.who \in People
  /\ step = "drop_board" => l.board \in Boards
  /\ step = "find" => l.on
  /\ step = "drop_board" => l.who = NoPerson
  /\ (step = "set" /\ ~l.on) => l.who # l.actor

AdRequests ==
  /\ apc \in [AdminProcs -> AdRequestSteps] /\ aloc \in [AdminProcs -> AdminLocal]
  /\ \A q \in AdminProcs : Aimed(apc[q], aloc[q])

\* A purge past its check is of no administrator, unless one was made of it since.
AdPurges ==
  /\ regained \subseteq AdminProcs
  /\ \A q \in AdminProcs \ regained :
       apc[q] \in {"purge_rows", "purge_txn"} => ~Flagged(aloc[q].who)

AdInv == AdRows /\ AdRequests /\ AdPurges /\ AdminRemains

-----------------------------------------------------------------------------
\* The data of a request that is not at work, and the ids of rows.
LEMMA NoAdminLocType ==
  /\ NoAdminLoc \in AdminLocal /\ Aimed("idle", NoAdminLoc)
  /\ RowIds \subseteq 0..MaxRows /\ 1 \in RowIds /\ RowIds \subseteq Nat
BY AdminConstants DEF NoAdminLoc, AdminLocal, Aimed, RowIds

\* A request goes to another step with data of its kind.
LEMMA AdStepKeeps ==
  ASSUME AdRequests, NEW q \in AdminProcs, NEW step \in AdRequestSteps, NEW l \in AdminLocal,
         AdminStep(q, step, l), Aimed(step, l)
  PROVE  AdRequests'
<1>1. /\ apc \in [AdminProcs -> AdRequestSteps] /\ aloc \in [AdminProcs -> AdminLocal]
      /\ apc' = [apc EXCEPT ![q] = step] /\ aloc' = [aloc EXCEPT ![q] = l]
  BY DEF AdRequests, AdminStep
<1>2. apc' \in [AdminProcs -> AdRequestSteps] /\ aloc' \in [AdminProcs -> AdminLocal]
  BY <1>1
<1>3. ASSUME NEW r \in AdminProcs
      PROVE  Aimed(apc'[r], aloc'[r])
  <2>1. CASE r = q
    BY <1>1, <2>1
  <2>2. CASE r # q
    <3>1. apc'[r] = apc[r] /\ aloc'[r] = aloc[r]
      BY <1>1, <2>2
    <3> QED BY <3>1 DEF AdRequests
  <2> QED BY <2>1, <2>2
<1> QED BY <1>2, <1>3 DEF AdRequests

\* It ends.
LEMMA AdDoneKeeps ==
  ASSUME AdRequests, NEW q \in AdminProcs, AdminDone(q)
  PROVE  AdRequests'
BY AdStepKeeps, NoAdminLocType DEF AdminDone, AdRequestSteps

\* No row becomes an administrator's, and no purge comes past its check.
LEMMA AdPurgesKept ==
  ASSUME AdPurges, regained' = regained,
         \A r \in DOMAIN people' : people'[r].flag =>
           r \in DOMAIN people /\ people[r].flag /\ people[r].email = people'[r].email,
         \A q \in AdminProcs : apc'[q] \in {"purge_rows", "purge_txn"} =>
           apc[q] \in {"purge_rows", "purge_txn"} /\ aloc'[q].who = aloc[q].who
  PROVE  AdPurges'
<1>1. \A e : Flagged(e)' => Flagged(e)
  BY DEF Flagged, RowsOf
<1> QED BY <1>1 DEF AdPurges

\* A request that is not past the check of a purge goes to another such step, or ends.
LEMMA AdPurgesMove ==
  ASSUME AdPurges, AdRequests, regained' = regained,
         \A r \in DOMAIN people' : people'[r].flag =>
           r \in DOMAIN people /\ people[r].flag /\ people[r].email = people'[r].email,
         NEW q \in AdminProcs, NEW step, NEW l, AdminStep(q, step, l),
         step \in {"purge_rows", "purge_txn"} =>
           apc[q] \in {"purge_rows", "purge_txn"} /\ l.who = aloc[q].who
  PROVE  AdPurges'
<1>1. /\ apc'[q] = step /\ aloc'[q] = l
      /\ \A r \in AdminProcs \ {q} : apc'[r] = apc[r] /\ aloc'[r] = aloc[r]
  BY DEF AdRequests, AdminStep
<1> QED BY <1>1, AdPurgesKept

\* The account e is given the role: purges of it are known from then on.
LEMMA AdPurgesGrant ==
  ASSUME AdPurges, AdRequests, NEW e, regained' = regained \cup Regained(e),
         \A r \in DOMAIN people' : people'[r].flag =>
           \/ people'[r].email = e
           \/ r \in DOMAIN people /\ people[r].flag /\ people[r].email = people'[r].email,
         NEW q \in AdminProcs, AdminDone(q)
  PROVE  AdPurges'
<1>1. /\ apc'[q] = "idle"
      /\ \A r \in AdminProcs \ {q} : apc'[r] = apc[r] /\ aloc'[r] = aloc[r]
  BY DEF AdRequests, AdminDone, AdminStep
<1>2. \A x : ~Flagged(x) <=> \A s \in DOMAIN people : people[s].email = x => ~people[s].flag
  BY DEF Flagged, RowsOf
<1>3. regained' \subseteq AdminProcs
  BY DEF AdPurges, Regained
<1>4. ASSUME NEW r \in AdminProcs \ regained', apc'[r] \in {"purge_rows", "purge_txn"}
      PROVE  \A s \in DOMAIN people' : people'[s].email = aloc'[r].who => ~people'[s].flag
  <2>1. r # q /\ apc[r] \in {"purge_rows", "purge_txn"} /\ aloc'[r] = aloc[r]
    BY <1>1, <1>4
  <2>2. aloc[r].who # e /\ ~Flagged(aloc[r].who)
    BY <1>4, <2>1 DEF AdPurges, Regained
  <2> QED BY <1>2, <2>1, <2>2
<1> QED BY <1>3, <1>4 DEF AdPurges, Flagged, RowsOf

\* A step that touches no row.
LEMMA AdQuietRows ==
  ASSUME AdRows, AdminRemains, RowsUnchanged
  PROVE  AdRows' /\ AdminRemains'
BY DEF AdRows, AdminRemains, RowsUnchanged, IsAdmin, RowsOf

\* An administrator is one by a row.
LEMMA AdminByRow ==
  AdminRemains <=> mishaps # {} \/ \E r \in DOMAIN people :
                     people[r].email \in People /\ people[r].flag /\ people[r].active
BY DEF AdminRemains, IsAdmin, RowsOf

\* A row more.
LEMMA InsertKeeps ==
  ASSUME AdRows, AdminRemains, NEW row \in Person, Insert(row),
         row.board # NoBoard => boards'[row.board] = "live",
         boards' \in [Boards -> {"unborn", "live", "gone"}],
         \A b \in Boards : boards[b] = "live" => boards'[b] = "live",
         granted' \subseteq People, mishaps' = mishaps
  PROVE  AdRows' /\ AdminRemains'
<1>1. /\ DOMAIN people \subseteq 1..lastRow /\ lastRow \in 1..MaxRows /\ MaxRows \in Nat
      /\ lastRow < MaxRows /\ lastRow' = lastRow + 1
      /\ people' = [r \in DOMAIN people \cup {lastRow'} |-> IF r = lastRow' THEN row ELSE people[r]]
  BY AdminConstants DEF AdRows, Insert, RowIds
<1>2. lastRow' \notin DOMAIN people
  BY <1>1
<1>3. /\ DOMAIN people' = DOMAIN people \cup {lastRow'}
      /\ people'[lastRow'] = row
      /\ \A r \in DOMAIN people : people'[r] = people[r]
  BY <1>1, <1>2
<1>4. DOMAIN people' \subseteq 1..lastRow' /\ lastRow' \in RowIds
  BY <1>1, <1>3 DEF RowIds
<1>5. people' \in [DOMAIN people' -> Person]
  BY <1>1, <1>3 DEF AdRows
<1>6. \A r \in DOMAIN people' : people'[r].board # NoBoard => boards'[people'[r].board] = "live"
  <2>1. ASSUME NEW r \in DOMAIN people, people[r].board # NoBoard
        PROVE  boards'[people[r].board] = "live"
    <3>1. people[r].board \in Boards /\ boards[people[r].board] = "live"
      BY <2>1 DEF AdRows, Person
    <3> QED BY <3>1
  <2> QED BY <1>3, <2>1
<1>7. AdRows'
  BY <1>4, <1>5, <1>6 DEF AdRows
<1>8. AdminRemains'
  <2>1. mishaps' # {} \/ \E r \in DOMAIN people' :
          people'[r].email \in People /\ people'[r].flag /\ people'[r].active
    BY AdminByRow, <1>3
  <2> QED BY <2>1 DEF AdminRemains, IsAdmin, RowsOf
<1> QED BY <1>7, <1>8

\* The rows there are, some columns written over: whoever is an administrator by one that
\* is no longer flagged or active leaves another.
LEMMA OverwriteKeeps ==
  ASSUME AdRows, people' \in [DOMAIN people -> Person], DOMAIN people' = DOMAIN people,
         UNCHANGED lastRow,
         \A r \in DOMAIN people : people'[r].board # NoBoard => boards'[people'[r].board] = "live",
         boards' \in [Boards -> {"unborn", "live", "gone"}],
         granted' \subseteq People, mishaps' \subseteq Mishaps,
         mishaps' # {} \/ \E r \in DOMAIN people :
                            people'[r].email \in People /\ people'[r].flag /\ people'[r].active
  PROVE  AdRows' /\ AdminRemains'
<1>1. AdRows'
  BY DEF AdRows
<1>2. AdminRemains'
  BY DEF AdminRemains, IsAdmin, RowsOf
<1> QED BY <1>1, <1>2

\* Rows go: a flagged one never without a trace, unless who asked has another.
LEMMA EraseKeeps ==
  ASSUME AdRows, AdminRemains, AdPurges, NEW q \in AdminProcs, NEW S, Erase(q, S),
         apc[q] \in {"purge_rows", "purge_txn"} \/ RowsOf(aloc[q].who) = {},
         UNCHANGED lastRow,
         boards' \in [Boards -> {"unborn", "live", "gone"}],
         \A r \in DOMAIN people \ S : people[r].board # NoBoard => boards'[people[r].board] = "live",
         granted' \subseteq People
  PROVE  AdRows' /\ AdminRemains'
<1>1. people' = [r \in DOMAIN people \ S |-> people[r]]
  BY DEF Erase
<1>2. DOMAIN people' = DOMAIN people \ S /\ \A r \in DOMAIN people \ S : people'[r] = people[r]
  BY <1>1
<1>3. mishaps \subseteq mishaps' /\ mishaps' \subseteq Mishaps
  BY DEF Erase, AdRows, Mishaps
<1>4. ASSUME NEW r \in S \cap DOMAIN people, people[r].flag, mishaps' = {}
      PROVE  \E s \in DOMAIN people \ S : people[s].flag /\ people[s].active
  <2> DEFINE lost == {people[s].email : s \in {z \in S : people[z].flag}}
  <2>1. /\ people[r].email \in lost
        /\ \A e \in lost \ {aloc[q].who} : Spared(q, e)
        /\ ~(aloc[q].who \in lost /\ q \in regained)
    BY <1>4 DEF Erase
  <2>2. people[r].email # aloc[q].who
    <3> SUFFICES ASSUME people[r].email = aloc[q].who PROVE FALSE
      OBVIOUS
    <3>1. q \notin regained
      BY <2>1
    <3>2. Flagged(aloc[q].who) /\ RowsOf(aloc[q].who) # {}
      BY <1>4 DEF Flagged, RowsOf
    <3> QED BY <3>1, <3>2 DEF AdPurges
  <2>3. IsAdmin(aloc[q].actor) /\ aloc[q].actor \notin lost \ {aloc[q].who}
    BY <2>1, <2>2 DEF Spared
  <2>4. PICK s \in DOMAIN people :
          people[s].email = aloc[q].actor /\ people[s].flag /\ people[s].active
    BY <2>3 DEF IsAdmin, RowsOf
  <2>5. s \notin S
    <3> SUFFICES ASSUME s \in S PROVE FALSE
      OBVIOUS
    <3>1. aloc[q].actor \in lost
      BY <2>4
    <3>2. aloc[q].actor = aloc[q].who /\ q \notin regained
      BY <2>1, <2>3, <3>1
    <3>3. Flagged(aloc[q].who) /\ RowsOf(aloc[q].who) # {}
      BY <2>4, <3>2 DEF Flagged, RowsOf
    <3> QED BY <3>2, <3>3 DEF AdPurges
  <2> QED BY <2>4, <2>5
<1>5. AdRows'
  BY <1>1, <1>2, <1>3 DEF AdRows
<1>6. mishaps' # {} \/ \E r \in DOMAIN people' :
         people'[r].email \in People /\ people'[r].flag /\ people'[r].active
  <2>1. CASE mishaps' # {}
    BY <2>1
  <2>2. CASE mishaps' = {}
    <3>1. PICK r \in DOMAIN people : people[r].flag /\ people[r].active
      BY <1>3, <2>2, AdminByRow
    <3>2. \E s \in DOMAIN people \ S : people[s].flag /\ people[s].active
      BY <1>4, <2>2, <3>1
    <3>3. \A s \in DOMAIN people : people[s].email \in People
      BY DEF AdRows, Person
    <3> QED BY <1>2, <3>2, <3>3
  <2> QED BY <2>1, <2>2
<1> QED BY <1>5, <1>6 DEF AdminRemains, IsAdmin, RowsOf

-----------------------------------------------------------------------------
\* Rows come.
LEMMA SignUpKeeps ==
  ASSUME AdInv, NEW e \in People, SignUp(e)
  PROVE  AdInv'
<1> DEFINE row == [email |-> e, board |-> NoBoard, owner |-> FALSE, flag |-> FALSE, active |-> TRUE]
<1>1. row \in Person /\ row.board = NoBoard /\ ~row.flag
  BY DEF Person
<1>2. Insert(row) /\ UNCHANGED <<boards, apc, aloc, granted, regained, mishaps>>
  BY DEF SignUp
<1>3. AdRows /\ AdminRemains /\ AdRequests /\ AdPurges
  BY DEF AdInv
<1>4. boards \in [Boards -> {"unborn", "live", "gone"}] /\ granted \subseteq People
  BY <1>3 DEF AdRows
<1> HIDE DEF row
<1>5. AdRows' /\ AdminRemains'
  BY <1>1, <1>2, <1>3, <1>4, InsertKeeps
<1>6. AdRequests'
  BY <1>2, <1>3 DEF AdRequests
<1>7. AdPurges'
  BY <1>1, <1>2, <1>3, AdPurgesKept DEF Insert
<1> QED BY <1>5, <1>6, <1>7 DEF AdInv

\* An accepted invitation.
LEMMA JoinBoardKeeps ==
  ASSUME AdInv, NEW e \in People, NEW b \in Boards, JoinBoard(e, b)
  PROVE  AdInv'
<1> DEFINE row == [email |-> e, board |-> b, owner |-> FALSE, flag |-> FALSE, active |-> TRUE]
<1>1. row \in Person /\ row.board = b /\ ~row.flag
  BY DEF Person
<1>2. Insert(row) /\ boards[b] = "live" /\ UNCHANGED <<boards, apc, aloc, granted, regained, mishaps>>
  BY DEF JoinBoard
<1>3. AdRows /\ AdminRemains /\ AdRequests /\ AdPurges
  BY DEF AdInv
<1>4. boards \in [Boards -> {"unborn", "live", "gone"}] /\ granted \subseteq People
  BY <1>3 DEF AdRows
<1> HIDE DEF row
<1>5. AdRows' /\ AdminRemains'
  BY <1>1, <1>2, <1>3, <1>4, InsertKeeps
<1>6. AdRequests'
  BY <1>2, <1>3 DEF AdRequests
<1>7. AdPurges'
  BY <1>1, <1>2, <1>3, AdPurgesKept DEF Insert
<1> QED BY <1>5, <1>6, <1>7 DEF AdInv

\* A new workspace: the creator's row without one, or a row more.
LEMMA CreateBoardKeeps ==
  ASSUME AdInv, NEW r \in DOMAIN people, NEW b \in Boards, CreateBoard(r, b)
  PROVE  AdInv'
<1>1. /\ AdRows /\ AdminRemains /\ AdRequests /\ AdPurges
      /\ boards' = [boards EXCEPT ![b] = "live"] /\ UNCHANGED <<apc, aloc, granted, regained, mishaps>>
  BY DEF AdInv, CreateBoard
<1>2. /\ boards' \in [Boards -> {"unborn", "live", "gone"}] /\ boards'[b] = "live"
      /\ \A c \in Boards : boards[c] = "live" => boards'[c] = "live"
      /\ granted \subseteq People /\ mishaps \subseteq Mishaps
  BY <1>1 DEF AdRows
<1>3. people[r] \in Person
  BY <1>1 DEF AdRows
<1>4. CASE people[r].board = NoBoard
  <2>1. people' = [people EXCEPT ![r].board = b, ![r].owner = TRUE] /\ UNCHANGED lastRow
    BY <1>4 DEF CreateBoard
  <2>2. /\ DOMAIN people' = DOMAIN people
        /\ people'[r] = [people[r] EXCEPT !.board = b, !.owner = TRUE]
        /\ \A s \in DOMAIN people \ {r} : people'[s] = people[s]
    BY <2>1
  <2>3. /\ people'[r] \in Person /\ people'[r].board = b /\ people'[r].email = people[r].email
        /\ people'[r].flag = people[r].flag /\ people'[r].active = people[r].active
    BY <1>3, <2>2 DEF Person
  <2>4. people' \in [DOMAIN people -> Person]
    BY <1>1, <2>1, <2>2, <2>3 DEF AdRows
  <2>5. ASSUME NEW s \in DOMAIN people, people'[s].board # NoBoard
        PROVE  boards'[people'[s].board] = "live"
    <3>1. CASE s = r
      BY <3>1, <2>3, <1>2
    <3>2. CASE s # r
      <4>1. people'[s] = people[s] /\ people[s] \in Person
        BY <3>2, <2>2, <1>1 DEF AdRows
      <4>2. people[s].board \in Boards /\ boards[people[s].board] = "live"
        BY <4>1, <2>5, <1>1 DEF AdRows, Person
      <4> QED BY <4>1, <4>2, <1>2
    <3> QED BY <3>1, <3>2
  <2>6. mishaps' # {} \/ \E s \in DOMAIN people :
          people'[s].email \in People /\ people'[s].flag /\ people'[s].active
    BY <1>1, <2>2, <2>3, AdminByRow
  <2>7. AdRows' /\ AdminRemains'
    BY <1>1, <1>2, <2>1, <2>2, <2>4, <2>5, <2>6, OverwriteKeeps
  <2>8. AdRequests'
    BY <1>1 DEF AdRequests
  <2>9. AdPurges'
    BY <1>1, <2>2, <2>3, AdPurgesKept
  <2> QED BY <2>7, <2>8, <2>9 DEF AdInv
<1>5. CASE people[r].board # NoBoard
  <2> DEFINE row == [people[r] EXCEPT !.board = b, !.owner = TRUE, !.flag = FALSE]
  <2>1. Insert(row)
    BY <1>5 DEF CreateBoard
  <2>2. row \in Person /\ row.board = b /\ ~row.flag
    BY <1>3 DEF Person
  <2> HIDE DEF row
  <2>3. AdRows' /\ AdminRemains'
    BY <1>1, <1>2, <2>1, <2>2, InsertKeeps
  <2>4. AdRequests'
    BY <1>1 DEF AdRequests
  <2>5. AdPurges'
    BY <1>1, <2>1, <2>2, AdPurgesKept DEF Insert
  <2> QED BY <2>3, <2>4, <2>5 DEF AdInv
<1> QED BY <1>4, <1>5

-----------------------------------------------------------------------------
\* A request begins: nothing but its step and data changes.
LEMMA BeginningKeeps ==
  ASSUME AdInv, NEW q \in AdminProcs,
         CreateAdmin(q) \/ SetAdminActive(q) \/ EditPerson(q) \/ DeleteBoard(q)
         \/ DeleteUser(q) \/ DeleteAccount(q)
  PROVE  AdInv'
<1>1. AdRows /\ AdminRemains /\ AdRequests /\ AdPurges /\ NoAdminLoc \in AdminLocal
  BY NoAdminLocType DEF AdInv
<1>2. \A r \in DOMAIN people : r \in 0..MaxRows
  BY <1>1, AdminConstants DEF AdRows, RowIds
<1>3. \E step \in AdRequestSteps \ {"purge_rows", "purge_txn"}, l \in AdminLocal :
        AdminStep(q, step, l) /\ Aimed(step, l) /\ RowsUnchanged /\ UNCHANGED regained
  <2>1. CASE CreateAdmin(q)
    <3>1. PICK a \in People, e \in People :
            AdminStep(q, "find", [NoAdminLoc EXCEPT !.actor = a, !.who = e, !.on = TRUE])
            /\ RowsUnchanged /\ UNCHANGED regained
      BY <2>1 DEF CreateAdmin, AdminBegin
    <3>2. [NoAdminLoc EXCEPT !.actor = a, !.who = e, !.on = TRUE] \in AdminLocal
          /\ Aimed("find", [NoAdminLoc EXCEPT !.actor = a, !.who = e, !.on = TRUE])
      BY <1>1 DEF AdminLocal, Aimed, NoAdminLoc
    <3> QED BY <3>1, <3>2 DEF AdRequestSteps
  <2>2. CASE SetAdminActive(q)
    <3>1. PICK a \in People, r \in DOMAIN people, on \in BOOLEAN :
            AdminStep(q, "email", [NoAdminLoc EXCEPT !.actor = a, !.row = r, !.on = on])
            /\ RowsUnchanged /\ UNCHANGED regained
      BY <2>2 DEF SetAdminActive, AdminBegin
    <3>2. [NoAdminLoc EXCEPT !.actor = a, !.row = r, !.on = on] \in AdminLocal
          /\ Aimed("email", [NoAdminLoc EXCEPT !.actor = a, !.row = r, !.on = on])
      BY <1>1, <1>2 DEF AdminLocal, Aimed
    <3> QED BY <3>1, <3>2 DEF AdRequestSteps
  <2>3. CASE EditPerson(q)
    <3>1. PICK a \in People, r \in DOMAIN people, on \in BOOLEAN :
            AdminStep(q, "edit", [NoAdminLoc EXCEPT !.actor = a, !.row = r, !.on = on])
            /\ RowsUnchanged /\ UNCHANGED regained
      BY <2>3 DEF EditPerson, AdminBegin
    <3>2. [NoAdminLoc EXCEPT !.actor = a, !.row = r, !.on = on] \in AdminLocal
          /\ Aimed("edit", [NoAdminLoc EXCEPT !.actor = a, !.row = r, !.on = on])
      BY <1>1, <1>2 DEF AdminLocal, Aimed
    <3> QED BY <3>1, <3>2 DEF AdRequestSteps
  <2>4. CASE DeleteBoard(q)
    <3>1. PICK a \in People, b \in Boards :
            AdminStep(q, "drop_board", [NoAdminLoc EXCEPT !.actor = a, !.board = b])
            /\ RowsUnchanged /\ UNCHANGED regained
      BY <2>4 DEF DeleteBoard, AdminBegin
    <3>2. [NoAdminLoc EXCEPT !.actor = a, !.board = b] \in AdminLocal
          /\ Aimed("drop_board", [NoAdminLoc EXCEPT !.actor = a, !.board = b])
      BY <1>1 DEF AdminLocal, Aimed, NoAdminLoc
    <3> QED BY <3>1, <3>2 DEF AdRequestSteps
  <2>5. CASE DeleteUser(q)
    <3>1. PICK a \in People, r \in DOMAIN people :
            AdminStep(q, "purge_email", [NoAdminLoc EXCEPT !.actor = a, !.row = r])
            /\ RowsUnchanged /\ UNCHANGED regained
      BY <2>5 DEF DeleteUser, AdminBegin
    <3>2. [NoAdminLoc EXCEPT !.actor = a, !.row = r] \in AdminLocal
          /\ Aimed("purge_email", [NoAdminLoc EXCEPT !.actor = a, !.row = r])
      BY <1>1, <1>2 DEF AdminLocal, Aimed
    <3> QED BY <3>1, <3>2 DEF AdRequestSteps
  <2>6. CASE DeleteAccount(q)
    <3>1. PICK e \in People :
            AdminStep(q, "purge_check", [NoAdminLoc EXCEPT !.who = e]) /\ RowsUnchanged
            /\ UNCHANGED regained
      BY <2>6 DEF DeleteAccount, AdminBegin
    <3>2. [NoAdminLoc EXCEPT !.who = e] \in AdminLocal
          /\ Aimed("purge_check", [NoAdminLoc EXCEPT !.who = e])
      BY <1>1 DEF AdminLocal, Aimed, NoAdminLoc
    <3> QED BY <3>1, <3>2 DEF AdRequestSteps
  <2> QED BY <2>1, <2>2, <2>3, <2>4, <2>5, <2>6
<1>4. AdRequests'
  BY <1>1, <1>3, AdStepKeeps
<1>5. AdRows' /\ AdminRemains'
  BY <1>1, <1>3, AdQuietRows
<1>6. AdPurges'
  BY <1>1, <1>3, AdPurgesMove DEF RowsUnchanged
<1> QED BY <1>4, <1>5, <1>6 DEF AdInv

\* A request reads, or fails.
LEMMA ReadingKeeps ==
  ASSUME AdInv, NEW q \in AdminProcs,
         FindAdmin(q) \/ EmailForId(q) \/ EmailOfUserId(q) \/ PurgeCheck(q) \/ PurgeRows(q)
         \/ AdminFail(q)
  PROVE  AdInv'
<1>1. AdRows /\ AdminRemains /\ AdRequests /\ AdPurges /\ RowsUnchanged
  BY DEF AdInv, FindAdmin, EmailForId, EmailOfUserId, PurgeCheck, PurgeRows, AdminFail
<1>2. aloc[q] \in AdminLocal /\ Aimed(apc[q], aloc[q])
  BY <1>1 DEF AdRequests
<1>3. ASSUME NEW r \in DOMAIN people
      PROVE  people[r].email \in People
  BY <1>1 DEF AdRows, Person
<1>4. AdminDone(q) \/ \E step \in AdRequestSteps, l \in AdminLocal :
        AdminStep(q, step, l) /\ Aimed(step, l)
  <2>1. CASE FindAdmin(q)
    <3>1. apc[q] = "find" /\ (AdminDone(q) \/ AdminStep(q, "insert", aloc[q])
                             \/ AdminStep(q, "set", aloc[q]))
      BY <2>1 DEF FindAdmin
    <3>2. Aimed("insert", aloc[q]) /\ Aimed("set", aloc[q])
      BY <3>1, <1>2 DEF Aimed
    <3> QED BY <3>1, <3>2, <1>2 DEF AdRequestSteps
  <2>2. CASE EmailForId(q)
    <3> DEFINE l == [aloc[q] EXCEPT !.who = people[aloc[q].row].email]
    <3>1. AdminDone(q)
          \/ (/\ aloc[q].row \in DOMAIN people
              /\ ~(people[aloc[q].row].email = aloc[q].actor /\ ~aloc[q].on)
              /\ AdminStep(q, "set", l))
      BY <2>2 DEF EmailForId
    <3>2. ASSUME aloc[q].row \in DOMAIN people,
                 ~(people[aloc[q].row].email = aloc[q].actor /\ ~aloc[q].on)
          PROVE  l \in AdminLocal /\ Aimed("set", l)
      <4>1. people[aloc[q].row].email \in People
        BY <3>2, <1>3
      <4> QED BY <4>1, <3>2, <1>2 DEF AdminLocal, Aimed
    <3> QED BY <3>1, <3>2 DEF AdRequestSteps
  <2>3. CASE EmailOfUserId(q)
    <3> DEFINE l == [aloc[q] EXCEPT !.who = people[aloc[q].row].email]
    <3>1. AdminDone(q)
          \/ (aloc[q].row \in DOMAIN people /\ AdminStep(q, "purge_check", l))
      BY <2>3 DEF EmailOfUserId
    <3>2. ASSUME aloc[q].row \in DOMAIN people
          PROVE  l \in AdminLocal /\ Aimed("purge_check", l)
      <4>1. people[aloc[q].row].email \in People
        BY <3>2, <1>3
      <4> QED BY <4>1, <1>2 DEF AdminLocal, Aimed
    <3> QED BY <3>1, <3>2 DEF AdRequestSteps
  <2>4. CASE PurgeCheck(q)
    <3>1. apc[q] = "purge_check" /\ (AdminDone(q) \/ AdminStep(q, "purge_rows", aloc[q]))
      BY <2>4 DEF PurgeCheck
    <3>2. Aimed("purge_rows", aloc[q])
      BY <3>1, <1>2 DEF Aimed
    <3> QED BY <3>1, <3>2, <1>2 DEF AdRequestSteps
  <2>5. CASE PurgeRows(q)
    <3> DEFINE S == {people[r].board : r \in {s \in RowsOf(aloc[q].who) : people[s].owner}} \cap Boards
               l == [aloc[q] EXCEPT !.owned = S]
    <3>1. apc[q] = "purge_rows" /\ (AdminDone(q) \/ AdminStep(q, "purge_txn", l))
      BY <2>5 DEF PurgeRows
    <3>2. S \in SUBSET Boards
      OBVIOUS
    <3> HIDE DEF S
    <3>3. l \in AdminLocal /\ (apc[q] = "purge_rows" => Aimed("purge_txn", l))
      BY <1>2, <3>2 DEF AdminLocal, Aimed
    <3> QED BY <3>1, <3>3 DEF AdRequestSteps
  <2>6. CASE AdminFail(q)
    BY <2>6 DEF AdminFail
  <2> QED BY <2>1, <2>2, <2>3, <2>4, <2>5, <2>6, 
             FindAdmin(q) \/ EmailForId(q) \/ EmailOfUserId(q) \/ PurgeCheck(q) \/ PurgeRows(q)
             \/ AdminFail(q)
<1>5. AdRequests'
  BY <1>1, <1>4, AdStepKeeps, AdDoneKeeps
<1>6. AdRows' /\ AdminRemains'
  BY <1>1, AdQuietRows
<1>7. AdPurges'
  <2>1. CASE FindAdmin(q) \/ EmailForId(q) \/ EmailOfUserId(q) \/ AdminFail(q)
    <3>1. regained' = regained /\ \E step \in {"idle", "insert", "set", "purge_check"} : \E l :
            AdminStep(q, step, l)
      BY <2>1 DEF FindAdmin, EmailForId, EmailOfUserId, AdminFail, AdminDone
    <3> QED BY <1>1, <3>1, AdPurgesMove DEF RowsUnchanged
  <2>2. CASE PurgeRows(q)
    <3>1. regained' = regained /\ apc[q] = "purge_rows"
          /\ \/ AdminStep(q, "idle", NoAdminLoc)
             \/ \E S : AdminStep(q, "purge_txn", [aloc[q] EXCEPT !.owned = S])
      BY <2>2 DEF PurgeRows, AdminDone
    <3>2. \A S : [aloc[q] EXCEPT !.owned = S].who = aloc[q].who
      BY <1>2 DEF AdminLocal
    <3> QED BY <1>1, <3>1, <3>2, AdPurgesMove DEF RowsUnchanged
  <2>3. CASE PurgeCheck(q)
    <3>1. /\ regained' = regained \ {q}
          /\ \/ apc'[q] = "idle"
             \/ ~Flagged(aloc[q].who) /\ aloc'[q].who = aloc[q].who
          /\ \A r \in AdminProcs \ {q} : apc'[r] = apc[r] /\ aloc'[r] = aloc[r]
      BY <1>1, <2>3 DEF PurgeCheck, AdminDone, AdminStep, AdRequests
    <3>2. /\ UNCHANGED people
          /\ \A x : ~Flagged(x) <=> \A s \in DOMAIN people : people[s].email = x => ~people[s].flag
      BY <1>1 DEF RowsUnchanged, Flagged, RowsOf
    <3>3. regained' \subseteq AdminProcs
      BY <1>1, <3>1 DEF AdPurges
    <3>4. ASSUME NEW r \in AdminProcs \ regained', apc'[r] \in {"purge_rows", "purge_txn"}
          PROVE  \A s \in DOMAIN people' : people'[s].email = aloc'[r].who => ~people'[s].flag
      <4>1. CASE r = q
        BY <3>1, <3>2, <3>4, <4>1
      <4>2. CASE r # q
        BY <1>1, <3>1, <3>2, <3>4, <4>2 DEF AdPurges
      <4> QED BY <4>1, <4>2
    <3> QED BY <3>3, <3>4 DEF AdPurges, Flagged, RowsOf
  <2> QED BY <2>1, <2>2, <2>3
<1> QED BY <1>5, <1>6, <1>7 DEF AdInv

\* The flag is set or taken away: who decides is left an administrator, or was none.
LEMMA SetFlagKeeps ==
  ASSUME AdInv, NEW q \in AdminProcs, SetFlag(q)
  PROVE  AdInv'
<1> DEFINE l == aloc[q]
<1>1. AdRows /\ AdminRemains /\ AdRequests /\ AdPurges /\ apc[q] = "set" /\ AdminDone(q)
      /\ UNCHANGED <<lastRow, boards, adminOps>>
  BY DEF AdInv, SetFlag
<1>2. l \in AdminLocal /\ l.who \in People /\ (~l.on => l.who # l.actor) /\ l.on \in BOOLEAN
  BY <1>1 DEF AdRequests, Aimed, AdminLocal
<1>3. people' = [r \in DOMAIN people |->
                   IF r \in RowsOf(l.who) THEN [people[r] EXCEPT !.flag = l.on] ELSE people[r]]
  BY DEF SetFlag
<1>4. mishaps' = IF ~l.on /\ ~IsAdmin(l.actor) THEN mishaps \cup {"crossed"} ELSE mishaps
  BY DEF SetFlag
<1>5. granted' \subseteq People
  BY <1>1, <1>2 DEF SetFlag, AdRows
<1>6. mishaps' \subseteq Mishaps /\ mishaps \subseteq mishaps'
  BY <1>1, <1>4 DEF AdRows, Mishaps
<1>7. ASSUME NEW r \in DOMAIN people
      PROVE  /\ people'[r] \in Person
             /\ people'[r].board = people[r].board /\ people'[r].email = people[r].email
             /\ people'[r].active = people[r].active
             /\ people'[r].flag = IF people[r].email = l.who THEN l.on ELSE people[r].flag
  <2>1. people[r] \in Person
    BY <1>1 DEF AdRows
  <2>2. CASE r \in RowsOf(l.who)
    <3>1. people'[r] = [people[r] EXCEPT !.flag = l.on] /\ people[r].email = l.who
      BY <2>2, <1>3 DEF RowsOf
    <3> QED BY <3>1, <2>1, <1>2 DEF Person
  <2>3. CASE r \notin RowsOf(l.who)
    <3>1. people'[r] = people[r] /\ people[r].email # l.who
      BY <2>3, <1>3 DEF RowsOf
    <3> QED BY <3>1, <2>1
  <2> QED BY <2>2, <2>3
<1>8. DOMAIN people' = DOMAIN people /\ people' \in [DOMAIN people -> Person]
  BY <1>3, <1>7
<1>9. mishaps' # {} \/ \E r \in DOMAIN people :
        people'[r].email \in People /\ people'[r].flag /\ people'[r].active
  <2>1. CASE l.on
    BY <2>1, <1>1, <1>6, <1>7, AdminByRow
  <2>2. CASE ~l.on /\ ~IsAdmin(l.actor)
    BY <2>2, <1>4
  <2>3. CASE ~l.on /\ IsAdmin(l.actor)
    <3>1. PICK r \in DOMAIN people :
            people[r].email = l.actor /\ people[r].flag /\ people[r].active
      BY <2>3 DEF IsAdmin, RowsOf
    <3>2. people[r].email \in People
      BY <1>1 DEF AdRows, Person
    <3>3. people[r].email # l.who
      BY <3>1, <2>3, <1>2
    <3> QED BY <3>1, <3>2, <3>3, <1>7
  <2> QED BY <2>1, <2>2, <2>3
<1>10. /\ boards' \in [Boards -> {"unborn", "live", "gone"}]
       /\ \A r \in DOMAIN people : people'[r].board # NoBoard => boards'[people'[r].board] = "live"
  BY <1>1, <1>7 DEF AdRows
<1>11. AdRows' /\ AdminRemains'
  BY <1>1, <1>5, <1>6, <1>8, <1>9, <1>10, OverwriteKeeps
<1>12. AdRequests'
  BY <1>1, AdDoneKeeps
<1>13. AdPurges'
  <2>1. regained' = IF l.on THEN regained \cup Regained(l.who) ELSE regained
    BY DEF SetFlag
  <2>2. CASE l.on
    <3>1. regained' = regained \cup Regained(l.who)
      BY <2>1, <2>2
    <3>2. \A r \in DOMAIN people' : people'[r].flag =>
            \/ people'[r].email = l.who
            \/ r \in DOMAIN people /\ people[r].flag /\ people[r].email = people'[r].email
      BY <1>7, <1>8
    <3> HIDE DEF l
    <3> QED BY <1>1, <3>1, <3>2, AdPurgesGrant
  <2>3. CASE ~l.on
    BY <1>1, <1>7, <1>8, <2>1, <2>3, AdPurgesMove DEF AdminDone
  <2> QED BY <2>2, <2>3
<1> QED BY <1>11, <1>12, <1>13 DEF AdInv

\* One row is switched on or off.
LEMMA WriteActiveKeeps ==
  ASSUME AdInv, NEW q \in AdminProcs, WriteActive(q)
  PROVE  AdInv'
<1> DEFINE l == aloc[q]
<1>1. AdRows /\ AdminRemains /\ AdRequests /\ AdPurges /\ AdminDone(q)
      /\ UNCHANGED <<lastRow, boards, adminOps, granted, regained>>
  BY DEF AdInv, WriteActive
<1>2. l \in AdminLocal /\ l.on \in BOOLEAN
  BY <1>1 DEF AdRequests, AdminLocal
<1>3. AdRequests'
  BY <1>1, AdDoneKeeps
<1>4. CASE l.row \notin DOMAIN people
  <2>1. RowsUnchanged
    BY <1>1, <1>4 DEF WriteActive, RowsUnchanged
  <2>2. AdPurges'
    BY <2>1, <1>1, AdPurgesMove DEF RowsUnchanged, AdminDone
  <2> QED BY <2>1, <2>2, <1>1, <1>3, AdQuietRows DEF AdInv
<1>5. CASE l.row \in DOMAIN people
  <2>1. /\ people' = [people EXCEPT ![l.row].active = l.on]
        /\ mishaps' = IF people[l.row].flag /\ ~l.on /\ ~Spared(q, people[l.row].email)
                      THEN mishaps \cup {"deactivated"} ELSE mishaps
    BY <1>5 DEF WriteActive
  <2>2. /\ DOMAIN people' = DOMAIN people
        /\ people'[l.row] = [people[l.row] EXCEPT !.active = l.on]
        /\ \A r \in DOMAIN people \ {l.row} : people'[r] = people[r]
    BY <2>1, <1>5
  <2>3. people[l.row] \in Person
    BY <1>1, <1>5 DEF AdRows
  <2>4. /\ people'[l.row] \in Person /\ people'[l.row].board = people[l.row].board
        /\ people'[l.row].email = people[l.row].email /\ people'[l.row].flag = people[l.row].flag
        /\ people'[l.row].active = l.on
    BY <2>2, <2>3, <1>2 DEF Person
  <2>5. people' \in [DOMAIN people -> Person]
    BY <1>1, <2>1, <2>2, <2>4 DEF AdRows
  <2>6. mishaps \subseteq mishaps' /\ mishaps' \subseteq Mishaps
    BY <1>1, <2>1 DEF AdRows, Mishaps
  <2>7. mishaps' # {} \/ \E r \in DOMAIN people :
          people'[r].email \in People /\ people'[r].flag /\ people'[r].active
    <3>1. CASE mishaps # {}
      BY <3>1, <2>6
    <3>2. CASE mishaps = {}
      <4>1. PICK r \in DOMAIN people :
              people[r].email \in People /\ people[r].flag /\ people[r].active
        BY <1>1, <3>2, AdminByRow
      <4>2. CASE r # l.row
        BY <4>1, <4>2, <2>2
      <4>3. CASE r = l.row /\ l.on
        BY <4>1, <4>3, <2>4
      <4>4. CASE r = l.row /\ ~l.on /\ ~Spared(q, people[l.row].email)
        BY <4>1, <4>4, <2>1
      <4>5. CASE r = l.row /\ Spared(q, people[l.row].email)
        <5>1. PICK a \in DOMAIN people :
                people[a].email = l.actor /\ people[a].flag /\ people[a].active
          BY <4>5 DEF Spared, IsAdmin, RowsOf
        <5>2. a # l.row
          BY <4>5, <5>1 DEF Spared
        <5>3. people[a].email \in People
          BY <1>1 DEF AdRows, Person
        <5> QED BY <5>1, <5>2, <5>3, <2>2
      <4> QED BY <1>2, <4>2, <4>3, <4>4, <4>5
    <3> QED BY <3>1, <3>2
  <2>8. /\ boards' \in [Boards -> {"unborn", "live", "gone"}] /\ granted' \subseteq People
        /\ \A r \in DOMAIN people : people'[r].board # NoBoard => boards'[people'[r].board] = "live"
    <3>1. \A r \in DOMAIN people : people'[r].board = people[r].board
      BY <2>2, <2>4
    <3> QED BY <3>1, <1>1 DEF AdRows
  <2>9. AdRows' /\ AdminRemains'
    BY <1>1, <2>2, <2>5, <2>6, <2>7, <2>8, OverwriteKeeps
  <2>10. AdPurges'
    BY <1>1, <2>2, <2>4, AdPurgesMove DEF AdminDone
  <2> QED BY <2>9, <2>10, <1>3 DEF AdInv
<1> QED BY <1>4, <1>5

\* A new administrator.
LEMMA InsertAdminKeeps ==
  ASSUME AdInv, NEW q \in AdminProcs, InsertAdmin(q)
  PROVE  AdInv'
<1> DEFINE row == [email |-> aloc[q].who, board |-> NoBoard, owner |-> FALSE, flag |-> TRUE,
                   active |-> TRUE]
<1>1. /\ AdRows /\ AdminRemains /\ AdRequests /\ AdPurges /\ apc[q] = "insert" /\ AdminDone(q)
      /\ Insert(row) /\ granted' = granted \cup {aloc[q].who} /\ UNCHANGED <<boards, mishaps>>
      /\ regained' = regained \cup Regained(aloc[q].who)
  BY DEF AdInv, InsertAdmin
<1>2. aloc[q].who \in People
  BY <1>1 DEF AdRequests, Aimed
<1>3. row \in Person /\ row.board = NoBoard /\ row.email = aloc[q].who
  BY <1>2 DEF Person
<1>4. boards \in [Boards -> {"unborn", "live", "gone"}] /\ granted' \subseteq People
  BY <1>1, <1>2 DEF AdRows
<1> HIDE DEF row
<1>5. AdRows' /\ AdminRemains'
  BY <1>1, <1>3, <1>4, InsertKeeps
<1>6. AdRequests'
  BY <1>1, AdDoneKeeps
<1>7. AdPurges'
  BY <1>1, <1>3, AdPurgesGrant DEF Insert
<1> QED BY <1>5, <1>6, <1>7 DEF AdInv

\* A workspace goes, its members' rows with it.
LEMMA DropBoardKeeps ==
  ASSUME AdInv, NEW q \in AdminProcs, DropBoard(q)
  PROVE  AdInv'
<1> DEFINE b == aloc[q].board
           S == {r \in DOMAIN people : people[r].board = b}
<1>1. /\ AdRows /\ AdminRemains /\ AdRequests /\ AdPurges /\ apc[q] = "drop_board" /\ AdminDone(q)
      /\ boards' = [boards EXCEPT ![b] = "gone"] /\ Erase(q, S)
      /\ UNCHANGED <<lastRow, granted, regained>>
  BY DEF AdInv, DropBoard
<1>2. b \in Boards
  BY <1>1 DEF AdRequests, Aimed
<1>3. /\ boards' \in [Boards -> {"unborn", "live", "gone"}] /\ granted' \subseteq People
      /\ \A r \in DOMAIN people \ S : people[r].board # NoBoard => boards'[people[r].board] = "live"
  <2>1. boards' \in [Boards -> {"unborn", "live", "gone"}] /\ granted' \subseteq People
    BY <1>1 DEF AdRows
  <2>2. ASSUME NEW r \in DOMAIN people \ S, people[r].board # NoBoard
        PROVE  boards'[people[r].board] = "live"
    <3>1. people[r].board \in Boards \ {b} /\ boards[people[r].board] = "live"
      BY <2>2, <1>1 DEF AdRows, Person
    <3>2. boards \in [Boards -> {"unborn", "live", "gone"}]
      BY <1>1 DEF AdRows
    <3> QED BY <3>1, <3>2, <1>1
  <2> QED BY <2>1, <2>2
<1> HIDE DEF b, S
<1>4. RowsOf(aloc[q].who) = {}
  <2>1. aloc[q].who \notin People
    BY <1>1, AdminConstants DEF AdRequests, Aimed
  <2> QED BY <1>1, <2>1 DEF RowsOf, AdRows, Person
<1>5. AdRows' /\ AdminRemains'
  BY <1>1, <1>3, <1>4, EraseKeeps
<1>6. AdRequests'
  BY <1>1, AdDoneKeeps
<1>7. AdPurges'
  BY <1>1, AdPurgesMove DEF Erase, AdminDone
<1> QED BY <1>5, <1>6, <1>7 DEF AdInv

\* An account goes, its workspaces and their members' rows with it.
LEMMA PurgeTxnKeeps ==
  ASSUME AdInv, NEW q \in AdminProcs, PurgeTxn(q)
  PROVE  AdInv'
<1> DEFINE l == aloc[q]
           S == RowsOf(l.who) \cup {r \in DOMAIN people : people[r].board \in l.owned}
<1>1. /\ AdRows /\ AdminRemains /\ AdRequests /\ AdPurges /\ AdminDone(q)
      /\ boards' = [b \in Boards |-> IF b \in l.owned THEN "gone" ELSE boards[b]]
      /\ Erase(q, S) /\ granted' = granted \ {l.who} /\ UNCHANGED <<lastRow, regained>>
      /\ apc[q] = "purge_txn"
  BY DEF AdInv, PurgeTxn
<1>2. /\ boards' \in [Boards -> {"unborn", "live", "gone"}] /\ granted' \subseteq People
      /\ \A r \in DOMAIN people \ S : people[r].board # NoBoard => boards'[people[r].board] = "live"
  <2>1. boards' \in [Boards -> {"unborn", "live", "gone"}] /\ granted' \subseteq People
    BY <1>1 DEF AdRows
  <2>2. ASSUME NEW r \in DOMAIN people \ S, people[r].board # NoBoard
        PROVE  boards'[people[r].board] = "live"
    <3>1. people[r].board \in Boards \ l.owned /\ boards[people[r].board] = "live"
      BY <2>2, <1>1 DEF AdRows, Person
    <3> QED BY <3>1, <1>1
  <2> QED BY <2>1, <2>2
<1> HIDE DEF l, S
<1>3. AdRows' /\ AdminRemains'
  BY <1>1, <1>2, EraseKeeps
<1>4. AdRequests'
  BY <1>1, AdDoneKeeps
<1>5. AdPurges'
  BY <1>1, AdPurgesMove DEF Erase, AdminDone
<1> QED BY <1>3, <1>4, <1>5 DEF AdInv

-----------------------------------------------------------------------------
\* Every step keeps the invariant.
LEMMA AdminStepKeeps ==
  ASSUME AdInv, [AdminNext]_adminVars
  PROVE  AdInv'
<1>1. CASE \E e \in People : SignUp(e) \/ \E b \in Boards : JoinBoard(e, b)
  BY <1>1, SignUpKeeps, JoinBoardKeeps
<1>2. CASE \E r \in DOMAIN people, b \in Boards : CreateBoard(r, b)
  BY <1>2, CreateBoardKeeps
<1>3. ASSUME NEW q \in AdminProcs,
             \/ CreateAdmin(q) \/ SetAdminActive(q) \/ EditPerson(q) \/ DeleteBoard(q)
             \/ DeleteUser(q) \/ DeleteAccount(q)
      PROVE  AdInv'
  BY <1>3, BeginningKeeps
<1>4. ASSUME NEW q \in AdminProcs,
             \/ FindAdmin(q) \/ EmailForId(q) \/ EmailOfUserId(q) \/ PurgeCheck(q)
             \/ PurgeRows(q) \/ AdminFail(q)
      PROVE  AdInv'
  BY <1>4, ReadingKeeps
<1>5. ASSUME NEW q \in AdminProcs,
             InsertAdmin(q) \/ SetFlag(q) \/ WriteActive(q) \/ DropBoard(q) \/ PurgeTxn(q)
      PROVE  AdInv'
  BY <1>5, InsertAdminKeeps, SetFlagKeeps, WriteActiveKeeps, DropBoardKeeps, PurgeTxnKeeps
<1>6. CASE UNCHANGED adminVars
  BY <1>6 DEF adminVars, AdInv, AdRows, AdRequests, AdPurges, AdminRemains, IsAdmin, Flagged, RowsOf
<1> QED BY <1>1, <1>2, <1>3, <1>4, <1>5, <1>6 DEF AdminNext

\* It holds at first: the operator is the one administrator.
LEMMA AdminFirst == AdminInit => AdInv
<1> SUFFICES ASSUME AdminInit PROVE AdInv
  OBVIOUS
<1>1. /\ people = [r \in {1} |-> [email |-> Operator, board |-> NoBoard, owner |-> FALSE,
                                  flag |-> TRUE, active |-> TRUE]]
      /\ lastRow = 1 /\ boards = [b \in Boards |-> "unborn"] /\ granted = {Operator} /\ mishaps = {}
  BY DEF AdminInit
<1>2. DOMAIN people = {1} /\ people[1] \in Person /\ people[1].board = NoBoard
      /\ people[1].email = Operator /\ people[1].flag /\ people[1].active
  BY <1>1, AdminConstants DEF Person
<1>3. AdRows
  <2>1. people \in [DOMAIN people -> Person]
    BY <1>1, <1>2
  <2>2. DOMAIN people \subseteq 1..lastRow /\ lastRow \in RowIds
    BY <1>1, <1>2, NoAdminLocType
  <2> QED BY <1>1, <1>2, <2>1, <2>2, AdminConstants DEF AdRows
<1>4. AdRequests
  BY NoAdminLocType DEF AdminInit, AdRequests, AdRequestSteps
<1>5. AdminRemains
  BY <1>2, AdminByRow, AdminConstants
<1>6. AdPurges
  BY DEF AdminInit, AdPurges
<1> QED BY <1>3, <1>4, <1>5, <1>6 DEF AdInv

\* The types of the rows of users and of the console's requests; no row refers to a
\* workspace that is gone.
THEOREM AdminTypes == AdminSpec => []AdminTypeOK
<1>1. AdInv => AdminTypeOK
  BY DEF AdInv, AdRows, AdRequests, AdPurges, AdminTypeOK, AdRequestSteps, AdminLocal, Mishaps
<1> QED BY <1>1, AdminFirst, AdminStepKeeps, PTL DEF AdminSpec

\* Whatever is revoked, deactivated or deleted at the same time, and for any people,
\* workspaces and rows: someone can enter the console (manageAdmins.js, adminUsers.js,
\* accountDeletion.js), unless one of the four cases without a guard took the role from the
\* last one.  It rests on the checks together: a purge past its check is of no administrator
\* unless one was made of it since, and who revokes, deactivates or deletes is left one.
THEOREM AdminAlways == AdminSpec => []AdminRemains
<1>1. AdInv => AdminRemains
  BY DEF AdInv
<1> QED BY <1>1, AdminFirst, AdminStepKeeps, PTL DEF AdminSpec

-----------------------------------------------------------------------------
(***************************************************************************)
(* Support tickets (Support): readings are never in the future and         *)
(* messages carry the time they came, so a message no one has read is      *)
(* later than the last reading or one that was overlooked.                 *)
(***************************************************************************)

ChatSteps == {"idle", "find", "open", "check", "select", "insert", "mark"}
Chat == [side : Sides, user : ChatUsers \cup {NoUser}, session : 0..MaxSessions,
         sends : BOOLEAN, list : SUBSET (1..MaxMessages)]

SpSessions ==
  /\ chatUsers \subseteq ChatUsers
  /\ sessions \in Seq(Session) /\ Len(sessions) <= MaxSessions
  /\ \A s \in DOMAIN sessions : sessions[s].user \in chatUsers \cup {NoUser}
  /\ doubled \subseteq ChatUsers

SpMessages ==
  /\ messages \in Seq(Message) /\ Len(messages) <= MaxMessages
  /\ \A m \in DOMAIN messages : messages[m].session \in DOMAIN sessions
  /\ shown \subseteq DOMAIN messages /\ overlooked \subseteq DOMAIN messages

\* No reading is in the future.
SpClock ==
  /\ now \in 1..MaxSeconds
  /\ \A s \in DOMAIN sessions : \A x \in Sides : sessions[s].read[x] <= now

\* A request past its look at the session is about one that is there.
Asked(step, l, S, M) ==
  /\ step \in {"find", "open"} => l.user \in ChatUsers
  /\ step \in {"check", "select", "insert", "mark"} => l.session \in S
  /\ l.list \subseteq M

SpRequests ==
  /\ spc \in [SupportProcs -> ChatSteps] /\ sloc \in [SupportProcs -> Chat]
  /\ \A q \in SupportProcs : Asked(spc[q], sloc[q], DOMAIN sessions, DOMAIN messages)

\* A message neither shown nor overlooked is younger than the other side's last reading,
\* whether the session is open or not.
SpUnread ==
  \A m \in DOMAIN messages \ (shown \cup overlooked) :
    messages[m].at > sessions[messages[m].session].read[OtherSide(messages[m].sender)]

\* Whoever has two open sessions opened them at the same time.
SpSingle ==
  \A s, r \in DOMAIN sessions :
    (sessions[s].open /\ sessions[r].open /\ sessions[s].user = sessions[r].user
     /\ sessions[s].user \notin doubled \cup {NoUser}) => s = r

SpInv == SpSessions /\ SpMessages /\ SpClock /\ SpRequests /\ SpUnread /\ SpSingle

-----------------------------------------------------------------------------
\* A sequence is a function on 1..n.
LEMMA SeqIsFunction ==
  ASSUME NEW S, NEW f \in Seq(S)
  PROVE  Len(f) \in Nat /\ DOMAIN f = 1..Len(f) /\ \A i \in 1..Len(f) : f[i] \in S
OBVIOUS

\* A function on 1..n is a sequence.
LEMMA FunctionIsSeq ==
  ASSUME NEW S, NEW n \in Nat, NEW f \in [1..n -> S]
  PROVE  f \in Seq(S) /\ Len(f) = n
OBVIOUS

\* What is appended comes last.
LEMMA AppendFacts ==
  ASSUME NEW S, NEW f \in Seq(S), NEW e \in S
  PROVE  /\ Append(f, e) \in Seq(S) /\ Len(Append(f, e)) = Len(f) + 1
         /\ DOMAIN Append(f, e) = DOMAIN f \cup {Len(f) + 1}
         /\ Append(f, e)[Len(f) + 1] = e
         /\ \A i \in DOMAIN f : Append(f, e)[i] = f[i]
OBVIOUS

\* The bounds are naturals; the two sides are each other's.
LEMMA ChatFacts ==
  /\ MaxSessions \in Nat /\ MaxMessages \in Nat /\ MaxSeconds \in Nat /\ MaxSeconds > 0
  /\ NoUser \notin ChatUsers
  /\ \A x \in Sides : OtherSide(x) \in Sides /\ OtherSide(OtherSide(x)) = x /\ OtherSide(x) # x
  /\ NoChat \in Chat /\ \A S, M : Asked("idle", NoChat, S, M)
BY SupportConstants DEF Sides, OtherSide, NoChat, Chat, Asked

\* What is known of a session and of a message.
LEMMA SessionFacts ==
  ASSUME SpSessions, SpClock, NEW s \in DOMAIN sessions
  PROVE  /\ sessions[s] \in Session /\ s \in 1..MaxSessions
         /\ sessions[s].user \in chatUsers \cup {NoUser} /\ sessions[s].open \in BOOLEAN
         /\ sessions[s].read \in [Sides -> 0..MaxSeconds]
         /\ \A x \in Sides : sessions[s].read[x] \in 0..now
<1>1. DOMAIN sessions = 1..Len(sessions) /\ Len(sessions) \in Nat /\ sessions[s] \in Session
  BY SeqIsFunction DEF SpSessions
<1>2. sessions[s].read \in [Sides -> 0..MaxSeconds] /\ sessions[s].open \in BOOLEAN
  BY <1>1 DEF Session
<1>3. \A x \in Sides : sessions[s].read[x] \in 0..now
  BY <1>2, ChatFacts DEF SpClock
<1> QED BY <1>1, <1>2, <1>3, ChatFacts DEF SpSessions

\* What is known of a message.
LEMMA MessageFacts ==
  ASSUME SpMessages, NEW m \in DOMAIN messages
  PROVE  /\ messages[m] \in Message /\ m \in 1..MaxMessages
         /\ messages[m].session \in DOMAIN sessions /\ messages[m].sender \in Sides
         /\ messages[m].at \in 1..MaxSeconds
<1>1. DOMAIN messages = 1..Len(messages) /\ Len(messages) \in Nat /\ messages[m] \in Message
  BY SeqIsFunction DEF SpMessages
<1> QED BY <1>1, ChatFacts DEF SpMessages, Message

\* A request goes to another step; sessions and messages stay.
LEMMA ChatStepKeeps ==
  ASSUME SpRequests, NEW q \in SupportProcs, NEW step \in ChatSteps, NEW l \in Chat,
         ChatStep(q, step, l), DOMAIN sessions \subseteq DOMAIN sessions',
         DOMAIN messages \subseteq DOMAIN messages',
         Asked(step, l, DOMAIN sessions', DOMAIN messages')
  PROVE  SpRequests'
<1>1. /\ spc \in [SupportProcs -> ChatSteps] /\ sloc \in [SupportProcs -> Chat]
      /\ spc' = [spc EXCEPT ![q] = step] /\ sloc' = [sloc EXCEPT ![q] = l]
  BY DEF SpRequests, ChatStep
<1>2. spc' \in [SupportProcs -> ChatSteps] /\ sloc' \in [SupportProcs -> Chat]
  BY <1>1
<1>3. ASSUME NEW r \in SupportProcs
      PROVE  Asked(spc'[r], sloc'[r], DOMAIN sessions', DOMAIN messages')
  <2>1. CASE r = q
    BY <1>1, <2>1
  <2>2. CASE r # q
    <3>1. spc'[r] = spc[r] /\ sloc'[r] = sloc[r]
      BY <1>1, <2>2
    <3>2. Asked(spc[r], sloc[r], DOMAIN sessions, DOMAIN messages)
      BY DEF SpRequests
    <3> QED BY <3>1, <3>2 DEF Asked
  <2> QED BY <2>1, <2>2
<1> QED BY <1>2, <1>3 DEF SpRequests

\* A request ends.
LEMMA ChatDoneKeeps ==
  ASSUME SpRequests, NEW q \in SupportProcs, ChatDone(q),
         DOMAIN sessions \subseteq DOMAIN sessions', DOMAIN messages \subseteq DOMAIN messages'
  PROVE  SpRequests'
<1>1. "idle" \in ChatSteps /\ NoChat \in Chat /\ ChatStep(q, "idle", NoChat)
      /\ Asked("idle", NoChat, DOMAIN sessions', DOMAIN messages')
  BY ChatFacts DEF ChatDone, ChatSteps
<1> QED BY <1>1, ChatStepKeeps

\* Nothing but requests changes.
Still == UNCHANGED <<chatUsers, sessions, messages, now, shown, overlooked, doubled>>

\* What is not about requests stays as it is.
LEMMA StillKeeps ==
  ASSUME SpInv, Still, SpRequests'
  PROVE  SpInv'
<1>1. SpSessions' /\ SpMessages' /\ SpClock'
  BY DEF SpInv, SpSessions, SpMessages, SpClock, Still
<1>2. SpUnread' /\ SpSingle'
  BY DEF SpInv, SpUnread, SpSingle, Still
<1> QED BY <1>1, <1>2 DEF SpInv

-----------------------------------------------------------------------------
\* A request begins.
LEMMA ChatBeginKeeps ==
  ASSUME SpInv, NEW q \in SupportProcs, OpenSession(q) \/ GetMessages(q) \/ SendMessage(q)
  PROVE  SpInv'
<1>1. SpRequests /\ SpSessions /\ SpClock /\ NoChat \in Chat
  BY ChatFacts DEF SpInv
<1>2. \A u \in chatUsers : u \in ChatUsers
  BY <1>1 DEF SpSessions
<1>3. \A s \in DOMAIN sessions : s \in 0..MaxSessions
  BY <1>1, SessionFacts, ChatFacts
<1>4. \E step \in ChatSteps, l \in Chat :
        ChatBegin(q, step, l) /\ Asked(step, l, DOMAIN sessions, DOMAIN messages)
  <2>0. "check" \in ChatSteps /\ NoChat.list = {}
    BY DEF ChatSteps, NoChat
  <2>1. CASE OpenSession(q)
    <3>1. PICK u \in chatUsers : ChatBegin(q, "find", [NoChat EXCEPT !.user = u])
      BY <2>1 DEF OpenSession
    <3>2. [NoChat EXCEPT !.user = u] \in Chat
          /\ Asked("find", [NoChat EXCEPT !.user = u], DOMAIN sessions, DOMAIN messages)
      BY <1>1, <1>2 DEF Chat, Asked, NoChat
    <3> QED BY <3>1, <3>2 DEF ChatSteps
  <2>2. CASE GetMessages(q)
    <3>1. PICK s \in DOMAIN sessions :
            \/ \E u \in chatUsers : ChatBegin(q, "check", [NoChat EXCEPT !.user = u, !.session = s])
            \/ ChatBegin(q, "check", [NoChat EXCEPT !.side = "admin", !.session = s])
      BY <2>2 DEF GetMessages
    <3>2. ASSUME NEW u \in chatUsers, ChatBegin(q, "check", [NoChat EXCEPT !.user = u, !.session = s])
          PROVE  \E l \in Chat : ChatBegin(q, "check", l)
                                 /\ Asked("check", l, DOMAIN sessions, DOMAIN messages)
      <4> DEFINE c == [NoChat EXCEPT !.user = u, !.session = s]
      <4>2. c \in Chat /\ c.session = s /\ c.list = {}
        BY <1>1, <1>2, <1>3, <2>0 DEF Chat, Sides
      <4>3. c \in Chat /\ Asked("check", c, DOMAIN sessions, DOMAIN messages)
        BY <4>2 DEF Asked
      <4>4. ChatBegin(q, "check", c)
        BY <3>2
      <4> HIDE DEF c
      <4> QED BY <4>3, <4>4
    <3>3. ASSUME ChatBegin(q, "check", [NoChat EXCEPT !.side = "admin", !.session = s])
          PROVE  \E l \in Chat : ChatBegin(q, "check", l)
                                 /\ Asked("check", l, DOMAIN sessions, DOMAIN messages)
      <4> DEFINE c == [NoChat EXCEPT !.side = "admin", !.session = s]
      <4>2. c \in Chat /\ c.session = s /\ c.list = {}
        BY <1>1, <1>2, <1>3, <2>0 DEF Chat, Sides
      <4>3. c \in Chat /\ Asked("check", c, DOMAIN sessions, DOMAIN messages)
        BY <4>2 DEF Asked
      <4>4. ChatBegin(q, "check", c)
        BY <3>3
      <4> HIDE DEF c
      <4> QED BY <4>3, <4>4
    <3> QED BY <2>0, <3>1, <3>2, <3>3
  <2>3. CASE SendMessage(q)
    <3>1. PICK s \in DOMAIN sessions :
            \/ \E u \in chatUsers :
                 ChatBegin(q, "check", [NoChat EXCEPT !.user = u, !.session = s, !.sends = TRUE])
            \/ ChatBegin(q, "check", [NoChat EXCEPT !.side = "admin", !.session = s, !.sends = TRUE])
      BY <2>3 DEF SendMessage
    <3>2. ASSUME NEW u \in chatUsers,
                 ChatBegin(q, "check", [NoChat EXCEPT !.user = u, !.session = s, !.sends = TRUE])
          PROVE  \E l \in Chat : ChatBegin(q, "check", l)
                                 /\ Asked("check", l, DOMAIN sessions, DOMAIN messages)
      <4> DEFINE c == [NoChat EXCEPT !.user = u, !.session = s, !.sends = TRUE]
      <4>2. c \in Chat /\ c.session = s /\ c.list = {}
        BY <1>1, <1>2, <1>3, <2>0 DEF Chat, Sides
      <4>3. c \in Chat /\ Asked("check", c, DOMAIN sessions, DOMAIN messages)
        BY <4>2 DEF Asked
      <4>4. ChatBegin(q, "check", c)
        BY <3>2
      <4> HIDE DEF c
      <4> QED BY <4>3, <4>4
    <3>3. ASSUME ChatBegin(q, "check", [NoChat EXCEPT !.side = "admin", !.session = s, !.sends = TRUE])
          PROVE  \E l \in Chat : ChatBegin(q, "check", l)
                                 /\ Asked("check", l, DOMAIN sessions, DOMAIN messages)
      <4> DEFINE c == [NoChat EXCEPT !.side = "admin", !.session = s, !.sends = TRUE]
      <4>2. c \in Chat /\ c.session = s /\ c.list = {}
        BY <1>1, <1>2, <1>3, <2>0 DEF Chat, Sides
      <4>3. c \in Chat /\ Asked("check", c, DOMAIN sessions, DOMAIN messages)
        BY <4>2 DEF Asked
      <4> QED BY <3>3, <4>3
    <3> QED BY <2>0, <3>1, <3>2, <3>3
  <2> QED BY <2>1, <2>2, <2>3
<1>5. PICK step \in ChatSteps, l \in Chat :
        ChatBegin(q, step, l) /\ Asked(step, l, DOMAIN sessions, DOMAIN messages)
  BY <1>4
<1>6. Still /\ ChatStep(q, step, l)
  BY <1>5 DEF ChatBegin, Still
<1>7. DOMAIN sessions' = DOMAIN sessions /\ DOMAIN messages' = DOMAIN messages
  BY <1>6 DEF Still
<1>8. SpRequests'
  BY <1>1, <1>5, <1>6, <1>7, ChatStepKeeps
<1> QED BY <1>6, <1>8, StillKeeps

\* A request reads, or fails.
LEMMA ChatReadKeeps ==
  ASSUME SpInv, NEW q \in SupportProcs,
         ResumeOrOpen(q) \/ ChatCheck(q) \/ SelectMessages(q) \/ ChatFail(q)
  PROVE  SpInv'
<1>1. Still
  BY DEF ResumeOrOpen, ChatCheck, SelectMessages, ChatFail, ChatRead, Still
<1>2. /\ SpRequests /\ SpMessages /\ sloc[q] \in Chat
      /\ Asked(spc[q], sloc[q], DOMAIN sessions, DOMAIN messages)
      /\ DOMAIN sessions' = DOMAIN sessions /\ DOMAIN messages' = DOMAIN messages
  BY <1>1 DEF SpInv, SpRequests, Still
<1>3. ChatDone(q) \/ \E step \in ChatSteps, l \in Chat :
        ChatStep(q, step, l) /\ Asked(step, l, DOMAIN sessions, DOMAIN messages)
  <2>1. CASE ResumeOrOpen(q)
    <3>1. spc[q] = "find" /\ (ChatDone(q) \/ ChatStep(q, "open", sloc[q]))
      BY <2>1 DEF ResumeOrOpen
    <3>2. Asked("open", sloc[q], DOMAIN sessions, DOMAIN messages)
      BY <3>1, <1>2 DEF Asked
    <3> QED BY <3>1, <3>2, <1>2 DEF ChatSteps
  <2>2. CASE ChatCheck(q)
    <3>1. spc[q] = "check" /\ (ChatDone(q) \/ ChatStep(q, "insert", sloc[q])
                               \/ ChatStep(q, "select", sloc[q]))
      BY <2>2 DEF ChatCheck
    <3>2. Asked("insert", sloc[q], DOMAIN sessions, DOMAIN messages)
          /\ Asked("select", sloc[q], DOMAIN sessions, DOMAIN messages)
      BY <3>1, <1>2 DEF Asked
    <3> QED BY <3>1, <3>2, <1>2 DEF ChatSteps
  <2>3. CASE SelectMessages(q)
    <3> DEFINE seen == MessagesFor(sloc[q].side, sloc[q].session)
               l == [sloc[q] EXCEPT !.list = seen]
    <3>1. spc[q] = "select" /\ ChatStep(q, "mark", l)
      BY <2>3 DEF SelectMessages
    <3>2. seen \subseteq DOMAIN messages /\ DOMAIN messages \subseteq 1..MaxMessages
      BY <1>2, MessageFacts DEF MessagesFor
    <3> HIDE DEF seen
    <3>3. l \in Chat /\ Asked("mark", l, DOMAIN sessions, DOMAIN messages)
      BY <3>1, <3>2, <1>2 DEF Chat, Asked
    <3> QED BY <3>1, <3>3 DEF ChatSteps
  <2>4. CASE ChatFail(q)
    BY <2>4 DEF ChatFail
  <2> QED BY <2>1, <2>2, <2>3, <2>4
<1>4. SpRequests'
  <2>1. CASE ChatDone(q)
    BY <2>1, <1>2, ChatDoneKeeps
  <2>2. ASSUME NEW step \in ChatSteps, NEW l \in Chat,
               ChatStep(q, step, l), Asked(step, l, DOMAIN sessions, DOMAIN messages)
        PROVE  SpRequests'
    BY <2>2, <1>2, ChatStepKeeps
  <2> QED BY <1>3, <2>1, <2>2
<1> QED BY <1>1, <1>4, StillKeeps

-----------------------------------------------------------------------------
\* A session is opened.
LEMMA InsertSessionKeeps ==
  ASSUME SpInv, NEW q \in SupportProcs, InsertSession(q)
  PROVE  SpInv'
<1> DEFINE u == sloc[q].user
           new == [user |-> u, open |-> TRUE, read |-> [x \in Sides |-> NullTime]]
<1>1. /\ SpSessions /\ SpMessages /\ SpClock /\ SpRequests /\ SpUnread /\ SpSingle
      /\ Len(sessions) < MaxSessions /\ ChatDone(q)
      /\ UNCHANGED <<chatUsers, messages, now, supportOps, shown, overlooked>>
  BY DEF SpInv, InsertSession
<1>2. CASE u \notin chatUsers
  <2>1. UNCHANGED <<sessions, doubled>>
    BY <1>2 DEF InsertSession
  <2>2. Still
    BY <1>1, <2>1 DEF Still
  <2>3. SpRequests'
    BY <1>1, <2>1, ChatDoneKeeps
  <2> QED BY <2>2, <2>3, StillKeeps
<1>3. CASE u \in chatUsers
  <2>1. /\ sessions' = Append(sessions, new)
        /\ doubled' = IF SessionsOf(u) # {} THEN doubled \cup {u} ELSE doubled
    BY <1>3 DEF InsertSession
  <2>2. u \in ChatUsers
    BY <1>1, <1>3 DEF SpSessions
  <2>3. /\ new \in Session /\ new.user = u /\ new.open
        /\ \A x \in Sides : new.read[x] = 0
    BY <2>2, ChatFacts DEF Session, NullTime
  <2>4. sessions \in Seq(Session)
    BY <1>1 DEF SpSessions
  <2> DEFINE n == Len(sessions) + 1
  <2> HIDE DEF u, new
  <2>5. /\ sessions' \in Seq(Session) /\ Len(sessions') = n
        /\ DOMAIN sessions' = DOMAIN sessions \cup {n}
        /\ sessions'[n] = new /\ \A s \in DOMAIN sessions : sessions'[s] = sessions[s]
    BY <2>1, <2>3, <2>4, AppendFacts
  <2>6. Len(sessions) \in Nat /\ n \notin DOMAIN sessions
    BY <2>4, SeqIsFunction
  <2>7. SpSessions'
    <3>1. Len(sessions') <= MaxSessions
      BY <1>1, <2>5, <2>6, ChatFacts
    <3>2. doubled' \subseteq ChatUsers
      BY <1>1, <2>1, <2>2 DEF SpSessions
    <3> QED BY <1>1, <1>3, <2>3, <2>5, <3>1, <3>2 DEF SpSessions
  <2>8. SpMessages'
    BY <1>1, <2>5 DEF SpMessages
  <2>9. SpClock'
    <3>1. now \in Nat
      BY <1>1, ChatFacts DEF SpClock
    <3> QED BY <1>1, <2>3, <2>5, <3>1 DEF SpClock
  <2>10. SpRequests'
    BY <1>1, <2>5, ChatDoneKeeps
  <2>11. SpUnread'
    BY <1>1, <2>5 DEF SpUnread, SpMessages
  <2>12. SpSingle'
    <3>1. ASSUME NEW s \in DOMAIN sessions', NEW r \in DOMAIN sessions',
                 sessions'[s].open, sessions'[r].open,
                 sessions'[s].user = sessions'[r].user,
                 sessions'[s].user \notin doubled' \cup {NoUser}
          PROVE  s = r
      <4>1. doubled \subseteq doubled'
        BY <2>1
      <4>2. ASSUME NEW t \in DOMAIN sessions, sessions[t].open, sessions[t].user = u
            PROVE  u \in doubled'
        <5>1. SessionsOf(u) # {}
          BY <4>2 DEF SessionsOf
        <5> QED BY <5>1, <2>1
      <4>3. CASE s = n /\ r # n
        <5>1. r \in DOMAIN sessions /\ sessions'[r] = sessions[r] /\ sessions'[s] = new
          BY <4>3, <2>5
        <5> QED BY <5>1, <3>1, <4>2, <2>3
      <4>4. CASE s # n /\ r = n
        <5>1. s \in DOMAIN sessions /\ sessions'[s] = sessions[s] /\ sessions'[r] = new
          BY <4>4, <2>5
        <5> QED BY <5>1, <3>1, <4>2, <2>3
      <4>5. CASE s # n /\ r # n
        <5>1. s \in DOMAIN sessions /\ sessions'[s] = sessions[s]
              /\ r \in DOMAIN sessions /\ sessions'[r] = sessions[r]
          BY <4>5, <2>5
        <5> QED BY <5>1, <3>1, <4>1, <1>1 DEF SpSingle
      <4> QED BY <4>3, <4>4, <4>5
    <3> QED BY <3>1 DEF SpSingle
  <2> QED BY <2>7, <2>8, <2>9, <2>10, <2>11, <2>12 DEF SpInv
<1> QED BY <1>2, <1>3

\* Sessions change in place: who asked, whether it is open; what is read stays.
LEMMA SessionsEdited ==
  ASSUME SpInv, sessions' \in [DOMAIN sessions -> Session],
         chatUsers' \subseteq ChatUsers, UNCHANGED <<messages, now, spc, sloc, shown, overlooked, doubled>>,
         \A s \in DOMAIN sessions :
           /\ sessions'[s].read = sessions[s].read
           /\ sessions'[s].open => sessions[s].open
           /\ sessions'[s].user \in {sessions[s].user, NoUser}
           /\ sessions'[s].user \in chatUsers' \cup {NoUser}
  PROVE  SpInv'
<1>1. /\ SpSessions /\ SpMessages /\ SpClock /\ SpRequests /\ SpUnread /\ SpSingle
  BY DEF SpInv
<1>2. DOMAIN sessions = 1..Len(sessions) /\ Len(sessions) \in Nat
  BY <1>1, SeqIsFunction DEF SpSessions
<1>3. sessions' \in Seq(Session) /\ Len(sessions') = Len(sessions) /\ DOMAIN sessions' = DOMAIN sessions
  BY <1>2, FunctionIsSeq
<1>4. SpSessions' /\ SpMessages'
  BY <1>1, <1>3 DEF SpSessions, SpMessages
<1>5. SpClock' /\ SpRequests'
  BY <1>1, <1>3 DEF SpClock, SpRequests
<1>6. SpUnread'
  BY <1>1 DEF SpUnread, SpMessages
<1>7. SpSingle'
  BY <1>1, <1>3 DEF SpSingle
<1> QED BY <1>4, <1>5, <1>6, <1>7 DEF SpInv

\* A session is closed.
LEMMA CloseSessionKeeps ==
  ASSUME SpInv, CloseSession
  PROVE  SpInv'
<1>1. PICK s \in DOMAIN sessions : sessions' = [sessions EXCEPT ![s].open = FALSE]
  BY DEF CloseSession
<1>2. UNCHANGED <<chatUsers, messages, now, spc, sloc, shown, overlooked, doubled>>
  BY DEF CloseSession
<1>3. \A r \in DOMAIN sessions : sessions[r] \in Session
                                 /\ sessions[r].user \in chatUsers \cup {NoUser}
  BY SessionFacts DEF SpInv
<1>4. /\ DOMAIN sessions' = DOMAIN sessions
      /\ sessions'[s] = [sessions[s] EXCEPT !.open = FALSE]
      /\ \A r \in DOMAIN sessions \ {s} : sessions'[r] = sessions[r]
  BY <1>1
<1>5. /\ sessions'[s] \in Session /\ sessions'[s].read = sessions[s].read
      /\ ~sessions'[s].open /\ sessions'[s].user = sessions[s].user
  BY <1>3, <1>4 DEF Session
<1>6. sessions' \in [DOMAIN sessions -> Session]
  BY <1>1, <1>3, <1>4, <1>5
<1>7. chatUsers' \subseteq ChatUsers
  BY <1>2 DEF SpInv, SpSessions
<1> QED BY <1>2, <1>3, <1>4, <1>5, <1>6, <1>7, SessionsEdited

\* A user's row is deleted: the sessions stay, nobody's.
LEMMA DeleteChatUserKeeps ==
  ASSUME SpInv, DeleteChatUser
  PROVE  SpInv'
<1>1. PICK u \in chatUsers :
        /\ chatUsers' = chatUsers \ {u}
        /\ sessions' = [s \in DOMAIN sessions |->
             IF sessions[s].user = u THEN [sessions[s] EXCEPT !.user = NoUser] ELSE sessions[s]]
  BY DEF DeleteChatUser
<1>2. UNCHANGED <<messages, now, spc, sloc, shown, overlooked, doubled>>
  BY DEF DeleteChatUser
<1>3. \A r \in DOMAIN sessions : sessions[r] \in Session
                                 /\ sessions[r].user \in chatUsers \cup {NoUser}
  BY SessionFacts DEF SpInv
<1>4. ASSUME NEW s \in DOMAIN sessions
      PROVE  /\ sessions'[s] \in Session
             /\ sessions'[s].read = sessions[s].read
             /\ sessions'[s].open => sessions[s].open
             /\ sessions'[s].user \in {sessions[s].user, NoUser}
             /\ sessions'[s].user \in chatUsers' \cup {NoUser}
  <2>1. CASE sessions[s].user = u
    <3>1. sessions'[s] = [sessions[s] EXCEPT !.user = NoUser]
      BY <1>1, <2>1
    <3> QED BY <3>1, <1>3 DEF Session
  <2>2. CASE sessions[s].user # u
    <3>1. sessions'[s] = sessions[s]
      BY <1>1, <2>2
    <3> QED BY <3>1, <1>1, <1>3, <2>2
  <2> QED BY <2>1, <2>2
<1>5. sessions' \in [DOMAIN sessions -> Session]
  BY <1>1, <1>4
<1>6. chatUsers' \subseteq ChatUsers
  BY <1>1 DEF SpInv, SpSessions
<1> QED BY <1>2, <1>4, <1>5, <1>6, SessionsEdited

\* A message is written: younger than the other side's last reading, or overlooked.
LEMMA InsertMessageKeeps ==
  ASSUME SpInv, NEW q \in SupportProcs, InsertMessage(q)
  PROVE  SpInv'
<1> DEFINE l == sloc[q]
           n == Len(messages) + 1
           new == [session |-> l.session, sender |-> l.side, at |-> now]
<1>1. /\ SpSessions /\ SpMessages /\ SpClock /\ SpRequests /\ SpUnread /\ SpSingle
      /\ spc[q] = "insert" /\ n <= MaxMessages
      /\ UNCHANGED <<chatUsers, sessions, now, supportOps, shown, doubled>>
  BY DEF SpInv, InsertMessage
<1>2. l \in Chat /\ l.session \in DOMAIN sessions /\ l.side \in Sides
      /\ Asked("insert", l, DOMAIN sessions, DOMAIN messages)
  BY <1>1 DEF SpRequests, Asked, Chat
<1>3. CASE l.side = "user" /\ l.user \notin chatUsers
  <2>1. ChatDone(q) /\ UNCHANGED <<messages, overlooked>>
    BY <1>3 DEF InsertMessage
  <2>2. Still
    BY <1>1, <2>1 DEF Still
  <2>3. SpRequests'
    BY <1>1, <2>1, ChatDoneKeeps
  <2> QED BY <2>2, <2>3, StillKeeps
<1>4. CASE ~(l.side = "user" /\ l.user \notin chatUsers)
  <2>1. /\ messages' = Append(messages, new)
        /\ overlooked' = IF sessions[l.session].read[OtherSide(l.side)] = now
                         THEN overlooked \cup {n} ELSE overlooked
        /\ ChatStep(q, "mark", l)
    BY <1>4 DEF InsertMessage
  <2>2. l.session \in 1..MaxSessions /\ now \in 1..MaxSeconds
    BY <1>1, <1>2, SessionFacts DEF SpClock
  <2>3. new \in Message /\ new.session = l.session /\ new.sender = l.side /\ new.at = now
    BY <1>2, <2>2 DEF Message
  <2>4. messages \in Seq(Message)
    BY <1>1 DEF SpMessages
  <2>5. /\ messages' \in Seq(Message) /\ Len(messages') = n
        /\ DOMAIN messages' = DOMAIN messages \cup {n}
        /\ messages'[n] = new /\ \A m \in DOMAIN messages : messages'[m] = messages[m]
    <3> HIDE DEF new
    <3> QED BY <2>1, <2>3, <2>4, AppendFacts
  <2>6. SpSessions' /\ SpClock'
    BY <1>1 DEF SpSessions, SpClock
  <2>7. SpMessages'
    <3>1. overlooked' \subseteq DOMAIN messages'
      BY <1>1, <2>1, <2>5 DEF SpMessages
    <3> HIDE DEF new
    <3> QED BY <1>1, <1>2, <2>3, <2>5, <3>1 DEF SpMessages
  <2>8. SpRequests'
    <3>1. Asked("mark", l, DOMAIN sessions', DOMAIN messages')
      BY <1>1, <1>2, <2>5 DEF Asked
    <3>2. "mark" \in ChatSteps /\ DOMAIN sessions' = DOMAIN sessions
          /\ DOMAIN messages \subseteq DOMAIN messages'
      BY <1>1, <2>5 DEF ChatSteps
    <3> HIDE DEF l
    <3> QED BY <1>1, <1>2, <2>1, <3>1, <3>2, ChatStepKeeps
  <2>9. SpUnread'
    <3>1. ASSUME NEW m \in DOMAIN messages' \ (shown' \cup overlooked')
          PROVE  messages'[m].at > sessions'[messages'[m].session].read[OtherSide(messages'[m].sender)]
      <4>1. CASE m = n
        <5>1. sessions[l.session].read[OtherSide(l.side)] \in 0..now
          BY <1>1, <1>2, SessionFacts, ChatFacts
        <5>2. sessions[l.session].read[OtherSide(l.side)] # now
          BY <3>1, <4>1, <2>1
        <5>3. now > sessions[l.session].read[OtherSide(l.side)]
          BY <5>1, <5>2, <2>2
        <5>4. messages'[m] = new /\ sessions' = sessions
          BY <4>1, <2>5, <1>1
        <5> HIDE DEF new, l
        <5> QED BY <2>3, <5>3, <5>4
      <4>2. CASE m # n
        <5>1. m \in DOMAIN messages \ (shown \cup overlooked) /\ messages'[m] = messages[m]
          BY <3>1, <4>2, <1>1, <2>1, <2>5
        <5> QED BY <5>1, <1>1 DEF SpUnread
      <4> QED BY <4>1, <4>2
    <3> QED BY <3>1 DEF SpUnread, OtherSide
  <2>10. SpSingle'
    BY <1>1 DEF SpSingle
  <2> QED BY <2>6, <2>7, <2>8, <2>9, <2>10 DEF SpInv
<1> QED BY <1>3, <1>4

\* A side has read: what it had not been shown is shown, or overlooked.
LEMMA MarkReadKeeps ==
  ASSUME SpInv, NEW q \in SupportProcs, MarkRead(q)
  PROVE  SpInv'
<1> DEFINE l == sloc[q]
           i == l.session
<1>1. /\ SpSessions /\ SpMessages /\ SpClock /\ SpRequests /\ SpUnread /\ SpSingle
      /\ spc[q] = "mark" /\ ChatDone(q)
      /\ sessions' = [sessions EXCEPT ![i].read[l.side] = now]
      /\ shown' = shown \cup l.list
      /\ overlooked' = overlooked \cup (UnreadIn(l.side, i) \ (shown \cup l.list))
      /\ UNCHANGED <<chatUsers, messages, now, supportOps, doubled>>
  BY DEF SpInv, MarkRead, Mark
<1>2. l.side \in Sides /\ i \in DOMAIN sessions /\ l.list \subseteq DOMAIN messages
  BY <1>1 DEF SpRequests, Asked, Chat
<1> HIDE DEF l, i
<1>3. \A s \in DOMAIN sessions : sessions[s] \in Session
                                 /\ sessions[s].read \in [Sides -> 0..MaxSeconds]
  BY <1>1, SessionFacts
<1>4. now \in 1..MaxSeconds /\ now \in 0..MaxSeconds /\ now \in Nat
  BY <1>1, ChatFacts DEF SpClock
<1> DEFINE rd == [sessions[i].read EXCEPT ![l.side] = now]
<1>5. /\ DOMAIN sessions' = DOMAIN sessions
      /\ sessions'[i] = [sessions[i] EXCEPT !.read = rd]
      /\ \A s \in DOMAIN sessions \ {i} : sessions'[s] = sessions[s]
  BY <1>1, <1>2
<1>6. rd \in [Sides -> 0..MaxSeconds] /\ rd[l.side] = now
      /\ \A x \in Sides \ {l.side} : rd[x] = sessions[i].read[x]
  BY <1>2, <1>3, <1>4
<1> HIDE DEF rd
<1>7. /\ sessions'[i] \in Session /\ sessions'[i].read = rd
      /\ sessions'[i].user = sessions[i].user /\ sessions'[i].open = sessions[i].open
  BY <1>2, <1>3, <1>5, <1>6 DEF Session
<1>8. sessions' \in [DOMAIN sessions -> Session]
  BY <1>3, <1>5, <1>7, <1>1
<1>9. sessions' \in Seq(Session) /\ Len(sessions') = Len(sessions)
  <2>1. DOMAIN sessions = 1..Len(sessions) /\ Len(sessions) \in Nat
    BY <1>1, SeqIsFunction DEF SpSessions
  <2> QED BY <1>8, <2>1, FunctionIsSeq
<1>10. \A s \in DOMAIN sessions : sessions'[s].user = sessions[s].user
                                  /\ sessions'[s].open = sessions[s].open
  BY <1>5, <1>7
<1>11. SpSessions'
  BY <1>1, <1>5, <1>9, <1>10 DEF SpSessions
<1>12. SpMessages'
  <2>1. UnreadIn(l.side, i) \subseteq DOMAIN messages
    BY DEF UnreadIn, MessagesFor
  <2> QED BY <1>1, <1>2, <1>5, <2>1 DEF SpMessages
<1>13. SpClock'
  <2>1. ASSUME NEW s \in DOMAIN sessions, NEW x \in Sides
        PROVE  sessions'[s].read[x] <= now
    <3>1. sessions[s].read[x] <= now
      BY <1>1 DEF SpClock
    <3>2. CASE s = i /\ x = l.side
      BY <3>2, <1>4, <1>6, <1>7
    <3>3. CASE s = i /\ x # l.side
      BY <3>1, <3>3, <1>6, <1>7
    <3>4. CASE s # i
      BY <3>1, <3>4, <1>5
    <3> QED BY <3>2, <3>3, <3>4
  <2> QED BY <2>1, <1>1, <1>4, <1>5 DEF SpClock
<1>14. SpRequests'
  BY <1>1, <1>5, ChatDoneKeeps
<1>15. SpUnread'
  <2>1. ASSUME NEW m \in DOMAIN messages \ (shown' \cup overlooked')
        PROVE  messages[m].at > sessions'[messages[m].session].read[OtherSide(messages[m].sender)]
    <3>1. m \in DOMAIN messages \ (shown \cup overlooked) /\ m \notin l.list
          /\ m \notin UnreadIn(l.side, i)
      BY <2>1, <1>1
    <3>2. messages[m].at > sessions[messages[m].session].read[OtherSide(messages[m].sender)]
      BY <3>1, <1>1 DEF SpUnread
    <3>3. messages[m].session \in DOMAIN sessions /\ messages[m].sender \in Sides
          /\ OtherSide(messages[m].sender) \in Sides
      BY <1>1, MessageFacts, ChatFacts
    <3>4. CASE messages[m].session = i /\ OtherSide(messages[m].sender) = l.side
      <4>1. messages[m].sender = OtherSide(l.side)
        BY <3>3, <3>4, <1>2, ChatFacts
      <4>2. m \in MessagesFor(l.side, i)
        BY <3>1, <3>4, <4>1 DEF MessagesFor
      <4>3. m \in UnreadIn(l.side, i)
        BY <3>2, <3>4, <4>2 DEF UnreadIn
      <4> QED BY <3>1, <4>3
    <3>5. CASE messages[m].session = i /\ OtherSide(messages[m].sender) # l.side
      BY <3>2, <3>3, <3>5, <1>6, <1>7
    <3>6. CASE messages[m].session # i
      BY <3>2, <3>3, <3>6, <1>5
    <3> QED BY <3>4, <3>5, <3>6
  <2> QED BY <2>1, <1>1 DEF SpUnread, OtherSide
<1>16. SpSingle'
  BY <1>1, <1>5, <1>10 DEF SpSingle
<1> QED BY <1>11, <1>12, <1>13, <1>14, <1>15, <1>16 DEF SpInv

\* A second passes.
LEMMA SecondKeeps ==
  ASSUME SpInv, Second
  PROVE  SpInv'
<1>1. /\ SpSessions /\ SpMessages /\ SpClock /\ SpRequests /\ SpUnread /\ SpSingle
      /\ now < MaxSeconds /\ now' = now + 1
      /\ UNCHANGED <<chatUsers, sessions, messages, spc, sloc, supportOps, shown, overlooked, doubled>>
  BY DEF SpInv, Second
<1>2. SpClock'
  <2>1. now \in 1..MaxSeconds /\ MaxSeconds \in Nat
    BY <1>1, ChatFacts DEF SpClock
  <2>2. ASSUME NEW s \in DOMAIN sessions, NEW x \in Sides
        PROVE  sessions[s].read[x] <= now'
    <3>1. sessions[s].read[x] \in 0..now
      BY <1>1, SessionFacts
    <3> QED BY <3>1, <2>1, <1>1
  <2>3. now' \in 1..MaxSeconds
    BY <2>1, <1>1
  <2> QED BY <2>2, <2>3, <1>1 DEF SpClock
<1>3. SpSessions' /\ SpMessages' /\ SpRequests'
  BY <1>1 DEF SpSessions, SpMessages, SpRequests
<1>4. SpUnread' /\ SpSingle'
  BY <1>1 DEF SpUnread, SpSingle
<1> QED BY <1>2, <1>3, <1>4 DEF SpInv

-----------------------------------------------------------------------------
\* Every step keeps the invariant.
LEMMA SupportStepKeeps ==
  ASSUME SpInv, [SupportNext]_supportVars
  PROVE  SpInv'
<1>1. ASSUME NEW q \in SupportProcs,
             OpenSession(q) \/ GetMessages(q) \/ SendMessage(q)
      PROVE  SpInv'
  BY <1>1, ChatBeginKeeps
<1>2. ASSUME NEW q \in SupportProcs,
             ResumeOrOpen(q) \/ ChatCheck(q) \/ SelectMessages(q) \/ ChatFail(q)
      PROVE  SpInv'
  BY <1>2, ChatReadKeeps
<1>3. ASSUME NEW q \in SupportProcs, InsertSession(q) \/ InsertMessage(q) \/ MarkRead(q)
      PROVE  SpInv'
  BY <1>3, InsertSessionKeeps, InsertMessageKeeps, MarkReadKeeps
<1>4. CASE CloseSession \/ DeleteChatUser \/ Second
  BY <1>4, CloseSessionKeeps, DeleteChatUserKeeps, SecondKeeps
<1>5. CASE UNCHANGED supportVars
  <2>1. Still /\ SpRequests'
    BY <1>5 DEF supportVars, Still, SpInv, SpRequests
  <2> QED BY <2>1, StillKeeps
<1> QED BY <1>1, <1>2, <1>3, <1>4, <1>5 DEF SupportNext

\* At first nobody has asked or written anything.
LEMMA SupportFirst == SupportInit => SpInv
<1> SUFFICES ASSUME SupportInit PROVE SpInv
  OBVIOUS
<1>1. /\ chatUsers = ChatUsers /\ sessions = <<>> /\ messages = <<>> /\ now = 1
      /\ spc = [q \in SupportProcs |-> "idle"] /\ sloc = [q \in SupportProcs |-> NoChat]
      /\ shown = {} /\ overlooked = {} /\ doubled = {}
  BY DEF SupportInit
<1>2. /\ sessions \in Seq(Session) /\ Len(sessions) = 0 /\ DOMAIN sessions = {}
      /\ messages \in Seq(Message) /\ Len(messages) = 0 /\ DOMAIN messages = {}
  BY <1>1
<1>3. SpSessions /\ SpMessages /\ SpClock
  BY <1>1, <1>2, ChatFacts DEF SpSessions, SpMessages, SpClock
<1>4. SpRequests
  BY <1>1, ChatFacts DEF SpRequests, ChatSteps
<1>5. SpUnread /\ SpSingle
  BY <1>2 DEF SpUnread, SpSingle
<1> QED BY <1>3, <1>4, <1>5 DEF SpInv

\* Types; a session belongs to a user whose row is there, or to nobody.
THEOREM SupportTypes == SupportSpec => []SupportTypeOK
<1>1. SpInv => SupportTypeOK
  BY DEF SpInv, SpSessions, SpMessages, SpClock, SpRequests, SupportTypeOK, ChatSteps, Chat
<1> QED BY <1>1, SupportFirst, SupportStepKeeps, PTL DEF SupportSpec

\* The badge of a user with one open session is about that session.
LEMMA BadgeFinds ==
  ASSUME SpInv, NEW s \in DOMAIN sessions, sessions[s].open,
         sessions[s].user \notin doubled \cup {NoUser}
  PROVE  GetUnread(sessions[s].user) = UnreadIn("user", s)
<1> DEFINE u == sessions[s].user
<1>1. SpSingle
  BY DEF SpInv
<1>2. SessionsOf(u) = {s}
  <2>1. ASSUME NEW r \in SessionsOf(u)
        PROVE  r = s
    <3>1. r \in DOMAIN sessions /\ sessions[r].user = u /\ sessions[r].open
      BY <2>1 DEF SessionsOf
    <3> QED BY <3>1, <1>1 DEF SpSingle
  <2>2. s \in SessionsOf(u)
    BY DEF SessionsOf
  <2> QED BY <2>1, <2>2
<1>3. s \in Nat
  <2>1. DOMAIN sessions = 1..Len(sessions) /\ Len(sessions) \in Nat
    BY SeqIsFunction DEF SpInv, SpSessions
  <2> QED BY <2>1
<1>4. FindOpenSession(u) = s
  BY <1>2, <1>3 DEF FindOpenSession
<1> QED BY <1>2, <1>4 DEF GetUnread

\* However openings, readings, answers, closings and failures interleave, for any users,
\* sessions and seconds: what a side was not shown is in its badge while the session is open,
\* and what the operator was not shown counts in the queue even after (userSupport.js,
\* admin/support.js), but for what was overlooked.
THEOREM NothingIsMissed == SupportSpec => []NothingMissed
<1>1. SpInv => NothingMissed
  <2> SUFFICES ASSUME SpInv, NEW m \in DOMAIN messages \ (shown \cup overlooked)
               PROVE  IF messages[m].sender = "user"
                      THEN /\ m \in ListedUnread(messages[m].session)
                           /\ sessions[messages[m].session].open =>
                                messages[m].session \in GetInboxUnread
                      ELSE \/ ~sessions[messages[m].session].open
                           \/ sessions[messages[m].session].user \in doubled \cup {NoUser}
                           \/ m \in GetUnread(sessions[messages[m].session].user)
    BY DEF NothingMissed
  <2> DEFINE s == messages[m].session
  <2>1. messages[m].at > sessions[s].read[OtherSide(messages[m].sender)]
    BY DEF SpInv, SpUnread
  <2>2. s \in DOMAIN sessions /\ messages[m].sender \in Sides
    BY MessageFacts DEF SpInv
  <2>3. CASE messages[m].sender = "user"
    <3>1. OtherSide("user") = "admin" /\ OtherSide("admin") = "user"
      BY DEF OtherSide
    <3>2. m \in UnreadIn("admin", s)
      BY <2>1, <2>3, <3>1 DEF UnreadIn, MessagesFor
    <3>3. UnreadIn("admin", s) # {}
      BY <3>2
    <3> HIDE DEF s
    <3>4. m \in ListedUnread(s) /\ (sessions[s].open => s \in GetInboxUnread)
      BY <2>2, <3>2, <3>3 DEF ListedUnread, GetInboxUnread
    <3> QED BY <2>3, <3>4 DEF s
  <2>4. CASE messages[m].sender = "admin"
    <3>1. OtherSide("user") = "admin" /\ OtherSide("admin") = "user"
      BY DEF OtherSide
    <3>2. m \in UnreadIn("user", s)
      BY <2>1, <2>4, <3>1 DEF UnreadIn, MessagesFor
    <3> QED BY <2>2, <2>4, <3>2, BadgeFinds
  <2> QED BY <2>2, <2>3, <2>4 DEF Sides
<1> QED BY <1>1, SupportFirst, SupportStepKeeps, PTL DEF SupportSpec

-----------------------------------------------------------------------------
(***************************************************************************)
(* Offers (Offers): unless two requests created one at a time, one is on,  *)
(* and what it shows is what its discount leaves of the list price.        *)
(***************************************************************************)

OfferSteps == CreateSteps \cup {"archive", "off", "idle"}

OfRows ==
  /\ offers \in [OfferIds -> OfferRow] /\ amountOff \in [OfferIds -> Nat]
  /\ dimmed \subseteq OfferIds
  /\ \A i \in OfferIds : amountOff[i] # NoAmount => offers[i].backed

\* A request that has a discount made has it made for its price.
Offering(step, l) ==
  /\ step \in CreateSteps => l.price < ListPrice
  /\ step = "discount" => l.off = NoAmount
  /\ step \in {"others", "insert"} => l.off \in {NoAmount, ListPrice - l.price}
  /\ step \in {"archive", "off"} => l.row \in OfferIds

OfRequests ==
  /\ opc \in [OfferProcs -> OfferSteps] /\ oloc \in [OfferProcs -> OfferLocal]
  /\ \A q \in OfferProcs : Offering(opc[q], oloc[q])

\* No twins: one request creates an offer at a time, and before it inserts its row it has
\* switched off all others.
On(i) == offers[i].state = "on"
OfAlone ==
  /\ twins \in BOOLEAN
  /\ ~twins =>
       /\ \A q, r \in OfferProcs : CreatingOffer(q) /\ CreatingOffer(r) => q = r
       /\ (\E q \in OfferProcs : opc[q] = "insert") => \A i \in OfferIds : ~On(i)
       /\ \A i, j \in OfferIds : On(i) /\ On(j) => i = j

\* A row on sale says of its discount what the provider says, unless that is archived.
OfHonest ==
  \A i \in OfferIds \ dimmed :
    On(i) => amountOff[i] = IF offers[i].backed THEN ListPrice - offers[i].price ELSE NoAmount

OfTypes == OfRows /\ OfRequests
OfInv == OfTypes /\ OfAlone /\ OfHonest

-----------------------------------------------------------------------------
\* Prices are natural numbers; a request that is not at work.
LEMMA OfferFacts ==
  /\ ListPrice \in Nat /\ OfferPrices \subseteq Nat /\ IsFiniteSet(OfferIds) /\ NoAmount = 0
  /\ NoOfferLocal \in OfferLocal /\ Offering("idle", NoOfferLocal)
  /\ CreateSteps \subseteq OfferSteps /\ "idle" \notin CreateSteps
  /\ "archive" \notin CreateSteps /\ "off" \notin CreateSteps
BY OfferConstantsOK DEF NoOfferLocal, OfferLocal, Offering, CreateSteps, OfferSteps, NoAmount, Windows

\* What an admin may ask for, and what is in a row without a price, are natural numbers.
LEMMA PriceIsNatural ==
  ASSUME NEW p \in OfferPrices \cup {0}
  PROVE  p \in Nat
BY OfferConstantsOK

\* A request goes to another step.
LEMMA OfferStepKeeps ==
  ASSUME OfRequests, NEW q \in OfferProcs, NEW step \in OfferSteps, NEW l \in OfferLocal,
         opc' = [opc EXCEPT ![q] = step], oloc' = [oloc EXCEPT ![q] = l], Offering(step, l)
  PROVE  /\ OfRequests' /\ opc'[q] = step /\ oloc'[q] = l
         /\ \A r \in OfferProcs \ {q} : opc'[r] = opc[r] /\ oloc'[r] = oloc[r]
<1>1. opc \in [OfferProcs -> OfferSteps] /\ oloc \in [OfferProcs -> OfferLocal]
  BY DEF OfRequests
<1>2. opc' \in [OfferProcs -> OfferSteps] /\ oloc' \in [OfferProcs -> OfferLocal]
  BY <1>1
<1>3. /\ opc'[q] = step /\ oloc'[q] = l
      /\ \A r \in OfferProcs \ {q} : opc'[r] = opc[r] /\ oloc'[r] = oloc[r]
  BY <1>1
<1>4. \A r \in OfferProcs : Offering(opc'[r], oloc'[r])
  BY <1>3 DEF OfRequests
<1> QED BY <1>2, <1>3, <1>4 DEF OfRequests

\* The data it holds may stay as it is.
LEMMA SameOfferData ==
  ASSUME OfRequests, NEW q \in OfferProcs, UNCHANGED oloc
  PROVE  oloc' = [oloc EXCEPT ![q] = oloc[q]] /\ oloc[q] \in OfferLocal
         /\ Offering(opc[q], oloc[q])
BY DEF OfRequests

\* No request begins to create, and rows are at most switched off.
LEMMA AloneStays ==
  ASSUME OfInv, OfRequests',
         \A r \in OfferProcs : opc'[r] \in CreateSteps => opc[r] \in CreateSteps,
         \A r \in OfferProcs : opc'[r] = "insert" => opc[r] = "insert",
         \A i \in OfferIds : On(i)' => On(i),
         UNCHANGED twins
  PROVE  OfAlone'
BY DEF OfInv, OfAlone, CreatingOffer

-----------------------------------------------------------------------------
\* An offer is asked for.
LEMMA CreateOfferKeeps ==
  ASSUME OfInv, NEW q \in OfferProcs, CreateOffer(q)
  PROVE  OfInv'
<1>1. OfRows /\ OfRequests /\ OfAlone /\ OfHonest
  BY DEF OfInv, OfTypes
<1>2. PICK price \in OfferPrices, w \in Windows \ {"over"} :
        /\ price < ListPrice
        /\ OfferBegin(q, "discount", [NoOfferLocal EXCEPT !.price = price, !.window = w])
  BY DEF CreateOffer
<1>3. twins' = (twins \/ \E r \in OfferProcs : CreatingOffer(r)) /\ UNCHANGED dimmed
  BY DEF CreateOffer
<1> DEFINE l == [NoOfferLocal EXCEPT !.price = price, !.window = w]
<1>4. /\ opc[q] = "idle" /\ opc' = [opc EXCEPT ![q] = "discount"] /\ oloc' = [oloc EXCEPT ![q] = l]
      /\ UNCHANGED <<offers, amountOff>>
  BY <1>2 DEF OfferBegin, offerTables
<1>5. l \in OfferLocal /\ l.price = price /\ l.off = NoAmount
  <2>1. l \in OfferLocal /\ l.price = price /\ l.off = NoOfferLocal.off
    BY OfferFacts DEF OfferLocal
  <2> QED BY <2>1 DEF NoOfferLocal
<1>6. Offering("discount", l) /\ "discount" \in OfferSteps /\ "discount" \in CreateSteps
  BY <1>2, <1>5 DEF Offering, OfferSteps, CreateSteps
<1> HIDE DEF l
<1>7. /\ OfRequests' /\ opc'[q] = "discount"
      /\ \A r \in OfferProcs \ {q} : opc'[r] = opc[r]
  BY <1>1, <1>4, <1>5, <1>6, OfferStepKeeps
<1>8. OfRows' /\ OfHonest'
  BY <1>1, <1>3, <1>4 DEF OfRows, OfHonest, On
<1>9. OfAlone'
  <2>1. twins' \in BOOLEAN
    BY <1>1, <1>3 DEF OfAlone
  <2>2. ASSUME ~twins'
        PROVE  ~twins /\ \A r \in OfferProcs : ~CreatingOffer(r)
    BY <2>2, <1>3
  <2>3. ASSUME ~twins', NEW r \in OfferProcs, opc'[r] \in CreateSteps
        PROVE  r = q
    BY <2>2, <2>3, <1>7 DEF CreatingOffer
  <2>4. ASSUME ~twins', NEW i \in OfferIds, NEW j \in OfferIds, On(i)', On(j)'
        PROVE  i = j
    <3>1. On(i) /\ On(j) /\ ~twins
      BY <2>2, <2>4, <1>4 DEF On
    <3> QED BY <3>1, <1>1 DEF OfAlone
  <2>5. ASSUME ~twins', NEW r \in OfferProcs, opc'[r] = "insert"
        PROVE  FALSE
    <3>1. "insert" \in CreateSteps /\ "insert" # "discount"
      BY DEF CreateSteps
    <3>2. r = q
      BY <3>1, <2>3, <2>5
    <3> QED BY <3>1, <3>2, <2>5, <1>7
  <2> QED BY <2>1, <2>3, <2>4, <2>5 DEF OfAlone, CreatingOffer
<1> QED BY <1>7, <1>8, <1>9 DEF OfInv, OfTypes

\* Its discount is made, or is not.
LEMMA BackOfferKeeps ==
  ASSUME OfInv, NEW q \in OfferProcs, BackOffer(q) \/ BackOfferFails(q)
  PROVE  OfInv'
<1>1. OfRows /\ OfRequests /\ OfAlone /\ OfHonest
  BY DEF OfInv, OfTypes
<1>2. /\ opc[q] = "discount" /\ opc' = [opc EXCEPT ![q] = "others"]
      /\ UNCHANGED <<offers, amountOff, twins, dimmed>>
  BY DEF BackOffer, BackOfferFails, OfferGoto, offerTables, offerHistory
<1>3. oloc[q] \in OfferLocal /\ Offering("discount", oloc[q])
  BY <1>1, <1>2 DEF OfRequests
<1>4. oloc[q].price \in Nat /\ oloc[q].price < ListPrice /\ ListPrice - oloc[q].price \in Nat
  <2>1. oloc[q].price \in Nat /\ oloc[q].price < ListPrice
    <3>1. oloc[q].price \in OfferPrices \cup {0} /\ oloc[q].price < ListPrice
      BY <1>3 DEF OfferLocal, Offering, CreateSteps
    <3> QED BY <3>1, PriceIsNatural
  <2> QED BY <2>1, OfferFacts
<1>5. PICK l \in OfferLocal : oloc' = [oloc EXCEPT ![q] = l] /\ l.price = oloc[q].price
                              /\ l.off \in {NoAmount, ListPrice - l.price}
  <2>1. CASE BackOffer(q)
    <3> DEFINE off == ListPrice - oloc[q].price
               l == [oloc[q] EXCEPT !.off = off]
    <3>1. oloc \in [OfferProcs -> OfferLocal] /\ oloc' = [oloc EXCEPT ![q].off = off]
      BY <2>1, <1>1 DEF BackOffer, OfRequests
    <3>2. oloc' = [oloc EXCEPT ![q] = l]
      BY <3>1
    <3> HIDE DEF off
    <3>3. l \in OfferLocal /\ l.price = oloc[q].price /\ l.off = off
      BY <1>3, <1>4 DEF OfferLocal, off
    <3> QED BY <3>2, <3>3 DEF off
  <2>2. CASE BackOfferFails(q)
    <3> DEFINE l == [oloc[q] EXCEPT !.off = NoAmount]
    <3>1. UNCHANGED oloc
      BY <2>2 DEF BackOfferFails
    <3>2. oloc[q].off = NoAmount
      BY <1>2, <1>3 DEF Offering
    <3> QED BY <3>1, <3>2, <1>1, <1>3, SameOfferData
  <2> QED BY <2>1, <2>2
<1>6. Offering("others", l) /\ "others" \in OfferSteps /\ "others" \in CreateSteps
      /\ "discount" \in CreateSteps
  BY <1>4, <1>5 DEF Offering, OfferSteps, CreateSteps
<1>7. /\ OfRequests' /\ opc'[q] = "others"
      /\ \A r \in OfferProcs \ {q} : opc'[r] = opc[r]
  BY <1>1, <1>2, <1>5, <1>6, OfferStepKeeps
<1>8. OfRows' /\ OfHonest'
  BY <1>1, <1>2 DEF OfRows, OfHonest, On
<1>9. OfAlone'
  BY <1>2, <1>6, <1>7, AloneStays DEF On
<1> QED BY <1>7, <1>8, <1>9 DEF OfInv, OfTypes

\* The others are switched off: whoever creates alone finds none left on.
LEMMA DeactivateOthersKeeps ==
  ASSUME OfInv, NEW q \in OfferProcs, DeactivateOthers(q)
  PROVE  OfInv'
<1>1. OfRows /\ OfRequests /\ OfAlone /\ OfHonest
  BY DEF OfInv, OfTypes
<1>2. /\ opc[q] = "others" /\ opc' = [opc EXCEPT ![q] = "insert"]
      /\ offers' = [i \in OfferIds |->
                      IF offers[i].state = "on" THEN [offers[i] EXCEPT !.state = "off"]
                      ELSE offers[i]]
      /\ twins' = (twins /\ \E r \in OfferProcs \ {q} : CreatingOffer(r))
      /\ UNCHANGED <<amountOff, oloc, dimmed>>
  BY DEF DeactivateOthers, OfferGoto
<1>3. /\ oloc' = [oloc EXCEPT ![q] = oloc[q]] /\ oloc[q] \in OfferLocal
      /\ Offering("others", oloc[q])
  BY <1>1, <1>2, SameOfferData
<1>4. Offering("insert", oloc[q]) /\ "insert" \in OfferSteps /\ "insert" \in CreateSteps
      /\ "others" \in CreateSteps
  BY <1>3 DEF Offering, OfferSteps, CreateSteps
<1>5. /\ OfRequests' /\ opc'[q] = "insert"
      /\ \A r \in OfferProcs \ {q} : opc'[r] = opc[r]
  BY <1>1, <1>2, <1>3, <1>4, OfferStepKeeps
<1>6. ASSUME NEW i \in OfferIds
      PROVE  offers'[i] \in OfferRow /\ offers'[i].state # "on" /\ offers'[i].backed = offers[i].backed
  <2>1. offers[i] \in OfferRow
    BY <1>1 DEF OfRows
  <2>2. CASE offers[i].state = "on"
    <3>1. offers'[i] = [offers[i] EXCEPT !.state = "off"]
      BY <1>2, <2>2
    <3> QED BY <2>1, <3>1 DEF OfferRow
  <2>3. CASE offers[i].state # "on"
    BY <1>2, <2>1, <2>3
  <2> QED BY <2>2, <2>3
<1>7. OfRows'
  BY <1>1, <1>2, <1>6 DEF OfRows
<1>8. OfHonest'
  BY <1>6 DEF OfHonest, On
<1>9. OfAlone'
  <2>1. twins' \in BOOLEAN
    BY <1>2
  <2>2. ASSUME ~twins', NEW r \in OfferProcs, NEW s \in OfferProcs,
               opc'[r] \in CreateSteps, opc'[s] \in CreateSteps
        PROVE  r = s
    <3>1. opc[r] \in CreateSteps /\ opc[s] \in CreateSteps
      BY <2>2, <1>2, <1>4, <1>5
    <3>2. CASE ~twins
      BY <3>1, <3>2, <1>1 DEF OfAlone, CreatingOffer
    <3>3. CASE twins
      <4>1. \A t \in OfferProcs \ {q} : ~CreatingOffer(t)
        BY <2>2, <3>3, <1>2
      <4> QED BY <3>1, <4>1 DEF CreatingOffer
    <3> QED BY <3>2, <3>3
  <2> QED BY <2>1, <2>2, <1>6 DEF OfAlone, CreatingOffer, On
<1> QED BY <1>5, <1>7, <1>8, <1>9 DEF OfInv, OfTypes

\* The row of the new offer: the only one on.
LEMMA InsertOfferKeeps ==
  ASSUME OfInv, NEW q \in OfferProcs, InsertOffer(q)
  PROVE  OfInv'
<1> DEFINE l == oloc[q]
           row == [state |-> "on", price |-> l.price, backed |-> l.off # NoAmount,
                   window |-> l.window]
<1>1. OfRows /\ OfRequests /\ OfAlone /\ OfHonest
  BY DEF OfInv, OfTypes
<1>2. PICK i \in OfferIds :
        /\ offers[i].state = "none"
        /\ offers' = [offers EXCEPT ![i] = row]
        /\ amountOff' = [amountOff EXCEPT ![i] = l.off]
  BY DEF InsertOffer
<1>3. /\ opc[q] = "insert" /\ opc' = [opc EXCEPT ![q] = "idle"]
      /\ oloc' = [oloc EXCEPT ![q] = NoOfferLocal] /\ UNCHANGED <<twins, dimmed>>
  BY DEF InsertOffer, OfferGoto, offerHistory
<1>4. /\ l \in OfferLocal /\ l.price < ListPrice /\ l.off \in {NoAmount, ListPrice - l.price}
  BY <1>1, <1>3 DEF OfRequests, Offering, CreateSteps
<1>5. l.price \in Nat /\ l.off \in Nat /\ l.price \in OfferPrices \cup {0} /\ l.window \in Windows
  <2>1. l.price \in OfferPrices \cup {0} /\ l.off \in Nat /\ l.window \in Windows
    BY <1>4 DEF OfferLocal
  <2> QED BY <2>1, PriceIsNatural
<1>6. /\ row \in OfferRow /\ row.state = "on" /\ row.price = l.price
      /\ row.backed = (l.off # NoAmount)
  BY <1>5 DEF OfferRow
<1>7. l.off = IF row.backed THEN ListPrice - row.price ELSE NoAmount
  BY <1>4, <1>6
<1> HIDE DEF row, l
<1>8. /\ offers \in [OfferIds -> OfferRow] /\ amountOff \in [OfferIds -> Nat]
      /\ offers'[i] = row /\ amountOff'[i] = l.off
      /\ \A j \in OfferIds \ {i} : offers'[j] = offers[j] /\ amountOff'[j] = amountOff[j]
  BY <1>1, <1>2 DEF OfRows
<1>9. OfRows'
  <2>1. offers' \in [OfferIds -> OfferRow] /\ amountOff' \in [OfferIds -> Nat]
    BY <1>2, <1>5, <1>6, <1>8
  <2> QED BY <1>1, <1>3, <1>6, <1>8, <2>1 DEF OfRows
<1>10. OfHonest'
  BY <1>1, <1>3, <1>7, <1>8 DEF OfHonest, On
<1>11. /\ OfRequests' /\ opc'[q] = "idle"
       /\ \A r \in OfferProcs \ {q} : opc'[r] = opc[r]
  BY <1>1, <1>3, OfferFacts, OfferStepKeeps DEF OfferSteps
<1>12. OfAlone'
  <2>1. ASSUME ~twins
        PROVE  /\ \A r \in OfferProcs : opc'[r] \notin CreateSteps
               /\ \A j \in OfferIds \ {i} : ~On(j)'
    <3>1. \A r \in OfferProcs \ {q} : opc[r] \notin CreateSteps
      BY <2>1, <1>1, <1>3 DEF OfAlone, CreatingOffer, CreateSteps
    <3>2. \A j \in OfferIds : ~On(j)
      BY <2>1, <1>1, <1>3 DEF OfAlone
    <3> QED BY <3>1, <3>2, <1>8, <1>11, OfferFacts DEF On
  <2>2. "insert" \in CreateSteps
    BY DEF CreateSteps
  <2>3. ASSUME ~twins', NEW j \in OfferIds, NEW k \in OfferIds, On(j)', On(k)'
        PROVE  j = k
    BY <2>1, <2>3, <1>3
  <2>4. twins' \in BOOLEAN
    BY <1>1, <1>3 DEF OfAlone
  <2> QED BY <2>1, <2>2, <2>3, <2>4, <1>3 DEF OfAlone, CreatingOffer
<1> QED BY <1>9, <1>10, <1>11, <1>12 DEF OfInv, OfTypes

-----------------------------------------------------------------------------
\* A request to deactivate begins, goes on without the provider, or fails.
LEMMA OfferQuietKeeps ==
  ASSUME OfInv, NEW q \in OfferProcs,
         DeactivateOffer(q) \/ ArchiveOfferFails(q) \/ OfferFail(q)
  PROVE  OfInv'
<1>1. OfRows /\ OfRequests /\ OfAlone /\ OfHonest
  BY DEF OfInv, OfTypes
<1>2. UNCHANGED <<offers, amountOff, twins, dimmed>>
  BY DEF DeactivateOffer, ArchiveOfferFails, OfferFail, OfferBegin, offerTables, offerHistory
<1>3. PICK step \in {"archive", "off", "idle"}, l \in OfferLocal :
        opc' = [opc EXCEPT ![q] = step] /\ oloc' = [oloc EXCEPT ![q] = l] /\ Offering(step, l)
  <2>1. CASE DeactivateOffer(q)
    <3>1. PICK i \in OfferIds : OfferBegin(q, "archive", [NoOfferLocal EXCEPT !.row = i])
      BY <2>1 DEF DeactivateOffer
    <3> DEFINE l == [NoOfferLocal EXCEPT !.row = i]
    <3>2. l \in OfferLocal /\ l.row = i
      BY OfferFacts DEF OfferLocal
    <3>3. Offering("archive", l)
      BY <3>2 DEF Offering, CreateSteps
    <3>4. opc' = [opc EXCEPT ![q] = "archive"] /\ oloc' = [oloc EXCEPT ![q] = l]
      BY <3>1 DEF OfferBegin
    <3> HIDE DEF l
    <3> QED BY <3>2, <3>3, <3>4
  <2>2. CASE ArchiveOfferFails(q)
    <3>1. opc[q] = "archive" /\ opc' = [opc EXCEPT ![q] = "off"] /\ UNCHANGED oloc
      BY <2>2 DEF ArchiveOfferFails
    <3>2. oloc' = [oloc EXCEPT ![q] = oloc[q]] /\ oloc[q] \in OfferLocal /\ Offering("archive", oloc[q])
      BY <3>1, <1>1, SameOfferData
    <3>3. Offering("off", oloc[q])
      BY <3>2 DEF Offering, CreateSteps
    <3> QED BY <3>1, <3>2, <3>3
  <2>3. CASE OfferFail(q)
    BY <2>3, OfferFacts DEF OfferFail
  <2> QED BY <2>1, <2>2, <2>3
<1>4. step \in OfferSteps /\ step \notin CreateSteps /\ step # "insert"
  BY <1>3 DEF OfferSteps, CreateSteps
<1>5. /\ OfRequests' /\ opc'[q] = step
      /\ \A r \in OfferProcs \ {q} : opc'[r] = opc[r]
  BY <1>1, <1>3, <1>4, OfferStepKeeps
<1>6. OfRows' /\ OfHonest'
  BY <1>1, <1>2 DEF OfRows, OfHonest, On
<1>7. OfAlone'
  BY <1>2, <1>4, <1>5, AloneStays DEF On
<1> QED BY <1>5, <1>6, <1>7 DEF OfInv, OfTypes

\* The discount of a row is archived.
LEMMA ArchiveOfferDiscountKeeps ==
  ASSUME OfInv, NEW q \in OfferProcs, ArchiveOfferDiscount(q)
  PROVE  OfInv'
<1> DEFINE i == oloc[q].row
<1>1. OfRows /\ OfRequests /\ OfAlone /\ OfHonest
  BY DEF OfInv, OfTypes
<1>2. /\ opc[q] = "archive" /\ opc' = [opc EXCEPT ![q] = "off"]
      /\ amountOff' = [amountOff EXCEPT ![i] = NoAmount] /\ dimmed' = dimmed \cup {i}
      /\ UNCHANGED <<offers, oloc, twins>>
  BY DEF ArchiveOfferDiscount, OfferGoto
<1>3. /\ oloc' = [oloc EXCEPT ![q] = oloc[q]] /\ oloc[q] \in OfferLocal
      /\ Offering("archive", oloc[q])
  BY <1>1, <1>2, SameOfferData
<1>4. Offering("off", oloc[q]) /\ i \in OfferIds /\ "off" \in OfferSteps
  BY <1>3 DEF Offering, CreateSteps, OfferSteps
<1>5. /\ OfRequests' /\ opc'[q] = "off"
      /\ \A r \in OfferProcs \ {q} : opc'[r] = opc[r]
  BY <1>1, <1>2, <1>3, <1>4, OfferStepKeeps
<1> HIDE DEF i
<1>6. /\ amountOff \in [OfferIds -> Nat] /\ amountOff'[i] = NoAmount
      /\ \A j \in OfferIds \ {i} : amountOff'[j] = amountOff[j]
  BY <1>1, <1>2, <1>4 DEF OfRows
<1>7. OfRows'
  <2>1. amountOff' \in [OfferIds -> Nat]
    BY <1>2, <1>6, OfferFacts
  <2> QED BY <1>1, <1>2, <1>4, <1>6, <2>1 DEF OfRows
<1>8. OfHonest'
  BY <1>1, <1>2, <1>6 DEF OfHonest, On
<1>9. OfAlone'
  BY <1>2, <1>5, OfferFacts, AloneStays DEF On
<1> QED BY <1>5, <1>7, <1>8, <1>9 DEF OfInv, OfTypes

\* The row is switched off.
LEMMA SwitchOffKeeps ==
  ASSUME OfInv, NEW q \in OfferProcs, SwitchOff(q)
  PROVE  OfInv'
<1> DEFINE i == oloc[q].row
<1>1. OfRows /\ OfRequests /\ OfAlone /\ OfHonest
  BY DEF OfInv, OfTypes
<1>2. /\ opc[q] = "off" /\ opc' = [opc EXCEPT ![q] = "idle"]
      /\ offers' = [offers EXCEPT ![i].state = "off"] /\ dimmed' = dimmed \ {i}
      /\ oloc' = [oloc EXCEPT ![q] = NoOfferLocal]
      /\ UNCHANGED <<amountOff, twins>>
  BY DEF SwitchOff, OfferGoto
<1>3. i \in OfferIds
  BY <1>1, <1>2 DEF OfRequests, Offering
<1>4. /\ OfRequests' /\ opc'[q] = "idle"
      /\ \A r \in OfferProcs \ {q} : opc'[r] = opc[r]
  BY <1>1, <1>2, OfferFacts, OfferStepKeeps DEF OfferSteps
<1> HIDE DEF i
<1>5. /\ offers \in [OfferIds -> OfferRow]
      /\ offers'[i] = [offers[i] EXCEPT !.state = "off"]
      /\ \A j \in OfferIds \ {i} : offers'[j] = offers[j]
  BY <1>1, <1>2, <1>3 DEF OfRows
<1>6. offers'[i] \in OfferRow /\ offers'[i].state = "off" /\ offers'[i].backed = offers[i].backed
  BY <1>3, <1>5 DEF OfferRow
<1>7. OfRows'
  <2>1. offers' \in [OfferIds -> OfferRow]
    BY <1>2, <1>5, <1>6
  <2> QED BY <1>1, <1>2, <1>5, <1>6, <2>1 DEF OfRows
<1>8. OfHonest'
  BY <1>1, <1>2, <1>5, <1>6 DEF OfHonest, On
<1>9. OfAlone'
  BY <1>2, <1>4, <1>5, <1>6, OfferFacts, AloneStays DEF On
<1> QED BY <1>4, <1>7, <1>8, <1>9 DEF OfInv, OfTypes

\* An offer's time comes, or is over.
LEMMA WindowMovesKeeps ==
  ASSUME OfInv, WindowMoves
  PROVE  OfInv'
<1>1. OfRows /\ OfRequests /\ OfAlone /\ OfHonest
  BY DEF OfInv, OfTypes
<1>2. UNCHANGED <<amountOff, opc, oloc, twins, dimmed>>
  BY DEF WindowMoves, offerHistory
<1>3. PICK i \in OfferIds :
        offers' = [offers EXCEPT ![i].window = IF offers[i].window = "early" THEN "open" ELSE "over"]
  BY DEF WindowMoves
<1> DEFINE w == IF offers[i].window = "early" THEN "open" ELSE "over"
<1>4. w \in Windows
  BY DEF Windows
<1> HIDE DEF w
<1>5. /\ offers \in [OfferIds -> OfferRow]
      /\ offers'[i] = [offers[i] EXCEPT !.window = w]
      /\ \A j \in OfferIds \ {i} : offers'[j] = offers[j]
  BY <1>1, <1>3 DEF OfRows, w
<1>6. /\ offers'[i] \in OfferRow /\ offers'[i].state = offers[i].state
      /\ offers'[i].backed = offers[i].backed /\ offers'[i].price = offers[i].price
  BY <1>4, <1>5 DEF OfferRow
<1>7. OfRows'
  <2>1. offers' \in [OfferIds -> OfferRow]
    BY <1>3, <1>5, <1>6
  <2> QED BY <1>1, <1>2, <1>5, <1>6, <2>1 DEF OfRows
<1>8. OfRequests'
  BY <1>1, <1>2 DEF OfRequests
<1>9. OfHonest'
  BY <1>1, <1>2, <1>5, <1>6 DEF OfHonest, On
<1>10. OfAlone'
  BY <1>2, <1>5, <1>6, <1>8, AloneStays DEF On
<1> QED BY <1>7, <1>8, <1>9, <1>10 DEF OfInv, OfTypes

-----------------------------------------------------------------------------
\* Every step keeps the invariant.
LEMMA OfferNextKeeps ==
  ASSUME OfInv, [OfferNext]_offerVars
  PROVE  OfInv'
<1>1. CASE UNCHANGED offerVars
  BY <1>1 DEF offerVars, offerTables, offerHistory, OfInv, OfTypes, OfRows, OfRequests, OfAlone,
              OfHonest, On, CreatingOffer
<1> QED BY <1>1, CreateOfferKeeps, BackOfferKeeps, DeactivateOthersKeeps, InsertOfferKeeps,
           OfferQuietKeeps, ArchiveOfferDiscountKeeps, SwitchOffKeeps, WindowMovesKeeps
        DEF OfferNext

\* Requests and failures are counted.
OfCounted == offerOps \in Nat /\ offerFaults \in Nat
LEMMA CountsKeep ==
  ASSUME OfCounted, [OfferNext]_offerVars
  PROVE  OfCounted'
<1>1. \/ UNCHANGED <<offerOps, offerFaults>>
      \/ offerOps' = offerOps + 1 /\ UNCHANGED offerFaults
      \/ offerFaults' = offerFaults + 1 /\ UNCHANGED offerOps
  BY DEF OfferNext, offerVars, CreateOffer, BackOffer, BackOfferFails, DeactivateOthers,
         InsertOffer, DeactivateOffer, ArchiveOfferDiscount, ArchiveOfferFails, SwitchOff,
         OfferFail, WindowMoves, OfferBegin, OfferGoto, OfferFault
<1> QED BY <1>1 DEF OfCounted

\* At first there are no offers.
LEMMA OfferFirst == OfferInit => OfInv
<1> SUFFICES ASSUME OfferInit PROVE OfInv
  OBVIOUS
<1>1. NoOffer \in OfferRow /\ NoOffer.state = "none"
  BY DEF NoOffer, OfferRow, Windows
<1>2. OfRows
  BY <1>1, OfferFacts DEF OfferInit, OfRows
<1>3. OfRequests
  BY OfferFacts DEF OfferInit, OfRequests, OfferSteps
<1>4. OfAlone /\ OfHonest
  BY <1>1, OfferFacts DEF OfferInit, OfAlone, OfHonest, On, CreatingOffer
<1> QED BY <1>2, <1>3, <1>4 DEF OfInv, OfTypes

\* Types; a row whose discount takes something off names one.
THEOREM OfferTypes == OfferSpec => []OfferTypeOK
<1>1. OfInv /\ OfCounted => OfferTypeOK
  BY DEF OfInv, OfTypes, OfRows, OfRequests, OfAlone, OfCounted, OfferTypeOK, OfferSteps
<1>2. OfferInit => OfCounted
  BY DEF OfferInit, OfCounted
<1> QED BY <1>1, <1>2, OfferFirst, OfferNextKeeps, CountsKeep, PTL DEF OfferSpec

\* However requests to create and to deactivate interleave and fail, for any offers and
\* prices: one is on at a time, unless two were being created at once.
THEOREM OneOfferAlways == OfferSpec => []OneActiveOffer
<1>1. OfInv => OneActiveOffer
  <2> SUFFICES ASSUME OfInv, ~twins
               PROVE  Cardinality({i \in OfferIds : offers[i].state = "on"}) <= 1
    BY DEF OneActiveOffer
  <2> DEFINE S == {i \in OfferIds : offers[i].state = "on"}
  <2>1. \A i, j \in S : i = j
    BY DEF OfInv, OfAlone, On
  <2>2. CASE S = {}
    BY <2>2, FS_EmptySet
  <2>3. CASE S # {}
    <3>1. PICK i \in S : S = {i}
      BY <2>1, <2>3
    <3>2. Cardinality({i}) = 1
      BY FS_Singleton
    <3> QED BY <3>1, <3>2
  <2> QED BY <2>2, <2>3
<1> QED BY <1>1, OfferFirst, OfferNextKeeps, PTL DEF OfferSpec

\* What the pricing page shows is what checkout bills, for any offers and prices.
THEOREM ShownAlwaysBilled == OfferSpec => []ShownIsBilled
<1>1. OfInv => ShownIsBilled
  <2> SUFFICES ASSUME OfInv, ~twins, InForce \cap dimmed = {}
               PROVE  ShownPrice = BilledPrice
    BY DEF ShownIsBilled
  <2>1. \A i, j \in InForce : i = j
    BY DEF OfInv, OfAlone, On, InForce
  <2>2. Honourable \subseteq InForce
    BY DEF Honourable
  <2>3. CASE InForce = {}
    BY <2>2, <2>3 DEF ShownPrice, BilledPrice
  <2>4. CASE InForce # {}
    <3>1. PICK i \in InForce : InForce = {i}
      BY <2>1, <2>4
    <3>2. i \in OfferIds \ dimmed /\ On(i) /\ i \in Nat
      BY <3>1, OfferConstantsOK DEF InForce, On
    <3>3. amountOff[i] = IF offers[i].backed THEN ListPrice - offers[i].price ELSE NoAmount
      BY <3>2 DEF OfInv, OfHonest
    <3>4. Newest({i}) = i
      BY <3>2 DEF Newest
    <3>5. BilledPrice = ListPrice - amountOff[i]
      BY <3>1, <3>4 DEF BilledPrice
    <3>6. offers[i].price \in Nat
      <4>1. offers[i].price \in OfferPrices \cup {0}
        BY <3>2 DEF OfInv, OfTypes, OfRows, OfferRow
      <4> QED BY <4>1, PriceIsNatural
    <3>7. CASE offers[i].backed
      <4>1. Honourable = {i}
        BY <3>1, <3>7 DEF Honourable
      <4>2. ShownPrice = offers[i].price
        BY <4>1, <3>4 DEF ShownPrice
      <4> QED BY <4>2, <3>3, <3>5, <3>6, <3>7, OfferFacts
    <3>8. CASE ~offers[i].backed
      <4>1. Honourable = {}
        BY <3>1, <3>8 DEF Honourable
      <4>2. ShownPrice = ListPrice
        BY <4>1 DEF ShownPrice
      <4> QED BY <4>2, <3>3, <3>5, <3>8, OfferFacts
    <3> QED BY <3>7, <3>8
  <2> QED BY <2>3, <2>4
<1> QED BY <1>1, OfferFirst, OfferNextKeeps, PTL DEF OfferSpec

-----------------------------------------------------------------------------
(***************************************************************************)
(* Promo codes (Promo).  The code counts a use before it grants it, and    *)
(* gives it back when the grant fails; the counter, the records and the    *)
(* requests between the two are related by PmCount and PmHolds.            *)
(***************************************************************************)

PromoRow   == [state : {"absent", "active", "revoked", "deleted"},
               type : {"percent_off", "free_plan"}, max : Caps \cup {Unlimited}, times : Nat,
               discount : DiscountIds \cup {NoDiscount}, expired : BOOLEAN]
PromoSteps == AdminSteps \cup RedeemSteps \cup {"idle"}

\* The tables, and that a request past its reads is about a code that is there.
PmTables ==
  /\ promo \in PromoRow /\ redemptions \subseteq Accounts
  /\ promo.state \in {"absent", "deleted"} => redemptions = {}
  /\ discounts \in [DiscountIds -> {"none", "active", "archived"}]
  /\ given \in [Accounts -> Nat] /\ forgotten \subseteq Accounts
  /\ miscounted \in BOOLEAN /\ stray \subseteq DiscountIds

Reading(step, l, state) ==
  /\ step \in RedeemSteps => l.account \in Accounts
  /\ step \notin {"idle", "new_discount", "insert"} => state # "absent"
  /\ step \in {"new_discount", "fresh_discount"} => l.discount = NoDiscount

PmRequests ==
  /\ ppc \in [PromoProcs -> PromoSteps] /\ ploc \in [PromoProcs -> PromoLocal]
  /\ wiped \subseteq PromoProcs /\ unrivalled \subseteq PromoProcs
  /\ \A q \in PromoProcs : Reading(ppc[q], ploc[q], promo.state)

\* A request between its claim and the grant holds the only record of its account, and
\* the account has been given nothing; one that was given has its record.
Holds(q, a) == ppc[q] \in {"comp", "release_row"} /\ ploc[q].account = a
HeldOnce(a) ==
  /\ given[a] <= 1
  /\ \A q \in PromoProcs : Holds(q, a) =>
       given[a] = 0 /\ \A r \in PromoProcs : Holds(r, a) => r = q
  /\ (promo.state # "deleted" /\ (given[a] = 1 \/ \E q \in PromoProcs : Holds(q, a)))
       => a \in redemptions
PmHolds == \A a \in Accounts \ forgotten : HeldOnce(a)

\* A slot is in use for a request at work between its claim and the end, unless wiped, and
\* for a record that is no such request's.
Claimers == {q \in PromoProcs \ wiped : ppc[q] \in {"comp", "release_row", "release_slot"}}
Taken    == {ploc[q].account : q \in {r \in Claimers : ppc[r] # "release_slot"}}
Loose    == redemptions \ Taken
PmCount ==
  /\ IsFiniteSet(Claimers) /\ IsFiniteSet(redemptions)
  /\ ~miscounted => Cardinality(Claimers) + Cardinality(Loose) <= promo.times

\* An unrivalled request is the only one of an administrator, and what it read still is.
Lone(q) ==
  /\ Administering(q) /\ \A r \in PromoProcs \ {q} : ~Administering(r)
  /\ ppc[q] \in {"new_discount", "insert"} => promo.state = "absent"
  /\ ppc[q] \in {"fresh_discount", "reset_usage", "reopen"} => promo.state = "revoked"
  /\ ppc[q] \in {"archive", "close"} =>
       promo.state \in {"active", "revoked"} /\ ploc[q].discount = promo.discount
  /\ (ppc[q] \in {"insert", "reset_usage", "reopen"} /\ ploc[q].discount \in DiscountIds) =>
       discounts[ploc[q].discount] = "active"
  /\ (ppc[q] = "close" /\ ploc[q].discount \in DiscountIds \ stray) =>
       discounts[ploc[q].discount] # "active"
  /\ (ppc[q] = "reopen" /\ ploc[q].flag) => redemptions = {} /\ Claimers = {}
PmLone == \A q \in unrivalled : Lone(q)

PmInv == PmTables /\ PmRequests /\ PmHolds /\ PmCount /\ PmLone /\ ProviderFollows

-----------------------------------------------------------------------------
\* The marker is no discount; the data of a request that is not at work.
LEMMA PromoFacts ==
  /\ NoDiscount \notin DiscountIds /\ NoAccount \notin Accounts /\ Unlimited = 0
  /\ Caps \subseteq Nat /\ NoPromo \in PromoRow
  /\ NoPromoLocal \in PromoLocal /\ NoPromoLocal.discount = NoDiscount /\ ~NoPromoLocal.flag
  /\ \A state : Reading("idle", NoPromoLocal, state)
  /\ "idle" \notin AdminSteps /\ "idle" \notin RedeemSteps
BY PromoConstantsOK DEF NoPromo, PromoRow, NoPromoLocal, PromoLocal, Reading, AdminSteps,
                        RedeemSteps, Unlimited

\* Steps are an administrator's, a redemption's, or none.
LEMMA StepKinds ==
  /\ AdminSteps \subseteq PromoSteps /\ RedeemSteps \subseteq PromoSteps /\ "idle" \in PromoSteps
  /\ AdminSteps \cap RedeemSteps = {}
  /\ {"comp", "release_row", "release_slot", "claim"} = RedeemSteps
  /\ {"new_discount", "insert", "archive", "close", "fresh_discount", "reset_usage", "reopen"}
       = AdminSteps
BY DEF AdminSteps, RedeemSteps, PromoSteps

\* A request goes to another step.
LEMMA PromoMoves ==
  ASSUME PmRequests, NEW q \in PromoProcs, NEW step \in PromoSteps, NEW l \in PromoLocal,
         ppc' = [ppc EXCEPT ![q] = step], ploc' = [ploc EXCEPT ![q] = l],
         wiped' \subseteq PromoProcs, unrivalled' \subseteq PromoProcs,
         promo.state # "absent" => promo'.state # "absent",
         Reading(step, l, promo'.state)
  PROVE  /\ PmRequests' /\ ppc'[q] = step /\ ploc'[q] = l
         /\ \A r \in PromoProcs \ {q} : ppc'[r] = ppc[r] /\ ploc'[r] = ploc[r]
<1>1. ppc \in [PromoProcs -> PromoSteps] /\ ploc \in [PromoProcs -> PromoLocal]
  BY DEF PmRequests
<1>2. ppc' \in [PromoProcs -> PromoSteps] /\ ploc' \in [PromoProcs -> PromoLocal]
  BY <1>1
<1>3. /\ ppc'[q] = step /\ ploc'[q] = l
      /\ \A r \in PromoProcs \ {q} : ppc'[r] = ppc[r] /\ ploc'[r] = ploc[r]
  BY <1>1
<1>4. ASSUME NEW r \in PromoProcs
      PROVE  Reading(ppc'[r], ploc'[r], promo'.state)
  <2>1. CASE r = q
    BY <1>3, <2>1
  <2>2. CASE r # q
    <3>1. Reading(ppc[r], ploc[r], promo.state)
      BY DEF PmRequests
    <3> QED BY <1>3, <2>2, <3>1 DEF Reading
  <2> QED BY <2>1, <2>2
<1> QED BY <1>2, <1>3, <1>4 DEF PmRequests

\* The same for a request that only changes its step, and for one that ends.
LEMMA SamePromoData ==
  ASSUME PmRequests, NEW q \in PromoProcs
  PROVE  /\ [ploc EXCEPT ![q] = ploc[q]] = ploc /\ ploc[q] \in PromoLocal
         /\ Reading(ppc[q], ploc[q], promo.state)
BY DEF PmRequests

\* It ends.
LEMMA PromoEnds ==
  ASSUME PmRequests, NEW q \in PromoProcs,
         ppc' = [ppc EXCEPT ![q] = "idle"], ploc' = [ploc EXCEPT ![q] = NoPromoLocal],
         unrivalled' = unrivalled \ {q}, wiped' = wiped \ {q},
         promo.state # "absent" => promo'.state # "absent"
  PROVE  /\ PmRequests' /\ ppc'[q] = "idle" /\ ploc'[q] = NoPromoLocal
         /\ \A r \in PromoProcs \ {q} : ppc'[r] = ppc[r] /\ ploc'[r] = ploc[r]
<1>1. wiped' \subseteq PromoProcs /\ unrivalled' \subseteq PromoProcs
  BY DEF PmRequests
<1> QED BY <1>1, PromoFacts, StepKinds, PromoMoves

-----------------------------------------------------------------------------
(* What leaves the parts of the invariant as they are.                      *)

\* No one claims or is given anything, and records vanish only with a trace.
LEMMA HoldsQuiet ==
  ASSUME PmHolds, UNCHANGED given, forgotten \subseteq forgotten',
         promo.state = "deleted" => promo'.state = "deleted",
         \A a \in Accounts \ forgotten' :
           promo'.state # "deleted" => (a \in redemptions => a \in redemptions'),
         \A r \in PromoProcs : ppc'[r] \in {"comp", "release_row"} =>
           ppc[r] \in {"comp", "release_row"} /\ ploc'[r].account = ploc[r].account
  PROVE  PmHolds'
<1> SUFFICES ASSUME NEW a \in Accounts \ forgotten'
             PROVE  HeldOnce(a)'
  BY DEF PmHolds
<1>1. HeldOnce(a)
  BY DEF PmHolds
<1>2. \A r \in PromoProcs : Holds(r, a)' => Holds(r, a)
  BY DEF Holds
<1>3. given'[a] <= 1
  BY <1>1 DEF HeldOnce
<1>4. \A q \in PromoProcs : Holds(q, a)' => given'[a] = 0 /\ \A r \in PromoProcs : Holds(r, a)' => r = q
  BY <1>1, <1>2 DEF HeldOnce
<1>5. (promo'.state # "deleted" /\ (given'[a] = 1 \/ \E q \in PromoProcs : Holds(q, a)'))
        => a \in redemptions'
  BY <1>1, <1>2 DEF HeldOnce
<1> QED BY <1>3, <1>4, <1>5 DEF HeldOnce

\* No slot is taken or given back.
LEMMA CountQuiet ==
  ASSUME PmTables, PmCount, Claimers' \subseteq Claimers, Loose' \subseteq Loose,
         redemptions' \subseteq redemptions,
         ~miscounted' => ~miscounted, promo'.times = promo.times
  PROVE  PmCount'
<1>1. IsFiniteSet(Claimers) /\ IsFiniteSet(redemptions) /\ IsFiniteSet(Loose)
  BY FS_Subset DEF PmCount, Loose
<1>2. /\ IsFiniteSet(Claimers') /\ Cardinality(Claimers') <= Cardinality(Claimers)
      /\ IsFiniteSet(redemptions')
      /\ IsFiniteSet(Loose') /\ Cardinality(Loose') <= Cardinality(Loose)
  BY <1>1, FS_Subset
<1>3. /\ Cardinality(Claimers) \in Nat /\ Cardinality(Loose) \in Nat
      /\ Cardinality(Claimers') \in Nat /\ Cardinality(Loose') \in Nat /\ promo.times \in Nat
  BY <1>1, <1>2, FS_CardinalityType DEF PmTables, PromoRow
<1>4. ~miscounted => Cardinality(Claimers) + Cardinality(Loose) <= promo.times
  BY DEF PmCount
<1>5. ASSUME ~miscounted'
      PROVE  Cardinality(Claimers') + Cardinality(Loose') <= promo'.times
  BY <1>2, <1>3, <1>4, <1>5
<1> QED BY <1>2, <1>5 DEF PmCount

\* Requests that hold a slot go on as they were, all others without one.
LEMMA SameClaims ==
  ASSUME PmRequests, NEW q \in PromoProcs,
         ppc[q] \notin {"comp", "release_row", "release_slot"},
         ppc'[q] \notin {"comp", "release_row", "release_slot"},
         \A r \in PromoProcs \ {q} : ppc'[r] = ppc[r] /\ ploc'[r] = ploc[r],
         wiped' \ {q} = wiped \ {q}
  PROVE  Claimers' = Claimers /\ Taken' = Taken
<1>1. Claimers' = Claimers
  BY DEF Claimers
<1>2. \A r \in Claimers : ppc'[r] = ppc[r] /\ ploc'[r] = ploc[r]
  BY DEF Claimers
<1>3. Taken' = Taken
  BY <1>1, <1>2 DEF Taken
<1> QED BY <1>1, <1>3

\* Nothing of what administrators work on changes, and no one redeems a revoked code.
LEMMA AdminQuiet ==
  ASSUME PmRequests, PmLone, ProviderFollows,
         promo'.state = promo.state, promo'.discount = promo.discount, UNCHANGED discounts,
         stray \subseteq stray', unrivalled' \subseteq unrivalled,
         \A r \in PromoProcs : ppc'[r] \in AdminSteps \/ ppc[r] \in AdminSteps =>
           ppc'[r] = ppc[r] /\ ploc'[r] = ploc[r],
         promo.state = "revoked" => redemptions' \subseteq redemptions /\ Claimers' \subseteq Claimers
  PROVE  PmLone' /\ ProviderFollows'
<1>1. PmLone'
  <2> SUFFICES ASSUME NEW q \in unrivalled'
               PROVE  Lone(q)'
    BY DEF PmLone
  <2>1. q \in PromoProcs /\ Lone(q) /\ ppc[q] \in AdminSteps
    BY DEF PmLone, Lone, PmRequests, Administering
  <2>2. ppc'[q] = ppc[q] /\ ploc'[q] = ploc[q]
    BY <2>1
  <2>3. Administering(q)' /\ \A r \in PromoProcs \ {q} : ~Administering(r)'
    BY <2>1, <2>2 DEF Lone, Administering
  <2>4. (ppc[q] = "reopen" /\ ploc[q].flag) => redemptions' = {} /\ Claimers' = {}
    BY <2>1 DEF Lone
  <2> QED BY <2>1, <2>2, <2>3, <2>4 DEF Lone
<1>2. ProviderFollows'
  BY DEF ProviderFollows, Administering
<1> QED BY <1>1, <1>2

\* An administrator's step concerns no other unrivalled request: there is none.
LEMMA LoneOnly ==
  ASSUME PmLone, NEW q \in PromoProcs, Administering(q)
  PROVE  unrivalled \subseteq {q}
BY DEF PmLone, Lone

\* The request of an administrator ends, its discounts forgotten or left as they should be.
LEMMA StrayEnds ==
  ASSUME PmRequests, ProviderFollows, NEW q \in PromoProcs, Administering(q),
         ppc'[q] = "idle",
         \A r \in PromoProcs \ {q} : ppc'[r] = ppc[r] /\ ploc'[r] = ploc[r],
         UNCHANGED discounts, stray' = stray \cup Touched(q),
         promo'.discount \in {promo.discount, ploc[q].discount}
  PROVE  ProviderFollows'
<1> SUFFICES ASSUME NEW d \in DiscountIds \ stray',
                    \A r \in PromoProcs : Administering(r)' => ploc'[r].discount # d
             PROVE  discounts[d] = "active" <=> promo'.state = "active" /\ promo'.discount = d
  BY DEF ProviderFollows
<1>1. d \notin stray /\ d # promo.discount /\ d # ploc[q].discount
  BY DEF Touched
<1>2. \A r \in PromoProcs : Administering(r) => ploc[r].discount # d
  BY <1>1 DEF Administering
<1>3. discounts[d] # "active"
  BY <1>1, <1>2 DEF ProviderFollows
<1> QED BY <1>1, <1>3

-----------------------------------------------------------------------------
(* Slots.                                                                   *)

\* The sets that are counted are finite, and so their sizes numbers.
LEMMA CountFacts ==
  ASSUME PmTables, PmCount
  PROVE  /\ IsFiniteSet(Claimers) /\ IsFiniteSet(redemptions) /\ IsFiniteSet(Loose)
         /\ Cardinality(Claimers) \in Nat /\ Cardinality(Loose) \in Nat /\ promo.times \in Nat
         /\ ~miscounted => Cardinality(Claimers) + Cardinality(Loose) <= promo.times
<1>1. IsFiniteSet(Claimers) /\ IsFiniteSet(redemptions) /\ IsFiniteSet(Loose)
  BY FS_Subset DEF PmCount, Loose
<1>2. Cardinality(Claimers) \in Nat /\ Cardinality(Loose) \in Nat
  BY <1>1, FS_CardinalityType
<1> QED BY <1>1, <1>2 DEF PmCount, PmTables, PromoRow

\* A set with one more member.
LEMMA OneMore ==
  ASSUME NEW S, NEW x, IsFiniteSet(S), Cardinality(S) \in Nat
  PROVE  /\ IsFiniteSet(S \cup {x}) /\ Cardinality(S \cup {x}) \in Nat
         /\ Cardinality(S \cup {x}) <= Cardinality(S) + 1
<1>1. IsFiniteSet(S \cup {x})
  BY FS_AddElement
<1>2. Cardinality(S \cup {x}) = IF x \in S THEN Cardinality(S) ELSE Cardinality(S) + 1
  BY FS_AddElement
<1> QED BY <1>1, <1>2

\* A claim takes one slot, for the request or for the record.
LEMMA CountClaim ==
  ASSUME PmTables, PmCount, NEW q, NEW a, redemptions' = redemptions \cup {a},
         promo'.times = promo.times + 1, miscounted' = miscounted,
         \/ Claimers' \subseteq Claimers /\ Loose' \subseteq Loose \cup {a}
         \/ Claimers' \subseteq Claimers \cup {q} /\ Loose' \subseteq Loose
  PROVE  PmCount'
<1>1. /\ IsFiniteSet(Claimers) /\ IsFiniteSet(redemptions) /\ IsFiniteSet(Loose)
      /\ Cardinality(Claimers) \in Nat /\ Cardinality(Loose) \in Nat /\ promo.times \in Nat
      /\ ~miscounted => Cardinality(Claimers) + Cardinality(Loose) <= promo.times
  BY CountFacts
<1>2. IsFiniteSet(redemptions')
  BY <1>1, FS_AddElement
<1>3. CASE Claimers' \subseteq Claimers /\ Loose' \subseteq Loose \cup {a}
  <2>1. /\ IsFiniteSet(Loose \cup {a}) /\ Cardinality(Loose \cup {a}) \in Nat
        /\ Cardinality(Loose \cup {a}) <= Cardinality(Loose) + 1
    BY <1>1, OneMore
  <2>2. /\ IsFiniteSet(Claimers') /\ Cardinality(Claimers') <= Cardinality(Claimers)
        /\ IsFiniteSet(Loose') /\ Cardinality(Loose') <= Cardinality(Loose \cup {a})
    BY <1>1, <1>3, <2>1, FS_Subset
  <2>3. Cardinality(Claimers') \in Nat /\ Cardinality(Loose') \in Nat
    BY <2>2, FS_CardinalityType
  <2>4. ~miscounted' => Cardinality(Claimers') + Cardinality(Loose') <= promo'.times
    BY <1>1, <2>1, <2>2, <2>3
  <2> QED BY <1>2, <2>2, <2>4 DEF PmCount
<1>4. CASE Claimers' \subseteq Claimers \cup {q} /\ Loose' \subseteq Loose
  <2>1. /\ IsFiniteSet(Claimers \cup {q}) /\ Cardinality(Claimers \cup {q}) \in Nat
        /\ Cardinality(Claimers \cup {q}) <= Cardinality(Claimers) + 1
    BY <1>1, OneMore
  <2>2. /\ IsFiniteSet(Claimers') /\ Cardinality(Claimers') <= Cardinality(Claimers \cup {q})
        /\ IsFiniteSet(Loose') /\ Cardinality(Loose') <= Cardinality(Loose)
    BY <1>1, <1>4, <2>1, FS_Subset
  <2>3. Cardinality(Claimers') \in Nat /\ Cardinality(Loose') \in Nat
    BY <2>2, FS_CardinalityType
  <2>4. ~miscounted' => Cardinality(Claimers') + Cardinality(Loose') <= promo'.times
    BY <1>1, <2>1, <2>2, <2>3
  <2> QED BY <1>2, <2>2, <2>4 DEF PmCount
<1> QED BY <1>3, <1>4

\* A request that leaves its record to itself hands its slot over to it.
LEMMA CountHandOver ==
  ASSUME PmTables, PmCount, NEW q \in Claimers, NEW a, redemptions' = redemptions,
         promo'.times = promo.times, miscounted' = miscounted,
         Claimers' \subseteq Claimers \ {q}, Loose' \subseteq Loose \cup {a}
  PROVE  PmCount'
<1>1. /\ IsFiniteSet(Claimers) /\ IsFiniteSet(redemptions) /\ IsFiniteSet(Loose)
      /\ Cardinality(Claimers) \in Nat /\ Cardinality(Loose) \in Nat /\ promo.times \in Nat
      /\ ~miscounted => Cardinality(Claimers) + Cardinality(Loose) <= promo.times
  BY CountFacts
<1>2. /\ IsFiniteSet(Loose \cup {a}) /\ Cardinality(Loose \cup {a}) \in Nat
      /\ Cardinality(Loose \cup {a}) <= Cardinality(Loose) + 1
  BY <1>1, OneMore
<1>3. IsFiniteSet(Claimers \ {q}) /\ Cardinality(Claimers \ {q}) = Cardinality(Claimers) - 1
  BY <1>1, FS_RemoveElement
<1>4. /\ IsFiniteSet(Claimers') /\ Cardinality(Claimers') <= Cardinality(Claimers) - 1
      /\ IsFiniteSet(Loose') /\ Cardinality(Loose') <= Cardinality(Loose \cup {a})
  BY <1>2, <1>3, FS_Subset
<1>5. Cardinality(Claimers') \in Nat /\ Cardinality(Loose') \in Nat
  BY <1>4, FS_CardinalityType
<1>6. ~miscounted' => Cardinality(Claimers') + Cardinality(Loose') <= promo'.times
  BY <1>1, <1>2, <1>4, <1>5
<1> QED BY <1>1, <1>4, <1>6 DEF PmCount

\* A slot is given back by the request it was taken for.
LEMMA CountRelease ==
  ASSUME PmTables, PmCount, NEW q \in Claimers, redemptions' = redemptions,
         promo'.times = IF promo.times > 0 THEN promo.times - 1 ELSE promo.times,
         miscounted' = miscounted, Claimers' \subseteq Claimers \ {q}, Loose' \subseteq Loose
  PROVE  PmCount'
<1>1. /\ IsFiniteSet(Claimers) /\ IsFiniteSet(redemptions) /\ IsFiniteSet(Loose)
      /\ Cardinality(Claimers) \in Nat /\ Cardinality(Loose) \in Nat /\ promo.times \in Nat
      /\ ~miscounted => Cardinality(Claimers) + Cardinality(Loose) <= promo.times
  BY CountFacts
<1>2. IsFiniteSet(Claimers \ {q}) /\ Cardinality(Claimers \ {q}) = Cardinality(Claimers) - 1
      /\ Cardinality(Claimers \ {q}) \in Nat
  BY <1>1, FS_RemoveElement, FS_CardinalityType
<1>3. /\ IsFiniteSet(Claimers') /\ Cardinality(Claimers') <= Cardinality(Claimers) - 1
      /\ IsFiniteSet(Loose') /\ Cardinality(Loose') <= Cardinality(Loose)
  BY <1>1, <1>2, FS_Subset
<1>4. Cardinality(Claimers') \in Nat /\ Cardinality(Loose') \in Nat
  BY <1>3, FS_CardinalityType
<1>5. ~miscounted' => Cardinality(Claimers') + Cardinality(Loose') <= promo'.times
  BY <1>1, <1>2, <1>3, <1>4
<1> QED BY <1>1, <1>3, <1>5 DEF PmCount

\* Nothing is in use.
LEMMA CountNothing ==
  ASSUME Claimers' = {}, redemptions' = {}, promo'.times \in Nat
  PROVE  PmCount'
<1>1. Loose' = {}
  BY DEF Loose
<1>2. IsFiniteSet({}) /\ Cardinality({}) = 0
  BY FS_EmptySet
<1> QED BY <1>1, <1>2 DEF PmCount

\* The recorded redemptions have a slot each.
LEMMA RecordsHaveSlots ==
  ASSUME PmTables, PmCount, ~miscounted
  PROVE  Cardinality(redemptions) <= promo.times
<1>1. /\ IsFiniteSet(Claimers) /\ IsFiniteSet(redemptions) /\ IsFiniteSet(Loose)
      /\ Cardinality(Claimers) \in Nat /\ Cardinality(Loose) \in Nat /\ promo.times \in Nat
      /\ Cardinality(Claimers) + Cardinality(Loose) <= promo.times
  BY CountFacts
<1> DEFINE C == {r \in Claimers : ppc[r] # "release_slot"}
           f == [r \in C |-> ploc[r].account]
<1>2. IsFiniteSet(C) /\ Cardinality(C) <= Cardinality(Claimers)
  BY <1>1, FS_Subset
<1>3. f \in Surjection(C, Taken)
  BY DEF Surjection, Taken
<1> HIDE DEF C, f
<1>4. IsFiniteSet(Taken) /\ Cardinality(Taken) <= Cardinality(C)
  BY <1>2, <1>3, FS_Surjection
<1>5. IsFiniteSet(Taken \cup Loose)
      /\ Cardinality(Taken \cup Loose) = Cardinality(Taken) + Cardinality(Loose)
                                         - Cardinality(Taken \cap Loose)
  BY <1>1, <1>4, FS_Union
<1>6. Taken \cap Loose = {} /\ redemptions \subseteq Taken \cup Loose
  BY DEF Loose
<1>7. Cardinality(Taken \cap Loose) = 0
  BY <1>6, FS_EmptySet
<1>8. Cardinality(redemptions) <= Cardinality(Taken \cup Loose)
  BY <1>5, <1>6, FS_Subset
<1>9. /\ Cardinality(Taken) \in Nat /\ Cardinality(C) \in Nat
      /\ Cardinality(redemptions) \in Nat /\ Cardinality(Taken \cup Loose) \in Nat
  BY <1>1, <1>2, <1>4, <1>5, FS_CardinalityType
<1>10. Cardinality(Taken \cup Loose) <= Cardinality(Claimers) + Cardinality(Loose)
  BY <1>1, <1>2, <1>4, <1>5, <1>7, <1>9
<1> QED BY <1>1, <1>8, <1>9, <1>10

-----------------------------------------------------------------------------
(* Redeeming.                                                               *)

\* A redemption is asked for.
LEMMA RedeemKeeps ==
  ASSUME PmInv, NEW q \in PromoProcs, RedeemPromo(q)
  PROVE  PmInv'
<1>1. PmTables /\ PmRequests /\ PmHolds /\ PmCount /\ PmLone /\ ProviderFollows
  BY DEF PmInv
<1>2. PICK a \in Accounts :
        /\ promo.state = "active"
        /\ PromoBegin(q, "claim", [NoPromoLocal EXCEPT !.account = a, !.type = promo.type,
                                                       !.discount = promo.discount])
  BY DEF RedeemPromo
<1> DEFINE l == [NoPromoLocal EXCEPT !.account = a, !.type = promo.type, !.discount = promo.discount]
<1>3. /\ ppc[q] = "idle" /\ ppc' = [ppc EXCEPT ![q] = "claim"] /\ ploc' = [ploc EXCEPT ![q] = l]
      /\ UNCHANGED <<promo, redemptions, discounts, given, forgotten, wiped, miscounted, stray,
                     unrivalled>>
  BY <1>2, StepKinds DEF PromoBegin, promoTables
<1>4. l \in PromoLocal /\ l.account = a
  BY <1>1, PromoFacts DEF PmTables, PromoRow, PromoLocal
<1>5. Reading("claim", l, promo.state) /\ "claim" \in PromoSteps
  BY <1>2, <1>4, StepKinds DEF Reading
<1> HIDE DEF l
<1>6. /\ PmRequests' /\ ppc'[q] = "claim"
      /\ \A r \in PromoProcs \ {q} : ppc'[r] = ppc[r] /\ ploc'[r] = ploc[r]
  <2>1. wiped' \subseteq PromoProcs /\ unrivalled' \subseteq PromoProcs
    BY <1>1, <1>3 DEF PmRequests
  <2> QED BY <1>1, <1>3, <1>4, <1>5, <2>1, PromoMoves
<1>7. PmTables'
  BY <1>1, <1>3 DEF PmTables
<1>8. PmHolds'
  BY <1>1, <1>3, <1>6, HoldsQuiet
<1>9. Claimers' = Claimers /\ Taken' = Taken
  BY <1>1, <1>3, <1>6, SameClaims
<1>10. PmCount'
  BY <1>1, <1>3, <1>9, CountQuiet DEF Loose
<1>11. PmLone' /\ ProviderFollows'
  BY <1>1, <1>3, <1>6, <1>9, AdminQuiet, StepKinds, PromoFacts
<1> QED BY <1>6, <1>7, <1>8, <1>10, <1>11 DEF PmInv

\* The claim is refused.
LEMMA ClaimRefusedKeeps ==
  ASSUME PmInv, NEW q \in PromoProcs, ClaimRefused(q)
  PROVE  PmInv'
<1>1. PmTables /\ PmRequests /\ PmHolds /\ PmCount /\ PmLone /\ ProviderFollows
  BY DEF PmInv
<1>2. /\ ppc[q] = "claim" /\ ppc' = [ppc EXCEPT ![q] = "idle"]
      /\ ploc' = [ploc EXCEPT ![q] = NoPromoLocal]
      /\ unrivalled' = unrivalled \ {q} /\ wiped' = wiped \ {q}
      /\ UNCHANGED <<promo, redemptions, discounts, given, forgotten, miscounted, stray>>
  BY DEF ClaimRefused, PromoReturn, promoTables
<1>3. /\ PmRequests' /\ ppc'[q] = "idle"
      /\ \A r \in PromoProcs \ {q} : ppc'[r] = ppc[r] /\ ploc'[r] = ploc[r]
  BY <1>1, <1>2, PromoEnds
<1>4. PmTables'
  BY <1>1, <1>2 DEF PmTables
<1>5. PmHolds'
  BY <1>1, <1>2, <1>3, HoldsQuiet
<1>6. Claimers' = Claimers /\ Taken' = Taken
  BY <1>1, <1>2, <1>3, SameClaims
<1>7. PmCount'
  BY <1>1, <1>2, <1>6, CountQuiet DEF Loose
<1>8. PmLone' /\ ProviderFollows'
  BY <1>1, <1>2, <1>3, <1>6, AdminQuiet, StepKinds, PromoFacts
<1> QED BY <1>3, <1>4, <1>5, <1>7, <1>8 DEF PmInv

\* The slot and the record are taken.
LEMMA ClaimKeeps ==
  ASSUME PmInv, NEW q \in PromoProcs, ClaimRedemption(q)
  PROVE  PmInv'
<1> DEFINE a == ploc[q].account
<1>1. PmTables /\ PmRequests /\ PmHolds /\ PmCount /\ PmLone /\ ProviderFollows
  BY DEF PmInv
<1>2. /\ ppc[q] = "claim" /\ promo.state = "active" /\ a \notin redemptions
      /\ promo' = [promo EXCEPT !.times = promo.times + 1] /\ redemptions' = redemptions \cup {a}
      /\ UNCHANGED <<discounts, forgotten, miscounted, stray>>
  BY DEF ClaimRedemption, CanClaim
<1>3. promo \in PromoRow /\ promo.times \in Nat
  BY <1>1 DEF PmTables, PromoRow
<1>4. /\ promo' \in PromoRow /\ promo'.state = "active" /\ promo'.times = promo.times + 1
      /\ promo'.discount = promo.discount
  BY <1>2, <1>3 DEF PromoRow
<1>5. a \in Accounts /\ ploc[q] \in PromoLocal /\ ploc = [ploc EXCEPT ![q] = ploc[q]]
  BY <1>1, <1>2, SamePromoData, StepKinds DEF PmRequests, Reading
<1>6. \A r \in PromoProcs : a \notin forgotten => ~Holds(r, a)
  BY <1>1, <1>2, <1>5 DEF PmHolds, HeldOnce
<1>7. a \notin forgotten => given[a] = 0
  BY <1>1, <1>2, <1>5 DEF PmHolds, HeldOnce, PmTables
<1>8. CASE ploc[q].type = "free_plan"
  <2>1. /\ ppc' = [ppc EXCEPT ![q] = "comp"] /\ ploc' = [ploc EXCEPT ![q] = ploc[q]]
        /\ UNCHANGED <<unrivalled, wiped, given>>
    BY <1>8 DEF ClaimRedemption, PromoGoto
  <2>2. Reading("comp", ploc[q], promo'.state) /\ "comp" \in PromoSteps
    BY <1>4, <1>5, StepKinds DEF Reading
  <2>3. /\ PmRequests' /\ ppc'[q] = "comp" /\ ploc'[q] = ploc[q]
        /\ \A r \in PromoProcs \ {q} : ppc'[r] = ppc[r] /\ ploc'[r] = ploc[r]
    <3>1. wiped' \subseteq PromoProcs /\ unrivalled' \subseteq PromoProcs
      BY <1>1, <2>1 DEF PmRequests
    <3> QED BY <1>1, <1>4, <1>5, <2>1, <2>2, <3>1, PromoMoves
  <2>4. PmTables'
    BY <1>1, <1>2, <1>4, <1>5, <2>1 DEF PmTables
  <2>5. PmHolds'
    <3> SUFFICES ASSUME NEW b \in Accounts \ forgotten
                 PROVE  HeldOnce(b)'
      BY <1>2 DEF PmHolds
    <3>1. HeldOnce(b)
      BY <1>1 DEF PmHolds
    <3>2. CASE b = a
      <4>1. \A r \in PromoProcs : Holds(r, b)' => r = q
        BY <3>2, <1>6, <2>3 DEF Holds
      <4>2. given'[b] = 0
        BY <3>2, <1>7, <2>1
      <4>3. b \in redemptions'
        BY <3>2, <1>2
      <4> QED BY <4>1, <4>2, <4>3 DEF HeldOnce
    <3>3. CASE b # a
      <4>1. \A r \in PromoProcs : Holds(r, b)' <=> Holds(r, b)
        BY <3>3, <1>2, <2>3 DEF Holds
      <4>2. given'[b] = given[b] /\ (b \in redemptions => b \in redemptions')
        BY <1>2, <2>1
      <4> QED BY <3>1, <4>1, <4>2, <1>2, <1>4 DEF HeldOnce
    <3> QED BY <3>2, <3>3
  <2>6. PmCount'
    <3>1. Claimers \subseteq Claimers'
      BY <2>1, <2>3, <1>2 DEF Claimers
    <3>2. \A r \in Claimers : ppc'[r] = ppc[r] /\ ploc'[r] = ploc[r]
      BY <2>3, <1>2 DEF Claimers
    <3>3. Taken \subseteq Taken'
      BY <3>1, <3>2 DEF Taken
    <3>4. Claimers' \subseteq Claimers \cup {q}
      BY <2>1, <2>3 DEF Claimers
    <3>5. CASE q \in wiped
      <4>1. Claimers' \subseteq Claimers
        BY <3>4, <3>5, <2>1 DEF Claimers
      <4>2. Loose' \subseteq Loose \cup {a}
        BY <3>3, <1>2 DEF Loose
      <4> HIDE DEF a
      <4> QED BY <4>1, <4>2, <1>1, <1>2, <1>4, CountClaim
    <3>6. CASE q \notin wiped
      <4>1. q \in Claimers' /\ ppc'[q] # "release_slot" /\ ploc'[q].account = a
        BY <3>6, <2>1, <2>3 DEF Claimers
      <4>2. a \in Taken'
        BY <4>1 DEF Taken
      <4>3. Loose' \subseteq Loose
        BY <3>3, <4>2, <1>2 DEF Loose
      <4> HIDE DEF a
      <4> QED BY <3>4, <4>3, <1>1, <1>2, <1>4, CountClaim
    <3> QED BY <3>5, <3>6
  <2>7. PmLone' /\ ProviderFollows'
    BY <1>1, <1>2, <1>4, <2>1, <2>3, AdminQuiet, StepKinds
  <2> QED BY <2>3, <2>4, <2>5, <2>6, <2>7 DEF PmInv
<1>9. CASE ploc[q].type # "free_plan"
  <2>1. /\ ppc' = [ppc EXCEPT ![q] = "idle"] /\ ploc' = [ploc EXCEPT ![q] = NoPromoLocal]
        /\ unrivalled' = unrivalled \ {q} /\ wiped' = wiped \ {q}
        /\ given' = [given EXCEPT ![a] = given[a] + 1]
    BY <1>9 DEF ClaimRedemption, PromoReturn
  <2>2. /\ PmRequests' /\ ppc'[q] = "idle"
        /\ \A r \in PromoProcs \ {q} : ppc'[r] = ppc[r] /\ ploc'[r] = ploc[r]
    BY <1>1, <1>4, <2>1, PromoEnds
  <2>3. /\ given \in [Accounts -> Nat] /\ given'[a] = given[a] + 1
        /\ \A b \in Accounts \ {a} : given'[b] = given[b]
    BY <1>1, <1>5, <2>1 DEF PmTables
  <2>4. PmTables'
    <3>1. given' \in [Accounts -> Nat]
      BY <1>5, <2>1, <2>3
    <3> QED BY <1>1, <1>2, <1>4, <1>5, <3>1 DEF PmTables
  <2>5. PmHolds'
    <3> SUFFICES ASSUME NEW b \in Accounts \ forgotten
                 PROVE  HeldOnce(b)'
      BY <1>2 DEF PmHolds
    <3>1. HeldOnce(b)
      BY <1>1 DEF PmHolds
    <3>2. \A r \in PromoProcs : Holds(r, b)' <=> Holds(r, b)
      BY <1>2, <2>2 DEF Holds
    <3>3. CASE b = a
      <4>1. \A r \in PromoProcs : ~Holds(r, b)'
        BY <3>2, <3>3, <1>6
      <4>2. given'[b] = 1
        BY <3>3, <1>7, <2>3
      <4>3. b \in redemptions'
        BY <3>3, <1>2
      <4> QED BY <4>1, <4>2, <4>3 DEF HeldOnce
    <3>4. CASE b # a
      <4>1. given'[b] = given[b] /\ (b \in redemptions => b \in redemptions')
        BY <3>4, <1>2, <2>3
      <4> QED BY <3>1, <3>2, <4>1, <1>2, <1>4 DEF HeldOnce
    <3> QED BY <3>3, <3>4
  <2>6. Claimers' = Claimers /\ Taken' = Taken
    BY <1>1, <1>2, <2>1, <2>2, SameClaims
  <2>7. PmCount'
    <3>1. Loose' \subseteq Loose \cup {a}
      BY <2>6, <1>2 DEF Loose
    <3> HIDE DEF a
    <3> QED BY <3>1, <2>6, <1>1, <1>2, <1>4, CountClaim
  <2>8. PmLone' /\ ProviderFollows'
    BY <1>1, <1>2, <1>4, <2>1, <2>2, AdminQuiet, StepKinds, PromoFacts
  <2> QED BY <2>2, <2>4, <2>5, <2>7, <2>8 DEF PmInv
<1> QED BY <1>8, <1>9

\* The plan is given.
LEMMA CompKeeps ==
  ASSUME PmInv, NEW q \in PromoProcs, CompAccount(q)
  PROVE  PmInv'
<1> DEFINE a == ploc[q].account
<1>1. PmTables /\ PmRequests /\ PmHolds /\ PmCount /\ PmLone /\ ProviderFollows
  BY DEF PmInv
<1>2. /\ ppc[q] = "comp" /\ ppc' = [ppc EXCEPT ![q] = "idle"]
      /\ ploc' = [ploc EXCEPT ![q] = NoPromoLocal]
      /\ unrivalled' = unrivalled \ {q} /\ wiped' = wiped \ {q}
      /\ given' = [given EXCEPT ![a] = given[a] + 1]
      /\ UNCHANGED <<promo, redemptions, discounts, forgotten, miscounted, stray>>
  BY DEF CompAccount, PromoReturn, promoTables
<1>3. a \in Accounts
  BY <1>1, <1>2, StepKinds DEF PmRequests, Reading
<1>4. /\ PmRequests' /\ ppc'[q] = "idle"
      /\ \A r \in PromoProcs \ {q} : ppc'[r] = ppc[r] /\ ploc'[r] = ploc[r]
  BY <1>1, <1>2, PromoEnds
<1>5. /\ given \in [Accounts -> Nat] /\ given'[a] = given[a] + 1
      /\ \A b \in Accounts \ {a} : given'[b] = given[b]
  BY <1>1, <1>2, <1>3 DEF PmTables
<1>6. PmTables'
  <2>1. given' \in [Accounts -> Nat]
    BY <1>2, <1>3, <1>5
  <2> QED BY <1>1, <1>2, <2>1 DEF PmTables
<1>7. PmHolds'
  <2> SUFFICES ASSUME NEW b \in Accounts \ forgotten
               PROVE  HeldOnce(b)'
    BY <1>2 DEF PmHolds
  <2>1. HeldOnce(b)
    BY <1>1 DEF PmHolds
  <2>2. \A r \in PromoProcs : Holds(r, b)' => Holds(r, b) /\ r # q
    BY <1>4 DEF Holds
  <2>3. CASE b = a
    <3>1. Holds(q, b)
      BY <2>3, <1>2 DEF Holds
    <3>2. given[b] = 0 /\ \A r \in PromoProcs : ~Holds(r, b)'
      BY <2>1, <2>2, <3>1 DEF HeldOnce
    <3>3. given'[b] = 1
      BY <2>3, <3>2, <1>5
    <3>4. promo'.state # "deleted" => b \in redemptions'
      BY <2>1, <3>1, <1>2 DEF HeldOnce
    <3> QED BY <3>2, <3>3, <3>4 DEF HeldOnce
  <2>4. CASE b # a
    <3>1. given'[b] = given[b] /\ redemptions' = redemptions /\ promo' = promo
      BY <2>4, <1>2, <1>5
    <3> QED BY <2>1, <2>2, <3>1 DEF HeldOnce
  <2> QED BY <2>3, <2>4
<1>8. Claimers' = Claimers \ {q}
  BY <1>2, <1>4 DEF Claimers
<1>9. PmCount'
  <2>1. \A r \in Claimers' : ppc'[r] = ppc[r] /\ ploc'[r] = ploc[r] /\ r \in Claimers
    BY <1>2, <1>4, <1>8 DEF Claimers
  <2>2. Taken \subseteq Taken' \cup {a}
    BY <2>1, <1>8 DEF Taken
  <2>3. Loose' \subseteq Loose \cup {a}
    BY <2>2, <1>2 DEF Loose
  <2>4. CASE q \in Claimers
    <3> HIDE DEF a
    <3> QED BY <2>3, <2>4, <1>1, <1>2, <1>8, CountHandOver
  <2>5. CASE q \notin Claimers
    <3>1. Claimers' = Claimers
      BY <2>5, <1>8
    <3>2. Taken' = Taken
      BY <3>1, <2>1 DEF Taken
    <3> QED BY <3>1, <3>2, <1>1, <1>2, CountQuiet DEF Loose
  <2> QED BY <2>4, <2>5
<1>10. PmLone' /\ ProviderFollows'
  BY <1>1, <1>2, <1>4, <1>8, AdminQuiet, StepKinds, PromoFacts
<1> QED BY <1>4, <1>6, <1>7, <1>9, <1>10 DEF PmInv

\* It is not given.
LEMMA CompFailsKeeps ==
  ASSUME PmInv, NEW q \in PromoProcs, CompFails(q)
  PROVE  PmInv'
<1>1. PmTables /\ PmRequests /\ PmHolds /\ PmCount /\ PmLone /\ ProviderFollows
  BY DEF PmInv
<1>2. /\ ppc[q] = "comp" /\ ppc' = [ppc EXCEPT ![q] = "release_row"]
      /\ UNCHANGED <<promo, redemptions, discounts, ploc, given, forgotten, wiped, miscounted,
                     unrivalled, stray>>
  BY DEF CompFails, promoTables, promoHistory
<1>3. /\ ploc[q] \in PromoLocal /\ ploc' = [ploc EXCEPT ![q] = ploc[q]]
      /\ Reading("comp", ploc[q], promo.state)
  BY <1>1, <1>2, SamePromoData
<1>4. Reading("release_row", ploc[q], promo'.state) /\ "release_row" \in PromoSteps
  BY <1>2, <1>3, StepKinds DEF Reading
<1>5. /\ PmRequests' /\ ppc'[q] = "release_row" /\ ploc' = ploc
      /\ \A r \in PromoProcs \ {q} : ppc'[r] = ppc[r] /\ ploc'[r] = ploc[r]
  <2>1. wiped' \subseteq PromoProcs /\ unrivalled' \subseteq PromoProcs
    BY <1>1, <1>2 DEF PmRequests
  <2> QED BY <1>1, <1>2, <1>3, <1>4, <2>1, PromoMoves
<1>6. PmTables'
  BY <1>1, <1>2 DEF PmTables
<1>7. PmHolds'
  BY <1>1, <1>2, <1>5, HoldsQuiet
<1>8. Claimers' = Claimers
  BY <1>2, <1>5 DEF Claimers
<1>9. Taken' = Taken
  <2>1. \A r \in PromoProcs : ppc'[r] # "release_slot" <=> ppc[r] # "release_slot"
    BY <1>2, <1>5
  <2>2. Claimers \subseteq PromoProcs
    BY DEF Claimers
  <2> QED BY <1>2, <1>8, <2>1, <2>2 DEF Taken
<1>10. PmCount'
  BY <1>1, <1>2, <1>8, <1>9, CountQuiet DEF Loose
<1>11. PmLone' /\ ProviderFollows'
  BY <1>1, <1>2, <1>5, <1>8, AdminQuiet, StepKinds
<1> QED BY <1>5, <1>6, <1>7, <1>10, <1>11 DEF PmInv

\* The record is given back.
LEMMA ReleaseRowKeeps ==
  ASSUME PmInv, NEW q \in PromoProcs, ReleaseRow(q)
  PROVE  PmInv'
<1> DEFINE a == ploc[q].account
<1>1. PmTables /\ PmRequests /\ PmHolds /\ PmCount /\ PmLone /\ ProviderFollows
  BY DEF PmInv
<1>2. /\ ppc[q] = "release_row" /\ ppc' = [ppc EXCEPT ![q] = "release_slot"]
      /\ ploc' = [ploc EXCEPT ![q] = ploc[q]] /\ redemptions' = redemptions \ {a}
      /\ UNCHANGED <<promo, discounts, given, forgotten, wiped, miscounted, unrivalled, stray>>
  BY DEF ReleaseRow, PromoGoto
<1>3. /\ ploc[q] \in PromoLocal /\ Reading("release_row", ploc[q], promo.state)
  BY <1>1, <1>2, SamePromoData
<1>4. Reading("release_slot", ploc[q], promo'.state) /\ "release_slot" \in PromoSteps
  BY <1>2, <1>3, StepKinds DEF Reading
<1>5. /\ PmRequests' /\ ppc'[q] = "release_slot" /\ ploc'[q] = ploc[q]
      /\ \A r \in PromoProcs \ {q} : ppc'[r] = ppc[r] /\ ploc'[r] = ploc[r]
  <2>1. wiped' \subseteq PromoProcs /\ unrivalled' \subseteq PromoProcs
    BY <1>1, <1>2 DEF PmRequests
  <2> QED BY <1>1, <1>2, <1>3, <1>4, <2>1, PromoMoves
<1>6. PmTables'
  BY <1>1, <1>2 DEF PmTables
<1>7. PmHolds'
  <2> SUFFICES ASSUME NEW b \in Accounts \ forgotten
               PROVE  HeldOnce(b)'
    BY <1>2 DEF PmHolds
  <2>1. HeldOnce(b)
    BY <1>1 DEF PmHolds
  <2>2. \A r \in PromoProcs : Holds(r, b)' => Holds(r, b) /\ r # q
    BY <1>5 DEF Holds
  <2>3. CASE b = a
    <3>1. Holds(q, b)
      BY <2>3, <1>2 DEF Holds
    <3>2. given'[b] = 0 /\ \A r \in PromoProcs : ~Holds(r, b)'
      BY <2>1, <2>2, <3>1, <1>2 DEF HeldOnce
    <3> QED BY <3>2 DEF HeldOnce
  <2>4. CASE b # a
    <3>1. given'[b] = given[b] /\ (b \in redemptions => b \in redemptions') /\ promo' = promo
      BY <2>4, <1>2
    <3> QED BY <2>1, <2>2, <3>1 DEF HeldOnce
  <2> QED BY <2>3, <2>4
<1>8. Claimers' = Claimers
  BY <1>2, <1>5 DEF Claimers
<1>9. PmCount'
  <2>1. \A r \in Claimers : ploc'[r] = ploc[r] /\ (r # q => ppc'[r] = ppc[r])
    BY <1>2, <1>5 DEF Claimers
  <2>2. Taken \subseteq Taken' \cup {a}
    BY <2>1, <1>8 DEF Taken
  <2>3. Loose' \subseteq Loose /\ redemptions' \subseteq redemptions
    BY <2>2, <1>2 DEF Loose
  <2> QED BY <2>3, <1>1, <1>2, <1>8, CountQuiet
<1>10. PmLone' /\ ProviderFollows'
  <2>1. redemptions' \subseteq redemptions
    BY <1>2
  <2> QED BY <2>1, <1>1, <1>2, <1>5, <1>8, AdminQuiet, StepKinds
<1> QED BY <1>5, <1>6, <1>7, <1>9, <1>10 DEF PmInv

\* The slot is given back.
LEMMA ReleaseSlotKeeps ==
  ASSUME PmInv, NEW q \in PromoProcs, ReleaseSlot(q)
  PROVE  PmInv'
<1>1. PmTables /\ PmRequests /\ PmHolds /\ PmCount /\ PmLone /\ ProviderFollows
  BY DEF PmInv
<1>2. /\ ppc[q] = "release_slot" /\ ppc' = [ppc EXCEPT ![q] = "idle"]
      /\ ploc' = [ploc EXCEPT ![q] = NoPromoLocal]
      /\ unrivalled' = unrivalled \ {q} /\ wiped' = wiped \ {q}
      /\ promo' = IF promo.times > 0 THEN [promo EXCEPT !.times = promo.times - 1] ELSE promo
      /\ miscounted' = (miscounted \/ q \in wiped)
      /\ UNCHANGED <<redemptions, discounts, given, forgotten, stray>>
  BY DEF ReleaseSlot, PromoReturn
<1>3. promo \in PromoRow /\ promo.times \in Nat
  BY <1>1 DEF PmTables, PromoRow
<1>4. /\ promo' \in PromoRow /\ promo'.state = promo.state /\ promo'.discount = promo.discount
      /\ promo'.times = IF promo.times > 0 THEN promo.times - 1 ELSE promo.times
  BY <1>2, <1>3 DEF PromoRow
<1>5. /\ PmRequests' /\ ppc'[q] = "idle"
      /\ \A r \in PromoProcs \ {q} : ppc'[r] = ppc[r] /\ ploc'[r] = ploc[r]
  BY <1>1, <1>2, <1>4, PromoEnds
<1>6. PmTables'
  BY <1>1, <1>2, <1>4 DEF PmTables
<1>7. PmHolds'
  BY <1>1, <1>2, <1>4, <1>5, HoldsQuiet
<1>8. Claimers' = Claimers \ {q}
  BY <1>2, <1>5 DEF Claimers
<1>9. Taken' = Taken
  <2>1. \A r \in Claimers' : ppc'[r] = ppc[r] /\ ploc'[r] = ploc[r] /\ r \in Claimers
    BY <1>5, <1>8 DEF Claimers
  <2> QED BY <1>2, <1>8, <2>1 DEF Taken
<1>10. PmCount'
  <2>1. Loose' = Loose
    BY <1>2, <1>9 DEF Loose
  <2>2. CASE q \in wiped
    <3>1. /\ IsFiniteSet(Claimers) /\ IsFiniteSet(redemptions) /\ miscounted'
      BY <2>2, <1>1, <1>2 DEF PmCount
    <3>2. IsFiniteSet(Claimers')
      BY <3>1, <1>8, FS_RemoveElement
    <3> QED BY <3>1, <3>2, <1>2 DEF PmCount
  <2>3. CASE q \notin wiped
    <3>1. q \in Claimers /\ miscounted' = miscounted
      BY <2>3, <1>1, <1>2 DEF Claimers, PmTables
    <3> QED BY <2>1, <3>1, <1>1, <1>2, <1>4, <1>8, CountRelease
  <2> QED BY <2>2, <2>3
<1>11. PmLone' /\ ProviderFollows'
  BY <1>1, <1>2, <1>4, <1>5, <1>8, AdminQuiet, StepKinds, PromoFacts
<1> QED BY <1>5, <1>6, <1>7, <1>10, <1>11 DEF PmInv

\* A request that held a slot is over: the slot is its record's, if there is one.
LEMMA ClaimerLeaves ==
  ASSUME PmTables, PmRequests, PmCount, NEW q \in PromoProcs, ppc'[q] = "idle",
         \A r \in PromoProcs \ {q} : ppc'[r] = ppc[r] /\ ploc'[r] = ploc[r],
         wiped' = wiped \ {q}, redemptions' = redemptions, miscounted' = miscounted,
         promo'.times = promo.times
  PROVE  PmCount' /\ Claimers' = Claimers \ {q}
<1> DEFINE a == ploc[q].account
<1>1. Claimers' = Claimers \ {q}
  BY DEF Claimers
<1>2. \A r \in Claimers' : ppc'[r] = ppc[r] /\ ploc'[r] = ploc[r] /\ r \in Claimers
  BY <1>1 DEF Claimers
<1>3. Taken \subseteq Taken' \cup {a}
  BY <1>1, <1>2 DEF Taken
<1>4. Loose' \subseteq Loose \cup {a}
  BY <1>3 DEF Loose
<1>5. CASE q \in Claimers
  <2> HIDE DEF a
  <2> QED BY <1>1, <1>4, <1>5, CountHandOver
<1>6. CASE q \notin Claimers
  <2>1. Claimers' = Claimers
    BY <1>1, <1>6
  <2>2. Taken' = Taken
    BY <2>1, <1>2 DEF Taken
  <2> QED BY <1>1, <2>1, <2>2, CountQuiet DEF Loose
<1> QED BY <1>1, <1>5, <1>6

-----------------------------------------------------------------------------
(* Administrators.                                                          *)

\* An administrator's step that leaves usage alone.
LEMMA AdminAside ==
  ASSUME PmTables, PmRequests, PmHolds, PmCount, NEW q \in PromoProcs,
         ppc[q] \notin RedeemSteps, ppc'[q] \notin RedeemSteps,
         \A r \in PromoProcs \ {q} : ppc'[r] = ppc[r] /\ ploc'[r] = ploc[r],
         wiped' \ {q} = wiped \ {q},
         UNCHANGED <<redemptions, given, forgotten, miscounted>>, promo'.times = promo.times,
         promo.state = "deleted" => promo'.state = "deleted"
  PROVE  PmHolds' /\ PmCount'
<1>1. /\ ppc[q] \notin {"comp", "release_row", "release_slot"}
      /\ ppc'[q] \notin {"comp", "release_row", "release_slot"}
  BY StepKinds
<1>2. PmHolds'
  BY <1>1, HoldsQuiet
<1>3. Claimers' = Claimers /\ Taken' = Taken
  BY <1>1, SameClaims
<1>4. PmCount'
  BY <1>3, CountQuiet DEF Loose
<1> QED BY <1>2, <1>4

\* An administrator's request goes on, or ends.
LEMMA AdminGoes ==
  ASSUME PmRequests, NEW q \in PromoProcs, NEW step \in AdminSteps, NEW l \in PromoLocal,
         ppc' = [ppc EXCEPT ![q] = step], ploc' = [ploc EXCEPT ![q] = l],
         UNCHANGED <<promo, wiped, unrivalled>>, Reading(step, l, promo.state)
  PROVE  /\ PmRequests' /\ ppc'[q] = step /\ ploc'[q] = l
         /\ \A r \in PromoProcs \ {q} : ppc'[r] = ppc[r] /\ ploc'[r] = ploc[r]
<1>1. wiped' \subseteq PromoProcs /\ unrivalled' \subseteq PromoProcs /\ step \in PromoSteps
  BY StepKinds DEF PmRequests
<1> QED BY <1>1, PromoMoves

\* What a lone request knows is still so; another's step ends its being alone.
LEMMA LoneGoes ==
  ASSUME PmRequests, PmLone, NEW q \in PromoProcs, Administering(q), unrivalled' = unrivalled,
         Administering(q)', \A r \in PromoProcs \ {q} : ppc'[r] = ppc[r],
         q \in unrivalled /\ Lone(q) =>
           /\ ppc'[q] \in {"new_discount", "insert"} => promo'.state = "absent"
           /\ ppc'[q] \in {"fresh_discount", "reset_usage", "reopen"} => promo'.state = "revoked"
           /\ ppc'[q] \in {"archive", "close"} =>
                promo'.state \in {"active", "revoked"} /\ ploc'[q].discount = promo'.discount
           /\ (ppc'[q] \in {"insert", "reset_usage", "reopen"} /\ ploc'[q].discount \in DiscountIds)
                => discounts'[ploc'[q].discount] = "active"
           /\ (ppc'[q] = "close" /\ ploc'[q].discount \in DiscountIds \ stray') =>
                discounts'[ploc'[q].discount] # "active"
           /\ (ppc'[q] = "reopen" /\ ploc'[q].flag) => redemptions' = {} /\ Claimers' = {}
  PROVE  PmLone'
<1> SUFFICES ASSUME NEW r \in unrivalled'
             PROVE  Lone(r)'
  BY DEF PmLone
<1>1. r = q /\ q \in unrivalled /\ Lone(q)
  BY LoneOnly DEF PmLone
<1>2. Administering(q)' /\ \A s \in PromoProcs \ {q} : ~Administering(s)'
  BY <1>1 DEF Lone, Administering
<1> QED BY <1>1, <1>2 DEF Lone

\* Where no lone request is left.
LEMMA LoneEnds ==
  ASSUME PmLone, NEW q \in PromoProcs, Administering(q), unrivalled' = unrivalled \ {q}
  PROVE  PmLone'
BY LoneOnly DEF PmLone

\* A lone request ends by putting the code in force, with the discount it made.
LEMMA CodePut ==
  ASSUME PmRequests, PmLone, ProviderFollows, NEW q \in unrivalled,
         ppc[q] \in {"insert", "reopen"}, ppc'[q] = "idle",
         \A r \in PromoProcs \ {q} : ppc'[r] = ppc[r] /\ ploc'[r] = ploc[r],
         UNCHANGED <<discounts, stray>>,
         promo'.state = "active", promo'.discount = ploc[q].discount
  PROVE  ProviderFollows'
<1>1. q \in PromoProcs /\ Lone(q) /\ promo.state # "active"
  BY DEF PmRequests, PmLone, Lone
<1> SUFFICES ASSUME NEW d \in DiscountIds \ stray
             PROVE  discounts[d] = "active" <=> promo'.state = "active" /\ promo'.discount = d
  BY DEF ProviderFollows
<1>2. CASE d = ploc[q].discount
  BY <1>1, <1>2 DEF Lone
<1>3. CASE d # ploc[q].discount
  <2>1. \A r \in PromoProcs : Administering(r) => ploc[r].discount # d
    BY <1>1, <1>3 DEF Lone
  <2>2. discounts[d] # "active"
    BY <2>1, <1>1 DEF ProviderFollows
  <2> QED BY <1>3, <2>2
<1> QED BY <1>2, <1>3

\* A query throws.
LEMMA PromoFailKeeps ==
  ASSUME PmInv, NEW q \in PromoProcs, PromoFail(q)
  PROVE  PmInv'
<1>1. PmTables /\ PmRequests /\ PmHolds /\ PmCount /\ PmLone /\ ProviderFollows
  BY DEF PmInv
<1>2. /\ ppc[q] # "idle" /\ ppc' = [ppc EXCEPT ![q] = "idle"]
      /\ ploc' = [ploc EXCEPT ![q] = NoPromoLocal]
      /\ unrivalled' = unrivalled \ {q} /\ wiped' = wiped \ {q}
      /\ stray' = IF Administering(q) THEN stray \cup Touched(q) ELSE stray
      /\ UNCHANGED <<promo, redemptions, discounts, given, forgotten, miscounted>>
  BY DEF PromoFail, promoTables
<1>3. /\ PmRequests' /\ ppc'[q] = "idle"
      /\ \A r \in PromoProcs \ {q} : ppc'[r] = ppc[r] /\ ploc'[r] = ploc[r]
  BY <1>1, <1>2, PromoEnds
<1>4. PmTables'
  <2>1. stray' \subseteq DiscountIds
    BY <1>1, <1>2 DEF PmTables, Touched
  <2> QED BY <1>1, <1>2, <2>1 DEF PmTables
<1>5. PmHolds'
  BY <1>1, <1>2, <1>3, HoldsQuiet
<1>6. PmCount' /\ Claimers' = Claimers \ {q}
  BY <1>1, <1>2, <1>3, ClaimerLeaves
<1>7. PmLone' /\ ProviderFollows'
  <2>1. CASE Administering(q)
    <3>1. PmLone'
      BY <1>1, <1>2, <2>1, LoneEnds
    <3>2. ProviderFollows'
      BY <1>1, <1>2, <1>3, <2>1, StrayEnds
    <3> QED BY <3>1, <3>2
  <2>2. CASE ~Administering(q)
    <3>1. ppc[q] \notin AdminSteps /\ stray' = stray
      BY <1>2, <2>2 DEF Administering
    <3> QED BY <3>1, <1>1, <1>2, <1>3, <1>6, AdminQuiet, PromoFacts
  <2> QED BY <2>1, <2>2
<1> QED BY <1>3, <1>4, <1>5, <1>6, <1>7 DEF PmInv

\* An administrator's request begins, having read what its step says.
LEMMA AdminBegins ==
  ASSUME PmInv, NEW q \in PromoProcs, NEW step \in AdminSteps, NEW l \in PromoLocal,
         PromoBegin(q, step, l), Reading(step, l, promo.state),
         step \in {"new_discount", "insert"} => promo.state = "absent",
         step \in {"fresh_discount", "reset_usage"} => promo.state = "revoked",
         step = "archive" =>
           promo.state \in {"active", "revoked"} /\ l.discount = promo.discount,
         step \in {"insert", "reset_usage"} => l.discount = NoDiscount,
         step \notin {"close", "reopen"}
  PROVE  PmInv'
<1>1. PmTables /\ PmRequests /\ PmHolds /\ PmCount /\ PmLone /\ ProviderFollows
  BY DEF PmInv
<1> DEFINE rivals == {r \in PromoProcs : Administering(r)}
<1>2. /\ ppc[q] = "idle" /\ ppc' = [ppc EXCEPT ![q] = step] /\ ploc' = [ploc EXCEPT ![q] = l]
      /\ UNCHANGED <<promo, redemptions, discounts, given, forgotten, wiped, miscounted, stray>>
  BY DEF PromoBegin, promoTables
<1>3. unrivalled' = (unrivalled \ rivals) \cup (IF rivals = {} THEN {q} ELSE {})
  BY StepKinds DEF PromoBegin
<1>4. unrivalled \subseteq rivals /\ unrivalled' \subseteq {q} /\ (q \in unrivalled' => rivals = {})
  <2>1. unrivalled \subseteq rivals
    BY <1>1 DEF PmRequests, PmLone, Lone
  <2> HIDE DEF rivals
  <2> QED BY <2>1, <1>3
<1>5. /\ PmRequests' /\ ppc'[q] = step /\ ploc'[q] = l
      /\ \A r \in PromoProcs \ {q} : ppc'[r] = ppc[r] /\ ploc'[r] = ploc[r]
  <2>1. wiped' \subseteq PromoProcs /\ unrivalled' \subseteq PromoProcs /\ step \in PromoSteps
    BY <1>1, <1>2, <1>4, StepKinds DEF PmRequests
  <2> QED BY <1>1, <1>2, <2>1, PromoMoves
<1>6. PmTables'
  BY <1>1, <1>2 DEF PmTables
<1>7. PmHolds' /\ PmCount'
  BY <1>1, <1>2, <1>5, AdminAside, StepKinds, PromoFacts
<1>8. PmLone'
  <2> SUFFICES ASSUME NEW r \in unrivalled'
               PROVE  Lone(r)'
    BY DEF PmLone
  <2>1. r = q /\ \A s \in PromoProcs : ~Administering(s)
    BY <1>4
  <2>2. Administering(q)' /\ \A s \in PromoProcs \ {q} : ~Administering(s)'
    BY <1>5, <2>1 DEF Administering
  <2> QED BY <1>2, <1>5, <2>1, <2>2, PromoFacts DEF Lone
<1>9. ProviderFollows'
  <2> SUFFICES ASSUME NEW d \in DiscountIds \ stray,
                      \A r \in PromoProcs : Administering(r)' => ploc'[r].discount # d
               PROVE  discounts[d] = "active" <=> promo.state = "active" /\ promo.discount = d
    BY <1>2 DEF ProviderFollows
  <2>1. \A r \in PromoProcs : Administering(r) => ploc[r].discount # d
    BY <1>2, <1>5, PromoFacts DEF Administering
  <2> QED BY <2>1, <1>1 DEF ProviderFollows
<1> QED BY <1>5, <1>6, <1>7, <1>8, <1>9 DEF PmInv

\* A code is to be created, taken back, deleted, or put back in force.
LEMMA AdminBeginKeeps ==
  ASSUME PmInv, NEW q \in PromoProcs,
         \/ CreatePromoCode(q) \/ RevokePromoCode(q) \/ DeletePromoCode(q) \/ ReactivatePromoCode(q)
  PROVE  PmInv'
<1>1. promo \in PromoRow
  BY DEF PmInv, PmTables
<1>2. CASE CreatePromoCode(q)
  <2>1. PICK type \in {"percent_off", "free_plan"}, max \in Caps \cup {Unlimited} :
          /\ promo.state = "absent"
          /\ PromoBegin(q, IF type = "percent_off" THEN "new_discount" ELSE "insert",
                        [NoPromoLocal EXCEPT !.type = type, !.max = max])
    BY <1>2 DEF CreatePromoCode
  <2> DEFINE l == [NoPromoLocal EXCEPT !.type = type, !.max = max]
             step == IF type = "percent_off" THEN "new_discount" ELSE "insert"
  <2>2. l \in PromoLocal /\ l.discount = NoDiscount
    BY PromoFacts DEF PromoLocal
  <2>3. step \in AdminSteps /\ step \in {"new_discount", "insert"}
    BY DEF AdminSteps
  <2>4. PromoBegin(q, step, l)
    BY <2>1
  <2> HIDE DEF l, step
  <2>5. Reading(step, l, promo.state)
    BY <2>1, <2>2, <2>3, StepKinds DEF Reading
  <2> QED BY <2>1, <2>2, <2>3, <2>4, <2>5, AdminBegins
<1>3. ASSUME NEW l \in PromoLocal, l.discount = promo.discount,
             promo.state \in {"active", "revoked"}, PromoBegin(q, "archive", l)
      PROVE  PmInv'
  <2>1. Reading("archive", l, promo.state) /\ "archive" \in AdminSteps
    BY <1>3, StepKinds DEF Reading
  <2> QED BY <1>3, <2>1, AdminBegins
<1>4. CASE RevokePromoCode(q)
  <2> DEFINE l == [NoPromoLocal EXCEPT !.discount = promo.discount]
  <2>1. l \in PromoLocal /\ l.discount = promo.discount
    BY <1>1, PromoFacts DEF PromoLocal, PromoRow
  <2> QED BY <2>1, <1>3, <1>4 DEF RevokePromoCode
<1>5. CASE DeletePromoCode(q)
  <2> DEFINE l == [NoPromoLocal EXCEPT !.discount = promo.discount, !.flag = TRUE]
  <2>1. l \in PromoLocal /\ l.discount = promo.discount
    BY <1>1, PromoFacts DEF PromoLocal, PromoRow
  <2> QED BY <2>1, <1>3, <1>5 DEF DeletePromoCode
<1>6. CASE ReactivatePromoCode(q)
  <2>1. PICK max \in Caps \cup {Unlimited}, reset \in BOOLEAN :
          /\ promo.state = "revoked"
          /\ PromoBegin(q, IF PercentOff THEN "fresh_discount" ELSE "reset_usage",
                        [NoPromoLocal EXCEPT !.type = promo.type, !.max = max, !.flag = reset])
    BY <1>6 DEF ReactivatePromoCode
  <2> DEFINE l == [NoPromoLocal EXCEPT !.type = promo.type, !.max = max, !.flag = reset]
             step == IF PercentOff THEN "fresh_discount" ELSE "reset_usage"
  <2>2. l \in PromoLocal /\ l.discount = NoDiscount
    BY <1>1, PromoFacts DEF PromoLocal, PromoRow
  <2>3. step \in AdminSteps /\ step \in {"fresh_discount", "reset_usage"}
    BY DEF AdminSteps
  <2>4. PromoBegin(q, step, l)
    BY <2>1
  <2> HIDE DEF l, step
  <2>5. Reading(step, l, promo.state)
    BY <2>1, <2>2, <2>3, StepKinds DEF Reading
  <2> QED BY <2>1, <2>2, <2>3, <2>4, <2>5, AdminBegins
<1> QED BY <1>2, <1>4, <1>5, <1>6

\* The provider makes a discount.
LEMMA MakeDiscountKeeps ==
  ASSUME PmInv, NEW q \in PromoProcs, MakeDiscount(q)
  PROVE  PmInv'
<1>1. PmTables /\ PmRequests /\ PmHolds /\ PmCount /\ PmLone /\ ProviderFollows
  BY DEF PmInv
<1>2. PICK d \in DiscountIds :
        /\ discounts[d] = "none" /\ discounts' = [discounts EXCEPT ![d] = "active"]
        /\ PromoGoto(q, IF ppc[q] = "new_discount" THEN "insert" ELSE "reset_usage",
                     [ploc[q] EXCEPT !.discount = d])
  BY DEF MakeDiscount
<1> DEFINE l == [ploc[q] EXCEPT !.discount = d]
           step == IF ppc[q] = "new_discount" THEN "insert" ELSE "reset_usage"
<1>3. /\ ppc[q] \in {"new_discount", "fresh_discount"} /\ ppc' = [ppc EXCEPT ![q] = step]
      /\ ploc' = [ploc EXCEPT ![q] = l] /\ UNCHANGED <<wiped, unrivalled>>
      /\ UNCHANGED <<promo, redemptions, given, forgotten, miscounted, stray>>
  BY <1>2 DEF MakeDiscount, PromoGoto
<1>4. ploc[q] \in PromoLocal /\ Reading(ppc[q], ploc[q], promo.state)
  BY <1>1, SamePromoData
<1>5. l \in PromoLocal /\ l.discount = d
  BY <1>4 DEF PromoLocal
<1>6. step \in AdminSteps /\ (step = "insert" <=> ppc[q] = "new_discount")
      /\ (step = "reset_usage" <=> ppc[q] = "fresh_discount") /\ step \in {"insert", "reset_usage"}
  BY <1>3 DEF AdminSteps
<1>7. Administering(q) /\ ploc[q].discount = NoDiscount
  BY <1>3, <1>4 DEF Administering, AdminSteps, Reading
<1> HIDE DEF l, step
<1>8. Reading(step, l, promo.state)
  BY <1>4, <1>6, StepKinds DEF Reading
<1>9. /\ PmRequests' /\ ppc'[q] = step /\ ploc'[q] = l
      /\ \A r \in PromoProcs \ {q} : ppc'[r] = ppc[r] /\ ploc'[r] = ploc[r]
  BY <1>1, <1>3, <1>5, <1>6, <1>8, AdminGoes
<1>10. /\ discounts' \in [DiscountIds -> {"none", "active", "archived"}] /\ discounts'[d] = "active"
       /\ \A e \in DiscountIds \ {d} : discounts'[e] = discounts[e]
  BY <1>1, <1>2 DEF PmTables
<1>11. PmTables'
  BY <1>1, <1>3, <1>10 DEF PmTables
<1>12. PmHolds' /\ PmCount'
  BY <1>1, <1>3, <1>6, <1>9, AdminAside, StepKinds
<1>13. PmLone'
  <2>1. Administering(q)'
    BY <1>6, <1>9 DEF Administering
  <2> QED BY <1>1, <1>3, <1>5, <1>6, <1>7, <1>9, <1>10, <2>1, LoneGoes DEF Lone
<1>14. ProviderFollows'
  <2> SUFFICES ASSUME NEW e \in DiscountIds \ stray,
                      \A r \in PromoProcs : Administering(r)' => ploc'[r].discount # e
               PROVE  discounts'[e] = "active" <=> promo.state = "active" /\ promo.discount = e
    BY <1>3 DEF ProviderFollows
  <2>1. e # d
    BY <1>5, <1>6, <1>9 DEF Administering
  <2>2. \A r \in PromoProcs : Administering(r) => ploc[r].discount # e
    BY <1>7, <1>9, PromoFacts DEF Administering
  <2> QED BY <2>1, <2>2, <1>1, <1>10 DEF ProviderFollows
<1> QED BY <1>9, <1>11, <1>12, <1>13, <1>14 DEF PmInv

\* The discount is archived at the provider.
LEMMA ArchiveKeeps ==
  ASSUME PmInv, NEW q \in PromoProcs, ArchiveDiscount(q)
  PROVE  PmInv'
<1> DEFINE d == ploc[q].discount
<1>1. PmTables /\ PmRequests /\ PmHolds /\ PmCount /\ PmLone /\ ProviderFollows
  BY DEF PmInv
<1>2. /\ ppc[q] = "archive" /\ ppc' = [ppc EXCEPT ![q] = "close"]
      /\ ploc' = [ploc EXCEPT ![q] = ploc[q]] /\ UNCHANGED <<wiped, unrivalled>>
      /\ discounts' = IF d = NoDiscount THEN discounts ELSE [discounts EXCEPT ![d] = "archived"]
      /\ UNCHANGED <<promo, redemptions, given, forgotten, miscounted, stray>>
  BY DEF ArchiveDiscount, PromoGoto
<1>3. ploc[q] \in PromoLocal /\ Reading("archive", ploc[q], promo.state)
  BY <1>1, <1>2, SamePromoData
<1>4. "close" \in AdminSteps /\ Administering(q) /\ Reading("close", ploc[q], promo.state)
  BY <1>2, <1>3, StepKinds DEF Administering, Reading
<1>5. /\ PmRequests' /\ ppc'[q] = "close" /\ ploc'[q] = ploc[q]
      /\ \A r \in PromoProcs \ {q} : ppc'[r] = ppc[r] /\ ploc'[r] = ploc[r]
  BY <1>1, <1>2, <1>3, <1>4, AdminGoes
<1>6. /\ discounts' \in [DiscountIds -> {"none", "active", "archived"}]
      /\ d \in DiscountIds => discounts'[d] = "archived"
      /\ \A e \in DiscountIds \ {d} : discounts'[e] = discounts[e]
  BY <1>1, <1>2, PromoFacts DEF PmTables
<1>7. PmTables'
  BY <1>1, <1>2, <1>6 DEF PmTables
<1>8. PmHolds' /\ PmCount'
  BY <1>1, <1>2, <1>5, AdminAside, StepKinds
<1>9. PmLone'
  <2>1. Administering(q)'
    BY <1>4, <1>5 DEF Administering
  <2> QED BY <1>1, <1>2, <1>4, <1>5, <1>6, <2>1, LoneGoes DEF Lone
<1>10. ProviderFollows'
  <2> SUFFICES ASSUME NEW e \in DiscountIds \ stray,
                      \A r \in PromoProcs : Administering(r)' => ploc'[r].discount # e
               PROVE  discounts'[e] = "active" <=> promo.state = "active" /\ promo.discount = e
    BY <1>2 DEF ProviderFollows
  <2>1. \A r \in PromoProcs : Administering(r) => ploc[r].discount # e
    BY <1>4, <1>5 DEF Administering
  <2>2. e # d
    BY <2>1, <1>4
  <2> QED BY <2>1, <2>2, <1>1, <1>6 DEF ProviderFollows
<1> QED BY <1>5, <1>7, <1>8, <1>9, <1>10 DEF PmInv

\* It is not, and left behind.
LEMMA ArchiveFailsKeeps ==
  ASSUME PmInv, NEW q \in PromoProcs, ArchiveFails(q)
  PROVE  PmInv'
<1>1. PmTables /\ PmRequests /\ PmHolds /\ PmCount /\ PmLone /\ ProviderFollows
  BY DEF PmInv
<1>2. /\ ppc[q] = "archive" /\ ppc' = [ppc EXCEPT ![q] = "close"]
      /\ stray' = stray \cup Touched(q)
      /\ UNCHANGED <<promo, redemptions, discounts, ploc, given, forgotten, wiped, miscounted,
                     unrivalled>>
  BY DEF ArchiveFails, promoTables
<1>3. /\ ploc[q] \in PromoLocal /\ Reading("archive", ploc[q], promo.state)
      /\ ploc' = [ploc EXCEPT ![q] = ploc[q]]
  BY <1>1, <1>2, SamePromoData
<1>4. "close" \in AdminSteps /\ Administering(q) /\ Reading("close", ploc[q], promo.state)
  BY <1>2, <1>3, StepKinds DEF Administering, Reading
<1>5. /\ PmRequests' /\ ppc'[q] = "close" /\ ploc'[q] = ploc[q]
      /\ \A r \in PromoProcs \ {q} : ppc'[r] = ppc[r] /\ ploc'[r] = ploc[r]
  BY <1>1, <1>2, <1>3, <1>4, AdminGoes
<1>6. PmTables'
  BY <1>1, <1>2 DEF PmTables, Touched
<1>7. PmHolds' /\ PmCount'
  BY <1>1, <1>2, <1>5, AdminAside, StepKinds
<1>8. PmLone'
  <2>1. Administering(q)'
    BY <1>4, <1>5 DEF Administering
  <2>2. ploc[q].discount \in DiscountIds => ploc[q].discount \in stray'
    BY <1>2 DEF Touched
  <2> QED BY <1>1, <1>2, <1>4, <1>5, <2>1, <2>2, LoneGoes DEF Lone
<1>9. ProviderFollows'
  <2> SUFFICES ASSUME NEW e \in DiscountIds \ stray,
                      \A r \in PromoProcs : Administering(r)' => ploc'[r].discount # e
               PROVE  discounts[e] = "active" <=> promo.state = "active" /\ promo.discount = e
    BY <1>2 DEF ProviderFollows
  <2>1. \A r \in PromoProcs : Administering(r) => ploc[r].discount # e
    BY <1>4, <1>5 DEF Administering
  <2> QED BY <2>1, <1>1 DEF ProviderFollows
<1> QED BY <1>5, <1>6, <1>7, <1>8, <1>9 DEF PmInv

\* The row of a new code.
LEMMA InsertPromoKeeps ==
  ASSUME PmInv, NEW q \in PromoProcs, InsertPromo(q)
  PROVE  PmInv'
<1>1. PmTables /\ PmRequests /\ PmHolds /\ PmCount /\ PmLone /\ ProviderFollows
  BY DEF PmInv
<1>2. /\ ppc[q] = "insert" /\ ppc' = [ppc EXCEPT ![q] = "idle"]
      /\ ploc' = [ploc EXCEPT ![q] = NoPromoLocal]
      /\ unrivalled' = unrivalled \ {q} /\ wiped' = wiped \ {q}
      /\ promo' = IF promo.state # "absent" THEN promo
                  ELSE [NoPromo EXCEPT !.state = "active", !.type = ploc[q].type,
                                       !.max = ploc[q].max, !.discount = ploc[q].discount]
      /\ stray' = IF q \in unrivalled THEN stray ELSE stray \cup Touched(q)
      /\ UNCHANGED <<redemptions, discounts, given, forgotten, miscounted>>
  BY DEF InsertPromo, PromoReturn
<1>3. ploc[q] \in PromoLocal /\ Administering(q)
  BY <1>1, <1>2, SamePromoData, StepKinds DEF Administering
<1>4. /\ promo' \in PromoRow
      /\ promo.state = "absent" =>
           promo'.state = "active" /\ promo'.discount = ploc[q].discount /\ promo'.times \in Nat
  <2>1. CASE promo.state # "absent"
    BY <2>1, <1>1, <1>2 DEF PmTables
  <2>2. CASE promo.state = "absent"
    <3>1. promo' = [NoPromo EXCEPT !.state = "active", !.type = ploc[q].type,
                                   !.max = ploc[q].max, !.discount = ploc[q].discount]
      BY <1>2, <2>2
    <3> QED BY <3>1, <1>3, PromoFacts DEF PromoRow, PromoLocal
  <2> QED BY <2>1, <2>2
<1>5. /\ PmRequests' /\ ppc'[q] = "idle"
      /\ \A r \in PromoProcs \ {q} : ppc'[r] = ppc[r] /\ ploc'[r] = ploc[r]
  BY <1>1, <1>2, PromoEnds
<1>6. PmTables'
  <2>1. stray' \subseteq DiscountIds
    BY <1>1, <1>2 DEF PmTables, Touched
  <2>2. promo'.state \in {"absent", "deleted"} => redemptions' = {}
    BY <1>1, <1>2, <1>4 DEF PmTables
  <2> QED BY <1>1, <1>2, <1>4, <2>1, <2>2 DEF PmTables
<1>7. PmHolds'
  BY <1>1, <1>2, <1>5, HoldsQuiet
<1>8. PmCount'
  <2>1. CASE promo.state # "absent"
    BY <2>1, <1>1, <1>2, <1>5, AdminAside, StepKinds
  <2>2. CASE promo.state = "absent"
    <3>1. \A r \in PromoProcs : ppc[r] \in {"idle", "new_discount", "insert"}
      BY <2>2, <1>1 DEF PmRequests, Reading
    <3>2. Claimers' = {}
      BY <3>1, <1>5 DEF Claimers
    <3>3. redemptions' = {} /\ promo'.times \in Nat
      BY <2>2, <1>1, <1>2, <1>4 DEF PmTables
    <3> QED BY <3>2, <3>3, CountNothing
  <2> QED BY <2>1, <2>2
<1>9. PmLone'
  BY <1>1, <1>2, <1>3, LoneEnds
<1>10. ProviderFollows'
  <2>1. CASE q \in unrivalled
    <3>1. promo.state = "absent"
      BY <2>1, <1>1, <1>2 DEF PmLone, Lone
    <3> QED BY <2>1, <3>1, <1>1, <1>2, <1>4, <1>5, CodePut
  <2>2. CASE q \notin unrivalled
    <3>1. promo'.discount \in {promo.discount, ploc[q].discount}
      BY <1>2, <1>4
    <3> QED BY <2>2, <3>1, <1>1, <1>2, <1>3, <1>5, StrayEnds
  <2> QED BY <2>1, <2>2
<1> QED BY <1>5, <1>6, <1>7, <1>8, <1>9, <1>10 DEF PmInv

\* The row of a code is closed or deleted.
LEMMA CloseKeeps ==
  ASSUME PmInv, NEW q \in PromoProcs, CloseCode(q)
  PROVE  PmInv'
<1>1. PmTables /\ PmRequests /\ PmHolds /\ PmCount /\ PmLone /\ ProviderFollows
  BY DEF PmInv
<1>2. /\ ppc[q] = "close" /\ ppc' = [ppc EXCEPT ![q] = "idle"]
      /\ ploc' = [ploc EXCEPT ![q] = NoPromoLocal]
      /\ unrivalled' = unrivalled \ {q} /\ wiped' = wiped \ {q}
      /\ promo' = IF promo.state \notin {"active", "revoked"} THEN promo
                  ELSE [promo EXCEPT !.state = IF ploc[q].flag THEN "deleted" ELSE "revoked"]
      /\ redemptions' = IF ploc[q].flag THEN {} ELSE redemptions
      /\ stray' = IF q \in unrivalled THEN stray ELSE stray \cup Touched(q)
      /\ UNCHANGED <<discounts, given, forgotten, miscounted>>
  BY DEF CloseCode, PromoReturn
<1>3. /\ Reading("close", ploc[q], promo.state) /\ Administering(q) /\ promo \in PromoRow
      /\ promo.state # "absent"
  BY <1>1, <1>2, SamePromoData, StepKinds DEF Administering, PmTables, Reading
<1>4. /\ promo' \in PromoRow /\ promo'.discount = promo.discount /\ promo'.times = promo.times
      /\ promo'.state \in {"revoked", "deleted"}
      /\ promo.state = "deleted" => promo'.state = "deleted"
      /\ promo'.state = "deleted" => redemptions' = {}
      /\ ploc[q].flag => promo'.state = "deleted"
  BY <1>1, <1>2, <1>3 DEF PromoRow, PmTables
<1>5. /\ PmRequests' /\ ppc'[q] = "idle"
      /\ \A r \in PromoProcs \ {q} : ppc'[r] = ppc[r] /\ ploc'[r] = ploc[r]
  BY <1>1, <1>2, <1>4, PromoEnds
<1>6. redemptions' \subseteq redemptions /\ (promo'.state # "deleted" => redemptions' = redemptions)
  BY <1>2, <1>4
<1>7. PmTables'
  <2>1. stray' \subseteq DiscountIds
    BY <1>1, <1>2 DEF PmTables, Touched
  <2> QED BY <1>1, <1>2, <1>4, <1>6, <2>1 DEF PmTables
<1>8. PmHolds'
  BY <1>1, <1>2, <1>4, <1>5, <1>6, HoldsQuiet
<1>9. PmCount'
  <2>1. Claimers' = Claimers /\ Taken' = Taken
    BY <1>1, <1>2, <1>5, SameClaims
  <2>2. Loose' \subseteq Loose
    BY <2>1, <1>6 DEF Loose
  <2> QED BY <2>1, <2>2, <1>1, <1>2, <1>4, <1>6, CountQuiet
<1>10. PmLone'
  BY <1>1, <1>2, <1>3, LoneEnds
<1>11. ProviderFollows'
  <2>1. CASE q \in unrivalled
    <3>1. Lone(q) /\ promo.state \in {"active", "revoked"} /\ ploc[q].discount = promo.discount
      BY <2>1, <1>1, <1>2 DEF PmLone, Lone
    <3> SUFFICES ASSUME NEW d \in DiscountIds \ stray
                 PROVE  discounts[d] # "active"
      BY <2>1, <1>2, <1>4 DEF ProviderFollows
    <3>2. CASE d = ploc[q].discount
      BY <3>1, <3>2, <1>2 DEF Lone
    <3>3. CASE d # ploc[q].discount
      <4>1. \A r \in PromoProcs : Administering(r) => ploc[r].discount # d
        BY <3>1, <3>3 DEF Lone
      <4> QED BY <3>1, <3>3, <4>1, <1>1 DEF ProviderFollows
    <3> QED BY <3>2, <3>3
  <2>2. CASE q \notin unrivalled
    BY <2>2, <1>1, <1>2, <1>3, <1>4, <1>5, StrayEnds
  <2> QED BY <2>1, <2>2
<1> QED BY <1>5, <1>7, <1>8, <1>9, <1>10, <1>11 DEF PmInv

\* Usage starts anew: every record, slot and grant is forgotten, or none.
LEMMA ResetKeeps ==
  ASSUME PmInv, NEW q \in PromoProcs, ResetUsage(q)
  PROVE  PmInv'
<1>1. PmTables /\ PmRequests /\ PmHolds /\ PmCount /\ PmLone /\ ProviderFollows
  BY DEF PmInv
<1>2. /\ ppc[q] = "reset_usage" /\ ppc' = [ppc EXCEPT ![q] = "reopen"]
      /\ UNCHANGED <<promo, discounts, ploc, miscounted, unrivalled, stray>>
  BY DEF ResetUsage
<1>3. /\ ploc[q] \in PromoLocal /\ Reading("reset_usage", ploc[q], promo.state)
      /\ ploc' = [ploc EXCEPT ![q] = ploc[q]]
  BY <1>1, <1>2, SamePromoData
<1>4. /\ "reopen" \in PromoSteps /\ Administering(q) /\ Reading("reopen", ploc[q], promo'.state)
      /\ wiped' \subseteq PromoProcs /\ unrivalled' \subseteq PromoProcs
  BY <1>1, <1>2, <1>3, StepKinds DEF Administering, Reading, ResetUsage, PmRequests
<1>5. /\ PmRequests' /\ ppc'[q] = "reopen" /\ ploc'[q] = ploc[q]
      /\ \A r \in PromoProcs \ {q} : ppc'[r] = ppc[r] /\ ploc'[r] = ploc[r]
  BY <1>1, <1>2, <1>3, <1>4, PromoMoves
<1>6. Administering(q)'
  BY <1>5, StepKinds DEF Administering
<1>7. ProviderFollows'
  <2> SUFFICES ASSUME NEW e \in DiscountIds \ stray,
                      \A r \in PromoProcs : Administering(r)' => ploc'[r].discount # e
               PROVE  discounts[e] = "active" <=> promo.state = "active" /\ promo.discount = e
    BY <1>2 DEF ProviderFollows
  <2>1. \A r \in PromoProcs : Administering(r) => ploc[r].discount # e
    BY <1>5, <1>6 DEF Administering
  <2> QED BY <2>1, <1>1 DEF ProviderFollows
<1>8. CASE ploc[q].flag
  <2>1. /\ redemptions' = {} /\ given' = [a \in Accounts |-> 0]
        /\ forgotten' = {ploc[r].account : r \in {s \in PromoProcs : Redeeming(s)}}
        /\ wiped' = {s \in PromoProcs : Redeeming(s) /\ ppc[s] # "claim"}
    BY <1>8 DEF ResetUsage
  <2>2. \A r \in PromoProcs : Redeeming(r) => ploc[r].account \in Accounts
    BY <1>1 DEF PmRequests, Reading, Redeeming
  <2>3. PmTables'
    <3>1. given' \in [Accounts -> Nat] /\ forgotten' \subseteq Accounts
      BY <2>1, <2>2
    <3> QED BY <3>1, <2>1, <1>1, <1>2 DEF PmTables
  <2>4. \A r \in PromoProcs \ {q} :
          ppc'[r] \in {"comp", "release_row", "release_slot"} => Redeeming(r) /\ r \in wiped'
    BY <2>1, <1>5, StepKinds DEF Redeeming
  <2>5. PmHolds'
    <3> SUFFICES ASSUME NEW a \in Accounts \ forgotten'
                 PROVE  HeldOnce(a)'
      BY DEF PmHolds
    <3>1. \A r \in PromoProcs : ~Holds(r, a)'
      BY <2>1, <2>4, <1>5 DEF Holds
    <3>2. given'[a] = 0
      BY <2>1
    <3> QED BY <3>1, <3>2 DEF HeldOnce
  <2>6. Claimers' = {}
    BY <2>4, <1>5 DEF Claimers
  <2>7. PmCount'
    <3>1. promo'.times \in Nat
      BY <1>1, <1>2 DEF PmTables, PromoRow
    <3> QED BY <3>1, <2>1, <2>6, CountNothing
  <2>8. PmLone'
    BY <1>1, <1>2, <1>4, <1>5, <1>6, <2>1, <2>6, LoneGoes DEF Lone
  <2> QED BY <1>5, <1>7, <2>3, <2>5, <2>7, <2>8 DEF PmInv
<1>9. CASE ~ploc[q].flag
  <2>1. UNCHANGED <<redemptions, forgotten, wiped, given>>
    BY <1>9 DEF ResetUsage
  <2>2. PmTables'
    BY <2>1, <1>1, <1>2 DEF PmTables
  <2>3. PmHolds' /\ PmCount'
    BY <2>1, <1>1, <1>2, <1>5, AdminAside, StepKinds
  <2>4. PmLone'
    BY <1>1, <1>2, <1>4, <1>5, <1>6, <1>9, LoneGoes DEF Lone
  <2> QED BY <1>5, <1>7, <2>2, <2>3, <2>4 DEF PmInv
<1> QED BY <1>8, <1>9

\* The code is back in force, on the terms the request decided on.
LEMMA ReopenKeeps ==
  ASSUME PmInv, NEW q \in PromoProcs, ReopenCode(q)
  PROVE  PmInv'
<1>1. PmTables /\ PmRequests /\ PmHolds /\ PmCount /\ PmLone /\ ProviderFollows
  BY DEF PmInv
<1>2. /\ ppc[q] = "reopen" /\ ppc' = [ppc EXCEPT ![q] = "idle"]
      /\ ploc' = [ploc EXCEPT ![q] = NoPromoLocal]
      /\ unrivalled' = unrivalled \ {q} /\ wiped' = wiped \ {q}
      /\ promo' = IF promo.state \notin {"active", "revoked"} THEN promo
                  ELSE [promo EXCEPT !.state = "active", !.max = ploc[q].max, !.expired = FALSE,
                                     !.discount = ploc[q].discount,
                                     !.times = IF ploc[q].flag THEN 0 ELSE promo.times]
      /\ miscounted' = (miscounted \/ (ploc[q].flag /\ q \notin unrivalled))
      /\ stray' = IF q \in unrivalled THEN stray ELSE stray \cup Touched(q)
      /\ UNCHANGED <<redemptions, discounts, given, forgotten>>
  BY DEF ReopenCode, PromoReturn
<1>3. /\ ploc[q] \in PromoLocal /\ Administering(q) /\ promo \in PromoRow
      /\ Reading("reopen", ploc[q], promo.state) /\ promo.state # "absent"
  BY <1>1, <1>2, SamePromoData, StepKinds DEF Administering, PmTables, Reading
<1>4. /\ promo' \in PromoRow /\ promo'.times \in Nat
      /\ promo'.discount \in {promo.discount, ploc[q].discount}
      /\ promo.state \in {"active", "revoked"} =>
           promo'.state = "active" /\ promo'.discount = ploc[q].discount
      /\ promo.state \notin {"active", "revoked"} => promo' = promo
      /\ ~ploc[q].flag => promo'.times = promo.times
  <2>1. CASE promo.state \notin {"active", "revoked"}
    BY <2>1, <1>2, <1>3 DEF PromoRow
  <2>2. CASE promo.state \in {"active", "revoked"}
    <3>1. promo' = [promo EXCEPT !.state = "active", !.max = ploc[q].max, !.expired = FALSE,
                                 !.discount = ploc[q].discount,
                                 !.times = IF ploc[q].flag THEN 0 ELSE promo.times]
      BY <1>2, <2>2
    <3> QED BY <3>1, <2>2, <1>3 DEF PromoRow, PromoLocal
  <2> QED BY <2>1, <2>2
<1>5. /\ PmRequests' /\ ppc'[q] = "idle"
      /\ \A r \in PromoProcs \ {q} : ppc'[r] = ppc[r] /\ ploc'[r] = ploc[r]
  <2>1. promo'.state # "absent"
    BY <1>3, <1>4
  <2> QED BY <2>1, <1>1, <1>2, PromoEnds
<1>6. PmTables'
  <2>1. stray' \subseteq DiscountIds /\ miscounted' \in BOOLEAN
    BY <1>1, <1>2 DEF PmTables, Touched
  <2>2. promo'.state \in {"absent", "deleted"} => redemptions' = {}
    BY <1>1, <1>2, <1>3, <1>4 DEF PmTables, PromoRow
  <2> QED BY <1>1, <1>2, <1>4, <2>1, <2>2 DEF PmTables
<1>7. PmHolds'
  BY <1>1, <1>2, <1>4, <1>5, HoldsQuiet
<1>8. Claimers' = Claimers /\ Taken' = Taken
  BY <1>1, <1>2, <1>5, SameClaims
<1>9. PmCount'
  <2>1. CASE ~ploc[q].flag
    <3>1. miscounted => miscounted'
      BY <1>2
    <3> QED BY <2>1, <3>1, <1>1, <1>2, <1>4, <1>8, CountQuiet DEF Loose
  <2>2. CASE ploc[q].flag /\ q \notin unrivalled
    BY <2>2, <1>1, <1>2, <1>8 DEF PmCount
  <2>3. CASE ploc[q].flag /\ q \in unrivalled
    <3>1. redemptions = {} /\ Claimers = {}
      BY <2>3, <1>1, <1>2 DEF PmLone, Lone
    <3> QED BY <3>1, <1>2, <1>4, <1>8, CountNothing
  <2> QED BY <2>1, <2>2, <2>3
<1>10. PmLone'
  BY <1>1, <1>2, <1>3, LoneEnds
<1>11. ProviderFollows'
  <2>1. CASE q \in unrivalled
    <3>1. promo.state = "revoked"
      BY <2>1, <1>1, <1>2 DEF PmLone, Lone
    <3> QED BY <2>1, <3>1, <1>1, <1>2, <1>4, <1>5, CodePut
  <2>2. CASE q \notin unrivalled
    BY <2>2, <1>1, <1>2, <1>3, <1>4, <1>5, StrayEnds
  <2> QED BY <2>1, <2>2
<1> QED BY <1>5, <1>6, <1>7, <1>9, <1>10, <1>11 DEF PmInv

-----------------------------------------------------------------------------
\* The code expires, or the workspace of a redemption goes with its record.
LEMMA TimeAndTenantsKeep ==
  ASSUME PmInv, ExpirePromo \/ DeleteTenant
  PROVE  PmInv'
<1>1. PmTables /\ PmRequests /\ PmHolds /\ PmCount /\ PmLone /\ ProviderFollows
  BY DEF PmInv
<1>2. UNCHANGED <<discounts, ppc, ploc, given, wiped, miscounted, unrivalled, stray>>
  BY DEF ExpirePromo, DeleteTenant, PromoRest
<1>3. /\ promo' \in PromoRow /\ promo'.state = promo.state /\ promo'.discount = promo.discount
      /\ promo'.times = promo.times
  BY <1>1 DEF ExpirePromo, DeleteTenant, PmTables, PromoRow
<1>4. /\ redemptions' \subseteq redemptions /\ forgotten \subseteq forgotten'
      /\ forgotten' \subseteq Accounts
      /\ \A a \in Accounts \ forgotten' : a \in redemptions => a \in redemptions'
  BY <1>1 DEF ExpirePromo, DeleteTenant, PmTables
<1>5. PmTables'
  BY <1>1, <1>2, <1>3, <1>4 DEF PmTables
<1>6. PmRequests'
  BY <1>1, <1>2, <1>3 DEF PmRequests
<1>7. PmHolds'
  BY <1>1, <1>2, <1>3, <1>4, HoldsQuiet
<1>8. Claimers' = Claimers /\ Taken' = Taken
  BY <1>2 DEF Claimers, Taken
<1>9. PmCount'
  <2>1. Loose' \subseteq Loose
    BY <1>4, <1>8 DEF Loose
  <2> QED BY <2>1, <1>1, <1>2, <1>3, <1>4, <1>8, CountQuiet
<1>10. PmLone' /\ ProviderFollows'
  BY <1>1, <1>2, <1>3, <1>4, <1>8, AdminQuiet
<1> QED BY <1>5, <1>6, <1>7, <1>9, <1>10 DEF PmInv

\* The invariant holds at first.
LEMMA PromoFirst ==
  ASSUME PromoInit
  PROVE  PmInv /\ promoOps \in Nat /\ promoFaults \in Nat
<1>1. /\ \A q \in PromoProcs : ppc[q] = "idle" /\ ploc[q] = NoPromoLocal
      /\ promo = NoPromo /\ redemptions = {} /\ unrivalled = {} /\ wiped = {}
  BY DEF PromoInit
<1>2. PmTables
  BY PromoFacts DEF PromoInit, PmTables
<1>3. PmRequests
  <2>1. ppc \in [PromoProcs -> PromoSteps] /\ ploc \in [PromoProcs -> PromoLocal]
    BY PromoFacts, StepKinds DEF PromoInit
  <2> QED BY <2>1, <1>1, PromoFacts DEF PmRequests
<1>4. PmHolds
  BY <1>1 DEF PromoInit, PmHolds, HeldOnce, Holds
<1>5. PmCount
  <2>1. Claimers = {} /\ Loose = {}
    BY <1>1 DEF Claimers, Loose
  <2>2. promo.times = 0
    BY <1>1 DEF NoPromo
  <2> QED BY <1>1, <2>1, <2>2, FS_EmptySet DEF PmCount
<1>6. PmLone
  BY <1>1 DEF PmLone
<1>7. ProviderFollows
  BY DEF PromoInit, ProviderFollows, NoPromo
<1>8. promoOps \in Nat /\ promoFaults \in Nat
  BY DEF PromoInit
<1> QED BY <1>2, <1>3, <1>4, <1>5, <1>6, <1>7, <1>8 DEF PmInv

\* Every step keeps it.
LEMMA PromoStepKeeps ==
  ASSUME PmInv, [PromoNext]_promoVars
  PROVE  PmInv'
<1>1. CASE UNCHANGED promoVars
  <2>1. UNCHANGED <<promo, redemptions, discounts, ppc, ploc, given, forgotten, wiped, miscounted,
                    unrivalled, stray>>
    BY <1>1 DEF promoVars, promoTables, promoHistory
  <2> QED BY <2>1 DEF PmInv, PmTables, PmRequests, PmHolds, HeldOnce, Holds, PmCount, Claimers, Taken,
                     Loose, PmLone, Lone, ProviderFollows, Administering
<1>2. ASSUME NEW q \in PromoProcs,
             \/ RedeemPromo(q) \/ ClaimRedemption(q) \/ ClaimRefused(q)
             \/ CompAccount(q) \/ CompFails(q) \/ ReleaseRow(q) \/ ReleaseSlot(q)
      PROVE  PmInv'
  BY <1>2, RedeemKeeps, ClaimKeeps, ClaimRefusedKeeps, CompKeeps, CompFailsKeeps, ReleaseRowKeeps,
     ReleaseSlotKeeps
<1>3. ASSUME NEW q \in PromoProcs,
             \/ CreatePromoCode(q) \/ MakeDiscount(q) \/ InsertPromo(q)
             \/ RevokePromoCode(q) \/ DeletePromoCode(q) \/ ArchiveDiscount(q) \/ ArchiveFails(q)
             \/ CloseCode(q) \/ ReactivatePromoCode(q) \/ ResetUsage(q) \/ ReopenCode(q)
             \/ PromoFail(q)
      PROVE  PmInv'
  BY <1>3, AdminBeginKeeps, MakeDiscountKeeps, InsertPromoKeeps, ArchiveKeeps, ArchiveFailsKeeps,
     CloseKeeps, ResetKeeps, ReopenKeeps, PromoFailKeeps
<1>4. CASE ExpirePromo \/ DeleteTenant
  BY <1>4, TimeAndTenantsKeep
<1> QED BY <1>1, <1>2, <1>3, <1>4 DEF PromoNext

\* Requests and faults are counted.
LEMMA PromoCounted ==
  ASSUME promoOps \in Nat, promoFaults \in Nat, [PromoNext]_promoVars
  PROVE  promoOps' \in Nat /\ promoFaults' \in Nat
<1>1. ASSUME NEW q \in PromoProcs,
             \/ RedeemPromo(q) \/ CreatePromoCode(q) \/ RevokePromoCode(q) \/ DeletePromoCode(q)
             \/ ReactivatePromoCode(q)
      PROVE  promoOps' = promoOps + 1 /\ promoFaults' = promoFaults
  <2>1. ASSUME NEW step, NEW l, PromoBegin(q, step, l)
        PROVE  promoOps' = promoOps + 1 /\ promoFaults' = promoFaults
    BY <2>1 DEF PromoBegin
  <2> QED BY <1>1, <2>1 DEF RedeemPromo, CreatePromoCode, RevokePromoCode, DeletePromoCode,
                           ReactivatePromoCode
<1>2. ASSUME NEW q \in PromoProcs, CompFails(q) \/ ArchiveFails(q) \/ PromoFail(q)
      PROVE  promoOps' = promoOps /\ promoFaults' = promoFaults + 1
  BY <1>2 DEF CompFails, ArchiveFails, PromoFail
<1>3. ASSUME NEW q \in PromoProcs,
             \/ ClaimRedemption(q) \/ ClaimRefused(q) \/ CompAccount(q) \/ ReleaseRow(q)
             \/ ReleaseSlot(q) \/ MakeDiscount(q) \/ InsertPromo(q) \/ ArchiveDiscount(q)
             \/ CloseCode(q) \/ ResetUsage(q) \/ ReopenCode(q)
      PROVE  promoOps' = promoOps /\ promoFaults' = promoFaults
  BY <1>3 DEF ClaimRedemption, ClaimRefused, CompAccount, ReleaseRow, ReleaseSlot, MakeDiscount,
              InsertPromo, ArchiveDiscount, CloseCode, ResetUsage, ReopenCode, PromoGoto, PromoReturn
<1>4. CASE ExpirePromo \/ DeleteTenant \/ UNCHANGED promoVars
  BY <1>4 DEF ExpirePromo, DeleteTenant, PromoRest, promoVars
<1> QED BY <1>1, <1>2, <1>3, <1>4 DEF PromoNext

\* The invariant gives every redemption on record its slot, so the cap holds.
LEMMA CapStep ==
  ASSUME PmInv, [PromoNext]_promoVars
  PROVE  [redemptions' \subseteq redemptions \/ miscounted \/ promo.max = Unlimited
          \/ Cardinality(redemptions') <= promo.max]_promoVars
<1>1. PmTables /\ PmRequests /\ PmCount
  BY DEF PmInv
<1>2. ASSUME NEW q \in PromoProcs, ClaimRedemption(q), ~miscounted, promo.max # Unlimited
      PROVE  Cardinality(redemptions') <= promo.max
  <2>1. promo.times < promo.max /\ redemptions' = redemptions \cup {ploc[q].account}
    BY <1>2 DEF ClaimRedemption, CanClaim, HasRoom
  <2>2. IsFiniteSet(redemptions) /\ Cardinality(redemptions) <= promo.times
    BY <1>1, <1>2, CountFacts, RecordsHaveSlots
  <2>3. Cardinality(redemptions) \in Nat /\ promo.times \in Nat /\ promo.max \in Nat
    <3>1. promo.max \in Caps \cup {Unlimited} /\ promo.times \in Nat
      BY <1>1 DEF PmTables, PromoRow
    <3>2. Caps \cup {Unlimited} \subseteq Nat
      BY PromoFacts
    <3>3. Cardinality(redemptions) \in Nat
      BY <2>2, FS_CardinalityType
    <3> QED BY <3>1, <3>2, <3>3
  <2> DEFINE more == redemptions \cup {ploc[q].account}
  <2>4. Cardinality(more) \in Nat /\ Cardinality(more) <= Cardinality(redemptions) + 1
    BY <2>2, <2>3, OneMore
  <2>5. redemptions' = more
    BY <2>1
  <2> HIDE DEF more
  <2>6. Cardinality(more) <= promo.max
    BY <2>1, <2>2, <2>3, <2>4
  <2> QED BY <2>5, <2>6
<1>3. ASSUME NEW q \in PromoProcs,
             \/ RedeemPromo(q) \/ CreatePromoCode(q) \/ RevokePromoCode(q) \/ DeletePromoCode(q)
             \/ ReactivatePromoCode(q)
      PROVE  redemptions' \subseteq redemptions
  <2>1. ASSUME NEW step, NEW l, PromoBegin(q, step, l)
        PROVE  redemptions' \subseteq redemptions
    BY <2>1 DEF PromoBegin, promoTables
  <2> QED BY <1>3, <2>1 DEF RedeemPromo, CreatePromoCode, RevokePromoCode, DeletePromoCode,
                           ReactivatePromoCode
<1>4. ASSUME NEW q \in PromoProcs,
             \/ ClaimRefused(q) \/ CompAccount(q) \/ CompFails(q) \/ ReleaseRow(q)
             \/ ReleaseSlot(q) \/ MakeDiscount(q) \/ InsertPromo(q) \/ ArchiveDiscount(q)
             \/ ArchiveFails(q) \/ CloseCode(q) \/ ResetUsage(q) \/ ReopenCode(q) \/ PromoFail(q)
      PROVE  redemptions' \subseteq redemptions
  BY <1>4 DEF ClaimRefused, CompAccount, CompFails, ReleaseRow, ReleaseSlot, MakeDiscount,
              InsertPromo, ArchiveDiscount, ArchiveFails, CloseCode, ResetUsage, ReopenCode,
              PromoFail, promoTables
<1>5. CASE ExpirePromo \/ DeleteTenant
  BY <1>5 DEF ExpirePromo, DeleteTenant
<1>6. CASE UNCHANGED promoVars
  BY <1>6
<1> QED BY <1>2, <1>3, <1>4, <1>5, <1>6 DEF PromoNext

-----------------------------------------------------------------------------
\* What the requests of a promo code work on and know are of their types, and none is past
\* its reads while there is no code.
THEOREM PromoTypes == PromoSpec => []PromoTypeOK
<1> DEFINE Inv == PmInv /\ promoOps \in Nat /\ promoFaults \in Nat
<1>1. PromoInit => Inv
  BY PromoFirst
<1>2. Inv /\ [PromoNext]_promoVars => Inv'
  BY PromoStepKeeps, PromoCounted
<1>3. Inv => PromoTypeOK
  BY DEF PmInv, PmTables, PmRequests, PromoRow, PromoSteps, PromoTypeOK
<1> QED BY <1>1, <1>2, <1>3, PTL DEF PromoSpec

\* No account is given a promo twice (the UNIQUE index of promo_redemptions, and a claim that
\* comes before the grant), unless its record was wiped.
THEOREM OncePerAccountAlways == PromoSpec => []OncePerAccount
<1>1. PromoInit => PmInv
  BY PromoFirst
<1>2. PmInv /\ [PromoNext]_promoVars => PmInv'
  BY PromoStepKeeps
<1>3. PmInv => OncePerAccount
  BY DEF PmInv, PmHolds, HeldOnce, OncePerAccount
<1> QED BY <1>1, <1>2, <1>3, PTL DEF PromoSpec

\* Requests of administrators that meet no rival and no failure leave at the provider exactly
\* the discount of a code in force active.
THEOREM ProviderFollowsAlways == PromoSpec => []ProviderFollows
<1>1. PromoInit => PmInv
  BY PromoFirst
<1>2. PmInv /\ [PromoNext]_promoVars => PmInv'
  BY PromoStepKeeps
<1>3. PmInv => ProviderFollows
  BY DEF PmInv
<1> QED BY <1>1, <1>2, <1>3, PTL DEF PromoSpec

\* The conditional UPDATE holds the cap: no claim brings the redemptions on record above it.
THEOREM CapAlwaysHeld == PromoSpec => CapHeld
<1>1. PromoInit => PmInv
  BY PromoFirst
<1>2. PmInv /\ [PromoNext]_promoVars => PmInv'
  BY PromoStepKeeps
<1>3. PmInv /\ [PromoNext]_promoVars =>
        [redemptions' \subseteq redemptions \/ miscounted \/ promo.max = Unlimited
         \/ Cardinality(redemptions') <= promo.max]_promoVars
  BY CapStep
<1> QED BY <1>1, <1>2, <1>3, PTL DEF PromoSpec, CapHeld

=============================================================================
