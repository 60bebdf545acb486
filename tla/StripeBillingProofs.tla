------------------------ MODULE StripeBillingProofs ------------------------
(***************************************************************************)
(* What StripeBilling guarantees for any number of requests, of            *)
(* subscriptions, of failures and of events: its types, that a reconcile   *)
(* makes the row agree with Stripe, that a waiting downgrade is shown, and *)
(* that a comp stops the charges and survives reconciles.                  *)
(***************************************************************************)
EXTENDS StripeBilling, WellFoundedInduction, TLAPS

\* The downgrade of s waits for the end of the period.
Waiting(s) == subs[s].schedule # Free /\ ~subs[s].begun
NoneWaits  == \A s \in Live : ~Waiting(s)

RowType  == [plan : PaidPlans \cup {"free"}, interval : {"month", "year", "none"},
             status : {"none", "active", "canceled", "comped"},
             sub : SubIds \cup {NoSub}, compOver : BOOLEAN, pending : Price \cup {Free},
             customer : AnyCustomer]
SubType  == [status : {"none", "draft", "active", "canceled"}, price : Price \cup {Free},
             schedule : Price \cup {Free}, begun : BOOLEAN, cancelling : BOOLEAN,
             customer : AnyCustomer]
SnapType == [id : SubIds \cup {NoSub}, status : {"none", "active", "canceled"},
             price : Price \cup {Free}, schedule : Price \cup {Free},
             customer : AnyCustomer]

\* A row that is active has been paid for; one that is comped has no subscription.
SbRow ==
  /\ acct \in RowType
  /\ acct.status = "active" => acct.plan # "free" /\ acct.sub # NoSub
  /\ acct.sub \in Born \cup {NoSub}
  /\ Comped => blurred \/ (acct.sub = NoSub /\ acct.pending = Free)

\* Only what was paid for has a schedule; what was asked for has a price.
SbSubs ==
  /\ subs \in [SubIds -> SubType]
  /\ \A s \in SubIds : subs[s].status # "none" => subs[s].price \in Price
  /\ \A s \in SubIds \ Born : subs[s].schedule = Free /\ ~subs[s].begun
  /\ \A e \in events : e \in SnapType /\ e.id \in Born /\ e.price \in Price

\* What a request at a step goes by: a subscription that was paid for, a price that was
\* asked for.  Only an upgrade and its reconcile are upgrading.
Ready(step, l, paid) ==
  /\ l.sub.id \in paid \cup {NoSub}
  /\ l.sub.status = "active" => l.sub.price \in Price /\ l.sub.id # NoSub
  /\ step \in {"ch_get", "up_release", "up_update", "dn_create", "dn_phases", "dn_mark",
               "cs_get", "cs_release", "ca_get", "ca_release", "ca_clear", "ca_flag",
               "resume", "cl_cancel", "hook_get"} => l.sub.id # NoSub
  /\ step \in {"ch_get", "up_release", "up_update", "dn_create", "dn_phases", "dn_mark",
               "co_customer", "co_store", "co_session"} => l.target \in Price
  /\ step \in {"dn_create", "dn_phases", "dn_mark"} => l.sub.price \in Price
  /\ step \in {"idle", "hook_get", "co_customer", "co_store", "co_session", "cl_cancel",
               "comp"} => ~l.upgrading
SbRequests ==
  /\ pc \in [Procs -> Steps] /\ loc \in [Procs -> Local]
  /\ \A q \in Procs : Ready(pc[q], loc[q], Born)

\* A request is fresh as long as what it listed is what Stripe would list.
SbFresh ==
  /\ fresh \subseteq Procs /\ owed \in BOOLEAN
  /\ \A q \in fresh : pc[q] \in {"rc_write", "rc_after", "rc_clear"} /\ loc[q].sub = Chosen

\* A reconcile between its look at the row and its write.
HasRead == {"rc_expire", "rc_list", "rc_write"}

\* No reconcile that read the row under a comp in force is about to write.
SbBehind ==
  /\ behind \subseteq Procs
  /\ (Comped /\ ~acct.compOver) =>
       \A q \in Procs : pc[q] \in HasRead => q \in behind

\* With nothing blurred there is one live subscription at most and one change at a time,
\* and the row has the subscription whose downgrade waits.
OneLive   == \A s, r \in Live : s = r
OneChange == \A q, r \in Changing : q = r
WaitsHere == \A s \in Live : Waiting(s) => acct.sub = s
Shown     == Changing = {} => \A s \in Live : Waiting(s) => acct.pending = subs[s].schedule

\* What a comp finds when it cancels, and after it.
Replaces(q) ==
  /\ pc[q] = "cl_cancel" => acct.sub \in {NoSub, loc[q].sub.id}
  /\ pc[q] = "comp" => acct.sub \notin Live

\* What a change at a step has done about downgrades that wait.
Promise(q) ==
  /\ pc[q] \in {"ch_get", "up_release", "dn_create", "dn_phases", "cs_get", "cs_release",
                "ca_get", "ca_release"} =>
       /\ loc[q].sub.id \in Live => acct.sub = loc[q].sub.id
       /\ \A s \in Live : Waiting(s) => s = loc[q].sub.id
  /\ pc[q] \in {"up_update", "up_clear", "cs_clear", "ca_clear"} => NoneWaits
  /\ (pc[q] \in ReconcileSteps /\ loc[q].upgrading) => NoneWaits
  /\ pc[q] = "dn_mark" => \A s \in Live : Waiting(s) => subs[s].schedule = loc[q].target

\* What a reconcile that is fresh knows when it looks at the markers, and when it clears them.
Found(q) ==
  q \in fresh /\ Live # {} =>
    /\ pc[q] = "rc_after" => Comped \/ acct.plan \in {Chosen.price.plan, "free"}
    /\ pc[q] = "rc_clear" => loc[q].target.plan = Chosen.price.plan \/ Chosen.schedule = Free

Clear ==
  /\ OneLive /\ OneChange /\ WaitsHere /\ Shown
  /\ \A q \in Procs : Replaces(q) /\ Promise(q) /\ Found(q)

\* What a fresh reconcile wrote agrees with what Stripe lists.
ListAgrees == owed \/ Agrees

SbBase ==
  /\ SbRow /\ SbSubs /\ SbRequests /\ SbFresh /\ SbBehind
  /\ blurred \in BOOLEAN /\ ops \in Nat /\ faults \in Nat
  /\ ListAgrees

\* Every live subscription is of the customer on file.
Own == Live \subseteq Listed(acct.customer)

\* Unless two customers were made: whatever was bought is of the customer on file, and so
\* is what the requests do, but for one that has made the customer and not stored it yet.
OneCustomer ==
  /\ \A s \in SubIds : subs[s].status # "none" =>
       subs[s].customer = acct.customer /\ acct.customer # NoCustomer
  /\ \A q \in Procs : loc[q].customer # NoCustomer =>
       \/ loc[q].customer = acct.customer
       \/ /\ acct.customer = NoCustomer /\ pc[q] = "co_store"
          /\ \A r \in Procs \ {q} : loc[r].customer = NoCustomer

\* What a request at a step has to do with customers.
ActsFor(step, l, paid, theirs) ==
  /\ l.sub.status # "none" => l.sub.id \in paid /\ l.sub.customer = theirs[l.sub.id]
  /\ step \in {"hook_get", "rc_write"} /\ l.sub.id # NoSub => l.sub.status # "none"
  /\ step \in {"co_store", "co_session", "rc_list"} => l.customer # NoCustomer

Owners == [s \in SubIds |-> subs[s].customer]

SbCust ==
  /\ twice \in BOOLEAN /\ (twice => blurred)
  /\ \A e \in events : e.customer = subs[e.id].customer
  /\ \A q \in Procs : ActsFor(pc[q], loc[q], Born, Owners)
  /\ twice \/ OneCustomer

SbInv == SbBase /\ SbCust /\ (blurred \/ Clear)

-----------------------------------------------------------------------------
(* The data the operators of the module make.                               *)

\* Free is no price; a new row, a subscription and the data of no request have their types.
LEMMA StripeFacts ==
  /\ Free \notin Price /\ NoSub \notin SubIds /\ SubIds \subseteq Nat
  /\ \A x \in Price : x.plan \in PaidPlans /\ x.interval \in {"month", "year"}
  /\ "free" \notin PaidPlans /\ "comped" # "active"
  /\ Prices \subseteq Price /\ Bought \subseteq Price /\ NoCustomer \notin Customers
<1>1. PICK n \in SubIds : SubIds = 1..n
  BY ConstantsOK
<1>2. n = 1 \/ n # 1
  OBVIOUS
<1>3. SubIds \subseteq Nat /\ NoSub \notin SubIds
  <2>1. n \in 1..n
    BY <1>1
  <2>2. n \in Int
    BY <2>1
  <2> QED BY <1>1, <2>2 DEF NoSub
<1>4. Free \notin Price
  BY DEF Free, Price, PaidPlans
<1> QED BY <1>3, <1>4, ConstantsOK DEF Price, PaidPlans

\* The same of the markers.
LEMMA EmptyFacts ==
  /\ NewAccount \in RowType /\ NewAccount.plan = "free" /\ NewAccount.status = "none"
  /\ NewAccount.sub = NoSub /\ NewAccount.pending = Free /\ NewAccount.compOver = FALSE
  /\ NewAccount.customer = NoCustomer /\ Unborn.customer = NoCustomer
  /\ Unborn \in SubType /\ Unborn.status = "none" /\ Unborn.price = Free
  /\ Unborn.schedule = Free /\ Unborn.begun = FALSE
  /\ NoSnapshot \in SnapType /\ NoSnapshot.id = NoSub /\ NoSnapshot.status = "none"
  /\ NoLocal \in Local /\ NoLocal.sub = NoSnapshot /\ NoLocal.upgrading = FALSE
  /\ NoLocal.target = Free /\ NoLocal.customer = NoCustomer
BY DEF NewAccount, RowType, Unborn, SubType, NoSnapshot, SnapType, NoLocal, Local, Free, NoSub,
       AnyCustomer

\* What a request knows, changed in one place.
LEMMA KnowMore ==
  ASSUME NEW l \in Local
  PROVE  /\ \A x \in SnapType :
              [l EXCEPT !.sub = x] \in Local /\ [l EXCEPT !.sub = x].sub = x
              /\ [l EXCEPT !.sub = x].target = l.target
              /\ [l EXCEPT !.sub = x].upgrading = l.upgrading
              /\ [l EXCEPT !.sub = x].customer = l.customer
         /\ \A p \in Price \cup {Free} :
              [l EXCEPT !.target = p] \in Local /\ [l EXCEPT !.target = p].target = p
              /\ [l EXCEPT !.target = p].sub = l.sub
              /\ [l EXCEPT !.target = p].upgrading = l.upgrading
              /\ [l EXCEPT !.target = p].customer = l.customer
         /\ \A b \in BOOLEAN :
              [l EXCEPT !.upgrading = b] \in Local /\ [l EXCEPT !.upgrading = b].upgrading = b
              /\ [l EXCEPT !.upgrading = b].sub = l.sub
              /\ [l EXCEPT !.upgrading = b].target = l.target
              /\ [l EXCEPT !.upgrading = b].customer = l.customer
         /\ \A c \in AnyCustomer :
              [l EXCEPT !.customer = c] \in Local /\ [l EXCEPT !.customer = c].customer = c
              /\ [l EXCEPT !.customer = c].sub = l.sub
              /\ [l EXCEPT !.customer = c].target = l.target
              /\ [l EXCEPT !.customer = c].upgrading = l.upgrading
         /\ l.sub \in SnapType /\ l.target \in Price \cup {Free} /\ l.upgrading \in BOOLEAN
         /\ l.customer \in AnyCustomer
BY DEF Local, SnapType

\* A request about a subscription.
LEMMA AboutFacts ==
  ASSUME NEW s \in SubIds \cup {NoSub}
  PROVE  /\ About(s) \in Local /\ About(s).sub.id = s /\ About(s).sub.status = "none"
         /\ About(s).upgrading = FALSE /\ About(s).customer = NoCustomer
<1> DEFINE none == [NoSnapshot EXCEPT !.id = s]
<1>1. none \in SnapType /\ none.id = s /\ none.status = "none"
  BY EmptyFacts DEF SnapType
<1>2. About(s) = [NoLocal EXCEPT !.sub = none]
  BY EmptyFacts DEF About
<1> HIDE DEF none
<1> QED BY <1>1, <1>2, EmptyFacts, KnowMore

\* A request that asks for a change of one.
Asks(s, p, b) == [About(s) EXCEPT !.target = p, !.upgrading = b]

\* What it knows.
LEMMA AskFacts ==
  ASSUME NEW s \in SubIds \cup {NoSub}, NEW p \in Price, NEW b \in BOOLEAN
  PROVE  /\ Asks(s, p, b) \in Local /\ Asks(s, p, b).sub.id = s
         /\ Asks(s, p, b).sub.status = "none" /\ Asks(s, p, b).target = p
         /\ Asks(s, p, b).upgrading = b /\ Asks(s, p, b).customer = NoCustomer
<1> DEFINE m == About(s)
<1>1. m \in Local /\ m.sub.id = s /\ m.sub.status = "none" /\ m.customer = NoCustomer
  BY AboutFacts
<1> HIDE DEF m
<1> DEFINE x == [m EXCEPT !.target = p, !.upgrading = b]
<1>2. x \in Local /\ x.sub = m.sub /\ x.target = p /\ x.upgrading = b
      /\ x.customer = m.customer
  BY <1>1 DEF Local
<1>3. Asks(s, p, b) = x
  BY DEF Asks, m
<1> HIDE DEF x
<1> QED BY <1>1, <1>2, <1>3

-----------------------------------------------------------------------------
(* Stripe's subscriptions.                                                  *)

\* There is a newest of any subscriptions.
LEMMA NewestIn ==
  ASSUME NEW S \in SUBSET SubIds, S # {}
  PROVE  Newest(S) \in S
<1>1. PICK n \in SubIds : SubIds = 1..n
  BY ConstantsOK
<1>2. n \in Nat /\ \A s \in S : s \in Nat /\ s <= n
  BY <1>1, StripeFacts
<1> DEFINE T == {n - s : s \in S}
           Less == OpToRel(<, Nat)
<1>3. T \subseteq Nat /\ T # {}
  <2>1. PICK s \in S : TRUE
    OBVIOUS
  <2>2. n - s \in T
    BY <2>1
  <2>3. \A s1 \in S : n - s1 \in Nat
    BY <1>2
  <2> QED BY <2>2, <2>3
<1>4. \A a, b \in Nat : a < b => <<a, b>> \in Less
  BY DEF OpToRel
<1>5. IsWellFoundedOn(Less, Nat)
  BY NatLessThanWellFounded
<1> HIDE DEF Less
<1>6. PICK x \in T : \A y \in T : ~ (<<y, x>> \in Less)
  BY <1>3, <1>5, WFMin
<1>7. PICK m \in S : x = n - m
  BY <1>6
<1>8. ASSUME NEW r \in S PROVE r <= m
  <2>1. n - r \in T /\ n - r \in Nat /\ x \in Nat
    BY <1>2, <1>3
  <2>2. ~ (n - r < x)
    BY <1>4, <1>6, <2>1
  <2> QED BY <1>2, <1>7, <2>2
<1> QED BY <1>8 DEF Newest

\* A snapshot of a subscription that was paid for.
LEMMA SnapshotFacts ==
  ASSUME SbSubs, NEW s \in Born
  PROVE  /\ Snapshot(s) \in SnapType /\ Snapshot(s).id = s /\ Snapshot(s).price \in Price
         /\ Snapshot(s).status = subs[s].status /\ Snapshot(s).price = subs[s].price
         /\ Snapshot(s).schedule = subs[s].schedule
         /\ Snapshot(s).customer = subs[s].customer
         /\ s \in SubIds /\ subs[s].status \in {"active", "canceled"}
<1>1. s \in SubIds /\ subs[s] \in SubType /\ subs[s].status \in {"active", "canceled"}
      /\ subs[s].price \in Price
  BY DEF SbSubs, Born
<1> QED BY <1>1 DEF Snapshot, SnapType, SubType

\* What a reconcile chooses: the newest live one of its customer if there is one.
LEMMA ChosenOfFacts ==
  ASSUME SbSubs, NEW c
  PROVE  LET x == ChosenOf(c) IN
         /\ x \in SnapType /\ x.id \in Born \cup {NoSub}
         /\ x.status = "active" => x.price \in Price /\ x.id # NoSub
         /\ x.id # NoSub => /\ x.status \in {"active", "canceled"}
                            /\ x.customer = c /\ subs[x.id].customer = c
         /\ x.id = NoSub => x.status = "none"
         /\ LiveOf(c) = {} => x.status # "active"
         /\ LiveOf(c) # {} => /\ x.id \in LiveOf(c) /\ x.status = "active"
                              /\ x.price = subs[x.id].price
                              /\ x.schedule = subs[x.id].schedule
<1>1. LiveOf(c) \subseteq Listed(c) /\ Listed(c) \subseteq Born /\ Born \subseteq SubIds
      /\ NoSub \notin Born /\ \A s \in Listed(c) : subs[s].customer = c
  BY StripeFacts DEF LiveOf, Listed, Born
<1>2. CASE LiveOf(c) # {}
  <2> DEFINE s == Newest(LiveOf(c))
  <2>1. s \in LiveOf(c) /\ ChosenOf(c) = Snapshot(s)
    BY <1>1, <1>2, NewestIn DEF ChosenOf
  <2> HIDE DEF s
  <2>2. subs[s].status = "active"
    BY <2>1 DEF LiveOf, Live
  <2> QED BY <1>1, <1>2, <2>1, <2>2, SnapshotFacts
<1>3. CASE LiveOf(c) = {} /\ Listed(c) # {}
  <2> DEFINE s == Newest(Listed(c))
  <2>1. s \in Listed(c) /\ ChosenOf(c) = Snapshot(s)
    BY <1>1, <1>3, NewestIn DEF ChosenOf
  <2> HIDE DEF s
  <2>2. subs[s].status # "active"
    BY <1>1, <1>3, <2>1 DEF LiveOf, Live
  <2> QED BY <1>1, <1>3, <2>1, <2>2, SnapshotFacts
<1>4. CASE LiveOf(c) = {} /\ Listed(c) = {}
  BY <1>4, EmptyFacts DEF ChosenOf
<1> QED BY <1>2, <1>3, <1>4

\* The same of the customer on file, when every live subscription is theirs.
LEMMA ChosenFacts ==
  ASSUME SbSubs
  PROVE  /\ Chosen \in SnapType /\ Chosen.id \in Born \cup {NoSub}
         /\ Chosen.status = "active" => Chosen.price \in Price /\ Chosen.id # NoSub
         /\ Chosen.id # NoSub => Chosen.customer = acct.customer
         /\ Live = {} => Chosen.status # "active"
         /\ Own /\ Live # {} => /\ Chosen.id \in Live /\ Chosen.status = "active"
                                /\ Chosen.price = subs[Chosen.id].price
                                /\ Chosen.schedule = subs[Chosen.id].schedule
<1>1. LiveOf(acct.customer) \subseteq Live /\ (Own => LiveOf(acct.customer) = Live)
  BY DEF Own, LiveOf
<1> QED BY <1>1, ChosenOfFacts DEF Chosen

\* Nothing happens at Stripe.
LEMMA SubsRest ==
  ASSUME UNCHANGED subs
  PROVE  /\ Live' = Live /\ Born' = Born
         /\ acct'.customer = acct.customer =>
              Chosen' = Chosen /\ LiveOf(acct.customer)' = LiveOf(acct.customer)
         /\ \A s \in SubIds : Waiting(s)' <=> Waiting(s)
<1>1. Live' = Live /\ Born' = Born
  BY DEF Live, Born
<1>2. ASSUME acct'.customer = acct.customer
      PROVE  Chosen' = Chosen /\ LiveOf(acct.customer)' = LiveOf(acct.customer)
  BY <1>1, <1>2 DEF Chosen, ChosenOf, Snapshot, LiveOf, Listed
<1> QED BY <1>1, <1>2 DEF Waiting

\* A subscription that was paid for, or is being paid for, changes.
LEMMA StripeWritesFacts ==
  ASSUME SbSubs, NEW s \in SubIds, NEW new \in SubType, StripeWrites(s, new),
         subs[s].status # "none", new.status \in {"active", "canceled"}, new.price \in Price
  PROVE  /\ SbSubs' /\ subs'[s] = new /\ \A r \in SubIds \ {s} : subs'[r] = subs[r]
         /\ Born' = Born \cup {s} /\ owed' = TRUE /\ fresh' = {}
         /\ Live' = IF new.status = "active" THEN Live \cup {s} ELSE Live \ {s}
<1> DEFINE e == [id |-> s, status |-> new.status, price |-> new.price,
                 schedule |-> new.schedule, customer |-> new.customer]
<1>1. subs \in [SubIds -> SubType] /\ subs' = [subs EXCEPT ![s] = new]
      /\ events' = events \cup {e} /\ owed' = TRUE /\ fresh' = {}
  BY DEF SbSubs, StripeWrites
<1>2. subs' \in [SubIds -> SubType] /\ subs'[s] = new /\ \A r \in SubIds \ {s} : subs'[r] = subs[r]
  BY <1>1
<1>3. /\ Born' = Born \cup {s}
      /\ Live' = IF new.status = "active" THEN Live \cup {s} ELSE Live \ {s}
  BY <1>2 DEF Born, Live
<1>4. e \in SnapType /\ e.id \in Born' /\ e.price \in Price
  BY <1>3 DEF SnapType, SubType
<1>5. \A r \in SubIds : subs'[r].status # "none" => subs'[r].price \in Price
  BY <1>2 DEF SbSubs
<1>6. \A r \in SubIds \ Born' : subs'[r].schedule = Free /\ ~subs'[r].begun
  BY <1>2, <1>3 DEF SbSubs
<1> HIDE DEF e
<1>7. \A x \in events' : x \in SnapType /\ x.id \in Born' /\ x.price \in Price
  BY <1>1, <1>3, <1>4 DEF SbSubs
<1> QED BY <1>1, <1>2, <1>3, <1>5, <1>6, <1>7 DEF SbSubs

\* A checkout makes a subscription that is not paid for yet.
LEMMA DraftFacts ==
  ASSUME SbSubs, NEW s \in SubIds, NEW new \in SubType, subs[s].status = "none",
         subs' = [subs EXCEPT ![s] = new], new.status = "draft", new.price \in Price,
         new.schedule = Free, ~new.begun, UNCHANGED events
  PROVE  /\ SbSubs' /\ Live' = Live /\ Born' = Born
         /\ acct'.customer = acct.customer =>
              Chosen' = Chosen /\ LiveOf(acct.customer)' = LiveOf(acct.customer)
         /\ \A r \in Born : subs'[r] = subs[r]
         /\ \A r \in SubIds : Waiting(r)' <=> Waiting(r)
<1>1. subs \in [SubIds -> SubType]
  BY DEF SbSubs
<1>2. subs' \in [SubIds -> SubType] /\ subs'[s] = new /\ \A r \in SubIds \ {s} : subs'[r] = subs[r]
  BY <1>1
<1>3. Born' = Born /\ Live' = Live /\ s \notin Born /\ Live \subseteq Born /\ Born \subseteq SubIds
  BY <1>2 DEF Born, Live
<1>4. \A r \in Born : subs'[r] = subs[r] /\ Snapshot(r)' = Snapshot(r)
  BY <1>2, <1>3 DEF Snapshot
<1>5. ASSUME acct'.customer = acct.customer
      PROVE  Chosen' = Chosen /\ LiveOf(acct.customer)' = LiveOf(acct.customer)
  <2> DEFINE c == acct.customer
  <2>1. Listed(c)' = Listed(c)
    BY <1>3, <1>4, <1>5 DEF Listed
  <2>2. LiveOf(c)' = LiveOf(c) /\ LiveOf(c) \subseteq Born /\ Listed(c) \subseteq Born
    BY <1>3, <2>1 DEF LiveOf, Listed
  <2>3. LiveOf(c) # {} => Newest(LiveOf(c)) \in Born
    BY <1>3, <2>2, NewestIn
  <2>4. Listed(c) # {} => Newest(Listed(c)) \in Born
    BY <1>3, <2>2, NewestIn
  <2>5. Chosen = ChosenOf(c) /\ Chosen' = ChosenOf(c)'
    BY <1>5 DEF Chosen
  <2> HIDE DEF c
  <2> QED BY <1>4, <2>1, <2>2, <2>3, <2>4, <2>5 DEF ChosenOf, c
<1>6. \A r \in SubIds : subs'[r].status # "none" => subs'[r].price \in Price
  BY <1>2 DEF SbSubs
<1>7. \A r \in SubIds \ Born' : subs'[r].schedule = Free /\ ~subs'[r].begun
  BY <1>2, <1>3 DEF SbSubs
<1>8. \A r \in SubIds : Waiting(r)' <=> Waiting(r)
  <2> SUFFICES ASSUME NEW r \in SubIds PROVE Waiting(r)' <=> Waiting(r)
    OBVIOUS
  <2>1. CASE r = s
    BY <1>2, <1>3, <2>1 DEF Waiting, SbSubs
  <2>2. CASE r # s
    BY <1>2, <2>2 DEF Waiting
  <2> QED BY <2>1, <2>2
<1> QED BY <1>2, <1>3, <1>4, <1>5, <1>6, <1>7, <1>8 DEF SbSubs

-----------------------------------------------------------------------------
(* Requests move; the rest of the invariant stays.                          *)

\* A request goes to another step.
LEMMA RequestMoves ==
  ASSUME SbRequests, NEW q \in Procs, NEW step \in Steps, NEW l \in Local,
         pc' = [pc EXCEPT ![q] = step], loc' = [loc EXCEPT ![q] = l],
         Born \subseteq Born', Ready(step, l, Born')
  PROVE  /\ SbRequests' /\ pc'[q] = step /\ loc'[q] = l
         /\ \A r \in Procs \ {q} : pc'[r] = pc[r] /\ loc'[r] = loc[r]
<1>1. pc \in [Procs -> Steps] /\ loc \in [Procs -> Local]
  BY DEF SbRequests
<1>2. /\ pc' \in [Procs -> Steps] /\ loc' \in [Procs -> Local]
      /\ pc'[q] = step /\ loc'[q] = l
      /\ \A r \in Procs \ {q} : pc'[r] = pc[r] /\ loc'[r] = loc[r]
  BY <1>1
<1>3. ASSUME NEW r \in Procs PROVE Ready(pc'[r], loc'[r], Born')
  <2>1. CASE r = q
    BY <1>2, <2>1
  <2>2. CASE r # q
    <3>1. Ready(pc[r], loc[r], Born)
      BY DEF SbRequests
    <3>2. Ready(pc[r], loc[r], Born')
      BY <3>1 DEF Ready
    <3> QED BY <1>2, <2>2, <3>2
  <2> QED BY <2>1, <2>2
<1> QED BY <1>2, <1>3 DEF SbRequests

\* What is known of a request where it stands.
LEMMA RequestFacts ==
  ASSUME SbRequests, NEW q \in Procs
  PROVE  /\ pc[q] \in Steps /\ loc[q] \in Local /\ Ready(pc[q], loc[q], Born)
         /\ [loc EXCEPT ![q] = loc[q]] = loc
BY DEF SbRequests

\* A request that ends; one whose reconcile ends.
LEMMA EmptyReady ==
  /\ \A paid : Ready("idle", NoLocal, paid) /\ Ready("rc_read", NoLocal, paid)
  /\ "idle" \in Steps /\ ReconcileSteps \subseteq Steps /\ ChangeSteps \subseteq Steps
  /\ {"hook_get", "co_customer", "co_store", "co_session", "cl_cancel", "comp"} \subseteq Steps
BY EmptyFacts DEF Ready, Steps, ReconcileSteps, ChangeSteps

\* The data of a request that upgrades.
LEMMA UpgradeFacts ==
  LET l == [NoLocal EXCEPT !.upgrading = TRUE] IN
  /\ l \in Local /\ l.sub = NoSnapshot /\ l.target = Free /\ l.upgrading = TRUE
  /\ l.customer = NoCustomer
  /\ \A paid : Ready("up_clear", l, paid) /\ Ready("rc_read", l, paid)
<1> DEFINE l == [NoLocal EXCEPT !.upgrading = TRUE]
<1>1. l \in Local /\ l.sub = NoSnapshot /\ l.target = Free /\ l.upgrading = TRUE
      /\ l.customer = NoCustomer
  BY EmptyFacts DEF Local
<1> HIDE DEF l
<1>2. \A paid : Ready("up_clear", l, paid) /\ Ready("rc_read", l, paid)
  BY <1>1, EmptyFacts DEF Ready
<1> QED BY <1>1, <1>2 DEF l

\* The row as it was.
LEMMA RowStays ==
  ASSUME SbRow, UNCHANGED acct, Born \subseteq Born', blurred => blurred'
  PROVE  SbRow'
BY DEF SbRow, Comped

\* Nothing happens at Stripe: what is left to show of a step.
LEMMA QuietKeeps ==
  ASSUME SbBase, SbRow', ListAgrees', UNCHANGED subs, events' \subseteq events,
         NEW q \in Procs, NEW step \in Steps, NEW l \in Local,
         pc' = [pc EXCEPT ![q] = step], loc' = [loc EXCEPT ![q] = l], Ready(step, l, Born),
         fresh' \subseteq fresh \cup {q}, owed' \in BOOLEAN,
         acct'.customer = acct.customer \/ fresh' = {},
         q \in fresh' => step \in {"rc_write", "rc_after", "rc_clear"} /\ l.sub = Chosen,
         behind' \subseteq Procs,
         (Comped' /\ ~acct'.compOver) => \A r \in Procs : pc'[r] \in HasRead => r \in behind',
         blurred' \in BOOLEAN, ops' \in Nat, faults' \in Nat
  PROVE  SbBase'
<1>1. Live' = Live /\ Born' = Born /\ (acct'.customer = acct.customer => Chosen' = Chosen)
  BY SubsRest
<1>2. /\ SbRequests' /\ pc'[q] = step /\ loc'[q] = l
      /\ \A r \in Procs \ {q} : pc'[r] = pc[r] /\ loc'[r] = loc[r]
  BY <1>1, RequestMoves DEF SbBase
<1>3. SbSubs'
  BY <1>1 DEF SbBase, SbSubs
<1>4. SbFresh'
  <2>1. fresh' \subseteq Procs
    BY DEF SbBase, SbFresh
  <2>2. ASSUME NEW r \in fresh'
        PROVE  pc'[r] \in {"rc_write", "rc_after", "rc_clear"} /\ loc'[r].sub = Chosen
    <3>1. CASE r = q
      BY <1>2, <2>2, <3>1
    <3>2. CASE r # q
      <4>1. r \in fresh /\ r \in Procs
        BY <2>1, <2>2, <3>2
      <4>2. pc[r] \in {"rc_write", "rc_after", "rc_clear"} /\ loc[r].sub = Chosen
        BY <4>1 DEF SbBase, SbFresh
      <4> QED BY <1>2, <3>2, <4>1, <4>2
    <3> QED BY <3>1, <3>2
  <2> QED BY <1>1, <2>1, <2>2 DEF SbFresh
<1>5. SbBehind'
  BY DEF SbBehind
<1> QED BY <1>2, <1>3, <1>4, <1>5 DEF SbBase

\* Neither does the row change.
LEMMA MoveKeeps ==
  ASSUME SbBase, UNCHANGED <<acct, subs>>, events' \subseteq events,
         NEW q \in Procs, NEW step \in Steps, NEW l \in Local,
         pc' = [pc EXCEPT ![q] = step], loc' = [loc EXCEPT ![q] = l], Ready(step, l, Born),
         fresh' \subseteq fresh \cup {q}, UNCHANGED owed,
         q \in fresh' => step \in {"rc_write", "rc_after", "rc_clear"} /\ l.sub = Chosen,
         behind' \subseteq Procs, behind \subseteq behind' \cup {q},
         (Comped /\ ~acct.compOver /\ step \in HasRead) => q \in behind',
         blurred' \in BOOLEAN, blurred => blurred', ops' \in Nat, faults' \in Nat
  PROVE  SbBase'
<1>1. /\ Live' = Live /\ Born' = Born /\ Chosen' = Chosen
      /\ LiveOf(acct.customer)' = LiveOf(acct.customer)
  BY SubsRest
<1>2. SbRow'
  BY <1>1, RowStays DEF SbBase
<1>3. ListAgrees'
  BY <1>1 DEF SbBase, ListAgrees, Agrees, Comped
<1>4. owed' \in BOOLEAN
  BY DEF SbBase, SbFresh
<1>5. ASSUME Comped', ~acct'.compOver, NEW r \in Procs, pc'[r] \in HasRead
      PROVE  r \in behind'
  <2>1. Comped /\ ~acct.compOver
    BY <1>5 DEF Comped
  <2>2. CASE r = q
    BY <1>5, <2>1, <2>2 DEF SbBase, SbRequests
  <2>3. CASE r # q
    <3>1. pc'[r] = pc[r]
      BY <2>3 DEF SbBase, SbRequests
    <3>2. r \in behind
      BY <1>5, <2>1, <3>1 DEF SbBase, SbBehind
    <3> QED BY <2>3, <3>2
  <2> QED BY <2>2, <2>3
<1> QED BY <1>2, <1>3, <1>4, <1>5, QuietKeeps

\* A subscription changes at Stripe.
LEMMA StripeKeeps ==
  ASSUME SbBase, UNCHANGED <<acct, behind>>, NEW s \in SubIds, NEW new \in SubType,
         StripeWrites(s, new), subs[s].status # "none",
         new.status \in {"active", "canceled"}, new.price \in Price,
         SbRequests', \A r \in Procs : pc'[r] \in HasRead => pc'[r] = pc[r],
         blurred' \in BOOLEAN, blurred => blurred', ops' \in Nat, faults' \in Nat
  PROVE  SbBase'
<1>1. SbSubs' /\ Born' = Born \cup {s} /\ owed' = TRUE /\ fresh' = {}
  BY StripeWritesFacts DEF SbBase
<1>2. SbRow'
  BY <1>1, RowStays DEF SbBase
<1>3. SbFresh'
  BY <1>1 DEF SbFresh
<1>4. SbBehind'
  BY DEF SbBase, SbBehind, Comped
<1>5. ListAgrees'
  BY <1>1 DEF ListAgrees
<1> QED BY <1>1, <1>2, <1>3, <1>4, <1>5 DEF SbBase

-----------------------------------------------------------------------------
(* The row a request writes.                                                *)

\* resetAccountToFree, and a comp: the customer stays on file.
LEMMA ResetFacts ==
  ASSUME SbRow
  PROVE  /\ \A st \in {"none", "canceled"} :
              /\ ResetToFree(st) \in RowType /\ ResetToFree(st).plan = "free"
              /\ ResetToFree(st).sub = NoSub /\ ResetToFree(st).pending = Free
              /\ ResetToFree(st).status = st
              /\ ResetToFree(st).customer = acct.customer
         /\ \A plan \in PaidPlans :
              LET x == [NewAccount EXCEPT !.plan = plan, !.status = "comped",
                                          !.customer = acct.customer] IN
              /\ x \in RowType /\ x.plan = plan /\ x.sub = NoSub /\ x.pending = Free
              /\ x.status = "comped" /\ x.customer = acct.customer
<1> DEFINE c == acct.customer
<1>0. c \in AnyCustomer
  BY DEF SbRow, RowType
<1> HIDE DEF c
<1>1. ASSUME NEW st \in {"none", "canceled"}
      PROVE  LET x == [NewAccount EXCEPT !.status = st, !.customer = c] IN
             x \in RowType /\ x.plan = "free" /\ x.sub = NoSub /\ x.pending = Free
             /\ x.status = st /\ x.customer = c
  BY <1>0, EmptyFacts DEF RowType
<1>2. ASSUME NEW plan \in PaidPlans
      PROVE  LET x == [NewAccount EXCEPT !.plan = plan, !.status = "comped", !.customer = c] IN
             x \in RowType /\ x.plan = plan /\ x.sub = NoSub /\ x.pending = Free
             /\ x.status = "comped" /\ x.customer = c
  BY <1>0, EmptyFacts DEF RowType
<1> QED BY <1>1, <1>2 DEF ResetToFree, c

\* applyAccountSubscription.
LEMMA AppliedFacts ==
  ASSUME SbRow, NEW x \in SnapType, x.status = "active" => x.price \in Price
  PROVE  /\ Applied(x) \in RowType /\ Applied(x).sub = x.id
         /\ Applied(x).pending = acct.pending /\ Applied(x).customer = x.customer
         /\ x.status = "active" =>
              /\ Applied(x).status = "active"
              /\ Applied(x).plan = x.price.plan /\ Applied(x).interval = x.price.interval
         /\ x.status # "active" => Applied(x).status = "canceled" /\ Applied(x).plan = "free"
<1>1. acct \in RowType
  BY DEF SbRow
<1>2. CASE x.status = "active"
  <2>1. x.price.plan \in PaidPlans /\ x.price.interval \in {"month", "year"}
        /\ x.id \in SubIds \cup {NoSub} /\ x.customer \in AnyCustomer
    BY <1>2, StripeFacts DEF SnapType
  <2>2. Applied(x) = [acct EXCEPT !.plan = x.price.plan, !.interval = x.price.interval,
                                  !.status = "active", !.sub = x.id, !.compOver = FALSE,
                                  !.customer = x.customer]
    BY <1>2 DEF Applied
  <2> QED BY <1>1, <1>2, <2>1, <2>2 DEF RowType
<1>3. CASE x.status # "active"
  <2>1. x.id \in SubIds \cup {NoSub} /\ x.customer \in AnyCustomer
    BY DEF SnapType
  <2>2. Applied(x) = [acct EXCEPT !.plan = "free", !.interval = "none",
                                  !.status = "canceled", !.sub = x.id, !.compOver = FALSE,
                                  !.customer = x.customer]
    BY <1>3 DEF Applied
  <2> QED BY <1>1, <1>3, <2>1, <2>2 DEF RowType
<1> QED BY <1>2, <1>3

\* The row it leaves is in order.
LEMMA AppliedRow ==
  ASSUME SbBase, NEW x \in SnapType, x.status = "active" => x.price \in Price,
         x.id \in Born \/ (x.id = NoSub /\ x.status # "active"),
         acct' = Applied(x), UNCHANGED subs
  PROVE  SbRow'
<1>1. /\ acct' \in RowType /\ acct'.sub = x.id /\ acct'.status \in {"active", "canceled"}
      /\ acct'.status = "active" => x.status = "active" /\ acct'.plan = x.price.plan
  BY AppliedFacts DEF SbBase
<1>2. Born' = Born /\ NoSub \notin Born
  BY SubsRest, StripeFacts DEF Born
<1>3. acct'.status = "active" => acct'.plan # "free" /\ acct'.sub # NoSub
  BY <1>1, <1>2, StripeFacts
<1>4. acct'.sub \in Born' \cup {NoSub} /\ ~Comped'
  BY <1>1, <1>2 DEF Comped
<1> QED BY <1>1, <1>3, <1>4 DEF SbRow

\* A row reset to free is in order.
LEMMA ResetRow ==
  ASSUME SbRow, NEW st \in {"none", "canceled"}, acct' = ResetToFree(st)
  PROVE  /\ SbRow' /\ ~Comped' /\ acct'.plan = "free" /\ acct'.sub = NoSub
         /\ acct'.pending = Free /\ acct'.customer = acct.customer
<1>1. /\ acct'.customer = acct.customer /\ acct' \in RowType /\ acct'.status = st /\ acct'.sub = NoSub
      /\ acct'.plan = "free" /\ acct'.pending = Free
  BY ResetFacts
<1> QED BY <1>1 DEF SbRow, Comped

\* So is one whose markers were set or cleared.
LEMMA MarkedRow ==
  ASSUME SbBase, NEW p \in Price \cup {Free}, acct' = [acct EXCEPT !.pending = p],
         UNCHANGED subs, blurred => blurred', Comped => blurred' \/ p = Free
  PROVE  /\ SbRow' /\ acct'.pending = p /\ acct'.sub = acct.sub /\ acct'.plan = acct.plan
         /\ acct'.interval = acct.interval /\ acct'.status = acct.status
         /\ acct'.compOver = acct.compOver /\ (Comped' <=> Comped)
         /\ acct'.customer = acct.customer
<1>1. acct \in RowType
  BY DEF SbBase, SbRow
<1>2. /\ acct' \in RowType /\ acct'.pending = p /\ acct'.sub = acct.sub
      /\ acct'.plan = acct.plan /\ acct'.interval = acct.interval
      /\ acct'.status = acct.status /\ acct'.compOver = acct.compOver
      /\ acct'.customer = acct.customer
  BY <1>1 DEF RowType
<1>3. Comped' <=> Comped
  BY <1>2 DEF Comped
<1>4. Born' = Born
  BY SubsRest
<1>5. SbRow'
  BY <1>2, <1>3, <1>4 DEF SbBase, SbRow
<1> QED BY <1>2, <1>3, <1>5

\* Where a reconcile goes when it ends.
LEMMA AfterReconcileFacts ==
  ASSUME SbRequests, NEW q \in Procs, AfterReconcile(q)
  PROVE  \E step \in {"idle", "up_clear"}, l \in Local :
           /\ pc' = [pc EXCEPT ![q] = step] /\ loc' = [loc EXCEPT ![q] = l]
           /\ Ready(step, l, Born) /\ UNCHANGED <<ops, faults>>
           /\ step = "up_clear" <=> loc[q].upgrading
           /\ l.sub = NoSnapshot /\ l.customer = NoCustomer
<1>1. loc[q].upgrading \in BOOLEAN
  BY DEF SbRequests, Local
<1>2. CASE loc[q].upgrading
  <2> DEFINE l == [NoLocal EXCEPT !.upgrading = TRUE]
  <2>1. l \in Local /\ Ready("up_clear", l, Born) /\ l.sub = NoSnapshot
        /\ l.customer = NoCustomer
    BY UpgradeFacts
  <2>2. pc' = [pc EXCEPT ![q] = "up_clear"] /\ loc' = [loc EXCEPT ![q] = l]
        /\ UNCHANGED <<ops, faults>>
    BY <1>2 DEF AfterReconcile, Goto
  <2> HIDE DEF l
  <2> QED BY <1>2, <2>1, <2>2
<1>3. CASE ~loc[q].upgrading
  <2>1. pc' = [pc EXCEPT ![q] = "idle"] /\ loc' = [loc EXCEPT ![q] = NoLocal]
        /\ UNCHANGED <<ops, faults>>
    BY <1>3 DEF AfterReconcile, Return, Goto
  <2> QED BY <1>3, <2>1, EmptyReady, EmptyFacts
<1> QED BY <1>1, <1>2, <1>3

-----------------------------------------------------------------------------
(* Every action keeps all but what is said with nothing blurred.  Requests  *)
(* begin.                                                                   *)

\* A request begins.
LEMMA BeginKeeps ==
  ASSUME SbBase, NEW q \in Procs, NEW step \in Steps \ HasRead, NEW l \in Local,
         Begin(q, step, l), Ready(step, l, Born)
  PROVE  SbBase' /\ (blurred => blurred')
<1>1. /\ pc[q] = "idle" /\ pc' = [pc EXCEPT ![q] = step] /\ loc' = [loc EXCEPT ![q] = l]
      /\ ops' = ops + 1 /\ UNCHANGED <<acct, subs, events, faults, owed, fresh, behind>>
      /\ blurred' = (blurred \/ (step \in ChangeSteps \cup {"cl_cancel", "co_session"}
                                 /\ Changing \cup Comping # {}))
  BY DEF Begin
<1>2. q \notin fresh
  BY <1>1 DEF SbBase, SbFresh
<1>3. /\ blurred' \in BOOLEAN /\ (blurred => blurred') /\ behind' \subseteq Procs
      /\ ops' \in Nat /\ faults' \in Nat
  BY <1>1 DEF SbBase, SbBehind
<1> QED BY <1>1, <1>2, <1>3, MoveKeeps

\* Requests that begin about what the row says.
LEMMA AboutReady ==
  ASSUME SbBase
  PROVE  /\ About(acct.sub) \in Local
         /\ \A step \in {"cs_clear", "comp"} : Ready(step, About(acct.sub), Born)
         /\ acct.sub # NoSub =>
              \A step \in {"cs_get", "ca_get", "resume", "cl_cancel"} :
                Ready(step, About(acct.sub), Born)
<1>1. acct.sub \in SubIds \cup {NoSub} /\ acct.sub \in Born \cup {NoSub}
  BY DEF SbBase, SbRow, RowType
<1> QED BY <1>1, AboutFacts DEF Ready

\* A checkout begins for the customer on file, or makes one first.
LEMMA CheckoutBegins ==
  ASSUME SbRow, NEW q \in Procs, CreateCheckout(q)
  PROVE  \E step \in {"co_customer", "co_session"}, l \in Local :
           /\ Begin(q, step, l) /\ l.sub = NoSnapshot /\ l.upgrading = FALSE
           /\ l.target \in Price /\ l.customer = acct.customer
           /\ step = "co_session" => l.customer # NoCustomer
<1> DEFINE c == acct.customer
           step == IF c = NoCustomer THEN "co_customer" ELSE "co_session"
<1>1. PICK p \in Prices : Begin(q, step, [NoLocal EXCEPT !.target = p, !.customer = c])
  BY DEF CreateCheckout
<1>2. p \in Price /\ c \in AnyCustomer /\ step \in {"co_customer", "co_session"}
      /\ (step = "co_session" => c # NoCustomer)
  BY StripeFacts DEF SbRow, RowType
<1>3. c = acct.customer
  OBVIOUS
<1> HIDE DEF c, step
<1> DEFINE m == NoLocal
           l == [m EXCEPT !.target = p, !.customer = c]
<1>4. m \in Local /\ m.sub = NoSnapshot /\ m.upgrading = FALSE
  BY EmptyFacts
<1>5. Begin(q, step, l)
  BY <1>1
<1> HIDE DEF m
<1>6. l \in Local /\ l.sub = m.sub /\ l.upgrading = m.upgrading /\ l.target = p /\ l.customer = c
  BY <1>2, <1>4 DEF Local
<1> HIDE DEF l
<1> QED BY <1>2, <1>3, <1>4, <1>5, <1>6

\* Status polls, checkouts, webhooks, cancellations and comps begin.
LEMMA BeginsKeep ==
  ASSUME SbBase, NEW q \in Procs,
         \/ BillingStatus(q) \/ SessionCompleted(q) \/ CreateCheckout(q)
         \/ CancelScheduledChange(q) \/ CancelSubscription(q) \/ ResumeSubscription(q)
         \/ GrantComp(q)
  PROVE  SbBase' /\ (blurred => blurred')
<1>1. CASE BillingStatus(q)
  BY <1>1, BeginKeeps, EmptyFacts, EmptyReady DEF BillingStatus, Steps, ReconcileSteps, HasRead
<1>2. CASE SessionCompleted(q)
  <2>1. PICK s \in Live : Begin(q, "hook_get", [About(s) EXCEPT !.sub = Snapshot(s)])
    BY <1>2 DEF SessionCompleted
  <2>2. s \in Born /\ s \in SubIds /\ s # NoSub
    BY StripeFacts DEF Live, Born
  <2>3. About(s) \in Local /\ About(s).upgrading = FALSE /\ Snapshot(s) \in SnapType
        /\ Snapshot(s).id = s /\ Snapshot(s).price \in Price
    BY <2>2, AboutFacts, SnapshotFacts DEF SbBase
  <2> DEFINE m == About(s)
             x == Snapshot(s)
             l == [m EXCEPT !.sub = x]
  <2> HIDE DEF m, x
  <2>4. l \in Local /\ l.sub = x /\ l.upgrading = FALSE
    BY <2>3, KnowMore DEF m, x
  <2>5. Begin(q, "hook_get", l)
    BY <2>1 DEF m, x
  <2> HIDE DEF l
  <2>6. Ready("hook_get", l, Born)
    BY <2>2, <2>3, <2>4 DEF Ready, x
  <2> QED BY <2>4, <2>5, <2>6, BeginKeeps DEF Steps, HasRead
<1>3. CASE CreateCheckout(q)
  <2>1. PICK step \in {"co_customer", "co_session"}, l \in Local :
          /\ Begin(q, step, l) /\ l.sub = NoSnapshot /\ l.upgrading = FALSE
          /\ l.target \in Price
    BY <1>3, CheckoutBegins DEF SbBase
  <2>2. Ready(step, l, Born)
    BY <2>1, EmptyFacts DEF Ready
  <2> QED BY <2>1, <2>2, BeginKeeps DEF Steps, HasRead
<1>4. CASE CancelScheduledChange(q)
  BY <1>4, BeginKeeps, AboutReady DEF CancelScheduledChange, Steps, ChangeSteps, HasRead
<1>5. CASE CancelSubscription(q)
  BY <1>5, BeginKeeps, AboutReady DEF CancelSubscription, Steps, ChangeSteps, HasRead
<1>6. CASE ResumeSubscription(q)
  BY <1>6, BeginKeeps, AboutReady DEF ResumeSubscription, Steps, ChangeSteps, HasRead
<1>7. CASE GrantComp(q)
  BY <1>7, BeginKeeps, AboutReady DEF GrantComp, Steps, HasRead
<1> QED BY <1>1, <1>2, <1>3, <1>4, <1>5, <1>6, <1>7

\* A change of the plan begins.
LEMMA ApplyPlanChangeKeeps ==
  ASSUME SbBase, NEW q \in Procs, ApplyPlanChange(q)
  PROVE  /\ SbBase' /\ (blurred => blurred')
         /\ \E l \in Local : /\ Begin(q, "ch_get", l) /\ l.sub.id = acct.sub
                            /\ l.sub.status = "none" /\ l.customer = NoCustomer
<1>1. PICK target \in Prices :
        /\ acct.sub # NoSub
        /\ Begin(q, "ch_get",
             [About(acct.sub) EXCEPT
                !.target = target,
                !.upgrading = Direction(acct.plan, acct.interval, target) = "upgrade"])
  BY DEF ApplyPlanChange
<1> DEFINE b == Direction(acct.plan, acct.interval, target) = "upgrade"
           l == Asks(acct.sub, target, b)
<1>2. target \in Price /\ b \in BOOLEAN /\ acct.sub \in Born
  BY <1>1, StripeFacts DEF SbBase, SbRow
<1>3. Begin(q, "ch_get", l)
  BY <1>1 DEF Asks
<1> HIDE DEF b
<1>4. acct.sub \in SubIds \cup {NoSub}
  BY DEF SbBase, SbRow, RowType
<1>5. /\ l \in Local /\ l.sub.id = acct.sub /\ l.sub.status = "none" /\ l.target = target
      /\ l.customer = NoCustomer
  BY <1>2, <1>4, AskFacts
<1> HIDE DEF l
<1>6. Ready("ch_get", l, Born)
  BY <1>1, <1>2, <1>5 DEF Ready
<1> QED BY <1>3, <1>5, <1>6, BeginKeeps DEF Steps, ChangeSteps, HasRead

-----------------------------------------------------------------------------
(* Reconciles and webhooks.                                                 *)

\* A request that only goes on is ready for steps that ask for nothing.
LEMMA GoesOn ==
  ASSUME SbBase, NEW q \in Procs
  PROVE  /\ pc[q] \in Steps /\ loc[q] \in Local /\ [loc EXCEPT ![q] = loc[q]] = loc
         /\ [pc EXCEPT ![q] = pc[q]] = pc
         /\ Ready(pc[q], loc[q], Born)
         /\ \A step \in ReconcileSteps : Ready(step, loc[q], Born)
         /\ \A step \in ReconcileSteps : \A p \in Price \cup {Free} :
              Ready(step, [loc[q] EXCEPT !.target = p], Born)
         /\ q \in fresh => pc[q] \in {"rc_write", "rc_after", "rc_clear"} /\ loc[q].sub = Chosen
         /\ SbRequests
<1>1. pc[q] \in Steps /\ loc[q] \in Local /\ Ready(pc[q], loc[q], Born) /\ SbRequests
      /\ [loc EXCEPT ![q] = loc[q]] = loc /\ [pc EXCEPT ![q] = pc[q]] = pc
  BY DEF SbBase, SbRequests
<1>2. \A step \in ReconcileSteps : Ready(step, loc[q], Born)
  BY <1>1 DEF Ready, ReconcileSteps
<1>3. ASSUME NEW step \in ReconcileSteps, NEW p \in Price \cup {Free}
      PROVE  Ready(step, [loc[q] EXCEPT !.target = p], Born)
  <2> DEFINE m == loc[q]
             l == [m EXCEPT !.target = p]
  <2>1. m \in Local /\ Ready(step, m, Born)
    BY <1>1, <1>2
  <2> HIDE DEF m
  <2>2. l.sub = m.sub /\ l.upgrading = m.upgrading
    BY <2>1 DEF Local
  <2> HIDE DEF l
  <2>3. Ready(step, l, Born)
    BY <2>1, <2>2 DEF Ready, ReconcileSteps
  <2> QED BY <2>3 DEF l, m
<1> QED BY <1>1, <1>2, <1>3 DEF SbBase, SbFresh

\* Where a reconcile goes that does not end when it has read the row.
LEMMA RcReadGoes ==
  ASSUME SbBase, NEW q \in Procs, RcRead(q), ~AfterReconcile(q)
  PROVE  \E step \in {"rc_list", "rc_expire"}, l \in Local :
           /\ pc' = [pc EXCEPT ![q] = step] /\ loc' = [loc EXCEPT ![q] = l]
           /\ Ready(step, l, Born) /\ UNCHANGED <<ops, faults>>
           /\ ~Comped \/ acct.compOver
           /\ l.sub = loc[q].sub /\ l.upgrading = loc[q].upgrading
           /\ step = "rc_expire" => l = loc[q]
           /\ step = "rc_list" => l.customer = acct.customer /\ l.customer # NoCustomer
<1>1. CASE Comped
  <2>1. /\ pc' = [pc EXCEPT ![q] = "rc_expire"] /\ loc' = [loc EXCEPT ![q] = loc[q]]
        /\ UNCHANGED <<ops, faults>> /\ acct.compOver
    BY <1>1 DEF RcRead, Step, Goto
  <2>2. loc[q] \in Local /\ Ready("rc_expire", loc[q], Born)
    BY GoesOn DEF ReconcileSteps
  <2> QED BY <2>1, <2>2
<1>2. CASE ~Comped
  <2> DEFINE m == loc[q]
             c == acct.customer
             l == [m EXCEPT !.customer = c]
  <2>1. /\ pc' = [pc EXCEPT ![q] = "rc_list"] /\ loc' = [loc EXCEPT ![q] = l]
        /\ UNCHANGED <<ops, faults>> /\ c # NoCustomer
    BY <1>2 DEF RcRead, Goto
  <2>2. m \in Local /\ c \in AnyCustomer /\ Ready("rc_list", m, Born) /\ c = acct.customer
        /\ m = loc[q]
    BY GoesOn DEF ReconcileSteps, SbBase, SbRow, RowType
  <2> HIDE DEF m, c
  <2>3. l \in Local /\ l.sub = m.sub /\ l.upgrading = m.upgrading /\ l.customer = c
    BY <2>2, KnowMore
  <2> HIDE DEF l
  <2>4. Ready("rc_list", l, Born)
    BY <2>2, <2>3 DEF Ready
  <2> QED BY <1>2, <2>1, <2>2, <2>3, <2>4
<1> QED BY <1>1, <1>2

\* A reconcile reads the row.
LEMMA RcReadKeeps ==
  ASSUME SbBase, NEW q \in Procs, RcRead(q)
  PROVE  SbBase' /\ (blurred => blurred')
<1>1. /\ pc[q] = "rc_read" /\ behind' = behind \ {q}
      /\ UNCHANGED <<acct, subs, events, owed, fresh, blurred>>
  BY DEF RcRead
<1>2. /\ q \notin fresh /\ behind' \subseteq Procs /\ blurred' \in BOOLEAN
      /\ ops \in Nat /\ faults \in Nat
  BY <1>1, GoesOn DEF SbBase, SbBehind
<1>3. CASE AfterReconcile(q)
  <2>1. PICK step \in {"idle", "up_clear"}, l \in Local :
          /\ pc' = [pc EXCEPT ![q] = step] /\ loc' = [loc EXCEPT ![q] = l]
          /\ Ready(step, l, Born) /\ UNCHANGED <<ops, faults>>
    BY <1>3, GoesOn, AfterReconcileFacts
  <2>2. step \in Steps /\ step \notin HasRead
    BY DEF Steps, ChangeSteps, HasRead
  <2> QED BY <1>1, <1>2, <2>1, <2>2, MoveKeeps
<1>4. CASE ~AfterReconcile(q)
  <2>1. PICK step \in {"rc_list", "rc_expire"}, l \in Local :
          /\ pc' = [pc EXCEPT ![q] = step] /\ loc' = [loc EXCEPT ![q] = l]
          /\ Ready(step, l, Born) /\ UNCHANGED <<ops, faults>>
          /\ ~Comped \/ acct.compOver
    BY <1>4, RcReadGoes
  <2>2. step \in Steps
    BY DEF Steps, ReconcileSteps
  <2> QED BY <1>1, <1>2, <2>1, <2>2, MoveKeeps
<1> QED BY <1>3, <1>4

\* The comp has run out.
LEMMA RcExpireKeeps ==
  ASSUME SbBase, NEW q \in Procs, RcExpire(q)
  PROVE  SbBase' /\ (blurred => blurred')
<1>1. /\ pc[q] = "rc_expire" /\ acct' = ResetToFree("none") /\ owed' = TRUE
      /\ blurred' = (blurred \/ Changing # {} \/ ~Comped) /\ behind' = behind \ {q}
      /\ AfterReconcile(q) /\ UNCHANGED <<subs, events, fresh>>
  BY DEF RcExpire
<1>2. PICK step \in {"idle", "up_clear"}, l \in Local :
        /\ pc' = [pc EXCEPT ![q] = step] /\ loc' = [loc EXCEPT ![q] = l]
        /\ Ready(step, l, Born) /\ UNCHANGED <<ops, faults>>
  BY <1>1, GoesOn, AfterReconcileFacts
<1>3. SbRow' /\ ~Comped' /\ acct'.customer = acct.customer
  BY <1>1, ResetRow DEF SbBase
<1>4. ListAgrees' /\ q \notin fresh /\ step \in Steps
  BY <1>1, GoesOn DEF ListAgrees, Steps, ChangeSteps
<1>5. behind' \subseteq Procs /\ blurred' \in BOOLEAN /\ ops' \in Nat /\ faults' \in Nat
  BY <1>1, <1>2 DEF SbBase, SbBehind
<1> QED BY <1>1, <1>2, <1>3, <1>4, <1>5, QuietKeeps

\* Stripe lists the subscriptions.
LEMMA RcListKeeps ==
  ASSUME SbBase, NEW q \in Procs, RcList(q)
  PROVE  SbBase' /\ (blurred => blurred')
<1> DEFINE x == ChosenOf(loc[q].customer)
           l == [loc[q] EXCEPT !.sub = x]
<1>1. /\ pc[q] = "rc_list" /\ fresh' \subseteq fresh \cup {q} /\ q \notin fresh
      /\ q \in fresh' => loc[q].customer = acct.customer
      /\ UNCHANGED <<acct, subs, events, owed, behind, blurred, ops, faults>>
      /\ pc' = [pc EXCEPT ![q] = "rc_write"] /\ loc' = [loc EXCEPT ![q] = l]
  BY GoesOn DEF RcList, Goto
<1>2. /\ loc[q] \in Local /\ x \in SnapType /\ x.id \in Born \cup {NoSub}
      /\ x.status = "active" => x.price \in Price /\ x.id # NoSub
      /\ q \in fresh' => x = Chosen
  BY <1>1, GoesOn, ChosenOfFacts DEF SbBase, Chosen
<1> HIDE DEF x
<1>3. l \in Local /\ l.sub = x /\ l.upgrading = loc[q].upgrading
  BY <1>2, KnowMore
<1> HIDE DEF l
<1>4. Ready("rc_write", l, Born)
  BY <1>2, <1>3 DEF Ready
<1>5. (Comped /\ ~acct.compOver) => q \in behind'
  BY <1>1 DEF SbBase, SbBehind, HasRead
<1>6. "rc_write" \in Steps /\ behind' \subseteq Procs /\ blurred' \in BOOLEAN
      /\ ops' \in Nat /\ faults' \in Nat
  BY <1>1 DEF Steps, ReconcileSteps, SbBase, SbBehind
<1> QED BY <1>1, <1>2, <1>3, <1>4, <1>5, <1>6, MoveKeeps

\* The row a reconcile writes, and that it agrees with Stripe if the list was fresh.
LEMMA RcWriteRow ==
  ASSUME SbBase, NEW q \in Procs, RcWrite(q)
  PROVE  /\ SbRow' /\ ListAgrees' /\ ~Comped'
         /\ loc[q].sub.status = "active" =>
              acct'.sub = loc[q].sub.id /\ acct'.pending = acct.pending
              /\ acct'.plan = loc[q].sub.price.plan
         /\ \/ acct'.customer = acct.customer
            \/ acct'.customer = loc[q].sub.customer /\ loc[q].sub.id # NoSub
         /\ q \in fresh => acct'.customer = acct.customer
<1> DEFINE sub == loc[q].sub
<1>1. /\ pc[q] = "rc_write" /\ owed' = (q \notin fresh) /\ UNCHANGED subs
      /\ acct' = IF sub.id = NoSub THEN ResetToFree("none")
                 ELSE IF sub.status = "canceled" THEN ResetToFree("canceled")
                 ELSE Applied(sub)
  BY DEF RcWrite
<1>2. /\ sub \in SnapType /\ sub.id \in Born \cup {NoSub}
      /\ sub.status = "active" => sub.price \in Price /\ sub.id # NoSub
      /\ q \in fresh => sub = Chosen
  BY GoesOn, KnowMore DEF Ready
<1> HIDE DEF sub
<1> DEFINE mine == LiveOf(acct.customer)
<1>3. (acct'.customer = acct.customer => mine' = mine) /\ mine = LiveOf(acct.customer)
  BY <1>1, SubsRest
<1>0. /\ Chosen = ChosenOf(acct.customer)
      /\ Chosen.id # NoSub => Chosen.customer = acct.customer
  BY ChosenFacts DEF Chosen, SbBase
<1> HIDE DEF mine
<1>4. CASE sub.id = NoSub \/ sub.status = "canceled"
  <2>1. PICK st \in {"none", "canceled"} : acct' = ResetToFree(st)
    BY <1>1, <1>4
  <2>2. /\ SbRow' /\ ~Comped' /\ acct'.plan = "free" /\ acct'.sub = NoSub
        /\ acct'.customer = acct.customer
    BY <2>1, ResetRow DEF SbBase
  <2>3. q \in fresh => mine = {}
    BY <1>0, <1>2, <1>3, <1>4, ChosenOfFacts DEF SbBase
  <2>4. ListAgrees'
    BY <1>1, <1>3, <2>2, <2>3 DEF ListAgrees, Agrees, mine
  <2>5. sub.status # "active"
    BY <1>2, <1>4
  <2> QED BY <2>2, <2>3, <2>4, <2>5 DEF sub
<1>5. CASE sub.id # NoSub /\ sub.status # "canceled"
  <2>1. acct' = Applied(sub) /\ sub.id \in Born
    BY <1>1, <1>2, <1>5
  <2>2. SbRow'
    BY <1>1, <1>2, <2>1, AppliedRow
  <2>3. /\ acct'.sub = sub.id /\ acct'.status \in {"active", "canceled"}
        /\ acct'.pending = acct.pending /\ acct'.customer = sub.customer
        /\ sub.status = "active" =>
             acct'.plan = sub.price.plan /\ acct'.interval = sub.price.interval
    BY <1>2, <2>1, AppliedFacts DEF SbBase
  <2>4. ~Comped'
    BY <2>3 DEF Comped
  <2>5. q \in fresh => /\ sub.status = "active" /\ sub.id \in mine
                       /\ sub.price = subs[sub.id].price /\ sub.customer = acct.customer
    <3>1. q \in fresh => mine # {}
      BY <1>0, <1>2, <1>3, <1>5, ChosenOfFacts DEF SbBase
    <3> QED BY <1>0, <1>2, <1>3, <1>5, <3>1, ChosenOfFacts DEF SbBase
  <2>6. ASSUME q \in fresh PROVE Agrees'
    <3>1. sub.price \in Price
      BY <1>2, <2>5, <2>6
    <3>2. [plan |-> sub.price.plan, interval |-> sub.price.interval] = sub.price
      BY <3>1 DEF Price
    <3>3. subs'[sub.id] = subs[sub.id]
      BY <1>1
    <3>4. mine' = mine
      BY <1>3, <2>3, <2>5, <2>6
    <3> QED BY <2>3, <2>4, <2>5, <2>6, <3>2, <3>3, <3>4 DEF Agrees, mine
  <2>7. ListAgrees'
    BY <1>1, <2>6 DEF ListAgrees
  <2> QED BY <1>5, <2>2, <2>3, <2>4, <2>5, <2>7 DEF sub
<1> QED BY <1>4, <1>5

\* A reconcile writes.
LEMMA RcWriteKeeps ==
  ASSUME SbBase, NEW q \in Procs, RcWrite(q)
  PROVE  SbBase' /\ (blurred => blurred')
<1>1. /\ pc[q] = "rc_write" /\ owed' = (q \notin fresh) /\ UNCHANGED <<subs, events>>
      /\ IF loc[q].sub.id = NoSub THEN AfterReconcile(q) /\ fresh' = fresh \ {q}
         ELSE Step(q, "rc_after") /\ Relisted(fresh)
      /\ blurred' = (blurred \/ Comping # {} \/ q \notin fresh) /\ behind' = behind \ {q}
  BY DEF RcWrite
<1>2. SbRow' /\ ListAgrees' /\ ~Comped' /\ (loc[q].sub.id = NoSub => acct'.customer = acct.customer)
  BY RcWriteRow
<1>3. behind' \subseteq Procs /\ blurred' \in BOOLEAN /\ ops \in Nat /\ faults \in Nat
      /\ owed' \in BOOLEAN
  BY <1>1 DEF SbBase, SbBehind
<1>4. CASE loc[q].sub.id = NoSub
  <2>1. PICK step \in {"idle", "up_clear"}, l \in Local :
          /\ pc' = [pc EXCEPT ![q] = step] /\ loc' = [loc EXCEPT ![q] = l]
          /\ Ready(step, l, Born) /\ UNCHANGED <<ops, faults>>
    BY <1>1, <1>4, GoesOn, AfterReconcileFacts
  <2>2. step \in Steps /\ fresh' = fresh \ {q} /\ acct'.customer = acct.customer
    BY <1>1, <1>2, <1>4 DEF Steps, ChangeSteps
  <2> QED BY <1>1, <1>2, <1>3, <2>1, <2>2, QuietKeeps
<1>5. CASE loc[q].sub.id # NoSub
  <2>1. /\ pc' = [pc EXCEPT ![q] = "rc_after"] /\ loc' = [loc EXCEPT ![q] = loc[q]]
        /\ UNCHANGED <<ops, faults>> /\ fresh' \subseteq fresh
        /\ acct'.customer = acct.customer \/ fresh' = {}
    BY <1>1, <1>5 DEF Step, Goto, Relisted
  <2>2. "rc_after" \in Steps /\ Ready("rc_after", loc[q], Born) /\ loc[q] \in Local
        /\ (q \in fresh => loc[q].sub = Chosen)
    BY GoesOn DEF Steps, ReconcileSteps
  <2> QED BY <1>1, <1>2, <1>3, <2>1, <2>2, QuietKeeps
<1> QED BY <1>4, <1>5

\* A reconcile looks at the markers once more.
LEMMA RcAfterKeeps ==
  ASSUME SbBase, NEW q \in Procs, RcAfter(q)
  PROVE  SbBase' /\ (blurred => blurred')
<1>1. /\ pc[q] = "rc_after" /\ blurred' = (blurred \/ q \notin fresh)
      /\ UNCHANGED <<acct, subs, events, owed, behind>>
      /\ IF TakenEffect(loc[q].sub)
         THEN Goto(q, "rc_clear", [loc[q] EXCEPT !.target = acct.pending]) /\ UNCHANGED fresh
         ELSE AfterReconcile(q) /\ fresh' = fresh \ {q}
  BY DEF RcAfter
<1>2. behind' \subseteq Procs /\ blurred' \in BOOLEAN /\ ops \in Nat /\ faults \in Nat
  BY <1>1 DEF SbBase, SbBehind
<1>3. CASE TakenEffect(loc[q].sub)
  <2> DEFINE l == [loc[q] EXCEPT !.target = acct.pending]
  <2>1. /\ pc' = [pc EXCEPT ![q] = "rc_clear"] /\ loc' = [loc EXCEPT ![q] = l]
        /\ UNCHANGED <<ops, faults, fresh>>
    BY <1>1, <1>3 DEF Goto
  <2>2. acct.pending \in Price \cup {Free} /\ loc[q] \in Local
    BY GoesOn DEF SbBase, SbRow, RowType
  <2>3. l \in Local /\ l.sub = loc[q].sub
    BY <2>2, KnowMore
  <2>4. Ready("rc_clear", l, Born)
    BY <2>2, GoesOn DEF ReconcileSteps
  <2> HIDE DEF l
  <2>5. "rc_clear" \in Steps /\ "rc_clear" \notin HasRead /\ (q \in fresh => l.sub = Chosen)
    BY <2>3, GoesOn DEF Steps, ReconcileSteps, HasRead
  <2> QED BY <1>1, <1>2, <2>1, <2>3, <2>4, <2>5, MoveKeeps
<1>4. CASE ~TakenEffect(loc[q].sub)
  <2>1. PICK step \in {"idle", "up_clear"}, l \in Local :
          /\ pc' = [pc EXCEPT ![q] = step] /\ loc' = [loc EXCEPT ![q] = l]
          /\ Ready(step, l, Born) /\ UNCHANGED <<ops, faults>>
    BY <1>1, <1>4, GoesOn, AfterReconcileFacts
  <2>2. step \in Steps /\ step \notin HasRead /\ fresh' = fresh \ {q}
    BY <1>1, <1>4 DEF Steps, ChangeSteps, HasRead
  <2> QED BY <1>1, <1>2, <2>1, <2>2, MoveKeeps
<1> QED BY <1>3, <1>4

\* Clearing or setting the markers leaves what Stripe agrees with.
LEMMA MarkedAgrees ==
  ASSUME SbBase, NEW p \in Price \cup {Free}, acct' = [acct EXCEPT !.pending = p],
         UNCHANGED <<subs, owed>>, blurred => blurred', Comped => blurred' \/ p = Free,
         behind \subseteq behind', \A r \in Procs : pc'[r] \in HasRead => pc'[r] = pc[r]
  PROVE  /\ SbRow' /\ ListAgrees' /\ acct'.customer = acct.customer
         /\ (Comped' /\ ~acct'.compOver) => \A r \in Procs : pc'[r] \in HasRead => r \in behind'
<1>1. /\ SbRow' /\ acct'.pending = p /\ acct'.sub = acct.sub /\ acct'.plan = acct.plan
      /\ acct'.interval = acct.interval /\ acct'.status = acct.status
      /\ acct'.compOver = acct.compOver /\ (Comped' <=> Comped)
      /\ acct'.customer = acct.customer
  BY MarkedRow
<1>2. LiveOf(acct.customer)' = LiveOf(acct.customer)
  BY <1>1, SubsRest
<1>3. ListAgrees'
  BY <1>1, <1>2 DEF SbBase, ListAgrees, Agrees
<1>4. (Comped' /\ ~acct'.compOver) => \A r \in Procs : pc'[r] \in HasRead => r \in behind'
  BY <1>1 DEF SbBase, SbBehind
<1> QED BY <1>1, <1>3, <1>4

\* It clears them.
LEMMA RcClearKeeps ==
  ASSUME SbBase, NEW q \in Procs, RcClear(q)
  PROVE  SbBase' /\ (blurred => blurred')
<1>1. /\ pc[q] = "rc_clear" /\ acct' = [acct EXCEPT !.pending = Free]
      /\ blurred' = (blurred \/ q \notin fresh \/ acct.pending # loc[q].target
                          \/ acct.pending.plan = loc[q].sub.price.plan)
      /\ AfterReconcile(q) /\ fresh' = fresh \ {q}
      /\ UNCHANGED <<subs, events, owed, behind>>
  BY DEF RcClear, ClearPending
<1>2. PICK step \in {"idle", "up_clear"}, l \in Local :
        /\ pc' = [pc EXCEPT ![q] = step] /\ loc' = [loc EXCEPT ![q] = l]
        /\ Ready(step, l, Born) /\ UNCHANGED <<ops, faults>>
  BY <1>1, GoesOn, AfterReconcileFacts
<1>3. step \in Steps /\ step \notin HasRead
  BY DEF Steps, ChangeSteps, HasRead
<1>4. \A r \in Procs : pc'[r] \in HasRead => pc'[r] = pc[r]
  BY <1>2, <1>3 DEF SbBase, SbRequests
<1>5. blurred' \in BOOLEAN /\ (blurred => blurred')
  BY <1>1 DEF SbBase
<1>6. behind' \subseteq Procs /\ ops' \in Nat /\ faults' \in Nat /\ owed' \in BOOLEAN
  BY <1>1, <1>2 DEF SbBase, SbBehind, SbFresh
<1>7. /\ SbRow' /\ ListAgrees' /\ acct'.customer = acct.customer
      /\ (Comped' /\ ~acct'.compOver) => \A r \in Procs : pc'[r] \in HasRead => r \in behind'
  BY <1>1, <1>4, <1>5, MarkedAgrees
<1> QED BY <1>1, <1>2, <1>3, <1>5, <1>6, <1>7, QuietKeeps

\* An event arrives.
LEMMA DeliverEventKeeps ==
  ASSUME SbBase, NEW q \in Procs, DeliverEvent(q)
  PROVE  SbBase' /\ (blurred => blurred')
<1>1. PICK e \in events :
        /\ acct' = Applied(e) /\ events' = events \ {e} /\ owed' = TRUE
        /\ blurred' = (blurred \/ Comping # {} \/ e # Chosen)
        /\ UNCHANGED <<subs, pc, loc, ops, faults, behind>> /\ Relisted(fresh)
  BY DEF DeliverEvent
<1>2. e \in SnapType /\ e.id \in Born /\ e.price \in Price
  BY DEF SbBase, SbSubs
<1>3. SbRow' /\ ~Comped'
  <2>1. SbRow'
    BY <1>1, <1>2, AppliedRow
  <2>2. acct'.status \in {"active", "canceled"}
    BY <1>1, <1>2, AppliedFacts DEF SbBase
  <2> QED BY <2>1, <2>2 DEF Comped
<1>4. /\ ListAgrees' /\ behind' \subseteq Procs /\ blurred' \in BOOLEAN
      /\ ops' \in Nat /\ faults' \in Nat /\ fresh' \subseteq fresh
      /\ acct'.customer = acct.customer \/ fresh' = {}
  BY <1>1 DEF ListAgrees, SbBase, SbBehind, Relisted
<1>5. /\ pc[q] \in Steps /\ loc[q] \in Local /\ Ready(pc[q], loc[q], Born)
      /\ pc' = [pc EXCEPT ![q] = pc[q]] /\ loc' = [loc EXCEPT ![q] = loc[q]]
      /\ q \in fresh => pc[q] \in {"rc_write", "rc_after", "rc_clear"} /\ loc[q].sub = Chosen
  BY <1>1, GoesOn
<1> QED BY <1>1, <1>3, <1>4, <1>5, QuietKeeps

\* What was fetched for a finished checkout is written.
LEMMA HookApplyKeeps ==
  ASSUME SbBase, NEW q \in Procs, HookApply(q)
  PROVE  SbBase' /\ (blurred => blurred')
<1>1. /\ pc[q] = "hook_get" /\ acct' = Applied(loc[q].sub) /\ owed' = TRUE
      /\ blurred' = (blurred \/ Comping # {} \/ loc[q].sub # Chosen)
      /\ UNCHANGED <<subs, events, behind, ops, faults>> /\ Relisted(fresh)
      /\ pc' = [pc EXCEPT ![q] = "idle"] /\ loc' = [loc EXCEPT ![q] = NoLocal]
  BY DEF HookApply, Return, Goto
<1>2. /\ loc[q].sub \in SnapType /\ loc[q].sub.id \in Born
      /\ loc[q].sub.status = "active" => loc[q].sub.price \in Price
  BY <1>1, GoesOn, KnowMore DEF Ready
<1>3. SbRow' /\ ~Comped'
  <2>1. SbRow'
    BY <1>1, <1>2, AppliedRow
  <2>2. acct'.status \in {"active", "canceled"}
    BY <1>1, <1>2, AppliedFacts DEF SbBase
  <2> QED BY <2>1, <2>2 DEF Comped
<1>4. /\ ListAgrees' /\ behind' \subseteq Procs /\ blurred' \in BOOLEAN
      /\ ops' \in Nat /\ faults' \in Nat /\ q \notin fresh /\ fresh' \subseteq fresh
      /\ acct'.customer = acct.customer \/ fresh' = {}
  BY <1>1, GoesOn DEF ListAgrees, SbBase, SbBehind, Relisted
<1> QED BY <1>1, <1>3, <1>4, EmptyReady, EmptyFacts, QuietKeeps

\* An event is lost.
LEMMA LoseEventKeeps ==
  ASSUME SbBase, LoseEvent
  PROVE  SbBase' /\ (blurred => blurred')
<1>1. /\ events' \subseteq events /\ faults' = faults + 1
      /\ UNCHANGED <<acct, subs, pc, loc, ops, owed, fresh, behind, blurred>>
  BY DEF LoseEvent, history
<1>2. /\ Live' = Live /\ Born' = Born /\ Chosen' = Chosen
      /\ LiveOf(acct.customer)' = LiveOf(acct.customer)
  BY <1>1, SubsRest
<1>3. SbRow'
  BY <1>1, <1>2, RowStays DEF SbBase
<1>4. SbSubs' /\ SbRequests' /\ SbFresh' /\ SbBehind'
  BY <1>1, <1>2 DEF SbBase, SbSubs, SbRequests, SbFresh, SbBehind, Comped
<1>5. ListAgrees'
  BY <1>1, <1>2 DEF SbBase, ListAgrees, Agrees, Comped
<1>6. blurred' \in BOOLEAN /\ (blurred => blurred') /\ ops' \in Nat /\ faults' \in Nat
  BY <1>1 DEF SbBase
<1> QED BY <1>3, <1>4, <1>5, <1>6 DEF SbBase

-----------------------------------------------------------------------------
(* Checkouts and changes of the plan.                                       *)

\* A subscription is released from its schedule; it ends.
LEMMA ReleasedFacts ==
  ASSUME SbSubs, NEW s \in SubIds
  PROVE  /\ Released(s) \in SubType /\ Released(s).status = subs[s].status
         /\ Released(s).price = subs[s].price /\ Released(s).schedule = Free
         /\ Released(s).begun = FALSE /\ Released(s).customer = subs[s].customer
         /\ LET x == [Released(s) EXCEPT !.status = "canceled"] IN
            x \in SubType /\ x.status = "canceled" /\ x.price = subs[s].price
            /\ x.schedule = Free /\ x.begun = FALSE /\ x.customer = subs[s].customer
<1> DEFINE x == Released(s)
<1>1. x \in SubType /\ x.status = subs[s].status /\ x.price = subs[s].price
      /\ x.schedule = Free /\ x.begun = FALSE /\ x.customer = subs[s].customer
  BY DEF Released, SbSubs, SubType
<1> HIDE DEF x
<1> DEFINE y == [x EXCEPT !.status = "canceled"]
<1>2. y \in SubType /\ y.status = "canceled" /\ y.price = x.price
      /\ y.schedule = x.schedule /\ y.begun = x.begun /\ y.customer = x.customer
  BY <1>1 DEF SubType
<1>3. [Released(s) EXCEPT !.status = "canceled"] = y
  BY DEF x
<1> HIDE DEF y
<1>4. Released(s) = x
  BY DEF x
<1> QED BY <1>1, <1>2, <1>3, <1>4

\* A customer is made for a checkout, and stored.
LEMMA CoCustomerKeeps ==
  ASSUME SbBase, NEW q \in Procs, CoCustomer(q)
  PROVE  SbBase' /\ (blurred => blurred')
<1>1. PICK c \in Customers : Goto(q, "co_store", [loc[q] EXCEPT !.customer = c])
  BY DEF CoCustomer
<1> DEFINE l == [loc[q] EXCEPT !.customer = c]
<1>2. /\ pc[q] = "co_customer" /\ UNCHANGED <<acct, subs, events, owed, fresh, behind>>
      /\ pc' = [pc EXCEPT ![q] = "co_store"] /\ loc' = [loc EXCEPT ![q] = l]
      /\ UNCHANGED <<ops, faults>> /\ blurred' = (blurred \/ twice')
  BY <1>1 DEF CoCustomer, Goto
<1>3. /\ loc[q] \in Local /\ loc[q].target \in Price /\ q \notin fresh
      /\ Ready("co_customer", loc[q], Born)
  BY <1>2, GoesOn DEF Ready
<1>4. l \in Local /\ l.sub = loc[q].sub /\ l.target = loc[q].target
      /\ l.upgrading = loc[q].upgrading
  BY <1>3, KnowMore DEF AnyCustomer
<1> HIDE DEF l
<1>5. Ready("co_store", l, Born)
  BY <1>3, <1>4 DEF Ready
<1>6. /\ blurred' \in BOOLEAN /\ (blurred => blurred')
      /\ behind' \subseteq Procs /\ ops' \in Nat /\ faults' \in Nat
  <2>1. twice' \in BOOLEAN
    BY DEF CoCustomer
  <2> QED BY <1>2, <2>1 DEF SbBase, SbBehind
<1>7. "co_store" \in Steps \ HasRead
  BY DEF Steps, HasRead
<1> QED BY <1>2, <1>3, <1>4, <1>5, <1>6, <1>7, MoveKeeps

LEMMA CoStoreKeeps ==
  ASSUME SbBase, NEW q \in Procs, CoStore(q)
  PROVE  /\ SbBase' /\ (blurred => blurred')
         /\ acct'.customer = loc[q].customer /\ acct'.status = acct.status
         /\ acct'.sub = acct.sub /\ acct'.plan = acct.plan /\ acct'.pending = acct.pending
<1> DEFINE c == loc[q].customer
<1>1. /\ pc[q] = "co_store" /\ owed' = TRUE /\ Relisted(fresh)
      /\ acct' = [acct EXCEPT !.customer = c]
      /\ UNCHANGED <<subs, events, behind, blurred, ops, faults>>
      /\ pc' = [pc EXCEPT ![q] = "co_session"] /\ loc' = [loc EXCEPT ![q] = loc[q]]
  BY DEF CoStore, Step, Goto
<1>2. /\ loc[q] \in Local /\ c \in AnyCustomer /\ q \notin fresh
      /\ Ready("co_store", loc[q], Born) /\ acct \in RowType
  BY <1>1, GoesOn, KnowMore DEF SbBase, SbRow
<1>3. c = loc[q].customer
  OBVIOUS
<1> HIDE DEF c
<1>4. /\ acct' \in RowType /\ acct'.customer = c /\ acct'.status = acct.status
      /\ acct'.sub = acct.sub /\ acct'.plan = acct.plan /\ acct'.pending = acct.pending
      /\ acct'.compOver = acct.compOver
  BY <1>1, <1>2 DEF RowType
<1>5. Born' = Born /\ (Comped' <=> Comped)
  BY <1>1, <1>4, SubsRest DEF Comped
<1>6. SbRow'
  BY <1>1, <1>4, <1>5 DEF SbBase, SbRow
<1>7. ListAgrees' /\ fresh' \subseteq fresh /\ (acct'.customer = acct.customer \/ fresh' = {})
  BY <1>1 DEF ListAgrees, Relisted
<1>8. Ready("co_session", loc[q], Born) /\ "co_session" \in Steps \ HasRead
  BY <1>2 DEF Ready, Steps, HasRead
<1>9. (Comped' /\ ~acct'.compOver) => \A r \in Procs : pc'[r] \in HasRead => r \in behind'
  BY <1>1, <1>4, <1>5, <1>8 DEF SbBase, SbBehind, SbRequests
<1>10. /\ behind' \subseteq Procs /\ blurred' \in BOOLEAN /\ ops' \in Nat /\ faults' \in Nat
       /\ owed' \in BOOLEAN
  BY <1>1 DEF SbBase, SbBehind
<1>11. SbBase'
  BY <1>1, <1>2, <1>6, <1>7, <1>8, <1>9, <1>10, QuietKeeps
<1> QED BY <1>1, <1>3, <1>4, <1>11

\* What a checkout opens is not paid for.
LEMMA SessionMakes ==
  ASSUME SbBase, NEW q \in Procs, CoSession(q)
  PROVE  /\ pc[q] = "co_session" /\ q \notin fresh /\ ~loc[q].upgrading
         /\ UNCHANGED <<acct, events, ops, faults, history>>
         /\ pc' = [pc EXCEPT ![q] = "idle"] /\ loc' = [loc EXCEPT ![q] = NoLocal]
         /\ \E s \in SubIds, new \in SubType :
              /\ subs[s].status = "none" /\ subs' = [subs EXCEPT ![s] = new]
              /\ new.status = "draft" /\ new.price \in Price /\ new.schedule = Free
              /\ ~new.begun /\ new.customer = loc[q].customer
<1> DEFINE p == loc[q].target
           c == loc[q].customer
<1>1. PICK s \in SubIds :
        /\ subs[s].status = "none"
        /\ subs' = [subs EXCEPT ![s] = [Unborn EXCEPT !.status = "draft", !.price = p,
                                                      !.customer = c]]
  BY DEF CoSession
<1>2. /\ pc[q] = "co_session" /\ UNCHANGED <<acct, events, ops, faults, history>>
      /\ pc' = [pc EXCEPT ![q] = "idle"] /\ loc' = [loc EXCEPT ![q] = NoLocal]
  BY DEF CoSession, Return, Goto
<1>3. p \in Price /\ c \in AnyCustomer /\ q \notin fresh /\ ~loc[q].upgrading
  BY <1>2, GoesOn, KnowMore DEF Ready
<1>4. c = loc[q].customer
  OBVIOUS
<1> HIDE DEF p, c
<1> DEFINE u == Unborn
           new == [u EXCEPT !.status = "draft", !.price = p, !.customer = c]
<1>5. u \in SubType /\ u.schedule = Free /\ u.begun = FALSE
  BY EmptyFacts
<1>6. subs' = [subs EXCEPT ![s] = new]
  BY <1>1
<1> HIDE DEF u
<1>7. new \in SubType /\ new.status = "draft" /\ new.price = p /\ new.schedule = Free
      /\ new.begun = FALSE /\ new.customer = c
  BY <1>3, <1>5 DEF SubType
<1> HIDE DEF new
<1> QED BY <1>1, <1>2, <1>3, <1>4, <1>6, <1>7

\* A checkout opens.
LEMMA CoSessionKeeps ==
  ASSUME SbBase, NEW q \in Procs, CoSession(q)
  PROVE  SbBase' /\ (blurred => blurred')
<1>1. PICK s \in SubIds : \E new \in SubType :
        /\ subs[s].status = "none" /\ subs' = [subs EXCEPT ![s] = new]
        /\ new.status = "draft" /\ new.price \in Price /\ new.schedule = Free /\ ~new.begun
  BY SessionMakes
<1>2. /\ pc[q] = "co_session" /\ UNCHANGED <<acct, events, ops, faults, owed, fresh, behind, blurred>>
      /\ pc' = [pc EXCEPT ![q] = "idle"] /\ loc' = [loc EXCEPT ![q] = NoLocal]
      /\ q \notin fresh
  BY SessionMakes DEF history
<1>6. /\ SbSubs' /\ Live' = Live /\ Born' = Born /\ Chosen' = Chosen
      /\ LiveOf(acct.customer)' = LiveOf(acct.customer)
      /\ \A r \in Born : subs'[r] = subs[r]
  BY <1>1, <1>2, DraftFacts DEF SbBase
<1>7. /\ SbRequests' /\ pc'[q] = "idle"
      /\ \A r \in Procs \ {q} : pc'[r] = pc[r] /\ loc'[r] = loc[r]
  BY <1>2, <1>6, EmptyReady, EmptyFacts, RequestMoves DEF SbBase
<1>8. SbRow'
  BY <1>2, <1>6, RowStays DEF SbBase
<1>9. SbFresh' /\ SbBehind'
  <2>1. SbFresh'
    BY <1>2, <1>6, <1>7 DEF SbBase, SbFresh
  <2>2. SbBehind'
    BY <1>2, <1>7 DEF SbBase, SbBehind, Comped, HasRead
  <2> QED BY <2>1, <2>2
<1>10. ListAgrees'
  <2>1. ASSUME Agrees PROVE Agrees'
    <3>1. LiveOf(acct.customer) \subseteq Born
      BY DEF LiveOf, Listed
    <3>2. Comped' <=> Comped
      BY <1>2 DEF Comped
    <3> QED BY <1>2, <1>6, <2>1, <3>1, <3>2 DEF Agrees
  <2> QED BY <1>2, <2>1 DEF SbBase, ListAgrees
<1> QED BY <1>2, <1>6, <1>7, <1>8, <1>9, <1>10 DEF SbBase

\* The subscription is looked at before it is changed.
LEMMA LooksKeep ==
  ASSUME SbBase, NEW q \in Procs, ChGet(q) \/ CsGet(q) \/ CaGet(q)
  PROVE  SbBase' /\ (blurred => blurred')
<1>1. CASE ChGet(q)
  <2> DEFINE sub == Snapshot(loc[q].sub.id)
             l == IF loc[q].upgrading THEN loc[q] ELSE [loc[q] EXCEPT !.sub = sub]
             step == IF loc[q].upgrading THEN IF sub.schedule = Free THEN "up_update"
                                              ELSE "up_release"
                     ELSE IF sub.schedule = Free THEN "dn_create" ELSE "dn_phases"
  <2>1. /\ pc[q] = "ch_get" /\ pc' = [pc EXCEPT ![q] = step] /\ loc' = [loc EXCEPT ![q] = l]
        /\ UNCHANGED <<acct, subs, events, ops, faults, owed, fresh, behind, blurred>>
    BY <1>1 DEF ChGet, Goto, history
  <2>2. /\ loc[q] \in Local /\ loc[q].sub.id \in Born /\ loc[q].target \in Price
        /\ Ready("ch_get", loc[q], Born) /\ q \notin fresh /\ loc[q].upgrading \in BOOLEAN
    BY <2>1, GoesOn, KnowMore DEF Ready
  <2>3. sub \in SnapType /\ sub.id \in Born /\ sub.price \in Price /\ sub.id # NoSub
    BY <2>2, SnapshotFacts, StripeFacts DEF SbBase
  <2>4. CASE loc[q].upgrading
    <3>1. l = loc[q] /\ step \in {"up_update", "up_release"}
      BY <2>4
    <3> HIDE DEF l, step, sub
    <3>2. Ready(step, l, Born) /\ step \in Steps \ HasRead /\ l \in Local
      BY <2>2, <3>1 DEF Ready, Steps, ChangeSteps, HasRead
    <3> QED BY <2>1, <2>2, <3>2, MoveKeeps DEF SbBase, SbBehind
  <2>5. CASE ~loc[q].upgrading
    <3> HIDE DEF sub
    <3>1. l = [loc[q] EXCEPT !.sub = sub] /\ step \in {"dn_create", "dn_phases"}
      BY <2>5
    <3>2. l \in Local /\ l.sub = sub /\ l.target = loc[q].target
      BY <2>2, <2>3, <2>5, KnowMore
    <3> HIDE DEF l, step
    <3>3. Ready(step, l, Born) /\ step \in Steps \ HasRead
      BY <2>2, <2>3, <3>1, <3>2 DEF Ready, Steps, ChangeSteps, HasRead
    <3> QED BY <2>1, <2>2, <3>2, <3>3, MoveKeeps DEF SbBase, SbBehind
  <2> QED BY <2>2, <2>4, <2>5
<1>2. CASE CsGet(q) \/ CaGet(q)
  <2>1. PICK step \in {"cs_clear", "cs_release", "ca_flag", "ca_release"} :
          /\ pc[q] \in {"cs_get", "ca_get"} /\ Step(q, step)
          /\ UNCHANGED <<acct, subs, events, owed, fresh, behind, blurred>>
    BY <1>2 DEF CsGet, CaGet, history
  <2>2. /\ pc' = [pc EXCEPT ![q] = step] /\ loc' = [loc EXCEPT ![q] = loc[q]]
        /\ UNCHANGED <<ops, faults>> /\ q \notin fresh
    BY <2>1, GoesOn DEF Step, Goto
  <2>3. Ready(step, loc[q], Born) /\ step \in Steps \ HasRead /\ loc[q] \in Local
    BY <2>1, GoesOn DEF Ready, Steps, ChangeSteps, HasRead
  <2> QED BY <2>1, <2>2, <2>3, MoveKeeps DEF SbBase, SbBehind
<1> QED BY <1>1, <1>2

\* A request after Stripe answered it, whatever became of the subscription.
LEMMA AnsweredReady ==
  ASSUME SbBase, NEW q \in Procs, NEW s \in SubIds, NEW new \in SubType, StripeWrites(s, new),
         subs[s].status # "none", new.status \in {"active", "canceled"}, new.price \in Price,
         NEW step \in Steps, NEW l \in Local, Ready(step, l, Born),
         pc' = [pc EXCEPT ![q] = step], loc' = [loc EXCEPT ![q] = l], step \notin HasRead,
         UNCHANGED <<acct, behind, blurred, ops, faults>>
  PROVE  SbBase' /\ (blurred => blurred')
<1>1. Born' = Born \cup {s}
  BY StripeWritesFacts DEF SbBase
<1>2. Ready(step, l, Born')
  BY <1>1 DEF Ready
<1>3. /\ SbRequests' /\ pc'[q] = step /\ \A r \in Procs \ {q} : pc'[r] = pc[r]
  BY <1>1, <1>2, RequestMoves DEF SbBase
<1>4. blurred' \in BOOLEAN /\ ops' \in Nat /\ faults' \in Nat
  BY DEF SbBase
<1> QED BY <1>3, <1>4, StripeKeeps

\* A schedule is released, or that fails and no one minds.
LEMMA ReleaseKeeps ==
  ASSUME SbBase, NEW q \in Procs, ReleaseSchedule(q) \/ ReleaseSwallowed(q)
  PROVE  SbBase' /\ (blurred => blurred')
<1> DEFINE step == AfterRelease(pc[q])
           s == loc[q].sub.id
<1>1. pc[q] \in ReleaseSteps
  BY DEF ReleaseSchedule, ReleaseSwallowed
<1>2. /\ loc[q] \in Local /\ s \in Born /\ s \in SubIds /\ q \notin fresh
      /\ step \in {"up_update", "cs_clear", "ca_clear"} /\ Ready(step, loc[q], Born)
  <2>1. Born \subseteq SubIds
    BY DEF Born
  <2> QED BY <1>1, <2>1, GoesOn DEF Ready, ReleaseSteps, AfterRelease
<1>3. step \in Steps \ HasRead /\ subs[s].status \in {"active", "canceled"}
      /\ subs[s].price \in Price
  BY <1>2, SnapshotFacts DEF Steps, ChangeSteps, HasRead, SbBase
<1>4. CASE ReleaseSwallowed(q)
  <2>1. /\ faults' = faults + 1 /\ pc' = [pc EXCEPT ![q] = step] /\ blurred' = TRUE
        /\ loc' = [loc EXCEPT ![q] = loc[q]]
        /\ UNCHANGED <<acct, subs, events, ops, owed, fresh, behind>>
    BY <1>4, GoesOn DEF ReleaseSwallowed
  <2>2. behind' \subseteq Procs /\ blurred' \in BOOLEAN /\ ops' \in Nat /\ faults' \in Nat
    BY <2>1 DEF SbBase, SbBehind
  <2> HIDE DEF step
  <2> QED BY <1>2, <1>3, <2>1, <2>2, MoveKeeps
<1>5. CASE ReleaseSchedule(q)
  <2>1. /\ pc' = [pc EXCEPT ![q] = step] /\ loc' = [loc EXCEPT ![q] = loc[q]]
        /\ Release(s) /\ UNCHANGED <<acct, behind, blurred, ops, faults>>
    BY <1>5 DEF ReleaseSchedule, Step, Goto
  <2> HIDE DEF step
  <2>2. CASE subs[s].schedule = Free
    <3>1. UNCHANGED <<subs, events, owed, fresh>>
      BY <2>1, <2>2 DEF Release, StripeRests
    <3> QED BY <1>2, <1>3, <2>1, <3>1, MoveKeeps DEF SbBase, SbBehind
  <2>3. CASE subs[s].schedule # Free
    <3>1. StripeWrites(s, Released(s))
      BY <2>1, <2>3 DEF Release
    <3>2. Released(s) \in SubType /\ Released(s).status = subs[s].status
          /\ Released(s).price = subs[s].price
      BY <1>2, ReleasedFacts DEF SbBase
    <3> QED BY <1>2, <1>3, <2>1, <3>1, <3>2, AnsweredReady
  <2> QED BY <2>2, <2>3
<1> QED BY <1>4, <1>5

\* Stripe is asked to change a live subscription and does.
LEMMA ChangesKeep ==
  ASSUME SbBase, NEW q \in Procs,
         UpUpdate(q) \/ DnCreate(q) \/ DnPhases(q) \/ SetCancelling(q)
  PROVE  SbBase' /\ (blurred => blurred')
<1> DEFINE s == loc[q].sub.id
<1>1. /\ pc[q] \in {"up_update", "dn_create", "dn_phases", "ca_flag", "resume"}
      /\ subs[s].status = "active" /\ UNCHANGED <<acct, behind, blurred>>
  BY DEF UpUpdate, DnCreate, DnPhases, SetCancelling
<1>2. /\ loc[q] \in Local /\ s \in Born /\ s \in SubIds /\ Ready(pc[q], loc[q], Born)
      /\ subs[s] \in SubType /\ subs[s].price \in Price
  <2>1. loc[q] \in Local /\ s \in Born /\ s \in SubIds /\ Ready(pc[q], loc[q], Born)
    BY <1>1, GoesOn DEF Ready, Born
  <2> QED BY <1>1, <2>1 DEF SbBase, SbSubs
<1> DEFINE old == subs[s]
<1>3. CASE UpUpdate(q)
  <2> DEFINE p == loc[q].target
             new == [old EXCEPT !.price = p]
             l == [NoLocal EXCEPT !.upgrading = TRUE]
  <2>1. StripeWrites(s, new) /\ Goto(q, "rc_read", l) /\ pc[q] = "up_update"
    BY <1>3 DEF UpUpdate
  <2>2. p \in Price
    BY <1>2, <2>1 DEF Ready
  <2> HIDE DEF p, old
  <2>3. new \in SubType /\ new.status = old.status /\ new.price = p
    BY <1>2, <2>2 DEF SubType, old
  <2>4. l \in Local /\ Ready("rc_read", l, Born)
    BY UpgradeFacts
  <2> HIDE DEF new, l
  <2>5. /\ pc' = [pc EXCEPT ![q] = "rc_read"] /\ loc' = [loc EXCEPT ![q] = l]
        /\ UNCHANGED <<ops, faults>> /\ "rc_read" \in Steps \ HasRead
    BY <2>1 DEF Goto, Steps, ReconcileSteps, HasRead
  <2> QED BY <1>1, <1>2, <2>1, <2>2, <2>3, <2>4, <2>5, AnsweredReady DEF old
<1>4. CASE DnCreate(q)
  <2> DEFINE new == [old EXCEPT !.schedule = old.price]
  <2>1. StripeWrites(s, new) /\ Step(q, "dn_phases") /\ pc[q] = "dn_create"
    BY <1>4 DEF DnCreate
  <2> HIDE DEF old
  <2>2. new \in SubType /\ new.status = old.status /\ new.price = old.price
    BY <1>2 DEF SubType, old
  <2> HIDE DEF new
  <2>3. /\ pc' = [pc EXCEPT ![q] = "dn_phases"] /\ loc' = [loc EXCEPT ![q] = loc[q]]
        /\ UNCHANGED <<ops, faults>> /\ "dn_phases" \in Steps \ HasRead
    BY <2>1 DEF Step, Goto, Steps, ChangeSteps, HasRead
  <2>4. Ready("dn_phases", loc[q], Born)
    BY <1>2, <2>1 DEF Ready
  <2> QED BY <1>1, <1>2, <2>1, <2>2, <2>3, <2>4, AnsweredReady DEF old
<1>5. CASE DnPhases(q)
  <2> DEFINE p == loc[q].target
             u == loc[q].sub.price
             new == [old EXCEPT !.schedule = p, !.begun = FALSE, !.cancelling = FALSE,
                                !.price = u]
  <2>1. StripeWrites(s, new) /\ Step(q, "dn_mark") /\ pc[q] = "dn_phases"
    BY <1>5 DEF DnPhases
  <2>2. p \in Price /\ u \in Price
    BY <1>2, <2>1 DEF Ready
  <2> HIDE DEF old, p, u
  <2>3. new \in SubType /\ new.status = old.status /\ new.price = u
    BY <1>2, <2>2 DEF SubType, old
  <2> HIDE DEF new
  <2>4. /\ pc' = [pc EXCEPT ![q] = "dn_mark"] /\ loc' = [loc EXCEPT ![q] = loc[q]]
        /\ UNCHANGED <<ops, faults>> /\ "dn_mark" \in Steps \ HasRead
    BY <2>1 DEF Step, Goto, Steps, ChangeSteps, HasRead
  <2>5. Ready("dn_mark", loc[q], Born)
    BY <1>2, <2>1 DEF Ready
  <2> QED BY <1>1, <1>2, <2>1, <2>2, <2>3, <2>4, <2>5, AnsweredReady DEF old
<1>6. CASE SetCancelling(q)
  <2> DEFINE b == (pc[q] = "ca_flag")
             new == [old EXCEPT !.cancelling = b]
  <2>1. StripeWrites(s, new) /\ Return(q)
    BY <1>6 DEF SetCancelling
  <2>2. b \in BOOLEAN
    OBVIOUS
  <2> HIDE DEF old, b
  <2>3. new \in SubType /\ new.status = old.status /\ new.price = old.price
    BY <1>2, <2>2 DEF SubType, old
  <2> HIDE DEF new
  <2>4. /\ pc' = [pc EXCEPT ![q] = "idle"] /\ loc' = [loc EXCEPT ![q] = NoLocal]
        /\ UNCHANGED <<ops, faults>> /\ "idle" \in Steps \ HasRead
    BY <2>1 DEF Return, Goto, Steps, HasRead
  <2> QED BY <1>1, <1>2, <2>1, <2>3, <2>4, EmptyReady, EmptyFacts, AnsweredReady DEF old
<1> QED BY <1>3, <1>4, <1>5, <1>6

\* The markers are cleared, or set.
LEMMA MarkersKeep ==
  ASSUME SbBase, NEW q \in Procs, ClearMarkers(q) \/ DnMark(q)
  PROVE  SbBase' /\ (blurred => blurred')
<1>1. PICK step \in {"ca_flag", "idle"}, l \in Local :
        /\ pc' = [pc EXCEPT ![q] = step] /\ loc' = [loc EXCEPT ![q] = l]
        /\ UNCHANGED <<ops, faults>> /\ Ready(step, l, Born) /\ q \notin fresh
  <2>1. CASE ClearMarkers(q) /\ pc[q] = "ca_clear"
    <3>1. /\ pc' = [pc EXCEPT ![q] = "ca_flag"] /\ loc' = [loc EXCEPT ![q] = loc[q]]
          /\ UNCHANGED <<ops, faults>>
      BY <2>1 DEF ClearMarkers, Step, Goto
    <3>2. loc[q] \in Local /\ Ready("ca_flag", loc[q], Born) /\ q \notin fresh
      BY <2>1, GoesOn DEF Ready
    <3> QED BY <3>1, <3>2
  <2>2. CASE DnMark(q) \/ (ClearMarkers(q) /\ pc[q] # "ca_clear")
    <3>1. /\ pc' = [pc EXCEPT ![q] = "idle"] /\ loc' = [loc EXCEPT ![q] = NoLocal]
          /\ UNCHANGED <<ops, faults>> /\ pc[q] \in ClearSteps \cup {"dn_mark"}
      BY <2>2 DEF ClearMarkers, DnMark, Return, Goto
    <3>2. q \notin fresh
      BY <3>1, GoesOn DEF ClearSteps
    <3> QED BY <3>1, <3>2, EmptyReady, EmptyFacts
  <2> QED BY <2>1, <2>2
<1>2. PICK p \in Price \cup {Free} :
        /\ acct' = [acct EXCEPT !.pending = p] /\ UNCHANGED <<subs, events, owed, fresh, behind>>
        /\ blurred' \in BOOLEAN /\ (blurred => blurred') /\ (Comped => blurred' \/ p = Free)
  <2>1. CASE ClearMarkers(q)
    BY <2>1 DEF ClearMarkers, ClearPending, StripeRests, SbBase
  <2>2. CASE DnMark(q)
    <3>1. loc[q].target \in Price
      BY <2>2, GoesOn DEF DnMark, Ready
    <3> QED BY <2>2, <3>1 DEF DnMark, StripeRests, SbBase
  <2> QED BY <2>1, <2>2
<1>3. step \in Steps \ HasRead
  BY DEF Steps, ChangeSteps, HasRead
<1>4. \A r \in Procs : pc'[r] \in HasRead => pc'[r] = pc[r]
  BY <1>1, <1>3 DEF SbBase, SbRequests
<1>5. /\ SbRow' /\ ListAgrees' /\ acct'.customer = acct.customer
      /\ (Comped' /\ ~acct'.compOver) => \A r \in Procs : pc'[r] \in HasRead => r \in behind'
  BY <1>2, <1>4, MarkedAgrees
<1>6. behind' \subseteq Procs /\ ops' \in Nat /\ faults' \in Nat /\ owed' \in BOOLEAN
  BY <1>1, <1>2 DEF SbBase, SbBehind, SbFresh
<1> QED BY <1>1, <1>2, <1>3, <1>5, <1>6, QuietKeeps

-----------------------------------------------------------------------------
(* Comps, failures, payments and time.                                      *)

\* The subscription a comp takes the place of is cancelled, or that fails and no one minds.
LEMMA ClCancelKeeps ==
  ASSUME SbBase, NEW q \in Procs, ClCancel(q) \/ ClCancelSwallowed(q)
  PROVE  SbBase' /\ (blurred => blurred')
<1> DEFINE s == loc[q].sub.id
<1>1. /\ pc[q] = "cl_cancel" /\ loc[q] \in Local /\ s \in Born /\ s \in SubIds /\ q \notin fresh
      /\ Ready("comp", loc[q], Born) /\ "comp" \in Steps \ HasRead
  BY GoesOn DEF ClCancel, ClCancelSwallowed, Ready, Born, Steps, HasRead
<1>2. CASE ClCancelSwallowed(q)
  <2>1. /\ faults' = faults + 1 /\ pc' = [pc EXCEPT ![q] = "comp"] /\ blurred' = TRUE
        /\ loc' = [loc EXCEPT ![q] = loc[q]]
        /\ UNCHANGED <<acct, subs, events, ops, owed, fresh, behind>>
    BY <1>2, GoesOn DEF ClCancelSwallowed
  <2>2. behind' \subseteq Procs /\ blurred' \in BOOLEAN /\ ops' \in Nat /\ faults' \in Nat
    BY <2>1 DEF SbBase, SbBehind
  <2> QED BY <1>1, <2>1, <2>2, MoveKeeps
<1>3. CASE ClCancel(q)
  <2>1. /\ pc' = [pc EXCEPT ![q] = "comp"] /\ loc' = [loc EXCEPT ![q] = loc[q]]
        /\ UNCHANGED <<acct, behind, blurred, ops, faults>>
    BY <1>3 DEF ClCancel, Step, Goto
  <2>2. CASE subs[s].status = "active"
    <3> DEFINE new == [Released(s) EXCEPT !.status = "canceled"]
    <3>1. StripeWrites(s, new)
      BY <1>3, <2>2 DEF ClCancel
    <3>2. new \in SubType /\ new.status = "canceled" /\ new.price = subs[s].price
      BY <1>1, ReleasedFacts DEF SbBase
    <3>3. subs[s].price \in Price
      BY <1>1, SnapshotFacts DEF SbBase
    <3> HIDE DEF new
    <3> QED BY <1>1, <2>1, <2>2, <3>1, <3>2, <3>3, AnsweredReady
  <2>3. CASE subs[s].status # "active"
    <3>1. UNCHANGED <<subs, events, owed, fresh>>
      BY <1>3, <2>3 DEF ClCancel, StripeRests
    <3> QED BY <1>1, <2>1, <3>1, MoveKeeps DEF SbBase, SbBehind
  <2> QED BY <2>2, <2>3
<1> QED BY <1>2, <1>3

\* The account is comped.
LEMMA CompKeeps ==
  ASSUME SbBase, NEW q \in Procs, Comp(q)
  PROVE  /\ SbBase' /\ (blurred => blurred') /\ Comped' /\ acct'.sub = NoSub
         /\ acct'.pending = Free /\ acct'.customer = acct.customer
<1>1. /\ pc[q] = "comp" /\ UNCHANGED <<subs, events, owed, fresh, ops, faults>>
      /\ behind' = {r \in Procs : pc[r] \in {"rc_expire", "rc_list", "rc_write"}}
      /\ blurred' = (blurred \/ \E s \in Live : subs[s].schedule # Free)
      /\ pc' = [pc EXCEPT ![q] = "idle"] /\ loc' = [loc EXCEPT ![q] = NoLocal]
  BY DEF Comp, Return, Goto, StripeRests
<1>2. PICK plan \in PaidPlans :
        acct' = [NewAccount EXCEPT !.plan = plan, !.status = "comped",
                                   !.customer = acct.customer]
  BY DEF Comp
<1>3. /\ acct' \in RowType /\ acct'.sub = NoSub /\ acct'.pending = Free
      /\ acct'.status = "comped" /\ acct'.customer = acct.customer
  BY <1>2, ResetFacts DEF SbBase
<1>4. SbRow' /\ Comped' /\ ListAgrees'
  BY <1>3 DEF SbRow, Comped, ListAgrees, Agrees
<1>5. /\ behind' \subseteq Procs /\ blurred' \in BOOLEAN /\ ops' \in Nat /\ faults' \in Nat
      /\ owed' \in BOOLEAN /\ q \notin fresh /\ (blurred => blurred')
  BY <1>1, GoesOn DEF SbBase, SbFresh
<1>6. \A r \in Procs : pc'[r] \in HasRead => r \in behind'
  BY <1>1 DEF HasRead, SbBase, SbRequests
<1>7. SbBase'
  BY <1>1, <1>3, <1>4, <1>5, <1>6, EmptyReady, EmptyFacts, QuietKeeps
<1> QED BY <1>3, <1>4, <1>5, <1>7

\* A request that fails or is refused.
LEMMA FailKeeps ==
  ASSUME SbBase, NEW q \in Procs, Fail(q) \/ Refused(q)
  PROVE  SbBase' /\ blurred' = TRUE
<1>1. /\ pc' = [pc EXCEPT ![q] = "idle"] /\ loc' = [loc EXCEPT ![q] = NoLocal]
      /\ blurred' = TRUE /\ UNCHANGED <<acct, subs, events, ops, owed>>
      /\ fresh' \subseteq fresh /\ behind \subseteq behind' \cup {q} /\ behind' \subseteq behind
      /\ q \notin fresh' /\ faults' \in Nat
  <2>1. CASE Fail(q)
    BY <2>1 DEF Fail, SbBase
  <2>2. CASE Refused(q)
    BY <2>2, GoesOn DEF Refused, Return, Goto, SbBase
  <2> QED BY <2>1, <2>2
<1>2. behind' \subseteq Procs /\ ops' \in Nat /\ "idle" \notin HasRead
  BY <1>1 DEF SbBase, SbBehind, HasRead
<1> QED BY <1>1, <1>2, EmptyReady, EmptyFacts, MoveKeeps

\* A checkout is paid.
LEMMA PayCheckoutKeeps ==
  ASSUME SbBase, PayCheckout
  PROVE  /\ SbBase' /\ (blurred => blurred')
         /\ \E s \in SubIds :
              /\ subs[s].status = "draft" /\ subs'[s].schedule = Free /\ Live' = Live \cup {s}
              /\ \A r \in SubIds \ {s} : subs'[r] = subs[r]
         /\ \E s \in SubIds, new \in SubType :
              /\ subs[s].status # "none" /\ StripeWrites(s, new) /\ Born' = Born \cup {s}
              /\ new.customer = subs[s].customer
<1>1. PICK s \in SubIds :
        /\ subs[s].status = "draft" /\ StripeWrites(s, [subs[s] EXCEPT !.status = "active"])
        /\ blurred' = (blurred \/ Live # {})
        /\ UNCHANGED <<acct, pc, loc, ops, faults, behind>>
  BY DEF PayCheckout
<1> DEFINE old == subs[s]
           new == [old EXCEPT !.status = "active"]
<1>2. old \in SubType /\ old.price \in Price /\ old.schedule = Free
  BY <1>1 DEF SbBase, SbSubs, Born
<1> HIDE DEF old
<1>3. new \in SubType /\ new.status = "active" /\ new.price = old.price /\ new.schedule = Free
      /\ new.customer = old.customer
  BY <1>2 DEF SubType
<1>4. StripeWrites(s, new)
  BY <1>1 DEF old
<1> HIDE DEF new
<1>5. /\ subs'[s] = new /\ \A r \in SubIds \ {s} : subs'[r] = subs[r]
      /\ Born' = Born \cup {s} /\ Live' = Live \cup {s}
  BY <1>1, <1>2, <1>3, <1>4, StripeWritesFacts DEF SbBase
<1>6. SbRequests'
  BY <1>1, <1>5 DEF SbBase, SbRequests, Ready
<1>7. blurred' \in BOOLEAN /\ (blurred => blurred') /\ ops' \in Nat /\ faults' \in Nat
  BY <1>1 DEF SbBase
<1>8. SbBase'
  BY <1>1, <1>2, <1>3, <1>4, <1>6, <1>7, StripeKeeps
<1>9. subs[s].status # "none" /\ new.customer = subs[s].customer
  BY <1>1, <1>3 DEF old
<1> QED BY <1>1, <1>3, <1>4, <1>5, <1>7, <1>8, <1>9

\* A period ends; no downgrade begins to wait.
LEMMA PeriodEndsKeeps ==
  ASSUME SbBase, PeriodEnds
  PROVE  /\ SbBase' /\ (blurred => blurred')
         /\ UNCHANGED <<acct, pc, loc, behind, blurred>> /\ fresh' = {}
         /\ Live' \subseteq Live
         /\ \A r \in Live' : Waiting(r)' => Waiting(r) /\ subs'[r] = subs[r]
         /\ UNCHANGED twice
         /\ \E s \in SubIds, new \in SubType :
              /\ subs[s].status # "none" /\ StripeWrites(s, new) /\ Born' = Born \cup {s}
              /\ new.customer = subs[s].customer
<1>1. PICK s \in Live :
        LET sub == subs[s] IN
        /\ sub.cancelling \/ sub.schedule # Free
        /\ StripeWrites(s, IF sub.cancelling THEN [Released(s) EXCEPT !.status = "canceled"]
                           ELSE IF sub.begun THEN Released(s)
                           ELSE [sub EXCEPT !.price = sub.schedule, !.begun = TRUE])
        /\ UNCHANGED <<acct, pc, loc, ops, faults, twice, behind, blurred>>
  BY DEF PeriodEnds
<1> DEFINE old == subs[s]
           new == IF old.cancelling THEN [Released(s) EXCEPT !.status = "canceled"]
                  ELSE IF old.begun THEN Released(s)
                  ELSE [old EXCEPT !.price = old.schedule, !.begun = TRUE]
<1>2. s \in SubIds /\ old \in SubType /\ old.price \in Price /\ old.status = "active"
  BY DEF SbBase, SbSubs, Live
<1>3. StripeWrites(s, new) /\ (old.cancelling \/ old.schedule # Free)
  BY <1>1
<1>4. /\ new \in SubType /\ new.status \in {"active", "canceled"} /\ new.price \in Price
      /\ new.schedule = Free \/ new.begun
      /\ new.customer = old.customer
  <2>1. CASE old.cancelling
    <3>1. new = [Released(s) EXCEPT !.status = "canceled"]
      BY <2>1
    <3> HIDE DEF new
    <3> QED BY <1>2, <3>1, ReleasedFacts DEF SbBase
  <2>2. CASE ~old.cancelling /\ old.begun
    <3>1. new = Released(s)
      BY <2>2
    <3> HIDE DEF new
    <3> QED BY <1>2, <3>1, ReleasedFacts DEF SbBase
  <2>3. CASE ~old.cancelling /\ ~old.begun
    <3>1. new = [old EXCEPT !.price = old.schedule, !.begun = TRUE]
      BY <2>3
    <3> HIDE DEF old, new
    <3>2. old.schedule \in Price
      BY <1>2, <1>3, <2>3 DEF SubType
    <3> QED BY <1>2, <3>1, <3>2 DEF SubType
  <2> QED BY <2>1, <2>2, <2>3
<1> HIDE DEF new
<1>5. /\ subs'[s] = new /\ \A r \in SubIds \ {s} : subs'[r] = subs[r]
      /\ Born' = Born \cup {s} /\ Live' \subseteq Live /\ fresh' = {}
  BY <1>2, <1>3, <1>4, StripeWritesFacts DEF SbBase
<1>6. SbRequests'
  BY <1>1, <1>5 DEF SbBase, SbRequests, Ready
<1>7. SbBase'
  BY <1>1, <1>2, <1>3, <1>4, <1>6, StripeKeeps DEF SbBase
<1>8. \A r \in Live' : Waiting(r)' => Waiting(r) /\ subs'[r] = subs[r]
  <2> SUFFICES ASSUME NEW r \in SubIds, Waiting(r)' PROVE Waiting(r) /\ subs'[r] = subs[r]
    BY DEF Live
  <2>1. r # s
    BY <1>4, <1>5 DEF Waiting
  <2> QED BY <1>5, <2>1 DEF Waiting
<1> QED BY <1>1, <1>2, <1>3, <1>4, <1>5, <1>7, <1>8

\* A comp runs out.
LEMMA CompRunsOutKeeps ==
  ASSUME SbBase, CompRunsOut
  PROVE  /\ SbBase' /\ UNCHANGED <<subs, pc, loc, fresh, blurred>> /\ Comped /\ Comped'
         /\ acct'.sub = acct.sub /\ acct'.pending = acct.pending
         /\ acct'.customer = acct.customer /\ UNCHANGED <<events, twice>>
<1>1. /\ Comped /\ acct' = [acct EXCEPT !.compOver = TRUE]
      /\ UNCHANGED <<subs, events, pc, loc, ops, faults, owed, fresh, twice, behind, blurred>>
  BY DEF CompRunsOut, history
<1>2. /\ acct' \in RowType /\ acct'.sub = acct.sub /\ acct'.pending = acct.pending
      /\ acct'.status = acct.status /\ acct'.compOver /\ acct'.customer = acct.customer
  BY <1>1 DEF SbBase, SbRow, RowType
<1>3. Comped'
  BY <1>1, <1>2 DEF Comped
<1>4. Live' = Live /\ Born' = Born /\ Chosen' = Chosen
  BY <1>1, <1>2, SubsRest
<1>5. SbRow'
  BY <1>1, <1>2, <1>3, <1>4 DEF SbBase, SbRow, Comped
<1>6. SbSubs' /\ SbRequests' /\ SbFresh' /\ SbBehind'
  BY <1>1, <1>2, <1>4 DEF SbBase, SbSubs, SbRequests, SbFresh, SbBehind
<1>7. ListAgrees'
  BY <1>3 DEF ListAgrees, Agrees
<1> QED BY <1>1, <1>2, <1>3, <1>5, <1>6, <1>7 DEF SbBase

-----------------------------------------------------------------------------
(* With nothing blurred.  What the rest of a step must leave alone for a    *)
(* request that does not take it.                                           *)

\* Nothing dead comes alive, and no downgrade begins to wait; the row keeps a live
\* subscription it has; it shows what a fresh reconcile would have it show.
NoneRises == Live' \cap Born \subseteq Live
NoneBegins ==
  \A s \in Live' : Waiting(s)' =>
    s \in Live /\ Waiting(s) /\ subs'[s].schedule = subs[s].schedule
RowHolds == acct.sub \in Live => acct'.sub = acct.sub
PlanHolds ==
  /\ Chosen' = Chosen /\ Live' = Live
  /\ \/ Comped'
     \/ ~Comped /\ acct'.plan = acct.plan
     \/ Live # {} => acct'.plan \in {Chosen.price.plan, "free"}

\* Nothing happens at Stripe, or to the row.
LEMMA SubsHold ==
  ASSUME UNCHANGED subs
  PROVE  /\ NoneRises /\ NoneBegins /\ (NoneWaits' <=> NoneWaits) /\ (OneLive' <=> OneLive)
         /\ Live' = Live /\ Born' = Born
         /\ acct'.customer = acct.customer => Chosen' = Chosen
         /\ UNCHANGED acct => RowHolds /\ PlanHolds
<1>1. Live' = Live /\ Born' = Born /\ (acct'.customer = acct.customer => Chosen' = Chosen)
      /\ \A s \in SubIds : Waiting(s)' <=> Waiting(s)
  BY SubsRest
<1>2. Live \subseteq SubIds
  BY DEF Live
<1>3. UNCHANGED acct => RowHolds /\ PlanHolds
  BY <1>1 DEF RowHolds, PlanHolds, Comped
<1> QED BY <1>1, <1>2, <1>3 DEF NoneRises, NoneBegins, NoneWaits, OneLive

\* Requests that do not move keep what they know.
LEMMA OthersKeep ==
  ASSUME SbBase, Clear, NEW S \in SUBSET Procs,
         \A r \in S : pc'[r] = pc[r] /\ loc'[r] = loc[r],
         NoneRises, RowHolds, NoneBegins \/ S \cap Changing = {},
         acct'.sub \in {acct.sub, NoSub} \/ Comping = {},
         fresh' \cap S = {} \/ (fresh' \cap S \subseteq fresh /\ PlanHolds)
  PROVE  \A r \in S : Replaces(r)' /\ Promise(r)' /\ Found(r)'
<1> SUFFICES ASSUME NEW r \in S PROVE Replaces(r)' /\ Promise(r)' /\ Found(r)'
  OBVIOUS
<1>1. /\ pc'[r] = pc[r] /\ loc'[r] = loc[r] /\ r \in Procs
      /\ Replaces(r) /\ Promise(r) /\ Found(r) /\ loc[r].sub.id \in Born \cup {NoSub}
  BY GoesOn DEF Clear, Ready
<1>2. acct.sub \in Born \cup {NoSub} /\ NoSub \notin Live' /\ NoSub \notin Live
  BY StripeFacts DEF SbBase, SbRow, Live
<1>3. Replaces(r)'
  <2>1. CASE r \notin Comping
    BY <1>1, <2>1 DEF Replaces, Comping
  <2>2. CASE acct'.sub \in {acct.sub, NoSub}
    BY <1>1, <1>2, <2>2 DEF Replaces, NoneRises
  <2> QED BY <2>1, <2>2
<1>4. Promise(r)'
  <2>1. CASE r \notin Changing
    <3>1. pc[r] \notin ChangeSteps /\ ~loc[r].upgrading
      BY <1>1, <2>1 DEF Changing
    <3> QED BY <1>1, <3>1 DEF Promise, ChangeSteps
  <2>2. CASE NoneBegins
    <3>1. loc[r].sub.id \in Live' => loc[r].sub.id \in Live
      BY <1>1, <1>2 DEF NoneRises
    <3>2. NoneWaits => NoneWaits'
      BY <2>2 DEF NoneBegins, NoneWaits
    <3>3. (loc[r].sub.id \in Live => acct.sub = loc[r].sub.id)
            => (loc'[r].sub.id \in Live' => acct'.sub = loc'[r].sub.id)
      BY <1>1, <3>1 DEF RowHolds
    <3>4. (\A s \in Live : Waiting(s) => s = loc[r].sub.id)
            => \A s \in Live' : Waiting(s)' => s = loc'[r].sub.id
      BY <1>1, <2>2 DEF NoneBegins
    <3>5. (\A s \in Live : Waiting(s) => subs[s].schedule = loc[r].target)
            => \A s \in Live' : Waiting(s)' => subs'[s].schedule = loc'[r].target
      BY <1>1, <2>2 DEF NoneBegins
    <3> QED BY <1>1, <3>2, <3>3, <3>4, <3>5 DEF Promise
  <2> QED BY <1>1, <2>1, <2>2
<1>5. Found(r)'
  <2>1. CASE r \notin fresh'
    BY <2>1 DEF Found
  <2>2. CASE r \in fresh'
    <3>1. r \in fresh /\ PlanHolds
      BY <2>2
    <3> QED BY <1>1, <3>1 DEF Found, PlanHolds
  <2> QED BY <2>1, <2>2
<1> QED BY <1>3, <1>4, <1>5

\* The row has the subscription that waits, still.
LEMMA StillHere ==
  ASSUME Clear, NoneBegins, RowHolds
  PROVE  WaitsHere'
BY DEF Clear, WaitsHere, NoneBegins, RowHolds

\* What waits is shown still, or nothing waits.
LEMMA StillShown ==
  ASSUME Clear, \/ NoneWaits'
                \/ /\ NoneBegins /\ acct'.pending = acct.pending
                   /\ Changing' = {} => Changing = {}
  PROVE  Shown'
<1>1. CASE NoneWaits'
  BY <1>1 DEF NoneWaits, Shown
<1>2. CASE NoneBegins /\ acct'.pending = acct.pending /\ (Changing' = {} => Changing = {})
  BY <1>2 DEF Clear, NoneBegins, Shown
<1> QED BY <1>1, <1>2

\* A step of one request.
Alone(q) == \A r \in Procs \ {q} : pc'[r] = pc[r] /\ loc'[r] = loc[r]

LEMMA ChangingAlone ==
  ASSUME NEW q \in Procs, Alone(q)
  PROVE  /\ q \in Changing' => Changing' = Changing \cup {q}
         /\ q \notin Changing' => Changing' = Changing \ {q}
         /\ q \in Changing' => (pc'[q] \in ChangeSteps \/ loc'[q].upgrading)
BY DEF Changing, Alone

\* One change at a time is kept by a step that does not begin a second one.
LEMMA StepClear ==
  ASSUME SbBase, Clear, NEW q \in Procs, Alone(q),
         q \in Changing' => q \in Changing \/ Changing = {},
         NoneRises, RowHolds, NoneBegins \/ q \in Changing,
         acct'.sub \in {acct.sub, NoSub} \/ Comping = {},
         fresh' \subseteq {q} \/ (fresh' \subseteq fresh \cup {q} /\ PlanHolds),
         OneLive', WaitsHere', Shown', Replaces(q)', Promise(q)', Found(q)'
  PROVE  Clear'
<1>1. /\ \A r \in Procs \ {q} : pc'[r] = pc[r] /\ loc'[r] = loc[r]
      /\ Changing' \subseteq Changing \cup {q}
      /\ q \notin Changing' => Changing' \subseteq Changing
  BY ChangingAlone DEF Alone
<1>2. OneChange'
  BY <1>1 DEF Clear, OneChange
<1> DEFINE S == Procs \ {q}
<1>3. q \in Changing => S \cap Changing = {}
  BY DEF Clear, OneChange
<1>4. \A r \in S : Replaces(r)' /\ Promise(r)' /\ Found(r)'
  <2>1. /\ S \in SUBSET Procs /\ \A r \in S : pc'[r] = pc[r] /\ loc'[r] = loc[r]
        /\ NoneBegins \/ S \cap Changing = {}
        /\ fresh' \cap S = {} \/ (fresh' \cap S \subseteq fresh /\ PlanHolds)
    BY <1>1, <1>3
  <2> HIDE DEF S
  <2> QED BY <2>1, OthersKeep
<1> QED BY <1>2, <1>4 DEF Clear

\* A step of none.
LEMMA RestClear ==
  ASSUME SbBase, Clear, UNCHANGED <<pc, loc>>, NoneRises, RowHolds, NoneBegins,
         acct'.sub \in {acct.sub, NoSub} \/ Comping = {},
         fresh' = {} \/ (fresh' \subseteq fresh /\ PlanHolds),
         OneLive', NoneWaits' \/ acct'.pending = acct.pending
  PROVE  Clear'
<1>1. \A r \in Procs : Replaces(r)' /\ Promise(r)' /\ Found(r)'
  BY OthersKeep
<1>2. Changing' = Changing
  BY DEF Changing
<1>3. OneChange'
  BY <1>2 DEF Clear, OneChange
<1>4. WaitsHere' /\ Shown'
  BY <1>2, StillHere, StillShown
<1> QED BY <1>1, <1>3, <1>4 DEF Clear

-----------------------------------------------------------------------------
(* With nothing blurred: what each action does to the promises.             *)

\* A step of a request that leaves row and subscriptions alone.
LEMMA QuietClear ==
  ASSUME SbBase, Clear, NEW q \in Procs, Alone(q), UNCHANGED <<acct, subs>>,
         q \in Changing' => q \in Changing \/ Changing = {},
         q \in Changing /\ q \notin Changing' => NoneWaits,
         fresh' \subseteq fresh \cup {q}, Replaces(q)', Promise(q)', Found(q)'
  PROVE  Clear'
<1>1. /\ NoneRises /\ NoneBegins /\ (NoneWaits' <=> NoneWaits) /\ (OneLive' <=> OneLive)
      /\ RowHolds /\ PlanHolds
  BY SubsHold
<1>2. Changing' = {} => Changing = {} \/ NoneWaits'
  BY <1>1, ChangingAlone
<1>3. WaitsHere' /\ Shown'
  BY <1>1, <1>2, StillHere, StillShown
<1>4. OneLive'
  BY <1>1 DEF Clear
<1> QED BY <1>1, <1>3, <1>4, StepClear

\* A reconcile ends, or goes on with the upgrade it is part of.
LEMMA ReconcileEnds ==
  ASSUME SbBase, NEW q \in Procs, pc[q] \in ReconcileSteps, AfterReconcile(q)
  PROVE  /\ Alone(q) /\ (q \in Changing' <=> q \in Changing) /\ Replaces(q)'
         /\ Promise(q) /\ (NoneWaits => NoneWaits') => Promise(q)'
         /\ UNCHANGED <<ops, faults>> /\ pc'[q] \in {"idle", "up_clear"}
<1>1. PICK step \in {"idle", "up_clear"}, l \in Local :
        /\ pc' = [pc EXCEPT ![q] = step] /\ loc' = [loc EXCEPT ![q] = l]
        /\ Ready(step, l, Born) /\ UNCHANGED <<ops, faults>>
        /\ step = "up_clear" <=> loc[q].upgrading
  BY GoesOn, AfterReconcileFacts
<1>2. pc'[q] = step /\ loc'[q] = l /\ Alone(q)
  BY <1>1 DEF SbBase, SbRequests, Alone
<1>3. step = "idle" => ~l.upgrading
  BY <1>1 DEF Ready
<1>4. q \in Changing' <=> q \in Changing
  BY <1>1, <1>2, <1>3 DEF Changing, ChangeSteps, ReconcileSteps
<1>5. Replaces(q)'
  BY <1>1, <1>2 DEF Replaces
<1>6. Promise(q) /\ (NoneWaits => NoneWaits') => Promise(q)'
  BY <1>1, <1>2, <1>3 DEF Promise, ReconcileSteps
<1> QED BY <1>1, <1>2, <1>4, <1>5, <1>6

\* A request begins.
LEMMA BeginClear ==
  ASSUME SbBase, Clear, NEW q \in Procs, NEW step \in Steps, NEW l \in Local,
         Begin(q, step, l), ~blurred',
         step \in {"rc_read", "hook_get", "co_customer", "co_session", "ch_get", "cs_get",
                   "cs_clear", "ca_get", "resume", "cl_cancel", "comp"},
         l.upgrading => step = "ch_get",
         step \in {"ch_get", "cs_get", "ca_get", "cl_cancel"} => l.sub.id = acct.sub,
         step \in {"cs_clear", "comp"} => acct.sub = NoSub
  PROVE  Clear'
<1>1. /\ pc[q] = "idle" /\ UNCHANGED <<acct, subs, fresh>>
      /\ pc' = [pc EXCEPT ![q] = step] /\ loc' = [loc EXCEPT ![q] = l]
      /\ step \in ChangeSteps \cup {"cl_cancel", "co_session"} => Changing \cup Comping = {}
  BY DEF Begin
<1>2. pc'[q] = step /\ loc'[q] = l /\ Alone(q)
  BY <1>1 DEF SbBase, SbRequests, Alone
<1>3. q \notin fresh' /\ ~loc[q].upgrading
  BY <1>1, GoesOn DEF Ready
<1>4. q \notin Changing /\ (q \in Changing' => Changing = {})
  BY <1>1, <1>2, <1>3 DEF Changing, ChangeSteps
<1>5. /\ NoSub \notin Live /\ (NoneWaits' <=> NoneWaits) /\ Live' = Live
      /\ \A s \in Live : Waiting(s)' <=> Waiting(s)
  <2>1. Live \subseteq SubIds /\ NoSub \notin SubIds
    BY StripeFacts DEF Live
  <2>2. UNCHANGED subs
    BY <1>1
  <2> QED BY <2>1, <2>2, SubsHold, SubsRest
<1>6. Replaces(q)'
  BY <1>1, <1>2, <1>5 DEF Replaces
<1>7. acct.sub = NoSub => NoneWaits
  BY <1>5 DEF Clear, WaitsHere, NoneWaits
<1>8. Promise(q)'
  <2>1. CASE step \in {"ch_get", "cs_get", "ca_get"}
    BY <1>1, <1>2, <1>5, <2>1 DEF Promise, Clear, WaitsHere, ReconcileSteps
  <2>2. CASE step \notin {"ch_get", "cs_get", "ca_get"}
    BY <1>1, <1>2, <1>5, <1>7, <2>2 DEF Promise, ReconcileSteps
  <2> QED BY <2>1, <2>2
<1>9. Found(q)'
  BY <1>3 DEF Found
<1> QED BY <1>1, <1>2, <1>4, <1>6, <1>8, <1>9, QuietClear

\* All that begin.
LEMMA BeginsClear ==
  ASSUME SbBase, Clear, NEW q \in Procs, ~blurred',
         \/ BillingStatus(q) \/ SessionCompleted(q) \/ CreateCheckout(q)
         \/ CancelScheduledChange(q) \/ CancelSubscription(q) \/ ResumeSubscription(q)
         \/ GrantComp(q) \/ ApplyPlanChange(q)
  PROVE  Clear'
<1> DEFINE s == acct.sub
<1>0. s \in SubIds \cup {NoSub}
  BY DEF SbBase, SbRow, RowType
<1>1. /\ About(s) \in Local /\ About(s).sub.id = s /\ About(s).upgrading = FALSE
      /\ NoLocal \in Local /\ NoLocal.upgrading = FALSE
      /\ {"rc_read", "hook_get", "co_customer", "co_session", "ch_get", "cs_get", "cs_clear",
          "ca_get", "resume", "cl_cancel", "comp"} \subseteq Steps
  BY <1>0, AboutFacts, EmptyFacts DEF Steps, ReconcileSteps, ChangeSteps
<1>2. CASE BillingStatus(q)
  <2>1. Begin(q, "rc_read", NoLocal)
    BY <1>2 DEF BillingStatus
  <2> QED BY <1>1, <2>1, BeginClear
<1>3. CASE SessionCompleted(q)
  <2>1. PICK t \in Live : Begin(q, "hook_get", [About(t) EXCEPT !.sub = Snapshot(t)])
    BY <1>3 DEF SessionCompleted
  <2> DEFINE m == About(t)
             l == [m EXCEPT !.sub = Snapshot(t)]
  <2>2. t \in SubIds /\ t \in Born
    BY DEF Live, Born
  <2>3. Snapshot(t) \in SnapType /\ m \in Local /\ m.upgrading = FALSE
    BY <2>2, SnapshotFacts, AboutFacts DEF SbBase
  <2> HIDE DEF m
  <2>4. l \in Local /\ l.upgrading = FALSE
    BY <2>3, KnowMore
  <2>5. Begin(q, "hook_get", l)
    BY <2>1 DEF m
  <2> HIDE DEF l
  <2> QED BY <1>1, <2>4, <2>5, BeginClear
<1>4. CASE CreateCheckout(q)
  <2>1. PICK step \in {"co_customer", "co_session"}, l \in Local :
          Begin(q, step, l) /\ l.upgrading = FALSE
    BY <1>4, CheckoutBegins DEF SbBase
  <2> QED BY <1>1, <2>1, BeginClear
<1>5. CASE CancelScheduledChange(q) \/ CancelSubscription(q) \/ ResumeSubscription(q)
           \/ GrantComp(q)
  <2>1. PICK step \in {"cs_get", "cs_clear", "ca_get", "resume", "cl_cancel", "comp"} :
          /\ Begin(q, step, About(s))
          /\ step \in {"cs_clear", "comp"} => acct.sub = NoSub
    BY <1>5 DEF CancelScheduledChange, CancelSubscription, ResumeSubscription, GrantComp
  <2> QED BY <1>1, <2>1, BeginClear
<1>6. CASE ApplyPlanChange(q)
  <2>1. PICK l \in Local : Begin(q, "ch_get", l) /\ l.sub.id = acct.sub
    BY <1>6, ApplyPlanChangeKeeps
  <2> QED BY <1>1, <2>1, BeginClear
<1> QED BY <1>2, <1>3, <1>4, <1>5, <1>6

\* A reconcile looks at the row, and lists the subscriptions.
LEMMA RcReadClear ==
  ASSUME SbBase, Clear, NEW q \in Procs, RcRead(q)
  PROVE  Clear'
<1>1. /\ pc[q] = "rc_read" /\ UNCHANGED <<acct, subs, fresh>> /\ q \notin fresh
  BY GoesOn DEF RcRead
<1>2. /\ (NoneWaits' <=> NoneWaits) /\ Promise(q)
      /\ pc[q] \in ReconcileSteps /\ pc[q] \notin ChangeSteps
  BY <1>1, SubsHold DEF Clear, ReconcileSteps, ChangeSteps
<1>3. Found(q)'
  BY <1>1 DEF Found
<1>4. /\ Alone(q) /\ (q \in Changing' <=> q \in Changing) /\ Replaces(q)' /\ Promise(q)'
  <2>1. CASE AfterReconcile(q)
    BY <1>2, <2>1, ReconcileEnds
  <2>2. CASE ~AfterReconcile(q)
    <3>1. PICK step \in {"rc_list", "rc_expire"}, l \in Local :
            /\ pc' = [pc EXCEPT ![q] = step] /\ loc' = [loc EXCEPT ![q] = l]
            /\ l.upgrading = loc[q].upgrading
      BY <2>2, RcReadGoes
    <3>2. pc'[q] = step /\ loc'[q] = l /\ Alone(q)
      BY <3>1 DEF SbBase, SbRequests, Alone
    <3>3. q \in Changing' <=> q \in Changing
      BY <1>2, <3>1, <3>2 DEF Changing, ChangeSteps
    <3>4. Replaces(q)' /\ Promise(q)'
      BY <1>2, <3>1, <3>2 DEF Replaces, Promise, ReconcileSteps
    <3> QED BY <3>2, <3>3, <3>4
  <2> QED BY <2>1, <2>2
<1> QED BY <1>1, <1>3, <1>4, QuietClear

\* What it lists is what there is.
LEMMA RcListClear ==
  ASSUME SbBase, Clear, NEW q \in Procs, RcList(q)
  PROVE  Clear'
<1> DEFINE x == ChosenOf(loc[q].customer)
           l == [loc[q] EXCEPT !.sub = x]
<1>1. /\ pc[q] = "rc_list" /\ fresh' \subseteq fresh \cup {q} /\ UNCHANGED <<acct, subs>>
      /\ pc' = [pc EXCEPT ![q] = "rc_write"] /\ loc' = [loc EXCEPT ![q] = l]
  BY DEF RcList, Goto
<1>2. l.upgrading = loc[q].upgrading
  <2>1. loc[q] \in Local /\ x \in SnapType
    BY GoesOn, ChosenOfFacts DEF SbBase
  <2> HIDE DEF x
  <2> QED BY <2>1, KnowMore
<1> HIDE DEF l
<1>3. pc'[q] = "rc_write" /\ loc'[q] = l /\ Alone(q)
  BY <1>1 DEF SbBase, SbRequests, Alone
<1>4. (NoneWaits' <=> NoneWaits) /\ Promise(q)
  BY <1>1, SubsHold DEF Clear
<1>5. q \in Changing' <=> q \in Changing
  BY <1>1, <1>2, <1>3 DEF Changing, ChangeSteps
<1>6. Replaces(q)' /\ Promise(q)' /\ Found(q)'
  BY <1>1, <1>2, <1>3, <1>4 DEF Replaces, Promise, Found, ReconcileSteps
<1> QED BY <1>1, <1>3, <1>5, <1>6, QuietClear

\* A comp that has run out is taken off a row that has no subscription.
LEMMA RcExpireClear ==
  ASSUME SbBase, Clear, ~blurred, NEW q \in Procs, RcExpire(q), ~blurred'
  PROVE  Clear'
<1>1. /\ pc[q] = "rc_expire" /\ acct' = ResetToFree("none") /\ AfterReconcile(q)
      /\ UNCHANGED <<subs, fresh>> /\ Changing = {} /\ Comped /\ q \notin fresh
  BY GoesOn DEF RcExpire
<1>2. acct.sub = NoSub /\ acct.pending = Free /\ NoSub \notin Live
  BY <1>1, StripeFacts DEF SbBase, SbRow, Live
<1>3. /\ acct'.plan = "free" /\ acct'.sub = NoSub /\ acct'.pending = Free
      /\ acct'.customer = acct.customer
  BY <1>1, ResetRow DEF SbBase
<1>4. /\ NoneRises /\ NoneBegins /\ (NoneWaits' <=> NoneWaits) /\ (OneLive' <=> OneLive)
      /\ Live' = Live /\ Chosen' = Chosen
  BY <1>1, <1>3, SubsHold
<1>5. RowHolds /\ PlanHolds
  BY <1>2, <1>3, <1>4 DEF RowHolds, PlanHolds
<1>6. /\ Alone(q) /\ (q \in Changing' <=> q \in Changing) /\ Replaces(q)' /\ Promise(q)'
  BY <1>1, <1>4, ReconcileEnds DEF Clear, ReconcileSteps
<1>7. WaitsHere' /\ Shown' /\ OneLive' /\ Found(q)'
  BY <1>1, <1>2, <1>3, <1>4, <1>5, StillHere, StillShown DEF Clear, Found
<1> QED BY <1>1, <1>2, <1>3, <1>4, <1>5, <1>6, <1>7, StepClear

\* The row is given the subscription that Stripe would list: one row, one subscription.
LEMMA ChosenWritten ==
  ASSUME SbBase, Clear, Own, UNCHANGED subs, acct'.customer = acct.customer,
         Chosen.status = "active" =>
           /\ acct'.sub = Chosen.id /\ acct'.pending = acct.pending
           /\ acct'.plan = Chosen.price.plan
  PROVE  /\ RowHolds /\ PlanHolds /\ WaitsHere'
         /\ (Changing' = {} => Changing = {}) => Shown'
<1>1. /\ NoneBegins /\ Live' = Live /\ Chosen' = Chosen /\ \A s \in SubIds : Waiting(s)' <=> Waiting(s)
  BY SubsHold, SubsRest
<1>2. CASE Live = {}
  BY <1>1, <1>2 DEF RowHolds, PlanHolds, WaitsHere, Shown
<1>3. CASE Live # {}
  <2>1. Chosen.id \in Live /\ Chosen.status = "active"
    BY <1>3, ChosenFacts DEF SbBase
  <2>2. acct'.sub = Chosen.id /\ acct'.pending = acct.pending /\ acct'.plan = Chosen.price.plan
    BY <2>1
  <2>3. \A s \in Live : s = Chosen.id
    BY <2>1 DEF Clear, OneLive
  <2>4. RowHolds
    BY <2>2, <2>3 DEF RowHolds
  <2>5. PlanHolds
    BY <1>1, <2>2 DEF PlanHolds
  <2>6. WaitsHere'
    BY <1>1, <2>2, <2>3 DEF WaitsHere
  <2>7. (Changing' = {} => Changing = {}) => Shown'
    BY <1>1, <2>2, StillShown
  <2> QED BY <2>4, <2>5, <2>6, <2>7
<1> QED BY <1>2, <1>3

\* A reconcile that is fresh writes.
LEMMA RcWriteClear ==
  ASSUME SbBase, Clear, Own, NEW q \in Procs, RcWrite(q), ~blurred'
  PROVE  Clear'
<1>1. /\ pc[q] = "rc_write" /\ UNCHANGED subs /\ fresh' \subseteq fresh
      /\ Comping = {} /\ q \in fresh /\ loc[q].sub = Chosen
      /\ \/ AfterReconcile(q) /\ q \notin fresh'
         \/ Step(q, "rc_after")
  BY GoesOn DEF RcWrite, Relisted
<1>2. /\ acct'.customer = acct.customer
      /\ Chosen.status = "active" =>
           /\ acct'.sub = Chosen.id /\ acct'.pending = acct.pending
           /\ acct'.plan = Chosen.price.plan
  BY <1>1, RcWriteRow
<1>3. /\ RowHolds /\ PlanHolds /\ WaitsHere' /\ ((Changing' = {} => Changing = {}) => Shown')
  BY <1>1, <1>2, ChosenWritten
<1>4. /\ NoneRises /\ NoneBegins /\ (NoneWaits' <=> NoneWaits) /\ OneLive'
      /\ Live' = Live /\ Chosen' = Chosen
  BY <1>1, <1>2, SubsHold DEF Clear
<1>5. /\ Alone(q) /\ (q \in Changing' <=> q \in Changing) /\ Replaces(q)' /\ Promise(q)'
      /\ Found(q)'
  <2>1. CASE AfterReconcile(q) /\ q \notin fresh'
    BY <1>1, <1>4, <2>1, ReconcileEnds DEF Clear, ReconcileSteps, Found
  <2>2. CASE Step(q, "rc_after")
    <3>1. pc' = [pc EXCEPT ![q] = "rc_after"] /\ loc' = [loc EXCEPT ![q] = loc[q]]
      BY <2>2 DEF Step, Goto
    <3>2. pc'[q] = "rc_after" /\ loc'[q] = loc[q] /\ Alone(q)
      BY <3>1 DEF SbBase, SbRequests, Alone
    <3>3. q \in Changing' <=> q \in Changing
      BY <1>1, <3>2 DEF Changing, ChangeSteps
    <3>4. Replaces(q)' /\ Promise(q)'
      BY <1>1, <1>4, <3>2 DEF Clear, Replaces, Promise, ReconcileSteps
    <3>5. Live # {} => Chosen.status = "active"
      BY ChosenFacts DEF SbBase
    <3>6. Found(q)'
      BY <1>2, <1>4, <3>2, <3>5 DEF Found
    <3> QED BY <3>2, <3>3, <3>4, <3>6
  <2> QED BY <1>1, <2>1, <2>2
<1>6. Changing' = {} => Changing = {}
  BY <1>5, ChangingAlone
<1> QED BY <1>1, <1>3, <1>4, <1>5, <1>6, StepClear

\* A reconcile that is fresh decides on the markers: it is about to clear them only if the
\* plan they show is the one of the live subscription, or no schedule is there.
LEMMA RcAfterClear ==
  ASSUME SbBase, Clear, ~blurred, NEW q \in Procs, RcAfter(q), ~blurred'
  PROVE  Clear'
<1>1. /\ pc[q] = "rc_after" /\ UNCHANGED <<acct, subs>> /\ fresh' \subseteq fresh
      /\ q \in fresh /\ loc[q].sub = Chosen
      /\ \/ /\ TakenEffect(loc[q].sub)
            /\ Goto(q, "rc_clear", [loc[q] EXCEPT !.target = acct.pending])
         \/ AfterReconcile(q) /\ q \notin fresh'
  BY GoesOn DEF RcAfter
<1>2. /\ (NoneWaits' <=> NoneWaits) /\ Live' = Live /\ Chosen' = Chosen
      /\ pc[q] \in ReconcileSteps /\ pc[q] \notin ChangeSteps /\ Promise(q) /\ Found(q)
  BY <1>1, SubsHold DEF Clear, ReconcileSteps, ChangeSteps
<1>3. /\ Alone(q) /\ (q \in Changing' <=> q \in Changing) /\ Replaces(q)' /\ Promise(q)'
      /\ Found(q)'
  <2>1. CASE AfterReconcile(q) /\ q \notin fresh'
    BY <1>2, <2>1, ReconcileEnds DEF Found
  <2>2. CASE /\ TakenEffect(loc[q].sub)
             /\ Goto(q, "rc_clear", [loc[q] EXCEPT !.target = acct.pending])
    <3> DEFINE p == acct.pending
               l == [loc[q] EXCEPT !.target = p]
    <3>1. pc' = [pc EXCEPT ![q] = "rc_clear"] /\ loc' = [loc EXCEPT ![q] = l]
      BY <2>2 DEF Goto
    <3>2. p \in Price \cup {Free} /\ p # Free /\ loc[q] \in Local
          /\ (acct.plan = p.plan \/ Chosen.schedule = Free)
      BY <1>1, <2>2, GoesOn DEF TakenEffect, SbBase, SbRow, RowType
    <3>3. ~Comped /\ p.plan \in PaidPlans
      BY <3>2, StripeFacts DEF SbBase, SbRow
    <3> HIDE DEF p
    <3>4. l.target = p /\ l.upgrading = loc[q].upgrading /\ l.sub = loc[q].sub
      BY <3>2, KnowMore
    <3> HIDE DEF l
    <3>5. pc'[q] = "rc_clear" /\ loc'[q] = l /\ Alone(q)
      BY <3>1 DEF SbBase, SbRequests, Alone
    <3>6. q \in Changing' <=> q \in Changing
      BY <1>2, <3>4, <3>5 DEF Changing, ChangeSteps
    <3>7. Replaces(q)' /\ Promise(q)'
      BY <1>2, <3>4, <3>5 DEF Replaces, Promise, ReconcileSteps
    <3>8. Live # {} => p.plan = Chosen.price.plan \/ Chosen.schedule = Free
      BY <1>1, <1>2, <3>2, <3>3, StripeFacts DEF Found
    <3>9. Found(q)'
      BY <1>2, <3>4, <3>5, <3>8 DEF Found
    <3> QED BY <3>5, <3>6, <3>7, <3>9
  <2> QED BY <1>1, <2>1, <2>2
<1> QED BY <1>1, <1>3, QuietClear

\* It clears them when nothing waits.
LEMMA RcClearClear ==
  ASSUME SbBase, Clear, Own, NEW q \in Procs, RcClear(q), ~blurred'
  PROVE  Clear'
<1>1. /\ pc[q] = "rc_clear" /\ acct' = [acct EXCEPT !.pending = Free] /\ UNCHANGED subs
      /\ fresh' = fresh \ {q} /\ q \in fresh /\ loc[q].sub = Chosen /\ AfterReconcile(q)
      /\ acct.pending = loc[q].target /\ acct.pending.plan # loc[q].sub.price.plan
  BY GoesOn DEF RcClear, ClearPending
<1>4. /\ acct'.sub = acct.sub /\ acct'.plan = acct.plan /\ (Comped' <=> Comped)
      /\ acct'.customer = acct.customer
  <2>1. acct \in RowType
    BY DEF SbBase, SbRow
  <2> QED BY <1>1, <2>1 DEF RowType, Comped
<1>2. /\ NoneRises /\ NoneBegins /\ (NoneWaits' <=> NoneWaits) /\ OneLive'
      /\ Live' = Live /\ Chosen' = Chosen
  BY <1>1, <1>4, SubsHold DEF Clear
<1>3. NoneWaits
  <2> SUFFICES ASSUME NEW s \in Live, Waiting(s) PROVE FALSE
    BY DEF NoneWaits
  <2>1. Chosen.schedule = Free
    BY <1>1 DEF Clear, Found
  <2>2. Chosen.id = s /\ Chosen.schedule = subs[Chosen.id].schedule
    BY ChosenFacts DEF SbBase, Clear, OneLive
  <2> QED BY <2>1, <2>2 DEF Waiting
<1>5. RowHolds /\ PlanHolds
  BY <1>2, <1>4 DEF RowHolds, PlanHolds
<1>6. /\ Alone(q) /\ (q \in Changing' <=> q \in Changing) /\ Replaces(q)' /\ Promise(q)'
  BY <1>1, <1>2, ReconcileEnds DEF Clear, ReconcileSteps
<1>7. WaitsHere' /\ Shown' /\ Found(q)'
  BY <1>1, <1>2, <1>3, <1>5, StillHere, StillShown DEF Found
<1> QED BY <1>1, <1>2, <1>4, <1>5, <1>6, <1>7, StepClear

\* Events that are up to date.
LEMMA WebhooksClear ==
  ASSUME SbBase, Clear, Own, NEW q \in Procs, DeliverEvent(q) \/ HookApply(q), ~blurred'
  PROVE  Clear'
<1>1. /\ acct' = Applied(Chosen) /\ Comping = {} /\ UNCHANGED subs /\ fresh' \subseteq fresh
      /\ \/ UNCHANGED <<pc, loc>>
         \/ pc[q] = "hook_get" /\ Return(q)
  BY DEF DeliverEvent, HookApply, Relisted
<1>0. Chosen.id # NoSub
  <2>1. CASE DeliverEvent(q)
    <3>1. Chosen \in events
      BY <2>1 DEF DeliverEvent
    <3> QED BY <3>1, StripeFacts DEF SbBase, SbSubs, Born
  <2>2. CASE HookApply(q)
    <3>1. pc[q] = "hook_get" /\ loc[q].sub = Chosen
      BY <2>2 DEF HookApply
    <3> QED BY <3>1, GoesOn DEF Ready
  <2> QED BY <2>1, <2>2
<1>2. /\ Chosen \in SnapType /\ (Chosen.status = "active" => Chosen.price \in Price) /\ SbRow
      /\ Chosen.customer = acct.customer
  BY <1>0, ChosenFacts DEF SbBase
<1>3. /\ acct'.sub = Chosen.id /\ acct'.pending = acct.pending
      /\ acct'.customer = acct.customer
      /\ Chosen.status = "active" => acct'.plan = Chosen.price.plan
  BY <1>1, <1>2, AppliedFacts
<1>4. /\ RowHolds /\ PlanHolds /\ WaitsHere' /\ ((Changing' = {} => Changing = {}) => Shown')
  BY <1>1, <1>3, ChosenWritten
<1>5. /\ NoneRises /\ NoneBegins /\ (NoneWaits' <=> NoneWaits) /\ OneLive'
  BY <1>1, SubsHold DEF Clear
<1>6. CASE UNCHANGED <<pc, loc>>
  BY <1>1, <1>3, <1>4, <1>5, <1>6, RestClear
<1>7. CASE pc[q] = "hook_get" /\ Return(q)
  <2>1. pc' = [pc EXCEPT ![q] = "idle"] /\ loc' = [loc EXCEPT ![q] = NoLocal]
    BY <1>7 DEF Return, Goto
  <2>2. pc'[q] = "idle" /\ loc'[q] = NoLocal /\ Alone(q)
    BY <2>1 DEF SbBase, SbRequests, Alone
  <2>3. q \notin fresh /\ ~loc[q].upgrading
    BY <1>7, GoesOn DEF Ready
  <2>4. q \notin Changing' /\ q \notin Changing
    BY <1>7, <2>2, <2>3, EmptyFacts DEF Changing, ChangeSteps
  <2>5. Replaces(q)' /\ Promise(q)' /\ Found(q)'
    BY <1>1, <2>2, <2>3 DEF Replaces, Promise, Found, ReconcileSteps
  <2>6. Changing' = {} => Changing = {}
    BY <2>2, <2>4, ChangingAlone
  <2> QED BY <1>1, <1>4, <1>5, <2>2, <2>4, <2>5, <2>6, StepClear
<1> QED BY <1>1, <1>6, <1>7

\* A customer is made for a checkout, and stored: no reconcile is fresh that listed the
\* subscriptions of another one.
LEMMA CustomerClear ==
  ASSUME SbBase, Clear, NEW q \in Procs, CoCustomer(q) \/ CoStore(q)
  PROVE  Clear'
<1>1. PICK step \in {"co_store", "co_session"}, l \in Local :
        /\ pc' = [pc EXCEPT ![q] = step] /\ loc' = [loc EXCEPT ![q] = l]
        /\ l.upgrading = loc[q].upgrading
  <2>0. loc[q] \in Local
    BY GoesOn
  <2>1. CASE CoCustomer(q)
    <3>1. PICK c \in Customers : Goto(q, "co_store", [loc[q] EXCEPT !.customer = c])
      BY <2>1 DEF CoCustomer
    <3> DEFINE l == [loc[q] EXCEPT !.customer = c]
    <3>2. l \in Local /\ l.upgrading = loc[q].upgrading
      BY <2>0, KnowMore DEF AnyCustomer
    <3>3. pc' = [pc EXCEPT ![q] = "co_store"] /\ loc' = [loc EXCEPT ![q] = l]
      BY <3>1 DEF Goto
    <3> HIDE DEF l
    <3> QED BY <3>2, <3>3
  <2>2. CASE CoStore(q)
    BY <2>0, <2>2 DEF CoStore, Step, Goto
  <2> QED BY <2>1, <2>2
<1>2. /\ pc[q] \in {"co_customer", "co_store"} /\ UNCHANGED subs /\ fresh' \subseteq fresh
      /\ q \notin fresh /\ ~loc[q].upgrading
      /\ fresh' = {} \/ acct'.customer = acct.customer
  BY GoesOn DEF CoCustomer, CoStore, Relisted, Ready
<1>3. pc'[q] = step /\ loc'[q] = l /\ Alone(q)
  BY <1>1 DEF SbBase, SbRequests, Alone
<1>4. q \notin Changing /\ q \notin Changing'
  BY <1>1, <1>2, <1>3 DEF Changing, ChangeSteps
<1>5. /\ acct'.sub = acct.sub /\ acct'.plan = acct.plan /\ acct'.pending = acct.pending
      /\ acct'.status = acct.status
  BY CoStoreKeeps DEF CoCustomer
<1>6. /\ NoneRises /\ NoneBegins /\ OneLive' /\ Live' = Live
      /\ acct'.customer = acct.customer => Chosen' = Chosen
  BY <1>2, SubsHold DEF Clear
<1>7. RowHolds /\ (fresh' = {} \/ PlanHolds)
  BY <1>2, <1>5, <1>6 DEF RowHolds, PlanHolds, Comped
<1>8. Replaces(q)' /\ Promise(q)' /\ Found(q)'
  BY <1>1, <1>2, <1>3 DEF Replaces, Promise, Found, ReconcileSteps
<1>9. WaitsHere' /\ Shown'
  <2>1. Changing' = {} => Changing = {}
    BY <1>3, <1>4, ChangingAlone
  <2> QED BY <1>5, <1>6, <1>7, <2>1, StillHere, StillShown
<1> QED BY <1>2, <1>3, <1>4, <1>5, <1>6, <1>7, <1>8, <1>9, StepClear

\* A checkout opens: what is not paid for is not there yet.
LEMMA CoSessionClear ==
  ASSUME SbBase, Clear, NEW q \in Procs, CoSession(q)
  PROVE  Clear'
<1>1. PICK s \in SubIds : \E new \in SubType :
        /\ subs[s].status = "none" /\ subs' = [subs EXCEPT ![s] = new]
        /\ new.status = "draft" /\ new.price \in Price /\ new.schedule = Free /\ ~new.begun
  BY SessionMakes
<1>2. /\ pc[q] = "co_session" /\ UNCHANGED <<acct, events, fresh>>
      /\ pc' = [pc EXCEPT ![q] = "idle"] /\ loc' = [loc EXCEPT ![q] = NoLocal]
  BY SessionMakes DEF history
<1>3. q \notin fresh /\ ~loc[q].upgrading
  BY SessionMakes
<1>6. /\ Live' = Live /\ Chosen' = Chosen /\ \A r \in Born : subs'[r] = subs[r]
      /\ \A r \in SubIds : Waiting(r)' <=> Waiting(r)
  BY <1>1, <1>2, DraftFacts DEF SbBase
<1>7. Live \subseteq Born /\ Live \subseteq SubIds
  BY DEF Live, Born
<1>8. /\ NoneRises /\ NoneBegins /\ RowHolds /\ PlanHolds /\ OneLive'
  BY <1>2, <1>6, <1>7 DEF NoneRises, NoneBegins, RowHolds, PlanHolds, Comped, Clear, OneLive
<1>9. pc'[q] = "idle" /\ loc'[q] = NoLocal /\ Alone(q)
  BY <1>2 DEF SbBase, SbRequests, Alone
<1>10. q \notin Changing' /\ q \notin Changing
  BY <1>2, <1>3, <1>9, EmptyFacts DEF Changing, ChangeSteps
<1>11. Replaces(q)' /\ Promise(q)' /\ Found(q)'
  BY <1>2, <1>3, <1>9 DEF Replaces, Promise, Found, ReconcileSteps
<1>12. WaitsHere' /\ Shown'
  <2>1. Changing' = {} => Changing = {}
    BY <1>9, <1>10, ChangingAlone
  <2> QED BY <1>2, <1>8, <2>1, StillHere, StillShown
<1> QED BY <1>2, <1>8, <1>9, <1>10, <1>11, <1>12, StepClear

\* The subscription is looked at: if it has no schedule, nothing waits.
LEMMA LooksClear ==
  ASSUME SbBase, Clear, NEW q \in Procs, ChGet(q) \/ CsGet(q) \/ CaGet(q)
  PROVE  Clear'
<1> DEFINE s == loc[q].sub.id
<1>1. /\ pc[q] \in {"ch_get", "cs_get", "ca_get"} /\ UNCHANGED <<acct, subs, fresh>>
      /\ q \notin fresh /\ Promise(q) /\ loc[q] \in Local /\ s \in Born
  BY GoesOn DEF ChGet, CsGet, CaGet, history, Clear, Ready
<1>2. PICK step \in {"up_update", "up_release", "dn_create", "dn_phases", "cs_clear",
                     "cs_release", "ca_flag", "ca_release"}, l \in Local :
        /\ pc' = [pc EXCEPT ![q] = step] /\ loc' = [loc EXCEPT ![q] = l] /\ l.sub.id = s
        /\ step \in {"up_update", "cs_clear"} => subs[s].schedule = Free
  <2>1. CASE ChGet(q)
    <3> DEFINE x == Snapshot(s)
               l == IF loc[q].upgrading THEN loc[q] ELSE [loc[q] EXCEPT !.sub = x]
    <3>1. x \in SnapType /\ x.id = s /\ x.schedule = subs[s].schedule
      BY <1>1, SnapshotFacts DEF SbBase
    <3>2. PICK step \in {"up_update", "up_release", "dn_create", "dn_phases"} :
            /\ pc' = [pc EXCEPT ![q] = step] /\ loc' = [loc EXCEPT ![q] = l]
            /\ step = "up_update" => x.schedule = Free
      BY <2>1 DEF ChGet, Goto
    <3> HIDE DEF x
    <3>3. l \in Local /\ l.sub.id = s
      BY <1>1, <3>1, KnowMore
    <3> HIDE DEF l
    <3> QED BY <3>1, <3>2, <3>3
  <2>2. CASE CsGet(q) \/ CaGet(q)
    <3>1. PICK step \in {"cs_clear", "cs_release", "ca_flag", "ca_release"} :
            /\ pc' = [pc EXCEPT ![q] = step] /\ loc' = [loc EXCEPT ![q] = loc[q]]
            /\ step = "cs_clear" => subs[s].schedule = Free
      BY <2>2 DEF CsGet, CaGet, Step, Goto
    <3> QED BY <1>1, <3>1
  <2> QED BY <2>1, <2>2
<1>3. pc'[q] = step /\ loc'[q] = l /\ Alone(q)
  BY <1>2 DEF SbBase, SbRequests, Alone
<1>4. q \in Changing
  BY <1>1 DEF Changing, ChangeSteps
<1>5. q \in Changing'
  BY <1>3 DEF Changing, ChangeSteps
<1>6. /\ Live' = Live /\ (NoneWaits' <=> NoneWaits) /\ \A r \in Live : Waiting(r)' <=> Waiting(r)
  <2>1. Live \subseteq SubIds
    BY DEF Live
  <2> QED BY <1>1, <2>1, SubsHold, SubsRest
<1>7. /\ s \in Live => acct.sub = s
      /\ \A r \in Live : Waiting(r) => r = s
  BY <1>1 DEF Promise
<1>8. subs[s].schedule = Free => NoneWaits
  BY <1>7 DEF NoneWaits, Waiting
<1>9. Promise(q)'
  BY <1>1, <1>2, <1>3, <1>6, <1>7, <1>8 DEF Promise, ReconcileSteps
<1>10. Replaces(q)' /\ Found(q)'
  BY <1>1, <1>3 DEF Replaces, Found
<1> QED BY <1>1, <1>3, <1>4, <1>5, <1>9, <1>10, QuietClear

\* A change writes to a subscription that lives as before.
LEMMA WriteClear ==
  ASSUME SbBase, Clear, NEW q \in Procs, Alone(q), q \in Changing, UNCHANGED acct,
         NEW s \in Born, NEW new \in SubType, StripeWrites(s, new),
         new.status = subs[s].status, new.price \in Price,
         \/ NoneWaits'
         \/ q \in Changing' /\ \A r \in Live : Waiting(r)' => acct.sub = r,
         Replaces(q)', Promise(q)'
  PROVE  Clear'
<1>1. s \in SubIds /\ subs[s].status \in {"active", "canceled"}
  BY DEF Born
<1>2. /\ subs'[s] = new /\ \A r \in SubIds \ {s} : subs'[r] = subs[r]
      /\ fresh' = {} /\ Live' = IF new.status = "active" THEN Live \cup {s} ELSE Live \ {s}
  BY <1>1, StripeWritesFacts DEF SbBase
<1>3. Live' = Live
  BY <1>1, <1>2 DEF Live
<1>4. NoneRises /\ RowHolds /\ OneLive'
  BY <1>3 DEF NoneRises, RowHolds, Clear, OneLive
<1>5. WaitsHere' /\ Shown'
  BY <1>3 DEF WaitsHere, Shown, NoneWaits
<1>6. Found(q)'
  BY <1>2 DEF Found
<1> QED BY <1>2, <1>4, <1>5, <1>6, StepClear

\* What a write makes of the subscription, and of all the others.
LEMMA WriteFacts ==
  ASSUME SbBase, NEW s \in Born, NEW new \in SubType, StripeWrites(s, new),
         new.status = subs[s].status, new.price \in Price
  PROVE  /\ s \in SubIds /\ subs'[s] = new /\ Live' = Live /\ Live \subseteq SubIds
         /\ \A r \in SubIds \ {s} : subs'[r] = subs[r] /\ (Waiting(r)' <=> Waiting(r))
         /\ Waiting(s)' <=> new.schedule # Free /\ ~new.begun
<1>1. s \in SubIds /\ subs[s].status \in {"active", "canceled"} /\ Live \subseteq SubIds
  BY DEF Born, Live
<1>2. /\ subs'[s] = new /\ \A r \in SubIds \ {s} : subs'[r] = subs[r]
      /\ Live' = IF new.status = "active" THEN Live \cup {s} ELSE Live \ {s}
  BY <1>1, StripeWritesFacts DEF SbBase
<1>3. Live' = Live
  BY <1>1, <1>2 DEF Live
<1> QED BY <1>1, <1>2, <1>3 DEF Waiting

\* A schedule is released: it was the only one that waits.
LEMMA ReleaseClear ==
  ASSUME SbBase, Clear, NEW q \in Procs, ReleaseSchedule(q)
  PROVE  Clear'
<1> DEFINE s == loc[q].sub.id
<1>1. /\ pc[q] \in ReleaseSteps /\ UNCHANGED acct /\ Release(s) /\ Step(q, AfterRelease(pc[q]))
  BY DEF ReleaseSchedule
<1>2. /\ s \in Born /\ s \in SubIds /\ q \notin fresh /\ Promise(q)
  BY <1>1, GoesOn DEF Ready, ReleaseSteps, Born, Clear
<1>3. PICK step \in {"up_update", "cs_clear", "ca_clear"} :
        pc' = [pc EXCEPT ![q] = step] /\ loc' = [loc EXCEPT ![q] = loc[q]]
  BY <1>1 DEF Step, Goto, AfterRelease, ReleaseSteps
<1>4. pc'[q] = step /\ loc'[q] = loc[q] /\ Alone(q)
  BY <1>3 DEF SbBase, SbRequests, Alone
<1>5. q \in Changing
  BY <1>1 DEF Changing, ChangeSteps, ReleaseSteps
<1>6. q \in Changing'
  BY <1>4 DEF Changing, ChangeSteps
<1>7. \A r \in Live : Waiting(r) => r = s
  BY <1>1, <1>2 DEF Promise, ReleaseSteps
<1>8. NoneWaits' => Promise(q)' /\ Replaces(q)'
  BY <1>4 DEF Promise, Replaces, ReconcileSteps
<1>9. CASE subs[s].schedule = Free
  <2>1. UNCHANGED <<subs, fresh>> /\ NoneWaits
    BY <1>1, <1>7, <1>9 DEF Release, StripeRests, NoneWaits, Waiting
  <2>2. NoneWaits'
    BY <2>1, SubsHold
  <2>3. Found(q)'
    BY <1>2, <2>1 DEF Found
  <2> QED BY <1>1, <1>4, <1>5, <1>6, <1>8, <2>1, <2>2, <2>3, QuietClear
<1>10. CASE subs[s].schedule # Free
  <2> DEFINE new == Released(s)
  <2>1. StripeWrites(s, new)
    BY <1>1, <1>10 DEF Release
  <2>2. /\ new \in SubType /\ new.status = subs[s].status /\ new.price \in Price
        /\ new.schedule = Free
    <3>1. new \in SubType /\ new.status = subs[s].status /\ new.price = subs[s].price
          /\ new.schedule = Free
      BY <1>2, ReleasedFacts DEF SbBase
    <3>2. subs[s].price \in Price
      BY <1>2, SnapshotFacts DEF SbBase
    <3> HIDE DEF new
    <3> QED BY <3>1, <3>2
  <2> HIDE DEF new
  <2>3. NoneWaits'
    BY <1>2, <1>7, <2>1, <2>2, WriteFacts DEF NoneWaits
  <2> QED BY <1>1, <1>2, <1>4, <1>5, <1>8, <2>1, <2>2, <2>3, WriteClear
<1> QED BY <1>9, <1>10

\* Stripe is asked to change a live subscription and does.
LEMMA ChangesClear ==
  ASSUME SbBase, Clear, NEW q \in Procs,
         UpUpdate(q) \/ DnCreate(q) \/ DnPhases(q) \/ SetCancelling(q)
  PROVE  Clear'
<1> DEFINE s == loc[q].sub.id
<1>1. /\ pc[q] \in {"up_update", "dn_create", "dn_phases", "ca_flag", "resume"}
      /\ subs[s].status = "active" /\ UNCHANGED acct
  BY DEF UpUpdate, DnCreate, DnPhases, SetCancelling
<1>2. /\ loc[q] \in Local /\ s \in Born /\ s \in Live /\ Ready(pc[q], loc[q], Born)
      /\ subs[s] \in SubType /\ subs[s].price \in Price /\ Promise(q)
  <2>1. loc[q] \in Local /\ s \in Born /\ s \in SubIds /\ Ready(pc[q], loc[q], Born)
    BY <1>1, GoesOn DEF Ready, Born
  <2> QED BY <1>1, <2>1 DEF SbBase, SbSubs, Clear, Live
<1>3. q \in Changing /\ \A r \in Live : r = s
  BY <1>1, <1>2 DEF Changing, ChangeSteps, Clear, OneLive
<1> DEFINE old == subs[s]
<1>4. CASE UpUpdate(q)
  <2> DEFINE p == loc[q].target
             new == [old EXCEPT !.price = p]
             l == [NoLocal EXCEPT !.upgrading = TRUE]
  <2>1. StripeWrites(s, new) /\ Goto(q, "rc_read", l) /\ pc[q] = "up_update"
    BY <1>4 DEF UpUpdate
  <2>2. p \in Price /\ NoneWaits
    BY <1>2, <2>1 DEF Ready, Promise
  <2> HIDE DEF p, old
  <2>3. new \in SubType /\ new.status = old.status /\ new.price = p
        /\ new.schedule = old.schedule /\ new.begun = old.begun
    BY <1>2, <2>2 DEF SubType, old
  <2>4. l.upgrading = TRUE
    BY UpgradeFacts
  <2> HIDE DEF new, l
  <2>5. pc'[q] = "rc_read" /\ loc'[q] = l /\ Alone(q)
    BY <2>1 DEF Goto, SbBase, SbRequests, Alone
  <2>6. ~Waiting(s)
    BY <1>2, <2>2 DEF NoneWaits
  <2>7. NoneWaits'
    BY <1>2, <1>3, <2>1, <2>2, <2>3, <2>6, WriteFacts DEF NoneWaits, Waiting, old
  <2>8. Promise(q)' /\ Replaces(q)'
    BY <2>5, <2>7 DEF Promise, Replaces
  <2> QED BY <1>1, <1>2, <1>3, <2>1, <2>2, <2>3, <2>5, <2>7, <2>8, WriteClear DEF old
<1>5. CASE DnCreate(q)
  <2> DEFINE new == [old EXCEPT !.schedule = old.price]
  <2>1. StripeWrites(s, new) /\ Step(q, "dn_phases") /\ pc[q] = "dn_create"
    BY <1>5 DEF DnCreate
  <2> HIDE DEF old
  <2>2. new \in SubType /\ new.status = old.status /\ new.price = old.price
    BY <1>2 DEF SubType, old
  <2> HIDE DEF new
  <2>3. pc'[q] = "dn_phases" /\ loc'[q] = loc[q] /\ Alone(q)
    BY <2>1 DEF Step, Goto, SbBase, SbRequests, Alone
  <2>4. q \in Changing' /\ acct.sub = s
    BY <1>2, <2>1, <2>3 DEF Changing, ChangeSteps, Promise
  <2>5. Live' = Live
    BY <1>2, <2>1, <2>2, WriteFacts DEF old
  <2>6. Promise(q)' /\ Replaces(q)'
    BY <1>1, <1>3, <2>3, <2>4, <2>5 DEF Promise, Replaces, ReconcileSteps
  <2>7. \A r \in Live : Waiting(r)' => acct.sub = r
    BY <1>3, <2>4
  <2> QED BY <1>1, <1>2, <1>3, <2>1, <2>2, <2>3, <2>4, <2>6, <2>7, WriteClear DEF old
<1>6. CASE DnPhases(q)
  <2> DEFINE p == loc[q].target
             u == loc[q].sub.price
             new == [old EXCEPT !.schedule = p, !.begun = FALSE, !.cancelling = FALSE,
                                !.price = u]
  <2>1. StripeWrites(s, new) /\ Step(q, "dn_mark") /\ pc[q] = "dn_phases"
    BY <1>6 DEF DnPhases
  <2>2. p \in Price /\ u \in Price
    BY <1>2, <2>1 DEF Ready
  <2> HIDE DEF old, p, u
  <2>3. new \in SubType /\ new.status = old.status /\ new.price = u /\ new.schedule = p
    BY <1>2, <2>2 DEF SubType, old
  <2> HIDE DEF new
  <2>4. pc'[q] = "dn_mark" /\ loc'[q] = loc[q] /\ Alone(q)
    BY <2>1 DEF Step, Goto, SbBase, SbRequests, Alone
  <2>5. q \in Changing' /\ acct.sub = s
    BY <1>2, <2>1, <2>4 DEF Changing, ChangeSteps, Promise
  <2>6. Live' = Live /\ subs'[s].schedule = p
    BY <1>2, <2>1, <2>2, <2>3, WriteFacts DEF old
  <2>7. Promise(q)' /\ Replaces(q)'
    BY <1>3, <2>4, <2>6 DEF Promise, Replaces, ReconcileSteps, p
  <2>8. \A r \in Live : Waiting(r)' => acct.sub = r
    BY <1>3, <2>5
  <2> QED BY <1>1, <1>2, <1>3, <2>1, <2>2, <2>3, <2>4, <2>5, <2>7, <2>8, WriteClear DEF old
<1>7. CASE SetCancelling(q)
  <2> DEFINE b == (pc[q] = "ca_flag")
             new == [old EXCEPT !.cancelling = b]
  <2>1. StripeWrites(s, new) /\ Return(q) /\ old.schedule = Free
    BY <1>7 DEF SetCancelling
  <2>2. b \in BOOLEAN
    OBVIOUS
  <2> HIDE DEF old, b
  <2>3. new \in SubType /\ new.status = old.status /\ new.price = old.price
        /\ new.schedule = old.schedule
    BY <1>2, <2>2 DEF SubType, old
  <2> HIDE DEF new
  <2>4. pc'[q] = "idle" /\ loc'[q] = NoLocal /\ Alone(q)
    BY <2>1 DEF Return, Goto, SbBase, SbRequests, Alone
  <2>5. NoneWaits'
    BY <1>2, <1>3, <2>1, <2>3, WriteFacts DEF NoneWaits, old
  <2>6. Promise(q)' /\ Replaces(q)'
    BY <2>4, <2>5 DEF Promise, Replaces, ReconcileSteps
  <2> QED BY <1>1, <1>2, <1>3, <2>1, <2>3, <2>4, <2>5, <2>6, WriteClear DEF old
<1> QED BY <1>4, <1>5, <1>6, <1>7

\* Markers go when nothing waits, and come as what waits.
LEMMA MarkersClear ==
  ASSUME SbBase, Clear, NEW q \in Procs, ClearMarkers(q) \/ DnMark(q), ~blurred'
  PROVE  Clear'
<1>1. /\ pc[q] \in ClearSteps \cup {"dn_mark"} /\ UNCHANGED <<subs, fresh>>
      /\ q \notin fresh /\ Promise(q)
  BY GoesOn DEF ClearMarkers, DnMark, StripeRests, ClearSteps, Clear
<1>2. PICK step \in {"ca_flag", "idle"}, l \in {loc[q], NoLocal} :
        /\ pc' = [pc EXCEPT ![q] = step] /\ loc' = [loc EXCEPT ![q] = l]
        /\ step = "idle" => l = NoLocal
  BY DEF ClearMarkers, DnMark, Step, Return, Goto
<1>3. PICK p : acct' = [acct EXCEPT !.pending = p]
               /\ \/ pc[q] \in ClearSteps /\ p = Free
                  \/ pc[q] = "dn_mark" /\ p = loc[q].target
  BY DEF ClearMarkers, ClearPending, DnMark
<1>4. /\ acct'.pending = p /\ acct'.sub = acct.sub /\ acct'.plan = acct.plan
      /\ (Comped' <=> Comped) /\ acct'.customer = acct.customer
  <2>1. acct \in RowType
    BY DEF SbBase, SbRow
  <2> QED BY <1>3, <2>1 DEF RowType, Comped
<1>5. /\ NoneRises /\ NoneBegins /\ (NoneWaits' <=> NoneWaits) /\ OneLive'
      /\ Live' = Live /\ Chosen' = Chosen
      /\ \A r \in Live : Waiting(r)' <=> Waiting(r)
  <2>1. Live \subseteq SubIds
    BY DEF Live
  <2> QED BY <1>1, <1>4, <2>1, SubsHold, SubsRest DEF Clear
<1>6. RowHolds /\ PlanHolds
  BY <1>4, <1>5 DEF RowHolds, PlanHolds
<1>7. pc'[q] = step /\ loc'[q] = l /\ Alone(q)
  BY <1>2 DEF SbBase, SbRequests, Alone
<1>8. q \in Changing
  BY <1>1 DEF Changing, ChangeSteps, ClearSteps
<1>9. Replaces(q)' /\ Promise(q)' /\ Found(q)'
  BY <1>1, <1>2, <1>7, EmptyFacts DEF Replaces, Promise, Found, ReconcileSteps
<1>10. WaitsHere'
  BY <1>5, <1>6, StillHere
<1>11. Shown'
  <2>1. CASE pc[q] \in ClearSteps
    <3>1. NoneWaits
      BY <1>1, <2>1 DEF Promise, ClearSteps
    <3> QED BY <1>5, <3>1, StillShown
  <2>2. CASE pc[q] \notin ClearSteps
    <3>1. p = loc[q].target /\ \A r \in Live : Waiting(r) => subs[r].schedule = loc[q].target
      BY <1>1, <1>3, <2>2 DEF Promise
    <3> QED BY <1>1, <1>4, <1>5, <3>1 DEF Shown
  <2> QED BY <2>1, <2>2
<1> QED BY <1>1, <1>4, <1>5, <1>6, <1>7, <1>8, <1>9, <1>10, <1>11, StepClear

\* A comp cancels the subscription it takes the place of.
LEMMA ClCancelClear ==
  ASSUME SbBase, Clear, NEW q \in Procs, ClCancel(q)
  PROVE  Clear'
<1> DEFINE s == loc[q].sub.id
<1>1. /\ pc[q] = "cl_cancel" /\ UNCHANGED acct /\ q \notin fresh /\ ~loc[q].upgrading
      /\ s \in Born /\ s \in SubIds /\ acct.sub \in {NoSub, s} /\ NoSub \notin Live
  BY GoesOn, StripeFacts DEF ClCancel, Ready, Clear, Replaces, Born, Live
<1>2. pc' = [pc EXCEPT ![q] = "comp"] /\ loc' = [loc EXCEPT ![q] = loc[q]]
  BY DEF ClCancel, Step, Goto
<1>3. pc'[q] = "comp" /\ loc'[q] = loc[q] /\ Alone(q)
  BY <1>2 DEF SbBase, SbRequests, Alone
<1>4. q \notin Changing /\ q \notin Changing'
  BY <1>1, <1>3 DEF Changing, ChangeSteps
<1>5. Promise(q)'
  BY <1>3 DEF Promise, ReconcileSteps
<1>6. CASE subs[s].status = "active"
  <2> DEFINE new == [Released(s) EXCEPT !.status = "canceled"]
  <2>1. StripeWrites(s, new)
    BY <1>6 DEF ClCancel
  <2>2. new \in SubType /\ new.status = "canceled" /\ new.price = subs[s].price
    BY <1>1, ReleasedFacts DEF SbBase
  <2>3. subs[s].price \in Price
    BY <1>1, SnapshotFacts DEF SbBase
  <2> HIDE DEF new
  <2>4. /\ \A r \in SubIds \ {s} : subs'[r] = subs[r]
        /\ Live' = Live \ {s} /\ fresh' = {}
    BY <1>1, <1>6, <2>1, <2>2, <2>3, StripeWritesFacts DEF SbBase
  <2>5. NoneRises /\ RowHolds /\ OneLive'
    BY <1>1, <2>4 DEF NoneRises, RowHolds, Clear, OneLive
  <2>6. NoneBegins
    <3>1. Live \subseteq SubIds
      BY DEF Live
    <3> QED BY <2>4, <3>1 DEF NoneBegins, Waiting
  <2>7. Replaces(q)' /\ Found(q)'
    BY <1>1, <1>3, <2>4 DEF Replaces, Found
  <2>8. WaitsHere' /\ Shown'
    BY <1>1, <1>3, <1>4, <2>5, <2>6, ChangingAlone, StillHere, StillShown
  <2> QED BY <1>1, <1>3, <1>4, <1>5, <2>4, <2>5, <2>6, <2>7, <2>8, StepClear
<1>7. CASE subs[s].status # "active"
  <2>1. UNCHANGED <<subs, fresh>>
    BY <1>7 DEF ClCancel, StripeRests
  <2>2. Live' = Live /\ s \notin Live
    BY <1>7, <2>1 DEF Live
  <2>3. Replaces(q)' /\ Found(q)'
    BY <1>1, <1>3, <2>1, <2>2 DEF Replaces, Found
  <2> QED BY <1>1, <1>3, <1>4, <1>5, <2>1, <2>3, QuietClear
<1> QED BY <1>6, <1>7

\* The row is comped: its subscription is not live, so nothing waits.
LEMMA CompClear ==
  ASSUME SbBase, Clear, NEW q \in Procs, Comp(q)
  PROVE  Clear'
<1>1. /\ pc[q] = "comp" /\ UNCHANGED <<subs, fresh>> /\ q \notin fresh
      /\ pc' = [pc EXCEPT ![q] = "idle"] /\ loc' = [loc EXCEPT ![q] = NoLocal]
      /\ ~loc[q].upgrading /\ acct.sub \notin Live
  BY GoesOn DEF Comp, Return, Goto, StripeRests, Ready, Clear, Replaces
<1>2. Comped' /\ acct'.sub = NoSub /\ acct'.customer = acct.customer
  BY CompKeeps
<1>3. /\ NoneRises /\ NoneBegins /\ (NoneWaits' <=> NoneWaits) /\ OneLive'
      /\ Live' = Live /\ Chosen' = Chosen
  BY <1>1, <1>2, SubsHold DEF Clear
<1>4. RowHolds /\ PlanHolds
  BY <1>1, <1>2, <1>3 DEF RowHolds, PlanHolds
<1>5. pc'[q] = "idle" /\ loc'[q] = NoLocal /\ Alone(q)
  BY <1>1 DEF SbBase, SbRequests, Alone
<1>6. q \notin Changing /\ q \notin Changing'
  BY <1>1, <1>5, EmptyFacts DEF Changing, ChangeSteps
<1>7. Replaces(q)' /\ Promise(q)' /\ Found(q)'
  BY <1>1, <1>5 DEF Replaces, Promise, Found, ReconcileSteps
<1>8. NoneWaits
  BY <1>1 DEF Clear, WaitsHere, NoneWaits
<1>9. WaitsHere' /\ Shown'
  BY <1>3, <1>4, <1>8, StillHere, StillShown
<1> QED BY <1>1, <1>2, <1>3, <1>4, <1>5, <1>6, <1>7, <1>9, StepClear

\* A customer pays, a period ends, a comp runs out, an event is lost.
LEMMA TimeClear ==
  ASSUME SbBase, Clear, PayCheckout \/ PeriodEnds \/ CompRunsOut \/ LoseEvent, ~blurred'
  PROVE  Clear'
<1>1. CASE PayCheckout
  <2>1. PICK s \in SubIds :
          /\ subs[s].status = "draft" /\ subs'[s].schedule = Free /\ Live' = Live \cup {s}
          /\ \A r \in SubIds \ {s} : subs'[r] = subs[r]
    BY <1>1, PayCheckoutKeeps
  <2>2. UNCHANGED <<acct, pc, loc>> /\ Live = {} /\ fresh' = {}
    BY <1>1 DEF PayCheckout, StripeWrites
  <2>3. Live' = {s} /\ s \notin Born /\ ~Waiting(s)'
    BY <2>1, <2>2 DEF Born, Waiting
  <2>4. NoneRises /\ NoneBegins /\ RowHolds /\ OneLive' /\ NoneWaits'
    BY <2>2, <2>3 DEF NoneRises, NoneBegins, RowHolds, OneLive, NoneWaits
  <2> QED BY <2>2, <2>4, RestClear
<1>2. CASE PeriodEnds
  <2>1. /\ UNCHANGED <<acct, pc, loc>> /\ fresh' = {} /\ Live' \subseteq Live
        /\ \A r \in Live' : Waiting(r)' => Waiting(r) /\ subs'[r] = subs[r]
    BY <1>2, PeriodEndsKeeps
  <2>2. NoneRises /\ NoneBegins /\ RowHolds /\ OneLive'
    BY <2>1 DEF NoneRises, NoneBegins, RowHolds, OneLive, Clear
  <2> QED BY <2>1, <2>2, RestClear
<1>3. CASE CompRunsOut
  <2>1. /\ UNCHANGED <<subs, pc, loc, fresh>> /\ Comped'
        /\ acct'.sub = acct.sub /\ acct'.pending = acct.pending
        /\ acct'.customer = acct.customer
    BY <1>3, CompRunsOutKeeps
  <2>2. /\ NoneRises /\ NoneBegins /\ OneLive' /\ Live' = Live /\ Chosen' = Chosen
    BY <2>1, SubsHold DEF Clear
  <2>3. RowHolds /\ PlanHolds
    BY <2>1, <2>2 DEF RowHolds, PlanHolds
  <2> QED BY <2>1, <2>2, <2>3, RestClear
<1>4. CASE LoseEvent
  <2>1. UNCHANGED <<acct, subs, pc, loc, fresh>>
    BY <1>4 DEF LoseEvent, history
  <2>2. /\ NoneRises /\ NoneBegins /\ OneLive' /\ RowHolds /\ PlanHolds
    BY <2>1, SubsHold DEF Clear
  <2> QED BY <2>1, <2>2, RestClear
<1> QED BY <1>1, <1>2, <1>3, <1>4

-----------------------------------------------------------------------------
(* Customers.                                                               *)

\* With one customer, what is bought and what the requests do is theirs.
LEMMA Theirs ==
  ASSUME SbBase, SbCust, ~twice
  PROVE  /\ \A s \in Born : subs[s].customer = acct.customer
         /\ \A q \in Procs : pc[q] # "co_store" => loc[q].customer \in {NoCustomer, acct.customer}
         /\ Own
<1>1. OneCustomer
  BY DEF SbCust
<1>2. Live \subseteq Born /\ Born \subseteq SubIds
      /\ \A s \in Born : subs[s].status # "none"
  BY DEF Live, Born
<1>3. \A s \in Born : subs[s].customer = acct.customer
  BY <1>1, <1>2 DEF OneCustomer
<1>4. Own
  BY <1>2, <1>3 DEF Own, Listed
<1> QED BY <1>1, <1>3, <1>4 DEF OneCustomer

\* What a step must leave alone: what was bought keeps its customer, and what is bought now
\* is of the customer on file.
SalesStand ==
  /\ Born \subseteq Born'
  /\ \A s \in SubIds : subs[s].status # "none" => subs'[s].customer = subs[s].customer
  /\ twice \/ \A s \in SubIds : subs'[s].status # "none" =>
                subs'[s].customer = acct.customer /\ acct.customer # NoCustomer
  /\ \A e \in events' : e.customer = subs'[e.id].customer

\* Then it keeps the rest, if no request comes to act for another customer.
LEMMA CustFrame ==
  ASSUME SbBase, SbCust, UNCHANGED twice, blurred => blurred', SalesStand,
         twice \/ acct'.customer = acct.customer,
         \A r \in Procs : ActsFor(pc'[r], loc'[r], Born, Owners),
         twice \/ \A r \in Procs : \/ loc'[r].customer \in {NoCustomer, acct.customer}
                                   \/ loc'[r].customer = loc[r].customer /\ pc'[r] = pc[r]
  PROVE  SbCust'
<1>1. \A r \in Procs : ActsFor(pc'[r], loc'[r], Born', Owners')
  <2> SUFFICES ASSUME NEW r \in Procs PROVE ActsFor(pc'[r], loc'[r], Born', Owners')
    OBVIOUS
  <2>1. \A s \in Born : s \in SubIds /\ subs[s].status # "none"
    BY DEF Born
  <2>2. \A s \in Born : Owners'[s] = Owners[s]
    BY <2>1 DEF Owners, SalesStand
  <2> QED BY <2>2 DEF ActsFor, SalesStand
<1>2. ~twice => OneCustomer'
  <2> SUFFICES ASSUME ~twice PROVE OneCustomer'
    OBVIOUS
  <2>1. OneCustomer /\ acct'.customer = acct.customer
    BY DEF SbCust
  <2>2. ASSUME NEW r \in Procs, loc'[r].customer # NoCustomer
        PROVE  \/ loc'[r].customer = acct'.customer
               \/ /\ acct'.customer = NoCustomer /\ pc'[r] = "co_store"
                  /\ \A u \in Procs \ {r} : loc'[u].customer = NoCustomer
    <3>1. CASE loc'[r].customer = acct.customer
      BY <2>1, <3>1
    <3>2. CASE loc'[r].customer # acct.customer
      <4>1. loc'[r].customer = loc[r].customer /\ pc'[r] = pc[r]
        BY <2>2, <3>2
      <4>2. /\ acct.customer = NoCustomer /\ pc[r] = "co_store"
            /\ \A u \in Procs \ {r} : loc[u].customer = NoCustomer
        BY <2>1, <2>2, <3>2, <4>1 DEF OneCustomer
      <4> QED BY <2>1, <4>1, <4>2
    <3> QED BY <3>1, <3>2
  <2>3. \A s \in SubIds : subs'[s].status # "none" =>
          subs'[s].customer = acct'.customer /\ acct'.customer # NoCustomer
    BY <2>1 DEF SalesStand
  <2> QED BY <2>2, <2>3 DEF OneCustomer
<1> QED BY <1>1, <1>2 DEF SbCust, SalesStand

\* Nothing happens at Stripe.
LEMMA BoughtRests ==
  ASSUME SbCust, UNCHANGED subs, events' \subseteq events
  PROVE  SalesStand
BY DEF SbCust, OneCustomer, SalesStand, Born

\* A subscription changes, and is the same customer's.
LEMMA BoughtWrites ==
  ASSUME SbBase, SbCust, NEW s \in SubIds, NEW new, StripeWrites(s, new),
         subs[s].status # "none", new.status \in {"active", "canceled"},
         new.customer = subs[s].customer
  PROVE  SalesStand
<1> DEFINE e == [id |-> s, status |-> new.status, price |-> new.price,
                 schedule |-> new.schedule, customer |-> new.customer]
<1>1. subs \in [SubIds -> SubType] /\ subs' = [subs EXCEPT ![s] = new] /\ events' = events \cup {e}
  BY DEF SbBase, SbSubs, StripeWrites
<1>2. subs'[s] = new /\ \A r \in SubIds \ {s} : subs'[r] = subs[r]
  BY <1>1
<1>3. \A r \in SubIds : subs[r].status # "none" => subs'[r].customer = subs[r].customer
  BY <1>2
<1>4. Born \subseteq Born'
  BY <1>2 DEF Born
<1>5. e.id = s /\ e.customer = new.customer
  OBVIOUS
<1> HIDE DEF e
<1>6. ASSUME NEW x \in events' PROVE x.customer = subs'[x.id].customer
  <2>1. CASE x = e
    BY <1>2, <1>5, <2>1
  <2>2. CASE x # e
    <3>1. x \in events /\ x.id \in Born /\ x.customer = subs[x.id].customer
      BY <1>1, <1>6, <2>2 DEF SbBase, SbSubs, SbCust
    <3>2. x.id \in SubIds /\ subs[x.id].status # "none"
      BY <3>1 DEF Born
    <3> QED BY <1>3, <3>1, <3>2
  <2> QED BY <2>1, <2>2
<1>7. \A r \in SubIds : subs'[r].status # "none" => subs[r].status # "none"
  BY <1>2
<1> QED BY <1>3, <1>4, <1>6, <1>7 DEF SbCust, OneCustomer, SalesStand

\* A request takes a step that leaves it the customer it acts for, or gives it that on file.
LEMMA CustMoves ==
  ASSUME SbBase, SbCust, UNCHANGED twice, blurred => blurred', SalesStand,
         twice \/ acct'.customer = acct.customer,
         NEW q \in Procs, NEW step, NEW l,
         pc' = [pc EXCEPT ![q] = step], loc' = [loc EXCEPT ![q] = l],
         ActsFor(step, l, Born, Owners),
         \/ l.customer \in {NoCustomer, acct.customer}
         \/ l.customer = loc[q].customer /\ pc[q] # "co_store"
  PROVE  SbCust'
<1>1. /\ pc'[q] = step /\ loc'[q] = l
      /\ \A r \in Procs \ {q} : pc'[r] = pc[r] /\ loc'[r] = loc[r]
  BY DEF SbBase, SbRequests
<1>2. \A r \in Procs : ActsFor(pc'[r], loc'[r], Born, Owners)
  BY <1>1 DEF SbCust
<1>3. twice \/ l.customer \in {NoCustomer, acct.customer}
  BY Theirs
<1> QED BY <1>1, <1>2, <1>3, CustFrame

\* Nothing moves but the row and Stripe.
LEMMA CustRests ==
  ASSUME SbBase, SbCust, UNCHANGED <<pc, loc, twice>>, blurred => blurred', SalesStand,
         twice \/ acct'.customer = acct.customer
  PROVE  SbCust'
<1>1. \A r \in Procs : ActsFor(pc'[r], loc'[r], Born, Owners)
  BY DEF SbCust
<1> QED BY <1>1, CustFrame

\* Steps that ask for nothing.
Plain == Steps \ {"co_store", "co_session", "rc_list", "rc_write", "hook_get"}

LEMMA PlainActs ==
  /\ \A step \in Plain : \A l, paid, theirs :
       l.sub.status = "none" => ActsFor(step, l, paid, theirs)
  /\ \A step \in Plain : \A l, m, was, paid, theirs :
       l.sub = m.sub /\ ActsFor(was, m, paid, theirs) => ActsFor(step, l, paid, theirs)
  /\ {"idle", "co_customer", "cl_cancel", "comp"} \cup ChangeSteps \subseteq Plain
  /\ {"rc_read", "rc_expire", "rc_after", "rc_clear"} \subseteq Plain
BY DEF Plain, ActsFor, Steps, ChangeSteps, ReconcileSteps

\* All that begin act for no one, or for the customer on file.
LEMMA BeginsFor ==
  ASSUME SbBase, NEW q \in Procs,
         \/ BillingStatus(q) \/ SessionCompleted(q) \/ CreateCheckout(q)
         \/ CancelScheduledChange(q) \/ CancelSubscription(q) \/ ResumeSubscription(q)
         \/ GrantComp(q) \/ ApplyPlanChange(q)
  PROVE  \E step \in Steps, l \in Local :
           /\ Begin(q, step, l) /\ ActsFor(step, l, Born, Owners)
           /\ l.customer \in {NoCustomer, acct.customer}
<1> DEFINE s == acct.sub
<1>0. s \in SubIds \cup {NoSub}
  BY DEF SbBase, SbRow, RowType
<1>1. /\ About(s) \in Local /\ About(s).sub.status = "none" /\ About(s).customer = NoCustomer
      /\ NoLocal \in Local /\ NoLocal.sub.status = "none" /\ NoLocal.customer = NoCustomer
  BY <1>0, AboutFacts, EmptyFacts
<1>2. {"rc_read", "cs_clear", "cs_get", "ca_get", "resume", "cl_cancel", "comp", "ch_get",
       "co_customer"} \subseteq Plain /\ Plain \subseteq Steps
  BY PlainActs DEF ChangeSteps, Plain
<1>3. CASE BillingStatus(q)
  BY <1>1, <1>2, <1>3, PlainActs DEF BillingStatus
<1>4. CASE SessionCompleted(q)
  <2>1. PICK t \in Live : Begin(q, "hook_get", [About(t) EXCEPT !.sub = Snapshot(t)])
    BY <1>4 DEF SessionCompleted
  <2> DEFINE m == About(t)
             x == Snapshot(t)
             l == [m EXCEPT !.sub = x]
  <2>2. t \in SubIds /\ t \in Born /\ subs[t].status = "active"
    BY DEF Live, Born
  <2>3. /\ x \in SnapType /\ x.id = t /\ x.status = "active" /\ x.customer = Owners[t]
        /\ m \in Local /\ m.customer = NoCustomer
    BY <2>2, SnapshotFacts, AboutFacts DEF SbBase, Owners
  <2>4. Begin(q, "hook_get", l)
    BY <2>1
  <2> HIDE DEF m, x
  <2>5. l \in Local /\ l.sub = x /\ l.customer = NoCustomer
    BY <2>3, KnowMore
  <2> HIDE DEF l
  <2>6. ActsFor("hook_get", l, Born, Owners) /\ "hook_get" \in Steps
    BY <2>2, <2>3, <2>5 DEF ActsFor, Steps
  <2> QED BY <2>4, <2>5, <2>6
<1>5. CASE CreateCheckout(q)
  <2>1. PICK step \in {"co_customer", "co_session"}, l \in Local :
          /\ Begin(q, step, l) /\ l.sub = NoSnapshot /\ l.customer = acct.customer
          /\ step = "co_session" => l.customer # NoCustomer
    BY <1>5, CheckoutBegins DEF SbBase
  <2>2. ActsFor(step, l, Born, Owners) /\ step \in Steps
    BY <2>1, EmptyFacts DEF ActsFor, Steps
  <2> QED BY <2>1, <2>2
<1>6. CASE CancelScheduledChange(q) \/ CancelSubscription(q) \/ ResumeSubscription(q)
           \/ GrantComp(q)
  <2>1. PICK step \in {"cs_get", "cs_clear", "ca_get", "resume", "cl_cancel", "comp"} :
          Begin(q, step, About(s))
    BY <1>6 DEF CancelScheduledChange, CancelSubscription, ResumeSubscription, GrantComp
  <2> QED BY <1>1, <1>2, <2>1, PlainActs
<1>7. CASE ApplyPlanChange(q)
  <2>1. PICK l \in Local : /\ Begin(q, "ch_get", l)
                           /\ l.sub.status = "none" /\ l.customer = NoCustomer
    BY <1>7, ApplyPlanChangeKeeps
  <2> QED BY <1>2, <2>1, PlainActs
<1> QED BY <1>3, <1>4, <1>5, <1>6, <1>7

\* They keep the customers.
LEMMA BeginsCust ==
  ASSUME SbBase, SbCust, NEW q \in Procs,
         \/ BillingStatus(q) \/ SessionCompleted(q) \/ CreateCheckout(q)
         \/ CancelScheduledChange(q) \/ CancelSubscription(q) \/ ResumeSubscription(q)
         \/ GrantComp(q) \/ ApplyPlanChange(q)
  PROVE  SbCust'
<1>1. PICK step \in Steps, l \in Local :
        /\ Begin(q, step, l) /\ ActsFor(step, l, Born, Owners)
        /\ l.customer \in {NoCustomer, acct.customer}
  BY BeginsFor
<1>2. /\ pc' = [pc EXCEPT ![q] = step] /\ loc' = [loc EXCEPT ![q] = l]
      /\ UNCHANGED <<acct, subs, events, twice>> /\ (blurred => blurred')
  BY <1>1 DEF Begin
<1> QED BY <1>1, <1>2, BoughtRests, CustMoves

\* What a request that is where it is acts for.
LEMMA StandsFor ==
  ASSUME SbBase, SbCust, NEW q \in Procs
  PROVE  /\ ActsFor(pc[q], loc[q], Born, Owners) /\ loc[q] \in Local /\ acct \in RowType
         /\ loc[q].sub.status # "none" =>
              /\ loc[q].sub.id \in Born
              /\ loc[q].sub.customer = subs[loc[q].sub.id].customer
              /\ ~twice => loc[q].sub.customer = acct.customer
<1>1. ActsFor(pc[q], loc[q], Born, Owners) /\ loc[q] \in Local /\ acct \in RowType
  BY GoesOn DEF SbCust, SbBase, SbRow
<1>2. Born \subseteq SubIds
  BY DEF Born
<1> QED BY <1>1, <1>2, Theirs DEF ActsFor, Owners

\* A reconcile reads the row and lists the subscriptions of the customer it has.
LEMMA ListsCust ==
  ASSUME SbBase, SbCust, NEW q \in Procs, RcRead(q) \/ RcList(q)
  PROVE  SbCust'
<1>1. /\ UNCHANGED <<acct, subs, events, twice, blurred>> /\ SalesStand
      /\ pc[q] \in {"rc_read", "rc_list"}
  BY BoughtRests DEF RcRead, RcList
<1>2. CASE RcRead(q) /\ AfterReconcile(q)
  <2>1. PICK step \in {"idle", "up_clear"}, l \in Local :
          /\ pc' = [pc EXCEPT ![q] = step] /\ loc' = [loc EXCEPT ![q] = l]
          /\ l.sub = NoSnapshot /\ l.customer = NoCustomer
    BY <1>2, GoesOn, AfterReconcileFacts
  <2>2. ActsFor(step, l, Born, Owners)
    BY <2>1, PlainActs, EmptyFacts DEF ChangeSteps
  <2> QED BY <1>1, <2>1, <2>2, CustMoves
<1>3. CASE RcRead(q) /\ ~AfterReconcile(q)
  <2>1. PICK step \in {"rc_list", "rc_expire"}, l \in Local :
          /\ pc' = [pc EXCEPT ![q] = step] /\ loc' = [loc EXCEPT ![q] = l]
          /\ l.sub = loc[q].sub
          /\ step = "rc_expire" => l = loc[q]
          /\ step = "rc_list" => l.customer = acct.customer /\ l.customer # NoCustomer
    BY <1>3, RcReadGoes
  <2>2. ActsFor(step, l, Born, Owners)
    BY <2>1, StandsFor DEF ActsFor
  <2> QED BY <1>1, <2>1, <2>2, CustMoves
<1>4. CASE RcList(q)
  <2> DEFINE c == loc[q].customer
             x == ChosenOf(c)
             l == [loc[q] EXCEPT !.sub = x]
  <2>1. pc' = [pc EXCEPT ![q] = "rc_write"] /\ loc' = [loc EXCEPT ![q] = l] /\ pc[q] = "rc_list"
    BY <1>4 DEF RcList, Goto
  <2>2. /\ x \in SnapType /\ x.id \in Born \cup {NoSub} /\ (x.id = NoSub => x.status = "none")
        /\ x.id # NoSub => /\ x.status \in {"active", "canceled"}
                           /\ x.customer = c /\ subs[x.id].customer = c
    BY ChosenOfFacts DEF SbBase
  <2> HIDE DEF x
  <2>3. l.sub = x /\ l.customer = c
    BY <2>2, StandsFor, KnowMore
  <2> HIDE DEF l
  <2>4. ActsFor("rc_write", l, Born, Owners)
    BY <2>2, <2>3 DEF ActsFor, Owners, Born
  <2> QED BY <1>1, <2>1, <2>3, <2>4, CustMoves
<1> QED BY <1>2, <1>3, <1>4

\* A request ends, or goes on to a step that asks for nothing.
LEMMA CustSteps ==
  ASSUME SbBase, SbCust, UNCHANGED twice, blurred => blurred', SalesStand,
         twice \/ acct'.customer = acct.customer,
         NEW q \in Procs, NEW step \in Plain, NEW l,
         pc' = [pc EXCEPT ![q] = step], loc' = [loc EXCEPT ![q] = l],
         \/ l.sub.status = "none" /\ l.customer = NoCustomer
         \/ l.sub = loc[q].sub /\ l.customer = loc[q].customer /\ pc[q] # "co_store"
  PROVE  SbCust'
<1>1. ActsFor(step, l, Born, Owners)
  BY StandsFor, PlainActs
<1> QED BY <1>1, CustMoves

\* A reconcile is done.
LEMMA CustDone ==
  ASSUME SbBase, SbCust, UNCHANGED twice, blurred => blurred', SalesStand,
         twice \/ acct'.customer = acct.customer, NEW q \in Procs, AfterReconcile(q)
  PROVE  SbCust'
<1>1. PICK step \in {"idle", "up_clear"}, l \in Local :
        /\ pc' = [pc EXCEPT ![q] = step] /\ loc' = [loc EXCEPT ![q] = l]
        /\ l.sub = NoSnapshot /\ l.customer = NoCustomer
  BY AfterReconcileFacts DEF SbBase
<1>2. step \in Plain
  BY PlainActs DEF ChangeSteps
<1> QED BY <1>1, <1>2, EmptyFacts, CustSteps

\* A request returns.
LEMMA CustEnds ==
  ASSUME SbBase, SbCust, UNCHANGED twice, blurred => blurred', SalesStand,
         twice \/ acct'.customer = acct.customer, NEW q \in Procs,
         pc' = [pc EXCEPT ![q] = "idle"], loc' = [loc EXCEPT ![q] = NoLocal]
  PROVE  SbCust'
BY CustSteps, PlainActs, EmptyFacts

\* A request goes on with what it knows.
LEMMA CustGoes ==
  ASSUME SbBase, SbCust, UNCHANGED twice, blurred => blurred', SalesStand,
         twice \/ acct'.customer = acct.customer, NEW q \in Procs, pc[q] # "co_store",
         NEW step \in Plain, pc' = [pc EXCEPT ![q] = step],
         loc' = [loc EXCEPT ![q] = loc[q]] \/ loc' = loc
  PROVE  SbCust'
<1>1. loc' = [loc EXCEPT ![q] = loc[q]]
  BY GoesOn
<1> QED BY <1>1, CustSteps

\* The rest of a reconcile: what it writes is of the customer on file.
LEMMA ReconcileCust ==
  ASSUME SbBase, SbCust, NEW q \in Procs,
         RcExpire(q) \/ RcWrite(q) \/ RcAfter(q) \/ RcClear(q)
  PROVE  SbCust'
<1>1. SbBase' /\ (blurred => blurred')
  BY RcExpireKeeps, RcWriteKeeps, RcAfterKeeps, RcClearKeeps
<1>2. UNCHANGED <<subs, events, twice>> /\ pc[q] # "co_store" /\ SalesStand
  BY BoughtRests DEF RcExpire, RcWrite, RcAfter, RcClear
<1>3. twice \/ acct'.customer = acct.customer
  <2>1. CASE RcExpire(q)
    BY <2>1, ResetRow DEF RcExpire, SbBase
  <2>2. CASE RcWrite(q)
    <3>1. pc[q] = "rc_write"
      BY <2>2 DEF RcWrite
    <3>2. \/ acct'.customer = acct.customer
          \/ acct'.customer = loc[q].sub.customer /\ loc[q].sub.id # NoSub
      BY <2>2, RcWriteRow
    <3>3. loc[q].sub.id # NoSub => loc[q].sub.status # "none"
      BY <3>1, StandsFor DEF ActsFor
    <3> QED BY <3>2, <3>3, StandsFor
  <2>3. CASE RcAfter(q)
    BY <2>3 DEF RcAfter
  <2>4. CASE RcClear(q)
    BY <1>1, <1>2, <2>4, MarkedRow DEF RcClear, ClearPending
  <2> QED BY <2>1, <2>2, <2>3, <2>4
<1>4. CASE AfterReconcile(q)
  BY <1>1, <1>2, <1>3, <1>4, CustDone
<1>5. CASE ~AfterReconcile(q)
  <2>1. \/ pc' = [pc EXCEPT ![q] = "rc_after"] /\ loc' = [loc EXCEPT ![q] = loc[q]]
        \/ /\ pc' = [pc EXCEPT ![q] = "rc_clear"]
           /\ loc' = [loc EXCEPT ![q] = [loc[q] EXCEPT !.target = acct.pending]]
    BY <1>5 DEF RcExpire, RcWrite, RcAfter, RcClear, Step, Goto
  <2>2. acct.pending \in Price \cup {Free}
    BY DEF SbBase, SbRow, RowType
  <2> DEFINE l == [loc[q] EXCEPT !.target = acct.pending]
  <2>3. l.sub = loc[q].sub /\ l.customer = loc[q].customer
    BY <2>2, StandsFor, KnowMore
  <2>4. {"rc_after", "rc_clear"} \subseteq Plain
    BY PlainActs
  <2>5. CASE pc' = [pc EXCEPT ![q] = "rc_after"] /\ loc' = [loc EXCEPT ![q] = loc[q]]
    BY <1>1, <1>2, <1>3, <2>4, <2>5, CustGoes
  <2>6. CASE pc' = [pc EXCEPT ![q] = "rc_clear"] /\ loc' = [loc EXCEPT ![q] = l]
    <3> HIDE DEF l
    <3> QED BY <1>1, <1>2, <1>3, <2>3, <2>4, <2>6, CustSteps
  <2> QED BY <2>1, <2>5, <2>6
<1> QED BY <1>4, <1>5

\* So is what a webhook writes.
LEMMA WebhooksCust ==
  ASSUME SbBase, SbCust, NEW q \in Procs, DeliverEvent(q) \/ HookApply(q)
  PROVE  SbCust'
<1>1. SbBase' /\ (blurred => blurred')
  BY DeliverEventKeeps, HookApplyKeeps
<1>2. UNCHANGED <<subs, twice>> /\ events' \subseteq events /\ SalesStand
  BY BoughtRests DEF DeliverEvent, HookApply
<1>3. CASE DeliverEvent(q)
  <2>1. PICK e \in events : acct' = Applied(e) /\ UNCHANGED <<pc, loc>>
    BY <1>3 DEF DeliverEvent
  <2>2. /\ e \in SnapType /\ e.price \in Price /\ e.id \in Born
        /\ e.customer = subs[e.id].customer /\ SbRow
    BY DEF SbBase, SbSubs, SbCust
  <2>3. twice \/ acct'.customer = acct.customer
    BY <2>1, <2>2, AppliedFacts, Theirs
  <2> QED BY <1>1, <1>2, <2>1, <2>3, CustRests
<1>4. CASE HookApply(q)
  <2>1. /\ acct' = Applied(loc[q].sub) /\ pc[q] = "hook_get" /\ SbRow
        /\ pc' = [pc EXCEPT ![q] = "idle"] /\ loc' = [loc EXCEPT ![q] = NoLocal]
    BY <1>4 DEF HookApply, Return, Goto, SbBase
  <2>2. loc[q].sub \in SnapType /\ (loc[q].sub.status = "active" => loc[q].sub.price \in Price)
        /\ loc[q].sub.id # NoSub
    BY <2>1, GoesOn, KnowMore DEF Ready
  <2>3. loc[q].sub.status # "none"
    BY <2>1, <2>2, StandsFor DEF ActsFor
  <2>4. twice \/ acct'.customer = acct.customer
    BY <2>1, <2>2, <2>3, AppliedFacts, StandsFor
  <2> QED BY <1>1, <1>2, <2>1, <2>4, CustEnds
<1> QED BY <1>3, <1>4

\* A customer is created: the account's only one, or twice says so.
LEMMA CoCustomerCust ==
  ASSUME SbBase, SbCust, NEW q \in Procs, CoCustomer(q)
  PROVE  SbCust'
<1>1. /\ UNCHANGED <<acct, subs, events>> /\ blurred' = (blurred \/ twice')
      /\ twice' = (twice \/ acct.customer # NoCustomer
                          \/ \E r \in Procs : loc[r].customer # NoCustomer)
  BY DEF CoCustomer
<1>2. PICK c \in Customers : Goto(q, "co_store", [loc[q] EXCEPT !.customer = c])
  BY DEF CoCustomer
<1> DEFINE l == [loc[q] EXCEPT !.customer = c]
<1>3. l.sub = loc[q].sub /\ l.customer = c /\ c # NoCustomer
  BY StandsFor, KnowMore, StripeFacts DEF AnyCustomer
<1>4. /\ pc'[q] = "co_store" /\ loc'[q] = l
      /\ \A r \in Procs \ {q} : pc'[r] = pc[r] /\ loc'[r] = loc[r]
  BY <1>2 DEF Goto, SbBase, SbRequests
<1> HIDE DEF l
<1>5. ActsFor("co_store", l, Born, Owners)
  BY <1>3, StandsFor DEF ActsFor
<1>6. Born' = Born /\ Owners' = Owners
  BY <1>1 DEF Born, Owners
<1>7. \A r \in Procs : ActsFor(pc'[r], loc'[r], Born', Owners')
  BY <1>4, <1>5, <1>6 DEF SbCust
<1>8. ASSUME ~twice' PROVE OneCustomer'
  <2>1. /\ ~twice /\ acct.customer = NoCustomer
        /\ \A r \in Procs : loc[r].customer = NoCustomer
    BY <1>1, <1>8
  <2>2. \A s \in SubIds : subs[s].status = "none"
    BY <2>1 DEF SbCust, OneCustomer
  <2> QED BY <1>1, <1>4, <2>1, <2>2 DEF OneCustomer
<1> QED BY <1>1, <1>7, <1>8 DEF SbCust

\* It is stored, over the one that another request stored meanwhile if there are two.
LEMMA CoStoreCust ==
  ASSUME SbBase, SbCust, NEW q \in Procs, CoStore(q)
  PROVE  SbCust'
<1>1. /\ UNCHANGED <<subs, events, twice, blurred>> /\ acct'.customer = loc[q].customer
      /\ pc[q] = "co_store"
  BY CoStoreKeeps DEF CoStore
<1>2. /\ pc'[q] = "co_session" /\ \A r \in Procs \ {q} : pc'[r] = pc[r]
      /\ \A r \in Procs : loc'[r] = loc[r]
  BY DEF CoStore, Step, Goto, SbBase, SbRequests
<1>3. ActsFor("co_session", loc[q], Born, Owners) /\ loc[q].customer # NoCustomer
  BY <1>1, StandsFor DEF ActsFor
<1>4. Born' = Born /\ Owners' = Owners
  BY <1>1 DEF Born, Owners
<1>5. \A r \in Procs : ActsFor(pc'[r], loc'[r], Born', Owners')
  BY <1>2, <1>3, <1>4 DEF SbCust
<1>6. ASSUME ~twice PROVE OneCustomer'
  <2>1. OneCustomer
    BY <1>6 DEF SbCust
  <2>2. CASE loc[q].customer = acct.customer
    <3>1. \A r \in Procs : loc[r].customer # NoCustomer => loc[r].customer = acct.customer
      BY <1>3, <2>1, <2>2 DEF OneCustomer
    <3> QED BY <1>1, <1>2, <2>1, <2>2, <3>1 DEF OneCustomer
  <2>3. CASE loc[q].customer # acct.customer
    <3>1. /\ acct.customer = NoCustomer
          /\ \A r \in Procs \ {q} : loc[r].customer = NoCustomer
          /\ \A s \in SubIds : subs[s].status = "none"
      BY <1>3, <2>1, <2>3 DEF OneCustomer
    <3> QED BY <1>1, <1>2, <3>1 DEF OneCustomer
  <2> QED BY <2>2, <2>3
<1> QED BY <1>1, <1>5, <1>6 DEF SbCust

\* What is bought in a session is of the customer of the request that opened it.
LEMMA CoSessionCust ==
  ASSUME SbBase, SbCust, NEW q \in Procs, CoSession(q)
  PROVE  SbCust'
<1>1. /\ pc[q] = "co_session" /\ UNCHANGED <<acct, events, twice, blurred>>
      /\ pc' = [pc EXCEPT ![q] = "idle"] /\ loc' = [loc EXCEPT ![q] = NoLocal]
  BY SessionMakes DEF history
<1>2. PICK s \in SubIds, new \in SubType :
        /\ subs[s].status = "none" /\ subs' = [subs EXCEPT ![s] = new]
        /\ new.status = "draft" /\ new.customer = loc[q].customer
  BY SessionMakes
<1>3. subs'[s] = new /\ \A r \in SubIds \ {s} : subs'[r] = subs[r]
  BY <1>2 DEF SbBase, SbSubs
<1>4. twice \/ (new.customer = acct.customer /\ acct.customer # NoCustomer)
  <2>1. loc[q].customer # NoCustomer
    BY <1>1, StandsFor DEF ActsFor
  <2> QED BY <1>1, <1>2, <2>1, Theirs
<1>5. s \notin Born /\ Born \subseteq SubIds
  BY <1>2 DEF Born
<1>6. Born \subseteq Born'
  BY <1>3, <1>5 DEF Born
<1>7. \A e \in events : e.id \in Born /\ e.customer = subs[e.id].customer
  BY DEF SbCust, SbBase, SbSubs
<1>8. SalesStand
  <2>1. \A r \in SubIds : subs[r].status # "none" => subs'[r].customer = subs[r].customer
    BY <1>2, <1>3
  <2>2. twice \/ \A r \in SubIds : subs'[r].status # "none" =>
          subs'[r].customer = acct.customer /\ acct.customer # NoCustomer
    BY <1>3, <1>4 DEF SbCust, OneCustomer
  <2>3. \A e \in events' : e.customer = subs'[e.id].customer
    BY <1>1, <1>3, <1>5, <1>7
  <2> QED BY <1>6, <2>1, <2>2, <2>3 DEF SalesStand
<1> QED BY <1>1, <1>8, CustEnds

\* A request looks at its subscription at Stripe.
LEMMA LooksCust ==
  ASSUME SbBase, SbCust, NEW q \in Procs, ChGet(q) \/ CsGet(q) \/ CaGet(q)
  PROVE  SbCust'
<1>1. UNCHANGED <<acct, subs, events, twice, blurred>> /\ SalesStand /\ pc[q] # "co_store"
  BY BoughtRests DEF ChGet, CsGet, CaGet, history
<1>2. ChangeSteps \subseteq Plain
  BY PlainActs
<1>3. CASE CsGet(q) \/ CaGet(q)
  <2>1. PICK step \in ChangeSteps : Step(q, step)
    BY <1>3 DEF CsGet, CaGet, ChangeSteps
  <2> QED BY <1>1, <1>2, <2>1, CustGoes DEF Step, Goto
<1>4. CASE ChGet(q)
  <2> DEFINE x == Snapshot(loc[q].sub.id)
             l == [loc[q] EXCEPT !.sub = x]
  <2>1. PICK step \in ChangeSteps : Goto(q, step, loc[q]) \/ Goto(q, step, l)
    BY <1>4 DEF ChGet, ChangeSteps
  <2>2. loc[q].sub.id \in Born
    BY <1>4, GoesOn DEF ChGet, Ready
  <2>3. /\ x \in SnapType /\ x.id \in Born /\ x.customer = subs[x.id].customer
        /\ x.id \in SubIds
    BY <2>2, SnapshotFacts DEF SbBase
  <2>4. CASE Goto(q, step, loc[q])
    BY <1>1, <1>2, <2>4, CustGoes DEF Goto
  <2>5. CASE Goto(q, step, l)
    <3>1. pc' = [pc EXCEPT ![q] = step] /\ loc' = [loc EXCEPT ![q] = l]
      BY <2>5 DEF Goto
    <3> HIDE DEF x
    <3>2. l.sub = x /\ l.customer = loc[q].customer
      BY <2>3, StandsFor, KnowMore
    <3> HIDE DEF l
    <3>3. ActsFor(step, l, Born, Owners)
      BY <1>2, <2>3, <3>2 DEF ActsFor, Owners, Plain
    <3> QED BY <1>1, <3>1, <3>2, <3>3, CustMoves
  <2> QED BY <2>1, <2>4, <2>5
<1> QED BY <1>3, <1>4

\* A subscription changed in another field stays its customer's.
LEMMA SameCustomer ==
  ASSUME NEW x \in SubType
  PROVE  /\ \A p : /\ [x EXCEPT !.price = p].customer = x.customer
                  /\ [x EXCEPT !.price = p].status = x.status
                  /\ [x EXCEPT !.schedule = p].customer = x.customer
                  /\ [x EXCEPT !.schedule = p].status = x.status
         /\ \A b : /\ [x EXCEPT !.cancelling = b].customer = x.customer
                  /\ [x EXCEPT !.cancelling = b].status = x.status
         /\ \A p, r : LET y == [x EXCEPT !.schedule = p, !.begun = FALSE,
                                         !.cancelling = FALSE, !.price = r] IN
                     y.customer = x.customer /\ y.status = x.status
BY DEF SubType

\* What a change writes at Stripe is of the same customer.
LEMMA ChangesCust ==
  ASSUME SbBase, SbCust, NEW q \in Procs,
         UpUpdate(q) \/ DnCreate(q) \/ DnPhases(q) \/ SetCancelling(q)
  PROVE  SbCust'
<1> DEFINE s == loc[q].sub.id
           x == subs[s]
<1>1. /\ UNCHANGED <<acct, twice, blurred>> /\ x.status = "active"
      /\ pc[q] \in {"up_update", "dn_create", "dn_phases", "ca_flag", "resume"}
  BY DEF UpUpdate, DnCreate, DnPhases, SetCancelling
<1>2. s \in Born /\ s \in SubIds /\ x \in SubType
  BY <1>1, GoesOn DEF Ready, Born, SbBase, SbSubs
<1>3. PICK new : StripeWrites(s, new) /\ new.customer = x.customer /\ new.status = x.status
  <2>1. PICK new : /\ StripeWrites(s, new)
                   /\ \/ new = [x EXCEPT !.price = loc[q].target]
                      \/ new = [x EXCEPT !.schedule = x.price]
                      \/ new = [x EXCEPT !.schedule = loc[q].target, !.begun = FALSE,
                                         !.cancelling = FALSE, !.price = loc[q].sub.price]
                      \/ new = [x EXCEPT !.cancelling = (pc[q] = "ca_flag")]
    BY DEF UpUpdate, DnCreate, DnPhases, SetCancelling
  <2> HIDE DEF s, x
  <2> DEFINE p == loc[q].target
             r == loc[q].sub.price
             b == (pc[q] = "ca_flag")
             stays(y) == y.customer = x.customer /\ y.status = x.status
  <2>2. /\ stays([x EXCEPT !.price = p])
        /\ stays([x EXCEPT !.schedule = x.price])
        /\ stays([x EXCEPT !.schedule = p, !.begun = FALSE, !.cancelling = FALSE, !.price = r])
        /\ stays([x EXCEPT !.cancelling = b])
    <3> HIDE DEF p, r, b
    <3> QED BY <1>2, SameCustomer
  <2>3. stays(new)
    <3> HIDE DEF stays
    <3> QED BY <2>1, <2>2
  <2> QED BY <2>1, <2>3
<1>4. SalesStand
  BY <1>1, <1>2, <1>3, BoughtWrites
<1>5. CASE UpUpdate(q)
  <2> DEFINE l == [NoLocal EXCEPT !.upgrading = TRUE]
  <2>1. pc' = [pc EXCEPT ![q] = "rc_read"] /\ loc' = [loc EXCEPT ![q] = l]
    BY <1>5 DEF UpUpdate, Goto
  <2>2. l.sub.status = "none" /\ l.customer = NoCustomer /\ "rc_read" \in Plain
    BY UpgradeFacts, EmptyFacts, PlainActs
  <2> HIDE DEF l
  <2> QED BY <1>1, <1>4, <2>1, <2>2, CustSteps
<1>6. CASE DnCreate(q) \/ DnPhases(q)
  <2>1. PICK step \in {"dn_phases", "dn_mark"} : Step(q, step)
    BY <1>6 DEF DnCreate, DnPhases
  <2>2. step \in Plain
    BY PlainActs DEF ChangeSteps
  <2> QED BY <1>1, <1>4, <2>1, <2>2, CustGoes DEF Step, Goto
<1>7. CASE SetCancelling(q)
  <2>1. pc' = [pc EXCEPT ![q] = "idle"] /\ loc' = [loc EXCEPT ![q] = NoLocal]
    BY <1>7 DEF SetCancelling, Return, Goto
  <2> QED BY <1>1, <1>4, <2>1, CustEnds
<1> QED BY <1>5, <1>6, <1>7

\* A release of the schedule keeps the customer, and so does the cancellation before a comp.
LEMMA ReleaseCust ==
  ASSUME SbBase, SbCust, NEW q \in Procs,
         \/ ReleaseSchedule(q) \/ ReleaseSwallowed(q) \/ ClCancel(q) \/ ClCancelSwallowed(q)
  PROVE  SbCust'
<1>0. blurred => blurred'
  BY DEF ReleaseSchedule, ReleaseSwallowed, ClCancel, ClCancelSwallowed
<1> DEFINE s == loc[q].sub.id
<1>1. UNCHANGED <<acct, twice>> /\ pc[q] \in ReleaseSteps \cup {"cl_cancel"}
  BY DEF ReleaseSchedule, ReleaseSwallowed, ClCancel, ClCancelSwallowed
<1>2. /\ s \in Born /\ s \in SubIds /\ pc[q] # "co_store"
      /\ subs[s].status \in {"active", "canceled"} /\ subs[s].status # "none"
  BY <1>1, GoesOn DEF Ready, Born, ReleaseSteps
<1>3. SalesStand
  <2>1. CASE UNCHANGED <<subs, events>>
    BY <2>1, BoughtRests
  <2>2. CASE ReleaseSchedule(q) /\ ~UNCHANGED <<subs, events>>
    <3>1. StripeWrites(s, Released(s))
      BY <2>2 DEF ReleaseSchedule, Release, StripeRests
    <3>2. Released(s).status = subs[s].status /\ Released(s).customer = subs[s].customer
      BY <1>2, ReleasedFacts DEF SbBase
    <3> QED BY <1>2, <3>1, <3>2, BoughtWrites
  <2>3. CASE ClCancel(q) /\ ~UNCHANGED <<subs, events>>
    <3> DEFINE new == [Released(s) EXCEPT !.status = "canceled"]
    <3>1. StripeWrites(s, new)
      BY <2>3 DEF ClCancel, StripeRests
    <3>2. new.status = "canceled" /\ new.customer = subs[s].customer
      BY <1>2, ReleasedFacts DEF SbBase
    <3> HIDE DEF new
    <3> QED BY <1>2, <3>1, <3>2, BoughtWrites
  <2>4. CASE ReleaseSwallowed(q) \/ ClCancelSwallowed(q)
    BY <2>1, <2>4 DEF ReleaseSwallowed, ClCancelSwallowed
  <2> QED BY <2>1, <2>2, <2>3, <2>4
<1>4. PICK step \in {"up_update", "cs_clear", "ca_clear", "comp"} :
        /\ pc' = [pc EXCEPT ![q] = step]
        /\ loc' = [loc EXCEPT ![q] = loc[q]] \/ loc' = loc
  BY DEF ReleaseSchedule, ReleaseSwallowed, ClCancel, ClCancelSwallowed, AfterRelease, Step, Goto
<1>5. step \in Plain
  BY PlainActs DEF ChangeSteps
<1> QED BY <1>0, <1>1, <1>2, <1>3, <1>4, <1>5, CustGoes

\* The markers, a comp, a refusal and a failure leave customers alone.
LEMMA MarkersCust ==
  ASSUME SbBase, SbCust, NEW q \in Procs,
         ClearMarkers(q) \/ DnMark(q) \/ Comp(q) \/ Refused(q) \/ Fail(q)
  PROVE  SbCust'
<1>1. SbBase' /\ (blurred => blurred')
  BY MarkersKeep, CompKeeps, FailKeeps DEF SbBase
<1>2. UNCHANGED <<subs, events, twice>> /\ SalesStand
  BY BoughtRests DEF ClearMarkers, DnMark, Comp, Refused, Fail, StripeRests
<1>3. acct'.customer = acct.customer
  <2>1. CASE ClearMarkers(q) \/ DnMark(q)
    <3>1. PICK p : acct' = [acct EXCEPT !.pending = p]
      BY <2>1 DEF ClearMarkers, ClearPending, DnMark
    <3>2. acct \in RowType
      BY DEF SbBase, SbRow
    <3> QED BY <3>1, <3>2 DEF RowType
  <2>2. CASE Comp(q)
    BY <2>2, CompKeeps
  <2>3. CASE Refused(q) \/ Fail(q)
    BY <2>3 DEF Refused, Fail
  <2> QED BY <2>1, <2>2, <2>3
<1>4. CASE pc' = [pc EXCEPT ![q] = "idle"] /\ loc' = [loc EXCEPT ![q] = NoLocal]
  BY <1>1, <1>2, <1>3, <1>4, CustEnds
<1>5. CASE ClearMarkers(q) /\ Step(q, "ca_flag")
  <2>1. "ca_flag" \in Plain /\ pc[q] # "co_store"
    BY <1>5, PlainActs DEF ChangeSteps, ClearMarkers, ClearSteps
  <2> QED BY <1>1, <1>2, <1>3, <1>5, <2>1, CustGoes DEF Step, Goto
<1> QED BY <1>4, <1>5 DEF ClearMarkers, DnMark, Comp, Refused, Fail, Return, Goto

\* The customer pays, time passes, an event is lost.
LEMMA TimeCust ==
  ASSUME SbBase, SbCust, PayCheckout \/ PeriodEnds \/ CompRunsOut \/ LoseEvent
  PROVE  SbCust'
<1>1. blurred => blurred'
  BY PayCheckoutKeeps, PeriodEndsKeeps, CompRunsOutKeeps, LoseEventKeeps
<1>2. CASE PayCheckout \/ PeriodEnds
  <2>1. UNCHANGED <<acct, pc, loc, twice>>
    BY <1>2 DEF PayCheckout, PeriodEnds
  <2>2. PICK s \in SubIds, new \in SubType :
          /\ subs[s].status # "none" /\ StripeWrites(s, new) /\ Born' = Born \cup {s}
          /\ new.customer = subs[s].customer
    BY <1>2, PayCheckoutKeeps, PeriodEndsKeeps
  <2>3. new.status \in {"active", "canceled"}
    <3>1. subs'[s] = new
      BY <2>2 DEF StripeWrites, SbBase, SbSubs
    <3> QED BY <2>2, <3>1 DEF Born
  <2>4. SalesStand
    BY <2>2, <2>3, BoughtWrites
  <2> QED BY <1>1, <2>1, <2>4, CustRests
<1>3. CASE CompRunsOut
  BY <1>1, <1>3, CompRunsOutKeeps, BoughtRests, CustRests
<1>4. CASE LoseEvent
  <2>1. UNCHANGED <<acct, subs, pc, loc, twice>> /\ events' \subseteq events
    BY <1>4 DEF LoseEvent, history
  <2> QED BY <1>1, <2>1, BoughtRests, CustRests
<1> QED BY <1>2, <1>3, <1>4

-----------------------------------------------------------------------------
(* The invariant.                                                           *)

\* A request of the module takes a step.
Acts(q) ==
  \/ BillingStatus(q) \/ RcRead(q) \/ RcExpire(q) \/ RcList(q) \/ RcWrite(q)
  \/ RcAfter(q) \/ RcClear(q) \/ DeliverEvent(q) \/ SessionCompleted(q) \/ HookApply(q)
  \/ CreateCheckout(q) \/ CoCustomer(q) \/ CoStore(q) \/ CoSession(q)
  \/ ApplyPlanChange(q) \/ ChGet(q) \/ ReleaseSchedule(q) \/ ReleaseSwallowed(q)
  \/ UpUpdate(q) \/ ClearMarkers(q) \/ DnCreate(q) \/ DnPhases(q) \/ DnMark(q)
  \/ CancelScheduledChange(q) \/ CsGet(q)
  \/ CancelSubscription(q) \/ ResumeSubscription(q) \/ CaGet(q) \/ SetCancelling(q)
  \/ GrantComp(q) \/ ClCancel(q) \/ ClCancelSwallowed(q) \/ Comp(q)
  \/ Refused(q) \/ Fail(q)

\* Next is a step of a request, a payment, or time.
LEMMA NextActs ==
  Next <=> \/ \E q \in Procs : Acts(q)
           \/ LoseEvent \/ PayCheckout \/ PeriodEnds \/ CompRunsOut
BY DEF Next, Acts

\* Types, freshness, comps and ListAgrees are kept by every step.
LEMMA BaseStep ==
  ASSUME SbBase, Next
  PROVE  SbBase' /\ (blurred => blurred')
<1>1. CASE LoseEvent
  BY <1>1, LoseEventKeeps
<1>2. CASE PayCheckout
  BY <1>2, PayCheckoutKeeps
<1>3. CASE PeriodEnds
  BY <1>3, PeriodEndsKeeps
<1>4. CASE CompRunsOut
  BY <1>4, CompRunsOutKeeps
<1>5. CASE \E q \in Procs : Acts(q)
  <2>1. PICK q \in Procs : Acts(q)
    BY <1>5
  <2>2. CASE BillingStatus(q) \/ SessionCompleted(q) \/ CreateCheckout(q)
             \/ CancelScheduledChange(q) \/ CancelSubscription(q) \/ ResumeSubscription(q)
             \/ GrantComp(q) \/ ApplyPlanChange(q)
    BY <2>2, BeginsKeep, ApplyPlanChangeKeeps
  <2>3. CASE RcRead(q) \/ RcExpire(q) \/ RcList(q) \/ RcWrite(q) \/ RcAfter(q) \/ RcClear(q)
    BY <2>3, RcReadKeeps, RcExpireKeeps, RcListKeeps, RcWriteKeeps, RcAfterKeeps, RcClearKeeps
  <2>4. CASE DeliverEvent(q) \/ HookApply(q) \/ CoCustomer(q) \/ CoStore(q) \/ CoSession(q)
    BY <2>4, DeliverEventKeeps, HookApplyKeeps, CoCustomerKeeps, CoStoreKeeps, CoSessionKeeps
  <2>5. CASE ChGet(q) \/ CsGet(q) \/ CaGet(q) \/ ReleaseSchedule(q) \/ ReleaseSwallowed(q)
    BY <2>5, LooksKeep, ReleaseKeeps
  <2>6. CASE UpUpdate(q) \/ DnCreate(q) \/ DnPhases(q) \/ SetCancelling(q)
             \/ ClearMarkers(q) \/ DnMark(q)
    BY <2>6, ChangesKeep, MarkersKeep
  <2>7. CASE ClCancel(q) \/ ClCancelSwallowed(q) \/ Comp(q)
    BY <2>7, ClCancelKeeps, CompKeeps
  <2>8. CASE Refused(q) \/ Fail(q)
    BY <2>8, FailKeeps
  <2> QED BY <2>1, <2>2, <2>3, <2>4, <2>5, <2>6, <2>7, <2>8 DEF Acts
<1> QED BY <1>1, <1>2, <1>3, <1>4, <1>5, NextActs

\* And customers.
LEMMA CustStep ==
  ASSUME SbBase, SbCust, Next
  PROVE  SbCust'
<1>1. CASE LoseEvent \/ PayCheckout \/ PeriodEnds \/ CompRunsOut
  BY <1>1, TimeCust
<1>2. CASE \E q \in Procs : Acts(q)
  <2>1. PICK q \in Procs : Acts(q)
    BY <1>2
  <2>2. CASE BillingStatus(q) \/ SessionCompleted(q) \/ CreateCheckout(q)
             \/ CancelScheduledChange(q) \/ CancelSubscription(q) \/ ResumeSubscription(q)
             \/ GrantComp(q) \/ ApplyPlanChange(q)
    BY <2>2, BeginsCust
  <2>3. CASE RcRead(q) \/ RcExpire(q) \/ RcList(q) \/ RcWrite(q) \/ RcAfter(q) \/ RcClear(q)
    BY <2>3, ListsCust, ReconcileCust
  <2>4. CASE DeliverEvent(q) \/ HookApply(q) \/ CoCustomer(q) \/ CoStore(q) \/ CoSession(q)
    BY <2>4, WebhooksCust, CoCustomerCust, CoStoreCust, CoSessionCust
  <2>5. CASE ChGet(q) \/ CsGet(q) \/ CaGet(q)
    BY <2>5, LooksCust
  <2>6. CASE UpUpdate(q) \/ DnCreate(q) \/ DnPhases(q) \/ SetCancelling(q)
    BY <2>6, ChangesCust
  <2>7. CASE ReleaseSchedule(q) \/ ReleaseSwallowed(q) \/ ClCancel(q) \/ ClCancelSwallowed(q)
    BY <2>7, ReleaseCust
  <2>8. CASE ClearMarkers(q) \/ DnMark(q) \/ Comp(q) \/ Refused(q) \/ Fail(q)
    BY <2>8, MarkersCust
  <2> QED BY <2>1, <2>2, <2>3, <2>4, <2>5, <2>6, <2>7, <2>8 DEF Acts
<1> QED BY <1>1, <1>2, NextActs

\* A step that blurs nothing keeps what holds with nothing blurred.
LEMMA ClearStep ==
  ASSUME SbBase, SbCust, Clear, ~blurred, Next, ~blurred'
  PROVE  Clear'
<1>0. Own
  BY Theirs DEF SbCust
<1>1. CASE LoseEvent \/ PayCheckout \/ PeriodEnds \/ CompRunsOut
  BY <1>1, TimeClear
<1>2. CASE \E q \in Procs : Acts(q)
  <2>1. PICK q \in Procs : Acts(q)
    BY <1>2
  <2>2. CASE BillingStatus(q) \/ SessionCompleted(q) \/ CreateCheckout(q)
             \/ CancelScheduledChange(q) \/ CancelSubscription(q) \/ ResumeSubscription(q)
             \/ GrantComp(q) \/ ApplyPlanChange(q)
    BY <2>2, BeginsClear
  <2>3. CASE RcRead(q) \/ RcExpire(q) \/ RcList(q) \/ RcWrite(q) \/ RcAfter(q) \/ RcClear(q)
    BY <1>0, <2>3, RcReadClear, RcExpireClear, RcListClear, RcWriteClear, RcAfterClear, RcClearClear
  <2>4. CASE DeliverEvent(q) \/ HookApply(q) \/ CoCustomer(q) \/ CoStore(q) \/ CoSession(q)
    BY <1>0, <2>4, WebhooksClear, CustomerClear, CoSessionClear
  <2>5. CASE ChGet(q) \/ CsGet(q) \/ CaGet(q) \/ ReleaseSchedule(q)
    BY <2>5, LooksClear, ReleaseClear
  <2>6. CASE UpUpdate(q) \/ DnCreate(q) \/ DnPhases(q) \/ SetCancelling(q)
             \/ ClearMarkers(q) \/ DnMark(q)
    BY <2>6, ChangesClear, MarkersClear
  <2>7. CASE ClCancel(q) \/ Comp(q)
    BY <2>7, ClCancelClear, CompClear
  <2>8. CASE Refused(q) \/ Fail(q) \/ ReleaseSwallowed(q) \/ ClCancelSwallowed(q)
    BY <2>8 DEF Refused, Fail, ReleaseSwallowed, ClCancelSwallowed
  <2> QED BY <2>1, <2>2, <2>3, <2>4, <2>5, <2>6, <2>7, <2>8 DEF Acts
<1> QED BY <1>1, <1>2, NextActs

\* The account and Stripe at the start.
LEMMA SbBegins == Init => SbInv
<1> SUFFICES ASSUME Init PROVE SbInv
  OBVIOUS
<1>1. /\ events = {} /\ pc = [q \in Procs |-> "idle"] /\ loc = [q \in Procs |-> NoLocal]
      /\ ops = 0 /\ faults = 0 /\ owed = FALSE /\ fresh = {} /\ behind = {}
      /\ twice = FALSE /\ blurred = FALSE
  BY DEF Init
<1>2. SbRequests /\ SbFresh /\ SbBehind
  BY <1>1, EmptyReady, EmptyFacts DEF SbRequests, SbFresh, SbBehind, HasRead
<1>3. /\ SbRow /\ SbSubs /\ ListAgrees /\ OneLive /\ acct.status \in {"none", "active"}
      /\ acct.pending = Free /\ \A s \in SubIds : subs[s].schedule = Free
      /\ \A s \in SubIds : subs[s].status # "none" =>
           subs[s].customer = acct.customer /\ acct.customer # NoCustomer
  <2>1. CASE acct = NewAccount /\ subs = [s \in SubIds |-> Unborn]
    <3>1. /\ subs \in [SubIds -> SubType] /\ \A s \in SubIds : subs[s] = Unborn
          /\ acct \in RowType /\ acct.sub = NoSub /\ acct.plan = "free" /\ acct.status = "none"
          /\ acct.pending = Free
      BY <2>1, EmptyFacts
    <3>2. Live = {} /\ Born = {}
      BY <3>1, EmptyFacts DEF Live, Born
    <3>3. LiveOf(acct.customer) = {}
      BY <3>2 DEF LiveOf
    <3> QED BY <1>1, <3>1, <3>2, <3>3, EmptyFacts
            DEF SbRow, SbSubs, ListAgrees, Agrees, OneLive, Comped
  <2>2. CASE \E pr \in Bought, s \in SubIds, c \in Customers :
               /\ \A r \in SubIds : s <= r
               /\ acct = [NewAccount EXCEPT !.plan = pr.plan, !.interval = pr.interval,
                                            !.status = "active", !.sub = s, !.customer = c]
               /\ subs = [r \in SubIds |->
                           IF r = s THEN [Unborn EXCEPT !.status = "active", !.price = pr,
                                                        !.customer = c]
                           ELSE Unborn]
    <3>1. PICK pr \in Bought, s \in SubIds, c \in Customers :
            /\ acct = [NewAccount EXCEPT !.plan = pr.plan, !.interval = pr.interval,
                                         !.status = "active", !.sub = s, !.customer = c]
            /\ subs = [r \in SubIds |->
                        IF r = s THEN [Unborn EXCEPT !.status = "active", !.price = pr,
                                                     !.customer = c]
                        ELSE Unborn]
      BY <2>2
    <3>2. c \in AnyCustomer /\ c # NoCustomer /\ pr \in Price /\ pr.plan \in PaidPlans /\ pr.interval \in {"month", "year"}
          /\ "free" \notin PaidPlans
      BY StripeFacts DEF AnyCustomer
    <3> DEFINE a == NewAccount
               u == Unborn
               new == [u EXCEPT !.status = "active", !.price = pr, !.customer = c]
    <3>3. a \in RowType /\ a.pending = Free /\ u \in SubType /\ u.schedule = Free
          /\ u.begun = FALSE /\ u.status = "none"
      BY EmptyFacts
    <3>4. subs = [r \in SubIds |-> IF r = s THEN new ELSE u]
          /\ acct = [a EXCEPT !.plan = pr.plan, !.interval = pr.interval,
                              !.status = "active", !.sub = s, !.customer = c]
      BY <3>1
    <3> HIDE DEF a, u
    <3>5. /\ acct \in RowType /\ acct.sub = s /\ acct.plan = pr.plan
          /\ acct.interval = pr.interval /\ acct.status = "active" /\ acct.pending = Free
          /\ acct.customer = c
      BY <3>2, <3>3, <3>4 DEF RowType
    <3>6. /\ new \in SubType /\ new.status = "active" /\ new.price = pr
          /\ new.schedule = Free /\ new.begun = FALSE /\ new.customer = c
      BY <3>2, <3>3 DEF SubType
    <3> HIDE DEF new
    <3>7. /\ subs \in [SubIds -> SubType] /\ subs[s] = new
          /\ \A r \in SubIds \ {s} : subs[r] = u
      BY <3>3, <3>4, <3>6
    <3>8. Live = {s} /\ Born = {s}
      BY <3>3, <3>6, <3>7 DEF Live, Born
    <3>9. pr = [plan |-> pr.plan, interval |-> pr.interval]
      BY <3>2 DEF Price
    <3>10. /\ SbRow /\ OneLive
           /\ \A r \in SubIds : subs[r].schedule = Free /\ ~subs[r].begun
           /\ \A r \in SubIds : subs[r].status # "none" => subs[r].price \in Price
      BY <3>2, <3>3, <3>5, <3>6, <3>7, <3>8, StripeFacts DEF SbRow, OneLive, Comped
    <3>11. SbSubs
      BY <1>1, <3>7, <3>10 DEF SbSubs
    <3>12. LiveOf(acct.customer) = {s}
      BY <3>5, <3>6, <3>7, <3>8 DEF LiveOf, Listed
    <3>13. ListAgrees
      BY <3>5, <3>6, <3>7, <3>9, <3>12 DEF ListAgrees, Agrees
    <3>14. \A r \in SubIds : subs[r].status # "none" => subs[r].customer = acct.customer
      BY <3>3, <3>5, <3>6, <3>7
    <3> QED BY <3>2, <3>5, <3>10, <3>11, <3>13, <3>14
  <2> QED BY <2>1, <2>2 DEF Init
<1>4. SbBase
  BY <1>1, <1>2, <1>3 DEF SbBase
<1>5. Changing = {}
  BY <1>1, EmptyFacts DEF Changing, ChangeSteps
<1>6. OneChange /\ WaitsHere /\ Shown
  BY <1>3, <1>5 DEF OneChange, WaitsHere, Shown, Waiting, Live
<1>7. \A q \in Procs : Replaces(q) /\ Promise(q) /\ Found(q)
  BY <1>1, EmptyFacts DEF Replaces, Promise, Found, ReconcileSteps
<1>8. SbCust
  <2>1. OneCustomer
    BY <1>1, <1>3, EmptyFacts DEF OneCustomer
  <2>2. \A q \in Procs : ActsFor(pc[q], loc[q], Born, Owners)
    BY <1>1, EmptyFacts DEF ActsFor
  <2> QED BY <1>1, <2>1, <2>2 DEF SbCust
<1> QED BY <1>3, <1>4, <1>6, <1>7, <1>8 DEF SbInv, Clear

\* Nothing moves.
LEMMA SbStands ==
  ASSUME SbBase, SbCust, UNCHANGED vars
  PROVE  SbBase' /\ SbCust' /\ (Clear => Clear') /\ blurred' = blurred
<1>1. UNCHANGED <<acct, subs, events, pc, loc, ops, faults, owed, fresh, twice, behind, blurred>>
  BY DEF vars, history
<1>2. Live' = Live /\ Born' = Born /\ Chosen' = Chosen
  BY <1>1, SubsRest
<1>3. SbRow' /\ SbSubs' /\ SbRequests'
  BY <1>1, <1>2 DEF SbBase, SbRow, SbSubs, SbRequests, Comped
<1>4. SbFresh' /\ SbBehind'
  BY <1>1, <1>2 DEF SbBase, SbFresh, SbBehind, Comped
<1>5. ListAgrees'
  <2>1. LiveOf(acct.customer)' = LiveOf(acct.customer)
    BY <1>1, <1>2 DEF LiveOf, Listed
  <2> QED BY <1>1, <2>1 DEF SbBase, ListAgrees, Agrees, Comped
<1>6. SbBase'
  BY <1>1, <1>3, <1>4, <1>5 DEF SbBase
<1>7. ASSUME Clear PROVE Clear'
  <2>1. /\ NoneRises /\ NoneBegins /\ OneLive' /\ RowHolds /\ PlanHolds
    BY <1>1, <1>7, SubsHold DEF Clear
  <2> QED BY <1>1, <1>7, <2>1, RestClear
<1>8. SbCust'
  BY <1>1, BoughtRests, CustRests
<1> QED BY <1>1, <1>6, <1>7, <1>8

\* Every step keeps the invariant.
LEMMA SbStep == SbInv /\ [Next]_vars => SbInv'
<1> SUFFICES ASSUME SbInv, [Next]_vars PROVE SbInv'
  OBVIOUS
<1>1. CASE Next
  <2>1. SbBase' /\ SbCust' /\ (blurred => blurred')
    BY <1>1, BaseStep, CustStep DEF SbInv
  <2>2. CASE blurred'
    BY <2>1, <2>2 DEF SbInv
  <2>3. CASE ~blurred'
    BY <1>1, <2>1, <2>3, ClearStep DEF SbInv
  <2> QED BY <2>1, <2>2, <2>3
<1>2. CASE UNCHANGED vars
  BY <1>2, SbStands DEF SbInv
<1> QED BY <1>1, <1>2

\* So it always holds.
LEMMA SbAlways == Spec => []SbInv
BY SbBegins, SbStep, PTL DEF Spec

-----------------------------------------------------------------------------
(* What it shows.                                                           *)

\* The row, the subscriptions and every request keep their types; a comped account that
\* nothing crossed has no subscription and no markers.
THEOREM StripeTypes == Spec => []TypeOK
<1>1. SbInv => TypeOK
  BY DEF SbInv, SbBase, SbRow, SbSubs, SbRequests, SbFresh, SbBehind, SbCust, TypeOK, RowType,
         SubType
<1> QED BY <1>1, SbAlways, PTL

\* A reconcile that listed the subscriptions as they are leaves the account with the live one
\* of the customer on file (reconcileAccount, accountBilling.js), whatever was crossed, late
\* or lost before, for any number of requests, subscriptions and customers; and the live
\* ones are all of that customer, unless two checkouts made one each (SbCust).
THEOREM ReconcileAgrees == Spec => []SyncedAgrees
<1>1. SbInv => SyncedAgrees
  <2>1. SbInv => twice \/ Own
    BY Theirs DEF SbInv
  <2> QED BY <2>1 DEF SbInv, SbBase, ListAgrees, SyncedAgrees, Own
<1> QED BY <1>1, SbAlways, PTL

\* A downgrade that waits at Stripe is shown on the account as what it is
\* (applyPlanChange, stripeBilling.js), between changes, as long as nothing was blurred.
THEOREM DowngradeAlwaysShown == Spec => []ScheduleShown
<1>1. SbInv => ScheduleShown
  BY DEF SbInv, Clear, Shown, ScheduleShown, Waiting
<1> QED BY <1>1, SbAlways, PTL

\* Only a comp makes the row comped; only a reconcile and a webhook take that away.
LEMMA StatusMoves ==
  ASSUME SbBase, Next
  PROVE  \/ acct'.status = acct.status
         \/ ~Comped' /\ \E q \in Procs : \/ RcExpire(q) \/ RcWrite(q)
                                         \/ DeliverEvent(q) \/ HookApply(q)
         \/ \E q \in Procs : Comp(q)
<1>0. acct \in RowType
  BY DEF SbBase, SbRow
<1>1. CASE \E q \in Procs : Acts(q)
  <2>1. PICK q \in Procs : Acts(q)
    BY <1>1
  <2>2. CASE RcExpire(q) \/ RcWrite(q)
    <3>1. ~Comped'
      BY <2>2, RcWriteRow, ResetRow DEF RcExpire, SbBase
    <3> QED BY <2>2, <3>1
  <2>3. CASE DeliverEvent(q)
    <3>1. PICK e \in events : acct' = Applied(e)
      BY <2>3 DEF DeliverEvent
    <3>2. e \in SnapType /\ e.price \in Price /\ SbRow
      BY DEF SbBase, SbSubs
    <3>3. acct'.status \in {"active", "canceled"}
      BY <3>1, <3>2, AppliedFacts
    <3>4. ~Comped'
      BY <3>3 DEF Comped
    <3> QED BY <2>3, <3>4
  <2>4. CASE HookApply(q)
    <3>1. acct' = Applied(loc[q].sub) /\ SbRow
      BY <2>4 DEF HookApply, SbBase
    <3>2. loc[q].sub \in SnapType
          /\ (loc[q].sub.status = "active" => loc[q].sub.price \in Price)
      BY GoesOn, KnowMore DEF Ready
    <3>3. acct'.status \in {"active", "canceled"}
      BY <3>1, <3>2, AppliedFacts
    <3>4. ~Comped'
      BY <3>3 DEF Comped
    <3> QED BY <2>4, <3>4
  <2>5. CASE RcClear(q) \/ ClearMarkers(q) \/ DnMark(q)
    <3>1. PICK p : acct' = [acct EXCEPT !.pending = p]
      BY <2>5 DEF RcClear, ClearMarkers, ClearPending, DnMark
    <3> QED BY <1>0, <3>1 DEF RowType
  <2>6. CASE Comp(q)
    BY <2>6
  <2>7. CASE \/ BillingStatus(q) \/ SessionCompleted(q) \/ CreateCheckout(q)
             \/ CancelScheduledChange(q) \/ CancelSubscription(q) \/ ResumeSubscription(q)
             \/ GrantComp(q) \/ ApplyPlanChange(q)
    <3>1. PICK step, l : Begin(q, step, l)
      BY <2>7 DEF BillingStatus, SessionCompleted, CreateCheckout, CancelScheduledChange,
                  CancelSubscription, ResumeSubscription, GrantComp, ApplyPlanChange
    <3> QED BY <3>1 DEF Begin
  <2>8. CASE \/ RcRead(q) \/ RcList(q) \/ RcAfter(q) \/ CoCustomer(q) \/ CoSession(q) \/ ChGet(q)
             \/ CsGet(q) \/ CaGet(q) \/ ReleaseSchedule(q) \/ ReleaseSwallowed(q)
             \/ UpUpdate(q) \/ DnCreate(q) \/ DnPhases(q) \/ SetCancelling(q)
             \/ ClCancel(q) \/ ClCancelSwallowed(q) \/ Refused(q) \/ Fail(q)
    BY <2>8 DEF RcRead, RcList, RcAfter, CoCustomer, CoSession, ChGet, CsGet, CaGet,
                ReleaseSchedule, ReleaseSwallowed, UpUpdate, DnCreate, DnPhases,
                SetCancelling, ClCancel, ClCancelSwallowed, Refused, Fail
  <2>9. CASE CoStore(q)
    BY <2>9, CoStoreKeeps
  <2> QED BY <2>1, <2>2, <2>3, <2>4, <2>5, <2>6, <2>7, <2>8, <2>9 DEF Acts
<1>2. CASE LoseEvent \/ PayCheckout \/ PeriodEnds
  BY <1>2 DEF LoseEvent, PayCheckout, PeriodEnds
<1>3. CASE CompRunsOut
  BY <1>0, <1>3 DEF CompRunsOut, RowType
<1> QED BY <1>1, <1>2, <1>3, NextActs

\* The subscription a comp takes the place of is not live (cancelActiveSubscription before
\* the comp, in redeemPromo.js and accounts.js), unless something was blurred.
THEOREM CompStopsCharges == Spec => CompNotCharged
<1>1. SbInv /\ [Next]_vars =>
        (acct.status # "comped" /\ acct'.status = "comped"
           => blurred \/ acct.sub = NoSub \/ subs[acct.sub].status # "active")
  <2> SUFFICES ASSUME SbInv, [Next]_vars, acct.status # "comped", acct'.status = "comped",
                      ~blurred, acct.sub # NoSub
               PROVE  subs[acct.sub].status # "active"
    OBVIOUS
  <2>1. Next
    BY DEF vars
  <2>2. PICK q \in Procs : Comp(q)
    BY <2>1, StatusMoves DEF SbInv, Comped
  <2>3. acct.sub \notin Live
    BY <2>2 DEF SbInv, Clear, Replaces, Comp
  <2>4. acct.sub \in SubIds
    BY DEF SbInv, SbBase, SbRow, RowType
  <2> QED BY <2>3, <2>4 DEF Live
<1> QED BY <1>1, SbAlways, PTL DEF Spec, CompNotCharged

\* A comp in force is taken away only by an event, or by a reconcile that had read the row
\* before it was comped (the guard of reconcileAccount, accountBilling.js).
THEOREM CompOutlives == Spec => CompOutlivesReconcile
<1>1. SbInv /\ [Next]_vars =>
        (Comped /\ ~acct.compOver /\ acct'.status # "comped"
           => \/ events' # events
              \/ \E q \in Procs : pc[q] = "hook_get" /\ pc'[q] = "idle"
              \/ \E q \in behind : pc[q] \in {"rc_expire", "rc_write"} /\ pc'[q] # pc[q])
  <2> SUFFICES ASSUME SbInv, [Next]_vars, Comped, ~acct.compOver, acct'.status # "comped"
               PROVE  \/ events' # events
                      \/ \E q \in Procs : pc[q] = "hook_get" /\ pc'[q] = "idle"
                      \/ \E q \in behind : pc[q] \in {"rc_expire", "rc_write"}
                                           /\ pc'[q] # pc[q]
    OBVIOUS
  <2>1. Next /\ SbBase
    BY DEF vars, Comped, SbInv
  <2>2. \/ \E q \in Procs : RcExpire(q) \/ RcWrite(q) \/ DeliverEvent(q) \/ HookApply(q)
        \/ \E q \in Procs : Comp(q)
    BY <2>1, StatusMoves DEF Comped
  <2>3. ~ \E q \in Procs : Comp(q)
    BY <2>1, CompKeeps DEF Comped
  <2>4. PICK q \in Procs : RcExpire(q) \/ RcWrite(q) \/ DeliverEvent(q) \/ HookApply(q)
    BY <2>2, <2>3
  <2>5. CASE RcExpire(q) \/ RcWrite(q)
    <3>1. q \in behind /\ pc[q] \in {"rc_expire", "rc_write"}
      BY <2>1, <2>5 DEF RcExpire, RcWrite, SbBase, SbBehind, HasRead
    <3>2. pc'[q] # pc[q]
      <4>1. CASE AfterReconcile(q)
        BY <2>1, <3>1, <4>1, ReconcileEnds DEF ReconcileSteps
      <4>2. CASE ~AfterReconcile(q)
        <5>1. pc' = [pc EXCEPT ![q] = "rc_after"]
          BY <2>5, <4>2 DEF RcExpire, RcWrite, Step, Goto
        <5> QED BY <2>1, <3>1, <5>1 DEF SbBase, SbRequests
      <4> QED BY <4>1, <4>2
    <3> QED BY <3>1, <3>2
  <2>6. CASE DeliverEvent(q)
    BY <2>6 DEF DeliverEvent
  <2>7. CASE HookApply(q)
    <3>1. pc[q] = "hook_get" /\ pc' = [pc EXCEPT ![q] = "idle"]
      BY <2>7 DEF HookApply, Return, Goto
    <3> QED BY <2>1, <3>1 DEF SbBase, SbRequests
  <2> QED BY <2>4, <2>5, <2>6, <2>7
<1> QED BY <1>1, SbAlways, PTL DEF Spec, CompOutlivesReconcile
=============================================================================
