--------------------------- MODULE StripeBilling ---------------------------
(***************************************************************************)
(* One billing account kept in step with Stripe, the provider behind       *)
(* BILLING_PROVIDER=stripe.  A request is a process of Procs, each awaited *)
(* query or Stripe call one atomic step of it.  Stripe is external: its    *)
(* subscriptions, their schedules, and its events, each with a snapshot of *)
(* the subscription, which arrive in any order.                            *)
(*                                                                         *)
(* Left out as data: money, discounts, dates (a comp's end is a flag),     *)
(* trialing and past_due (as good as active), the mirror on the            *)
(* workspaces, and every refusal that changes no state, among them         *)
(* previews and the portal.                                                *)
(***************************************************************************)
EXTENDS Integers, FiniteSets

CONSTANTS
  Procs,            \* concurrently running requests
  SubIds,           \* 1..n: the subscriptions, in the order of `created`
  Prices,           \* the plan and interval pairs a request may name
  Bought,           \* those the account may have at the start
  Customers,        \* Stripe customers that may be created for the account
  NoCustomer,       \* stripe_customer_id is NULL
  MaxOps,           \* bound: requests
  MaxFaults,        \* bound: failed calls
  MaxEvents         \* bound: events on their way at once

PaidPlans == {"pro", "business"}
Price == [plan : PaidPlans, interval : {"month", "year"}]
Free  == [plan |-> "free", interval |-> "none"]

ASSUME ConstantsOK ==
  /\ \E n \in SubIds : SubIds = 1..n
  /\ Prices \subseteq Price /\ Bought \subseteq Price /\ NoCustomer \notin Customers
  /\ MaxOps \in Nat /\ MaxFaults \in Nat /\ MaxEvents \in Nat

VARIABLES
  acct,             \* the billing_accounts row
  subs,             \* Stripe: the subscriptions, each of one customer
  events,           \* Stripe: snapshots not delivered yet
  pc, loc,          \* per process: next step, and what it knows by then
  ops, faults,
  \* History, for the properties only:
  owed,             \* the account may not show what Stripe has
  fresh,            \* requests that listed the subscriptions as they now are
  twice,            \* a customer was created while the account had one already
  behind,           \* reconciles that read the account before it was comped
  blurred           \* overlapping requests, failed calls or old events touched pending

history == <<owed, fresh, twice, behind, blurred>>
vars == <<acct, subs, events, pc, loc, ops, faults, history>>

-----------------------------------------------------------------------------
NoSub == 0

\* price.plan is plan_name; a comp has no interval.
NewAccount == [plan |-> "free", interval |-> "none", status |-> "none", sub |-> NoSub,
               compOver |-> FALSE, pending |-> Free, customer |-> NoCustomer]
Comped == acct.status = "comped"

\* schedule: the price its second phase has, Free if there is no schedule; begun: that
\* phase runs.
Unborn == [status |-> "none", price |-> Free, schedule |-> Free, begun |-> FALSE,
           cancelling |-> FALSE, customer |-> NoCustomer]
Live == {s \in SubIds : subs[s].status = "active"}
Born == {s \in SubIds : subs[s].status \in {"active", "canceled"}}

Snapshot(s) == [id |-> s, status |-> subs[s].status, price |-> subs[s].price,
                schedule |-> subs[s].schedule, customer |-> subs[s].customer]
NoSnapshot == [id |-> NoSub, status |-> "none", price |-> Free, schedule |-> Free,
               customer |-> NoCustomer]

Newest(S) == CHOOSE s \in S : \A r \in S : r <= s

\* Stripe lists the subscriptions of one customer.
Listed(c) == {s \in Born : subs[s].customer = c}
LiveOf(c) == Listed(c) \cap Live

\* The newest live subscription of a customer, else the newest.
ChosenOf(c) == IF LiveOf(c) # {} THEN Snapshot(Newest(LiveOf(c)))
               ELSE IF Listed(c) # {} THEN Snapshot(Newest(Listed(c))) ELSE NoSnapshot
Chosen == ChosenOf(acct.customer)

Rank(plan) == IF plan = "business" THEN 2 ELSE IF plan = "pro" THEN 1 ELSE 0

Direction(plan, interval, target) ==
  CASE plan = target.plan /\ interval = target.interval -> "same"
    [] Rank(target.plan) > Rank(plan) -> "upgrade"
    [] Rank(target.plan) < Rank(plan) -> "downgrade"
    [] OTHER -> IF target.interval = "year" THEN "upgrade" ELSE "downgrade"

ReconcileSteps == {"rc_read", "rc_expire", "rc_list", "rc_write", "rc_after", "rc_clear"}
ChangeSteps == {"ch_get", "up_release", "up_update", "up_clear", "dn_create", "dn_phases",
                "dn_mark", "cs_get", "cs_release", "cs_clear", "ca_get", "ca_release",
                "ca_clear", "ca_flag", "resume"}
Steps == {"idle", "hook_get", "co_customer", "co_store", "co_session", "cl_cancel", "comp"}
           \cup ReconcileSteps \cup ChangeSteps

AnyCustomer == Customers \cup {NoCustomer}

\* What a request knows: the subscription it read or is about, the price it asks for, the
\* customer it acts for, and whether its reconcile is part of an upgrade.
Local == [sub : [id : SubIds \cup {NoSub}, status : {"none", "active", "canceled"},
                 price : Price \cup {Free}, schedule : Price \cup {Free},
                 customer : AnyCustomer],
          target : Price \cup {Free}, upgrading : BOOLEAN, customer : AnyCustomer]
NoLocal == [sub |-> NoSnapshot, target |-> Free, upgrading |-> FALSE,
            customer |-> NoCustomer]
About(s) == [NoLocal EXCEPT !.sub.id = s]

TypeOK ==
  /\ acct \in [plan : PaidPlans \cup {"free"}, interval : {"month", "year", "none"},
               status : {"none", "active", "canceled", "comped"},
               sub : SubIds \cup {NoSub}, compOver : BOOLEAN, pending : Price \cup {Free},
               customer : AnyCustomer]
  /\ acct.status = "active" => acct.plan # "free" /\ acct.sub # NoSub
  /\ Comped => blurred \/ (acct.sub = NoSub /\ acct.pending = Free)
  /\ subs \in [SubIds -> [status : {"none", "draft", "active", "canceled"},
                          price : Price \cup {Free}, schedule : Price \cup {Free},
                          begun : BOOLEAN, cancelling : BOOLEAN, customer : AnyCustomer]]
  /\ pc \in [Procs -> Steps] /\ loc \in [Procs -> Local]
  /\ ops \in Nat /\ faults \in Nat
  /\ owed \in BOOLEAN /\ fresh \subseteq Procs /\ behind \subseteq Procs
  /\ twice \in BOOLEAN /\ blurred \in BOOLEAN

\* A new account, or one that has paid for a subscription.
Init ==
  /\ \/ acct = NewAccount /\ subs = [s \in SubIds |-> Unborn]
     \/ \E pr \in Bought, s \in SubIds, c \in Customers :
          /\ \A r \in SubIds : s <= r
          /\ acct = [NewAccount EXCEPT !.plan = pr.plan, !.interval = pr.interval,
                                       !.status = "active", !.sub = s, !.customer = c]
          /\ subs = [r \in SubIds |->
                      IF r = s THEN [Unborn EXCEPT !.status = "active", !.price = pr,
                                                   !.customer = c]
                      ELSE Unborn]
  /\ events = {}
  /\ pc = [q \in Procs |-> "idle"] /\ loc = [q \in Procs |-> NoLocal]
  /\ ops = 0 /\ faults = 0
  /\ owed = FALSE /\ fresh = {} /\ behind = {}
  /\ twice = FALSE /\ blurred = FALSE

-----------------------------------------------------------------------------
(* Pieces shared by the handlers.                                           *)

Changing == {q \in Procs : pc[q] \in ChangeSteps \/ loc[q].upgrading}
Comping  == {q \in Procs : pc[q] \in {"cl_cancel", "comp"}}

Begin(q, step, l) ==
  /\ pc[q] = "idle" /\ ops < MaxOps /\ ops' = ops + 1
  /\ pc' = [pc EXCEPT ![q] = step] /\ loc' = [loc EXCEPT ![q] = l]
  /\ blurred' = (blurred \/ (step \in ChangeSteps \cup {"cl_cancel", "co_session"}
                             /\ Changing \cup Comping # {}))
  /\ UNCHANGED <<acct, subs, events, faults, owed, fresh, twice, behind>>

Goto(q, step, l) ==
  /\ pc' = [pc EXCEPT ![q] = step] /\ loc' = [loc EXCEPT ![q] = l]
  /\ UNCHANGED <<ops, faults>>

Step(q, step) == Goto(q, step, loc[q])
Return(q)     == Goto(q, "idle", NoLocal)

\* Stripe changes subscription s and sends an event of it.
StripeWrites(s, new) ==
  /\ Cardinality(events) < MaxEvents
  /\ subs' = [subs EXCEPT ![s] = new]
  /\ events' = events \cup {[id |-> s, status |-> new.status, price |-> new.price,
                             schedule |-> new.schedule, customer |-> new.customer]}
  /\ owed' = TRUE /\ fresh' = {}

StripeRests == UNCHANGED <<subs, events, owed, fresh>>

\* resetAccountToFree: the customer is not among the fields it sets.
ResetToFree(status) == [NewAccount EXCEPT !.status = status, !.customer = acct.customer]

\* Reconciles that listed the subscriptions of another customer are fresh no more.
Relisted(stillFresh) == fresh' = IF acct'.customer = acct.customer THEN stillFresh ELSE {}

\* applyAccountSubscription: whatever the row holds; pending_* are left alone.
Applied(sub) ==
  IF sub.status = "active"
  THEN [acct EXCEPT !.plan = sub.price.plan, !.interval = sub.price.interval,
                    !.status = "active", !.sub = sub.id, !.compOver = FALSE,
                    !.customer = sub.customer]
  ELSE [acct EXCEPT !.plan = "free", !.interval = "none", !.status = "canceled",
                    !.sub = sub.id, !.compOver = FALSE, !.customer = sub.customer]

ClearPending == acct' = [acct EXCEPT !.pending = Free]

-----------------------------------------------------------------------------
(* reconcileAccount, from a status poll and at the end of an upgrade.       *)

BillingStatus(q) == Begin(q, "rc_read", NoLocal)

AfterReconcile(q) ==
  IF loc[q].upgrading THEN Goto(q, "up_clear", [NoLocal EXCEPT !.upgrading = TRUE])
  ELSE Return(q)

\* Mutant: no guard for comps.
MutRcRead(q) ==
  /\ pc[q] = "rc_read" /\ acct.customer # NoCustomer
  /\ Goto(q, "rc_list", [loc[q] EXCEPT !.customer = acct.customer])
  /\ behind' = behind \ {q}
  /\ UNCHANGED <<acct, subs, events, owed, fresh, twice, blurred>>

\* Without a customer there is nothing to list.
RcRead(q) ==
  /\ pc[q] = "rc_read"
  /\ IF Comped THEN IF acct.compOver THEN Step(q, "rc_expire") ELSE AfterReconcile(q)
     ELSE IF acct.customer = NoCustomer THEN AfterReconcile(q)
     ELSE Goto(q, "rc_list", [loc[q] EXCEPT !.customer = acct.customer])
  /\ behind' = behind \ {q}
  /\ UNCHANGED <<acct, subs, events, owed, fresh, twice, blurred>>

RcExpire(q) ==
  /\ pc[q] = "rc_expire"
  /\ acct' = ResetToFree("none") /\ owed' = TRUE
  /\ blurred' = (blurred \/ Changing # {} \/ ~Comped)
  /\ behind' = behind \ {q}
  /\ AfterReconcile(q)
  /\ UNCHANGED <<subs, events, fresh, twice>>

\* By the customer id that the row had when it was read.
RcList(q) ==
  /\ pc[q] = "rc_list"
  /\ Goto(q, "rc_write", [loc[q] EXCEPT !.sub = ChosenOf(loc[q].customer)])
  /\ fresh' = IF loc[q].customer = acct.customer THEN fresh \cup {q} ELSE fresh
  /\ UNCHANGED <<acct, subs, events, owed, twice, behind, blurred>>

\* Nothing found: free, and done; else the markers are looked at once more.
RcWrite(q) ==
  LET sub == loc[q].sub IN
  /\ pc[q] = "rc_write"
  /\ acct' = IF sub.id = NoSub THEN ResetToFree("none")
             ELSE IF sub.status = "canceled" THEN ResetToFree("canceled") ELSE Applied(sub)
  /\ IF sub.id = NoSub THEN AfterReconcile(q) /\ fresh' = fresh \ {q}
     ELSE Step(q, "rc_after") /\ Relisted(fresh)
  /\ owed' = (q \notin fresh)
  /\ blurred' = (blurred \/ Comping # {} \/ q \notin fresh)
  /\ behind' = behind \ {q}
  /\ UNCHANGED <<subs, events, twice>>

\* "Once the live plan matches the pending target (or the schedule is gone)": the plan
\* alone is compared.
TakenEffect(sub) ==
  acct.pending # Free /\ (acct.plan = acct.pending.plan \/ sub.schedule = Free)

RcAfter(q) ==
  /\ pc[q] = "rc_after"
  /\ IF TakenEffect(loc[q].sub)
     THEN Goto(q, "rc_clear", [loc[q] EXCEPT !.target = acct.pending]) /\ UNCHANGED fresh
     ELSE AfterReconcile(q) /\ fresh' = fresh \ {q}
  /\ blurred' = (blurred \/ q \notin fresh)
  /\ UNCHANGED <<acct, subs, events, owed, twice, behind>>

RcClear(q) ==
  /\ pc[q] = "rc_clear" /\ ClearPending
  /\ blurred' = (blurred \/ q \notin fresh \/ acct.pending # loc[q].target
                          \/ acct.pending.plan = loc[q].sub.price.plan)
  /\ AfterReconcile(q) /\ fresh' = fresh \ {q}
  /\ UNCHANGED <<subs, events, owed, twice, behind>>

-----------------------------------------------------------------------------
(* Webhooks.                                                                *)

\* customer.subscription.*: the snapshot is written as it stands.
DeliverEvent(q) ==
  \E e \in events :
    /\ pc[q] = "idle"
    /\ acct' = Applied(e)
    /\ events' = events \ {e}
    /\ owed' = TRUE /\ Relisted(fresh)
    /\ blurred' = (blurred \/ Comping # {} \/ e # Chosen)
    /\ UNCHANGED <<subs, pc, loc, ops, faults, twice, behind>>

\* A failure is logged and the event acknowledged: Stripe will not send it again.
LoseEvent ==
  \E e \in events :
    /\ faults < MaxFaults /\ faults' = faults + 1 /\ events' = events \ {e}
    /\ UNCHANGED <<acct, subs, pc, loc, ops, history>>

\* checkout.session.completed fetches the subscription and writes what it fetched.
SessionCompleted(q) ==
  \E s \in Live : Begin(q, "hook_get", [About(s) EXCEPT !.sub = Snapshot(s)])

HookApply(q) ==
  /\ pc[q] = "hook_get"
  /\ acct' = Applied(loc[q].sub)
  /\ owed' = TRUE /\ Relisted(fresh)
  /\ blurred' = (blurred \/ Comping # {} \/ loc[q].sub # Chosen)
  /\ Return(q) /\ UNCHANGED <<subs, events, twice, behind>>

-----------------------------------------------------------------------------
(* Checkout: no guard against a live subscription.                          *)

CreateCheckout(q) ==
  \E pr \in Prices :
    Begin(q, IF acct.customer = NoCustomer THEN "co_customer" ELSE "co_session",
          [NoLocal EXCEPT !.target = pr, !.customer = acct.customer])

\* Nothing keeps two requests that both read NULL from each creating a customer.
Known(c) == \/ c = acct.customer \/ \E r \in Procs : loc[r].customer = c
            \/ \E s \in SubIds : subs[s].customer = c

CoCustomer(q) ==
  /\ pc[q] = "co_customer"
  /\ \E c \in Customers : ~Known(c) /\ Goto(q, "co_store", [loc[q] EXCEPT !.customer = c])
  /\ twice' = (twice \/ acct.customer # NoCustomer
                      \/ \E r \in Procs : loc[r].customer # NoCustomer)
  /\ blurred' = (blurred \/ twice')
  /\ UNCHANGED <<acct, subs, events, owed, fresh, behind>>

\* Mutant: the customer is created and not kept.
MutCoStore(q) ==
  /\ pc[q] = "co_store" /\ Step(q, "co_session")
  /\ UNCHANGED <<acct, subs, events, history>>

CoStore(q) ==
  /\ pc[q] = "co_store" /\ Step(q, "co_session")
  /\ acct' = [acct EXCEPT !.customer = loc[q].customer]
  /\ owed' = TRUE /\ Relisted(fresh)
  /\ UNCHANGED <<subs, events, twice, behind, blurred>>

\* The session is for the customer of this request; what is bought in it is theirs.
CoSession(q) ==
  /\ pc[q] = "co_session"
  /\ \E s \in SubIds :
       /\ subs[s].status = "none"
       /\ subs' = [subs EXCEPT ![s] = [Unborn EXCEPT !.status = "draft",
                                                     !.price = loc[q].target,
                                                     !.customer = loc[q].customer]]
  /\ Return(q)
  /\ UNCHANGED <<acct, events, history>>

-----------------------------------------------------------------------------
(* applyPlanChange and cancelScheduledChange.                               *)

\* loadForChange: the direction is told from the row, the schedule from Stripe.
ApplyPlanChange(q) ==
  \E target \in Prices :
    /\ acct.sub # NoSub /\ ~Comped
    /\ Direction(acct.plan, acct.interval, target) # "same"
    /\ Begin(q, "ch_get",
             [About(acct.sub) EXCEPT
                !.target = target,
                !.upgrading = Direction(acct.plan, acct.interval, target) = "upgrade"])

ChGet(q) ==
  LET sub == Snapshot(loc[q].sub.id) IN
  /\ pc[q] = "ch_get"
  /\ Goto(q, IF loc[q].upgrading THEN IF sub.schedule = Free THEN "up_update"
                                      ELSE "up_release"
             ELSE IF sub.schedule = Free THEN "dn_create" ELSE "dn_phases",
          IF loc[q].upgrading THEN loc[q] ELSE [loc[q] EXCEPT !.sub = sub])
  /\ UNCHANGED <<acct, subs, events, history>>

\* subscriptionSchedules.release; an error is swallowed.
Released(s) == [subs[s] EXCEPT !.schedule = Free, !.begun = FALSE]

Release(s) ==
  IF subs[s].schedule = Free THEN StripeRests ELSE StripeWrites(s, Released(s))

ReleaseSteps == {"up_release", "cs_release", "ca_release"}
AfterRelease(step) ==
  CASE step = "up_release" -> "up_update" [] step = "cs_release" -> "cs_clear"
    [] OTHER -> "ca_clear"

ReleaseSchedule(q) ==
  /\ pc[q] \in ReleaseSteps
  /\ Release(loc[q].sub.id)
  /\ Step(q, AfterRelease(pc[q]))
  /\ UNCHANGED <<acct, twice, behind, blurred>>

ReleaseSwallowed(q) ==
  /\ pc[q] \in ReleaseSteps /\ faults < MaxFaults
  /\ faults' = faults + 1
  /\ pc' = [pc EXCEPT ![q] = AfterRelease(pc[q])] /\ blurred' = TRUE
  /\ UNCHANGED <<acct, subs, events, loc, ops, owed, fresh, twice, behind>>

\* The price is swapped and the difference invoiced now, or nothing happens.
UpUpdate(q) ==
  LET s == loc[q].sub.id IN
  /\ pc[q] = "up_update" /\ subs[s].status = "active"
  /\ StripeWrites(s, [subs[s] EXCEPT !.price = loc[q].target])
  /\ Goto(q, "rc_read", [NoLocal EXCEPT !.upgrading = TRUE])
  /\ UNCHANGED <<acct, twice, behind, blurred>>

ClearSteps == {"up_clear", "cs_clear", "ca_clear"}

ClearMarkers(q) ==
  /\ pc[q] \in ClearSteps /\ ClearPending
  /\ IF pc[q] = "ca_clear" THEN Step(q, "ca_flag") ELSE Return(q)
  /\ StripeRests /\ UNCHANGED <<twice, behind, blurred>>

\* Only one schedule to a subscription, and none to a cancelled one.
DnCreate(q) ==
  LET s == loc[q].sub.id IN
  /\ pc[q] = "dn_create" /\ subs[s].status = "active" /\ subs[s].schedule = Free
  /\ StripeWrites(s, [subs[s] EXCEPT !.schedule = subs[s].price])
  /\ Step(q, "dn_phases")
  /\ UNCHANGED <<acct, twice, behind, blurred>>

\* Retrieved and updated: the price read before until the period ends, then the target.
\* The schedule has its own end_behavior, so a cancellation at period end is off.
DnPhases(q) ==
  LET s == loc[q].sub.id IN
  /\ pc[q] = "dn_phases" /\ subs[s].status = "active" /\ subs[s].schedule # Free
  /\ StripeWrites(s, [subs[s] EXCEPT !.schedule = loc[q].target, !.begun = FALSE,
                                     !.cancelling = FALSE, !.price = loc[q].sub.price])
  /\ Step(q, "dn_mark")
  /\ UNCHANGED <<acct, twice, behind, blurred>>

\* Mutant: the schedule's own markers are not written.
MutDnMark(q) ==
  /\ pc[q] = "dn_mark" /\ Return(q)
  /\ UNCHANGED acct /\ StripeRests /\ UNCHANGED <<twice, behind, blurred>>

DnMark(q) ==
  /\ pc[q] = "dn_mark"
  /\ acct' = [acct EXCEPT !.pending = loc[q].target]
  /\ blurred' = (blurred \/ Comped)
  /\ Return(q) /\ StripeRests /\ UNCHANGED <<twice, behind>>

CancelScheduledChange(q) ==
  Begin(q, IF acct.sub = NoSub THEN "cs_clear" ELSE "cs_get", About(acct.sub))

CsGet(q) ==
  /\ pc[q] = "cs_get"
  /\ Step(q, IF subs[loc[q].sub.id].schedule = Free THEN "cs_clear" ELSE "cs_release")
  /\ UNCHANGED <<acct, subs, events, history>>

-----------------------------------------------------------------------------
(* cancelSubscription and resumeSubscription.                               *)

CancelSubscription(q) ==
  acct.sub # NoSub /\ ~Comped /\ Begin(q, "ca_get", About(acct.sub))
ResumeSubscription(q) ==
  acct.sub # NoSub /\ ~Comped /\ Begin(q, "resume", About(acct.sub))

CaGet(q) ==
  /\ pc[q] = "ca_get"
  /\ Step(q, IF subs[loc[q].sub.id].schedule = Free THEN "ca_flag" ELSE "ca_release")
  /\ UNCHANGED <<acct, subs, events, history>>

\* A schedule owns the subscription: the flag cannot be set while there is one.
SetCancelling(q) ==
  LET s == loc[q].sub.id IN
  /\ pc[q] \in {"ca_flag", "resume"} /\ subs[s].status = "active" /\ subs[s].schedule = Free
  /\ StripeWrites(s, [subs[s] EXCEPT !.cancelling = (pc[q] = "ca_flag")])
  /\ Return(q)
  /\ UNCHANGED <<acct, twice, behind, blurred>>

-----------------------------------------------------------------------------
(* A comp, by promo code or by an admin: cancelActiveSubscription first.    *)

GrantComp(q) ==
  Begin(q, IF acct.sub = NoSub THEN "comp" ELSE "cl_cancel", About(acct.sub))

\* Mutant: the row is comped, the subscription goes on.
MutClCancel(q) ==
  /\ pc[q] = "cl_cancel" /\ Step(q, "comp")
  /\ UNCHANGED <<acct, subs, events, history>>

ClCancel(q) ==
  LET s == loc[q].sub.id IN
  /\ pc[q] = "cl_cancel"
  /\ IF subs[s].status = "active"
     THEN StripeWrites(s, [Released(s) EXCEPT !.status = "canceled"])
     ELSE StripeRests
  /\ Step(q, "comp")
  /\ UNCHANGED <<acct, twice, behind, blurred>>

ClCancelSwallowed(q) ==
  /\ pc[q] = "cl_cancel" /\ faults < MaxFaults
  /\ faults' = faults + 1 /\ pc' = [pc EXCEPT ![q] = "comp"] /\ blurred' = TRUE
  /\ UNCHANGED <<acct, subs, events, loc, ops, owed, fresh, twice, behind>>

Comp(q) ==
  /\ pc[q] = "comp"
  /\ \E plan \in PaidPlans :
       acct' = [NewAccount EXCEPT !.plan = plan, !.status = "comped",
                                  !.customer = acct.customer]
  /\ behind' = {r \in Procs : pc[r] \in {"rc_expire", "rc_list", "rc_write"}}
  /\ blurred' = (blurred \/ \E s \in Live : subs[s].schedule # Free)
  /\ Return(q) /\ StripeRests /\ UNCHANGED twice

\* Stripe refuses, or a call or query throws: what was done so far stays.
Refused(q) ==
  LET sub == subs[loc[q].sub.id] IN
  /\ \/ pc[q] \in {"up_update", "dn_create", "dn_phases", "ca_flag", "resume"}
        /\ sub.status # "active"
     \/ pc[q] \in {"dn_create", "ca_flag", "resume"} /\ sub.schedule # Free
     \/ pc[q] = "dn_phases" /\ sub.schedule = Free
  /\ blurred' = TRUE
  /\ Return(q)
  /\ UNCHANGED <<acct, subs, events, owed, fresh, twice, behind>>

Fail(q) ==
  /\ pc[q] # "idle" /\ faults < MaxFaults /\ faults' = faults + 1
  /\ pc' = [pc EXCEPT ![q] = "idle"] /\ loc' = [loc EXCEPT ![q] = NoLocal]
  /\ blurred' = TRUE /\ fresh' = fresh \ {q} /\ behind' = behind \ {q}
  /\ UNCHANGED <<acct, subs, events, ops, owed, twice>>

-----------------------------------------------------------------------------
(* The customer pays; time passes.                                          *)

PayCheckout ==
  \E s \in SubIds :
    /\ subs[s].status = "draft" /\ \A r \in SubIds : r < s => subs[r].status # "draft"
    /\ StripeWrites(s, [subs[s] EXCEPT !.status = "active"])
    /\ blurred' = (blurred \/ Live # {})
    /\ UNCHANGED <<acct, pc, loc, ops, faults, twice, behind>>

\* The period ends: cancelled, on to the schedule's second phase, out of it, or renewed.
PeriodEnds ==
  \E s \in Live :
    LET sub == subs[s] IN
    /\ sub.cancelling \/ sub.schedule # Free
    /\ StripeWrites(s, IF sub.cancelling THEN [Released(s) EXCEPT !.status = "canceled"]
                       ELSE IF sub.begun THEN Released(s)
                       ELSE [sub EXCEPT !.price = sub.schedule, !.begun = TRUE])
    /\ UNCHANGED <<acct, pc, loc, ops, faults, twice, behind, blurred>>

CompRunsOut ==
  /\ Comped /\ ~acct.compOver /\ acct' = [acct EXCEPT !.compOver = TRUE]
  /\ UNCHANGED <<subs, events, pc, loc, ops, faults, history>>

Next ==
  \/ \E q \in Procs :
       \/ BillingStatus(q) \/ RcRead(q) \/ RcExpire(q) \/ RcList(q) \/ RcWrite(q)
       \/ RcAfter(q) \/ RcClear(q) \/ DeliverEvent(q) \/ SessionCompleted(q) \/ HookApply(q)
       \/ CreateCheckout(q) \/ CoCustomer(q) \/ CoStore(q) \/ CoSession(q)
       \/ ApplyPlanChange(q) \/ ChGet(q) \/ ReleaseSchedule(q) \/ ReleaseSwallowed(q)
       \/ UpUpdate(q) \/ ClearMarkers(q) \/ DnCreate(q) \/ DnPhases(q) \/ DnMark(q)
       \/ CancelScheduledChange(q) \/ CsGet(q)
       \/ CancelSubscription(q) \/ ResumeSubscription(q) \/ CaGet(q) \/ SetCancelling(q)
       \/ GrantComp(q) \/ ClCancel(q) \/ ClCancelSwallowed(q) \/ Comp(q)
       \/ Refused(q) \/ Fail(q)
  \/ LoseEvent \/ PayCheckout \/ PeriodEnds \/ CompRunsOut

Spec == Init /\ [][Next]_vars

-----------------------------------------------------------------------------
(* Properties.                                                              *)

Agrees ==
  LET mine == LiveOf(acct.customer) IN
  IF Comped THEN TRUE
  ELSE IF mine = {} THEN acct.plan = "free" /\ acct.sub = NoSub
  ELSE /\ acct.sub \in mine
       /\ [plan |-> acct.plan, interval |-> acct.interval] = subs[acct.sub].price

\* "Pull an account's latest subscription from Stripe and persist it" (accountBilling.js):
\* when a reconcile that listed the subscriptions as they are has written, and nothing has
\* happened since, the account shows the live subscription of the customer on file, or is
\* free or comped, whatever old events, crossed requests and lost events came before; and
\* every live subscription is of that customer, "one Stripe customer per account"
\* (createCheckoutSession.js), unless two checkouts created one each.
SyncedAgrees == owed \/ (Agrees /\ (twice \/ Live \subseteq Listed(acct.customer)))

\* "Preserves comped accounts" (accountBilling.js): only an event, or a reconcile that had
\* read the account before it was comped, takes a comp away before its time.
CompOutlivesReconcile ==
  [][Comped /\ ~acct.compOver /\ acct'.status # "comped"
     => \/ events' # events
        \/ \E q \in Procs : pc[q] = "hook_get" /\ pc'[q] = "idle"
        \/ \E q \in behind : pc[q] \in {"rc_expire", "rc_write"} /\ pc'[q] # pc[q]]_vars

\* A downgrade waiting at Stripe is shown to the customer, and as what it is: the upgrade,
\* the cancellation and the second downgrade that supersede it take schedule and markers
\* away together.  Excepted are calls that failed, requests that overlapped, old events,
\* two live subscriptions, and a change of the interval alone, whose markers the next
\* reconcile takes for fulfilled.
ScheduleShown ==
  blurred \/ Changing # {}
  \/ \A s \in Live : subs[s].schedule # Free /\ ~subs[s].begun
                       => acct.pending = subs[s].schedule

\* "Cancel it before comping, otherwise the provider keeps charging" (redeemPromo.js): the
\* subscription a comp takes the place of is not live any more, unless its cancellation
\* failed or another request or an event crossed it.
CompNotCharged ==
  [][acct.status # "comped" /\ acct'.status = "comped"
     => blurred \/ acct.sub = NoSub \/ subs[acct.sub].status # "active"]_vars
=============================================================================
