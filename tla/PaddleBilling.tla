--------------------------- MODULE PaddleBilling ---------------------------
(***************************************************************************)
(* One billing account kept in step with Paddle (the active provider).     *)
(*                                                                         *)
(* The account is the billing_accounts row of one e-mail.  Every request,  *)
(* webhook or scheduler tick is a process of Procs that runs one handler   *)
(* of paddleBilling.js at a time; each awaited database transaction or     *)
(* Paddle call is one atomic step, so other processes run between any two. *)
(* Paddle itself (subscriptions, renewals, notifications) is an external   *)
(* actor modelled from how the handlers use it.                            *)
(*                                                                         *)
(* Left out as data: prices in money, discounts (ensureOfferDiscount,      *)
(* discountPatch), the Paddle customer id (an attribution key that is set  *)
(* before any transaction exists and never changed), and every refusal     *)
(* that changes no state.                                                  *)
(***************************************************************************)
EXTENDS Integers, FiniteSets

CONSTANTS
  Procs,       \* concurrently running handlers (PM2 workers, event-loop tasks)
  SubIds,      \* Paddle subscriptions that may ever be created for the account
  Prices,      \* the plan/interval pairs a request may name
  Length,      \* length of a billing period, per interval, in ticks
  Lead,        \* leadSeconds: how early the sweep may apply a due change
  Tolerance,   \* the 24 hours after which the sweep says a renewal beat it
  CompLength,  \* length of a timed comp
  MaxClock,    \* bound: last instant
  MaxOps,      \* bound: handlers started by the customer or an admin
  MaxFaults,   \* bound: failed calls
  NoSub, NoProc

PaidPlans == {"pro", "business"}
Plans     == {"free"} \cup PaidPlans
Intervals == {"month", "year"}
NoTime    == -1          \* SQL NULL in a DATETIME column

ASSUME ConstantsOK ==
  /\ Prices \subseteq [plan : PaidPlans, interval : Intervals]
  /\ Length \in [Intervals -> Nat \ {0}] /\ Length["month"] <= Length["year"]
  /\ Lead \in Nat /\ Tolerance \in Nat /\ CompLength \in Nat
  /\ MaxClock \in Nat /\ MaxOps \in Nat /\ MaxFaults \in Nat
  /\ NoSub \notin SubIds /\ NoProc \notin Procs

VARIABLES
  acct,     \* the billing_accounts row
  subs,     \* Paddle: the account's subscriptions
  clock,    \* now, for both sides
  pc, loc,  \* per process: next step, and what the handler read earlier
  lock,     \* holder of the scheduler's advisory lock
  event,    \* Paddle has an undelivered subscription.* notification
  ops, faults,
  \* History, for the properties only:
  owed,     \* something changed, by another handler's write included, that no
            \* complete reconcile has seen yet
  fresh,    \* processes whose running reconcile began after the last change
  promise   \* the plan a scheduled downgrade said the customer keeps, and until when

history == <<owed, fresh, promise>>
vars == <<acct, subs, clock, pc, loc, lock, event, ops, faults, history>>

-----------------------------------------------------------------------------
Live == {"active", "trialing", "past_due"}
Rank(plan) == CASE plan = "business" -> 2 [] plan = "pro" -> 1 [] OTHER -> 0

Price == [plan : PaidPlans, interval : Intervals]
NoPrice == [plan |-> "free", interval |-> "none"]
PriceOrNone == Price \cup {NoPrice}

AcctStatuses == Live \cup {"none", "comped", "canceled"}
Account ==
  [plan_name : Plans, subscription_status : AcctStatuses,
   billing_interval : Intervals \cup {"none"}, current_period_end : Int,
   pending_plan : PaidPlans \cup {"none"},
   pending_interval : Intervals \cup {"none"}, pending_effective_at : Int,
   paddle_subscription_id : SubIds \cup {NoSub}]

\* A row with no billing interval and nothing pending.
Unbilled(plan, status, end, sub) ==
  [plan_name |-> plan, subscription_status |-> status,
   billing_interval |-> "none", current_period_end |-> end,
   pending_plan |-> "none", pending_interval |-> "none",
   pending_effective_at |-> NoTime, paddle_subscription_id |-> sub]

NewAccount == Unbilled("free", "none", NoTime, NoSub)

\* A subscription of Paddle's: "draft" is a checkout transaction not yet paid.
SubStatuses == {"none", "draft", "canceled"} \cup Live
Subscription == [status : SubStatuses, price : PriceOrNone, end : Int,
                 cancelAtPeriodEnd : BOOLEAN]
Subscribed(status, price, end, cancelling) ==
  [status |-> status, price |-> price, end |-> end, cancelAtPeriodEnd |-> cancelling]
Unborn == Subscribed("none", NoPrice, NoTime, FALSE)

\* normalizeSub: what a handler keeps of a subscription it fetched.
Normalized == [id : SubIds \cup {NoSub}, status : SubStatuses,
               price : PriceOrNone, end : Int]
NothingFound == [id |-> NoSub, status |-> "none", price |-> NoPrice, end |-> NoTime]
NormalizeSub(s) == [id |-> s, status |-> subs[s].status,
                    price |-> subs[s].price, end |-> subs[s].end]

\* What a handler holds between two awaits.
Local == [acct : Account, sub : Normalized, target : PriceOrNone, end : Int]
Holding(a, target, end) == [acct |-> a, sub |-> NothingFound, target |-> target, end |-> end]
NoLocal == Holding(NewAccount, NoPrice, NoTime)

Steps == {"idle", "rc_read", "rc_expire", "rc_stored", "rc_get", "rc_list",
          "rc_persist", "rc_write", "ck_txn", "up_update", "dn_update", "dn_mark",
          "cs_read", "cs_get", "cs_update", "cs_clear", "cancel", "resume",
          "cl_cancel", "grant", "sw_get", "sw_retarget", "sw_update"}

TypeOK ==
  /\ acct \in Account
  /\ acct.pending_plan = "none" <=> acct.pending_interval = "none"
  /\ subs \in [SubIds -> Subscription]
  /\ clock \in Nat
  /\ pc \in [Procs -> Steps]
  /\ loc \in [Procs -> Local]
  /\ lock \in Procs \cup {NoProc}
  /\ event \in BOOLEAN /\ ops \in Nat /\ faults \in Nat
  /\ owed \in BOOLEAN /\ fresh \subseteq Procs
  /\ promise \in [plan : Plans, until : Int]

NoPromise == [plan |-> "free", until |-> NoTime]

Init ==
  /\ acct = NewAccount
  /\ subs = [s \in SubIds |-> Unborn]
  /\ clock = 0
  /\ pc = [p \in Procs |-> "idle"]
  /\ loc = [p \in Procs |-> NoLocal]
  /\ lock = NoProc
  /\ event = FALSE /\ ops = 0 /\ faults = 0
  /\ owed = FALSE /\ fresh = {} /\ promise = NoPromise

-----------------------------------------------------------------------------
(* Pieces shared by the handlers.                                           *)

Goto(p, step, l) ==
  /\ pc' = [pc EXCEPT ![p] = step]
  /\ loc' = [loc EXCEPT ![p] = l]
  /\ UNCHANGED lock

\* Mutant: releases the advisory lock whoever holds it.
MutFinish(p) ==
  /\ pc' = [pc EXCEPT ![p] = "idle"]
  /\ loc' = [loc EXCEPT ![p] = NoLocal]
  /\ lock' = NoProc

\* The handler returns (or throws); its pooled connection, and with it the
\* advisory lock if the sweep held it, is released.
Finish(p) ==
  /\ pc' = [pc EXCEPT ![p] = "idle"]
  /\ loc' = [loc EXCEPT ![p] = NoLocal]
  /\ lock' = IF lock = p THEN NoProc ELSE lock

\* A request of the customer or an admin begins.
Begin(p, step, l) ==
  /\ pc[p] = "idle" /\ ops < MaxOps
  /\ ops' = ops + 1
  /\ Goto(p, step, l)

Disturb == owed' = TRUE /\ fresh' = {}
Quiet   == UNCHANGED <<owed, fresh>>
\* The last write of p's reconcile: to every other handler it is a change.
Settle(p) ==
  /\ owed' = IF p \in fresh THEN FALSE ELSE owed \/ acct' # acct
  /\ fresh' = IF acct' = acct THEN fresh \ {p} ELSE {}

\* Paddle changes a subscription, and owes the backend a notification.
PaddleWrites(newSubs) == subs' = newSubs /\ event' = TRUE /\ Disturb

\* subscriptions.update with one item: Paddle keeps the billing date unless the
\* interval changes, and refuses a subscription that is no longer live.
PaddleUpdate(s, price) ==
  /\ s \in SubIds /\ subs[s].status \in Live
  /\ PaddleWrites([subs EXCEPT ![s] =
       Subscribed(@.status, price,
                  IF price.interval = @.price.interval THEN @.end
                  ELSE clock + Length[price.interval],
                  @.cancelAtPeriodEnd)])

\* Mutant: one pending marker survives the reset.
MutResetToFree(a, status) ==
  [Unbilled("free", status, NoTime, a.paddle_subscription_id)
     EXCEPT !.pending_interval = a.pending_interval]

\* setAccountPlan of resetAccountToFree: of what the row holds, only
\* paddle_subscription_id is not among its fields.
ResetToFree(a, status) == Unbilled("free", status, NoTime, a.paddle_subscription_id)

\* setAccountPlan of an admin grant or a free_plan promo code.
Comped(plan, end) == Unbilled(plan, "comped", end, NoSub)

CompExpired(a, now) == a.current_period_end # NoTime /\ a.current_period_end < now

\* Mutants: the date is compared the wrong way round; the date is ignored.
MutPendingActiveLate(a, now) == a.pending_plan # "none" /\ a.pending_effective_at < now
MutPendingActiveForever(a, now) == a.pending_plan # "none"

PendingActive(a, now) == a.pending_plan # "none" /\ a.pending_effective_at > now

\* directionOf, on the account's own plan and interval.
DirectionOf(curPlan, curInterval, price) ==
  CASE price.plan = curPlan /\ price.interval = curInterval -> "same"
    [] Rank(price.plan) > Rank(curPlan) -> "upgrade"
    [] Rank(price.plan) < Rank(curPlan) -> "downgrade"
    [] OTHER -> IF price.interval = "year" THEN "upgrade" ELSE "downgrade"

-----------------------------------------------------------------------------
(* reconcile: run by every webhook and billing-status request, and as the   *)
(* tail of an upgrade and of the sweep.                                     *)

\* handleWebhook answers { received: true } whatever reconcile does.
Webhook(p) ==
  /\ pc[p] = "idle" /\ event
  /\ event' = FALSE
  /\ Goto(p, "rc_read", NoLocal)
  /\ UNCHANGED <<acct, subs, clock, ops, faults, history>>

BillingStatus(p) ==
  /\ pc[p] = "idle"
  /\ Goto(p, "rc_read", NoLocal)
  /\ UNCHANGED <<acct, subs, clock, event, ops, faults, history>>

\* Mutant: comped accounts are reconciled like any other.
MutRcRead(p) ==
  /\ pc[p] = "rc_read"
  /\ Goto(p, "rc_stored", [loc[p] EXCEPT !.acct = acct])
  /\ fresh' = fresh \cup {p}
  /\ UNCHANGED <<acct, subs, clock, event, ops, faults, owed, promise>>

RcRead(p) ==
  /\ pc[p] = "rc_read"
  /\ acct.subscription_status = "comped" => CompExpired(acct, clock)
  /\ Goto(p, IF acct.subscription_status = "comped" THEN "rc_expire" ELSE "rc_stored",
          [loc[p] EXCEPT !.acct = acct])
  /\ fresh' = fresh \cup {p}
  /\ UNCHANGED <<acct, subs, clock, event, ops, faults, owed, promise>>

RcSkipComped(p) ==
  /\ pc[p] = "rc_read"
  /\ acct.subscription_status = "comped" /\ ~CompExpired(acct, clock)
  /\ Finish(p)
  /\ owed' = FALSE /\ fresh' = fresh \ {p}
  /\ UNCHANGED <<acct, subs, clock, event, ops, faults, promise>>

RcExpire(p) ==
  /\ pc[p] = "rc_expire"
  /\ acct' = ResetToFree(acct, "none")
  /\ Finish(p) /\ Disturb      \* returns without having looked at Paddle
  /\ UNCHANGED <<subs, clock, event, ops, faults, promise>>

\* fetchSubscription reads the row again; only a row without a subscription id
\* makes it search.
RcStored(p) ==
  /\ pc[p] = "rc_stored"
  /\ LET s == acct.paddle_subscription_id IN
       Goto(p, IF s = NoSub THEN "rc_list" ELSE "rc_get", [loc[p] EXCEPT !.sub.id = s])
  /\ UNCHANGED <<acct, subs, clock, event, ops, faults, history>>

RcGet(p) ==
  /\ pc[p] = "rc_get"
  /\ loc[p].sub.id \in SubIds
  /\ Goto(p, "rc_write", [loc[p] EXCEPT !.sub = NormalizeSub(loc[p].sub.id)])
  /\ UNCHANGED <<acct, subs, clock, event, ops, faults, history>>

\* Any live subscription may come first in Paddle's list.
RcList(p) ==
  /\ pc[p] = "rc_list"
  /\ \/ /\ \A s \in SubIds : subs[s].status \notin Live
        /\ Goto(p, "rc_write", [loc[p] EXCEPT !.sub = NothingFound])
     \/ \E s \in SubIds :
          /\ subs[s].status \in Live
          /\ Goto(p, "rc_persist", [loc[p] EXCEPT !.sub = NormalizeSub(s)])
  /\ UNCHANGED <<acct, subs, clock, event, ops, faults, history>>

RcPersist(p) ==
  /\ pc[p] = "rc_persist"
  /\ acct' = [acct EXCEPT !.paddle_subscription_id = loc[p].sub.id]
  /\ Goto(p, "rc_write", loc[p])
  /\ owed' = (owed \/ acct' # acct)
  /\ fresh' = IF acct' = acct THEN fresh ELSE fresh \cap {p}
  /\ UNCHANGED <<subs, clock, event, ops, faults, promise>>

\* Mutant: the ended subscription's status is recorded, the plan is left.
MutRcRevert(p) ==
  /\ pc[p] = "rc_write" /\ loc[p].sub.status \notin Live
  /\ acct' = IF loc[p].acct.subscription_status \in {"none", "comped"} THEN acct
             ELSE [acct EXCEPT !.subscription_status = "canceled"]
  /\ Finish(p) /\ Settle(p)
  /\ UNCHANGED <<subs, clock, event, ops, faults, promise>>

\* No live paid subscription: back to free, judged by the status read at the start.
RcRevert(p) ==
  /\ pc[p] = "rc_write" /\ loc[p].sub.status \notin Live
  /\ acct' = IF loc[p].acct.subscription_status \in {"none", "comped"} THEN acct
             ELSE ResetToFree(acct, IF loc[p].sub.status = "canceled" THEN "canceled" ELSE "none")
  /\ Finish(p) /\ Settle(p)
  /\ UNCHANGED <<subs, clock, event, ops, faults, promise>>

\* A scheduled downgrade is in flight: keep the plan and the pending markers.
RcHold(p) ==
  /\ pc[p] = "rc_write" /\ loc[p].sub.status \in Live
  /\ PendingActive(loc[p].acct, clock)
  /\ LET a == loc[p].acct  s == loc[p].sub IN
       acct' = [acct EXCEPT
         !.subscription_status = s.status,
         !.current_period_end =
             IF a.current_period_end # NoTime THEN a.current_period_end ELSE s.end,
         !.paddle_subscription_id = s.id]
  /\ Finish(p) /\ Settle(p)
  /\ UNCHANGED <<subs, clock, event, ops, faults, promise>>

\* Mutant: the pending markers are not cleared with the plan they announced.
MutRcApply(p) ==
  /\ pc[p] = "rc_write" /\ loc[p].sub.status \in Live
  /\ ~PendingActive(loc[p].acct, clock)
  /\ LET s == loc[p].sub IN
       acct' = [acct EXCEPT !.plan_name = s.price.plan, !.subscription_status = s.status,
                            !.billing_interval = s.price.interval,
                            !.current_period_end = s.end, !.paddle_subscription_id = s.id]
  /\ Finish(p) /\ Settle(p)
  /\ UNCHANGED <<subs, clock, event, ops, faults, promise>>

RcApply(p) ==
  /\ pc[p] = "rc_write" /\ loc[p].sub.status \in Live
  /\ ~PendingActive(loc[p].acct, clock)
  /\ LET s == loc[p].sub IN
       acct' = [plan_name |-> s.price.plan, subscription_status |-> s.status,
                billing_interval |-> s.price.interval, current_period_end |-> s.end,
                pending_plan |-> "none", pending_interval |-> "none",
                pending_effective_at |-> NoTime, paddle_subscription_id |-> s.id]
  /\ Finish(p) /\ Settle(p)
  /\ UNCHANGED <<subs, clock, event, ops, faults, promise>>

Reconcile(p) ==
  \/ RcRead(p) \/ RcSkipComped(p) \/ RcExpire(p) \/ RcStored(p) \/ RcGet(p)
  \/ RcList(p) \/ RcPersist(p) \/ RcRevert(p) \/ RcHold(p) \/ RcApply(p)

-----------------------------------------------------------------------------
(* The customer's requests.                                                 *)

\* createCheckout refuses a second subscription by what the row says now; the
\* transaction it then creates can be paid at any later time.
CreateCheckout(p) ==
  /\ ~(acct.paddle_subscription_id # NoSub /\ acct.subscription_status \in Live)
  /\ \E price \in Prices :
       Begin(p, "ck_txn", Holding(NewAccount, price, NoTime))
  /\ UNCHANGED <<acct, subs, clock, event, faults, history>>

CkTransaction(p) ==
  /\ pc[p] = "ck_txn"
  /\ \E s \in SubIds :
       /\ subs[s] = Unborn
       /\ subs' = [subs EXCEPT ![s] = Subscribed("draft", loc[p].target, NoTime, FALSE)]
  /\ Finish(p)
  /\ UNCHANGED <<acct, clock, event, ops, faults, history>>

\* loadForChange: the guard and the reads that change, cancel and resume share.
LoadForChange ==
  /\ acct.paddle_subscription_id # NoSub
  /\ acct.subscription_status # "comped"

CurInterval(a) == IF a.billing_interval = "none" THEN "month" ELSE a.billing_interval

ApplyChange(p) ==
  /\ LoadForChange
  /\ \E price \in Prices :
       LET direction == DirectionOf(acct.plan_name, CurInterval(acct), price)
           intervalChanged == price.interval # CurInterval(acct)
       IN  /\ direction # "same"
           /\ intervalChanged => CurInterval(acct) = "month" /\ direction = "upgrade"
           /\ Begin(p, IF direction = "upgrade" THEN "up_update" ELSE "dn_update",
                    Holding(acct, price, NoTime))
  /\ UNCHANGED <<acct, subs, clock, event, faults, history>>

\* An upgrade is charged and takes effect at Paddle at once, then is reconciled.
UpUpdate(p) ==
  /\ pc[p] = "up_update"
  /\ PaddleUpdate(loc[p].acct.paddle_subscription_id, loc[p].target)
  /\ Goto(p, "rc_read", Holding(NewAccount, loc[p].target, NoTime))
  /\ UNCHANGED <<acct, clock, ops, faults, promise>>

\* A downgrade swaps the item at Paddle first (do_not_bill) ...
DnUpdate(p) ==
  /\ pc[p] = "dn_update"
  /\ PaddleUpdate(loc[p].acct.paddle_subscription_id, loc[p].target)
  /\ Goto(p, "dn_mark", loc[p])
  /\ UNCHANGED <<acct, clock, ops, faults, promise>>

\* ... and then records when the lower plan is to apply.
DnMark(p) ==
  /\ pc[p] = "dn_mark"
  /\ LET c == loc[p] IN
       /\ acct' = [acct EXCEPT !.pending_plan = c.target.plan,
                               !.pending_interval = c.target.interval,
                               !.pending_effective_at = c.acct.current_period_end]
       /\ promise' = [plan |-> c.acct.plan_name, until |-> c.acct.current_period_end]
  /\ Finish(p) /\ Disturb
  /\ UNCHANGED <<subs, clock, event, ops, faults>>

\* cancelScheduledChange: the plan to restore comes from the first read, whether
\* anything is pending from the second.
CancelScheduledChange(p) ==
  /\ LoadForChange
  /\ Begin(p, "cs_read", Holding(acct, NoPrice, NoTime))
  /\ UNCHANGED <<acct, subs, clock, event, faults, history>>

CsRead(p) ==
  /\ pc[p] = "cs_read"
  /\ IF acct.pending_plan = "none" THEN Finish(p) ELSE Goto(p, "cs_get", loc[p])
  /\ UNCHANGED <<acct, subs, clock, event, ops, faults, history>>

\* paddlePriceIdFor: free has no price, and then Paddle is not touched.
PriceFor(a) == IF a.plan_name = "free" THEN NoPrice
               ELSE [plan |-> a.plan_name, interval |-> CurInterval(a)]

CsGet(p) ==
  /\ pc[p] = "cs_get"
  /\ LET s == loc[p].acct.paddle_subscription_id
         price == PriceFor(loc[p].acct)
     IN  /\ s \in SubIds
         /\ Goto(p, IF price \notin {NoPrice, subs[s].price} THEN "cs_update" ELSE "cs_clear",
                 [loc[p] EXCEPT !.target = price])
  /\ UNCHANGED <<acct, subs, clock, event, ops, faults, history>>

CsUpdate(p) ==
  /\ pc[p] = "cs_update"
  /\ PaddleUpdate(loc[p].acct.paddle_subscription_id, loc[p].target)
  /\ Goto(p, "cs_clear", loc[p])
  /\ UNCHANGED <<acct, clock, ops, faults, promise>>

\* Mutant: only the date of the scheduled change is cleared.
MutCsClear(p) ==
  /\ pc[p] = "cs_clear"
  /\ acct' = [acct EXCEPT !.pending_effective_at = NoTime]
  /\ promise' = NoPromise
  /\ Finish(p) /\ Disturb
  /\ UNCHANGED <<subs, clock, event, ops, faults>>

CsClear(p) ==
  /\ pc[p] = "cs_clear"
  /\ acct' = [acct EXCEPT !.pending_plan = "none", !.pending_interval = "none",
                          !.pending_effective_at = NoTime]
  /\ promise' = NoPromise
  /\ Finish(p) /\ Disturb
  /\ UNCHANGED <<subs, clock, event, ops, faults>>

\* cancelSubscription and resumeSubscription only change Paddle's schedule.
CancelOrResume(p) ==
  /\ LoadForChange
  /\ \E step \in {"cancel", "resume"} : Begin(p, step, Holding(acct, NoPrice, NoTime))
  /\ UNCHANGED <<acct, subs, clock, event, faults, history>>

ScheduleCancel(p) ==
  /\ pc[p] \in {"cancel", "resume"}
  /\ LET s == loc[p].acct.paddle_subscription_id IN
       /\ s \in SubIds /\ subs[s].status \in Live
       /\ PaddleWrites([subs EXCEPT ![s].cancelAtPeriodEnd = (pc[p] = "cancel")])
  /\ Finish(p)
  /\ UNCHANGED <<acct, clock, ops, faults, promise>>

-----------------------------------------------------------------------------
(* Grants: setAccountPlanAdmin and the free_plan branch of redeemPromo.     *)

\* target.plan is the plan granted ("free" revokes), end when a timed comp ends.
\* cancelLiveSubscription reads the row to find the subscription to cancel.
Grant(p) ==
  /\ \E plan \in Plans, end \in {NoTime, clock + CompLength} :
       Begin(p, IF acct.paddle_subscription_id = NoSub THEN "grant" ELSE "cl_cancel",
             Holding(acct, IF plan = "free" THEN NoPrice
                           ELSE [plan |-> plan, interval |-> "month"], end))
  /\ UNCHANGED <<acct, subs, clock, event, faults, history>>

ClCancel(p) ==
  /\ pc[p] = "cl_cancel"
  /\ LET s == loc[p].acct.paddle_subscription_id IN
       /\ s \in SubIds /\ subs[s].status \in Live
       /\ PaddleWrites([subs EXCEPT ![s].status = "canceled"])
  /\ promise' = NoPromise
  /\ Goto(p, "grant", loc[p])
  /\ UNCHANGED <<acct, clock, ops, faults>>

\* A cancellation Paddle refuses is logged and the grant goes on.
ClCancelSwallowed(p) ==
  /\ pc[p] = "cl_cancel"
  /\ LET s == loc[p].acct.paddle_subscription_id IN
       IF s \in SubIds /\ subs[s].status \in Live
       THEN faults < MaxFaults /\ faults' = faults + 1
       ELSE UNCHANGED faults
  /\ Goto(p, "grant", loc[p])
  /\ UNCHANGED <<acct, subs, clock, event, ops, history>>

GrantWrite(p) ==
  /\ pc[p] = "grant"
  /\ acct' = IF loc[p].target = NoPrice THEN ResetToFree(acct, "none")
             ELSE Comped(loc[p].target.plan, loc[p].end)
  /\ promise' = NoPromise
  /\ Finish(p) /\ Disturb
  /\ UNCHANGED <<subs, clock, event, ops, faults>>

-----------------------------------------------------------------------------
(* applyDuePendingChanges, under the advisory lock of billingScheduler.     *)

SweepDue(a) ==
  /\ a.pending_plan # "none" /\ a.pending_effective_at # NoTime
  /\ a.paddle_subscription_id # NoSub
  /\ a.subscription_status # "comped"
  /\ a.pending_effective_at <= clock + Lead

\* GET_LOCK(name, 0) and the SELECT; a tick that finds nothing due changes nothing.
Sweep(p) ==
  /\ pc[p] = "idle" /\ lock = NoProc /\ SweepDue(acct)
  /\ pc' = [pc EXCEPT ![p] = "sw_get"]
  /\ loc' = [loc EXCEPT ![p] = Holding(acct,
       [plan |-> acct.pending_plan,
        interval |-> IF acct.pending_interval = "year" THEN "year" ELSE "month"], NoTime)]
  /\ lock' = p
  /\ UNCHANGED <<acct, subs, clock, event, ops, faults, history>>

\* Already switched: nothing to do.  Renewed meanwhile: aim at the new period end.
SwGet(p) ==
  /\ pc[p] = "sw_get"
  /\ LET a == loc[p].acct  s == a.paddle_subscription_id IN
       /\ s \in SubIds
       /\ IF subs[s].price = loc[p].target THEN Finish(p)
          ELSE Goto(p, IF subs[s].end # NoTime /\ subs[s].end - a.pending_effective_at > Tolerance
                       THEN "sw_retarget" ELSE "sw_update",
                    [loc[p] EXCEPT !.sub = NormalizeSub(s)])
  /\ UNCHANGED <<acct, subs, clock, event, ops, faults, history>>

SwRetarget(p) ==
  /\ pc[p] = "sw_retarget"
  /\ acct' = [acct EXCEPT !.pending_effective_at = loc[p].sub.end]
  /\ Finish(p) /\ Disturb
  /\ UNCHANGED <<subs, clock, event, ops, faults, promise>>

SwUpdate(p) ==
  /\ pc[p] = "sw_update"
  /\ PaddleUpdate(loc[p].acct.paddle_subscription_id, loc[p].target)
  /\ Goto(p, "rc_read", NoLocal)
  /\ UNCHANGED <<acct, clock, ops, faults, promise>>

-----------------------------------------------------------------------------
(* What fails.                                                              *)

\* An awaited call throws (network, deadlock, worker killed): the handler is over
\* and nothing it did is undone.  The cl_cancel call is the one that is caught.
Fail(p) ==
  /\ pc[p] \notin {"idle", "cl_cancel"} /\ faults < MaxFaults
  /\ faults' = faults + 1
  /\ Finish(p)
  /\ fresh' = fresh \ {p}
  /\ UNCHANGED <<acct, subs, clock, event, ops, owed, promise>>

\* Paddle refuses to update or re-schedule a subscription that has ended, and
\* there may be no transaction slot left (a bound of the model).
Refused(p) ==
  /\ \/ /\ pc[p] \in {"up_update", "dn_update", "cs_update", "cancel", "resume", "sw_update"}
        /\ LET s == loc[p].acct.paddle_subscription_id IN
             s \in SubIds => subs[s].status \notin Live
     \/ pc[p] = "ck_txn" /\ \A s \in SubIds : subs[s] # Unborn
  /\ Finish(p)
  /\ UNCHANGED <<acct, subs, clock, event, ops, faults, history>>

-----------------------------------------------------------------------------
(* Paddle (external).                                                       *)

\* The customer pays a checkout transaction: a subscription starts.
Pay(s) ==
  /\ subs[s].status = "draft"
  /\ PaddleWrites([subs EXCEPT ![s] =
       Subscribed("active", @.price, clock + Length[@.price.interval], FALSE)])
  /\ UNCHANGED <<acct, clock, pc, loc, lock, ops, faults, promise>>

\* The period is over: the subscription ends if it was to, else it renews, paid
\* or not; a past_due one is paid or ends in its next period.
Renew(s) ==
  /\ subs[s].status \in Live /\ subs[s].end <= clock
  /\ \E status \in {"active", "past_due", "canceled"} :
       /\ subs[s].cancelAtPeriodEnd => status = "canceled"
       /\ status = "canceled" => subs[s].cancelAtPeriodEnd \/ subs[s].status = "past_due"
       /\ subs[s].status = "past_due" => status # "past_due"
       /\ PaddleWrites([subs EXCEPT ![s] =
            Subscribed(status, @.price,
                       IF status = "canceled" THEN @.end
                       ELSE clock + Length[@.price.interval],
                       @.cancelAtPeriodEnd)])
  /\ UNCHANGED <<acct, clock, pc, loc, lock, ops, faults, promise>>

\* Paddle renews on time, so time passes only when nothing is due there.
Tick ==
  /\ clock < MaxClock
  /\ \A s \in SubIds : subs[s].status \in Live => subs[s].end > clock
  /\ clock' = clock + 1
  /\ Disturb
  /\ UNCHANGED <<acct, subs, pc, loc, lock, event, ops, faults, promise>>

-----------------------------------------------------------------------------
Step(p) ==
  \/ Reconcile(p) \/ CkTransaction(p) \/ UpUpdate(p) \/ DnUpdate(p) \/ DnMark(p)
  \/ CsRead(p) \/ CsGet(p) \/ CsUpdate(p) \/ CsClear(p) \/ ScheduleCancel(p)
  \/ ClCancel(p) \/ ClCancelSwallowed(p) \/ GrantWrite(p)
  \/ SwGet(p) \/ SwRetarget(p) \/ SwUpdate(p) \/ Refused(p)

Request(p) ==
  \/ BillingStatus(p) \/ CreateCheckout(p) \/ ApplyChange(p)
  \/ CancelScheduledChange(p) \/ CancelOrResume(p) \/ Grant(p)

Paddle == \E s \in SubIds : Pay(s) \/ Renew(s)

Next ==
  \/ \E p \in Procs : Webhook(p) \/ Request(p) \/ Sweep(p) \/ Step(p) \/ Fail(p)
  \/ Paddle
  \/ Tick

Spec == Init /\ [][Next]_vars

-----------------------------------------------------------------------------
(* Properties.                                                              *)

Idle == \A p \in Procs : pc[p] = "idle"

\* The row says what Paddle says of the subscription it tracks, unless a comp or
\* a scheduled downgrade stands between the two.
Agrees ==
  LET s == acct.paddle_subscription_id IN
    \/ acct.subscription_status = "comped" /\ ~CompExpired(acct, clock)
    \/ /\ s = NoSub \/ subs[s].status \notin Live
       /\ acct.plan_name = "free"
    \/ /\ s # NoSub /\ subs[s].status \in Live
       /\ \/ PendingActive(acct, clock)
          \/ /\ acct.plan_name = subs[s].price.plan
             /\ acct.billing_interval = subs[s].price.interval
             /\ acct.subscription_status = subs[s].status
             /\ acct.current_period_end = subs[s].end
             /\ acct.pending_plan = "none"

\* Once a reconcile has run from its read to its write with nothing changing under
\* it, the account agrees with Paddle until the next change, whatever stale
\* handlers wrote before: what reconcile and the webhook handler are for
\* (paddleBilling.js, reconcile, handleWebhook).
SyncedAgrees == ~owed => Agrees

\* A customer whose downgrade was scheduled keeps at least the current plan until
\* the effective date the response named (applyChange, reconcile's pendingActive).
ScheduledDowngradeHeld ==
  clock < promise.until => Rank(acct.plan_name) >= Rank(promise.plan)

\* A comp before its end.
CompInForce(a) == a.subscription_status = "comped" /\ ~CompExpired(a, clock)

\* reconcile preserves comped accounts: a comp in force is replaced by another grant,
\* or by a reconcile that read the row when it held none.  The code has the second: a
\* comp granted between the read and the write of a reconcile is lost, and nothing
\* else may lose one (reconcile's early return, setAccountPlanAdmin).
CompPreserved ==
  [][ CompInForce(acct) /\ acct'.subscription_status # "comped" =>
        \E p \in Procs : /\ pc[p] \in {"grant", "rc_expire", "rc_write"} /\ pc'[p] # pc[p]
                         /\ pc[p] = "grant" \/ ~CompInForce(loc[p].acct) ]_vars

\* A pending plan always comes with its date, whatever interleaves: without one
\* reconcile would not hold the plan and the sweep would never select the row.
PendingHasDate == acct.pending_plan # "none" => acct.pending_effective_at # NoTime

\* A plan that was paid for, not granted, has a status and a period end: the
\* checkout guard reads the one, a scheduled downgrade is dated by the other.
PaidPlanHasEnd ==
  (acct.plan_name # "free" /\ acct.subscription_status # "comped")
    => acct.subscription_status \in Live /\ acct.current_period_end # NoTime

\* At most one worker walks the due changes, and it holds the advisory lock until it
\* leaves (withLock).
Sweeping(p) == pc[p] \in {"sw_get", "sw_retarget", "sw_update"}
SweepExclusive == \A p \in Procs : Sweeping(p) => lock = p

\* A live subscription is honoured: once synced, an account that is being billed
\* by Paddle is not on the free plan (fetchSubscription: "Find the account's live
\* Paddle subscription (by stored id, else by customer)").
LiveSubscriptionHonoured ==
  (Idle /\ ~owed /\ acct.subscription_status # "comped")
    => ((\E s \in SubIds : subs[s].status \in Live) => acct.plan_name # "free")

\* A scheduled change whose date has come is eventually applied, re-targeted or
\* withdrawn, as long as no call fails: through the renewal's notification if the
\* item was swapped already, else through the sweep (applyDuePendingChanges).
Due == acct.pending_plan # "none" /\ acct.pending_effective_at <= clock
DueAtPaddle ==
  LET s == acct.paddle_subscription_id IN
    s # NoSub => \/ subs[s].end <= clock
                 \/ subs[s].price # [plan |-> acct.pending_plan, interval |-> acct.pending_interval]
DueChangeApplied == (Due /\ DueAtPaddle) ~> (~Due \/ faults > 0)

\* Awaited calls return or throw, Paddle delivers its notifications and renews,
\* and the scheduler keeps ticking.
Fairness ==
  /\ \A p \in Procs : WF_vars(Step(p)) /\ SF_vars(Webhook(p)) /\ SF_vars(Sweep(p))
  /\ \A s \in SubIds : WF_vars(Renew(s))

FairSpec == Spec /\ Fairness
=============================================================================
