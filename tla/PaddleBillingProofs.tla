------------------------ MODULE PaddleBillingProofs ------------------------
(***************************************************************************)
(* What PaddleBilling guarantees for any number of processes, requests,    *)
(* failures and instants.  First what no interleaving breaks: its types,   *)
(* that a pending plan always has its date, that a paid plan always has a  *)
(* period end, that sweeps exclude one another, and that the account       *)
(* agrees with Paddle once a reconcile ran undisturbed.  Then that a comp  *)
(* in force is lost to nothing but a reconcile that read the row earlier.  *)
(***************************************************************************)
EXTENDS PaddleBilling, TLAPS

-----------------------------------------------------------------------------
(* The inductive invariant, one part per group of variables.  Ready says    *)
(* what a handler relies on when it writes, long after it read.             *)

RowOK(a) ==
  /\ a \in Account
  /\ a.pending_plan = "none" <=> a.pending_interval = "none"
  /\ a.pending_plan # "none" => a.pending_effective_at # NoTime
  /\ (a.plan_name # "free" /\ a.subscription_status # "comped")
       => a.subscription_status \in Live /\ a.current_period_end # NoTime

SubOK(x) ==
  /\ x \in Subscription
  /\ x.status \in Live \cup {"draft"} => x.price \in Price
  /\ x.status \in Live => x.end \in Nat

Targeted == {"ck_txn", "up_update", "dn_update", "dn_mark", "cs_update", "sw_get",
             "sw_retarget", "sw_update"}

Ready(step, l) ==
  /\ step \in Targeted => l.target \in Price
  /\ (step \in {"rc_persist", "rc_write"} /\ l.sub.status \in Live)
       => l.sub.price \in Price /\ l.sub.end # NoTime
  /\ step = "rc_persist" => l.sub.id \in SubIds
  /\ step = "sw_retarget" => l.sub.end # NoTime
  /\ step \in {"dn_update", "dn_mark"} => l.acct.current_period_end # NoTime

InvRow   == RowOK(acct)
InvSubs  == /\ subs \in [SubIds -> Subscription]
            /\ \A s \in SubIds : SubOK(subs[s])
InvProcs == /\ pc \in [Procs -> Steps] /\ loc \in [Procs -> Local]
            /\ \A p \in Procs : Ready(pc[p], loc[p])
InvLock  == lock \in Procs \cup {NoProc} /\ SweepExclusive
InvRest  == /\ clock \in Nat /\ event \in BOOLEAN /\ ops \in Nat /\ faults \in Nat
            /\ owed \in BOOLEAN /\ fresh \subseteq Procs
            /\ promise \in [plan : Plans, until : Int]

IInv == InvRow /\ InvSubs /\ InvProcs /\ InvLock /\ InvRest

\* What the runs check follows from it.
LEMMA IInvImplies == IInv => TypeOK /\ PendingHasDate /\ PaidPlanHasEnd /\ SweepExclusive
  BY DEF IInv, InvRow, RowOK, InvSubs, InvProcs, InvLock, InvRest, TypeOK,
         PendingHasDate, PaidPlanHasEnd

-----------------------------------------------------------------------------
(* Rows of billing_accounts the handlers write.                             *)

LEMMA UnbilledOK ==
  ASSUME NEW plan \in Plans, NEW status \in AcctStatuses, NEW end \in Int,
         NEW sub \in SubIds \cup {NoSub}, plan = "free" \/ status = "comped"
  PROVE  RowOK(Unbilled(plan, status, end, sub))
  <1>1. Unbilled(plan, status, end, sub) \in Account
    BY DEF Unbilled, Account, Intervals, NoTime
  <1> QED
    BY <1>1 DEF RowOK, Unbilled

LEMMA ResetToFreeOK ==
  ASSUME NEW a \in Account, NEW status \in {"none", "canceled"}
  PROVE  RowOK(ResetToFree(a, status))
  <1>1. a.paddle_subscription_id \in SubIds \cup {NoSub}
    BY DEF Account
  <1> QED
    BY <1>1, UnbilledOK DEF ResetToFree, Plans, AcctStatuses, NoTime

LEMMA CompedOK ==
  ASSUME NEW plan \in PaidPlans, NEW end \in Int
  PROVE  RowOK(Comped(plan, end))
  BY UnbilledOK DEF Comped, Plans, AcctStatuses

LEMMA NewAccountOK == RowOK(NewAccount)
  BY UnbilledOK DEF NewAccount, Plans, AcctStatuses, NoTime

LEMMA NoLocalOK ==
  /\ NoLocal \in Local
  /\ \A step \in Steps \ (Targeted \cup {"rc_persist"}) : Ready(step, NoLocal)
  <1>1. NewAccount \in Account
    BY NewAccountOK DEF RowOK
  <1>2. NoLocal \in Local
    BY <1>1 DEF NoLocal, Holding, Local, NothingFound, NoPrice, PriceOrNone, Normalized,
                SubStatuses, NoTime
  <1>3. ASSUME NEW step \in Steps \ (Targeted \cup {"rc_persist"})
        PROVE  Ready(step, NoLocal)
    BY DEF Ready, NoLocal, Holding, NothingFound, Live, Targeted
  <1> QED
    BY <1>2, <1>3

-----------------------------------------------------------------------------
(* Moving from step to step.                                                *)

LEMMA GotoOK ==
  ASSUME IInv, NEW p \in Procs, NEW step \in Steps, NEW l \in Local, Ready(step, l),
         step \in {"sw_get", "sw_retarget", "sw_update"} => lock = p,
         Goto(p, step, l)
  PROVE  InvProcs' /\ InvLock'
  <1>1. InvProcs'
    BY DEF IInv, InvProcs, Goto
  <1>2. InvLock'
    BY DEF IInv, InvProcs, InvLock, Goto, SweepExclusive, Sweeping
  <1> QED
    BY <1>1, <1>2

LEMMA FinishOK ==
  ASSUME IInv, NEW p \in Procs, Finish(p)
  PROVE  InvProcs' /\ InvLock'
  <1>0. "idle" \in Steps \ (Targeted \cup {"rc_persist"})
    BY DEF Steps, Targeted
  <1>1. InvProcs'
    BY <1>0, NoLocalOK DEF IInv, InvProcs, Finish
  <1>2. InvLock'
    BY DEF IInv, InvProcs, InvLock, Finish, SweepExclusive, Sweeping
  <1> QED
    BY <1>1, <1>2

-----------------------------------------------------------------------------
(* Paddle's side.                                                           *)

LEMMA LengthNat == \A i \in Intervals : Length[i] \in Nat
  BY ConstantsOK

LEMMA SubscribedOK ==
  ASSUME NEW status \in SubStatuses, NEW price \in PriceOrNone, NEW end \in Int,
         NEW cancelling \in BOOLEAN,
         status \in Live \cup {"draft"} => price \in Price,
         status \in Live => end \in Nat
  PROVE  SubOK(Subscribed(status, price, end, cancelling))
  BY DEF SubOK, Subscription, Subscribed

LEMMA SubReplaced ==
  ASSUME IInv, NEW s \in SubIds, NEW x, SubOK(x), subs' = [subs EXCEPT ![s] = x]
  PROVE  InvSubs'
  BY DEF IInv, InvSubs, SubOK

LEMMA PaddleUpdateOK ==
  ASSUME IInv, NEW s, NEW price \in Price, PaddleUpdate(s, price)
  PROVE  InvSubs' /\ event' \in BOOLEAN /\ owed' \in BOOLEAN /\ fresh' \subseteq Procs
  <1>1. s \in SubIds /\ subs[s].status \in Live /\ event' = TRUE /\ owed' = TRUE /\ fresh' = {}
    BY DEF PaddleUpdate, PaddleWrites, Disturb
  <1> DEFINE e == IF price.interval = subs[s].price.interval THEN subs[s].end
                  ELSE clock + Length[price.interval]
             x == Subscribed(subs[s].status, price, e, subs[s].cancelAtPeriodEnd)
  <1>2. subs' = [subs EXCEPT ![s] = x]
    BY <1>1 DEF PaddleUpdate, PaddleWrites, IInv, InvSubs
  <1>3. SubOK(subs[s]) /\ clock \in Nat
    BY <1>1 DEF IInv, InvSubs, InvRest
  <1>4. clock + Length[price.interval] \in Nat
    BY <1>3, LengthNat DEF Price
  <1>5. e \in Nat
    BY <1>1, <1>3, <1>4 DEF SubOK
  <1>6. SubOK(x)
    BY <1>3, <1>5 DEF SubOK, Subscription, Subscribed, PriceOrNone
  <1> HIDE DEF x
  <1> QED
    BY <1>1, <1>2, <1>6, SubReplaced

-----------------------------------------------------------------------------
(* reconcile.                                                               *)

LEMMA RcReadOK == ASSUME IInv, NEW p \in Procs, RcRead(p) PROVE IInv'
  <1> DEFINE step == IF acct.subscription_status = "comped" THEN "rc_expire" ELSE "rc_stored"
             l == [loc[p] EXCEPT !.acct = acct]
  <1>1. loc[p] \in Local /\ acct \in Account
    BY DEF IInv, InvProcs, InvRow, RowOK
  <1>2. l \in Local
    BY <1>1 DEF Local
  <1>3. step \in Steps /\ Ready(step, l) /\ step \notin {"sw_get", "sw_retarget", "sw_update"}
    BY DEF Steps, Ready, Targeted
  <1>4. Goto(p, step, l)
    BY DEF RcRead
  <1> HIDE DEF step, l
  <1>5. InvProcs' /\ InvLock'
    BY <1>2, <1>3, <1>4, GotoOK
  <1> QED
    BY <1>5 DEF RcRead, IInv, InvRow, InvSubs, InvRest

LEMMA RcSkipCompedOK == ASSUME IInv, NEW p \in Procs, RcSkipComped(p) PROVE IInv'
  <1>1. InvProcs' /\ InvLock'
    BY FinishOK DEF RcSkipComped
  <1> QED
    BY <1>1 DEF RcSkipComped, IInv, InvRow, InvSubs, InvRest

LEMMA RcExpireOK == ASSUME IInv, NEW p \in Procs, RcExpire(p) PROVE IInv'
  <1>1. InvProcs' /\ InvLock'
    BY FinishOK DEF RcExpire
  <1>2. InvRow'
    BY ResetToFreeOK DEF RcExpire, IInv, InvRow, RowOK
  <1> QED
    BY <1>1, <1>2 DEF RcExpire, Disturb, IInv, InvSubs, InvRest

LEMMA RcStoredOK == ASSUME IInv, NEW p \in Procs, RcStored(p) PROVE IInv'
  <1> DEFINE s == acct.paddle_subscription_id
             step == IF s = NoSub THEN "rc_list" ELSE "rc_get"
             l == [loc[p] EXCEPT !.sub.id = s]
  <1>1. loc[p] \in Local /\ s \in SubIds \cup {NoSub}
    BY DEF IInv, InvProcs, InvRow, RowOK, Account
  <1>2. l \in Local
    BY <1>1 DEF Local, Normalized
  <1>3. step \in Steps /\ Ready(step, l) /\ step \notin {"sw_get", "sw_retarget", "sw_update"}
    BY DEF Steps, Ready, Targeted
  <1>4. Goto(p, step, l)
    BY DEF RcStored
  <1> HIDE DEF step, l
  <1>5. InvProcs' /\ InvLock'
    BY <1>2, <1>3, <1>4, GotoOK
  <1> QED
    BY <1>5 DEF RcStored, history, IInv, InvRow, InvSubs, InvRest

\* A subscription a handler fetched: dated and priced if it was live.
LEMMA FetchedOK ==
  ASSUME IInv, NEW p \in Procs, NEW s \in SubIds
  PROVE  /\ [loc[p] EXCEPT !.sub = NormalizeSub(s)] \in Local
         /\ [loc[p] EXCEPT !.sub = NormalizeSub(s)].sub = NormalizeSub(s)
         /\ NormalizeSub(s).id = s
         /\ NormalizeSub(s).end = subs[s].end
         /\ NormalizeSub(s).status \in Live =>
              NormalizeSub(s).price \in Price /\ NormalizeSub(s).end # NoTime
  <1>1. loc[p] \in Local /\ SubOK(subs[s])
    BY DEF IInv, InvProcs, InvSubs
  <1>2. NormalizeSub(s) \in Normalized
    BY <1>1 DEF NormalizeSub, Normalized, SubOK, Subscription
  <1>3. NormalizeSub(s).status \in Live =>
          NormalizeSub(s).price \in Price /\ NormalizeSub(s).end # NoTime
    BY <1>1 DEF NormalizeSub, SubOK, NoTime
  <1> QED
    BY <1>1, <1>2, <1>3 DEF Local, NormalizeSub

LEMMA RcGetOK == ASSUME IInv, NEW p \in Procs, RcGet(p) PROVE IInv'
  <1> DEFINE l == [loc[p] EXCEPT !.sub = NormalizeSub(loc[p].sub.id)]
  <1>1. loc[p].sub.id \in SubIds /\ Goto(p, "rc_write", l)
    BY DEF RcGet
  <1>2. l \in Local /\ "rc_write" \in Steps /\ Ready("rc_write", l)
    BY <1>1, FetchedOK DEF Ready, Targeted, Steps
  <1> HIDE DEF l
  <1>3. InvProcs' /\ InvLock'
    BY <1>1, <1>2, GotoOK
  <1> QED
    BY <1>3 DEF RcGet, history, IInv, InvRow, InvSubs, InvRest

LEMMA RcListOK == ASSUME IInv, NEW p \in Procs, RcList(p) PROVE IInv'
  <1> DEFINE none == [loc[p] EXCEPT !.sub = NothingFound]
             found(s) == [loc[p] EXCEPT !.sub = NormalizeSub(s)]
  <1>1. none \in Local /\ Ready("rc_write", none) /\ "rc_write" \in Steps
    <2>1. loc[p] \in Local /\ NothingFound \in Normalized
      BY DEF IInv, InvProcs, NothingFound, Normalized, NoPrice, PriceOrNone, SubStatuses, NoTime
    <2>2. none \in Local /\ none.sub.status = "none"
      BY <2>1 DEF Local, NothingFound
    <2> QED
      BY <2>2 DEF Ready, Targeted, Live, Steps
  <1>2. ASSUME NEW s \in SubIds
        PROVE  found(s) \in Local /\ Ready("rc_persist", found(s)) /\ "rc_persist" \in Steps
    BY FetchedOK DEF Ready, Targeted, Steps
  <1>3. Goto(p, "rc_write", none) \/ \E s \in SubIds : Goto(p, "rc_persist", found(s))
    BY DEF RcList
  <1> HIDE DEF none, found
  <1>4. InvProcs' /\ InvLock'
    BY <1>1, <1>2, <1>3, GotoOK
  <1>5. UNCHANGED <<acct, subs, clock, event, ops, faults, history>>
    BY DEF RcList
  <1> QED
    BY <1>4, <1>5 DEF history, IInv, InvRow, InvSubs, InvRest

LEMMA RcPersistOK == ASSUME IInv, NEW p \in Procs, RcPersist(p) PROVE IInv'
  <1>1. pc[p] = "rc_persist" /\ Ready(pc[p], loc[p]) /\ loc[p] \in Local
    BY DEF RcPersist, IInv, InvProcs
  <1>2. Ready("rc_write", loc[p]) /\ loc[p].sub.id \in SubIds /\ "rc_write" \in Steps
    BY <1>1 DEF Ready, Targeted, Steps
  <1>3. InvProcs' /\ InvLock'
    BY <1>1, <1>2, GotoOK DEF RcPersist
  <1>4. InvRow'
    BY <1>2 DEF RcPersist, IInv, InvRow, RowOK, Account
  <1> QED
    BY <1>3, <1>4 DEF RcPersist, history, IInv, InvSubs, InvRest

LEMMA RcRevertOK == ASSUME IInv, NEW p \in Procs, RcRevert(p) PROVE IInv'
  <1>1. InvProcs' /\ InvLock'
    BY FinishOK DEF RcRevert
  <1>2. InvRow'
    BY ResetToFreeOK DEF RcRevert, IInv, InvRow, RowOK
  <1> QED
    BY <1>1, <1>2 DEF RcRevert, Settle, IInv, InvSubs, InvRest

\* What a reconcile that found a live subscription holds when it writes.
LEMMA WriteReady ==
  ASSUME IInv, NEW p \in Procs, pc[p] = "rc_write", loc[p].sub.status \in Live
  PROVE  /\ loc[p].sub.price \in Price /\ loc[p].sub.end # NoTime
         /\ loc[p].sub.end \in Int /\ loc[p].sub.id \in SubIds \cup {NoSub}
         /\ loc[p].acct \in Account
  BY DEF IInv, InvProcs, Ready, Local, Normalized

LEMMA RcHoldOK == ASSUME IInv, NEW p \in Procs, RcHold(p) PROVE IInv'
  <1>1. InvProcs' /\ InvLock'
    BY FinishOK DEF RcHold
  <1> DEFINE end == IF loc[p].acct.current_period_end # NoTime
                    THEN loc[p].acct.current_period_end ELSE loc[p].sub.end
  <1>2. end \in Int /\ end # NoTime
    BY WriteReady DEF RcHold, Account
  <1>3. acct' = [acct EXCEPT !.subscription_status = loc[p].sub.status,
                             !.current_period_end = end,
                             !.paddle_subscription_id = loc[p].sub.id]
    BY DEF RcHold
  <1> HIDE DEF end
  <1>4. RowOK(acct) /\ loc[p].sub.status \in Live /\ loc[p].sub.id \in SubIds \cup {NoSub}
    BY WriteReady DEF RcHold, IInv, InvRow
  <1>5. acct' \in Account
    BY <1>2, <1>3, <1>4 DEF RowOK, Account, AcctStatuses
  <1>6. InvRow'
    BY <1>2, <1>3, <1>4, <1>5 DEF InvRow, RowOK, Account
  <1> QED
    BY <1>1, <1>6 DEF RcHold, Settle, IInv, InvSubs, InvRest

LEMMA RcApplyOK == ASSUME IInv, NEW p \in Procs, RcApply(p) PROVE IInv'
  <1>1. InvProcs' /\ InvLock'
    BY FinishOK DEF RcApply
  <1>2. loc[p].sub.price \in Price /\ loc[p].sub.end # NoTime /\ loc[p].sub.end \in Int
        /\ loc[p].sub.id \in SubIds \cup {NoSub} /\ loc[p].sub.status \in Live
    BY WriteReady DEF RcApply
  <1>3. acct' \in Account
    BY <1>2 DEF RcApply, Account, Price, Plans, AcctStatuses, NoTime
  <1>4. InvRow'
    BY <1>2, <1>3 DEF RcApply, InvRow, RowOK
  <1> QED
    BY <1>1, <1>4 DEF RcApply, Settle, IInv, InvSubs, InvRest

LEMMA ReconcileOK == ASSUME IInv, NEW p \in Procs, Reconcile(p) PROVE IInv'
  BY RcReadOK, RcSkipCompedOK, RcExpireOK, RcStoredOK, RcGetOK, RcListOK, RcPersistOK,
     RcRevertOK, RcHoldOK, RcApplyOK DEF Reconcile

-----------------------------------------------------------------------------
(* The customer's requests.                                                 *)

LEMMA HoldingOK ==
  ASSUME NEW a \in Account, NEW target \in PriceOrNone, NEW end \in Int
  PROVE  /\ Holding(a, target, end) \in Local
         /\ Holding(a, target, end).acct = a
         /\ Holding(a, target, end).target = target
         /\ Holding(a, target, end).sub.status = "none"
  BY DEF Holding, Local, NothingFound, NoPrice, PriceOrNone, Normalized, SubStatuses, NoTime

\* A request begins at a step for which what it holds is enough.
LEMMA BeginOK ==
  ASSUME IInv, NEW p \in Procs, NEW step \in Steps, NEW l \in Local, Ready(step, l),
         step \notin {"sw_get", "sw_retarget", "sw_update"},
         Begin(p, step, l),
         UNCHANGED <<acct, subs, clock, event, faults, history>>
  PROVE  IInv'
  <1>1. InvProcs' /\ InvLock'
    BY GotoOK DEF Begin
  <1> QED
    BY <1>1 DEF Begin, history, IInv, InvRow, InvSubs, InvRest

LEMMA CreateCheckoutOK == ASSUME IInv, NEW p \in Procs, CreateCheckout(p) PROVE IInv'
  <1>1. PICK price \in Prices : Begin(p, "ck_txn", Holding(NewAccount, price, NoTime))
    BY DEF CreateCheckout
  <1>2. price \in Price /\ price \in PriceOrNone /\ NewAccount \in Account /\ NoTime \in Int
    BY ConstantsOK, NewAccountOK DEF Price, PriceOrNone, RowOK, NoTime
  <1> DEFINE l == Holding(NewAccount, price, NoTime)
  <1>3. l \in Local /\ Ready("ck_txn", l) /\ "ck_txn" \in Steps
    BY <1>2, HoldingOK DEF Ready, Steps
  <1> HIDE DEF l
  <1> QED
    BY <1>1, <1>3, BeginOK DEF CreateCheckout, l

LEMMA CkTransactionOK == ASSUME IInv, NEW p \in Procs, CkTransaction(p) PROVE IInv'
  <1>1. InvProcs' /\ InvLock'
    BY FinishOK DEF CkTransaction
  <1>2. PICK s \in SubIds :
          subs' = [subs EXCEPT ![s] = Subscribed("draft", loc[p].target, NoTime, FALSE)]
    BY DEF CkTransaction
  <1>3. loc[p].target \in Price
    BY DEF CkTransaction, IInv, InvProcs, Ready, Targeted
  <1>4. SubOK(Subscribed("draft", loc[p].target, NoTime, FALSE))
    <2>1. loc[p].target \in PriceOrNone /\ NoTime \in Int /\ FALSE \in BOOLEAN
      BY <1>3 DEF PriceOrNone, NoTime
    <2>2. "draft" \in SubStatuses /\ "draft" \notin Live
      BY DEF SubStatuses, Live
    <2> QED
      BY <1>3, <2>1, <2>2, SubscribedOK
  <1>5. InvSubs'
    BY <1>2, <1>4, SubReplaced
  <1> QED
    BY <1>1, <1>5 DEF CkTransaction, history, IInv, InvRow, InvRest

\* A downgrade is only ever accepted on a plan that was paid for, hence dated.
LEMMA DowngradeFromPaid ==
  ASSUME NEW a \in Account, NEW price \in Price,
         DirectionOf(a.plan_name, CurInterval(a), price) \notin {"same", "upgrade"},
         price.interval = CurInterval(a)
  PROVE  a.plan_name # "free"
  BY DEF DirectionOf, Rank, Account, Plans, PaidPlans, Price

LEMMA ApplyChangeOK == ASSUME IInv, NEW p \in Procs, ApplyChange(p) PROVE IInv'
  <1> DEFINE dir(price) == DirectionOf(acct.plan_name, CurInterval(acct), price)
  <1>1. PICK price \in Prices :
          /\ dir(price) # "same"
          /\ price.interval # CurInterval(acct) => dir(price) = "upgrade"
          /\ Begin(p, IF dir(price) = "upgrade" THEN "up_update" ELSE "dn_update",
                   Holding(acct, price, NoTime))
    BY DEF ApplyChange
  <1>2. price \in Price /\ price \in PriceOrNone /\ acct \in Account /\ NoTime \in Int
    BY ConstantsOK DEF Price, PriceOrNone, IInv, InvRow, RowOK, NoTime
  <1> DEFINE l == Holding(acct, price, NoTime)
             step == IF dir(price) = "upgrade" THEN "up_update" ELSE "dn_update"
  <1>3. l \in Local /\ l.acct = acct /\ l.target = price
    BY <1>2, HoldingOK
  <1>4. dir(price) # "upgrade" => acct.current_period_end # NoTime
    <2> SUFFICES ASSUME dir(price) # "upgrade" PROVE acct.current_period_end # NoTime
      OBVIOUS
    <2>1. acct.plan_name # "free"
      BY <1>1, <1>2, DowngradeFromPaid
    <2> QED
      BY <2>1 DEF ApplyChange, LoadForChange, IInv, InvRow, RowOK
  <1>5. step \in Steps /\ Ready(step, l) /\ step \notin {"sw_get", "sw_retarget", "sw_update"}
    BY <1>2, <1>3, <1>4 DEF Ready, Steps
  <1> HIDE DEF l, step
  <1> QED
    BY <1>1, <1>3, <1>5, BeginOK DEF ApplyChange, l, step

LEMMA UpUpdateOK == ASSUME IInv, NEW p \in Procs, UpUpdate(p) PROVE IInv'
  <1>1. loc[p].target \in Price
    BY DEF UpUpdate, IInv, InvProcs, Ready, Targeted
  <1>2. InvSubs' /\ event' \in BOOLEAN /\ owed' \in BOOLEAN /\ fresh' \subseteq Procs
    BY <1>1, PaddleUpdateOK DEF UpUpdate
  <1> DEFINE l == Holding(NewAccount, loc[p].target, NoTime)
  <1>3. l \in Local /\ Ready("rc_read", l) /\ "rc_read" \in Steps
    <2>1. NewAccount \in Account /\ loc[p].target \in PriceOrNone /\ NoTime \in Int
      BY <1>1, NewAccountOK DEF RowOK, PriceOrNone, NoTime
    <2>2. l \in Local /\ l.sub.status = "none"
      BY <2>1, HoldingOK
    <2> QED
      BY <2>2 DEF Ready, Targeted, Steps
  <1>4. Goto(p, "rc_read", l)
    BY DEF UpUpdate
  <1> HIDE DEF l
  <1>5. InvProcs' /\ InvLock'
    BY <1>3, <1>4, GotoOK
  <1> QED
    BY <1>2, <1>5 DEF UpUpdate, IInv, InvRow, InvRest

LEMMA DnUpdateOK == ASSUME IInv, NEW p \in Procs, DnUpdate(p) PROVE IInv'
  <1>1. Ready(pc[p], loc[p]) /\ pc[p] = "dn_update" /\ loc[p] \in Local
    BY DEF DnUpdate, IInv, InvProcs
  <1>2. loc[p].target \in Price /\ Ready("dn_mark", loc[p]) /\ "dn_mark" \in Steps
    BY <1>1 DEF Ready, Targeted, Steps
  <1>3. InvSubs' /\ event' \in BOOLEAN /\ owed' \in BOOLEAN /\ fresh' \subseteq Procs
    BY <1>2, PaddleUpdateOK DEF DnUpdate
  <1>4. InvProcs' /\ InvLock'
    BY <1>1, <1>2, GotoOK DEF DnUpdate
  <1> QED
    BY <1>3, <1>4 DEF DnUpdate, IInv, InvRow, InvRest

LEMMA DnMarkOK == ASSUME IInv, NEW p \in Procs, DnMark(p) PROVE IInv'
  <1>1. loc[p].target \in Price /\ loc[p].acct \in Account
        /\ loc[p].acct.current_period_end # NoTime
    BY DEF DnMark, IInv, InvProcs, Ready, Targeted, Local
  <1>2. InvProcs' /\ InvLock'
    BY FinishOK DEF DnMark
  <1>3. acct' \in Account
    BY <1>1 DEF DnMark, IInv, InvRow, RowOK, Account, Price
  <1>4. InvRow'
    BY <1>1, <1>3 DEF DnMark, IInv, InvRow, RowOK, Account, Price, PaidPlans, Intervals
  <1>5. promise' \in [plan : Plans, until : Int]
    BY <1>1 DEF DnMark, Account
  <1> QED
    BY <1>2, <1>4, <1>5 DEF DnMark, Disturb, IInv, InvSubs, InvRest

LEMMA CurIntervalOK == \A a \in Account : CurInterval(a) \in Intervals
  BY DEF CurInterval, Account, Intervals

LEMMA PriceForOK == \A a \in Account : PriceFor(a) \in PriceOrNone
  <1> TAKE a \in Account
  <1>1. a.plan_name \in Plans /\ CurInterval(a) \in Intervals
    BY CurIntervalOK DEF Account
  <1>2. CASE a.plan_name = "free"
    BY <1>2 DEF PriceFor, PriceOrNone
  <1>3. CASE a.plan_name # "free"
    BY <1>1, <1>3 DEF PriceFor, PriceOrNone, Price, Plans
  <1> QED
    BY <1>2, <1>3

\* Requests that hold the row and no target.
LEMMA HoldingRowOK ==
  ASSUME IInv, NEW p \in Procs, NEW step \in Steps \ (Targeted \cup {"rc_persist", "rc_write"}),
         Begin(p, step, Holding(acct, NoPrice, NoTime)),
         UNCHANGED <<acct, subs, clock, event, faults, history>>
  PROVE  IInv'
  <1> DEFINE l == Holding(acct, NoPrice, NoTime)
  <1>1. l \in Local
    BY HoldingOK DEF IInv, InvRow, RowOK, PriceOrNone, NoTime
  <1>2. step \in Steps /\ Ready(step, l) /\ step \notin {"sw_get", "sw_retarget", "sw_update"}
    BY DEF Ready, Targeted
  <1> HIDE DEF l
  <1>3. Begin(p, step, l)
    BY DEF l
  <1> QED
    BY <1>1, <1>2, <1>3, BeginOK

LEMMA CancelScheduledChangeOK == ASSUME IInv, NEW p \in Procs, CancelScheduledChange(p) PROVE IInv'
  <1>1. "cs_read" \in Steps \ (Targeted \cup {"rc_persist", "rc_write"})
    BY DEF Steps, Targeted
  <1> QED
    BY <1>1, HoldingRowOK DEF CancelScheduledChange

LEMMA CancelOrResumeOK == ASSUME IInv, NEW p \in Procs, CancelOrResume(p) PROVE IInv'
  <1>1. {"cancel", "resume"} \subseteq Steps \ (Targeted \cup {"rc_persist", "rc_write"})
    BY DEF Steps, Targeted
  <1> QED
    BY <1>1, HoldingRowOK DEF CancelOrResume

LEMMA CsReadOK == ASSUME IInv, NEW p \in Procs, CsRead(p) PROVE IInv'
  <1>1. loc[p] \in Local /\ Ready("cs_get", loc[p]) /\ "cs_get" \in Steps
    BY DEF IInv, InvProcs, Ready, Targeted, Steps
  <1>2. InvProcs' /\ InvLock'
    BY <1>1, GotoOK, FinishOK DEF CsRead
  <1> QED
    BY <1>2 DEF CsRead, history, IInv, InvRow, InvSubs, InvRest

LEMMA CsGetOK == ASSUME IInv, NEW p \in Procs, CsGet(p) PROVE IInv'
  <1> DEFINE s == loc[p].acct.paddle_subscription_id
             price == PriceFor(loc[p].acct)
             l == [loc[p] EXCEPT !.target = price]
             step == IF price \notin {NoPrice, subs[s].price} THEN "cs_update" ELSE "cs_clear"
  <1>1. Goto(p, step, l)
    BY DEF CsGet
  <1>2. loc[p] \in Local /\ price \in PriceOrNone
    BY PriceForOK DEF IInv, InvProcs, Local
  <1>3. l \in Local /\ l.target = price
    BY <1>2 DEF Local
  <1>4. price # NoPrice => price \in Price
    BY <1>2 DEF PriceOrNone
  <1> HIDE DEF price
  <1>5. step \in Steps /\ step \notin {"sw_get", "sw_retarget", "sw_update"} /\ Ready(step, l)
    <2>1. CASE price \notin {NoPrice, subs[s].price}
      BY <1>3, <1>4, <2>1 DEF Steps, Ready
    <2>2. CASE price \in {NoPrice, subs[s].price}
      <3>1. step = "cs_clear"
        BY <2>2
      <3> QED
        BY <3>1 DEF Steps, Ready, Targeted
    <2> QED
      BY <2>1, <2>2
  <1> HIDE DEF l, step
  <1>6. InvProcs' /\ InvLock'
    BY <1>1, <1>3, <1>5, GotoOK
  <1> QED
    BY <1>6 DEF CsGet, history, IInv, InvRow, InvSubs, InvRest

LEMMA CsUpdateOK == ASSUME IInv, NEW p \in Procs, CsUpdate(p) PROVE IInv'
  <1>1. Ready(pc[p], loc[p]) /\ pc[p] = "cs_update" /\ loc[p] \in Local
    BY DEF CsUpdate, IInv, InvProcs
  <1>2. loc[p].target \in Price /\ Ready("cs_clear", loc[p]) /\ "cs_clear" \in Steps
    BY <1>1 DEF Ready, Targeted, Steps
  <1>3. InvSubs' /\ event' \in BOOLEAN /\ owed' \in BOOLEAN /\ fresh' \subseteq Procs
    BY <1>2, PaddleUpdateOK DEF CsUpdate
  <1>4. InvProcs' /\ InvLock'
    BY <1>1, <1>2, GotoOK DEF CsUpdate
  <1> QED
    BY <1>3, <1>4 DEF CsUpdate, IInv, InvRow, InvRest

LEMMA NoPromiseOK == NoPromise \in [plan : Plans, until : Int]
  BY DEF NoPromise, Plans, NoTime

LEMMA CsClearOK == ASSUME IInv, NEW p \in Procs, CsClear(p) PROVE IInv'
  <1>1. InvProcs' /\ InvLock'
    BY FinishOK DEF CsClear
  <1>2. acct' \in Account
    <2> DEFINE a == [acct EXCEPT !.pending_plan = "none"]
               b == [a EXCEPT !.pending_interval = "none"]
    <2>1. acct \in Account /\ NoTime \in Int
      BY DEF IInv, InvRow, RowOK, NoTime
    <2>2. a \in Account
      BY <2>1 DEF Account
    <2>3. b \in Account
      BY <2>2 DEF Account
    <2>4. acct' = [b EXCEPT !.pending_effective_at = NoTime]
      BY <2>1 DEF CsClear, Account
    <2> HIDE DEF b
    <2> QED
      BY <2>1, <2>3, <2>4 DEF Account
  <1>3. InvRow'
    BY <1>2 DEF CsClear, IInv, InvRow, RowOK, Account
  <1> QED
    BY <1>1, <1>3, NoPromiseOK DEF CsClear, Disturb, IInv, InvSubs, InvRest

LEMMA ScheduleCancelOK == ASSUME IInv, NEW p \in Procs, ScheduleCancel(p) PROVE IInv'
  <1> DEFINE s == loc[p].acct.paddle_subscription_id
             x == [subs[s] EXCEPT !.cancelAtPeriodEnd = (pc[p] = "cancel")]
  <1>1. InvProcs' /\ InvLock'
    BY FinishOK DEF ScheduleCancel
  <1>2. s \in SubIds /\ SubOK(subs[s]) /\ subs[s] \in Subscription
    BY DEF ScheduleCancel, IInv, InvSubs, SubOK
  <1>3. subs' = [subs EXCEPT ![s] = x]
    BY <1>2 DEF ScheduleCancel, PaddleWrites, IInv, InvSubs
  <1>4. SubOK(x)
    BY <1>2 DEF SubOK, Subscription
  <1> HIDE DEF x, s
  <1>5. InvSubs'
    BY <1>2, <1>3, <1>4, SubReplaced
  <1> QED
    BY <1>1, <1>5 DEF ScheduleCancel, PaddleWrites, Disturb, IInv, InvRow, InvRest

-----------------------------------------------------------------------------
(* Grants.                                                                  *)

LEMMA GrantOK == ASSUME IInv, NEW p \in Procs, Grant(p) PROVE IInv'
  <1> DEFINE step == IF acct.paddle_subscription_id = NoSub THEN "grant" ELSE "cl_cancel"
             target(plan) == IF plan = "free" THEN NoPrice
                             ELSE [plan |-> plan, interval |-> "month"]
  <1>1. PICK plan \in Plans, end \in {NoTime, clock + CompLength} :
          Begin(p, step, Holding(acct, target(plan), end))
    BY DEF Grant
  <1>2. target(plan) \in PriceOrNone
    BY DEF PriceOrNone, Price, Plans, Intervals
  <1>3. acct \in Account /\ end \in Int
    BY ConstantsOK DEF IInv, InvRow, RowOK, InvRest, NoTime
  <1> DEFINE l == Holding(acct, target(plan), end)
  <1>4. l \in Local
    BY <1>2, <1>3, HoldingOK
  <1>5. step \in Steps /\ Ready(step, l) /\ step \notin {"sw_get", "sw_retarget", "sw_update"}
    BY DEF Steps, Ready, Targeted
  <1> HIDE DEF l, step
  <1>6. Begin(p, step, l)
    BY <1>1 DEF l
  <1> QED
    BY <1>4, <1>5, <1>6, BeginOK DEF Grant

\* Either outcome of the cancellation leads to the grant.
LEMMA ToGrant ==
  ASSUME IInv, NEW p \in Procs, Goto(p, "grant", loc[p])
  PROVE  InvProcs' /\ InvLock'
  <1>1. loc[p] \in Local /\ "grant" \in Steps /\ Ready("grant", loc[p])
    BY DEF IInv, InvProcs, Ready, Targeted, Steps
  <1> QED
    BY <1>1, GotoOK

LEMMA ClCancelOK == ASSUME IInv, NEW p \in Procs, ClCancel(p) PROVE IInv'
  <1> DEFINE s == loc[p].acct.paddle_subscription_id
             x == [subs[s] EXCEPT !.status = "canceled"]
  <1>1. InvProcs' /\ InvLock'
    BY ToGrant DEF ClCancel
  <1>2. s \in SubIds /\ SubOK(subs[s]) /\ subs[s] \in Subscription
    BY DEF ClCancel, IInv, InvSubs, SubOK
  <1>3. subs' = [subs EXCEPT ![s] = x]
    BY <1>2 DEF ClCancel, PaddleWrites, IInv, InvSubs
  <1>4. SubOK(x)
    BY <1>2 DEF SubOK, Subscription, SubStatuses, Live
  <1> HIDE DEF x, s
  <1>5. InvSubs'
    BY <1>2, <1>3, <1>4, SubReplaced
  <1> QED
    BY <1>1, <1>5, NoPromiseOK DEF ClCancel, PaddleWrites, Disturb, IInv, InvRow, InvRest

LEMMA ClCancelSwallowedOK == ASSUME IInv, NEW p \in Procs, ClCancelSwallowed(p) PROVE IInv'
  <1>1. InvProcs' /\ InvLock'
    BY ToGrant DEF ClCancelSwallowed
  <1>2. faults' \in Nat
    BY DEF ClCancelSwallowed, IInv, InvRest
  <1> QED
    BY <1>1, <1>2 DEF ClCancelSwallowed, history, IInv, InvRow, InvSubs, InvRest

LEMMA GrantWriteOK == ASSUME IInv, NEW p \in Procs, GrantWrite(p) PROVE IInv'
  <1>1. InvProcs' /\ InvLock'
    BY FinishOK DEF GrantWrite
  <1>2. loc[p].target \in PriceOrNone /\ loc[p].end \in Int
    BY DEF IInv, InvProcs, Local
  <1>3. CASE loc[p].target = NoPrice
    <2>1. acct' = ResetToFree(acct, "none")
      BY <1>3 DEF GrantWrite
    <2> QED
      BY <2>1, <1>1, NoPromiseOK, ResetToFreeOK
      DEF GrantWrite, Disturb, IInv, InvRow, RowOK, InvSubs, InvRest
  <1>4. CASE loc[p].target # NoPrice
    <2>1. acct' = Comped(loc[p].target.plan, loc[p].end)
      BY <1>4 DEF GrantWrite
    <2>2. loc[p].target.plan \in PaidPlans
      BY <1>2, <1>4 DEF PriceOrNone, Price
    <2>3. InvRow'
      BY <1>2, <2>1, <2>2, CompedOK DEF InvRow
    <2> QED
      BY <1>1, <2>3, NoPromiseOK DEF GrantWrite, Disturb, IInv, InvSubs, InvRest
  <1> QED
    BY <1>3, <1>4

-----------------------------------------------------------------------------
(* The sweep.                                                               *)

LEMMA SweepOK == ASSUME IInv, NEW p \in Procs, Sweep(p) PROVE IInv'
  <1> DEFINE target == [plan |-> acct.pending_plan,
                        interval |-> IF acct.pending_interval = "year" THEN "year" ELSE "month"]
             l == Holding(acct, target, NoTime)
  <1>1. acct \in Account /\ acct.pending_plan # "none"
    BY DEF Sweep, SweepDue, IInv, InvRow, RowOK
  <1>2. target \in Price
    BY <1>1 DEF Account, Price, Intervals
  <1>3. l \in Local /\ l.target = target
    <2> HIDE DEF target
    <2> QED
      BY <1>1, <1>2, HoldingOK DEF PriceOrNone, NoTime
  <1>4. Ready("sw_get", l) /\ "sw_get" \in Steps
    BY <1>2, <1>3 DEF Ready, Steps
  <1>5. pc' = [pc EXCEPT ![p] = "sw_get"] /\ loc' = [loc EXCEPT ![p] = l] /\ lock = NoProc /\ lock' = p
    BY DEF Sweep
  <1> HIDE DEF l, target
  <1>6. InvProcs'
    BY <1>3, <1>4, <1>5 DEF IInv, InvProcs
  <1>7. InvLock'
    BY <1>5, ConstantsOK DEF IInv, InvProcs, InvLock, SweepExclusive, Sweeping
  <1> QED
    BY <1>6, <1>7 DEF Sweep, history, IInv, InvRow, InvSubs, InvRest

LEMMA SwGetOK == ASSUME IInv, NEW p \in Procs, SwGet(p) PROVE IInv'
  <1> DEFINE s == loc[p].acct.paddle_subscription_id
             late == subs[s].end # NoTime
                       /\ subs[s].end - loc[p].acct.pending_effective_at > Tolerance
             step == IF late THEN "sw_retarget" ELSE "sw_update"
             l == [loc[p] EXCEPT !.sub = NormalizeSub(s)]
  <1>1. s \in SubIds /\ (Finish(p) \/ Goto(p, step, l))
    BY DEF SwGet
  <1>2. lock = p /\ Ready("sw_get", loc[p]) /\ loc[p] \in Local
    BY DEF SwGet, IInv, InvProcs, InvLock, SweepExclusive, Sweeping
  <1>3. l \in Local /\ l.sub = NormalizeSub(s) /\ NormalizeSub(s).end = subs[s].end
    BY <1>1, FetchedOK
  <1>4. l.target = loc[p].target /\ loc[p].target \in Price
    BY <1>2 DEF Ready, Targeted, Local
  <1>5. late => l.sub.end # NoTime
    BY <1>3
  <1> HIDE DEF l, late
  <1>6. step \in Steps /\ Ready(step, l)
    BY <1>4, <1>5 DEF Steps, Ready
  <1> HIDE DEF step, s
  <1>7. InvProcs' /\ InvLock'
    BY <1>1, <1>2, <1>3, <1>6, GotoOK, FinishOK
  <1> QED
    BY <1>7 DEF SwGet, history, IInv, InvRow, InvSubs, InvRest

LEMMA SwRetargetOK == ASSUME IInv, NEW p \in Procs, SwRetarget(p) PROVE IInv'
  <1>1. InvProcs' /\ InvLock'
    BY FinishOK DEF SwRetarget
  <1>2. loc[p].sub.end \in Int /\ loc[p].sub.end # NoTime
    BY DEF SwRetarget, IInv, InvProcs, Ready, Local, Normalized
  <1>3. acct' \in Account
    BY <1>2 DEF SwRetarget, IInv, InvRow, RowOK, Account
  <1>4. InvRow'
    BY <1>2, <1>3 DEF SwRetarget, IInv, InvRow, RowOK, Account
  <1> QED
    BY <1>1, <1>4 DEF SwRetarget, Disturb, IInv, InvSubs, InvRest

LEMMA SwUpdateOK == ASSUME IInv, NEW p \in Procs, SwUpdate(p) PROVE IInv'
  <1>1. loc[p].target \in Price
    BY DEF SwUpdate, IInv, InvProcs, Ready, Targeted
  <1>2. InvSubs' /\ event' \in BOOLEAN /\ owed' \in BOOLEAN /\ fresh' \subseteq Procs
    BY <1>1, PaddleUpdateOK DEF SwUpdate
  <1>3. "rc_read" \in Steps \ (Targeted \cup {"rc_persist"}) /\ "rc_read" \in Steps
    BY DEF Steps, Targeted
  <1>4. InvProcs' /\ InvLock'
    BY <1>3, NoLocalOK, GotoOK DEF SwUpdate
  <1> QED
    BY <1>2, <1>4 DEF SwUpdate, IInv, InvRow, InvRest

-----------------------------------------------------------------------------
(* What starts a reconcile, what fails, and what Paddle does.               *)

LEMMA NotifiedOK == ASSUME IInv, NEW p \in Procs, Webhook(p) \/ BillingStatus(p) PROVE IInv'
  <1>1. "rc_read" \in Steps \ (Targeted \cup {"rc_persist"}) /\ "rc_read" \in Steps
    BY DEF Steps, Targeted
  <1>2. InvProcs' /\ InvLock'
    BY <1>1, NoLocalOK, GotoOK DEF Webhook, BillingStatus
  <1> QED
    BY <1>2 DEF Webhook, BillingStatus, history, IInv, InvRow, InvSubs, InvRest

LEMMA FailOK == ASSUME IInv, NEW p \in Procs, Fail(p) PROVE IInv'
  <1>1. InvProcs' /\ InvLock'
    BY FinishOK DEF Fail
  <1>2. faults' \in Nat
    BY DEF Fail, IInv, InvRest
  <1> QED
    BY <1>1, <1>2 DEF Fail, IInv, InvRow, InvSubs, InvRest

LEMMA RefusedOK == ASSUME IInv, NEW p \in Procs, Refused(p) PROVE IInv'
  <1>1. InvProcs' /\ InvLock'
    BY FinishOK DEF Refused
  <1> QED
    BY <1>1 DEF Refused, history, IInv, InvRow, InvSubs, InvRest

LEMMA PayOK == ASSUME IInv, NEW s \in SubIds, Pay(s) PROVE IInv'
  <1> DEFINE end == clock + Length[subs[s].price.interval]
             x == Subscribed("active", subs[s].price, end, FALSE)
  <1>1. SubOK(subs[s]) /\ subs[s].price \in Price /\ clock \in Nat
    BY DEF Pay, IInv, InvSubs, InvRest, SubOK
  <1>2. end \in Nat
    BY <1>1, LengthNat DEF Price
  <1>3. subs' = [subs EXCEPT ![s] = x]
    BY DEF Pay, PaddleWrites, IInv, InvSubs
  <1> HIDE DEF end
  <1>4. SubOK(x)
    BY <1>1, <1>2 DEF SubOK, Subscribed, Subscription, SubStatuses, Live
  <1> HIDE DEF x
  <1>5. InvSubs'
    BY <1>3, <1>4, SubReplaced
  <1> QED
    BY <1>5 DEF Pay, PaddleWrites, Disturb, IInv, InvRow, InvProcs, InvLock, SweepExclusive,
                Sweeping, InvRest

LEMMA RenewOK == ASSUME IInv, NEW s \in SubIds, Renew(s) PROVE IInv'
  <1> DEFINE end(status) == IF status = "canceled" THEN subs[s].end
                            ELSE clock + Length[subs[s].price.interval]
             x(status) == Subscribed(status, subs[s].price, end(status), subs[s].cancelAtPeriodEnd)
  <1>1. PICK status \in {"active", "past_due", "canceled"} : subs' = [subs EXCEPT ![s] = x(status)]
    BY DEF Renew, PaddleWrites, IInv, InvSubs
  <1>2. SubOK(subs[s]) /\ subs[s].price \in Price /\ clock \in Nat /\ subs[s].end \in Nat
    BY DEF Renew, IInv, InvSubs, InvRest, SubOK
  <1>3. end(status) \in Nat
    BY <1>2, LengthNat DEF Price
  <1> HIDE DEF end
  <1>4. SubOK(x(status))
    BY <1>2, <1>3 DEF SubOK, Subscribed, Subscription, SubStatuses, Live
  <1> HIDE DEF x
  <1>5. InvSubs'
    BY <1>1, <1>4, SubReplaced
  <1> QED
    BY <1>5 DEF Renew, PaddleWrites, Disturb, IInv, InvRow, InvProcs, InvLock, SweepExclusive,
                Sweeping, InvRest

LEMMA TickOK == ASSUME IInv, Tick PROVE IInv'
  BY DEF Tick, Disturb, IInv, InvRow, InvSubs, InvProcs, InvLock, SweepExclusive, Sweeping, InvRest

-----------------------------------------------------------------------------
LEMMA InitEstablishes == Init => IInv
  <1> SUFFICES ASSUME Init PROVE IInv
    OBVIOUS
  <1>1. InvRow
    BY NewAccountOK DEF Init, InvRow
  <1>2. InvSubs
    <2>1. SubOK(Unborn) /\ Unborn \in Subscription
      BY DEF SubOK, Unborn, Subscribed, Subscription, SubStatuses, PriceOrNone, NoTime, Live
    <2> QED
      BY <2>1 DEF Init, InvSubs
  <1>3. InvProcs
    <2>1. "idle" \in Steps \ (Targeted \cup {"rc_persist"}) /\ "idle" \in Steps
      BY DEF Steps, Targeted
    <2> QED
      BY <2>1, NoLocalOK DEF Init, InvProcs
  <1>4. InvLock
    BY DEF Init, InvLock, SweepExclusive, Sweeping
  <1>5. InvRest
    BY NoPromiseOK DEF Init, InvRest
  <1> QED
    BY <1>1, <1>2, <1>3, <1>4, <1>5 DEF IInv

LEMMA StepPreserves == IInv /\ [Next]_vars => IInv'
  <1> SUFFICES ASSUME IInv, [Next]_vars PROVE IInv'
    OBVIOUS
  <1>1. ASSUME NEW p \in Procs, Request(p) PROVE IInv'
    BY <1>1, NotifiedOK, CreateCheckoutOK, ApplyChangeOK, CancelScheduledChangeOK,
       CancelOrResumeOK, GrantOK DEF Request
  <1>2. ASSUME NEW p \in Procs, Step(p) PROVE IInv'
    BY <1>2, ReconcileOK, CkTransactionOK, UpUpdateOK, DnUpdateOK, DnMarkOK, CsReadOK, CsGetOK,
       CsUpdateOK, CsClearOK, ScheduleCancelOK, ClCancelOK, ClCancelSwallowedOK, GrantWriteOK,
       SwGetOK, SwRetargetOK, SwUpdateOK, RefusedOK DEF Step
  <1>3. ASSUME NEW p \in Procs, Webhook(p) \/ Sweep(p) \/ Fail(p) PROVE IInv'
    BY <1>3, NotifiedOK, SweepOK, FailOK
  <1>4. ASSUME Paddle PROVE IInv'
    BY <1>4, PayOK, RenewOK DEF Paddle
  <1>5. ASSUME UNCHANGED vars PROVE IInv'
    BY <1>5 DEF vars, history, IInv, InvRow, InvSubs, InvProcs, InvLock, SweepExclusive,
                Sweeping, InvRest
  <1> QED
    BY <1>1, <1>2, <1>3, <1>4, <1>5, TickOK DEF Next

LEMMA Inductive == Spec => []IInv
  BY InitEstablishes, StepPreserves, PTL DEF Spec

-----------------------------------------------------------------------------
\* Every row a handler writes and everything it holds between two awaits has the
\* shape the next statement relies on (setAccountPlan's fields, normalizeSub).
THEOREM TypeCorrect == Spec => []TypeOK
  BY Inductive, IInvImplies, PTL

\* However applyChange, cancelScheduledChange, the sweep and any number of
\* reconciles interleave, a pending plan is never left without its date.
THEOREM PendingAlwaysDated == Spec => []PendingHasDate
  BY Inductive, IInvImplies, PTL

\* No interleaving or failure leaves a paid plan without a live status and a
\* period end: RcRevert judges by an old read, but always resets the whole row.
THEOREM PaidPlanAlwaysDated == Spec => []PaidPlanHasEnd
  BY Inductive, IInvImplies, PTL

\* Two workers never run applyDuePendingChanges at once (withLock, GET_LOCK).
THEOREM SweepsExclude == Spec => []SweepExclusive
  BY Inductive, IInvImplies, PTL

-----------------------------------------------------------------------------
(* The account and Paddle: what reconciles keep under full concurrency.        *)
(* SyncKnown: whatever id a handler holds belongs to a subscription that was   *)
(* paid for.  SyncFresh: a reconcile that nothing disturbed since its read     *)
(* holds what the row and Paddle hold now.  SyncRow: once such a reconcile has *)
(* ended the two agree until the next change.                                  *)

\* A comp that still runs.
CompRuns == acct.subscription_status = "comped" /\ ~CompExpired(acct, clock)

\* The two rows differ at most in the subscription they track.
Alike(a, b) ==
  /\ a.plan_name = b.plan_name /\ a.subscription_status = b.subscription_status
  /\ a.billing_interval = b.billing_interval /\ a.current_period_end = b.current_period_end
  /\ a.pending_plan = b.pending_plan /\ a.pending_interval = b.pending_interval
  /\ a.pending_effective_at = b.pending_effective_at

Reconciling == {"rc_stored", "rc_get", "rc_list", "rc_persist", "rc_write"}
Holder      == {"rc_persist", "rc_write"}
Born        == Live \cup {"canceled"}
NoneLive    == \A s \in SubIds : subs[s].status \notin Live

\* No subscription, or one that was paid for; it stays so.
Known(s) == s = NoSub \/ (s \in SubIds /\ subs[s].status \in Born)

\* The reconcile of p read all it holds after the last change.
UpToDate(p) ==
  LET step == pc[p]  l == loc[p] IN
  /\ step \in Reconciling \cup {"rc_expire"}
  /\ step \in Reconciling => Alike(l.acct, acct) /\ acct.subscription_status # "comped"
  /\ step = "rc_get" => l.sub.id = acct.paddle_subscription_id /\ l.sub.id # NoSub
  /\ step \in {"rc_list", "rc_persist"} => acct.paddle_subscription_id = NoSub
  /\ step \in Holder /\ l.sub.id # NoSub => l.sub = NormalizeSub(l.sub.id)
  /\ step = "rc_write" => l.sub.id = acct.paddle_subscription_id
  /\ step = "rc_write" /\ l.sub.id = NoSub => l.sub.status \notin Live /\ NoneLive

\* Agrees, and there is nothing live that the row does not track.
InStep ==
  /\ Agrees
  /\ (acct.paddle_subscription_id = NoSub /\ ~CompRuns) => NoneLive

SyncKnown ==
  /\ Known(acct.paddle_subscription_id)
  /\ \A p \in Procs : Known(loc[p].sub.id) /\ Known(loc[p].acct.paddle_subscription_id)
SyncFresh == \A p \in fresh : UpToDate(p)
SyncRow   == ~owed => InStep

SyncInv == SyncKnown /\ SyncFresh /\ SyncRow

-----------------------------------------------------------------------------
(* Which subscriptions anyone has heard of.                                  *)

\* A subscription that was paid for is never unpaid again.
BornKept == \A s \in SubIds : subs[s].status \in Born => subs'[s].status \in Born

\* Nobody but p has moved.
OnlyMoves(p) == \A q \in Procs \ {p} : pc'[q] = pc[q] /\ loc'[q] = loc[q]

LEMMA GotoMoves ==
  ASSUME IInv, NEW p \in Procs, NEW step, NEW l, Goto(p, step, l)
  PROVE  OnlyMoves(p) /\ pc'[p] = step /\ loc'[p] = l
  BY DEF Goto, OnlyMoves, IInv, InvProcs

LEMMA FinishMoves ==
  ASSUME IInv, NEW p \in Procs, Finish(p)
  PROVE  OnlyMoves(p) /\ pc'[p] = "idle" /\ loc'[p] = NoLocal
  BY DEF Finish, OnlyMoves, IInv, InvProcs

LEMMA KnownMoves ==
  ASSUME SyncKnown, BornKept, NEW p \in Procs, OnlyMoves(p), NEW l, loc'[p] = l,
         Known(l.sub.id), Known(l.acct.paddle_subscription_id),
         Known(acct.paddle_subscription_id)'
  PROVE  SyncKnown'
  BY DEF SyncKnown, BornKept, OnlyMoves, Known

LEMMA RestKnowsNone ==
  /\ Known(NoLocal.sub.id) /\ Known(NoLocal.acct.paddle_subscription_id)
  /\ NoLocal.acct.paddle_subscription_id = NoSub /\ NoLocal.sub.id = NoSub
  BY DEF NoLocal, Holding, NothingFound, NewAccount, Unbilled, Known

LEMMA FinishKnown ==
  ASSUME IInv, SyncKnown, BornKept, NEW p \in Procs, Finish(p),
         acct'.paddle_subscription_id \in
           {NoSub, acct.paddle_subscription_id, loc[p].sub.id}
  PROVE  SyncKnown'
  <1>1. OnlyMoves(p) /\ loc'[p] = NoLocal
    BY FinishMoves
  <1>2. Known(acct.paddle_subscription_id)'
    BY DEF SyncKnown, BornKept, Known
  <1> QED
    BY <1>1, <1>2, RestKnowsNone, KnownMoves

\* What it holds next, p held already or read in the row.
LEMMA GotoKnown ==
  ASSUME IInv, SyncKnown, BornKept, NEW p \in Procs, NEW step, NEW l, Goto(p, step, l),
         acct'.paddle_subscription_id \in {acct.paddle_subscription_id, loc[p].sub.id},
         Known(l.sub.id), Known(l.acct.paddle_subscription_id)
  PROVE  SyncKnown'
  <1>1. OnlyMoves(p) /\ loc'[p] = l
    BY GotoMoves
  <1>2. Known(acct.paddle_subscription_id)'
    BY DEF SyncKnown, BornKept, Known
  <1> QED
    BY <1>1, <1>2, KnownMoves

LEMMA BornReplaced ==
  ASSUME IInv, NEW s \in SubIds, NEW x, subs' = [subs EXCEPT ![s] = x],
         subs[s].status \in Born => x.status \in Born
  PROVE  BornKept
  BY DEF BornKept, IInv, InvSubs

LEMMA UpdateKeepsBorn ==
  ASSUME IInv, NEW s, NEW price, PaddleUpdate(s, price)
  PROVE  BornKept
  <1> DEFINE e == IF price.interval = subs[s].price.interval THEN subs[s].end
                  ELSE clock + Length[price.interval]
             x == Subscribed(subs[s].status, price, e, subs[s].cancelAtPeriodEnd)
  <1>1. s \in SubIds /\ subs' = [subs EXCEPT ![s] = x]
    BY DEF PaddleUpdate, PaddleWrites, IInv, InvSubs
  <1>2. x.status = subs[s].status
    BY DEF Subscribed
  <1> HIDE DEF x
  <1> QED
    BY <1>1, <1>2, BornReplaced

LEMMA HoldingKnown ==
  ASSUME SyncKnown, NEW target, NEW end
  PROVE  /\ Known(Holding(acct, target, end).sub.id)
         /\ Known(Holding(acct, target, end).acct.paddle_subscription_id)
         /\ Known(Holding(NewAccount, target, end).sub.id)
         /\ Known(Holding(NewAccount, target, end).acct.paddle_subscription_id)
  BY DEF SyncKnown, Known, Holding, NothingFound, NewAccount, Unbilled

LEMMA SubsRest == ASSUME UNCHANGED subs PROVE BornKept
  BY DEF BornKept

\* The subscription a handler asks for or writes is one that was paid for.
LEMMA KnownKept == ASSUME IInv, SyncKnown, [Next]_vars PROVE SyncKnown'
  <1>1. ASSUME NEW p \in Procs, Reconcile(p) PROVE SyncKnown'
    <2> USE SubsRest
    <2>1. CASE RcRead(p)
      <3> DEFINE l == [loc[p] EXCEPT !.acct = acct]
      <3>1. l.acct = acct /\ l.sub = loc[p].sub
        BY DEF IInv, InvProcs, Local
      <3> HIDE DEF l
      <3>2. Known(l.sub.id) /\ Known(l.acct.paddle_subscription_id)
        BY <3>1 DEF SyncKnown
      <3> QED
        BY <2>1, <3>2, GotoKnown DEF RcRead, l
    <2>2. CASE RcSkipComped(p)
      BY <2>2, FinishKnown DEF RcSkipComped
    <2>3. CASE RcExpire(p)
      BY <2>3, FinishKnown DEF RcExpire, ResetToFree, Unbilled
    <2>4. CASE RcStored(p)
      <3> DEFINE l == [loc[p] EXCEPT !.sub.id = acct.paddle_subscription_id]
      <3>1. l.sub.id = acct.paddle_subscription_id /\ l.acct = loc[p].acct
        BY DEF IInv, InvProcs, Local, Normalized
      <3> HIDE DEF l
      <3>2. Known(l.sub.id) /\ Known(l.acct.paddle_subscription_id)
        BY <3>1 DEF SyncKnown
      <3> QED
        BY <2>4, <3>2, GotoKnown DEF RcStored, l
    <2>5. CASE RcGet(p)
      <3> DEFINE l == [loc[p] EXCEPT !.sub = NormalizeSub(loc[p].sub.id)]
      <3>1. l.sub.id = loc[p].sub.id /\ l.acct = loc[p].acct
        BY DEF IInv, InvProcs, Local, NormalizeSub
      <3> HIDE DEF l
      <3>2. Known(l.sub.id) /\ Known(l.acct.paddle_subscription_id)
        BY <3>1 DEF SyncKnown
      <3> QED
        BY <2>5, <3>2, GotoKnown DEF RcGet, l
    <2>6. CASE RcList(p)
      <3> DEFINE none == [loc[p] EXCEPT !.sub = NothingFound]
                 found(s) == [loc[p] EXCEPT !.sub = NormalizeSub(s)]
      <3>1. none.sub.id = NoSub /\ none.acct = loc[p].acct
        BY DEF IInv, InvProcs, Local, NothingFound
      <3>2. ASSUME NEW s \in SubIds PROVE found(s).sub.id = s /\ found(s).acct = loc[p].acct
        BY DEF IInv, InvProcs, Local, NormalizeSub
      <3>3. UNCHANGED <<acct, subs>>
        BY <2>6 DEF RcList
      <3>4. \/ Goto(p, "rc_write", none)
            \/ \E s \in SubIds : subs[s].status \in Live /\ Goto(p, "rc_persist", found(s))
        BY <2>6 DEF RcList
      <3> HIDE DEF none, found
      <3>5. Known(none.sub.id) /\ Known(none.acct.paddle_subscription_id)
        BY <3>1 DEF SyncKnown, Known
      <3>6. ASSUME NEW s \in SubIds, subs[s].status \in Live
            PROVE  Known(found(s).sub.id) /\ Known(found(s).acct.paddle_subscription_id)
        BY <3>2, <3>6 DEF SyncKnown, Known, Born
      <3> QED
        BY <3>3, <3>4, <3>5, <3>6, GotoKnown
    <2>7. CASE RcPersist(p)
      <3>1. Known(loc[p].sub.id) /\ Known(loc[p].acct.paddle_subscription_id)
        BY DEF SyncKnown
      <3>2. acct'.paddle_subscription_id = loc[p].sub.id
        BY <2>7 DEF RcPersist, IInv, InvRow, RowOK, Account
      <3> QED
        BY <2>7, <3>1, <3>2, GotoKnown DEF RcPersist
    <2>8. CASE RcRevert(p)
      BY <2>8, FinishKnown DEF RcRevert, ResetToFree, Unbilled
    <2>9. CASE RcHold(p)
      <3>1. acct'.paddle_subscription_id = loc[p].sub.id
        BY <2>9 DEF RcHold, IInv, InvRow, RowOK, Account
      <3> QED
        BY <2>9, <3>1, FinishKnown DEF RcHold
    <2>10. CASE RcApply(p)
      BY <2>10, FinishKnown DEF RcApply
    <2> QED
      BY <1>1, <2>1, <2>2, <2>3, <2>4, <2>5, <2>6, <2>7, <2>8, <2>9, <2>10 DEF Reconcile
  <1>2. ASSUME NEW p \in Procs, Webhook(p) \/ Request(p) \/ Sweep(p) PROVE SyncKnown'
    <2>1. /\ Known(NoLocal.sub.id) /\ Known(NoLocal.acct.paddle_subscription_id)
          /\ \A target, end :
               /\ Known(Holding(acct, target, end).sub.id)
               /\ Known(Holding(acct, target, end).acct.paddle_subscription_id)
               /\ Known(Holding(NewAccount, target, end).sub.id)
               /\ Known(Holding(NewAccount, target, end).acct.paddle_subscription_id)
      BY HoldingKnown, RestKnowsNone
    <2>2. UNCHANGED <<acct, subs>>
      BY <1>2 DEF Webhook, Request, BillingStatus, CreateCheckout, ApplyChange,
                  CancelScheduledChange, CancelOrResume, Grant, Sweep
    <2>3. CASE Sweep(p)
      <3> DEFINE target == [plan |-> acct.pending_plan,
                   interval |-> IF acct.pending_interval = "year" THEN "year" ELSE "month"]
      <3>1. OnlyMoves(p) /\ loc'[p] = Holding(acct, target, NoTime)
        BY <2>3 DEF Sweep, OnlyMoves, IInv, InvProcs
      <3>2. Known(acct.paddle_subscription_id)' /\ BornKept
        BY <2>2, SubsRest DEF SyncKnown, Known
      <3> HIDE DEF target
      <3> QED
        BY <2>1, <3>1, <3>2, KnownMoves
    <2>4. CASE Webhook(p) \/ BillingStatus(p)
      BY <2>1, <2>4, <2>2, SubsRest, GotoKnown DEF Webhook, BillingStatus
    <2>5. CASE CreateCheckout(p)
      <3>1. PICK price \in Prices : Goto(p, "ck_txn", Holding(NewAccount, price, NoTime))
        BY <2>5 DEF CreateCheckout, Begin
      <3> QED
        BY <2>1, <2>2, <3>1, SubsRest, GotoKnown
    <2>6. CASE ApplyChange(p)
      <3>1. PICK step, price : Goto(p, step, Holding(acct, price, NoTime))
        BY <2>6 DEF ApplyChange, Begin
      <3> QED
        BY <2>1, <2>2, <3>1, SubsRest, GotoKnown
    <2>7. CASE CancelScheduledChange(p) \/ CancelOrResume(p)
      <3>1. PICK step : Goto(p, step, Holding(acct, NoPrice, NoTime))
        BY <2>7 DEF CancelScheduledChange, CancelOrResume, Begin
      <3> QED
        BY <2>1, <2>2, <3>1, SubsRest, GotoKnown
    <2>8. CASE Grant(p)
      <3>1. PICK step, target, end : Goto(p, step, Holding(acct, target, end))
        BY <2>8 DEF Grant, Begin
      <3> QED
        BY <2>1, <2>2, <3>1, SubsRest, GotoKnown
    <2> QED
      BY <1>2, <2>3, <2>4, <2>5, <2>6, <2>7, <2>8 DEF Request
  <1>3. ASSUME NEW p \in Procs, Step(p) \/ Fail(p), ~Reconcile(p) PROVE SyncKnown'
    <2>0. Known(loc[p].sub.id) /\ Known(loc[p].acct.paddle_subscription_id)
      BY DEF SyncKnown
    <2>1. CASE CkTransaction(p)
      <3>1. PICK s \in SubIds : subs[s] = Unborn
              /\ subs' = [subs EXCEPT ![s] = Subscribed("draft", loc[p].target, NoTime, FALSE)]
        BY <2>1 DEF CkTransaction
      <3>2. subs[s].status \notin Born
        BY <3>1 DEF Unborn, Subscribed, Born, Live
      <3>3. BornKept
        BY <3>1, <3>2, BornReplaced
      <3> QED
        BY <2>1, <3>3, FinishKnown DEF CkTransaction
    <2>2. CASE UpUpdate(p)
      <3>1. BornKept
        BY <2>2, UpdateKeepsBorn DEF UpUpdate
      <3>2. Goto(p, "rc_read", Holding(NewAccount, loc[p].target, NoTime)) /\ acct' = acct
        BY <2>2 DEF UpUpdate
      <3> QED
        BY <3>1, <3>2, HoldingKnown, GotoKnown
    <2>3. CASE DnUpdate(p)
      BY <2>0, <2>3, UpdateKeepsBorn, GotoKnown DEF DnUpdate
    <2>4. CASE DnMark(p)
      <3>1. acct'.paddle_subscription_id = acct.paddle_subscription_id
        BY <2>4 DEF DnMark, IInv, InvRow, RowOK, Account
      <3> QED
        BY <2>4, <3>1, SubsRest, FinishKnown DEF DnMark
    <2>5. CASE CsRead(p)
      BY <2>0, <2>5, SubsRest, FinishKnown, GotoKnown DEF CsRead
    <2>6. CASE CsGet(p)
      <3> DEFINE l == [loc[p] EXCEPT !.target = PriceFor(loc[p].acct)]
      <3>1. l.acct = loc[p].acct /\ l.sub = loc[p].sub
        BY DEF IInv, InvProcs, Local
      <3>2. UNCHANGED <<acct, subs>> /\ \E step : Goto(p, step, l)
        BY <2>6 DEF CsGet
      <3> HIDE DEF l
      <3>3. Known(l.sub.id) /\ Known(l.acct.paddle_subscription_id)
        BY <2>0, <3>1
      <3> QED
        BY <3>2, <3>3, SubsRest, GotoKnown
    <2>7. CASE CsUpdate(p)
      BY <2>0, <2>7, UpdateKeepsBorn, GotoKnown DEF CsUpdate
    <2>8. CASE CsClear(p)
      <3>1. acct'.paddle_subscription_id = acct.paddle_subscription_id
        BY <2>8 DEF CsClear, IInv, InvRow, RowOK, Account
      <3> QED
        BY <2>8, <3>1, SubsRest, FinishKnown DEF CsClear
    <2>9. CASE ScheduleCancel(p)
      <3> DEFINE s == loc[p].acct.paddle_subscription_id
                 x == [subs[s] EXCEPT !.cancelAtPeriodEnd = (pc[p] = "cancel")]
      <3>1. s \in SubIds /\ subs' = [subs EXCEPT ![s] = x]
        BY <2>9 DEF ScheduleCancel, PaddleWrites
      <3>2. x.status = subs[s].status
        BY <3>1 DEF IInv, InvSubs, Subscription
      <3> HIDE DEF x
      <3>3. BornKept
        BY <3>1, <3>2, BornReplaced
      <3> QED
        BY <2>9, <3>3, FinishKnown DEF ScheduleCancel
    <2>10. CASE ClCancel(p)
      <3> DEFINE s == loc[p].acct.paddle_subscription_id
                 x == [subs[s] EXCEPT !.status = "canceled"]
      <3>1. s \in SubIds /\ subs' = [subs EXCEPT ![s] = x]
        BY <2>10 DEF ClCancel, PaddleWrites
      <3>2. x.status = "canceled"
        BY <3>1 DEF IInv, InvSubs, Subscription
      <3> HIDE DEF x
      <3>3. BornKept
        BY <3>1, <3>2, BornReplaced DEF Born
      <3> QED
        BY <2>0, <2>10, <3>3, GotoKnown DEF ClCancel
    <2>11. CASE ClCancelSwallowed(p)
      BY <2>0, <2>11, SubsRest, GotoKnown DEF ClCancelSwallowed
    <2>12. CASE GrantWrite(p)
      BY <2>12, SubsRest, FinishKnown DEF GrantWrite, ResetToFree, Comped, Unbilled
    <2>13. CASE SwGet(p)
      <3> DEFINE s == loc[p].acct.paddle_subscription_id
                 l == [loc[p] EXCEPT !.sub = NormalizeSub(s)]
      <3>1. l.acct = loc[p].acct /\ l.sub.id = s
        BY DEF IInv, InvProcs, Local, NormalizeSub
      <3>2. UNCHANGED <<acct, subs>> /\ (Finish(p) \/ \E step : Goto(p, step, l))
        BY <2>13 DEF SwGet
      <3> HIDE DEF l
      <3>3. Known(l.sub.id) /\ Known(l.acct.paddle_subscription_id)
        BY <2>0, <3>1
      <3> QED
        BY <3>2, <3>3, SubsRest, FinishKnown, GotoKnown
    <2>14. CASE SwRetarget(p)
      <3>1. acct'.paddle_subscription_id = acct.paddle_subscription_id
        BY <2>14 DEF SwRetarget, IInv, InvRow, RowOK, Account
      <3> QED
        BY <2>14, <3>1, SubsRest, FinishKnown DEF SwRetarget
    <2>15. CASE SwUpdate(p)
      BY <2>15, RestKnowsNone, UpdateKeepsBorn, GotoKnown DEF SwUpdate
    <2>16. CASE Refused(p) \/ Fail(p)
      BY <2>16, SubsRest, FinishKnown DEF Refused, Fail
    <2> QED
      BY <1>3, <2>1, <2>2, <2>3, <2>4, <2>5, <2>6, <2>7, <2>8, <2>9, <2>10, <2>11, <2>12,
         <2>13, <2>14, <2>15, <2>16 DEF Step
  <1>4. ASSUME Paddle PROVE SyncKnown'
    <2>1. PICK s \in SubIds : Pay(s) \/ Renew(s)
      BY <1>4 DEF Paddle
    <2>2. PICK x : x.status \in Born /\ subs' = [subs EXCEPT ![s] = x]
      <3> DEFINE x(status, end, c) == Subscribed(status, subs[s].price, end, c)
      <3>1. \E status \in {"active", "past_due", "canceled"} : \E end, c :
              subs' = [subs EXCEPT ![s] = x(status, end, c)]
        <4>1. CASE Pay(s)
          BY <4>1 DEF Pay, PaddleWrites
        <4>2. CASE Renew(s)
          BY <4>2 DEF Renew, PaddleWrites
        <4> QED
          BY <2>1, <4>1, <4>2
      <3>2. PICK status \in {"active", "past_due", "canceled"} : \E end, c :
              subs' = [subs EXCEPT ![s] = x(status, end, c)]
        BY <3>1
      <3>3. PICK end, c : subs' = [subs EXCEPT ![s] = x(status, end, c)]
        BY <3>2
      <3>4. x(status, end, c).status \in Born
        BY DEF Subscribed, Born, Live
      <3> HIDE DEF x
      <3> QED
        BY <3>3, <3>4
    <2>3. BornKept
      BY <2>2, BornReplaced
    <2>4. UNCHANGED <<acct, loc>>
      BY <2>1 DEF Pay, Renew
    <2> QED
      BY <2>3, <2>4 DEF SyncKnown, BornKept, Known
  <1>5. ASSUME Tick \/ UNCHANGED vars PROVE SyncKnown'
    BY <1>5 DEF Tick, vars, SyncKnown, Known
  <1> QED
    BY <1>1, <1>2, <1>3, <1>4, <1>5 DEF Next, Step

-----------------------------------------------------------------------------
(* What an undisturbed reconcile has seen, and the row it leaves.            *)

\* The row and all that was ever paid for stay as they are, and nothing becomes
\* live: a checkout transaction may be created.
Still ==
  /\ UNCHANGED <<acct, clock>>
  /\ \A s \in SubIds : /\ subs[s].status \in Born => subs'[s] = subs[s]
                       /\ subs'[s].status \in Live => subs[s].status \in Live

LEMMA NothingMoved == ASSUME UNCHANGED <<acct, subs, clock>> PROVE Still
  BY DEF Still

LEMMA StillInStep ==
  ASSUME Still, InStep, Known(acct.paddle_subscription_id)
  PROVE  InStep'
  <1> DEFINE s == acct.paddle_subscription_id
  <1>1. s = NoSub \/ (s \in SubIds /\ subs'[s] = subs[s])
    BY DEF Still, Known
  <1>2. Agrees'
    BY <1>1 DEF Still, InStep, Agrees, CompExpired, PendingActive
  <1>3. (acct.paddle_subscription_id = NoSub /\ ~CompRuns)' => NoneLive'
    BY DEF Still, InStep, CompRuns, CompExpired, NoneLive
  <1> QED
    BY <1>2, <1>3 DEF InStep

LEMMA StillUpToDate ==
  ASSUME Still, NEW p, UpToDate(p), Known(loc[p].sub.id),
         pc'[p] = pc[p], loc'[p] = loc[p]
  PROVE  UpToDate(p)'
  <1>1. NoneLive => NoneLive'
    BY DEF Still, NoneLive
  <1>2. loc[p].sub.id # NoSub => NormalizeSub(loc[p].sub.id)' = NormalizeSub(loc[p].sub.id)
    BY DEF Still, Known, NormalizeSub
  <1> QED
    BY <1>1, <1>2 DEF Still, UpToDate, Alike

\* To whoever runs now, a change means that nothing read so far counts.
LEMMA Disturbed == Disturb => SyncFresh' /\ SyncRow'
  BY DEF Disturb, SyncFresh, SyncRow

\* A step of p that changes nothing compared.
LEMMA Looks ==
  ASSUME SyncInv, Still, NEW p \in Procs, OnlyMoves(p), fresh \subseteq Procs,
         owed' = owed, fresh' \subseteq fresh \cup {p}, p \in fresh' => UpToDate(p)'
  PROVE  SyncFresh' /\ SyncRow'
  <1>1. ASSUME NEW q \in fresh', q # p PROVE UpToDate(q)'
    <2>1. q \in Procs \ {p} /\ UpToDate(q) /\ Known(loc[q].sub.id)
      BY <1>1 DEF SyncInv, SyncFresh, SyncKnown
    <2> QED
      BY <2>1, StillUpToDate DEF OnlyMoves
  <1>2. SyncFresh'
    BY <1>1 DEF SyncFresh
  <1>3. SyncRow'
    BY StillInStep DEF SyncInv, SyncRow, SyncKnown
  <1> QED
    BY <1>2, <1>3

LEMMA Bystander ==
  ASSUME IInv, SyncInv, Still, NEW p \in Procs, OnlyMoves(p),
         pc[p] \notin Reconciling \cup {"rc_expire"}, owed' = owed, fresh' = fresh
  PROVE  SyncFresh' /\ SyncRow'
  <1>1. p \notin fresh /\ fresh \subseteq Procs
    BY DEF SyncInv, SyncFresh, UpToDate, IInv, InvRest
  <1> QED
    BY <1>1, Looks

\* The last write of a reconcile: InStep is what p owes, if it was not disturbed.
LEMMA Written ==
  ASSUME IInv, SyncInv, NEW p \in Procs, Finish(p), Settle(p), UNCHANGED <<subs, clock>>,
         p \in fresh => InStep'
  PROVE  SyncFresh' /\ SyncRow'
  <1>1. OnlyMoves(p) /\ fresh \subseteq Procs
    BY FinishMoves DEF IInv, InvRest
  <1>2. CASE acct' = acct
    <2>1. Still
      BY <1>2, NothingMoved
    <2>2. ASSUME NEW q \in fresh' PROVE UpToDate(q)'
      <3>1. q \in fresh /\ q # p
        BY <1>2, <2>2 DEF Settle
      <3>2. q \in Procs \ {p} /\ UpToDate(q) /\ Known(loc[q].sub.id)
        BY <1>1, <3>1 DEF SyncInv, SyncFresh, SyncKnown
      <3> QED
        BY <1>1, <2>1, <3>2, StillUpToDate DEF OnlyMoves
    <2>3. SyncRow'
      BY <1>2, <2>1, StillInStep DEF Settle, SyncInv, SyncRow, SyncKnown
    <2> QED
      BY <2>2, <2>3 DEF SyncFresh
  <1>3. CASE acct' # acct
    BY <1>3 DEF Settle, SyncFresh, SyncRow
  <1> QED
    BY <1>2, <1>3

LEMMA RcReadSync ==
  ASSUME IInv, SyncInv, NEW p \in Procs, RcRead(p) PROVE SyncFresh' /\ SyncRow'
  <1> DEFINE step == IF acct.subscription_status = "comped" THEN "rc_expire" ELSE "rc_stored"
             l == [loc[p] EXCEPT !.acct = acct]
  <1>1. l.acct = acct
    BY DEF IInv, InvProcs, Local
  <1>2. step \in {"rc_stored", "rc_expire"}
        /\ (step = "rc_stored" => acct.subscription_status # "comped")
    OBVIOUS
  <1>3. Goto(p, step, l) /\ UNCHANGED <<acct, subs, clock, owed>> /\ fresh' = fresh \cup {p}
    BY DEF RcRead
  <1> HIDE DEF step, l
  <1>4. OnlyMoves(p) /\ pc'[p] = step /\ loc'[p] = l
    BY <1>3, GotoMoves
  <1>5. UpToDate(p)'
    BY <1>1, <1>2, <1>3, <1>4 DEF UpToDate, Reconciling, Holder, Alike
  <1> QED
    BY <1>3, <1>4, <1>5, NothingMoved, Looks DEF IInv, InvRest

LEMMA RcSkipCompedSync ==
  ASSUME IInv, SyncInv, NEW p \in Procs, RcSkipComped(p) PROVE SyncFresh' /\ SyncRow'
  <1>1. /\ CompRuns /\ Finish(p) /\ UNCHANGED <<acct, subs, clock>>
        /\ owed' = FALSE /\ fresh' = fresh \ {p}
    BY DEF RcSkipComped, CompRuns
  <1>2. OnlyMoves(p) /\ Still /\ fresh \subseteq Procs
    BY <1>1, FinishMoves, NothingMoved DEF IInv, InvRest
  <1>3. InStep
    BY <1>1 DEF InStep, Agrees, CompRuns
  <1>4. SyncRow'
    BY <1>2, <1>3, StillInStep DEF SyncInv, SyncKnown, SyncRow
  <1>5. ASSUME NEW q \in fresh' PROVE UpToDate(q)'
    <2>1. q \in Procs \ {p} /\ UpToDate(q) /\ Known(loc[q].sub.id)
      BY <1>1, <1>2, <1>5 DEF SyncInv, SyncFresh, SyncKnown
    <2> QED
      BY <1>2, <2>1, StillUpToDate DEF OnlyMoves
  <1> QED
    BY <1>4, <1>5 DEF SyncFresh

LEMMA RcStoredSync ==
  ASSUME IInv, SyncInv, NEW p \in Procs, RcStored(p) PROVE SyncFresh' /\ SyncRow'
  <1> DEFINE s == acct.paddle_subscription_id
             step == IF s = NoSub THEN "rc_list" ELSE "rc_get"
             l == [loc[p] EXCEPT !.sub.id = s]
  <1>1. l.acct = loc[p].acct /\ l.sub.id = s
    BY DEF IInv, InvProcs, Local, Normalized
  <1>2. step \in {"rc_list", "rc_get"} /\ (step = "rc_list" <=> s = NoSub)
    OBVIOUS
  <1>3. pc[p] = "rc_stored" /\ Goto(p, step, l) /\ UNCHANGED <<acct, subs, clock, owed, fresh>>
    BY DEF RcStored, history
  <1> HIDE DEF step, l
  <1>4. OnlyMoves(p) /\ pc'[p] = step /\ loc'[p] = l
    BY <1>3, GotoMoves
  <1>5. ASSUME p \in fresh PROVE UpToDate(p)'
    <2>1. Alike(loc[p].acct, acct) /\ acct.subscription_status # "comped"
      BY <1>3, <1>5 DEF SyncInv, SyncFresh, UpToDate, Reconciling
    <2> QED
      BY <1>1, <1>2, <1>3, <1>4, <2>1 DEF UpToDate, Reconciling, Holder, Alike
  <1> QED
    BY <1>3, <1>4, <1>5, NothingMoved, Looks DEF IInv, InvRest

LEMMA RcGetSync ==
  ASSUME IInv, SyncInv, NEW p \in Procs, RcGet(p) PROVE SyncFresh' /\ SyncRow'
  <1> DEFINE s == loc[p].sub.id
             l == [loc[p] EXCEPT !.sub = NormalizeSub(s)]
  <1>1. l.acct = loc[p].acct /\ l.sub = NormalizeSub(s) /\ NormalizeSub(s).id = s
    BY DEF IInv, InvProcs, Local, NormalizeSub
  <1>2. pc[p] = "rc_get" /\ Goto(p, "rc_write", l) /\ s \in SubIds
        /\ UNCHANGED <<acct, subs, clock, owed, fresh>>
    BY DEF RcGet, history
  <1> HIDE DEF l
  <1>3. OnlyMoves(p) /\ pc'[p] = "rc_write" /\ loc'[p] = l
    BY <1>2, GotoMoves
  <1>4. ASSUME p \in fresh PROVE UpToDate(p)'
    <2>1. Alike(loc[p].acct, acct) /\ acct.subscription_status # "comped"
          /\ s = acct.paddle_subscription_id /\ s # NoSub
      BY <1>2, <1>4 DEF SyncInv, SyncFresh, UpToDate, Reconciling
    <2>2. loc'[p].sub = NormalizeSub(loc[p].sub.id)'
      BY <1>1, <1>2, <1>3 DEF NormalizeSub
    <2>3. loc'[p].acct = loc[p].acct /\ loc'[p].sub.id = s /\ acct' = acct
      BY <1>1, <1>2, <1>3
    <2> QED
      BY <1>3, <2>1, <2>2, <2>3 DEF UpToDate, Reconciling, Holder, Alike
  <1> QED
    BY <1>2, <1>3, <1>4, NothingMoved, Looks DEF IInv, InvRest

LEMMA RcListSync ==
  ASSUME IInv, SyncInv, NEW p \in Procs, RcList(p) PROVE SyncFresh' /\ SyncRow'
  <1> DEFINE none == [loc[p] EXCEPT !.sub = NothingFound]
             found(s) == [loc[p] EXCEPT !.sub = NormalizeSub(s)]
  <1>1. none.acct = loc[p].acct /\ none.sub = NothingFound
    BY DEF IInv, InvProcs, Local
  <1>2. \A s \in SubIds : found(s).acct = loc[p].acct /\ found(s).sub = NormalizeSub(s)
    BY DEF IInv, InvProcs, Local
  <1>3. pc[p] = "rc_list" /\ UNCHANGED <<acct, subs, clock, owed, fresh>>
    BY DEF RcList, history
  <1>4. ASSUME p \in fresh
        PROVE  /\ Alike(loc[p].acct, acct) /\ acct.subscription_status # "comped"
               /\ acct.paddle_subscription_id = NoSub
    BY <1>3, <1>4 DEF SyncInv, SyncFresh, UpToDate, Reconciling
  <1>5. CASE NoneLive /\ Goto(p, "rc_write", none)
    <2> HIDE DEF none
    <2>1. OnlyMoves(p) /\ pc'[p] = "rc_write" /\ loc'[p] = none
      BY <1>5, GotoMoves
    <2>2. loc'[p].acct = loc[p].acct /\ loc'[p].sub.id = NoSub /\ loc'[p].sub.status = "none"
      BY <1>1, <2>1 DEF NothingFound
    <2>3. NoneLive' /\ "none" \notin Live
      BY <1>3, <1>5 DEF NoneLive, Live
    <2>4. p \in fresh => UpToDate(p)'
      BY <1>3, <1>4, <2>1, <2>2, <2>3 DEF UpToDate, Reconciling, Holder, Alike
    <2> QED
      BY <1>3, <2>1, <2>4, NothingMoved, Looks DEF IInv, InvRest
  <1>6. ASSUME NEW s \in SubIds, Goto(p, "rc_persist", found(s))
        PROVE  SyncFresh' /\ SyncRow'
    <2>1. found(s).acct = loc[p].acct /\ found(s).sub = NormalizeSub(s)
      BY <1>2
    <2> HIDE DEF found
    <2>2. OnlyMoves(p) /\ pc'[p] = "rc_persist" /\ loc'[p] = found(s)
      BY <1>6, GotoMoves
    <2>3. loc'[p].acct = loc[p].acct /\ loc'[p].sub = NormalizeSub(loc[p].sub.id)'
      BY <1>3, <2>1, <2>2 DEF NormalizeSub
    <2>4. p \in fresh => UpToDate(p)'
      BY <1>3, <1>4, <2>2, <2>3 DEF UpToDate, Reconciling, Holder, Alike
    <2> QED
      BY <1>3, <2>2, <2>4, NothingMoved, Looks DEF IInv, InvRest
  <1> QED
    BY <1>5, <1>6 DEF RcList, NoneLive

\* The id it stores is a change for everybody else.
LEMMA RcPersistSync ==
  ASSUME IInv, SyncInv, NEW p \in Procs, RcPersist(p) PROVE SyncFresh' /\ SyncRow'
  <1>1. /\ pc[p] = "rc_persist" /\ Goto(p, "rc_write", loc[p]) /\ UNCHANGED <<subs, clock>>
        /\ acct' = [acct EXCEPT !.paddle_subscription_id = loc[p].sub.id]
    BY DEF RcPersist
  <1>2. /\ acct'.paddle_subscription_id = loc[p].sub.id
        /\ acct'.subscription_status = acct.subscription_status
        /\ Alike(loc[p].acct, acct) => Alike(loc[p].acct, acct')
    BY <1>1 DEF IInv, InvRow, RowOK, Account, Alike
  <1>3. OnlyMoves(p) /\ pc'[p] = "rc_write" /\ loc'[p] = loc[p] /\ fresh \subseteq Procs
    BY <1>1, GotoMoves DEF IInv, InvRest
  <1>4. loc[p].sub.id # NoSub
    BY <1>1, ConstantsOK DEF IInv, InvProcs, Ready
  <1>5. ASSUME p \in fresh
        PROVE  /\ Alike(loc[p].acct, acct) /\ acct.subscription_status # "comped"
               /\ acct.paddle_subscription_id = NoSub
               /\ loc[p].sub = NormalizeSub(loc[p].sub.id)
    BY <1>1, <1>4, <1>5 DEF SyncInv, SyncFresh, UpToDate, Reconciling, Holder
  <1>6. CASE acct' = acct
    <2>1. p \notin fresh
      BY <1>2, <1>4, <1>5, <1>6
    <2>2. owed' = owed /\ fresh' = fresh
      <3>1. owed \in BOOLEAN
        BY DEF IInv, InvRest
      <3> QED
        BY <1>6, <3>1 DEF RcPersist
    <2> QED
      BY <1>1, <1>3, <1>6, <2>1, <2>2, NothingMoved, Looks
  <1>7. CASE acct' # acct
    <2>1. (owed' <=> TRUE) /\ fresh' = fresh \cap {p}
      BY <1>7 DEF RcPersist
    <2>2. ASSUME p \in fresh PROVE UpToDate(p)'
      <3>1. NormalizeSub(loc[p].sub.id)' = NormalizeSub(loc[p].sub.id)
        BY <1>1, <1>3 DEF NormalizeSub
      <3>2. Alike(loc[p].acct, acct)'
        BY <1>2, <1>3, <1>5, <2>2
      <3> QED
        BY <1>2, <1>3, <1>4, <1>5, <2>2, <3>1, <3>2 DEF UpToDate, Reconciling, Holder
    <2> QED
      BY <2>1, <2>2 DEF SyncFresh, SyncRow
  <1> QED
    BY <1>6, <1>7

\* The plan is dropped only if nothing the row tracks is live.
LEMMA RcRevertSync ==
  ASSUME IInv, SyncInv, NEW p \in Procs, RcRevert(p) PROVE SyncFresh' /\ SyncRow'
  <1>1. /\ pc[p] = "rc_write" /\ loc[p].sub.status \notin Live /\ Finish(p) /\ Settle(p)
        /\ UNCHANGED <<subs, clock>>
    BY DEF RcRevert
  <1>2. ASSUME p \in fresh PROVE InStep'
    <2>1. /\ Alike(loc[p].acct, acct) /\ acct.subscription_status # "comped"
          /\ loc[p].sub.id = acct.paddle_subscription_id
          /\ loc[p].sub.id # NoSub => loc[p].sub = NormalizeSub(loc[p].sub.id)
          /\ loc[p].sub.id = NoSub => NoneLive
      BY <1>1, <1>2 DEF SyncInv, SyncFresh, UpToDate, Reconciling, Holder
    <2>2. acct.paddle_subscription_id = NoSub
          \/ subs[acct.paddle_subscription_id].status \notin Live
      BY <1>1, <2>1 DEF NormalizeSub
    <2>3. acct'.plan_name = "free" /\ acct'.paddle_subscription_id = acct.paddle_subscription_id
          /\ acct'.subscription_status # "comped"
      <3>1. CASE acct.subscription_status = "none"
        <4>1. acct' = acct
          BY <2>1, <3>1 DEF RcRevert, Alike
        <4>2. acct.plan_name = "free"
          BY <3>1 DEF IInv, InvRow, RowOK, Live
        <4> QED
          BY <2>1, <4>1, <4>2
      <3>2. CASE acct.subscription_status # "none"
        BY <2>1, <3>2 DEF RcRevert, Alike, ResetToFree, Unbilled
      <3> QED
        BY <3>1, <3>2
    <2>4. Agrees'
      BY <1>1, <2>2, <2>3 DEF Agrees
    <2>5. (acct.paddle_subscription_id = NoSub)' => NoneLive'
      BY <1>1, <2>1, <2>3 DEF NoneLive
    <2> QED
      BY <2>4, <2>5 DEF InStep
  <1> QED
    BY <1>1, <1>2, Written

\* What an undisturbed reconcile knows when it found a live subscription.
LEMMA FoundLive ==
  ASSUME IInv, SyncInv, NEW p \in fresh, p \in Procs, pc[p] = "rc_write", loc[p].sub.status \in Live
  PROVE  /\ Alike(loc[p].acct, acct) /\ acct.subscription_status # "comped"
         /\ LET s == loc[p].sub.id IN
              /\ s = acct.paddle_subscription_id /\ s # NoSub
              /\ loc[p].sub = NormalizeSub(s) /\ subs[s].status \in Live
  <1>1. /\ Alike(loc[p].acct, acct) /\ acct.subscription_status # "comped"
        /\ loc[p].sub.id = acct.paddle_subscription_id /\ loc[p].sub.id # NoSub
        /\ loc[p].sub = NormalizeSub(loc[p].sub.id)
    BY DEF SyncInv, SyncFresh, UpToDate, Reconciling, Holder
  <1> QED
    BY <1>1 DEF NormalizeSub

LEMMA RcHoldSync ==
  ASSUME IInv, SyncInv, NEW p \in Procs, RcHold(p) PROVE SyncFresh' /\ SyncRow'
  <1>1. /\ pc[p] = "rc_write" /\ loc[p].sub.status \in Live /\ Finish(p) /\ Settle(p)
        /\ UNCHANGED <<subs, clock>> /\ PendingActive(loc[p].acct, clock)
    BY DEF RcHold
  <1>2. /\ acct'.paddle_subscription_id = loc[p].sub.id
        /\ acct'.pending_plan = acct.pending_plan
        /\ acct'.pending_effective_at = acct.pending_effective_at
    BY DEF RcHold, IInv, InvRow, RowOK, Account
  <1>3. ASSUME p \in fresh PROVE InStep'
    <2>1. /\ loc[p].sub.id # NoSub /\ subs[loc[p].sub.id].status \in Live
          /\ Alike(loc[p].acct, acct)
      BY <1>1, <1>3, FoundLive
    <2>2. PendingActive(acct, clock)'
      BY <1>1, <1>2, <2>1 DEF PendingActive, Alike
    <2>3. Agrees'
      BY <1>1, <1>2, <2>1, <2>2 DEF Agrees
    <2> QED
      BY <1>2, <2>1, <2>3 DEF InStep
  <1> QED
    BY <1>1, <1>3, Written

LEMMA RcApplySync ==
  ASSUME IInv, SyncInv, NEW p \in Procs, RcApply(p) PROVE SyncFresh' /\ SyncRow'
  <1>1. /\ pc[p] = "rc_write" /\ loc[p].sub.status \in Live /\ Finish(p) /\ Settle(p)
        /\ UNCHANGED <<subs, clock>>
    BY DEF RcApply
  <1>2. /\ acct'.paddle_subscription_id = loc[p].sub.id
        /\ acct'.plan_name = loc[p].sub.price.plan
        /\ acct'.billing_interval = loc[p].sub.price.interval
        /\ acct'.subscription_status = loc[p].sub.status
        /\ acct'.current_period_end = loc[p].sub.end
        /\ acct'.pending_plan = "none"
    BY DEF RcApply
  <1>3. ASSUME p \in fresh PROVE InStep'
    <2> DEFINE s == loc[p].sub.id
    <2>1. s # NoSub /\ subs[s].status \in Live /\ loc[p].sub = NormalizeSub(s)
      BY <1>1, <1>3, FoundLive
    <2>2. loc[p].sub.price = subs[s].price /\ loc[p].sub.status = subs[s].status
          /\ loc[p].sub.end = subs[s].end
      BY <2>1 DEF NormalizeSub
    <2>3. Agrees'
      BY <1>1, <1>2, <2>1, <2>2 DEF Agrees
    <2> QED
      BY <1>2, <2>1, <2>3 DEF InStep
  <1> QED
    BY <1>1, <1>3, Written

LEMMA ReconcileSync ==
  ASSUME IInv, SyncInv, NEW p \in Procs, Reconcile(p) PROVE SyncFresh' /\ SyncRow'
  <1>1. RcExpire(p) => SyncFresh' /\ SyncRow'
    BY Disturbed DEF RcExpire
  <1> QED
    BY <1>1, RcReadSync, RcSkipCompedSync, RcStoredSync, RcGetSync, RcListSync, RcPersistSync,
       RcRevertSync, RcHoldSync, RcApplySync DEF Reconcile

\* Steps outside reconcile that leave the row and Paddle's subscriptions alone.
LEMMA QuietSync ==
  ASSUME IInv, SyncInv, NEW p \in Procs, pc[p] \notin Reconciling \cup {"rc_expire"},
         UNCHANGED <<acct, subs, clock, history>>,
         Finish(p) \/ \E step, l : Goto(p, step, l)
  PROVE  SyncFresh' /\ SyncRow'
  <1>1. OnlyMoves(p)
    BY FinishMoves, GotoMoves
  <1> QED
    BY <1>1, NothingMoved, Bystander DEF history

LEMMA RequestSync ==
  ASSUME IInv, SyncInv, NEW p \in Procs, Webhook(p) \/ Request(p) PROVE SyncFresh' /\ SyncRow'
  <1>1. pc[p] = "idle" /\ UNCHANGED <<acct, subs, clock, history>>
    BY DEF Webhook, Request, BillingStatus, CreateCheckout, ApplyChange,
           CancelScheduledChange, CancelOrResume, Grant, Begin
  <1>2. \E step, l : Goto(p, step, l)
    <2>1. CASE Webhook(p) \/ BillingStatus(p)
      BY <2>1 DEF Webhook, BillingStatus
    <2>2. CASE CreateCheckout(p) \/ CancelScheduledChange(p) \/ CancelOrResume(p)
      BY <2>2 DEF CreateCheckout, CancelScheduledChange, CancelOrResume, Begin
    <2>3. CASE ApplyChange(p)
      BY <2>3 DEF ApplyChange, Begin
    <2>4. CASE Grant(p)
      BY <2>4 DEF Grant, Begin
    <2> QED
      BY <2>1, <2>2, <2>3, <2>4 DEF Request
  <1>3. "idle" \notin Reconciling \cup {"rc_expire"}
    BY DEF Reconciling
  <1> QED
    BY <1>1, <1>2, <1>3, QuietSync

LEMMA SweepSync ==
  ASSUME IInv, SyncInv, NEW p \in Procs, Sweep(p) PROVE SyncFresh' /\ SyncRow'
  <1>1. pc[p] = "idle" /\ UNCHANGED <<acct, subs, clock, history>> /\ OnlyMoves(p)
    BY DEF Sweep, OnlyMoves, IInv, InvProcs
  <1>2. "idle" \notin Reconciling \cup {"rc_expire"}
    BY DEF Reconciling
  <1> QED
    BY <1>1, <1>2, NothingMoved, Bystander DEF history

LEMMA CkTransactionSync ==
  ASSUME IInv, SyncInv, NEW p \in Procs, CkTransaction(p) PROVE SyncFresh' /\ SyncRow'
  <1>1. pc[p] = "ck_txn" /\ Finish(p) /\ UNCHANGED <<acct, clock, history>>
    BY DEF CkTransaction
  <1>2. PICK s \in SubIds : subs[s] = Unborn
          /\ subs' = [subs EXCEPT ![s] = Subscribed("draft", loc[p].target, NoTime, FALSE)]
    BY DEF CkTransaction
  <1>3. Still
    BY <1>1, <1>2 DEF Still, Unborn, Subscribed, Born, Live, IInv, InvSubs
  <1>4. OnlyMoves(p)
    BY <1>1, FinishMoves
  <1>5. pc[p] \notin Reconciling \cup {"rc_expire"}
    BY <1>1 DEF Reconciling
  <1> QED
    BY <1>1, <1>3, <1>4, <1>5, Bystander DEF history

LEMMA QuietStepSync ==
  ASSUME IInv, SyncInv, NEW p \in Procs,
         CsRead(p) \/ CsGet(p) \/ ClCancelSwallowed(p) \/ SwGet(p) \/ Refused(p)
  PROVE  SyncFresh' /\ SyncRow'
  <1>1. UNCHANGED <<acct, subs, clock, history>>
    BY DEF CsRead, CsGet, ClCancelSwallowed, SwGet, Refused
  <1>2. pc[p] \notin Reconciling \cup {"rc_expire"}
    BY DEF CsRead, CsGet, ClCancelSwallowed, SwGet, Refused, Reconciling
  <1>3. Finish(p) \/ \E step, l : Goto(p, step, l)
    BY DEF CsRead, CsGet, ClCancelSwallowed, SwGet, Refused
  <1> QED
    BY <1>1, <1>2, <1>3, QuietSync

LEMMA FailSync ==
  ASSUME IInv, SyncInv, NEW p \in Procs, Fail(p) PROVE SyncFresh' /\ SyncRow'
  <1>1. Finish(p) /\ fresh' = fresh \ {p} /\ UNCHANGED <<acct, subs, clock, owed>>
    BY DEF Fail
  <1> QED
    BY <1>1, FinishMoves, NothingMoved, Looks DEF IInv, InvRest

\* Whatever writes the row outside reconcile, and whatever happens at Paddle, says so.
LEMMA DisturbingSync ==
  ASSUME \/ \E p \in Procs : \/ UpUpdate(p) \/ DnUpdate(p) \/ DnMark(p) \/ CsUpdate(p)
                             \/ CsClear(p) \/ ScheduleCancel(p) \/ ClCancel(p)
                             \/ GrantWrite(p) \/ SwRetarget(p) \/ SwUpdate(p)
         \/ Paddle \/ Tick
  PROVE  SyncFresh' /\ SyncRow'
  <1>1. Disturb
    BY DEF UpUpdate, DnUpdate, DnMark, CsUpdate, CsClear, ScheduleCancel, ClCancel, GrantWrite,
           SwRetarget, SwUpdate, Paddle, Pay, Renew, Tick, PaddleUpdate, PaddleWrites
  <1> QED
    BY <1>1, Disturbed

LEMMA SyncInit == Init => SyncInv
  <1> SUFFICES ASSUME Init PROVE SyncInv
    OBVIOUS
  <1>1. acct.paddle_subscription_id = NoSub /\ acct.plan_name = "free"
    BY DEF Init, NewAccount, Unbilled
  <1>2. SyncKnown
    BY <1>1, RestKnowsNone DEF Init, SyncKnown, Known
  <1>3. NoneLive
    BY DEF Init, Unborn, Subscribed, NoneLive, Live
  <1>4. InStep
    BY <1>1, <1>3 DEF InStep, Agrees
  <1> QED
    BY <1>2, <1>4 DEF Init, SyncInv, SyncFresh, SyncRow

LEMMA SyncStep == IInv /\ SyncInv /\ [Next]_vars => SyncInv'
  <1> SUFFICES ASSUME IInv, SyncInv, [Next]_vars PROVE SyncInv'
    OBVIOUS
  <1>1. SyncKnown'
    BY KnownKept DEF SyncInv
  <1>2. ASSUME NEW p \in Procs, Webhook(p) \/ Request(p) \/ Sweep(p) \/ Step(p) \/ Fail(p)
        PROVE  SyncFresh' /\ SyncRow'
    BY <1>2, RequestSync, SweepSync, ReconcileSync, CkTransactionSync, QuietStepSync, FailSync,
       DisturbingSync DEF Step
  <1>3. CASE Paddle \/ Tick
    BY <1>1, <1>3, DisturbingSync DEF SyncInv
  <1>4. ASSUME UNCHANGED vars PROVE SyncFresh' /\ SyncRow'
    <2>1. Still /\ UNCHANGED <<pc, loc, owed, fresh>>
      BY <1>4, NothingMoved DEF vars, history
    <2>2. \A q \in fresh : Known(loc[q].sub.id) /\ UpToDate(q)
      BY DEF SyncInv, SyncKnown, SyncFresh, IInv, InvRest
    <2>3. SyncFresh'
      BY <2>1, <2>2, StillUpToDate DEF SyncFresh
    <2>4. SyncRow'
      BY <2>1, StillInStep DEF SyncInv, SyncKnown, SyncRow
    <2> QED
      BY <2>3, <2>4
  <1> QED
    BY <1>1, <1>2, <1>3, <1>4 DEF Next, SyncInv

LEMMA SyncInductive == Spec => []SyncInv
  <1>1. Init => IInv /\ SyncInv
    BY InitEstablishes, SyncInit
  <1>2. IInv /\ SyncInv /\ [Next]_vars => (IInv /\ SyncInv)'
    BY StepPreserves, SyncStep
  <1> QED
    BY <1>1, <1>2, PTL DEF Spec

\* However webhooks, polls, upgrades, cancellations, sweeps and grants overlap, and
\* whatever fails, one reconcile that nothing disturbed from its first read to its
\* last write brings the row back into agreement with Paddle (reconcile).
THEOREM SyncsWhateverOverlaps == Spec => []SyncedAgrees
  <1>1. SyncInv => SyncedAgrees
    BY DEF SyncInv, SyncRow, InStep, SyncedAgrees
  <1> QED
    BY <1>1, SyncInductive, PTL

-----------------------------------------------------------------------------
(* Comps: what a reconcile that may still write has read.                    *)

\* A reconcile goes on past its check only if the row held no comp when it read it,
\* and expires only a comp whose end had passed.
ReadNoComp == \A p \in Procs :
  /\ pc[p] \in Reconciling => loc[p].acct.subscription_status # "comped"
  /\ pc[p] = "rc_expire" => CompExpired(loc[p].acct, clock)

\* What a step does to the reconcile of q: it does not move it, takes it on with the
\* row it read, ends it or is its read.
LEMMA KeepsWhatItRead ==
  ASSUME IInv, [Next]_vars, NEW q \in Procs, pc'[q] \in Reconciling \cup {"rc_expire"}
  PROVE  \/ pc'[q] = pc[q] /\ loc'[q].acct = loc[q].acct
         \/ pc[q] \in Reconciling /\ pc'[q] \in Reconciling /\ loc'[q].acct = loc[q].acct
         \/ RcRead(q)
  <1> USE DEF IInv, InvProcs, Reconciling
  <1>1. CASE UNCHANGED <<pc, loc>>
    BY <1>1
  <1>2. ASSUME NEW p \in Procs, NEW step, NEW l, pc' = [pc EXCEPT ![p] = step],
               loc' = [loc EXCEPT ![p] = l], step \notin Reconciling \cup {"rc_expire"}
        PROVE  pc'[q] = pc[q] /\ loc'[q] = loc[q]
    BY <1>2
  <1>3. ASSUME NEW p \in Procs, Request(p) PROVE pc'[q] = pc[q] /\ loc'[q] = loc[q]
    <2>1. PICK step \in {"rc_read", "ck_txn", "up_update", "dn_update", "cs_read", "cancel",
                         "resume", "grant", "cl_cancel"} :
            \E l : pc' = [pc EXCEPT ![p] = step] /\ loc' = [loc EXCEPT ![p] = l]
      BY <1>3 DEF Request, BillingStatus, CreateCheckout, ApplyChange, CancelScheduledChange,
         CancelOrResume, Grant, Begin, Goto
    <2> QED
      BY <1>2, <2>1
  <1>4. ASSUME NEW p \in Procs, Reconcile(p), ~RcRead(p)
        PROVE  \/ pc'[q] = pc[q] /\ loc'[q] = loc[q]
               \/ pc[q] \in Reconciling /\ pc'[q] \in Reconciling /\ loc'[q].acct = loc[q].acct
    <2>1. CASE RcSkipComped(p) \/ RcExpire(p) \/ RcRevert(p) \/ RcHold(p) \/ RcApply(p)
      <3>1. pc' = [pc EXCEPT ![p] = "idle"] /\ loc' = [loc EXCEPT ![p] = NoLocal]
        BY <2>1 DEF RcSkipComped, RcExpire, RcRevert, RcHold, RcApply, Finish
      <3> QED
        BY <1>2, <3>1
    <2>2. CASE RcStored(p) \/ RcGet(p) \/ RcList(p) \/ RcPersist(p)
      <3>1. PICK step \in Reconciling :
              \E l : pc[p] \in Reconciling /\ l.acct = loc[p].acct /\ Goto(p, step, l)
        BY <2>2 DEF RcStored, RcGet, RcList, RcPersist, Local
      <3> QED
        BY <3>1 DEF Goto
    <2> QED
      BY <1>4, <2>1, <2>2 DEF Reconcile
  <1>5. ASSUME NEW p \in Procs, RcRead(p)
        PROVE  (pc'[q] = pc[q] /\ loc'[q] = loc[q]) \/ RcRead(q)
    BY <1>5 DEF RcRead, Goto
  <1>6. ASSUME NEW p \in Procs, Webhook(p) \/ Sweep(p) \/ Fail(p) \/ (Step(p) /\ ~Reconcile(p))
        PROVE  pc'[q] = pc[q] /\ loc'[q] = loc[q]
    <2>1. PICK step \in {"idle", "rc_read", "dn_mark", "cs_get", "cs_update", "cs_clear", "grant",
                         "sw_get", "sw_retarget", "sw_update"} :
            \E l : pc' = [pc EXCEPT ![p] = step] /\ loc' = [loc EXCEPT ![p] = l]
      BY <1>6 DEF Webhook, Sweep, Fail, Step, CkTransaction, UpUpdate, DnUpdate, DnMark, CsRead,
         CsGet, CsUpdate, CsClear, ScheduleCancel, ClCancel, ClCancelSwallowed, GrantWrite,
         SwGet, SwRetarget, SwUpdate, Refused, Goto, Finish
    <2> QED
      BY <1>2, <2>1
  <1> QED
    BY <1>1, <1>3, <1>4, <1>5, <1>6 DEF Next, Paddle, Pay, Renew, Tick, vars

LEMMA ClockAdvances == ASSUME IInv, [Next]_vars PROVE clock' \in {clock, clock + 1}
  <1>1. ASSUME NEW p \in Procs, Reconcile(p) PROVE clock' = clock
    BY <1>1 DEF Reconcile, RcRead, RcSkipComped, RcExpire, RcStored, RcGet, RcList, RcPersist,
       RcRevert, RcHold, RcApply
  <1>2. ASSUME NEW p \in Procs, Step(p) PROVE clock' = clock
    BY <1>1, <1>2 DEF Step, CkTransaction, UpUpdate, DnUpdate, DnMark, CsRead, CsGet, CsUpdate,
       CsClear, ScheduleCancel, ClCancel, ClCancelSwallowed, GrantWrite, SwGet, SwRetarget,
       SwUpdate, Refused
  <1>3. ASSUME NEW p \in Procs, Webhook(p) \/ Request(p) \/ Sweep(p) \/ Fail(p)
        PROVE  clock' = clock
    BY <1>3 DEF Webhook, Request, BillingStatus, CreateCheckout, ApplyChange,
       CancelScheduledChange, CancelOrResume, Grant, Sweep, Fail
  <1> QED
    BY <1>2, <1>3 DEF Next, vars, Paddle, Pay, Renew, Tick

LEMMA ReadNoCompKept == ASSUME IInv, ReadNoComp, [Next]_vars PROVE ReadNoComp'
  <1> SUFFICES ASSUME NEW q \in Procs, pc'[q] \in Reconciling \cup {"rc_expire"}
               PROVE  /\ pc'[q] \in Reconciling => loc'[q].acct.subscription_status # "comped"
                      /\ pc'[q] = "rc_expire" => CompExpired(loc'[q].acct, clock')
    BY DEF ReadNoComp
  <1>1. "rc_expire" \notin Reconciling
    BY DEF Reconciling
  <1>2. CASE pc'[q] = pc[q] /\ loc'[q].acct = loc[q].acct
    <2>1. clock \in Nat /\ loc[q].acct.current_period_end \in Int
      BY DEF IInv, InvProcs, InvRest, Local, Account
    <2>2. CompExpired(loc[q].acct, clock) => CompExpired(loc[q].acct, clock')
      BY <2>1, ClockAdvances DEF CompExpired
    <2> QED
      BY <1>2, <2>2 DEF ReadNoComp
  <1>3. CASE pc[q] \in Reconciling /\ pc'[q] \in Reconciling /\ loc'[q].acct = loc[q].acct
    BY <1>1, <1>3 DEF ReadNoComp
  <1>4. CASE RcRead(q)
    <2>1. loc'[q].acct = acct /\ clock' = clock
      BY <1>4 DEF RcRead, Goto, IInv, InvProcs, Local
    <2>2. pc'[q] = IF acct.subscription_status = "comped" THEN "rc_expire" ELSE "rc_stored"
      BY <1>4 DEF RcRead, Goto, IInv, InvProcs
    <2> QED
      BY <1>1, <1>4, <2>1, <2>2 DEF RcRead
  <1> QED
    BY <1>2, <1>3, <1>4, KeepsWhatItRead

\* However everything overlaps, a comp in force is replaced by a grant only, or by a
\* reconcile whose read of the row is older than the comp (reconcile returns early on
\* a comped row).
THEOREM CompKept == Spec => CompPreserved
  <1>1. Init => ReadNoComp
    BY DEF Init, ReadNoComp, Reconciling
  <1>2. IInv /\ ReadNoComp /\ [Next]_vars => ReadNoComp'
    BY ReadNoCompKept
  <1>3. IInv /\ ReadNoComp /\ [Next]_vars =>
          [CompInForce(acct) /\ acct'.subscription_status # "comped" =>
             \E p \in Procs : /\ pc[p] \in {"grant", "rc_expire", "rc_write"} /\ pc'[p] # pc[p]
                              /\ pc[p] = "grant" \/ ~CompInForce(loc[p].acct)]_vars
    <2> SUFFICES ASSUME IInv, ReadNoComp, [Next]_vars, CompInForce(acct),
                        acct'.subscription_status # "comped"
                 PROVE  \E p \in Procs :
                          /\ pc[p] \in {"grant", "rc_expire", "rc_write"} /\ pc'[p] # pc[p]
                          /\ pc[p] = "grant" \/ ~CompInForce(loc[p].acct)
      OBVIOUS
    <2> USE DEF IInv, InvRow, RowOK, Account, InvProcs
    <2>1. PICK p \in Procs : Step(p)
      BY DEF CompInForce, Next, vars, Webhook, Request, BillingStatus, CreateCheckout,
         ApplyChange, CancelScheduledChange, CancelOrResume, Grant, Sweep, Fail, Paddle, Pay,
         Renew, Tick
    <2>2. ~(DnMark(p) \/ CsClear(p) \/ SwRetarget(p) \/ RcPersist(p))
      BY DEF CompInForce, DnMark, CsClear, SwRetarget, RcPersist
    <2>3. acct' # acct
      BY DEF CompInForce
    <2>4. RcExpire(p) \/ RcRevert(p) \/ RcHold(p) \/ RcApply(p) \/ GrantWrite(p)
      BY <2>1, <2>2, <2>3 DEF Step, Reconcile, RcRead, RcSkipComped, RcStored, RcGet, RcList,
         CkTransaction, UpUpdate, DnUpdate, CsRead, CsGet, CsUpdate, ScheduleCancel, ClCancel,
         ClCancelSwallowed, SwGet, SwUpdate, Refused
    <2>5. pc[p] \in {"grant", "rc_expire", "rc_write"} /\ pc'[p] = "idle"
      BY <2>4 DEF RcExpire, RcRevert, RcHold, RcApply, GrantWrite, Finish
    <2>6. pc[p] = "grant" \/ ~CompInForce(loc[p].acct)
      BY <2>5 DEF ReadNoComp, Reconciling, CompInForce
    <2> QED
      BY <2>5, <2>6
  <1> QED
    BY <1>1, <1>2, <1>3, Inductive, PTL DEF Spec, CompPreserved
=============================================================================
