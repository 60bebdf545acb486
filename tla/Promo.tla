------------------------------- MODULE Promo -------------------------------
(***************************************************************************)
(* One promo code, the discount that backs it at the payment provider, and *)
(* the accounts that redeem it.  A request is a process of PromoProcs, each *)
(* awaited query or provider call one atomic step of it; the transaction   *)
(* that claims a redemption is one step.                                   *)
(*                                                                         *)
(* Left out as data: percentages, durations, the plan a code applies to or *)
(* grants, and every refusal that changes no state.  A discount id is made *)
(* by the provider (Stripe's coupon and promotion code are one here).  What *)
(* comping does to the account is module PaddleBilling's.                  *)
(***************************************************************************)
EXTENDS Integers, FiniteSets

CONSTANTS
  PromoProcs,       \* concurrently running requests
  Accounts,         \* accounts (e-mails) that may redeem
  DiscountIds,      \* ids the provider may give
  Caps,             \* values max_redemptions may be given; Unlimited is SQL NULL
  MaxPromoOps,      \* bound: requests
  MaxPromoFaults,   \* bound: failed queries and calls
  NoDiscount, NoAccount

ASSUME PromoConstantsOK ==
  /\ Caps \subseteq Nat /\ MaxPromoOps \in Nat /\ MaxPromoFaults \in Nat
  /\ NoDiscount \notin DiscountIds /\ NoAccount \notin Accounts

VARIABLES
  promo,            \* the row of promo_codes
  redemptions,      \* promo_redemptions: accounts, by UNIQUE (code, account)
  discounts,        \* at the provider: none, active or archived
  ppc, ploc,        \* per process: next step, and what it knows by then
  promoOps, promoFaults,
  \* History, for the properties only:
  given,            \* per account: grants since usage began or was reset
  forgotten,        \* accounts whose redemption record vanished under them
  wiped,            \* requests whose claim a reset of the usage forgot
  miscounted,       \* usage was reset with a rival at work, or a wiped slot given back
  unrivalled,       \* admin requests with no rival since they began
  stray             \* discounts a rival or a failed step left behind

promoHistory == <<given, forgotten, wiped, miscounted, unrivalled, stray>>
promoTables  == <<promo, redemptions, discounts>>
promoVars    == <<promoTables, ppc, ploc, promoOps, promoFaults, promoHistory>>

-----------------------------------------------------------------------------
Unlimited == 0

NoPromo == [state |-> "absent", type |-> "free_plan", max |-> Unlimited, times |-> 0,
            discount |-> NoDiscount, expired |-> FALSE]

PercentOff == promo.type = "percent_off"
HasRoom(p) == p.max = Unlimited \/ p.times < p.max

AdminSteps  == {"new_discount", "insert", "archive", "close", "fresh_discount",
                "reset_usage", "reopen"}
RedeemSteps == {"claim", "comp", "release_row", "release_slot"}

\* What a request knows: who redeems, the type it read or was given, the discount it
\* read or made, the cap it will write, and whether usage is reset or the row deleted.
PromoLocal == [account : Accounts \cup {NoAccount}, discount : DiscountIds \cup {NoDiscount},
               type : {"percent_off", "free_plan"}, max : Caps \cup {Unlimited},
               flag : BOOLEAN]
NoPromoLocal == [account |-> NoAccount, discount |-> NoDiscount, type |-> "free_plan",
                 max |-> Unlimited, flag |-> FALSE]

PromoTypeOK ==
  /\ promo \in [state : {"absent", "active", "revoked", "deleted"},
                type : {"percent_off", "free_plan"}, max : Caps \cup {Unlimited}, times : Nat,
                discount : DiscountIds \cup {NoDiscount}, expired : BOOLEAN]
  /\ redemptions \subseteq Accounts
  /\ promo.state \in {"absent", "deleted"} => redemptions = {}
  /\ discounts \in [DiscountIds -> {"none", "active", "archived"}]
  /\ ppc \in [PromoProcs -> AdminSteps \cup RedeemSteps \cup {"idle"}]
  /\ ploc \in [PromoProcs -> PromoLocal]
  /\ promoOps \in Nat /\ promoFaults \in Nat
  /\ given \in [Accounts -> Nat] /\ forgotten \subseteq Accounts
  /\ wiped \subseteq PromoProcs /\ miscounted \in BOOLEAN /\ unrivalled \subseteq PromoProcs /\ stray \subseteq DiscountIds

PromoInit ==
  /\ promo = NoPromo /\ redemptions = {}
  /\ discounts = [d \in DiscountIds |-> "none"]
  /\ ppc = [q \in PromoProcs |-> "idle"] /\ ploc = [q \in PromoProcs |-> NoPromoLocal]
  /\ promoOps = 0 /\ promoFaults = 0
  /\ given = [a \in Accounts |-> 0] /\ forgotten = {} /\ wiped = {} /\ miscounted = FALSE
  /\ unrivalled = {} /\ stray = {}

-----------------------------------------------------------------------------
Administering(q) == ppc[q] \in AdminSteps
Redeeming(q)     == ppc[q] \in RedeemSteps

\* Admin requests that overlap may leave each other's discounts behind.
PromoBegin(q, step, l) ==
  LET rivals == {r \in PromoProcs : Administering(r)} IN
  /\ ppc[q] = "idle" /\ promoOps < MaxPromoOps /\ promoOps' = promoOps + 1
  /\ ppc' = [ppc EXCEPT ![q] = step] /\ ploc' = [ploc EXCEPT ![q] = l]
  /\ unrivalled' = IF step \in RedeemSteps THEN unrivalled
                   ELSE (unrivalled \ rivals) \cup (IF rivals = {} THEN {q} ELSE {})
  /\ UNCHANGED <<promoTables, promoFaults, given, forgotten, wiped, miscounted, stray>>

PromoGoto(q, step, l) ==
  /\ ppc' = [ppc EXCEPT ![q] = step] /\ ploc' = [ploc EXCEPT ![q] = l]
  /\ UNCHANGED <<promoOps, promoFaults, unrivalled, wiped>>

PromoReturn(q) ==
  /\ ppc' = [ppc EXCEPT ![q] = "idle"] /\ ploc' = [ploc EXCEPT ![q] = NoPromoLocal]
  /\ unrivalled' = unrivalled \ {q} /\ wiped' = wiped \ {q}
  /\ UNCHANGED <<promoOps, promoFaults>>

Touched(q) == ({ploc[q].discount, promo.discount} \cap DiscountIds)

-----------------------------------------------------------------------------
(* Redeeming.                                                               *)

\* The checks before the claim are for a clean message; two reads, one step.
RedeemPromo(q) ==
  \E a \in Accounts :
    /\ promo.state = "active" /\ ~promo.expired /\ HasRoom(promo) /\ a \notin redemptions
    /\ PromoBegin(q, "claim", [NoPromoLocal EXCEPT !.account = a, !.type = promo.type,
                                                   !.discount = promo.discount])

\* Mutant: the cap is the one read before, not the one in the UPDATE's WHERE.
MutCanClaim(a) == promo.state = "active" /\ ~promo.expired /\ a \notin redemptions

\* The conditional UPDATE and the UNIQUE index.
CanClaim(a) ==
  promo.state = "active" /\ ~promo.expired /\ HasRoom(promo) /\ a \notin redemptions

\* Mutant: the duplicate key goes unnoticed.
MutClaimRedemption(q) ==
  LET a == ploc[q].account IN
  /\ ppc[q] = "claim" /\ promo.state = "active" /\ ~promo.expired /\ HasRoom(promo)
  /\ promo' = [promo EXCEPT !.times = @ + 1]
  /\ redemptions' = redemptions \cup {a}
  /\ IF ploc[q].type = "free_plan" THEN PromoGoto(q, "comp", ploc[q]) /\ UNCHANGED given
     ELSE PromoReturn(q) /\ given' = [given EXCEPT ![a] = @ + 1]
  /\ UNCHANGED <<discounts, forgotten, miscounted, stray>>

\* A percent-off code is done when claimed: checkout applies the discount read before.
ClaimRedemption(q) ==
  LET a == ploc[q].account IN
  /\ ppc[q] = "claim" /\ CanClaim(a)
  /\ promo' = [promo EXCEPT !.times = @ + 1]
  /\ redemptions' = redemptions \cup {a}
  /\ IF ploc[q].type = "free_plan" THEN PromoGoto(q, "comp", ploc[q]) /\ UNCHANGED given
     ELSE PromoReturn(q) /\ given' = [given EXCEPT ![a] = @ + 1]
  /\ UNCHANGED <<discounts, forgotten, miscounted, stray>>

ClaimRefused(q) ==
  /\ ppc[q] = "claim" /\ ~CanClaim(ploc[q].account)
  /\ PromoReturn(q)
  /\ UNCHANGED <<promoTables, given, forgotten, miscounted, stray>>

\* cancelActiveSubscription and setAccountPlan.
CompAccount(q) ==
  /\ ppc[q] = "comp"
  /\ given' = [given EXCEPT ![ploc[q].account] = @ + 1]
  /\ PromoReturn(q)
  /\ UNCHANGED <<promoTables, forgotten, miscounted, stray>>

CompFails(q) ==
  /\ ppc[q] = "comp" /\ promoFaults < MaxPromoFaults
  /\ promoFaults' = promoFaults + 1
  /\ ppc' = [ppc EXCEPT ![q] = "release_row"]
  /\ UNCHANGED <<promoTables, ploc, promoOps, promoHistory>>

\* releaseRedemption: the record, then the slot.  The record may by now be another one
\* of the same account, if the first was wiped.
ReleaseRow(q) ==
  LET a == ploc[q].account IN
  /\ ppc[q] = "release_row"
  /\ redemptions' = redemptions \ {a}
  /\ PromoGoto(q, "release_slot", ploc[q])
  /\ UNCHANGED <<promo, discounts, given, forgotten, miscounted, stray>>

ReleaseSlot(q) ==
  /\ ppc[q] = "release_slot"
  /\ promo' = IF promo.times > 0 THEN [promo EXCEPT !.times = @ - 1] ELSE promo
  /\ miscounted' = (miscounted \/ q \in wiped)
  /\ PromoReturn(q)
  /\ UNCHANGED <<redemptions, discounts, given, forgotten, stray>>

-----------------------------------------------------------------------------
(* The admin: create, revoke, reactivate, delete.                           *)

CreatePromoCode(q) ==
  \E type \in {"percent_off", "free_plan"}, max \in Caps \cup {Unlimited} :
    /\ promo.state = "absent"
    /\ PromoBegin(q, IF type = "percent_off" THEN "new_discount" ELSE "insert",
                  [NoPromoLocal EXCEPT !.type = type, !.max = max])

\* createPaddlePromoDiscount, for a new code and for a reactivated one.
MakeDiscount(q) ==
  /\ ppc[q] \in {"new_discount", "fresh_discount"}
  /\ \E d \in DiscountIds :
       /\ discounts[d] = "none" /\ discounts' = [discounts EXCEPT ![d] = "active"]
       /\ PromoGoto(q, IF ppc[q] = "new_discount" THEN "insert" ELSE "reset_usage",
                    [ploc[q] EXCEPT !.discount = d])
  /\ UNCHANGED <<promo, redemptions, given, forgotten, miscounted, stray>>

\* The code is UNIQUE: of two at once the second fails, and its discount stays.
InsertPromo(q) ==
  /\ ppc[q] = "insert"
  /\ promo' = IF promo.state # "absent" THEN promo
              ELSE [NoPromo EXCEPT !.state = "active", !.type = ploc[q].type,
                                   !.max = ploc[q].max, !.discount = ploc[q].discount]
  /\ stray' = IF q \in unrivalled THEN stray ELSE stray \cup Touched(q)
  /\ PromoReturn(q)
  /\ UNCHANGED <<redemptions, discounts, given, forgotten, miscounted>>

\* Revoke asks nothing of the row but that it is there; the flag deletes it.
RevokePromoCode(q) ==
  promo.state \in {"active", "revoked"}
  /\ PromoBegin(q, "archive", [NoPromoLocal EXCEPT !.discount = promo.discount])
DeletePromoCode(q) ==
  promo.state \in {"active", "revoked"}
  /\ PromoBegin(q, "archive", [NoPromoLocal EXCEPT !.discount = promo.discount, !.flag = TRUE])

\* Mutant: the discount is left active.
MutArchiveDiscount(q) ==
  /\ ppc[q] = "archive"
  /\ PromoGoto(q, "close", ploc[q])
  /\ UNCHANGED <<promoTables, given, forgotten, miscounted, stray>>

ArchiveDiscount(q) ==
  LET d == ploc[q].discount IN
  /\ ppc[q] = "archive"
  /\ discounts' = IF d = NoDiscount THEN discounts ELSE [discounts EXCEPT ![d] = "archived"]
  /\ PromoGoto(q, "close", ploc[q])
  /\ UNCHANGED <<promo, redemptions, given, forgotten, miscounted, stray>>

\* Best effort: a failed archive is logged and the request goes on.
ArchiveFails(q) ==
  /\ ppc[q] = "archive" /\ promoFaults < MaxPromoFaults
  /\ promoFaults' = promoFaults + 1
  /\ ppc' = [ppc EXCEPT ![q] = "close"]
  /\ stray' = stray \cup Touched(q)
  /\ UNCHANGED <<promoTables, ploc, promoOps, given, forgotten, wiped, miscounted, unrivalled>>

\* UPDATE ... is_active = 0, or DELETE, which takes the redemptions with it.
CloseCode(q) ==
  /\ ppc[q] = "close"
  /\ promo' = IF promo.state \notin {"active", "revoked"} THEN promo
              ELSE [promo EXCEPT !.state = IF ploc[q].flag THEN "deleted" ELSE "revoked"]
  /\ redemptions' = IF ploc[q].flag THEN {} ELSE redemptions
  /\ stray' = IF q \in unrivalled THEN stray ELSE stray \cup Touched(q)
  /\ PromoReturn(q)
  /\ UNCHANGED <<discounts, given, forgotten, miscounted>>

\* Only a revoked code; a percent-off one gets a fresh discount.
ReactivatePromoCode(q) ==
  \E max \in Caps \cup {Unlimited}, reset \in BOOLEAN :
    /\ promo.state = "revoked"
    /\ PromoBegin(q, IF PercentOff THEN "fresh_discount" ELSE "reset_usage",
                  [NoPromoLocal EXCEPT !.type = promo.type, !.max = max, !.flag = reset])

ResetUsage(q) ==
  /\ ppc[q] = "reset_usage"
  /\ IF ploc[q].flag
     THEN /\ redemptions' = {}
          /\ forgotten' = {ploc[r].account : r \in {s \in PromoProcs : Redeeming(s)}}
          /\ wiped' = {s \in PromoProcs : Redeeming(s) /\ ppc[s] # "claim"}
          /\ given' = [a \in Accounts |-> 0]
     ELSE UNCHANGED <<redemptions, forgotten, wiped, given>>
  /\ ppc' = [ppc EXCEPT ![q] = "reopen"]
  /\ UNCHANGED <<promo, discounts, ploc, promoOps, promoFaults, miscounted, unrivalled, stray>>

\* The terms are those the request decided on; expires_at is given anew.
ReopenCode(q) ==
  /\ ppc[q] = "reopen"
  /\ promo' = IF promo.state \notin {"active", "revoked"} THEN promo
              ELSE [promo EXCEPT !.state = "active", !.max = ploc[q].max, !.expired = FALSE,
                                 !.discount = ploc[q].discount,
                                 !.times = IF ploc[q].flag THEN 0 ELSE @]
  /\ miscounted' = (miscounted \/ (ploc[q].flag /\ q \notin unrivalled))
  /\ stray' = IF q \in unrivalled THEN stray ELSE stray \cup Touched(q)
  /\ PromoReturn(q)
  /\ UNCHANGED <<redemptions, discounts, given, forgotten>>

\* A query throws.  releaseRedemption swallows it (the slot stays consumed), the admin's
\* request is refused; what it made at the provider stays.
PromoFail(q) ==
  /\ ppc[q] # "idle" /\ ppc[q] \notin {"comp", "archive"} /\ promoFaults < MaxPromoFaults
  /\ promoFaults' = promoFaults + 1
  /\ ppc' = [ppc EXCEPT ![q] = "idle"] /\ ploc' = [ploc EXCEPT ![q] = NoPromoLocal]
  /\ unrivalled' = unrivalled \ {q} /\ wiped' = wiped \ {q}
  /\ stray' = IF Administering(q) THEN stray \cup Touched(q) ELSE stray
  /\ UNCHANGED <<promoTables, promoOps, given, forgotten, miscounted>>

-----------------------------------------------------------------------------
PromoRest == UNCHANGED <<discounts, ppc, ploc, promoOps, promoFaults, given, wiped,
                         miscounted, unrivalled, stray>>

ExpirePromo ==
  /\ promo.state = "active" /\ ~promo.expired
  /\ promo' = [promo EXCEPT !.expired = TRUE]
  /\ UNCHANGED <<redemptions, forgotten>> /\ PromoRest

\* ON DELETE CASCADE: the workspace a code was redeemed in is deleted.
DeleteTenant ==
  \E a \in redemptions :
    /\ redemptions' = redemptions \ {a} /\ forgotten' = forgotten \cup {a}
    /\ UNCHANGED promo /\ PromoRest

PromoNext ==
  \/ \E q \in PromoProcs :
       \/ RedeemPromo(q) \/ ClaimRedemption(q) \/ ClaimRefused(q)
       \/ CompAccount(q) \/ CompFails(q) \/ ReleaseRow(q) \/ ReleaseSlot(q)
       \/ CreatePromoCode(q) \/ MakeDiscount(q) \/ InsertPromo(q)
       \/ RevokePromoCode(q) \/ DeletePromoCode(q) \/ ArchiveDiscount(q) \/ ArchiveFails(q)
       \/ CloseCode(q) \/ ReactivatePromoCode(q) \/ ResetUsage(q) \/ ReopenCode(q)
       \/ PromoFail(q)
  \/ ExpirePromo \/ DeleteTenant

PromoSpec == PromoInit /\ [][PromoNext]_promoVars

-----------------------------------------------------------------------------
(* Properties.                                                              *)

\* "Only one of N concurrent callers can take the last slot" (redeemPromo.js): a new
\* redemption never brings the recorded ones above the cap in force, whatever claims,
\* releases, resets and new caps came before; excepted are usage resets by two admins at
\* once, and a slot given back for a claim that a reset had forgotten.
CapHeld ==
  [][redemptions' \subseteq redemptions \/ miscounted \/ promo.max = Unlimited
     \/ Cardinality(redemptions') <= promo.max]_promoVars

\* "One redemption per account, per promo code": no account is given the plan or the
\* discount twice, unless its record was wiped (usage reset, workspace deleted).
OncePerAccount == \A a \in Accounts \ forgotten : given[a] <= 1

\* A discount is active at the provider exactly while the code it backs is, or a request
\* at work is about to say so; a rival request or a failed step may leave one behind.
ProviderFollows ==
  \A d \in DiscountIds \ stray :
    (\A q \in PromoProcs : Administering(q) => ploc[q].discount # d)
      => (discounts[d] = "active" <=> promo.state = "active" /\ promo.discount = d)
=============================================================================
