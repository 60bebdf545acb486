------------------------------- MODULE Offers -------------------------------
(***************************************************************************)
(* The offers of one plan and interval: the rows of `offers`, newest last, *)
(* and the discounts that make the payment provider bill their price.      *)
(* Prices are in cents.  A request is a process of OfferProcs, each awaited *)
(* query or provider call one atomic step of it.  The customer is two      *)
(* reads: the price the pricing page shows and the offer checkout applies. *)
(*                                                                         *)
(* Left out as data: labels, how long a buyer keeps the price, and that    *)
(* created_at has no more than a second's resolution.                      *)
(***************************************************************************)
EXTENDS Integers, FiniteSets

CONSTANTS
  OfferProcs,       \* concurrently running admin requests
  OfferIds,         \* a set 1..n: AUTO_INCREMENT ids, in the order of created_at
  ListPrice,        \* consts/plans.js, in cents
  OfferPrices,      \* prices an admin may ask for, in cents
  MaxOfferOps,      \* bound: requests
  MaxOfferFaults    \* bound: failed queries and calls

ASSUME OfferConstantsOK ==
  /\ OfferIds \subseteq Nat /\ IsFiniteSet(OfferIds)
  /\ ListPrice \in Nat \ {0} /\ OfferPrices \subseteq Nat
  /\ MaxOfferOps \in Nat /\ MaxOfferFaults \in Nat

VARIABLES
  offers,           \* the rows
  amountOff,        \* at the provider: the amount each row's discount takes off
  opc, oloc,        \* per process: next step, and what it knows by then
  offerOps, offerFaults,
  \* History, for the properties only:
  twins,            \* two offers were being created at once; no lone one since
  dimmed            \* rows whose discount was archived but that may still be shown

offerTables  == <<offers, amountOff>>
offerHistory == <<twins, dimmed>>
offerVars    == <<offerTables, opc, oloc, offerOps, offerFaults, offerHistory>>

-----------------------------------------------------------------------------
\* amountOff of a discount that is not there, and of one archived.
NoAmount == 0

NoOffer == [state |-> "none", price |-> 0, backed |-> FALSE, window |-> "open"]
Windows == {"early", "open", "over"}
OfferRow == [state : {"none", "on", "off"}, price : OfferPrices \cup {0}, backed : BOOLEAN,
             window : Windows]

\* What a request knows: the row it is about, and the price, window and discount of the
\* one it makes.
OfferLocal == [row : OfferIds \cup {0}, price : OfferPrices \cup {0}, window : Windows,
               off : Nat]
NoOfferLocal == [row |-> 0, price |-> 0, window |-> "open", off |-> NoAmount]

CreateSteps == {"discount", "others", "insert"}

OfferTypeOK ==
  /\ offers \in [OfferIds -> OfferRow] /\ amountOff \in [OfferIds -> Nat]
  /\ opc \in [OfferProcs -> CreateSteps \cup {"archive", "off", "idle"}]
  /\ oloc \in [OfferProcs -> OfferLocal]
  /\ offerOps \in Nat /\ offerFaults \in Nat
  /\ twins \in BOOLEAN /\ dimmed \subseteq OfferIds
  /\ \A i \in OfferIds : amountOff[i] # NoAmount => offers[i].backed

OfferInit ==
  /\ offers = [i \in OfferIds |-> NoOffer] /\ amountOff = [i \in OfferIds |-> NoAmount]
  /\ opc = [q \in OfferProcs |-> "idle"] /\ oloc = [q \in OfferProcs |-> NoOfferLocal]
  /\ offerOps = 0 /\ offerFaults = 0 /\ twins = FALSE /\ dimmed = {}

-----------------------------------------------------------------------------
(* What the customer is shown and billed.                                   *)

\* ACTIVE_WHERE.
InForce == {i \in OfferIds : offers[i].state = "on" /\ offers[i].window = "open"}
Newest(S) == CHOOSE i \in S : \A j \in S : j <= i

\* Mutant: whatever is in force is advertised.
MutHonourable == InForce

\* isHonourable: the row names a discount of the active provider.
Honourable == {i \in InForce : offers[i].backed}

\* getActiveOffers skips what it cannot honour and keeps the newest of the rest.
ShownPrice == IF Honourable = {} THEN ListPrice ELSE offers[Newest(Honourable)].price

\* getActiveOfferForPlanInterval takes the newest in force, and checkout applies the
\* discount it names, if it names one.
BilledPrice ==
  IF InForce = {} THEN ListPrice ELSE ListPrice - amountOff[Newest(InForce)]

-----------------------------------------------------------------------------
CreatingOffer(q) == opc[q] \in CreateSteps

OfferBegin(q, step, l) ==
  /\ opc[q] = "idle" /\ offerOps < MaxOfferOps /\ offerOps' = offerOps + 1
  /\ opc' = [opc EXCEPT ![q] = step] /\ oloc' = [oloc EXCEPT ![q] = l]
  /\ UNCHANGED <<offerTables, offerFaults>>

OfferGoto(q, step) ==
  opc' = [opc EXCEPT ![q] = step] /\ UNCHANGED <<offerOps, offerFaults>>

OfferFault == offerFaults < MaxOfferFaults /\ offerFaults' = offerFaults + 1

\* The whole per cent off the list price, rounded to nearest, must be in 1..100.
PercentOffPrice(price) == (200 * (ListPrice - price) + ListPrice) \div (2 * ListPrice)

CreateOffer(q) ==
  \E price \in OfferPrices, w \in Windows \ {"over"} :
    /\ price > 0 /\ price < ListPrice /\ PercentOffPrice(price) \in 1..100
    /\ OfferBegin(q, "discount", [NoOfferLocal EXCEPT !.price = price, !.window = w])
    /\ twins' = (twins \/ \E r \in OfferProcs : CreatingOffer(r))
    /\ UNCHANGED dimmed

\* createPaddleOfferDiscount, or the Stripe coupon: a flat amount, to bill exactly.
BackOffer(q) ==
  /\ opc[q] = "discount"
  /\ oloc' = [oloc EXCEPT ![q].off = ListPrice - oloc[q].price]
  /\ OfferGoto(q, "others")
  /\ UNCHANGED <<offerTables, offerHistory>>

\* "Non-fatal: the offer still records."
BackOfferFails(q) ==
  /\ opc[q] = "discount" /\ OfferFault
  /\ opc' = [opc EXCEPT ![q] = "others"]
  /\ UNCHANGED <<offerTables, oloc, offerOps, offerHistory>>

\* Mutant: the offers in force stay so.
MutDeactivateOthers(q) ==
  /\ opc[q] = "others" /\ OfferGoto(q, "insert")
  /\ twins' = (twins /\ \E r \in OfferProcs \ {q} : CreatingOffer(r))
  /\ UNCHANGED <<offerTables, oloc, dimmed>>

\* Their discounts stay active at the provider.
DeactivateOthers(q) ==
  /\ opc[q] = "others"
  /\ offers' = [i \in OfferIds |->
                  IF offers[i].state = "on" THEN [offers[i] EXCEPT !.state = "off"]
                  ELSE offers[i]]
  /\ twins' = (twins /\ \E r \in OfferProcs \ {q} : CreatingOffer(r))
  /\ OfferGoto(q, "insert")
  /\ UNCHANGED <<amountOff, oloc, dimmed>>

InsertOffer(q) ==
  LET l == oloc[q] IN
  /\ opc[q] = "insert"
  /\ \E i \in OfferIds :
       /\ offers[i].state = "none" /\ \A j \in OfferIds : j < i => offers[j].state # "none"
       /\ offers' = [offers EXCEPT ![i] = [state |-> "on", price |-> l.price,
                                           backed |-> l.off # NoAmount, window |-> l.window]]
       /\ amountOff' = [amountOff EXCEPT ![i] = l.off]
  /\ OfferGoto(q, "idle") /\ oloc' = [oloc EXCEPT ![q] = NoOfferLocal]
  /\ UNCHANGED offerHistory

DeactivateOffer(q) ==
  \E i \in OfferIds :
    /\ offers[i].state # "none"
    /\ OfferBegin(q, "archive", [NoOfferLocal EXCEPT !.row = i])
    /\ UNCHANGED offerHistory

\* From here until the UPDATE the row promises what the provider no longer gives.
ArchiveOfferDiscount(q) ==
  LET i == oloc[q].row IN
  /\ opc[q] = "archive"
  /\ amountOff' = [amountOff EXCEPT ![i] = NoAmount]
  /\ dimmed' = dimmed \cup {i}
  /\ OfferGoto(q, "off")
  /\ UNCHANGED <<offers, oloc, twins>>

ArchiveOfferFails(q) ==
  /\ opc[q] = "archive" /\ OfferFault
  /\ opc' = [opc EXCEPT ![q] = "off"]
  /\ UNCHANGED <<offerTables, oloc, offerOps, offerHistory>>

SwitchOff(q) ==
  LET i == oloc[q].row IN
  /\ opc[q] = "off"
  /\ offers' = [offers EXCEPT ![i].state = "off"]
  /\ dimmed' = dimmed \ {i}
  /\ OfferGoto(q, "idle") /\ oloc' = [oloc EXCEPT ![q] = NoOfferLocal]
  /\ UNCHANGED <<amountOff, twins>>

\* A query throws: what was done at the provider stays.
OfferFail(q) ==
  /\ opc[q] \in {"others", "insert", "off"} /\ OfferFault
  /\ opc' = [opc EXCEPT ![q] = "idle"] /\ oloc' = [oloc EXCEPT ![q] = NoOfferLocal]
  /\ UNCHANGED <<offerTables, offerOps, offerHistory>>

\* starts_at passes, and then ends_at.
WindowMoves ==
  \E i \in OfferIds :
    /\ offers[i].state # "none" /\ offers[i].window # "over"
    /\ offers' = [offers EXCEPT ![i].window = IF @ = "early" THEN "open" ELSE "over"]
    /\ UNCHANGED <<amountOff, opc, oloc, offerOps, offerFaults, offerHistory>>

OfferNext ==
  \/ \E q \in OfferProcs :
       \/ CreateOffer(q) \/ BackOffer(q) \/ BackOfferFails(q) \/ DeactivateOthers(q)
       \/ InsertOffer(q)
       \/ DeactivateOffer(q) \/ ArchiveOfferDiscount(q) \/ ArchiveOfferFails(q)
       \/ SwitchOff(q) \/ OfferFail(q)
  \/ WindowMoves

OfferSpec == OfferInit /\ [][OfferNext]_offerVars

-----------------------------------------------------------------------------
(* Properties.                                                              *)

\* "NEVER SHOW AN OFFER WE CANNOT CHARGE" (offers.js): what the pricing page shows is
\* what checkout bills, although one hides offers without a discount and the other only
\* looks at the newest.  Excepted are two offers created at once, and a row whose
\* discount is archived until (or unless) its deactivation is recorded.
ShownIsBilled == twins \/ InForce \cap dimmed # {} \/ ShownPrice = BilledPrice

\* "Only one active offer per (plan, interval)" (admin/offers.js), though the others are
\* deactivated in a query of its own, whatever fails and whatever is not yet on sale.
OneActiveOffer ==
  twins \/ Cardinality({i \in OfferIds : offers[i].state = "on"}) <= 1
=============================================================================
