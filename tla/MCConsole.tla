------------------------------ MODULE MCConsole ------------------------------
(***************************************************************************)
(* What the operator's console and a workspace's settings act on.  The     *)
(* parts share no state here: a behaviour is of one of them, the variables *)
(* of the others at rest.                                                  *)
(***************************************************************************)
EXTENDS Promo, Offers, TenantCache, Admins, Support, TLC

VARIABLE part

Ids == 1..3
vars == <<part, promoVars, offerVars, portalVars, adminVars, supportVars>>

\* One workspace, t, has its portal, at k: which ones is all the same.
Settled(t, k) ==
  \A u \in Tenants : tenants[u].sub = IF u = t THEN k ELSE NoSubdomain

Init ==
  /\ part \in {"promo", "offers", "portal", "admins", "support"}
  /\ PromoInit /\ OfferInit /\ PortalInit /\ AdminInit /\ SupportInit
  /\ IF part = "portal" THEN Settled(CHOOSE t \in Tenants : TRUE, CHOOSE k \in Subdomains : TRUE)
     ELSE \A t \in Tenants : tenants[t].sub = NoSubdomain

Next ==
  /\ UNCHANGED part
  /\ \/ /\ part = "promo" /\ PromoNext
        /\ UNCHANGED <<offerVars, portalVars, adminVars, supportVars>>
     \/ /\ part = "offers" /\ OfferNext
        /\ UNCHANGED <<promoVars, portalVars, adminVars, supportVars>>
     \/ /\ part = "portal" /\ PortalNext
        /\ UNCHANGED <<promoVars, offerVars, adminVars, supportVars>>
     \/ /\ part = "admins" /\ AdminNext
        /\ UNCHANGED <<promoVars, offerVars, portalVars, supportVars>>
     \/ /\ part = "support" /\ SupportNext
        /\ UNCHANGED <<promoVars, offerVars, portalVars, adminVars>>

Spec == Init /\ [][Next]_vars

\* Types of the part that runs.
ConsoleTypeOK ==
  /\ part = "promo" => PromoTypeOK
  /\ part = "offers" => OfferTypeOK
  /\ part = "portal" => PortalTypeOK
  /\ part = "admins" => AdminTypeOK
  /\ part = "support" => SupportTypeOK

\* The processes of all parts are the same model values: one permutation serves each part.
Symmetry == Permutations(PromoProcs) \cup Permutations(Accounts) \cup Permutations(DiscountIds)
=============================================================================
