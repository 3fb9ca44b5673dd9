------------------------------- MODULE Tenants ------------------------------
(***************************************************************************)
(* The tenants of the gateway, their keys and their books: authentication,  *)
(* the rate limiter, attribution, the budgets administrators set, reports   *)
(* and listings.  They share no state in the models: a step of one part     *)
(* leaves the others alone.                                                 *)
(***************************************************************************)
EXTENDS ApiKeys, RateLimiter, Attribution, BudgetStore, Reports, Listings

tenantsVars == <<keyVars, rateVars, attributionVars, budgetVars, reportVars, listingVars>>

TenantsInit ==
  KeyInit /\ RateInit /\ AttributionInit /\ BudgetInit /\ ReportInit /\ ListingInit

KeysAlone ==
  KeyNext /\ UNCHANGED <<rateVars, attributionVars, budgetVars, reportVars, listingVars>>

RateAlone ==
  RateNext /\ UNCHANGED <<keyVars, attributionVars, budgetVars, reportVars, listingVars>>

AttributionAlone ==
  AttributionNext /\ UNCHANGED <<keyVars, rateVars, budgetVars, reportVars, listingVars>>

BudgetsAlone ==
  BudgetNext /\ UNCHANGED <<keyVars, rateVars, attributionVars, reportVars, listingVars>>

ReportsAlone ==
  ReportNext /\ UNCHANGED <<keyVars, rateVars, attributionVars, budgetVars, listingVars>>

ListingsAlone ==
  ListingNext /\ UNCHANGED <<keyVars, rateVars, attributionVars, budgetVars, reportVars>>

\* Steps of the six parts in any order.
TenantsNext ==
  \/ KeysAlone \/ RateAlone \/ AttributionAlone
  \/ BudgetsAlone \/ ReportsAlone \/ ListingsAlone

TenantsSpec == TenantsInit /\ [][TenantsNext]_tenantsVars

\* The rows and handlers of every part keep their types and their references.
TypeOK ==
  /\ KeyTypeOK /\ RateTypeOK /\ AttributionTypeOK
  /\ BudgetTypeOK /\ ReportTypeOK /\ ListingTypeOK
=============================================================================
