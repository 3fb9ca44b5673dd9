------------------------------ MODULE Settings ------------------------------
(***************************************************************************)
(* The settings of an organisation: its security policy, its routing rules  *)
(* and its provider credentials.  They are served by routers of one process *)
(* and share no state: a step of one part leaves the others alone.          *)
(***************************************************************************)
EXTENDS PolicyStore, RouteStore, ProviderStore

settingsVars == <<policyVars, routeVars, providerVars>>

SettingsInit == PolicyInit /\ RouteInit /\ ProviderInit

PolicyAlone == PolicyNext /\ UNCHANGED <<routeVars, providerVars>>

RoutesAlone == RouteNext /\ UNCHANGED <<policyVars, providerVars>>

ProvidersAlone == ProviderNext /\ UNCHANGED <<policyVars, routeVars>>

\* Steps of the three parts in any order.
SettingsNext == PolicyAlone \/ RoutesAlone \/ ProvidersAlone

SettingsSpec == SettingsInit /\ [][SettingsNext]_settingsVars

\* The rows, copies and handlers of the three parts keep their types.
TypeOK == PolicyTypeOK /\ RouteTypeOK /\ ProviderTypeOK
=============================================================================
