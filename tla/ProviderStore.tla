---------------------------- MODULE ProviderStore ----------------------------
(***************************************************************************)
(* The credentials an organisation has for its providers: an upsert selects *)
(* the row of the provider and then updates it or inserts one, a removal    *)
(* selects a row by its id and deletes it.  Nothing makes a provider unique, *)
(* and a call takes whichever row of the provider comes first.              *)
(***************************************************************************)
EXTENDS Integers, FiniteSets

CONSTANTS
  Vendors,       \* the providers that may be configured
  Savers,        \* upserts and removals, each once; also the ids of new rows
  MaxSaverBusy   \* bound: how many of them run at the same time

ASSUME ProviderAssumption == MaxSaverBusy \in Nat

VARIABLES
  configs,   \* provider_configs rows; the key is the upsert that gave it
  save,      \* each handler: where it is, its provider, the row it found
  newest,    \* history: the key a provider has after the edits so far, if any
  apart      \* history: no two of the handlers overlapped

providerVars == <<configs, save, newest, apart>>

Config == [id : Savers, vendor : Vendors, key : Savers]

Saving == {s \in Savers : save[s].at \in {"select", "write", "remove"}}

Of(vendor) == {c \in configs : c.vendor = vendor}

-----------------------------------------------------------------------------
ProviderInit ==
  /\ configs = {}
  /\ save \in [Savers -> [at : {"new"}, vendor : Vendors, found : {{}}]]
  /\ newest = [v \in Vendors |-> {}]
  /\ apart = TRUE

Goes(s, at, found) ==
  save' = [save EXCEPT ![s].at = at, ![s].found = found]

\* upsert_provider_config has encrypted the key.
BeginUpsert(s) ==
  /\ save[s].at = "new" /\ Cardinality(Saving) < MaxSaverBusy
  /\ Goes(s, "select", {})
  /\ apart' = (apart /\ Saving = {})
  /\ UNCHANGED <<configs, newest>>

\* Mutant: the provider's row is not looked for.
SelectNothing(s) ==
  /\ save[s].at = "select"
  /\ Goes(s, "write", {})
  /\ UNCHANGED <<configs, newest, apart>>

\* The first row of the provider, in whatever order they come.
SelectConfig(s) ==
  /\ save[s].at = "select"
  /\ IF Of(save[s].vendor) = {} THEN Goes(s, "write", {})
     ELSE \E c \in Of(save[s].vendor) : Goes(s, "write", {c})
  /\ UNCHANGED <<configs, newest, apart>>

\* The found row gets the key, or a new row is inserted; the found row may be
\* gone, and then the UPDATE raises.
WriteConfig(s) ==
  /\ save[s].at = "write"
  /\ LET vendor == save[s].vendor
         found == {c \in configs : \E f \in save[s].found : f.id = c.id}
     IN  IF save[s].found # {} /\ found = {}
         THEN UNCHANGED <<configs, newest>>
         ELSE /\ configs' = (configs \ found) \cup
                   IF found = {} THEN {[id |-> s, vendor |-> vendor, key |-> s]}
                   ELSE {[c EXCEPT !.key = s] : c \in found}
              /\ newest' = [newest EXCEPT ![vendor] = {s}]
  /\ Goes(s, "done", {})
  /\ UNCHANGED apart

\* delete_provider_config selects the row by the id it is given (404 if none).
BeginRemove(s) ==
  /\ save[s].at = "new" /\ Cardinality(Saving) < MaxSaverBusy
  /\ \E c \in Of(save[s].vendor) : Goes(s, "remove", {c})
  /\ apart' = (apart /\ Saving = {})
  /\ UNCHANGED <<configs, newest>>

RemoveConfig(s) ==
  /\ save[s].at = "remove"
  /\ configs' = {c \in configs : \A f \in save[s].found : f.id # c.id}
  /\ newest' = [newest EXCEPT ![save[s].vendor] = {}]
  /\ Goes(s, "done", {})
  /\ UNCHANGED apart

ProviderNext ==
  \E s \in Savers :
    \/ BeginUpsert(s) \/ SelectConfig(s) \/ WriteConfig(s)
    \/ BeginRemove(s) \/ RemoveConfig(s)

ProviderSpec == ProviderInit /\ [][ProviderNext]_providerVars

-----------------------------------------------------------------------------
\* An upsert finds at most one credential of its vendor.
ProviderTypeOK ==
  /\ configs \subseteq Config
  /\ \A s \in Savers :
       /\ save[s].at \in {"new", "select", "write", "remove", "done"}
       /\ save[s].found \subseteq Config /\ Cardinality(save[s].found) <= 1
  /\ newest \in [Vendors -> SUBSET Savers]
  /\ apart \in BOOLEAN

\* As long as no two edits overlapped, a call can only pick the key given last:
\* a replaced or removed credential is never used again.
ReplacedKeyIsGone ==
  apart => \A v \in Vendors : {c.key : c \in Of(v)} = newest[v]
=============================================================================
