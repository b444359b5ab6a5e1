----------------------------- MODULE PropertyAdmin -----------------------------
(***************************************************************************)
(* The administration of a property: its activation from the control       *)
(* panel, with the taxes of its country and the subscription of the event  *)
(* bus, the payment providers in its settings, and the profile of a guest, *)
(* which may be erased.  No request runs in a transaction: each of its     *)
(* statements is a step, any of them may throw, and the process may stop.  *)
(***************************************************************************)
EXTENDS Naturals, Sequences, FiniteSets

CONSTANTS
  Admins,       \* requests that may be in progress at once
  Countries,    \* countries a property may be in
  Presets,      \* those that have a tax preset
  PresetRules,  \* how many rules a preset has
  Providers,    \* payment providers with a secret
  MaxRequests,  \* bound on requests
  MaxFaults     \* bound on statements that throw and on restarts

ASSUME AdminAssumption ==
  /\ IsFiniteSet(Admins)
  /\ Presets \subseteq Countries
  /\ PresetRules \in Nat \ {0}
  /\ MaxRequests \in Nat /\ MaxFaults \in Nat

VARIABLES
  tenant,    \* the property with the external id: none, active or inactive
  profiles,  \* its tax profiles in the order of their insertion: [country, rules]
  bus,       \* the subscriptions of the event bus: whether each is active
  settings,  \* settings.paymentProviders
  config,    \* whether the process has a key to seal secrets with and the URL of an event bus
  guest,     \* a guest of the property: [isDeleted, name, consent, consentDate]
  erasures,  \* rows of the audit log that say so
  run,       \* the requests in progress
  requests,  \* requests so far
  faults,    \* faults so far
  past       \* history, for the properties only

rows == <<tenant, profiles, bus, settings, guest, erasures>>

paVars == <<rows, config, run, requests, faults, past>>

IdleRequest == [op |-> "idle", at |-> "idle"]

NoSecret == [value |-> "", sealed |-> FALSE]

PAInit ==
  /\ tenant = "none"
  /\ profiles = <<>> /\ bus = <<>>
  /\ settings = [p \in Providers |-> [enabled |-> FALSE, secret |-> NoSecret]]
  /\ config \in [key : BOOLEAN, url : BOOLEAN]
  /\ guest = [isDeleted |-> FALSE, name |-> "Ann", consent |-> FALSE, consentDate |-> FALSE]
  /\ erasures = 0
  /\ run = [w \in Admins |-> IdleRequest]
  /\ requests = 0 /\ faults = 0
  /\ past = [torn |-> {}, answered |-> {}, saved |-> settings, reverted |-> FALSE, unsealed |-> {},
             late |-> {}, rewritten |-> FALSE]

BeginRequest(w, r) ==
  /\ run[w] = IdleRequest /\ requests < MaxRequests
  /\ run' = [run EXCEPT ![w] = r]
  /\ requests' = requests + 1
  /\ UNCHANGED <<rows, config, faults, past>>

Step(w, at) == run[w].at = at

Go(w, r) == run' = [run EXCEPT ![w] = r] /\ UNCHANGED <<config, requests, faults>>

EndRequest(w) == Go(w, IdleRequest)

-----------------------------------------------------------------------------
(* Activation.                                                             *)

\* provision: the country may differ from the last time; taxes may be declined.
Provision(w) ==
  \E c \in Countries, taxes \in BOOLEAN :
    BeginRequest(w, [op |-> "provision", at |-> "property", country |-> c, taxes |-> taxes, found |-> FALSE, row |-> 0])

FindTenant(w) ==
  /\ Step(w, "property")
  /\ Go(w, [run[w] EXCEPT !.at = "save", !.found = tenant # "none"])
  /\ UNCHANGED <<rows, past>>

AfterSave(r) == IF r.taxes /\ r.country \in Presets THEN "taxes" ELSE "bus"

\* The external id is unique: a second insert throws.
SaveTenant(w) ==
  /\ Step(w, "save")
  /\ IF run[w].found \/ tenant = "none"
     THEN tenant' = "active" /\ Go(w, [run[w] EXCEPT !.at = AfterSave(run[w])])
     ELSE EndRequest(w) /\ UNCHANGED tenant
  /\ UNCHANGED <<profiles, bus, settings, guest, erasures, past>>

ProfilesOf(c) == {i \in DOMAIN profiles : profiles[i].country = c}

\* applyTaxDefaultsIfMissing: a profile that is there is taken as it is.
FindProfile(w) ==
  /\ Step(w, "taxes")
  /\ Go(w, [run[w] EXCEPT !.at = IF ProfilesOf(run[w].country) = {} THEN "profile" ELSE "bus"])
  /\ UNCHANGED <<rows, past>>

\* Mutant: the profile is taken for one with its rules.
InsertProfileOnly(w) ==
  /\ Step(w, "profile")
  /\ profiles' = Append(profiles, [country |-> run[w].country, rules |-> 0])
  /\ Go(w, [run[w] EXCEPT !.at = "bus"])
  /\ UNCHANGED <<tenant, bus, settings, guest, erasures, past>>

InsertProfile(w) ==
  /\ Step(w, "profile")
  /\ profiles' = Append(profiles, [country |-> run[w].country, rules |-> 0])
  /\ Go(w, [run[w] EXCEPT !.at = "rule", !.row = Len(profiles')])
  /\ UNCHANGED <<tenant, bus, settings, guest, erasures, past>>

InsertRule(w) ==
  LET n == profiles[run[w].row].rules + 1
  IN /\ Step(w, "rule")
     /\ profiles' = [profiles EXCEPT ![run[w].row].rules = n]
     /\ Go(w, [run[w] EXCEPT !.at = IF n = PresetRules THEN "bus" ELSE "rule"])
     /\ UNCHANGED <<tenant, bus, settings, guest, erasures, past>>

\* The answer of an activation: the taxes asked for are there.
Answered(r) == past' = [past EXCEPT !.answered = IF r.taxes THEN @ \cup {r.country} ELSE @]

\* bindPpgEventBusIfConfigured; without a URL nothing is looked up.
FindBus(w) ==
  /\ Step(w, "bus")
  /\ IF config.url
     THEN Go(w, [run[w] EXCEPT !.at = "bind", !.found = bus # <<>>]) /\ UNCHANGED past
     ELSE EndRequest(w) /\ Answered(run[w])
  /\ UNCHANGED rows

\* One that is there, the first that is found, is made active again.
SaveBus(w) ==
  /\ Step(w, "bind")
  /\ \/ /\ run[w].found
        /\ \E i \in DOMAIN bus : bus' = [bus EXCEPT ![i] = TRUE]
     \/ ~run[w].found /\ bus' = Append(bus, TRUE)
  /\ EndRequest(w)
  /\ Answered(run[w])
  /\ UNCHANGED <<tenant, profiles, settings, guest, erasures>>

\* deactivate, which activates too; it reads the row first, which is never deleted.
SetActive(active) ==
  /\ tenant # "none"
  /\ requests < MaxRequests /\ requests' = requests + 1
  /\ tenant' = IF active THEN "active" ELSE "inactive"
  /\ UNCHANGED <<profiles, bus, settings, guest, erasures, config, run, faults, past>>

\* deleteSubscription of the Connect API.
DeleteSubscription ==
  /\ requests < MaxRequests /\ requests' = requests + 1
  /\ \E i \in DOMAIN bus : bus' = [bus EXCEPT ![i] = FALSE]
  /\ UNCHANGED <<tenant, profiles, settings, guest, erasures, config, run, faults, past>>

-----------------------------------------------------------------------------
(* Payment providers.                                                      *)

\* encrypt: without a key a secret stays as it is.
Seal(value) == [value |-> value, sealed |-> config.key]

\* getProviders shows a secret as stars; a form that is sent back holds them.
SentSecrets == {"", "secret", "***"}

\* upsertProviderConfig reads the settings, ...
Upsert(w) ==
  \E p \in Providers, enabled \in BOOLEAN, secret \in SentSecrets :
    /\ run[w] = IdleRequest /\ requests < MaxRequests /\ tenant # "none"
    /\ run' = [run EXCEPT ![w] = [op |-> "upsert", at |-> "settings", provider |-> p, enabled |-> enabled,
                                  secret |-> secret, read |-> settings]]
    /\ requests' = requests + 1
    /\ UNCHANGED <<rows, config, faults, past>>

\* Mutant: what is not sent is not kept.
MergedAnew(r) ==
  [r.read EXCEPT ![r.provider] = [enabled |-> r.enabled, secret |-> IF r.secret = "" THEN NoSecret ELSE Seal(r.secret)]]

Merged(r) ==
  [r.read EXCEPT ![r.provider].enabled = r.enabled,
                 ![r.provider].secret = IF r.secret = "" THEN @ ELSE Seal(r.secret)]

\* ... and writes all of them.
SaveSettings(w) ==
  LET r == run[w]
  IN /\ Step(w, "settings")
     /\ settings' = Merged(r)
     /\ EndRequest(w)
     /\ past' = [past EXCEPT !.saved[r.provider] = [enabled |-> r.enabled,
                                                    secret |-> IF r.secret = "" THEN @.secret ELSE Seal(r.secret)],
                             !.reverted = @ \/ r.read # settings,
                             !.unsealed = IF r.secret = "" \/ config.key THEN @ ELSE @ \cup {r.provider}]
     /\ UNCHANGED <<tenant, profiles, bus, guest, erasures>>

\* getInstapayConfig and decrypt: what a gateway is given, "none" if it throws.
SecretFor(p) ==
  IF ~settings[p].enabled \/ settings[p].secret.value = "" \/ (settings[p].secret.sealed /\ ~config.key) THEN "none"
  ELSE settings[p].secret.value

-----------------------------------------------------------------------------
(* Guests.                                                                 *)

\* update: finds the guest, with its isDeleted, ...
UpdateGuest(w) ==
  \E name \in {"Ann", "Bea"}, consent \in {"unsaid", "yes", "no"} :
    BeginRequest(w, [op |-> "update", at |-> "guest", name |-> name, consent |-> consent])

\* Mutant: an erased guest is found.
FindAnyGuest(w) ==
  /\ Step(w, "guest")
  /\ Go(w, [run[w] EXCEPT !.at = "write"])
  /\ UNCHANGED <<rows, past>>

FindGuest(w) ==
  /\ Step(w, "guest")
  /\ IF guest.isDeleted THEN EndRequest(w) ELSE Go(w, [run[w] EXCEPT !.at = "write"])
  /\ UNCHANGED <<rows, past>>

\* ... and writes by id.
WriteGuest(w) ==
  LET r == run[w]
      said == r.consent # "unsaid"
  IN /\ Step(w, "write")
     /\ guest' = [guest EXCEPT !.name = r.name,
                               !.consent = IF said THEN r.consent = "yes" ELSE @,
                               !.consentDate = IF said THEN r.consent = "yes" ELSE @]
     /\ past' = [past EXCEPT !.rewritten = @ \/ w \in past.late, !.late = @ \ {w}]
     /\ EndRequest(w)
     /\ UNCHANGED <<tenant, profiles, bus, settings, erasures>>

\* modify of the Connect API writes the name without looking at the guest.
ConnectModify(name) ==
  /\ requests < MaxRequests /\ requests' = requests + 1
  /\ guest' = [guest EXCEPT !.name = name]
  /\ past' = [past EXCEPT !.rewritten = @ \/ guest.isDeleted]
  /\ UNCHANGED <<tenant, profiles, bus, settings, erasures, config, run, faults>>

\* delete: anonymises the guest, erased before or not, ...
Erase(w) == BeginRequest(w, [op |-> "erase", at |-> "erase"])

Anonymise(w) ==
  /\ Step(w, "erase")
  /\ guest' = [isDeleted |-> TRUE, name |-> "Deleted", consent |-> FALSE, consentDate |-> FALSE]
  /\ past' = [past EXCEPT !.late = {v \in Admins : Step(v, "write")}, !.rewritten = FALSE]
  /\ Go(w, [run[w] EXCEPT !.at = "log"])
  /\ UNCHANGED <<tenant, profiles, bus, settings, erasures>>

\* ... and says so in the audit log.
LogErasure(w) ==
  /\ Step(w, "log")
  /\ erasures' = erasures + 1
  /\ EndRequest(w)
  /\ UNCHANGED <<tenant, profiles, bus, settings, guest, past>>

-----------------------------------------------------------------------------

\* What stops leaves what it has written: a profile without all of its rules.
Torn(stopped) == {run[w].country : w \in {v \in stopped : Step(v, "rule")}}

\* A statement throws: the request ends.
Fault(w) ==
  /\ faults < MaxFaults /\ faults' = faults + 1
  /\ run[w] # IdleRequest
  /\ run' = [run EXCEPT ![w] = IdleRequest]
  /\ past' = [past EXCEPT !.torn = @ \cup Torn({w}), !.late = @ \ {w}]
  /\ UNCHANGED <<rows, config, requests>>

\* The process stops and is started again, with the configuration it is given then.
Restart ==
  /\ faults < MaxFaults /\ faults' = faults + 1
  /\ run' = [w \in Admins |-> IdleRequest]
  /\ config' \in [key : BOOLEAN, url : BOOLEAN]
  /\ past' = [past EXCEPT !.torn = @ \cup Torn(Admins), !.late = {}]
  /\ UNCHANGED <<rows, requests>>

PANext ==
  \/ \E w \in Admins :
       \/ Provision(w) \/ FindTenant(w) \/ SaveTenant(w) \/ FindProfile(w) \/ InsertProfile(w) \/ InsertRule(w)
       \/ FindBus(w) \/ SaveBus(w) \/ Upsert(w) \/ SaveSettings(w)
       \/ UpdateGuest(w) \/ FindGuest(w) \/ WriteGuest(w) \/ Erase(w) \/ Anonymise(w) \/ LogErasure(w)
       \/ Fault(w)
  \/ \E active \in BOOLEAN : SetActive(active)
  \/ DeleteSubscription
  \/ ConnectModify("Bea")
  \/ Restart

PASpec == PAInit /\ [][PANext]_paVars

-----------------------------------------------------------------------------
(* Properties.                                                             *)

\* After an activation has been answered its country has a tax profile with all of its
\* rules, unless one broke off between the profile and its last rule, which no later
\* activation makes good, or is still at it.  Profiles and subscriptions double only as far as
\* requests ran side by side.
TaxesAreApplied ==
  /\ \A c \in Presets \cap past.answered :
       \/ \E i \in ProfilesOf(c) : profiles[i].rules = PresetRules
       \/ c \in past.torn
       \/ \E w \in Admins : Step(w, "rule") /\ run[w].country = c
  /\ \A c \in Presets : Cardinality(ProfilesOf(c)) <= Cardinality(Admins)
  /\ Len(bus) <= Cardinality(Admins)

\* The settings are what was saved last of each provider, unless a request wrote over
\* what another had saved since it read; a secret is in the clear only if it was set
\* while there was no key, and a gateway is given the one that was set last, or none.
SettingsAreKept ==
  /\ past.reverted \/ settings = past.saved
  /\ \A p \in Providers :
       /\ settings[p].secret.value # "" => settings[p].secret.sealed \/ p \in past.unsealed
       /\ past.reverted \/ SecretFor(p) \in {"none", past.saved[p].secret.value}

\* An erased guest stays without name and consent, unless a request wrote that had found
\* the guest before, or the Connect API, which does not look; the erasure is in the
\* audit log, unless it broke off before; and a consent has its date.
ErasureHolds ==
  /\ guest.isDeleted /\ ~past.rewritten => guest.name = "Deleted" /\ ~guest.consent
  /\ guest.isDeleted /\ erasures = 0 => faults > 0 \/ \E w \in Admins : Step(w, "log")
  /\ guest.consent <=> guest.consentDate
=============================================================================
