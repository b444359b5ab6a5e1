----------------------------- MODULE MCBackOffice -----------------------------
(***************************************************************************)
(* Small instances for TLC of six parts of the system that share no state: *)
(* housekeeping, the agents, the channels, the overrides of rates, the     *)
(* administration, and the screens of the dashboard.  One behaviour runs   *)
(* one of them, named by part, and leaves the others as they are; in one   *)
(* part nothing runs, and the rules that keep no state are asked all of    *)
(* their questions.                                                        *)
(***************************************************************************)
EXTENDS TLC, Housekeeping, Agents, ChannelSync, RateParity, PropertyAdmin, LiveDesks, RuleBook,
        MCNightRules, MCSalesRules, MCAgentRules

\* A rate ten percent up, or of nothing.
TwoAdjustments == {[type |-> "percentage", value |-> 10], [type |-> "fixed", value |-> 0]}

\* What the rules are asked besides: rooms of a property, prices, limits of a page.
Sizes == {0, 2, 100}
SomeAmounts == {-500, 101}
SomeLimits == {-1, 0, 1, 2, 3, 101}

backOfficeVars == <<part, hkVars, agVars, csVars, rpVars, paVars, ldVars>>

\* A part that does not run stays in one of its initial states.
Init ==
  /\ part \in {"housekeeping", "agents", "channels", "parity", "admin", "desks", "rules"}
  /\ HKInit /\ (part = "housekeeping" \/ (requireInspection /\ \A r \in Rooms : room[r] = "occupied"))
  /\ AGInit /\ (part = "agents" \/ \A a \in AgentTypes : ~setup[a].enabled)
  /\ CSInit /\ RPInit
  /\ PAInit /\ (part = "admin" \/ (config.key /\ config.url))
  /\ LDInit /\ (part = "desks" \/ (auth /\ \A r \in Bookings : statusLog[r] = <<"pending">>))

Next ==
  \/ part = "housekeeping" /\ HKNext /\ UNCHANGED <<part, agVars, csVars, rpVars, paVars, ldVars>>
  \/ part = "agents" /\ AGNext /\ UNCHANGED <<part, hkVars, csVars, rpVars, paVars, ldVars>>
  \/ part = "channels" /\ CSNext /\ UNCHANGED <<part, hkVars, agVars, rpVars, paVars, ldVars>>
  \/ part = "parity" /\ RPNext /\ UNCHANGED <<part, hkVars, agVars, csVars, paVars, ldVars>>
  \/ part = "admin" /\ PANext /\ UNCHANGED <<part, hkVars, agVars, csVars, rpVars, ldVars>>
  \/ part = "desks" /\ LDNext /\ UNCHANGED <<part, hkVars, agVars, csVars, rpVars, paVars>>

Spec == Init /\ [][Next]_backOfficeVars

Symmetry ==
  Permutations(Tasks) \cup Permutations(Requests)
=============================================================================
