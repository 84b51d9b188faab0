-------------------------- MODULE AssetTransitions --------------------------
(***************************************************************************)
(* The asset lifecycle registry of                                         *)
(* src/lib/redbook/registry/state-transitions.ts: from which states an     *)
(* event may be proposed, which state it leads to and which events must    *)
(* have been finalized before.  The terminal flag of ASSET_RETIRED is left *)
(* out: nothing reads it.                                                  *)
(***************************************************************************)
EXTENDS Sequences, SequencesExt

Rule(from, target, required) == [from |-> from, target |-> target, required |-> required]

\* States that several rules allow.
Delivery == {"REGISTERED", "PROCURED", "SHIPPED", "CUSTODY_TRANSFERRED"}
Service  == {"VERIFIED", "AUTHORIZED", "ENERGIZED", "MAINTAINED", "MODIFIED"}
Changed  == Service \cup {"INSTALLED", "COMMISSIONED", "REPAIRED"}
Live     == Delivery \cup Changed \cup {"RECEIVED", "INSPECTED", "TESTED", "REPLACED"}

Registered == {"ASSET_REGISTERED"}
Installed  == {"ASSET_INSTALLED"}

stateTransitionRegistry ==
    [ASSET_REGISTERED          |-> Rule({"UNREGISTERED"}, "REGISTERED", {}),
     ASSET_PROCURED            |-> Rule({"REGISTERED"}, "PROCURED", Registered),
     ASSET_SHIPPED             |-> Rule({"REGISTERED", "PROCURED"}, "SHIPPED", Registered),
     ASSET_CUSTODY_TRANSFERRED |->
        Rule({"REGISTERED", "PROCURED", "SHIPPED", "RECEIVED", "INSTALLED", "COMMISSIONED",
              "VERIFIED", "AUTHORIZED", "ENERGIZED"}, "CUSTODY_TRANSFERRED", Registered),
     ASSET_RECEIVED            |-> Rule(Delivery, "RECEIVED", Registered),
     ASSET_INSTALLED           |->
        Rule({"REGISTERED", "RECEIVED", "CUSTODY_TRANSFERRED"}, "INSTALLED", Registered),
     INSPECTION_COMPLETED      |-> Rule({"INSTALLED", "TESTED"}, "INSPECTED", Installed),
     TEST_PASSED               |-> Rule({"INSTALLED", "INSPECTED"}, "TESTED", Installed),
     COMMISSIONING_COMPLETED   |->
        Rule({"INSPECTED", "TESTED"}, "COMMISSIONED",
             {"ASSET_INSTALLED", "INSPECTION_COMPLETED", "TEST_PASSED"}),
     ASSET_VERIFIED            |->
        Rule({"COMMISSIONED"}, "VERIFIED", {"COMMISSIONING_COMPLETED"}),
     ENERGIZATION_AUTHORIZED   |->
        Rule({"COMMISSIONED", "VERIFIED"}, "AUTHORIZED", {"COMMISSIONING_COMPLETED"}),
     ASSET_ENERGIZED           |->
        Rule({"AUTHORIZED"}, "ENERGIZED", {"ENERGIZATION_AUTHORIZED"}),
     MAINTENANCE_COMPLETED     |-> Rule(Service \cup {"REPAIRED"}, "MAINTAINED", Registered),
     REPAIR_COMPLETED          |-> Rule(Service, "REPAIRED", Registered),
     CONFIGURATION_CHANGED     |-> Rule(Changed, "MODIFIED", Registered),
     ASSET_REPLACED            |-> Rule(Changed, "REPLACED", Registered),
     ASSET_RETIRED             |-> Rule(Live, "RETIRED", Registered)]

RuledEvents == DOMAIN stateTransitionRegistry

\* Variant: only the state is looked at.
TransitionFromState(event, current, finalized) ==
    event \in RuledEvents => current \in stateTransitionRegistry[event].from

\* validateStateTransition returns ok; an event without a rule may always follow.
TransitionOK(event, current, finalized) ==
    event \in RuledEvents =>
        /\ current \in stateTransitionRegistry[event].from
        /\ stateTransitionRegistry[event].required \subseteq finalized

\* deriveAssetLifecycleState: the target of the last event that has a rule.
DeriveState(history) ==
    FoldLeft(LAMBDA current, event : IF event \in RuledEvents
                                     THEN stateTransitionRegistry[event].target ELSE current,
             "UNREGISTERED", history)
=============================================================================
