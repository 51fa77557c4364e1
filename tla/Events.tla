------------------------------- MODULE Events -------------------------------
(***************************************************************************)
(* The event table of selfdrived: every onroad event is tagged with the    *)
(* event types (ET) that say what it does to an engagement.  A state       *)
(* machine only ever asks whether some event of a given type is present.   *)
(*                                                                         *)
(* Events that have the same types and that no code treats by name are     *)
(* represented by one name:                                                *)
(*   doorOpen      doorOpen and seatbeltNotLatched                         *)
(*   cruiseDisabled  cruiseDisabled and speedTooLow                        *)
(*   systemSoft    overheat, commIssue, processNotRunning, ... (soft)      *)
(*   systemFault   steerUnavailable, relayMalfunction, ... (immediate)     *)
(*   systemBlock   tooDistracted, outOfSpace, ... (no entry only)          *)
(***************************************************************************)
EXTENDS Naturals

ET == {"enable", "preEnable", "overrideLateral", "overrideLongitudinal",
       "noEntry", "warning", "userDisable", "softDisable",
       "immediateDisable", "permanent"}

(***************************************************************************)
(* EVENTS (selfdrived/events.py) and EVENTS_SP (sunnypilot events.py).     *)
(***************************************************************************)
EVENTS ==
  [doorOpen            |-> {"softDisable", "noEntry"},
   wrongGear           |-> {"softDisable", "noEntry"},
   reverseGear         |-> {"permanent", "userDisable", "noEntry"},
   brakeHold           |-> {"warning"},
   parkBrake           |-> {"userDisable", "noEntry"},
   pedalPressed        |-> {"userDisable", "noEntry"},
   preEnableStandstill |-> {"preEnable"},
   gasPressedOverride  |-> {"overrideLongitudinal"},
   steerOverride       |-> {"overrideLateral"},
   wrongCarMode        |-> {"userDisable", "noEntry"},
   pcmEnable           |-> {"enable"},
   buttonEnable        |-> {"enable"},
   pcmDisable          |-> {"userDisable"},
   buttonCancel        |-> {"userDisable", "noEntry"},
   steerDisengage      |-> {"userDisable", "noEntry"},
   wrongCruiseMode     |-> {"userDisable", "noEntry"},
   belowEngageSpeed    |-> {"noEntry"},
   cruiseDisabled      |-> {"immediateDisable"},
   espActive           |-> {"softDisable", "noEntry"},
   controlsMismatch    |-> {"immediateDisable", "noEntry"},
   canError            |-> {"immediateDisable", "permanent", "noEntry"},
   canBusMissing       |-> {"immediateDisable", "permanent", "noEntry"},
   systemSoft          |-> {"softDisable", "noEntry"},
   systemFault         |-> {"immediateDisable", "permanent", "noEntry"},
   systemBlock         |-> {"noEntry"},
   selfdriveInitializing |-> {"noEntry"}]

EVENTS_SP ==
  [lkasEnable              |-> {"enable"},
   lkasDisable             |-> {"userDisable"},
   manualSteeringRequired  |-> {"userDisable"},
   manualLongitudinalRequired |-> {"warning"},
   silentLkasEnable        |-> {"enable"},
   silentLkasDisable       |-> {"userDisable"},
   silentBrakeHold         |-> {"warning", "noEntry"},
   silentWrongGear         |-> {"warning", "noEntry"},
   silentReverseGear       |-> {"permanent", "noEntry"},
   silentDoorOpen          |-> {"warning", "noEntry"},
   silentParkBrake         |-> {"warning", "noEntry"},
   controlsMismatchLateral |-> {"immediateDisable", "noEntry"},
   wrongCarModeAlertOnly   |-> {"warning"},
   pedalPressedAlertOnly   |-> {"warning"},
   customLongitudinalFault |-> {"immediateDisable"}]

\* "if P: events.add(e)"
When(P, e) == IF P THEN {e} ELSE {}

\* The types for which EventsBase.contains answers True.
Types(events) == UNION {EVENTS[e] : e \in events}
TypesSP(events_sp) == UNION {EVENTS_SP[e] : e \in events_sp}

(***************************************************************************)
(* StateMachineEvents: the view the main state machine has.  Of the SP     *)
(* events only the custom-longitudinal fault crosses over.                 *)
(***************************************************************************)
\* Mutant: the view of the upstream events only.
StateMachineTypes_Upstream(events, events_sp) == Types(events)

StateMachineTypes(events, events_sp) ==
  Types(events)
    \cup (IF "customLongitudinalFault" \in events_sp THEN {"immediateDisable"} ELSE {})
=============================================================================
