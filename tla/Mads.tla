-------------------------------- MODULE Mads --------------------------------
(***************************************************************************)
(* sunnypilot/mads: the Modular Assistive Driving System, the second state *)
(* machine of selfdrived, which keeps the steering engaged while the main  *)
(* state machine (longitudinal) is off.  It runs after the main machine in *)
(* the same 100 Hz step, rewrites the events that machine has just seen,   *)
(* and shares its soft_disable_timer and current_alert_types.              *)
(*                                                                         *)
(*   c     what __init__ read once: the car and the boot-time params       *)
(*   t     the params that params_thread re-reads while driving            *)
(*   CS    the CarState of this step; prev is CS_prev                      *)
(*   sub   what the SubMaster last received (panda, system health)         *)
(*   sm    the main state machine, already updated in this step            *)
(***************************************************************************)
EXTENDS StateMachine

CONSTANT MISMATCH_LIMIT          \* the 200 samples of both mismatch counters

ASSUME MismatchLimitAssumption == MISMATCH_LIMIT \in Nat \ {0}

MadsState == {"disabled", "paused", "enabled", "softDisabling", "overriding"}
MADS_ACTIVE_STATES == {"enabled", "softDisabling", "overriding"}
MADS_ENABLED_STATES == {"paused"} \cup MADS_ACTIVE_STATES

MadsSteeringModeOnBrake == {"remainActive", "pause", "disengage"}

MadsRecord ==
  [state : MadsState,
   lateral_mismatch_counter : 0 .. MISMATCH_LIMIT,
   enabled_prev : BOOLEAN]

MadsInit ==
  [state |-> "disabled", lateral_mismatch_counter |-> 0, enabled_prev |-> FALSE]

MadsEnabled(mads) == mads.state \in MADS_ENABLED_STATES
MadsActive(mads) == mads.state \in MADS_ACTIVE_STATES

-----------------------------------------------------------------------------
(***************************************************************************)
(* data_sample.  Unlike the code the counter stops at MISMATCH_LIMIT,      *)
(* where the code already raises controlsMismatchLateral in every step.    *)
(***************************************************************************)
LateralMismatch(mads, sm, sub) ==
  LET n == mads.lateral_mismatch_counter
  IN IF ~MadsActive(mads) \/ Enabled(sm) THEN 0
     ELSE IF sub.allowed_lateral \/ n = MISMATCH_LIMIT THEN n ELSE n + 1

-----------------------------------------------------------------------------
(***************************************************************************)
(* update_events, which turns the events of the step into those that the   *)
(* MADS state machine, the alerts and the published message see.           *)
(***************************************************************************)
SilentEvent ==
  [doorOpen    |-> "silentDoorOpen",
   wrongGear   |-> "silentWrongGear",
   reverseGear |-> "silentReverseGear",
   brakeHold   |-> "silentBrakeHold",
   parkBrake   |-> "silentParkBrake"]

GEARS_ALLOW_PAUSED == DOMAIN SilentEvent
GEARS_ALLOW_PAUSED_SILENT == {SilentEvent[e] : e \in GEARS_ALLOW_PAUSED}

\* EventsBase.remove takes out one occurrence; CS.twice are the events the
\* car interface added twice in this step.
Remove(events, names, CS) == events \ (names \ CS.twice)

LateralOnly(sm, mads) == ~Enabled(sm) /\ MadsEnabled(mads)

pedal_pressed_non_gas_pressed(c, prev, CS, events) ==
  /\ "pedalPressed" \in events
  /\ ~(CS.gas /\ ~prev.gas /\ c.disengage_on_accelerator)

\* The events that lateral-only driving replaces by their silent versions.
Silenced(sm, mads, CS, events) ==
  {e \in events \cap GEARS_ALLOW_PAUSED :
     /\ LateralOnly(sm, mads)
     /\ e = "doorOpen" => CS.standstill
     /\ e = "wrongGear" => CS.slow \/ CS.gear = "reverse"}

\* Mutant: lateral-only driving ignores none of these events.
Ignored_None(sm, mads) == {}

\* The events that lateral-only driving ignores.
Ignored(sm, mads) ==
  IF LateralOnly(sm, mads)
    THEN {"preEnableStandstill", "belowEngageSpeed", "cruiseDisabled", "espActive"}
    ELSE {}

EnableEvents(events) == events \cap {"pcmEnable", "buttonEnable"}

\* Mutants: enabled instead of enabled_prev, and neither of them.
BlockUnified_Enabled(t, sm, mads) ==
  ~t.unified_engagement_mode \/ MadsEnabled(mads) \/ Enabled(sm)

BlockUnified_NotEnabled(t, sm, mads) ==
  ~t.unified_engagement_mode \/ MadsEnabled(mads)

block_unified_engagement_mode(t, sm, mads) ==
  \/ ~t.unified_engagement_mode
  \/ MadsEnabled(mads)
  \/ Enabled(sm) /\ mads.enabled_prev

MainCruiseOff(c, CS) == ~CS.available /\ ~c.no_main_cruise

MadsEvents(c, t, sm, mads, prev, CS, events) ==
  LET enabling == EnableEvents(events) # {}
      blocked == enabling /\ block_unified_engagement_mode(t, sm, mads)
      removed == Ignored(sm, mads)
                   \cup {"wrongCarMode", "pcmDisable", "buttonCancel", "pedalPressed", "wrongCruiseMode"}
                   \cup (IF blocked THEN {"pcmEnable", "buttonEnable"} ELSE {})
                   \cup (IF MainCruiseOff(c, CS) THEN {"buttonEnable"} ELSE {})
  IN Remove(events \ Silenced(sm, mads, CS, events), removed, CS)

\* The event of a press of the LKAS button.
LkasButtonEvent(sm, mads) ==
  IF ~MadsEnabled(mads) THEN "lkasEnable"
  ELSE IF Enabled(sm) THEN "manualSteeringRequired" ELSE "lkasDisable"

(***************************************************************************)
(* should_silent_lkas_enable.  Each "MADS adds e when P" of update_events  *)
(* is one line of MadsEventsSP.  The block under "block lkasEnable if      *)
(* being sent" adds nothing: it asks contains(), which takes an event      *)
(* type, for the event name lkasEnable, and that is never found.           *)
(***************************************************************************)
\* Mutant: "not" binds to the first operand only.
SilentLkasEnable_Not(c, CS, pedal, silenced) ==
  /\ c.steering_mode_on_brake # "pause" /\ (CS.brake \/ CS.regen \/ pedal)
  /\ silenced = {}

should_silent_lkas_enable(c, CS, pedal, silenced) ==
  /\ ~(c.steering_mode_on_brake = "pause" /\ (CS.brake \/ CS.regen \/ pedal))
  /\ silenced = {}

MadsEventsSP(c, t, sm, mads, prev, CS, events, events_sp) ==
  LET pedal == pedal_pressed_non_gas_pressed(c, prev, CS, events)
      silenced == Silenced(sm, mads, CS, events)
      enabling == EnableEvents(events) # {}
  IN events_sp
     \cup {SilentEvent[e] : e \in silenced}
     \cup When(/\ mads.state # "paused"
               /\ \/ silenced # {}
                  \/ LateralOnly(sm, mads) /\ c.steering_mode_on_brake = "pause" /\ pedal,
               "silentLkasDisable")
     \cup When("wrongCarMode" \in events /\ (enabling \/ "set" \in CS.buttons),
               "wrongCarModeAlertOnly")
     \cup When(enabling /\ pedal, "pedalPressedAlertOnly")
     \cup When(~enabling /\ t.main_enabled_toggle /\ CS.available /\ ~prev.available,
               "lkasEnable")
     \cup When("cancel" \in CS.buttons /\ ~Enabled(sm) /\ mads.enabled_prev,
               "manualLongitudinalRequired")
     \cup When("lkas" \in CS.buttons /\ (CS.available \/ c.allow_always),
               LkasButtonEvent(sm, mads))
     \cup When(MainCruiseOff(c, CS) /\ prev.available, "lkasDisable")
     \cup When(c.steering_mode_on_brake = "disengage" /\ pedal /\ MadsEnabled(mads),
               "lkasDisable")
     \cup When(mads.state = "paused" /\ should_silent_lkas_enable(c, CS, pedal, silenced),
               "silentLkasEnable")
     \cup When(mads.lateral_mismatch_counter >= MISMATCH_LIMIT, "controlsMismatchLateral")

-----------------------------------------------------------------------------
(***************************************************************************)
(* mads/state.py: StateMachine.update over the rewritten events.           *)
(***************************************************************************)
\* Mutant: events_sp forgotten.
CheckTypes_EventsOnly(events, events_sp) == Types(events)

CheckTypes(events, events_sp) == Types(events) \cup TypesSP(events_sp)

CheckContainsInList(events, events_sp) ==
  \/ events \cap GEARS_ALLOW_PAUSED # {}
  \/ events_sp \cap GEARS_ALLOW_PAUSED_SILENT # {}

\* Mutant: noEntry not looked at.
NoEntry_Never(T) == FALSE

NoEntry(T) == "noEntry" \in T

EngagedState(T) == IF "overrideLateral" \in T THEN "overriding" ELSE "enabled"

MadsNextState(sm, mads, events, events_sp) ==
  LET T == CheckTypes(events, events_sp)
      s == mads.state
      off == s = "disabled"
  IN CASE ~off /\ "userDisable" \in T ->
            IF "silentLkasDisable" \in events_sp THEN "paused" ELSE "disabled"
       [] ~off /\ "userDisable" \notin T /\ "immediateDisable" \in T -> "disabled"
       [] off ->
            IF "enable" \notin T THEN "disabled"
            ELSE IF ~NoEntry(T) THEN EngagedState(T)
            ELSE IF CheckContainsInList(events, events_sp) THEN "paused" ELSE "disabled"
       [] OTHER ->
            CASE s \in {"enabled", "overriding"} ->
                   IF "softDisable" \in T THEN "softDisabling" ELSE EngagedState(T)
              [] s = "softDisabling" ->
                   IF "softDisable" \notin T THEN "enabled"
                   ELSE IF sm.timer > 0 THEN "softDisabling" ELSE "disabled"
              [] s = "paused" ->
                   IF "enable" \in T /\ ~NoEntry(T) THEN EngagedState(T) ELSE "paused"

\* The alert types added while the main machine is off ...
MadsAlerts(mads, T, new) ==
  LET off == mads.state = "disabled"
  IN (CASE ~off /\ "userDisable" \in T -> {}
        [] ~off /\ "userDisable" \notin T /\ "immediateDisable" \in T -> {"immediateDisable"}
        [] mads.state \in {"disabled", "paused"} /\ (off \/ T \cap {"userDisable", "immediateDisable"} = {}) ->
             IF "enable" \notin T THEN {}
             ELSE IF "noEntry" \in T THEN {"noEntry"} ELSE {"enable"}
        [] OTHER ->
             CASE new = "softDisabling" -> {"softDisable"}
               [] mads.state = "enabled" /\ new = "overriding" -> {"overrideLateral"}
               [] OTHER -> {})
     \cup (IF new \in MADS_ACTIVE_STATES THEN {"warning"} ELSE {})

\* Mutant: nothing is added while the main machine is on.
MadsAlertsAlways_None(mads, T, new) == {}

\* ... and those added whatever it is.
MadsAlertsAlways(mads, T, new) ==
  (IF mads.state # "disabled" /\ "userDisable" \in T THEN {"userDisable"} ELSE {})
    \cup (IF mads.state = "overriding" /\ new = "overriding" THEN {"overrideLateral"} ELSE {})

MadsStateMachineUpdate(sm, mads, events, events_sp) ==
  [mads EXCEPT !.state = MadsNextState(sm, mads, events, events_sp)]

\* What the same update leaves in the main state machine.
MadsSharedUpdate(sm, mads, events, events_sp) ==
  LET T == CheckTypes(events, events_sp)
      new == MadsNextState(sm, mads, events, events_sp)
  IN [sm EXCEPT
        !.timer = IF ~Enabled(sm) /\ new = "softDisabling" /\ mads.state # "softDisabling"
                    THEN SOFT_DISABLE_FRAMES ELSE @,
        !.alerts = @ \cup MadsAlertsAlways(mads, T, new)
                     \cup (IF Enabled(sm) THEN {} ELSE MadsAlerts(mads, T, new))]
=============================================================================
