----------------------------- MODULE Selfdrived -----------------------------
(***************************************************************************)
(* selfdrive/selfdrived/selfdrived.py: the 100 Hz process that decides     *)
(* whether the car is engaged.  One Step is one call of step():            *)
(* data_sample, update_events, the main state machine, MADS, and the       *)
(* alerts and state that are published.  params_thread runs beside it and  *)
(* changes the toggles at any moment.                                      *)
(*                                                                         *)
(* CarState and the SubMaster's messages come from other processes: a step *)
(* receives any pair in the constant Inputs.                               *)
(***************************************************************************)
EXTENDS Mads

CONSTANTS Inputs,     \* what one step may receive: [CS : CarState, sub : SubMaster]
          Configs     \* cars and boot-time params

\* The fields of CarState that the events are computed from.  `slow' is
\* vEgo < 2.5; `car' are the events of the brand-specific code; `twice' are
\* the events that code adds two times.
CarState ==
  [canValid : BOOLEAN, canTimeout : BOOLEAN,
   gas : BOOLEAN, brake : BOOLEAN, regen : BOOLEAN,
   standstill : BOOLEAN, slow : BOOLEAN, gear : {"unknown", "drive", "park", "reverse"},
   available : BOOLEAN, cruise : BOOLEAN, buttonEnable : BOOLEAN,
   buttons : SUBSET {"cancel", "lkas", "set"},
   steering : BOOLEAN, door : BOOLEAN, parkBrake : BOOLEAN, brakeHold : BOOLEAN,
   car : SUBSET {"espActive", "cruiseDisabled", "belowEngageSpeed", "steerDisengage",
                 "wrongCruiseMode"},
   twice : SUBSET {"buttonCancel", "belowEngageSpeed"}]

\* `ready' is all_checks() or the 6 s timeout of the start-up; `allowed' and
\* `allowed_lateral' are what every panda not in a silent mode reports.
SubMaster ==
  [ready : BOOLEAN, allowed : BOOLEAN, allowed_lateral : BOOLEAN,
   system : SUBSET {"systemSoft", "systemFault", "systemBlock"},
   custom_longitudinal_fault : BOOLEAN]

Config ==
  [Mads : BOOLEAN, steering_mode_on_brake : MadsSteeringModeOnBrake,
   disengage_on_accelerator : BOOLEAN, allow_always : BOOLEAN, no_main_cruise : BOOLEAN,
   pcmCruise : BOOLEAN, honda : BOOLEAN, allow_button_cancel : BOOLEAN]

Toggles ==
  [main_enabled_toggle : BOOLEAN, unified_engagement_mode : BOOLEAN,
   disengage_on_accelerator : BOOLEAN]

\* The brand-specific code reports that cruise is off (cruiseDisabled,
\* speedTooLow) only where nothing can engage: with belowEngageSpeed, or on a
\* car that engages by its own cruise while that is off.
CruiseOffReport(CS) ==
  "cruiseDisabled" \in CS.car => "belowEngageSpeed" \in CS.car \/ (~CS.cruise /\ ~CS.buttonEnable)

ASSUME InputsAssumption == Inputs \subseteq [CS : CarState, sub : SubMaster]
ASSUME CruiseOffAssumption == \A x \in Inputs : CruiseOffReport(x.CS)
ASSUME ConfigsAssumption == Configs \subseteq Config

VARIABLES
  cfg,                \* CP, CP_SP and what __init__ read
  toggles,            \* what params_thread last read
  initialized,
  sm,                 \* self.state_machine
  mads,               \* self.mads and its state machine
  mismatch_counter,
  CS_prev,
  sub                 \* self.sm, the SubMaster's last messages

vars == <<cfg, toggles, initialized, sm, mads, mismatch_counter, CS_prev, sub>>

\* car.CarState.new_message()
NewCarState ==
  [canValid |-> FALSE, canTimeout |-> FALSE, gas |-> FALSE, brake |-> FALSE, regen |-> FALSE,
   standstill |-> FALSE, slow |-> TRUE, gear |-> "unknown", available |-> FALSE,
   cruise |-> FALSE, buttonEnable |-> FALSE, buttons |-> {}, steering |-> FALSE,
   door |-> FALSE, parkBrake |-> FALSE, brakeHold |-> FALSE, car |-> {}, twice |-> {}]

NewSubMaster ==
  [ready |-> FALSE, allowed |-> FALSE, allowed_lateral |-> FALSE, system |-> {},
   custom_longitudinal_fault |-> FALSE]

Init ==
  /\ cfg \in Configs
  /\ toggles \in Toggles
  /\ toggles.disengage_on_accelerator = cfg.disengage_on_accelerator
  /\ initialized = FALSE
  /\ sm = StateMachineInit
  /\ mads = MadsInit
  /\ mismatch_counter = 0
  /\ CS_prev = NewCarState
  /\ sub = NewSubMaster

-----------------------------------------------------------------------------
\* data_sample: samples of a panda that denies controls while engaged.  The
\* count is never reset during an engagement; it stops at MISMATCH_LIMIT.
MismatchCounter(smch, n, s) ==
  IF ~Enabled(smch) THEN 0
  ELSE IF s.allowed \/ n = MISMATCH_LIMIT THEN n ELSE n + 1

\* Mutant: a rising edge and moving.
PedalPressed_Moving(t, prev, CS) ==
  \/ CS.gas /\ ~prev.gas /\ t.disengage_on_accelerator
  \/ CS.brake /\ ~prev.brake /\ ~CS.standstill
  \/ CS.regen /\ ~prev.regen /\ ~CS.standstill

\* Rising edge of accelerator or brake, and brake while moving.
PedalPressed(t, prev, CS) ==
  \/ CS.gas /\ ~prev.gas /\ t.disengage_on_accelerator
  \/ CS.brake /\ (~prev.brake \/ ~CS.standstill)
  \/ CS.regen /\ (~prev.regen \/ ~CS.standstill)

\* CarSpecificEvents.update and the pedal check; the brand-specific events are
\* CS.car, of which steerDisengage counts on its rising edge only.  Honda's own
\* code reports cruiseDisabled or speedTooLow in place of pcmDisable.
CarEvents(c, t, prev, CS) ==
  (CS.car \ ({"steerDisengage"} \cap prev.car))
  \cup When(CS.door, "doorOpen")
  \cup When(CS.gear # "drive", "wrongGear")
  \cup When(CS.gear = "reverse", "reverseGear")
  \cup When(~CS.available, "wrongCarMode")
  \cup When(CS.brakeHold, "brakeHold")
  \cup When(CS.parkBrake, "parkBrake")
  \cup When(CS.steering, "steerOverride")
  \cup When(CS.brake /\ CS.standstill, "preEnableStandstill")
  \cup When(CS.gas, "gasPressedOverride")
  \cup When(CS.buttonEnable, "buttonEnable")
  \cup When("cancel" \in CS.buttons /\ (c.allow_button_cancel \/ ~c.pcmCruise), "buttonCancel")
  \cup When(c.pcmCruise /\ CS.cruise /\ ~prev.cruise, "pcmEnable")
  \cup When(c.pcmCruise /\ ~c.honda /\ ~CS.cruise, "pcmDisable")
  \cup When(PedalPressed(t, prev, CS), "pedalPressed")

\* canBusMissing is muted in park while MADS is enabled.
CanEvents(CS, m) ==
  IF CS.canTimeout THEN When(~(CS.gear = "park" /\ MadsEnabled(m)), "canBusMissing")
  ELSE When(~CS.canValid, "canError")

\* Mutant: one sample later.
MismatchEvents_Late(n) == When(n > MISMATCH_LIMIT, "controlsMismatch")

MismatchEvents(n) == When(n >= MISMATCH_LIMIT, "controlsMismatch")

UpdateEvents(c, t, init, m, n, prev, CS, s) ==
  IF ~init THEN {"selfdriveInitializing"}
  ELSE (IF CS.canValid THEN CarEvents(c, t, prev, CS) ELSE {})
         \cup s.system
         \cup MismatchEvents(n)
         \cup CanEvents(CS, m)

\* The events that longitudinalPlanSP carries.  The planner raises its fault
\* while longActive, an echo of the engagement through two processes, and the
\* SubMaster keeps the message: a step may see it in any state, and again in the
\* next engagement.
PlanEventsSP(init, s) == When(init /\ s.custom_longitudinal_fault, "customLongitudinalFault")

-----------------------------------------------------------------------------
MainUpdate(init, smch, events, events_sp) ==
  IF init THEN StateMachineUpdate(smch, StateMachineTypes(events, events_sp)) ELSE smch

(***************************************************************************)
(* step() on the CarState CS and the messages s.                           *)
(***************************************************************************)
StepWith(CS, s) ==
  LET init == initialized \/ s.ready
      n == MismatchCounter(sm, mismatch_counter, s)
      events == UpdateEvents(cfg, toggles, init, mads, n, CS_prev, CS, s)
      events_sp == PlanEventsSP(init, s)
      main == MainUpdate(init, sm, events, events_sp)
      m == [mads EXCEPT !.lateral_mismatch_counter = LateralMismatch(mads, main, s)]
      ev == MadsEvents(cfg, toggles, main, m, CS_prev, CS, events)
      ev_sp == MadsEventsSP(cfg, toggles, main, m, CS_prev, CS, events, events_sp)
  IN /\ initialized' = init
     /\ mismatch_counter' = n
     /\ sm' = IF cfg.Mads /\ init THEN MadsSharedUpdate(main, m, ev, ev_sp) ELSE main
     /\ mads' = IF ~cfg.Mads THEN mads
                ELSE [(IF init THEN MadsStateMachineUpdate(main, m, ev, ev_sp) ELSE m)
                        EXCEPT !.enabled_prev = Enabled(main)]
     /\ CS_prev' = CS
     /\ sub' = s
     /\ UNCHANGED <<cfg, toggles>>

\* A new CarState arrived.
Step == \E x \in Inputs : StepWith(x.CS, x.sub)

\* recv_one timed out after 20 ms: the step runs again on CS_prev, its button
\* events included.
StepStale == \E s \in {x.sub : x \in Inputs} : StepWith(CS_prev, s)

\* One iteration of params_thread found one param changed.  The fields are
\* written one after the other, so a step may see any of them first.
ParamsThread ==
  /\ \E f \in DOMAIN toggles : toggles' = [toggles EXCEPT ![f] = ~@]
  /\ UNCHANGED <<cfg, initialized, sm, mads, mismatch_counter, CS_prev, sub>>

Next == Step \/ StepStale \/ ParamsThread

Spec == Init /\ [][Next]_vars

-----------------------------------------------------------------------------
TypeOK ==
  /\ cfg \in Config
  /\ toggles \in Toggles
  /\ initialized \in BOOLEAN
  /\ sm \in StateMachineRecord
  /\ mads \in MadsRecord
  /\ mismatch_counter \in 0 .. MISMATCH_LIMIT
  /\ CS_prev \in CarState
  /\ sub \in SubMaster

(***************************************************************************)
(* What the published state must satisfy.                                  *)
(***************************************************************************)
\* controlsd's get_lat_active: MADS decides on steering when it is available.
LatActive(s, m) == IF cfg.Mads THEN MadsActive(m) ELSE Active(s)

\* A step of step(), as opposed to one of params_thread.
Stepped == toggles' = toggles

\* The panda may deny what selfdrived believes to be engaged only for fewer
\* than MISMATCH_LIMIT samples: neither machine is left engaged at the limit,
\* whichever of the two counters ran and however the other machine moved.
MismatchBounded ==
  /\ Enabled(sm) => mismatch_counter < MISMATCH_LIMIT
  /\ MadsActive(mads) /\ ~Enabled(sm) => mads.lateral_mismatch_counter < MISMATCH_LIMIT

\* Before the start-up is over nothing is engaged, and MADS never is when its
\* toggle is off: what MismatchBounded and ImmediateDisableStops rest on.
Dormant ==
  /\ ~initialized => sm.state = "disabled" /\ mads.state = "disabled"
  /\ ~cfg.Mads => mads.state = "disabled"

\* CAN loss, an immediate-disable fault of the system or of the custom
\* longitudinal planner ends the engagement and the steering in the step that
\* sees it, although MADS runs on rewritten events and puts user disables
\* first.  The one exception is the CAN timeout that is muted in park.
ImmediateCause(CS, s, m) ==
  \/ "systemFault" \in s.system
  \/ s.custom_longitudinal_fault
  \/ ~CS.canValid /\ ~CS.canTimeout
  \/ CS.canTimeout /\ ~(CS.gear = "park" /\ MadsEnabled(m))

ImmediateDisableStops ==
  [][Stepped /\ initialized' /\ ImmediateCause(CS_prev', sub', mads)
       => /\ Enabled(sm) => ~Enabled(sm')
          /\ MadsEnabled(mads) => ~MadsActive(mads')]_vars

\* Steering is never given back to the driver silently: in the step in which it
\* is lost a disable alert type is selected, or the soft-disable alert was
\* shown until then.  Two corners of the code are left out: a soft disable while
\* the main machine pre-enables (mads/state.py:69), and engaging the
\* main machine in a step that still sees the planner's old fault, which has no
\* noEntry type and whose alert MADS leaves to the main machine.
LateralLossAnnounced ==
  [][LatActive(sm, mads) /\ ~LatActive(sm', mads') /\ sm.state # "preEnabled"
     /\ ~(sub'.custom_longitudinal_fault /\ ~Enabled(sm) /\ Enabled(sm'))
       => \/ sm'.alerts \cap {"userDisable", "immediateDisable"} # {}
          \/ "softDisable" \in sm.alerts]_vars

\* Unified Engagement Mode: the step that engages the main machine also
\* engages the steering, whatever else happens in that step.
UnifiedEngagement ==
  [][cfg.Mads /\ toggles.unified_engagement_mode /\ ~Enabled(sm) /\ Enabled(sm')
     /\ mads.state = "disabled"
       => MadsActive(mads')]_vars

\* A driver who turned the steering off keeps it off: while the main machine
\* stays engaged, no cruise event turns MADS on again, only the LKAS button.
\* (Not so after the CAN bus was lost in park, selfdrived.py:535, where nobody
\* tells the main machine that main cruise went off.)
LkasOffHolds ==
  [][Stepped /\ cfg.Mads /\ Enabled(sm) /\ Enabled(sm') /\ mads.state = "disabled"
     /\ ~(CS_prev.canTimeout /\ CS_prev.gear = "park") /\ MadsEnabled(mads')
       => "lkas" \in CS_prev'.buttons]_vars

\* MADS starts or resumes steering only in a car that can be driven, although
\* it has removed or silenced the events that say so.  (Not so when the CAN bus
\* is lost in park, selfdrived.py:535.)
ActivatesOnlyWhenDrivable ==
  [][Stepped /\ ~MadsActive(mads) /\ MadsActive(mads')
     /\ ~(CS_prev'.canTimeout /\ CS_prev'.gear = "park")
       => /\ CS_prev'.canValid /\ ~CS_prev'.canTimeout
          /\ CS_prev'.gear = "drive" /\ ~CS_prev'.door /\ ~CS_prev'.parkBrake
          /\ sub'.system = {}]_vars

\* In the Pause and Disengage modes the brake stops the steering in the step
\* that sees it, also when the main machine was engaged until then.
BrakeStopsSteering ==
  [][Stepped /\ cfg.steering_mode_on_brake \in {"pause", "disengage"}
     /\ MadsActive(mads) /\ CS_prev'.canValid
     /\ CS_prev'.brake /\ (~CS_prev.brake \/ ~CS_prev'.standstill)
     /\ ~(CS_prev'.gas /\ ~CS_prev.gas)
       => ~MadsActive(mads')]_vars

\* What may stop the steering.  The cancel button, a gas press, PCM cruise
\* going off, low speed and ESP end the engagement of the main machine only,
\* and in the Remain Active mode so does the brake.  (A gas press does stop it
\* when DisengageOnAccelerator was changed after start-up: MADS keeps the value
\* it read in __init__, selfdrived the one that params_thread last read.)
LossCause(CS, s, m) ==
  \/ CS.gear # "drive" \/ CS.door \/ CS.parkBrake \/ CS.brakeHold
  \/ ~CS.available \/ "lkas" \in CS.buttons \/ "buttonCancel" \in CS.twice
  \/ "steerDisengage" \in CS.car
  \/ ImmediateCause(CS, s, m) \/ s.system # {}
  \/ m.lateral_mismatch_counter = MISMATCH_LIMIT \/ mismatch_counter' = MISMATCH_LIMIT
  \/ cfg.steering_mode_on_brake # "remainActive" /\ (CS.brake \/ CS.regen)

SteeringLossHasCause ==
  [][Stepped /\ cfg.Mads /\ MadsActive(mads) /\ ~MadsActive(mads') /\ sm.state # "preEnabled"
       => \/ LossCause(CS_prev', sub', mads')
          \/ CS_prev'.gas /\ toggles.disengage_on_accelerator # cfg.disengage_on_accelerator]_vars

-----------------------------------------------------------------------------
\* A soft-disable fault that stays ends in both machines being off for good:
\* the shared timer runs out whoever started it.
SoftFaultDisengages ==
  <>[]("systemSoft" \in sub.system) => <>[](~Active(sm) /\ ~MadsActive(mads))

\* A pause is never a trap: once the car stays drivable and the driver stays
\* off the brake, MADS does not stay paused.
Drivable(CS, s) ==
  /\ CS.canValid /\ ~CS.canTimeout /\ CS.gear = "drive"
  /\ ~CS.door /\ ~CS.parkBrake /\ ~CS.brakeHold /\ ~CS.brake /\ ~CS.regen /\ ~CS.gas
  /\ CS.car = {} /\ s.system = {}

PausedResumes ==
  <>[]Drivable(CS_prev, sub) => []<>(mads.state # "paused")

-----------------------------------------------------------------------------
(***************************************************************************)
(* What a comment says, and the code does not do.                          *)
(***************************************************************************)
\* mads/mads.py:193: in the Disengage mode the brake means "block lkasEnable
\* if being sent".
BrakeBlocksLkasEnable ==
  [][Stepped /\ cfg.steering_mode_on_brake = "disengage" /\ mads.state = "disabled"
     /\ CS_prev'.canValid /\ ~CS_prev'.buttonEnable /\ ~CS_prev'.gas
     /\ CS_prev'.brake /\ (~CS_prev.brake \/ ~CS_prev'.standstill)
       => ~MadsActive(mads')]_vars
=============================================================================
