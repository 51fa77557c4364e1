-------------------------- MODULE SelfdrivedProofs --------------------------
(***************************************************************************)
(* Proofs about Selfdrived for every set of inputs and configurations and  *)
(* for every length of the soft disable timer and of the mismatch limit.   *)
(***************************************************************************)
EXTENDS Selfdrived, TLAPS

(***************************************************************************)
(* The two state machines keep their types.                                *)
(***************************************************************************)
\* Every branch of the main update() moves to a state of the machine.
LEMMA NextStateType ==
  ASSUME NEW s \in StateMachineRecord, NEW T, NEW t
  PROVE  NextState(s, T, t) \in State
<1>1. s.state \in State
  BY DEF StateMachineRecord
<1> QED
  BY <1>1 DEF NextState, State, Overriding

\* The alert types it selects are event types.
LEMMA NextAlertsType ==
  ASSUME NEW s \in StateMachineRecord, NEW T, NEW new
  PROVE  NextAlerts(s, T, new) \in SUBSET ET
<1>1. s.state \in State
  BY DEF StateMachineRecord
<1> QED
  BY <1>1 DEF NextAlerts, State, ET, OverrideTypes

\* update() returns a state machine, its timer within the soft disable time.
LEMMA StateMachineUpdateType ==
  ASSUME NEW s \in StateMachineRecord, NEW T
  PROVE  StateMachineUpdate(s, T) \in StateMachineRecord
<1> DEFINE t == DecrementTimer(s.timer)
           new == NextState(s, T, t)
           timer == IF new = "softDisabling" /\ s.state # "softDisabling"
                      THEN SOFT_DISABLE_FRAMES ELSE t
           alerts == {"permanent"} \cup NextAlerts(s, T, new)
                       \cup (IF new \in ACTIVE_STATES THEN {"warning"} ELSE {})
<1>1. new \in State
  BY NextStateType
<1>2. timer \in 0 .. SOFT_DISABLE_FRAMES
  <2>1. s.timer \in 0 .. SOFT_DISABLE_FRAMES
    BY DEF StateMachineRecord
  <2>2. t \in 0 .. SOFT_DISABLE_FRAMES
    BY <2>1, SoftDisableAssumption DEF DecrementTimer
  <2> HIDE DEF t, new
  <2> QED
    BY <2>2, SoftDisableAssumption
<1>3. alerts \in SUBSET ET
  <2>1. NextAlerts(s, T, new) \in SUBSET ET
    BY NextAlertsType
  <2> HIDE DEF new
  <2> QED
    BY <2>1 DEF ET
<1>4. StateMachineUpdate(s, T) = [state |-> new, timer |-> timer, alerts |-> alerts]
  BY DEF StateMachineUpdate
<1> HIDE DEF new, timer, alerts
<1> QED
  BY <1>1, <1>2, <1>3, <1>4 DEF StateMachineRecord

\* Every branch of the MADS update() moves to a state of that machine.
LEMMA MadsNextStateType ==
  ASSUME NEW s, NEW m \in MadsRecord, NEW ev, NEW ev_sp
  PROVE  MadsNextState(s, m, ev, ev_sp) \in MadsState
<1>1. m.state \in MadsState
  BY DEF MadsRecord
<1> DEFINE T == CheckTypes(ev, ev_sp)
           gear == CheckContainsInList(ev, ev_sp)
<1> HIDE DEF T, gear
<1>2. EngagedState(T) \in MadsState
  BY DEF EngagedState, MadsState
<1> QED
  BY <1>1, <1>2 DEF MadsNextState, MadsState, T, gear

\* What MADS leaves in the main machine is still a main machine.
LEMMA MadsSharedUpdateType ==
  ASSUME NEW s \in StateMachineRecord, NEW m \in MadsRecord, NEW ev, NEW ev_sp
  PROVE  /\ MadsSharedUpdate(s, m, ev, ev_sp) \in StateMachineRecord
         /\ MadsSharedUpdate(s, m, ev, ev_sp).state = s.state
<1> DEFINE T == CheckTypes(ev, ev_sp)
           new == MadsNextState(s, m, ev, ev_sp)
           timer == IF ~Enabled(s) /\ new = "softDisabling" /\ m.state # "softDisabling"
                      THEN SOFT_DISABLE_FRAMES ELSE s.timer
           alerts == s.alerts \cup MadsAlertsAlways(m, T, new)
                       \cup (IF Enabled(s) THEN {} ELSE MadsAlerts(m, T, new))
<1> HIDE DEF T, new
<1>1. timer \in 0 .. SOFT_DISABLE_FRAMES
  BY SoftDisableAssumption DEF StateMachineRecord
<1>2. MadsAlertsAlways(m, T, new) \in SUBSET ET
  BY DEF MadsAlertsAlways, ET
<1>3. MadsAlerts(m, T, new) \in SUBSET ET
  BY DEF MadsAlerts, ET
<1>4. alerts \in SUBSET ET
  BY <1>2, <1>3 DEF StateMachineRecord
<1>5. MadsSharedUpdate(s, m, ev, ev_sp) = [s EXCEPT !.timer = timer, !.alerts = alerts]
  BY DEF MadsSharedUpdate, T, new
<1> HIDE DEF timer, alerts
<1> QED
  BY <1>1, <1>4, <1>5 DEF StateMachineRecord

(***************************************************************************)
(* The counters and the type invariant.                                    *)
(***************************************************************************)
\* Both mismatch counters stay within 0 .. MISMATCH_LIMIT.
LEMMA MismatchCounterType ==
  ASSUME NEW s, NEW x, NEW n \in 0 .. MISMATCH_LIMIT
  PROVE  MismatchCounter(s, n, x) \in 0 .. MISMATCH_LIMIT
BY MismatchLimitAssumption DEF MismatchCounter

\* MADS's counter of a panda that steers against its will.
LEMMA LateralMismatchType ==
  ASSUME NEW m \in MadsRecord, NEW s, NEW x
  PROVE  LateralMismatch(m, s, x) \in 0 .. MISMATCH_LIMIT
<1>1. m.lateral_mismatch_counter \in 0 .. MISMATCH_LIMIT
  BY DEF MadsRecord
<1> QED
  BY <1>1, MismatchLimitAssumption DEF LateralMismatch

\* The main machine after data_sample, update_events and update().
LEMMA MainUpdateType ==
  ASSUME NEW s \in StateMachineRecord, NEW init, NEW ev, NEW ev_sp
  PROVE  MainUpdate(init, s, ev, ev_sp) \in StateMachineRecord
BY StateMachineUpdateType DEF MainUpdate

\* The initial states of selfdrived have the right types.
LEMMA InitType == Init => TypeOK
<1> SUFFICES ASSUME Init PROVE TypeOK
  OBVIOUS
<1>1. cfg \in Config /\ toggles \in Toggles /\ initialized \in BOOLEAN
  BY ConfigsAssumption DEF Init
<1>2. sm \in StateMachineRecord
  BY SoftDisableAssumption DEF Init, StateMachineInit, StateMachineRecord, State, ET
<1>3. mads \in MadsRecord /\ mismatch_counter \in 0 .. MISMATCH_LIMIT
  BY MismatchLimitAssumption DEF Init, MadsInit, MadsRecord, MadsState
<1>4. CS_prev \in CarState
  BY DEF Init, NewCarState, CarState
<1>5. sub \in SubMaster
  BY DEF Init, NewSubMaster, SubMaster
<1> QED
  BY <1>1, <1>2, <1>3, <1>4, <1>5 DEF TypeOK

\* One call of step(), on any CarState and any messages, keeps the types.
LEMMA StepWithType ==
  ASSUME TypeOK, NEW CS \in CarState, NEW s \in SubMaster, StepWith(CS, s)
  PROVE  TypeOK'
<1> DEFINE init == initialized \/ s.ready
           n == MismatchCounter(sm, mismatch_counter, s)
           events == UpdateEvents(cfg, toggles, init, mads, n, CS_prev, CS, s)
           events_sp == PlanEventsSP(init, s)
           main == MainUpdate(init, sm, events, events_sp)
           m == [mads EXCEPT !.lateral_mismatch_counter = LateralMismatch(mads, main, s)]
           ev == MadsEvents(cfg, toggles, main, m, CS_prev, CS, events)
           ev_sp == MadsEventsSP(cfg, toggles, main, m, CS_prev, CS, events, events_sp)
<1>1. /\ initialized' = init
      /\ mismatch_counter' = n
      /\ sm' = IF cfg.Mads /\ init THEN MadsSharedUpdate(main, m, ev, ev_sp) ELSE main
      /\ mads' = IF ~cfg.Mads THEN mads
                 ELSE [(IF init THEN MadsStateMachineUpdate(main, m, ev, ev_sp) ELSE m)
                         EXCEPT !.enabled_prev = Enabled(main)]
      /\ CS_prev' = CS
      /\ sub' = s
      /\ UNCHANGED <<cfg, toggles>>
  BY DEF StepWith
<1>2. main \in StateMachineRecord
  BY MainUpdateType DEF TypeOK
<1>3. m \in MadsRecord
  <2>1. LateralMismatch(mads, main, s) \in 0 .. MISMATCH_LIMIT
    BY LateralMismatchType DEF TypeOK
  <2> HIDE DEF main
  <2> QED
    BY <2>1 DEF TypeOK, MadsRecord
<1>4. n \in 0 .. MISMATCH_LIMIT
  BY MismatchCounterType DEF TypeOK
<1>5. init \in BOOLEAN
  BY DEF TypeOK, SubMaster
<1> HIDE DEF init, n, events, events_sp, main, m, ev, ev_sp
<1>6. sm' \in StateMachineRecord
  BY <1>1, <1>2, <1>3, MadsSharedUpdateType
<1>7. mads' \in MadsRecord
  <2>1. MadsStateMachineUpdate(main, m, ev, ev_sp) \in MadsRecord
    <3>1. MadsNextState(main, m, ev, ev_sp) \in MadsState
      BY <1>3, MadsNextStateType
    <3> QED
      BY <1>3, <3>1 DEF MadsStateMachineUpdate, MadsRecord
  <2>2. Enabled(main) \in BOOLEAN
    BY DEF Enabled
  <2> QED
    BY <1>1, <1>3, <2>1, <2>2 DEF TypeOK, MadsRecord
<1> QED
  BY <1>1, <1>4, <1>5, <1>6, <1>7 DEF TypeOK

\* No step of selfdrived or of params_thread leaves the types.
LEMMA NextType == TypeOK /\ [Next]_vars => TypeOK'
<1> SUFFICES ASSUME TypeOK, [Next]_vars PROVE TypeOK'
  OBVIOUS
<1>1. CASE Step
  <2>1. PICK x \in Inputs : StepWith(x.CS, x.sub)
    BY <1>1 DEF Step
  <2>2. x.CS \in CarState /\ x.sub \in SubMaster
    BY InputsAssumption
  <2> QED
    BY <2>1, <2>2, StepWithType
<1>2. CASE StepStale
  <2>1. PICK x \in Inputs : StepWith(CS_prev, x.sub)
    BY <1>2 DEF StepStale
  <2>2. CS_prev \in CarState /\ x.sub \in SubMaster
    BY InputsAssumption DEF TypeOK
  <2> QED
    BY <2>1, <2>2, StepWithType
<1>3. CASE ParamsThread
  <2>1. toggles' \in Toggles
    BY <1>3 DEF ParamsThread, TypeOK, Toggles
  <2> QED
    BY <1>3, <2>1 DEF ParamsThread, TypeOK
<1>4. CASE UNCHANGED vars
  BY <1>4 DEF vars, TypeOK
<1> QED
  BY <1>1, <1>2, <1>3, <1>4 DEF Next

\* selfdrived's state has its types in every reachable state: the shared timer
\* and both mismatch counters never leave their ranges.
THEOREM TypeCorrect == Spec => []TypeOK
BY InitType, NextType, PTL DEF Spec

(***************************************************************************)
(* An immediate disable beats everything else in both machines.            *)
(***************************************************************************)
\* An event brings all its types along.
LEMMA EventTypes ==
  ASSUME NEW events, NEW e \in events, NEW t \in EVENTS[e]
  PROVE  t \in Types(events)
BY DEF Types

\* The same for the events of sunnypilot.
LEMMA EventTypesSP ==
  ASSUME NEW events_sp, NEW e \in events_sp, NEW t \in EVENTS_SP[e]
  PROVE  t \in TypesSP(events_sp)
BY DEF TypesSP

\* update() leaves the main machine off, unless it was off and may be enabled.
LEMMA MainStops ==
  ASSUME NEW s \in StateMachineRecord, NEW T,
         "immediateDisable" \in T, s.state # "disabled" \/ "noEntry" \in T
  PROVE  ~Enabled(StateMachineUpdate(s, T))
<1> DEFINE t == DecrementTimer(s.timer)
<1> HIDE DEF t
<1>1. NextState(s, T, t) = "disabled"
  BY DEF NextState, StateMachineRecord, State
<1>2. StateMachineUpdate(s, T).state = NextState(s, T, t)
  BY DEF StateMachineUpdate, t
<1> QED
  BY <1>1, <1>2 DEF Enabled, ENABLED_STATES, ACTIVE_STATES

\* The MADS machine does not steer either; it may be paused.
LEMMA MadsStops ==
  ASSUME NEW s, NEW m \in MadsRecord, NEW ev, NEW ev_sp,
         "immediateDisable" \in CheckTypes(ev, ev_sp),
         m.state # "disabled" \/ "noEntry" \in CheckTypes(ev, ev_sp)
  PROVE  MadsNextState(s, m, ev, ev_sp) \in {"disabled", "paused"}
<1> DEFINE T == CheckTypes(ev, ev_sp)
           gear == CheckContainsInList(ev, ev_sp)
<1> HIDE DEF T, gear
<1>1. m.state \in MadsState
  BY DEF MadsRecord
<1>2. "immediateDisable" \in T /\ (m.state # "disabled" \/ "noEntry" \in T)
  BY DEF T
<1>3. CASE m.state # "disabled" /\ "userDisable" \in T
  BY <1>3 DEF MadsNextState, T
<1>4. CASE m.state # "disabled" /\ "userDisable" \notin T
  BY <1>2, <1>4 DEF MadsNextState, T
<1>5. CASE m.state = "disabled"
  BY <1>2, <1>5 DEF MadsNextState, NoEntry, T
<1> QED
  BY <1>3, <1>4, <1>5

\* The state of the MADS machine after the step.
LEMMA MadsUpdateState ==
  ASSUME NEW s, NEW m \in MadsRecord, NEW ev, NEW ev_sp, NEW e
  PROVE  [MadsStateMachineUpdate(s, m, ev, ev_sp) EXCEPT !.enabled_prev = e].state
           = MadsNextState(s, m, ev, ev_sp)
BY DEF MadsStateMachineUpdate, MadsRecord

(***************************************************************************)
(* The parts of one call of step(), which StepWith names in its LET.       *)
(***************************************************************************)
Ready(s) == initialized \/ s.ready
CounterOf(s) == MismatchCounter(sm, mismatch_counter, s)
EventsOf(CS, s) == UpdateEvents(cfg, toggles, Ready(s), mads, CounterOf(s), CS_prev, CS, s)
EventsSPOf(s) == PlanEventsSP(Ready(s), s)
MainOf(CS, s) == MainUpdate(Ready(s), sm, EventsOf(CS, s), EventsSPOf(s))
MadsOf(CS, s) == [mads EXCEPT !.lateral_mismatch_counter = LateralMismatch(mads, MainOf(CS, s), s)]
MadsEventsOf(CS, s) ==
  MadsEvents(cfg, toggles, MainOf(CS, s), MadsOf(CS, s), CS_prev, CS, EventsOf(CS, s))
MadsEventsSPOf(CS, s) ==
  MadsEventsSP(cfg, toggles, MainOf(CS, s), MadsOf(CS, s), CS_prev, CS, EventsOf(CS, s), EventsSPOf(s))
MainTypes(CS, s) == StateMachineTypes(EventsOf(CS, s), EventsSPOf(s))
MadsTypes(CS, s) == CheckTypes(MadsEventsOf(CS, s), MadsEventsSPOf(CS, s))
NewMads(CS, s) == MadsNextState(MainOf(CS, s), MadsOf(CS, s), MadsEventsOf(CS, s), MadsEventsSPOf(CS, s))

\* step() runs the main machine and then MADS; what MADS shares with the main
\* machine is the timer and the alerts.
LEMMA StepParts ==
  ASSUME TypeOK, NEW CS \in CarState, NEW s \in SubMaster, StepWith(CS, s)
  PROVE  /\ initialized' = Ready(s) /\ CS_prev' = CS /\ sub' = s /\ UNCHANGED <<cfg, toggles>>
         /\ mismatch_counter' = CounterOf(s)
         /\ sm' = IF cfg.Mads /\ Ready(s)
                    THEN MadsSharedUpdate(MainOf(CS, s), MadsOf(CS, s), MadsEventsOf(CS, s), MadsEventsSPOf(CS, s))
                    ELSE MainOf(CS, s)
         /\ mads' = IF ~cfg.Mads THEN mads
                    ELSE [(IF Ready(s)
                             THEN MadsStateMachineUpdate(MainOf(CS, s), MadsOf(CS, s), MadsEventsOf(CS, s),
                                                         MadsEventsSPOf(CS, s))
                             ELSE MadsOf(CS, s)) EXCEPT !.enabled_prev = Enabled(MainOf(CS, s))]
BY DEF StepWith, Ready, CounterOf, EventsOf, EventsSPOf, MainOf, MadsOf, MadsEventsOf, MadsEventsSPOf

\* The types of those parts; the main machine moves only after the start-up.
LEMMA StepTypes ==
  ASSUME TypeOK, NEW CS \in CarState, NEW s \in SubMaster
  PROVE  /\ Ready(s) \in BOOLEAN
         /\ CounterOf(s) \in 0 .. MISMATCH_LIMIT
         /\ MainOf(CS, s) \in StateMachineRecord
         /\ MainOf(CS, s) = IF Ready(s) THEN StateMachineUpdate(sm, MainTypes(CS, s)) ELSE sm
         /\ MadsOf(CS, s) \in MadsRecord
         /\ MadsOf(CS, s).state = mads.state
         /\ MadsOf(CS, s).enabled_prev = mads.enabled_prev
         /\ MadsOf(CS, s).lateral_mismatch_counter = LateralMismatch(mads, MainOf(CS, s), s)
<1>1. Ready(s) \in BOOLEAN
  BY DEF Ready, TypeOK, SubMaster
<1>2. CounterOf(s) \in 0 .. MISMATCH_LIMIT
  BY MismatchCounterType DEF CounterOf, TypeOK
<1>3. MainOf(CS, s) \in StateMachineRecord
  BY MainUpdateType DEF MainOf, TypeOK
<1>4. MainOf(CS, s) = IF Ready(s) THEN StateMachineUpdate(sm, MainTypes(CS, s)) ELSE sm
  BY DEF MainOf, MainUpdate, MainTypes
<1>5. LateralMismatch(mads, MainOf(CS, s), s) \in 0 .. MISMATCH_LIMIT
  BY LateralMismatchType DEF TypeOK
<1> QED
  BY <1>1, <1>2, <1>3, <1>4, <1>5 DEF MadsOf, TypeOK, MadsRecord

\* The published state, from those parts.
LEMMA StepResult ==
  ASSUME TypeOK, NEW CS \in CarState, NEW s \in SubMaster, StepWith(CS, s)
  PROVE  /\ sm'.state = MainOf(CS, s).state
         /\ MainOf(CS, s).alerts \subseteq sm'.alerts
         /\ cfg.Mads /\ Ready(s) => mads'.state = NewMads(CS, s)
         /\ ~cfg.Mads \/ ~Ready(s) => mads'.state = mads.state /\ sm' = MainOf(CS, s)
         /\ cfg.Mads => /\ mads'.lateral_mismatch_counter = MadsOf(CS, s).lateral_mismatch_counter
                        /\ mads'.enabled_prev = Enabled(MainOf(CS, s))
<1> DEFINE main == MainOf(CS, s)
           m == MadsOf(CS, s)
           ev == MadsEventsOf(CS, s)
           ev_sp == MadsEventsSPOf(CS, s)
           ready == Ready(s)
<1>1. /\ sm' = IF cfg.Mads /\ ready THEN MadsSharedUpdate(main, m, ev, ev_sp) ELSE main
      /\ mads' = IF ~cfg.Mads THEN mads
                 ELSE [(IF ready THEN MadsStateMachineUpdate(main, m, ev, ev_sp) ELSE m)
                         EXCEPT !.enabled_prev = Enabled(main)]
  BY StepParts
<1>2. /\ main \in StateMachineRecord /\ m \in MadsRecord /\ m.state = mads.state
      /\ ready \in BOOLEAN /\ cfg.Mads \in BOOLEAN
  BY StepTypes DEF TypeOK, Config
<1>3. cfg.Mads /\ ready => NewMads(CS, s) = MadsNextState(main, m, ev, ev_sp)
  BY DEF NewMads
<1> HIDE DEF main, m, ev, ev_sp, ready
<1>4. sm'.state = main.state /\ main.alerts \subseteq sm'.alerts
  <2>1. MadsSharedUpdate(main, m, ev, ev_sp).state = main.state
    BY <1>2, MadsSharedUpdateType
  <2>2. main.alerts \subseteq MadsSharedUpdate(main, m, ev, ev_sp).alerts
    BY <1>2 DEF MadsSharedUpdate, StateMachineRecord
  <2> QED
    BY <1>1, <2>1, <2>2
<1>5. cfg.Mads /\ ready => mads'.state = NewMads(CS, s)
  BY <1>1, <1>2, <1>3, MadsUpdateState
<1>6. ~cfg.Mads \/ ~ready => mads'.state = mads.state /\ sm' = main
  BY <1>1, <1>2 DEF MadsRecord
<1>7. cfg.Mads => /\ mads'.lateral_mismatch_counter = m.lateral_mismatch_counter
                  /\ mads'.enabled_prev = Enabled(main)
  BY <1>1, <1>2 DEF MadsStateMachineUpdate, MadsRecord
<1> QED
  BY <1>4, <1>5, <1>6, <1>7 DEF main, m, ready

\* The alert types that MADS adds to those of the main machine.
LEMMA StepAlerts ==
  ASSUME TypeOK, NEW CS \in CarState, NEW s \in SubMaster, StepWith(CS, s), cfg.Mads, Ready(s)
  PROVE  /\ MadsAlertsAlways(MadsOf(CS, s), MadsTypes(CS, s), NewMads(CS, s)) \subseteq sm'.alerts
         /\ ~Enabled(MainOf(CS, s))
              => MadsAlerts(MadsOf(CS, s), MadsTypes(CS, s), NewMads(CS, s)) \subseteq sm'.alerts
<1>1. MainOf(CS, s) \in StateMachineRecord
  BY StepTypes
<1>2. sm' = MadsSharedUpdate(MainOf(CS, s), MadsOf(CS, s), MadsEventsOf(CS, s), MadsEventsSPOf(CS, s))
  BY StepParts
<1> QED
  BY <1>1, <1>2 DEF MadsSharedUpdate, MadsTypes, NewMads, StateMachineRecord

(***************************************************************************)
(* Which events a step has, and of which types they are.                   *)
(***************************************************************************)
\* An event is there for a reason ...
LEMMA EventCause ==
  ASSUME TypeOK, NEW CS \in CarState, NEW s \in SubMaster, Ready(s), NEW e \in EventsOf(CS, s)
  PROVE  \/ e \in CarEvents(cfg, toggles, CS_prev, CS) /\ CS.canValid
         \/ e \in s.system
         \/ e = "controlsMismatch" /\ CounterOf(s) = MISMATCH_LIMIT
         \/ e = "canBusMissing" /\ CS.canTimeout /\ ~(CS.gear = "park" /\ MadsEnabled(mads))
         \/ e = "canError" /\ ~CS.canTimeout /\ ~CS.canValid
<1>1. CounterOf(s) \in 0 .. MISMATCH_LIMIT
  BY StepTypes
<1> QED
  BY <1>1, MismatchLimitAssumption DEF EventsOf, UpdateEvents, MismatchEvents, CanEvents, When

\* ... and for every reason.
LEMMA EventPresent ==
  ASSUME NEW CS \in CarState, NEW s \in SubMaster, Ready(s)
  PROVE  /\ CS.canValid => CarEvents(cfg, toggles, CS_prev, CS) \subseteq EventsOf(CS, s)
         /\ s.system \subseteq EventsOf(CS, s)
         /\ ~CS.canTimeout /\ ~CS.canValid => "canError" \in EventsOf(CS, s)
         /\ CS.canTimeout /\ ~(CS.gear = "park" /\ MadsEnabled(mads)) => "canBusMissing" \in EventsOf(CS, s)
BY DEF EventsOf, UpdateEvents, CanEvents, When

\* The events of the car, one by one.
LEMMA CarEventCause ==
  ASSUME TypeOK, NEW CS \in CarState, NEW e \in CarEvents(cfg, toggles, CS_prev, CS)
  PROVE  \/ e \in CS.car
         \/ e = "doorOpen" /\ CS.door
         \/ e = "wrongGear" /\ CS.gear # "drive"
         \/ e = "reverseGear" /\ CS.gear = "reverse"
         \/ e = "wrongCarMode" /\ ~CS.available
         \/ e = "brakeHold" /\ CS.brakeHold
         \/ e = "parkBrake" /\ CS.parkBrake
         \/ e = "steerOverride"
         \/ e = "preEnableStandstill"
         \/ e = "gasPressedOverride"
         \/ e = "buttonEnable" /\ CS.buttonEnable
         \/ e = "buttonCancel"
         \/ e = "pcmEnable" /\ CS.cruise
         \/ e = "pcmDisable"
         \/ e = "pedalPressed" /\ PedalPressed(toggles, CS_prev, CS)
BY DEF CarEvents, When

\* The types of each event that may end or refuse an engagement.
LEMMA TypesOfEvents ==
  /\ \A e \in DOMAIN EVENTS : "enable" \in EVENTS[e] <=> e \in {"pcmEnable", "buttonEnable"}
  /\ \A e \in DOMAIN EVENTS : "userDisable" \in EVENTS[e]
       <=> e \in {"reverseGear", "parkBrake", "pedalPressed", "wrongCarMode", "pcmDisable", "buttonCancel",
                  "steerDisengage", "wrongCruiseMode"}
  /\ \A e \in DOMAIN EVENTS : "softDisable" \in EVENTS[e]
       <=> e \in {"doorOpen", "wrongGear", "espActive", "systemSoft"}
  /\ \A e \in DOMAIN EVENTS : "immediateDisable" \in EVENTS[e]
       <=> e \in {"cruiseDisabled", "controlsMismatch", "canError", "canBusMissing", "systemFault"}
  /\ \A e \in DOMAIN EVENTS : "noEntry" \in EVENTS[e]
       <=> e \notin {"brakeHold", "preEnableStandstill", "gasPressedOverride", "steerOverride",
                     "pcmEnable", "buttonEnable", "pcmDisable", "cruiseDisabled"}
BY DEF EVENTS

\* The same for the events of sunnypilot: none is a soft disable.
LEMMA TypesOfEventsSP ==
  /\ \A e \in DOMAIN EVENTS_SP : "enable" \in EVENTS_SP[e] <=> e \in {"lkasEnable", "silentLkasEnable"}
  /\ \A e \in DOMAIN EVENTS_SP : "userDisable" \in EVENTS_SP[e]
       <=> e \in {"lkasDisable", "manualSteeringRequired", "silentLkasDisable"}
  /\ \A e \in DOMAIN EVENTS_SP : "softDisable" \notin EVENTS_SP[e]
  /\ \A e \in DOMAIN EVENTS_SP : "immediateDisable" \in EVENTS_SP[e]
       <=> e \in {"controlsMismatchLateral", "customLongitudinalFault"}
  /\ \A e \in DOMAIN EVENTS_SP : "noEntry" \in EVENTS_SP[e]
       <=> e \in GEARS_ALLOW_PAUSED_SILENT \cup {"controlsMismatchLateral"}
<1>1. GEARS_ALLOW_PAUSED_SILENT = {"silentDoorOpen", "silentWrongGear", "silentReverseGear", "silentBrakeHold",
                                   "silentParkBrake"}
  BY DEF GEARS_ALLOW_PAUSED_SILENT, GEARS_ALLOW_PAUSED, SilentEvent
<1> QED
  BY <1>1 DEF EVENTS_SP

\* The table has every event that a step can have.
LEMMA EventsKnown ==
  ASSUME TypeOK, NEW CS \in CarState, NEW s \in SubMaster, Ready(s)
  PROVE  EventsOf(CS, s) \subseteq DOMAIN EVENTS
<1> SUFFICES ASSUME NEW e \in EventsOf(CS, s) PROVE e \in DOMAIN EVENTS
  OBVIOUS
<1> DEFINE known == {"doorOpen", "wrongGear", "reverseGear", "brakeHold", "parkBrake", "pedalPressed",
                     "preEnableStandstill", "gasPressedOverride", "steerOverride", "wrongCarMode", "pcmEnable",
                     "buttonEnable", "pcmDisable", "buttonCancel", "steerDisengage", "wrongCruiseMode",
                     "belowEngageSpeed", "cruiseDisabled", "espActive", "controlsMismatch", "canError",
                     "canBusMissing", "systemSoft", "systemFault", "systemBlock", "selfdriveInitializing"}
<1>1. CS.car \cup s.system \subseteq known
  BY DEF CarState, SubMaster
<1>2. e \in known
  BY <1>1, EventCause, CarEventCause
<1>3. DOMAIN EVENTS = known
  BY DEF EVENTS
<1> QED
  BY <1>2, <1>3

\* A type that a state machine sees was brought by an event.
LEMMA TypeCause ==
  ASSUME NEW events, NEW t \in Types(events)
  PROVE  \E e \in events : t \in EVENTS[e]
BY DEF Types

\* The same for the events of sunnypilot.
LEMMA TypeCauseSP ==
  ASSUME NEW events_sp, NEW t \in TypesSP(events_sp)
  PROVE  \E e \in events_sp : t \in EVENTS_SP[e]
BY DEF TypesSP

\* MADS takes events away and never adds one to the upstream list.
LEMMA MadsEventsFewer ==
  ASSUME NEW CS, NEW s
  PROVE  MadsEventsOf(CS, s) \subseteq EventsOf(CS, s)
BY DEF MadsEventsOf, MadsEvents, Remove

\* What is left of an event in the lists MADS acts on: it is kept, it is silenced
\* and has its silent version, or it is one of those that MADS removes.
LEMMA MadsEventKept ==
  ASSUME NEW CS \in CarState, NEW s \in SubMaster, NEW e \in EventsOf(CS, s),
         e \notin Ignored(MainOf(CS, s), MadsOf(CS, s)),
         e \notin {"wrongCarMode", "pcmDisable", "buttonCancel", "pedalPressed", "wrongCruiseMode",
                   "pcmEnable", "buttonEnable"}
  PROVE  \/ e \in MadsEventsOf(CS, s)
         \/ /\ e \in Silenced(MainOf(CS, s), MadsOf(CS, s), CS, EventsOf(CS, s))
            /\ SilentEvent[e] \in MadsEventsSPOf(CS, s)
<1>1. CASE e \in Silenced(MainOf(CS, s), MadsOf(CS, s), CS, EventsOf(CS, s))
  BY <1>1 DEF MadsEventsSPOf, MadsEventsSP
<1>2. CASE e \notin Silenced(MainOf(CS, s), MadsOf(CS, s), CS, EventsOf(CS, s))
  BY <1>2 DEF MadsEventsOf, MadsEvents, Remove
<1> QED
  BY <1>1, <1>2

\* The events that MADS adds, one by one.
LEMMA MadsEventSPCause ==
  ASSUME NEW CS \in CarState, NEW s \in SubMaster, NEW e \in MadsEventsSPOf(CS, s)
  PROVE  LET main == MainOf(CS, s)
             m == MadsOf(CS, s)
             pedal == pedal_pressed_non_gas_pressed(cfg, CS_prev, CS, EventsOf(CS, s))
             silenced == Silenced(main, m, CS, EventsOf(CS, s))
         IN \/ e = "customLongitudinalFault" /\ s.custom_longitudinal_fault
            \/ \E x \in silenced : e = SilentEvent[x]
            \/ e = "silentLkasDisable" /\ (silenced # {} \/ (cfg.steering_mode_on_brake = "pause" /\ pedal))
            \/ e \in {"wrongCarModeAlertOnly", "pedalPressedAlertOnly", "manualLongitudinalRequired"}
            \/ e = "lkasEnable" /\ CS.available /\ ~CS_prev.available
            \/ e = LkasButtonEvent(main, m) /\ "lkas" \in CS.buttons
            \/ e = "lkasDisable" /\ ~CS.available
            \/ e = "lkasDisable" /\ cfg.steering_mode_on_brake = "disengage" /\ pedal
            \/ e = "silentLkasEnable" /\ m.state = "paused"
            \/ e = "controlsMismatchLateral" /\ m.lateral_mismatch_counter >= MISMATCH_LIMIT
<1> DEFINE main == MainOf(CS, s)
           m == MadsOf(CS, s)
           events == EventsOf(CS, s)
           events_sp == EventsSPOf(s)
           pedal == pedal_pressed_non_gas_pressed(cfg, CS_prev, CS, events)
           silenced == Silenced(main, m, CS, events)
<1>1. \A x \in events_sp : x = "customLongitudinalFault" /\ s.custom_longitudinal_fault
  BY DEF EventsSPOf, PlanEventsSP, When
<1>2. e \in MadsEventsSP(cfg, toggles, main, m, CS_prev, CS, events, events_sp)
  BY DEF MadsEventsSPOf
<1> HIDE DEF main, m, events, events_sp
<1>3. \/ e \in events_sp
      \/ \E x \in silenced : e = SilentEvent[x]
      \/ e = "silentLkasDisable" /\ (silenced # {} \/ (cfg.steering_mode_on_brake = "pause" /\ pedal))
      \/ e \in {"wrongCarModeAlertOnly", "pedalPressedAlertOnly", "manualLongitudinalRequired"}
      \/ e = "lkasEnable" /\ CS.available /\ ~CS_prev.available
      \/ e = LkasButtonEvent(main, m) /\ "lkas" \in CS.buttons
      \/ e = "lkasDisable" /\ ~CS.available
      \/ e = "lkasDisable" /\ cfg.steering_mode_on_brake = "disengage" /\ pedal
      \/ e = "silentLkasEnable" /\ m.state = "paused"
      \/ e = "controlsMismatchLateral" /\ m.lateral_mismatch_counter >= MISMATCH_LIMIT
  <2> HIDE DEF pedal, silenced
  <2> QED
    BY <1>2 DEF MadsEventsSP, When, MainCruiseOff, pedal, silenced
<1> QED
  BY <1>1, <1>3 DEF main, m, events

\* The table of sunnypilot has every event that MADS adds.
LEMMA MadsEventsSPKnown ==
  ASSUME NEW CS \in CarState, NEW s \in SubMaster
  PROVE  MadsEventsSPOf(CS, s) \subseteq DOMAIN EVENTS_SP
<1> SUFFICES ASSUME NEW e \in MadsEventsSPOf(CS, s) PROVE e \in DOMAIN EVENTS_SP
  OBVIOUS
<1>1. \A sm1, m1, evs : \A x \in Silenced(sm1, m1, CS, evs) : SilentEvent[x] \in DOMAIN EVENTS_SP
  BY DEF Silenced, GEARS_ALLOW_PAUSED, SilentEvent, EVENTS_SP
<1>2. LkasButtonEvent(MainOf(CS, s), MadsOf(CS, s)) \in DOMAIN EVENTS_SP
  BY DEF LkasButtonEvent, EVENTS_SP
<1>3. {"customLongitudinalFault", "silentLkasDisable", "wrongCarModeAlertOnly", "pedalPressedAlertOnly",
       "manualLongitudinalRequired", "lkasEnable", "lkasDisable", "silentLkasEnable",
       "controlsMismatchLateral"} \subseteq DOMAIN EVENTS_SP
  BY DEF EVENTS_SP
<1> QED
  BY <1>1, <1>2, <1>3, MadsEventSPCause

(***************************************************************************)
(* What it takes to be engaged after a step.                               *)
(***************************************************************************)
\* The main machine is on after the step only if nothing disabled or refused it.
LEMMA MainOn ==
  ASSUME TypeOK, NEW CS \in CarState, NEW s \in SubMaster, Ready(s), Enabled(MainOf(CS, s))
  PROVE  IF Enabled(sm) THEN MainTypes(CS, s) \cap {"userDisable", "immediateDisable"} = {}
                        ELSE "enable" \in MainTypes(CS, s) /\ "noEntry" \notin MainTypes(CS, s)
<1> DEFINE T == MainTypes(CS, s)
           t == DecrementTimer(sm.timer)
<1>1. MainOf(CS, s) = StateMachineUpdate(sm, T) /\ sm \in StateMachineRecord
  BY StepTypes DEF TypeOK
<1> HIDE DEF T, t
<1>2. NextState(sm, T, t) # "disabled"
  BY <1>1 DEF StateMachineUpdate, t, Enabled, ENABLED_STATES, ACTIVE_STATES
<1>3. sm.state \in State /\ (Enabled(sm) <=> sm.state # "disabled")
  BY <1>1 DEF StateMachineRecord, State, Enabled, ENABLED_STATES, ACTIVE_STATES
<1>4. CASE sm.state = "disabled"
  BY <1>2, <1>3, <1>4 DEF NextState, T
<1>5. CASE sm.state # "disabled"
  BY <1>2, <1>3, <1>5 DEF NextState, T
<1> QED
  BY <1>4, <1>5

\* In particular none of these events was there.
LEMMA MainOnWithout ==
  ASSUME TypeOK, NEW CS \in CarState, NEW s \in SubMaster, Ready(s), Enabled(MainOf(CS, s)),
         NEW e \in EventsOf(CS, s)
  PROVE  /\ ~Enabled(sm) => "noEntry" \notin EVENTS[e]
         /\ Enabled(sm) => "userDisable" \notin EVENTS[e] /\ "immediateDisable" \notin EVENTS[e]
         /\ e \notin {"wrongCarMode", "canError", "canBusMissing", "pedalPressed", "controlsMismatch", "systemFault"}
<1>1. \A t \in EVENTS[e] : t \in MainTypes(CS, s)
  BY EventTypes DEF MainTypes, StateMachineTypes
<1>2. /\ ~Enabled(sm) => "noEntry" \notin EVENTS[e]
      /\ Enabled(sm) => "userDisable" \notin EVENTS[e] /\ "immediateDisable" \notin EVENTS[e]
  BY <1>1, MainOn
<1>3. e \in DOMAIN EVENTS
  BY EventsKnown
<1>4. e \notin {"wrongCarMode", "canError", "canBusMissing", "pedalPressed", "controlsMismatch", "systemFault"}
  BY <1>2, <1>3, TypesOfEvents
<1> QED
  BY <1>2, <1>4

\* MADS starts steering only if something enables it and nothing refuses.
LEMMA MadsOn ==
  ASSUME TypeOK, NEW CS \in CarState, NEW s \in SubMaster, ~MadsActive(mads),
         NewMads(CS, s) \in MADS_ACTIVE_STATES
  PROVE  "enable" \in MadsTypes(CS, s) /\ "noEntry" \notin MadsTypes(CS, s)
<1> DEFINE main == MainOf(CS, s)
           m == MadsOf(CS, s)
           ev == MadsEventsOf(CS, s)
           ev_sp == MadsEventsSPOf(CS, s)
           T == CheckTypes(ev, ev_sp)
<1>1. NewMads(CS, s) = MadsNextState(main, m, ev, ev_sp) /\ MadsTypes(CS, s) = T
  BY DEF NewMads, MadsTypes
<1>2. m.state \in {"disabled", "paused"}
  BY StepTypes DEF TypeOK, MadsRecord, MadsState, MadsActive, MADS_ACTIVE_STATES
<1> HIDE DEF main, m, ev, ev_sp, T
<1> QED
  BY <1>1, <1>2 DEF MadsNextState, MADS_ACTIVE_STATES, NoEntry, T

\* What engages the main machine comes from the car, over a valid CAN bus.
LEMMA EnablingCause ==
  ASSUME TypeOK, NEW CS \in CarState, NEW s \in SubMaster, Ready(s), "enable" \in MainTypes(CS, s)
  PROVE  /\ EnableEvents(EventsOf(CS, s)) # {}
         /\ CS.canValid
         /\ CS.cruise \/ CS.buttonEnable
<1>1. PICK e \in EventsOf(CS, s) : "enable" \in EVENTS[e]
  BY TypeCause DEF MainTypes, StateMachineTypes
<1>2. e \in {"pcmEnable", "buttonEnable"}
  BY <1>1, EventsKnown, TypesOfEvents
<1>3. e \in CarEvents(cfg, toggles, CS_prev, CS) /\ CS.canValid
  BY <1>2, EventCause DEF SubMaster
<1>4. CS.cruise \/ CS.buttonEnable
  BY <1>2, <1>3, CarEventCause DEF CarState
<1> QED
  BY <1>1, <1>2, <1>3, <1>4 DEF EnableEvents

\* An engaged main machine has main cruise on, or the CAN bus was lost in park.
LEMMA MainOnCruise ==
  ASSUME TypeOK, NEW CS \in CarState, NEW s \in SubMaster, Ready(s), Enabled(MainOf(CS, s))
  PROVE  CS.available \/ (CS.canTimeout /\ CS.gear = "park")
<1> SUFFICES ASSUME ~(CS.canTimeout /\ CS.gear = "park") PROVE CS.available
  BY DEF CarState
<1>1. CS.canValid
  BY EventPresent, MainOnWithout DEF CarState
<1>2. ~CS.available => "wrongCarMode" \in EventsOf(CS, s)
  BY <1>1, EventPresent DEF CarEvents, When
<1> QED
  BY <1>2, MainOnWithout DEF CarState

\* The brand's cruise-off report and an engaged main machine exclude each other.
LEMMA CruiseOffNotOn ==
  ASSUME TypeOK, NEW CS \in CarState, NEW s \in SubMaster, CruiseOffReport(CS), Ready(s),
         Enabled(MainOf(CS, s))
  PROVE  "cruiseDisabled" \notin EventsOf(CS, s)
<1> SUFFICES ASSUME "cruiseDisabled" \in EventsOf(CS, s) PROVE FALSE
  OBVIOUS
<1>0. "cruiseDisabled" \in DOMAIN EVENTS /\ "belowEngageSpeed" \in DOMAIN EVENTS
  BY DEF EVENTS
<1>1. ~Enabled(sm)
  BY <1>0, MainOnWithout, TypesOfEvents
<1>2. (CS.cruise \/ CS.buttonEnable) /\ CS.canValid
  BY <1>1, MainOn, EnablingCause
<1>3. "cruiseDisabled" \in CS.car
  BY EventCause, CarEventCause DEF SubMaster
<1>4. "belowEngageSpeed" \in CS.car
  BY <1>2, <1>3 DEF CruiseOffReport, CarState
<1>5. "belowEngageSpeed" \in EventsOf(CS, s)
  BY <1>2, <1>4, EventPresent DEF CarEvents
<1> QED
  BY <1>0, <1>1, <1>5, MainOnWithout, TypesOfEvents

\* A soft disable that the engaged main machine sees has time left, unless it
\* pre-enables.
LEMMA MainSoft ==
  ASSUME TypeOK, NEW CS \in CarState, NEW s \in SubMaster, Ready(s), Enabled(MainOf(CS, s)),
         "softDisable" \in MainTypes(CS, s), sm.state # "preEnabled"
  PROVE  /\ MainOf(CS, s).state = "softDisabling"
         /\ MainOf(CS, s).timer > 0
<1> DEFINE T == MainTypes(CS, s)
           t == DecrementTimer(sm.timer)
<1>1. MainOf(CS, s) = StateMachineUpdate(sm, T) /\ sm \in StateMachineRecord
  BY StepTypes DEF TypeOK
<1>2. PICK e \in EventsOf(CS, s) : "softDisable" \in EVENTS[e]
  BY TypeCause DEF MainTypes, StateMachineTypes
<1>3. "noEntry" \in EVENTS[e]
  BY <1>2, EventsKnown, TypesOfEvents
<1>4. Enabled(sm) /\ T \cap {"userDisable", "immediateDisable"} = {}
  BY <1>3, MainOnWithout, MainOn
<1> HIDE DEF T, t
<1>5. sm.state \in {"enabled", "overriding", "softDisabling"} /\ "softDisable" \in T
  BY <1>4 DEF Enabled, ENABLED_STATES, ACTIVE_STATES, T
<1>6. NextState(sm, T, t) # "disabled"
  BY <1>1 DEF StateMachineUpdate, t, Enabled, ENABLED_STATES, ACTIVE_STATES
<1>7. /\ NextState(sm, T, t) = "softDisabling"
      /\ sm.state = "softDisabling" => t > 0
  BY <1>4, <1>5, <1>6 DEF NextState
<1>8. /\ MainOf(CS, s).state = "softDisabling"
      /\ MainOf(CS, s).timer = IF sm.state # "softDisabling" THEN SOFT_DISABLE_FRAMES ELSE t
  BY <1>1, <1>7 DEF StateMachineUpdate, t
<1> QED
  BY <1>7, <1>8, SoftDisableAssumption

\* What can stop the steering.
LEMMA MadsOff ==
  ASSUME TypeOK, NEW CS \in CarState, NEW s \in SubMaster, MadsActive(mads),
         NewMads(CS, s) \notin MADS_ACTIVE_STATES
  PROVE  \/ "userDisable" \in MadsTypes(CS, s)
         \/ "immediateDisable" \in MadsTypes(CS, s)
         \/ /\ "softDisable" \in MadsTypes(CS, s) /\ mads.state = "softDisabling"
            /\ ~(MainOf(CS, s).timer > 0)
<1> DEFINE main == MainOf(CS, s)
           m == MadsOf(CS, s)
           ev == MadsEventsOf(CS, s)
           ev_sp == MadsEventsSPOf(CS, s)
           T == CheckTypes(ev, ev_sp)
<1>1. NewMads(CS, s) = MadsNextState(main, m, ev, ev_sp) /\ MadsTypes(CS, s) = T
  BY DEF NewMads, MadsTypes
<1>2. m.state = mads.state /\ m.state \in MADS_ACTIVE_STATES
  BY StepTypes DEF MadsActive
<1> SUFFICES ASSUME "userDisable" \notin T, "immediateDisable" \notin T
             PROVE  "softDisable" \in T /\ m.state = "softDisabling" /\ ~(main.timer > 0)
  BY <1>1, <1>2
<1> HIDE DEF main, m, ev, ev_sp, T
<1>3. EngagedState(T) \in MADS_ACTIVE_STATES
  BY DEF EngagedState, MADS_ACTIVE_STATES
<1> QED
  BY <1>1, <1>2, <1>3 DEF MadsNextState, MADS_ACTIVE_STATES, T

\* The types that MADS sees were brought by events of one list or the other.
LEMMA MadsTypeCause ==
  ASSUME TypeOK, NEW CS \in CarState, NEW s \in SubMaster, Ready(s), NEW t \in MadsTypes(CS, s)
  PROVE  \/ \E e \in MadsEventsOf(CS, s) : e \in EventsOf(CS, s) /\ e \in DOMAIN EVENTS /\ t \in EVENTS[e]
         \/ \E e \in MadsEventsSPOf(CS, s) : e \in DOMAIN EVENTS_SP /\ t \in EVENTS_SP[e]
<1>1. t \in Types(MadsEventsOf(CS, s)) \/ t \in TypesSP(MadsEventsSPOf(CS, s))
  BY DEF MadsTypes, CheckTypes
<1>2. CASE t \in Types(MadsEventsOf(CS, s))
  BY <1>2, TypeCause, MadsEventsFewer, EventsKnown
<1>3. CASE t \in TypesSP(MadsEventsSPOf(CS, s))
  BY <1>3, TypeCauseSP, MadsEventsSPKnown
<1> QED
  BY <1>1, <1>2, <1>3

\* MADS sees all types of both lists.
LEMMA MadsTypeSeen ==
  ASSUME NEW CS, NEW s
  PROVE  /\ \A e \in MadsEventsOf(CS, s) : EVENTS[e] \subseteq MadsTypes(CS, s)
         /\ \A e \in MadsEventsSPOf(CS, s) : EVENTS_SP[e] \subseteq MadsTypes(CS, s)
BY EventTypes, EventTypesSP DEF MadsTypes, CheckTypes

\* MADS never reacts to what it removed.
LEMMA MadsEventsWithout ==
  ASSUME NEW CS \in CarState, NEW s \in SubMaster, NEW e \in MadsEventsOf(CS, s)
  PROVE  /\ e \notin {"wrongCarMode", "pcmDisable", "pedalPressed", "wrongCruiseMode"}
         /\ e = "buttonCancel" => "buttonCancel" \in CS.twice
         /\ e \in {"cruiseDisabled", "espActive"} => ~LateralOnly(MainOf(CS, s), MadsOf(CS, s))
         /\ e \in {"pcmEnable", "buttonEnable"}
              => ~block_unified_engagement_mode(toggles, MainOf(CS, s), MadsOf(CS, s))
<1> DEFINE main == MainOf(CS, s)
           m == MadsOf(CS, s)
           events == EventsOf(CS, s)
<1>1. CS.twice \subseteq {"buttonCancel", "belowEngageSpeed"}
  BY DEF CarState
<1>2. e \in MadsEvents(cfg, toggles, main, m, CS_prev, CS, events)
  BY DEF MadsEventsOf
<1> HIDE DEF main, m, events
<1>3. e \notin {"wrongCarMode", "pcmDisable", "pedalPressed", "wrongCruiseMode"}
      /\ (e = "buttonCancel" => "buttonCancel" \in CS.twice)
  BY <1>1, <1>2 DEF MadsEvents, Remove
<1>4. e \in {"cruiseDisabled", "espActive"} => ~LateralOnly(main, m)
  BY <1>1, <1>2 DEF MadsEvents, Remove, Ignored
<1>5. e \in {"pcmEnable", "buttonEnable"} => ~block_unified_engagement_mode(toggles, main, m)
  BY <1>1, <1>2 DEF MadsEvents, Remove, EnableEvents
<1> QED
  BY <1>3, <1>4, <1>5 DEF main, m

(***************************************************************************)
(* The inductive invariant.                                                *)
(***************************************************************************)
\* MADS knows whether the main machine was engaged after the last step, which
\* is how it tells a fresh engagement from one that goes on.
PrevKept == cfg.Mads => (mads.enabled_prev <=> Enabled(sm))

\* While the main machine is engaged main cruise was on in the last step, so a
\* rising edge of it cannot follow; a CAN bus lost in park hides it.
CruiseSeen == Enabled(sm) => CS_prev.available \/ (CS_prev.canTimeout /\ CS_prev.gear = "park")

\* A soft disable is on the screen while its timer runs.  The main machine may
\* have seen it while it pre-enabled, and then goes on without.
SoftAnnounced ==
  /\ sm.state = "softDisabling" => "softDisable" \in sm.alerts
  /\ mads.state = "softDisabling"
       => "softDisable" \in sm.alerts \/ sm.state \in {"preEnabled", "enabled", "overriding"}

\* MismatchBounded needs Dormant because a step before the start-up is over, and
\* a step without MADS, leave the machines alone and the counters not; the
\* action properties need what a step knows of the one before.
SelfdrivedInv ==
  /\ TypeOK /\ Dormant /\ MismatchBounded
  /\ PrevKept /\ CruiseSeen /\ SoftAnnounced /\ CruiseOffReport(CS_prev)

\* The machines are left alone before the start-up is over and without MADS.
LEMMA StepDormant ==
  ASSUME SelfdrivedInv, NEW CS \in CarState, NEW s \in SubMaster, StepWith(CS, s)
  PROVE  Dormant'
<1>1. TypeOK /\ Dormant
  BY DEF SelfdrivedInv
<1>2. ~initialized' => ~initialized /\ ~Ready(s)
  BY <1>1, StepParts DEF Ready, TypeOK
<1>3. CASE ~initialized'
  <2>1. MainOf(CS, s) = sm
    BY <1>1, <1>2, <1>3, StepTypes
  <2> QED
    BY <1>1, <1>2, <1>3, <2>1, StepResult DEF Dormant
<1>4. CASE initialized'
  BY <1>1, <1>4, StepParts, StepResult DEF Dormant
<1>5. initialized' \in BOOLEAN
  BY <1>1, StepParts, StepTypes
<1> QED
  BY <1>3, <1>4, <1>5

\* At the limit each counter raises its event in the same step, and that event
\* ends the engagement and refuses a new one.
LEMMA StepMismatch ==
  ASSUME SelfdrivedInv, NEW CS \in CarState, NEW s \in SubMaster, StepWith(CS, s)
  PROVE  MismatchBounded'
<1>0. TypeOK /\ Dormant
  BY DEF SelfdrivedInv
<1>1. Enabled(sm') => mismatch_counter' < MISMATCH_LIMIT
  <2> SUFFICES ASSUME Enabled(sm'), CounterOf(s) = MISMATCH_LIMIT PROVE FALSE
    BY <1>0, StepParts, StepTypes, MismatchLimitAssumption
  <2>1. Enabled(MainOf(CS, s))
    BY <1>0, StepResult DEF Enabled
  <2>2. Ready(s)
    BY <1>0, <2>1, StepTypes DEF Dormant, Ready, TypeOK, Enabled, ENABLED_STATES, ACTIVE_STATES
  <2>3. "controlsMismatch" \in EventsOf(CS, s)
    BY <2>2, MismatchLimitAssumption DEF EventsOf, UpdateEvents, MismatchEvents, When
  <2> QED
    BY <1>0, <2>1, <2>2, <2>3, MainOnWithout
<1>2. MadsActive(mads') => mads'.lateral_mismatch_counter < MISMATCH_LIMIT
  <2> SUFFICES ASSUME MadsActive(mads') PROVE mads'.lateral_mismatch_counter < MISMATCH_LIMIT
    OBVIOUS
  <2>1. cfg.Mads /\ Ready(s) /\ mads'.state = NewMads(CS, s)
    BY <1>0, StepResult, StepTypes DEF Dormant, Ready, TypeOK, Config, MadsActive, MADS_ACTIVE_STATES
  <2>2. MadsOf(CS, s).lateral_mismatch_counter # MISMATCH_LIMIT
    <3> SUFFICES ASSUME MadsOf(CS, s).lateral_mismatch_counter = MISMATCH_LIMIT PROVE FALSE
      OBVIOUS
    <3>1. "controlsMismatchLateral" \in MadsEventsSPOf(CS, s)
      BY MismatchLimitAssumption DEF MadsEventsSPOf, MadsEventsSP, When
    <3>2. {"immediateDisable", "noEntry"} \subseteq EVENTS_SP["controlsMismatchLateral"]
      BY DEF EVENTS_SP
    <3>3. {"immediateDisable", "noEntry"} \subseteq MadsTypes(CS, s)
      BY <3>1, <3>2, MadsTypeSeen
    <3>4. NewMads(CS, s) \in {"disabled", "paused"}
      BY <1>0, <3>3, StepTypes, MadsStops DEF NewMads, MadsTypes
    <3> QED
      BY <2>1, <3>4 DEF MadsActive, MADS_ACTIVE_STATES
  <2>3. MadsOf(CS, s).lateral_mismatch_counter \in 0 .. MISMATCH_LIMIT
    BY <1>0, StepTypes DEF MadsRecord
  <2> QED
    BY <1>0, <2>1, <2>2, <2>3, StepResult, MismatchLimitAssumption
<1> QED
  BY <1>1, <1>2 DEF MismatchBounded

\* The step keeps what the next one compares with: enabled_prev is the main
\* machine, and an engaged one has seen main cruise.
LEMMA StepMemory ==
  ASSUME SelfdrivedInv, NEW CS \in CarState, NEW s \in SubMaster, StepWith(CS, s)
  PROVE  PrevKept' /\ CruiseSeen'
<1>0. TypeOK /\ Dormant
  BY DEF SelfdrivedInv
<1>1. PrevKept'
  BY <1>0, StepParts, StepResult DEF PrevKept, Enabled
<1>2. CruiseSeen'
  <2> SUFFICES ASSUME Enabled(sm') PROVE CS.available \/ (CS.canTimeout /\ CS.gear = "park")
    BY <1>0, StepParts DEF CruiseSeen
  <2>1. Enabled(MainOf(CS, s))
    BY <1>0, StepResult DEF Enabled
  <2>2. Ready(s)
    BY <1>0, <2>1, StepTypes DEF Dormant, Ready, TypeOK, Enabled, ENABLED_STATES, ACTIVE_STATES
  <2> QED
    BY <1>0, <2>1, <2>2, MainOnCruise
<1> QED
  BY <1>1, <1>2

\* The soft disable type is never brought by MADS, and whoever acts on it puts
\* the alert on the screen.
LEMMA SoftFromMain ==
  ASSUME TypeOK, NEW CS \in CarState, NEW s \in SubMaster, Ready(s), "softDisable" \in MadsTypes(CS, s)
  PROVE  "softDisable" \in MainTypes(CS, s)
<1>1. PICK e \in EventsOf(CS, s) : "softDisable" \in EVENTS[e]
  BY MadsTypeCause, TypesOfEventsSP
<1> QED
  BY <1>1, EventTypes DEF MainTypes, StateMachineTypes

\* A MADS machine in its soft disable has a reason, and adds it to the alerts.
LEMMA MadsSoft ==
  ASSUME TypeOK, NEW CS \in CarState, NEW s \in SubMaster, NewMads(CS, s) = "softDisabling"
  PROVE  /\ "softDisable" \in MadsTypes(CS, s)
         /\ "softDisable" \in MadsAlerts(MadsOf(CS, s), MadsTypes(CS, s), NewMads(CS, s))
<1> DEFINE main == MainOf(CS, s)
           m == MadsOf(CS, s)
           ev == MadsEventsOf(CS, s)
           ev_sp == MadsEventsSPOf(CS, s)
           T == CheckTypes(ev, ev_sp)
<1>1. NewMads(CS, s) = MadsNextState(main, m, ev, ev_sp) /\ MadsTypes(CS, s) = T
  BY DEF NewMads, MadsTypes
<1>2. m.state \in MadsState
  BY StepTypes DEF MadsRecord
<1> HIDE DEF main, m, ev, ev_sp, T
<1>3. EngagedState(T) # "softDisabling"
  BY DEF EngagedState
<1>4. /\ m.state \in {"enabled", "overriding", "softDisabling"}
      /\ "userDisable" \notin T /\ "immediateDisable" \notin T /\ "softDisable" \in T
  BY <1>1, <1>2, <1>3 DEF MadsNextState, MadsState, T
<1>5. "softDisable" \in MadsAlerts(m, T, "softDisabling")
  BY <1>4 DEF MadsAlerts
<1> QED
  BY <1>1, <1>4, <1>5 DEF m

\* After the step a soft disable of either machine is announced.
LEMMA StepSoft ==
  ASSUME SelfdrivedInv, NEW CS \in CarState, NEW s \in SubMaster, StepWith(CS, s)
  PROVE  SoftAnnounced'
<1>0. TypeOK /\ Dormant /\ SoftAnnounced
  BY DEF SelfdrivedInv
<1>1. MainOf(CS, s).state = "softDisabling" => "softDisable" \in MainOf(CS, s).alerts
  <2>1. CASE ~Ready(s)
    BY <1>0, <2>1, StepTypes DEF SoftAnnounced
  <2>2. CASE Ready(s)
    <3> DEFINE T == MainTypes(CS, s)
               t == DecrementTimer(sm.timer)
    <3>1. MainOf(CS, s) = StateMachineUpdate(sm, T) /\ sm.state \in State
      BY <1>0, <2>2, StepTypes DEF TypeOK, StateMachineRecord
    <3> HIDE DEF T, t
    <3>2. NextState(sm, T, t) = "softDisabling"
            => /\ sm.state \in {"enabled", "overriding", "softDisabling"}
               /\ T \cap {"userDisable", "immediateDisable"} = {}
      BY <3>1 DEF NextState, State
    <3>3. NextState(sm, T, t) = "softDisabling" => "softDisable" \in NextAlerts(sm, T, NextState(sm, T, t))
      BY <3>2 DEF NextAlerts
    <3> QED
      BY <3>1, <3>3 DEF StateMachineUpdate, t
  <2> QED
    BY <1>0, <2>1, <2>2, StepTypes
<1>2. sm'.state = "softDisabling" => "softDisable" \in sm'.alerts
  BY <1>0, <1>1, StepResult
<1>3. ASSUME mads'.state = "softDisabling"
      PROVE  "softDisable" \in sm'.alerts \/ sm'.state \in {"preEnabled", "enabled", "overriding"}
  <2>1. cfg.Mads /\ Ready(s) /\ NewMads(CS, s) = "softDisabling"
    BY <1>0, <1>3, StepResult, StepTypes DEF Dormant, Ready, TypeOK, Config
  <2>2. CASE ~Enabled(MainOf(CS, s))
    BY <1>0, <2>1, <2>2, MadsSoft, StepAlerts
  <2>3. CASE Enabled(MainOf(CS, s))
    BY <1>0, <1>2, <2>3, StepResult DEF Enabled, ENABLED_STATES, ACTIVE_STATES
  <2> QED
    BY <2>2, <2>3
<1> QED
  BY <1>2, <1>3 DEF SoftAnnounced

(***************************************************************************)
(* What each action property says of one step.                             *)
(***************************************************************************)
\* An immediate disable beats everything else in both machines.
LEMMA StepImmediate ==
  ASSUME SelfdrivedInv, NEW CS \in CarState, NEW s \in SubMaster, StepWith(CS, s),
         initialized', ImmediateCause(CS, s, mads)
  PROVE  /\ Enabled(sm) => ~Enabled(sm')
         /\ MadsEnabled(mads) => ~MadsActive(mads')
<1>0. TypeOK /\ Dormant /\ Ready(s)
  BY StepParts DEF SelfdrivedInv
<1> DEFINE kept == {"systemFault", "canError", "canBusMissing"}
<1>1. \/ \E e \in kept : e \in EventsOf(CS, s)
      \/ "customLongitudinalFault" \in EventsSPOf(s)
  BY <1>0, EventPresent DEF ImmediateCause, EventsSPOf, PlanEventsSP, When, CarState
<1>2. \A e \in kept : e \in EventsOf(CS, s) => e \in MadsEventsOf(CS, s)
  BY <1>0, MadsEventKept DEF Silenced, GEARS_ALLOW_PAUSED, SilentEvent, Ignored
<1>3. "customLongitudinalFault" \in EventsSPOf(s) => "customLongitudinalFault" \in MadsEventsSPOf(CS, s)
  BY DEF MadsEventsSPOf, MadsEventsSP
<1>4. /\ \A e \in kept : "immediateDisable" \in EVENTS[e]
      /\ "immediateDisable" \in EVENTS_SP["customLongitudinalFault"]
  BY DEF EVENTS, EVENTS_SP
<1>5. "immediateDisable" \in MainTypes(CS, s) /\ "immediateDisable" \in MadsTypes(CS, s)
  <2> HIDE DEF kept
  <2>1. CASE \E e \in kept : e \in EventsOf(CS, s)
    BY <1>2, <1>4, <2>1, EventTypes, MadsTypeSeen DEF MainTypes, StateMachineTypes
  <2>2. CASE "customLongitudinalFault" \in EventsSPOf(s)
    BY <1>3, <1>4, <2>2, MadsTypeSeen DEF MainTypes, StateMachineTypes
  <2> QED
    BY <1>1, <2>1, <2>2
<1>6. Enabled(sm) => ~Enabled(sm')
  BY <1>0, <1>5, MainOn, StepResult DEF Enabled
<1>7. ASSUME MadsEnabled(mads) PROVE ~MadsActive(mads')
  <2>1. mads.state # "disabled" /\ cfg.Mads
    BY <1>0, <1>7 DEF MadsEnabled, MADS_ENABLED_STATES, MADS_ACTIVE_STATES, Dormant, TypeOK, Config
  <2>2. NewMads(CS, s) \in {"disabled", "paused"}
    BY <1>0, <1>5, <2>1, StepTypes, MadsStops DEF NewMads, MadsTypes
  <2> QED
    BY <1>0, <2>1, <2>2, StepResult DEF MadsActive, MADS_ACTIVE_STATES
<1> QED
  BY <1>6, <1>7

\* The event that engages the main machine reaches MADS, and nothing MADS adds
\* refuses it.
LEMMA StepUnified ==
  ASSUME SelfdrivedInv, NEW CS \in CarState, NEW s \in SubMaster, StepWith(CS, s),
         cfg.Mads, toggles.unified_engagement_mode, ~Enabled(sm), Enabled(sm'), mads.state = "disabled"
  PROVE  MadsActive(mads')
<1>0. TypeOK /\ PrevKept /\ ~mads.enabled_prev
  BY DEF SelfdrivedInv, PrevKept
<1> DEFINE main == MainOf(CS, s)
           m == MadsOf(CS, s)
<1>1. Enabled(main) /\ Ready(s)
  BY <1>0, StepResult, StepTypes DEF Enabled
<1>2. "enable" \in MainTypes(CS, s) /\ "noEntry" \notin MainTypes(CS, s)
  BY <1>0, <1>1, MainOn
<1>3. EnableEvents(EventsOf(CS, s)) # {} /\ CS.canValid
  BY <1>0, <1>1, <1>2, EnablingCause
<1>4. CS.available
  <2>1. ~CS.available => "wrongCarMode" \in EventsOf(CS, s)
    BY <1>1, <1>3, EventPresent DEF CarEvents, When
  <2> QED
    BY <1>0, <1>1, <2>1, MainOnWithout DEF CarState
<1>5. m.state = "disabled" /\ ~m.enabled_prev /\ m.lateral_mismatch_counter = 0
  BY <1>0, StepTypes DEF LateralMismatch, MadsActive, MADS_ACTIVE_STATES
<1>6. ~MadsEnabled(m) /\ ~LateralOnly(main, m)
  BY <1>5 DEF LateralOnly, MadsEnabled, MADS_ENABLED_STATES, MADS_ACTIVE_STATES
<1>7. Silenced(main, m, CS, EventsOf(CS, s)) = {}
  BY <1>6 DEF Silenced
<1>8. "enable" \in MadsTypes(CS, s)
  <2>1. PICK e \in EventsOf(CS, s) : e \in {"pcmEnable", "buttonEnable"}
    BY <1>3 DEF EnableEvents
  <2>2. ~block_unified_engagement_mode(toggles, main, m)
    BY <1>5, <1>6 DEF block_unified_engagement_mode
  <2>3. ~MainCruiseOff(cfg, CS)
    BY <1>4 DEF MainCruiseOff
  <2>4. e \in MadsEventsOf(CS, s)
    <3> HIDE DEF main, m
    <3> QED
      BY <1>6, <1>7, <2>1, <2>2, <2>3 DEF MadsEventsOf, MadsEvents, Remove, Ignored, main, m
  <2>5. "enable" \in EVENTS[e]
    BY <2>1 DEF EVENTS
  <2> QED
    BY <2>4, <2>5, MadsTypeSeen
<1>9. "noEntry" \notin MadsTypes(CS, s)
  <2> SUFFICES ASSUME "noEntry" \in MadsTypes(CS, s) PROVE FALSE
    OBVIOUS
  <2>1. CASE \E e \in EventsOf(CS, s) : "noEntry" \in EVENTS[e]
    BY <1>2, <2>1, EventTypes DEF MainTypes, StateMachineTypes
  <2>2. CASE \E e \in MadsEventsSPOf(CS, s) : e \in DOMAIN EVENTS_SP /\ "noEntry" \in EVENTS_SP[e]
    <3>1. PICK e \in MadsEventsSPOf(CS, s) : e \in GEARS_ALLOW_PAUSED_SILENT \cup {"controlsMismatchLateral"}
      BY <2>2, TypesOfEventsSP
    <3>2. GEARS_ALLOW_PAUSED_SILENT = {"silentDoorOpen", "silentWrongGear", "silentReverseGear",
                                       "silentBrakeHold", "silentParkBrake"}
      BY DEF GEARS_ALLOW_PAUSED_SILENT, GEARS_ALLOW_PAUSED, SilentEvent
    <3>3. LkasButtonEvent(main, m) \notin GEARS_ALLOW_PAUSED_SILENT \cup {"controlsMismatchLateral"}
      BY <3>2 DEF LkasButtonEvent
    <3>4. ~(m.lateral_mismatch_counter >= MISMATCH_LIMIT)
      BY <1>5, MismatchLimitAssumption
    <3> QED
      BY <1>7, <3>1, <3>2, <3>3, <3>4, MadsEventSPCause
  <2> QED
    BY <1>0, <1>1, <2>1, <2>2, MadsTypeCause
<1>10. NewMads(CS, s) \in {"enabled", "overriding"}
  BY <1>5, <1>8, <1>9 DEF NewMads, MadsTypes, MadsNextState, NoEntry, EngagedState
<1> QED
  BY <1>0, <1>1, <1>10, StepResult DEF MadsActive, MADS_ACTIVE_STATES

\* While the engagement goes on MADS does not take the events that started it,
\* and main cruise has no rising edge.
LEMMA StepLkas ==
  ASSUME SelfdrivedInv, NEW CS \in CarState, NEW s \in SubMaster, StepWith(CS, s),
         cfg.Mads, Enabled(sm), Enabled(sm'), mads.state = "disabled",
         ~(CS_prev.canTimeout /\ CS_prev.gear = "park"), MadsEnabled(mads')
  PROVE  "lkas" \in CS.buttons
<1>0. TypeOK /\ mads.enabled_prev /\ CS_prev.available
  BY DEF SelfdrivedInv, PrevKept, CruiseSeen
<1> DEFINE main == MainOf(CS, s)
           m == MadsOf(CS, s)
<1>1. Enabled(main) /\ m.enabled_prev /\ m.state = "disabled"
  BY <1>0, StepResult, StepTypes DEF Enabled
<1>2. Ready(s) /\ mads'.state = NewMads(CS, s)
  BY <1>0, StepResult, StepTypes DEF MadsEnabled, MADS_ENABLED_STATES, MADS_ACTIVE_STATES
<1>3. "enable" \in MadsTypes(CS, s)
  <2> HIDE DEF main, m
  <2> QED
    BY <1>1, <1>2 DEF NewMads, MadsTypes, MadsNextState, MadsEnabled, MADS_ENABLED_STATES, MADS_ACTIVE_STATES, m
<1>4. block_unified_engagement_mode(toggles, main, m)
  BY <1>1 DEF block_unified_engagement_mode
<1>5. ~\E e \in MadsEventsOf(CS, s) : e \in DOMAIN EVENTS /\ "enable" \in EVENTS[e]
  BY <1>4, TypesOfEvents, MadsEventsWithout
<1>6. PICK e \in MadsEventsSPOf(CS, s) : e \in {"lkasEnable", "silentLkasEnable"}
  BY <1>0, <1>2, <1>3, <1>5, MadsTypeCause, TypesOfEventsSP
<1>7. \A x \in Silenced(main, m, CS, EventsOf(CS, s)) : SilentEvent[x] \notin {"lkasEnable", "silentLkasEnable"}
  BY DEF Silenced, GEARS_ALLOW_PAUSED, SilentEvent
<1> QED
  BY <1>0, <1>1, <1>6, <1>7, MadsEventSPCause

\* What makes the car undrivable reaches MADS under its own name or a silent one,
\* and refuses the entry.
LEMMA StepDrivable ==
  ASSUME SelfdrivedInv, NEW CS \in CarState, NEW s \in SubMaster, StepWith(CS, s),
         ~MadsActive(mads), MadsActive(mads'), ~(CS.canTimeout /\ CS.gear = "park")
  PROVE  /\ CS.canValid /\ ~CS.canTimeout
         /\ CS.gear = "drive" /\ ~CS.door /\ ~CS.parkBrake
         /\ s.system = {}
<1>0. TypeOK
  BY DEF SelfdrivedInv
<1>1. cfg.Mads /\ Ready(s) /\ NewMads(CS, s) \in MADS_ACTIVE_STATES
  BY <1>0, StepResult, StepTypes DEF TypeOK, Config, MadsActive
<1>2. "noEntry" \notin MadsTypes(CS, s)
  BY <1>0, <1>1, MadsOn
<1> DEFINE refusing == {"doorOpen", "wrongGear", "parkBrake", "canError", "canBusMissing",
                        "systemSoft", "systemFault", "systemBlock"}
<1>3. \A e \in refusing : e \notin EventsOf(CS, s)
  <2> SUFFICES ASSUME NEW e \in refusing, e \in EventsOf(CS, s) PROVE FALSE
    OBVIOUS
  <2>1. "noEntry" \in EVENTS[e]
    BY DEF EVENTS
  <2>2. \/ e \in MadsEventsOf(CS, s)
        \/ /\ e \in GEARS_ALLOW_PAUSED
           /\ SilentEvent[e] \in MadsEventsSPOf(CS, s)
    BY MadsEventKept DEF Ignored, Silenced
  <2>3. e \in GEARS_ALLOW_PAUSED => "noEntry" \in EVENTS_SP[SilentEvent[e]]
    BY DEF GEARS_ALLOW_PAUSED, SilentEvent, EVENTS_SP
  <2> QED
    BY <1>2, <2>1, <2>2, <2>3, MadsTypeSeen
<1> HIDE DEF refusing
<1>4. s.system = {}
  BY <1>1, <1>3, EventPresent DEF refusing, SubMaster
<1>5. ~CS.canTimeout /\ CS.canValid
  BY <1>1, <1>3, EventPresent DEF refusing, CarState
<1>6. CS.gear = "drive" /\ ~CS.door /\ ~CS.parkBrake
  BY <1>1, <1>3, <1>5, EventPresent DEF refusing, CarEvents, When, CarState
<1> QED
  BY <1>4, <1>5, <1>6

\* The brake turns the main machine off first, so that MADS sees lateral-only
\* driving and pauses, or disengages.
LEMMA StepBrake ==
  ASSUME SelfdrivedInv, NEW CS \in CarState, NEW s \in SubMaster, StepWith(CS, s),
         cfg.steering_mode_on_brake \in {"pause", "disengage"}, MadsActive(mads), CS.canValid,
         CS.brake, ~CS_prev.brake \/ ~CS.standstill, ~(CS.gas /\ ~CS_prev.gas)
  PROVE  ~MadsActive(mads')
<1>0. TypeOK /\ Dormant
  BY DEF SelfdrivedInv
<1> DEFINE main == MainOf(CS, s)
           m == MadsOf(CS, s)
           events == EventsOf(CS, s)
<1>1. cfg.Mads /\ Ready(s) /\ m.state \in MADS_ACTIVE_STATES
  BY <1>0, StepTypes DEF Dormant, MadsActive, MADS_ACTIVE_STATES, TypeOK, Config, Ready
<1>2. "pedalPressed" \in events
  BY <1>1, EventPresent DEF CarEvents, When, PedalPressed
<1>3. ~Enabled(main)
  BY <1>0, <1>1, <1>2, MainOnWithout
<1>4. LateralOnly(main, m) /\ MadsEnabled(m) /\ m.state # "paused"
  BY <1>1, <1>3 DEF LateralOnly, MadsEnabled, MADS_ENABLED_STATES, MADS_ACTIVE_STATES
<1>5. pedal_pressed_non_gas_pressed(cfg, CS_prev, CS, events)
  BY <1>2 DEF pedal_pressed_non_gas_pressed
<1>6. \E e \in {"lkasDisable", "silentLkasDisable"} : e \in MadsEventsSPOf(CS, s)
  <2> HIDE DEF main, m, events
  <2> QED
    BY <1>4, <1>5 DEF MadsEventsSPOf, MadsEventsSP, When, main, m, events
<1>7. "userDisable" \in MadsTypes(CS, s)
  <2>1. \A e \in {"lkasDisable", "silentLkasDisable"} : "userDisable" \in EVENTS_SP[e]
    BY DEF EVENTS_SP
  <2> QED
    BY <1>6, <2>1, MadsTypeSeen
<1>8. NewMads(CS, s) \in {"disabled", "paused"}
  <2>1. m.state # "disabled"
    BY <1>1 DEF MADS_ACTIVE_STATES
  <2> HIDE DEF main, m
  <2> QED
    BY <1>7, <2>1 DEF NewMads, MadsTypes, MadsNextState, m
<1> QED
  BY <1>0, <1>1, <1>8, StepResult DEF MadsActive, MADS_ACTIVE_STATES

\* An upstream event that still reaches MADS and may stop the steering while the
\* bus is fine.
LEMMA UpstreamLoss ==
  ASSUME SelfdrivedInv, NEW CS \in CarState, NEW s \in SubMaster, Ready(s), CruiseOffReport(CS),
         MadsActive(mads), NEW e \in MadsEventsOf(CS, s), e \in EventsOf(CS, s), e \in DOMAIN EVENTS
  PROVE  /\ "userDisable" \in EVENTS[e] => \/ CS.gear # "drive" \/ CS.parkBrake
                                           \/ "buttonCancel" \in CS.twice \/ "steerDisengage" \in CS.car
         /\ "immediateDisable" \in EVENTS[e]
              => \/ "systemFault" \in s.system \/ CounterOf(s) = MISMATCH_LIMIT
                 \/ ~CS.canValid /\ ~CS.canTimeout
                 \/ CS.canTimeout /\ CS.gear # "park"
         /\ "softDisable" \in EVENTS[e] => CS.door \/ CS.gear # "drive" \/ s.system # {} \/ Enabled(MainOf(CS, s))
<1>0. TypeOK
  BY DEF SelfdrivedInv
<1>1. MadsEnabled(mads) /\ MadsEnabled(MadsOf(CS, s))
  BY <1>0, StepTypes DEF MadsActive, MadsEnabled, MADS_ENABLED_STATES
<1>2. /\ e \notin {"wrongCarMode", "pcmDisable", "pedalPressed", "wrongCruiseMode"}
      /\ e = "buttonCancel" => "buttonCancel" \in CS.twice
      /\ e \in {"cruiseDisabled", "espActive"} => Enabled(MainOf(CS, s))
  BY <1>1, MadsEventsWithout DEF LateralOnly
<1>3. e # "cruiseDisabled"
  BY <1>0, <1>2, CruiseOffNotOn
<1>4. CS.car \subseteq {"espActive", "cruiseDisabled", "belowEngageSpeed", "steerDisengage", "wrongCruiseMode"}
      /\ s.system \subseteq {"systemSoft", "systemFault", "systemBlock"}
  BY DEF CarState, SubMaster
<1>5. "userDisable" \in EVENTS[e] => \/ CS.gear # "drive" \/ CS.parkBrake
                                     \/ "buttonCancel" \in CS.twice \/ "steerDisengage" \in CS.car
  <2> SUFFICES ASSUME "userDisable" \in EVENTS[e]
               PROVE  CS.gear # "drive" \/ CS.parkBrake \/ "buttonCancel" \in CS.twice \/ "steerDisengage" \in CS.car
    OBVIOUS
  <2>1. e \in {"reverseGear", "parkBrake", "buttonCancel", "steerDisengage"}
    BY <1>2, TypesOfEvents
  <2>2. e \in CarEvents(cfg, toggles, CS_prev, CS)
    BY <1>0, <1>4, <2>1, EventCause
  <2> QED
    BY <1>0, <1>2, <1>4, <2>1, <2>2, CarEventCause
<1>6. "immediateDisable" \in EVENTS[e]
        => \/ "systemFault" \in s.system \/ CounterOf(s) = MISMATCH_LIMIT
           \/ ~CS.canValid /\ ~CS.canTimeout
           \/ CS.canTimeout /\ CS.gear # "park"
  <2> SUFFICES ASSUME "immediateDisable" \in EVENTS[e]
               PROVE  \/ "systemFault" \in s.system \/ CounterOf(s) = MISMATCH_LIMIT
                      \/ ~CS.canValid /\ ~CS.canTimeout
                      \/ CS.canTimeout /\ CS.gear # "park"
    OBVIOUS
  <2>1. e \in {"controlsMismatch", "canError", "canBusMissing", "systemFault"}
    BY <1>3, TypesOfEvents
  <2>2. e \notin CarEvents(cfg, toggles, CS_prev, CS)
    BY <1>0, <1>4, <2>1, CarEventCause
  <2> QED
    BY <1>0, <1>1, <1>4, <2>1, <2>2, EventCause DEF CarState
<1>7. "softDisable" \in EVENTS[e] => CS.door \/ CS.gear # "drive" \/ s.system # {} \/ Enabled(MainOf(CS, s))
  <2> SUFFICES ASSUME "softDisable" \in EVENTS[e], s.system = {}, ~Enabled(MainOf(CS, s))
               PROVE  CS.door \/ CS.gear # "drive"
    OBVIOUS
  <2>1. e \in {"doorOpen", "wrongGear", "systemSoft"}
    BY <1>2, TypesOfEvents
  <2>2. e \in CarEvents(cfg, toggles, CS_prev, CS)
    BY <1>0, <2>1, EventCause
  <2> QED
    BY <1>0, <1>4, <2>1, <2>2, CarEventCause
<1> QED
  BY <1>5, <1>6, <1>7

\* Every way to lose the steering has one of the listed causes.
LEMMA StepCause ==
  ASSUME SelfdrivedInv, NEW CS \in CarState, NEW s \in SubMaster, CruiseOffReport(CS), StepWith(CS, s),
         cfg.Mads, MadsActive(mads), ~MadsActive(mads'), sm.state # "preEnabled"
  PROVE  \/ LossCause(CS, s, mads')
         \/ CS.gas /\ toggles.disengage_on_accelerator # cfg.disengage_on_accelerator
<1>0. TypeOK /\ Dormant
  BY DEF SelfdrivedInv
<1> DEFINE main == MainOf(CS, s)
           m == MadsOf(CS, s)
           silenced == Silenced(main, m, CS, EventsOf(CS, s))
           pedal == pedal_pressed_non_gas_pressed(cfg, CS_prev, CS, EventsOf(CS, s))
           Goal == \/ LossCause(CS, s, mads')
                   \/ CS.gas /\ toggles.disengage_on_accelerator # cfg.disengage_on_accelerator
<1>1. Ready(s) /\ NewMads(CS, s) \notin MADS_ACTIVE_STATES
  BY <1>0, StepResult DEF Dormant, MadsActive, MADS_ACTIVE_STATES, TypeOK, Ready
<1>2. mismatch_counter' = CounterOf(s)
      /\ mads'.lateral_mismatch_counter = m.lateral_mismatch_counter
      /\ m.lateral_mismatch_counter \in 0 .. MISMATCH_LIMIT
  BY <1>0, StepParts, StepResult, StepTypes DEF MadsRecord
<1>3. \A x \in silenced : CS.door \/ CS.gear # "drive" \/ CS.brakeHold \/ CS.parkBrake
  <2> SUFFICES ASSUME NEW x \in silenced PROVE CS.door \/ CS.gear # "drive" \/ CS.brakeHold \/ CS.parkBrake
    OBVIOUS
  <2>1. x \in EventsOf(CS, s) /\ x \in {"doorOpen", "wrongGear", "reverseGear", "brakeHold", "parkBrake"}
    BY DEF Silenced, GEARS_ALLOW_PAUSED, SilentEvent
  <2>2. x \in CarEvents(cfg, toggles, CS_prev, CS)
    BY <1>0, <1>1, <2>1, EventCause DEF SubMaster
  <2> QED
    BY <1>0, <2>1, <2>2, CarEventCause DEF CarState
<1>4. pedal => CS.brake \/ CS.regen
               \/ (CS.gas /\ toggles.disengage_on_accelerator /\ ~cfg.disengage_on_accelerator)
  <2> SUFFICES ASSUME pedal
               PROVE  CS.brake \/ CS.regen
                      \/ (CS.gas /\ toggles.disengage_on_accelerator /\ ~cfg.disengage_on_accelerator)
    OBVIOUS
  <2>1. "pedalPressed" \in EventsOf(CS, s) /\ ~(CS.gas /\ ~CS_prev.gas /\ cfg.disengage_on_accelerator)
    BY DEF pedal_pressed_non_gas_pressed
  <2>2. PedalPressed(toggles, CS_prev, CS)
    BY <1>0, <1>1, <2>1, EventCause, CarEventCause DEF CarState, SubMaster
  <2> QED
    BY <2>1, <2>2 DEF PedalPressed
<1>5. pedal /\ cfg.steering_mode_on_brake # "remainActive" => Goal
  BY <1>0, <1>4 DEF LossCause, TypeOK, Toggles, Config
<1>6. (\E x \in silenced : TRUE) => Goal
  BY <1>3 DEF LossCause
<1> HIDE DEF silenced, pedal
<1>7. CASE "userDisable" \in MadsTypes(CS, s)
  <2>1. CASE \E e \in MadsEventsOf(CS, s) : e \in EventsOf(CS, s) /\ e \in DOMAIN EVENTS /\ "userDisable" \in EVENTS[e]
    BY <1>1, <2>1, UpstreamLoss DEF LossCause
  <2>2. CASE \E e \in MadsEventsSPOf(CS, s) : e \in DOMAIN EVENTS_SP /\ "userDisable" \in EVENTS_SP[e]
    <3>1. PICK e \in MadsEventsSPOf(CS, s) : e \in {"lkasDisable", "manualSteeringRequired", "silentLkasDisable"}
      BY <2>2, TypesOfEventsSP
    <3>2. \/ \E x \in silenced : TRUE
          \/ cfg.steering_mode_on_brake # "remainActive" /\ pedal
          \/ "lkas" \in CS.buttons \/ ~CS.available
      BY <3>1, MadsEventSPCause DEF silenced, pedal
    <3>3. "lkas" \in CS.buttons \/ ~CS.available => Goal
      BY DEF LossCause
    <3> QED
      BY <1>5, <1>6, <3>2, <3>3
  <2> QED
    BY <1>0, <1>1, <1>7, <2>1, <2>2, MadsTypeCause
<1>8. CASE "immediateDisable" \in MadsTypes(CS, s)
  <2>1. CASE \E e \in MadsEventsOf(CS, s) : e \in EventsOf(CS, s) /\ e \in DOMAIN EVENTS /\ "immediateDisable" \in EVENTS[e]
    BY <1>1, <1>2, <2>1, UpstreamLoss DEF LossCause, ImmediateCause
  <2>2. CASE \E e \in MadsEventsSPOf(CS, s) : e \in DOMAIN EVENTS_SP /\ "immediateDisable" \in EVENTS_SP[e]
    <3>1. PICK e \in MadsEventsSPOf(CS, s) : e \in {"controlsMismatchLateral", "customLongitudinalFault"}
      BY <2>2, TypesOfEventsSP
    <3>2. \A x \in silenced : SilentEvent[x] \notin {"controlsMismatchLateral", "customLongitudinalFault"}
      BY DEF silenced, Silenced, GEARS_ALLOW_PAUSED, SilentEvent
    <3>3. LkasButtonEvent(main, m) \notin {"controlsMismatchLateral", "customLongitudinalFault"}
      BY DEF LkasButtonEvent
    <3>4. s.custom_longitudinal_fault \/ m.lateral_mismatch_counter >= MISMATCH_LIMIT
      BY <3>1, <3>2, <3>3, MadsEventSPCause DEF silenced
    <3>5. s.custom_longitudinal_fault \/ mads'.lateral_mismatch_counter = MISMATCH_LIMIT
      BY <1>2, <3>4, MismatchLimitAssumption
    <3> QED
      BY <3>5 DEF LossCause, ImmediateCause
  <2> QED
    BY <1>0, <1>1, <1>8, <2>1, <2>2, MadsTypeCause
<1>9. CASE "softDisable" \in MadsTypes(CS, s) /\ mads.state = "softDisabling" /\ ~(main.timer > 0)
  <2>1. ~Enabled(main)
    BY <1>0, <1>1, <1>9, SoftFromMain, MainSoft
  <2>2. PICK e \in MadsEventsOf(CS, s) : e \in EventsOf(CS, s) /\ e \in DOMAIN EVENTS /\ "softDisable" \in EVENTS[e]
    BY <1>0, <1>1, <1>9, MadsTypeCause, TypesOfEventsSP
  <2> QED
    BY <1>1, <2>1, <2>2, UpstreamLoss DEF LossCause
<1> QED
  BY <1>0, <1>1, <1>7, <1>8, <1>9, MadsOff

\* The main machine says why it stops.
LEMMA MainAnnounces ==
  ASSUME TypeOK, NEW CS \in CarState, NEW s \in SubMaster, Ready(s), Enabled(sm), ~Enabled(MainOf(CS, s))
  PROVE  \/ MainOf(CS, s).alerts \cap {"userDisable", "immediateDisable"} # {}
         \/ sm.state = "softDisabling"
<1> DEFINE T == MainTypes(CS, s)
           t == DecrementTimer(sm.timer)
<1>1. MainOf(CS, s) = StateMachineUpdate(sm, T) /\ sm.state \in State /\ sm.state # "disabled"
  BY StepTypes DEF TypeOK, StateMachineRecord, Enabled, ENABLED_STATES, ACTIVE_STATES
<1> HIDE DEF T, t
<1>2. NextState(sm, T, t) \notin ENABLED_STATES
  BY <1>1 DEF StateMachineUpdate, t, Enabled
<1>3. CASE T \cap {"userDisable", "immediateDisable"} = {}
  BY <1>1, <1>2, <1>3 DEF NextState, State, ENABLED_STATES, ACTIVE_STATES
<1>4. CASE T \cap {"userDisable", "immediateDisable"} # {}
  <2>1. NextAlerts(sm, T, NextState(sm, T, t)) \cap {"userDisable", "immediateDisable"} # {}
    BY <1>1, <1>4 DEF NextAlerts
  <2> QED
    BY <1>1, <2>1 DEF StateMachineUpdate, t
<1> QED
  BY <1>3, <1>4

\* Steering is not lost in silence.
LEMMA StepAnnounced ==
  ASSUME SelfdrivedInv, NEW CS \in CarState, NEW s \in SubMaster, CruiseOffReport(CS), StepWith(CS, s),
         LatActive(sm, mads), ~LatActive(sm', mads'), sm.state # "preEnabled",
         ~(s.custom_longitudinal_fault /\ ~Enabled(sm) /\ Enabled(sm'))
  PROVE  \/ sm'.alerts \cap {"userDisable", "immediateDisable"} # {}
         \/ "softDisable" \in sm.alerts
<1>0. TypeOK /\ Dormant /\ SoftAnnounced /\ cfg.Mads \in BOOLEAN
  BY DEF SelfdrivedInv, TypeOK, Config
<1> DEFINE main == MainOf(CS, s)
           m == MadsOf(CS, s)
           T == MadsTypes(CS, s)
<1>1. main.alerts \subseteq sm'.alerts /\ (Enabled(sm') <=> Enabled(main)) /\ (Active(sm') <=> Active(main))
  BY <1>0, StepResult DEF Enabled, Active
<1>2. CASE ~cfg.Mads
  <2>1. Active(sm) /\ ~Active(main) /\ Enabled(sm)
    BY <1>1, <1>2 DEF LatActive, Active, Enabled, ENABLED_STATES
  <2>2. Ready(s)
    BY <1>0, <2>1, StepTypes
  <2>3. ~Enabled(main)
    <3>1. main.state # "preEnabled"
      <4> DEFINE MT == MainTypes(CS, s)
                 t == DecrementTimer(sm.timer)
      <4>1. main = StateMachineUpdate(sm, MT)
        BY <1>0, <2>2, StepTypes
      <4>2. sm.state \in {"enabled", "softDisabling", "overriding"}
        BY <2>1 DEF Active, ACTIVE_STATES
      <4> HIDE DEF MT, t, main
      <4>3. NextState(sm, MT, t) # "preEnabled"
        BY <4>2 DEF NextState
      <4> QED
        BY <4>1, <4>3 DEF StateMachineUpdate, t
    <3> QED
      BY <2>1, <3>1 DEF Enabled, Active, ENABLED_STATES
  <2> QED
    BY <1>0, <1>1, <2>1, <2>2, <2>3, MainAnnounces DEF SoftAnnounced
<1>3. CASE cfg.Mads
  <2>1. MadsActive(mads) /\ ~MadsActive(mads')
    BY <1>3 DEF LatActive
  <2>2. Ready(s) /\ NewMads(CS, s) \notin MADS_ACTIVE_STATES
    BY <1>0, <1>3, <2>1, StepResult, StepTypes DEF MadsActive
  <2>3. m.state = mads.state /\ m.state \in MADS_ACTIVE_STATES
    BY <1>0, <2>1, StepTypes DEF MadsActive
  <2>4. MadsAlertsAlways(m, T, NewMads(CS, s)) \subseteq sm'.alerts
        /\ (~Enabled(main) => MadsAlerts(m, T, NewMads(CS, s)) \subseteq sm'.alerts)
    BY <1>0, <1>3, <2>2, StepAlerts
  <2>5. CASE "userDisable" \in T
    <3>1. "userDisable" \in MadsAlertsAlways(m, T, NewMads(CS, s))
      BY <2>3, <2>5 DEF MadsAlertsAlways, MADS_ACTIVE_STATES
    <3> QED
      BY <2>4, <3>1
  <2>6. CASE "userDisable" \notin T /\ "immediateDisable" \in T
    <3>1. CASE ~Enabled(main)
      <4>1. "immediateDisable" \in MadsAlerts(m, T, NewMads(CS, s))
        BY <2>3, <2>6 DEF MadsAlerts, MADS_ACTIVE_STATES
      <4> QED
        BY <2>4, <3>1, <4>1
    <3>2. CASE Enabled(main)
      <4>1. \A e \in EventsOf(CS, s) : e \in DOMAIN EVENTS => "immediateDisable" \notin EVENTS[e]
        <5> SUFFICES ASSUME NEW e \in EventsOf(CS, s), e \in DOMAIN EVENTS, "immediateDisable" \in EVENTS[e]
                     PROVE  FALSE
          OBVIOUS
        <5>1. e # "cruiseDisabled"
          BY <1>0, <2>2, <3>2, CruiseOffNotOn
        <5>2. e \in {"controlsMismatch", "canError", "canBusMissing", "systemFault"}
          BY <5>1, TypesOfEvents
        <5> QED
          BY <1>0, <2>2, <3>2, <5>2, MainOnWithout
      <4>2. PICK e \in MadsEventsSPOf(CS, s) : e \in {"controlsMismatchLateral", "customLongitudinalFault"}
        BY <1>0, <2>2, <2>6, <4>1, MadsTypeCause, TypesOfEventsSP
      <4>3. m.lateral_mismatch_counter = 0
        BY <1>0, <3>2, StepTypes DEF LateralMismatch
      <4>4. s.custom_longitudinal_fault
        <5>1. \A x \in Silenced(main, m, CS, EventsOf(CS, s)) :
                SilentEvent[x] \notin {"controlsMismatchLateral", "customLongitudinalFault"}
          BY DEF Silenced, GEARS_ALLOW_PAUSED, SilentEvent
        <5>2. LkasButtonEvent(main, m) \notin {"controlsMismatchLateral", "customLongitudinalFault"}
          BY DEF LkasButtonEvent
        <5>3. ~(m.lateral_mismatch_counter >= MISMATCH_LIMIT)
          BY <4>3, MismatchLimitAssumption
        <5> QED
          BY <4>2, <5>1, <5>2, <5>3, MadsEventSPCause
      <4>5. Enabled(sm)
        BY <1>1, <3>2, <4>4
      <4>6. "immediateDisable" \in MainTypes(CS, s)
        BY <2>2, <4>4 DEF MainTypes, StateMachineTypes, EventsSPOf, PlanEventsSP, When
      <4> QED
        BY <1>0, <2>2, <3>2, <4>5, <4>6, MainOn
    <3> QED
      BY <3>1, <3>2
  <2>7. CASE "softDisable" \in T /\ mads.state = "softDisabling" /\ ~(main.timer > 0)
    <3>1. ~Enabled(main)
      BY <1>0, <2>2, <2>7, SoftFromMain, MainSoft
    <3>2. CASE "softDisable" \in sm.alerts
      BY <3>2
    <3>3. CASE "softDisable" \notin sm.alerts
      <4>1. sm.state \in {"enabled", "overriding"}
        BY <1>0, <2>7, <3>3 DEF SoftAnnounced
      <4>2. Enabled(sm) /\ sm.state # "softDisabling"
        BY <4>1 DEF Enabled, ENABLED_STATES, ACTIVE_STATES
      <4> QED
        BY <1>0, <1>1, <2>2, <3>1, <4>2, MainAnnounces
    <3> QED
      BY <3>2, <3>3
  <2> QED
    BY <1>0, <2>1, <2>2, <2>5, <2>6, <2>7, MadsOff
<1> QED
  BY <1>0, <1>2, <1>3

(***************************************************************************)
(* The steps together, and the theorems.                                   *)
(***************************************************************************)
\* A step of Next is a call of step() on a CarState the car can send, or
\* params_thread flipping a toggle.
LEMMA StepKinds ==
  ASSUME SelfdrivedInv, [Next]_vars
  PROVE  \/ \E CS \in CarState, s \in SubMaster : CruiseOffReport(CS) /\ StepWith(CS, s)
         \/ /\ toggles' # toggles
            /\ UNCHANGED <<cfg, initialized, sm, mads, mismatch_counter, CS_prev, sub>>
         \/ UNCHANGED vars
<1>1. CASE Step
  <2>1. PICK x \in Inputs : StepWith(x.CS, x.sub)
    BY <1>1 DEF Step
  <2>2. x.CS \in CarState /\ x.sub \in SubMaster /\ CruiseOffReport(x.CS)
    BY InputsAssumption, CruiseOffAssumption
  <2> QED
    BY <2>1, <2>2
<1>2. CASE StepStale
  <2>1. PICK x \in Inputs : StepWith(CS_prev, x.sub)
    BY <1>2 DEF StepStale
  <2>2. CS_prev \in CarState /\ x.sub \in SubMaster /\ CruiseOffReport(CS_prev)
    BY InputsAssumption DEF SelfdrivedInv, TypeOK
  <2> QED
    BY <2>1, <2>2
<1>3. CASE ParamsThread
  <2>1. PICK f \in DOMAIN toggles : toggles' = [toggles EXCEPT ![f] = ~@]
    BY <1>3 DEF ParamsThread
  <2>2. toggles' # toggles
    BY <2>1 DEF SelfdrivedInv, TypeOK, Toggles
  <2> QED
    BY <1>3, <2>2 DEF ParamsThread
<1> QED
  BY <1>1, <1>2, <1>3 DEF Next

\* Nothing is engaged at the start.
LEMMA InitInv == Init => SelfdrivedInv
<1> SUFFICES ASSUME Init PROVE SelfdrivedInv
  OBVIOUS
<1>1. ~Enabled(sm) /\ ~MadsActive(mads) /\ mads.state = "disabled" /\ ~mads.enabled_prev
  BY DEF Init, Enabled, ENABLED_STATES, ACTIVE_STATES, StateMachineInit, MadsActive, MADS_ACTIVE_STATES, MadsInit
<1>2. sm.state = "disabled"
  BY DEF Init, StateMachineInit
<1>3. CruiseOffReport(CS_prev)
  BY DEF Init, NewCarState, CruiseOffReport
<1> QED
  BY <1>1, <1>2, <1>3, InitType
     DEF SelfdrivedInv, Dormant, MismatchBounded, PrevKept, CruiseSeen, SoftAnnounced

\* Every step of selfdrived and of params_thread keeps the invariant.
LEMMA Inductive == SelfdrivedInv /\ [Next]_vars => SelfdrivedInv'
<1> SUFFICES ASSUME SelfdrivedInv, [Next]_vars PROVE SelfdrivedInv'
  OBVIOUS
<1>1. TypeOK'
  BY NextType DEF SelfdrivedInv
<1>2. CASE \E CS \in CarState, s \in SubMaster : CruiseOffReport(CS) /\ StepWith(CS, s)
  <2>1. PICK CS \in CarState, s \in SubMaster : CruiseOffReport(CS) /\ StepWith(CS, s)
    BY <1>2
  <2>2. Dormant' /\ MismatchBounded' /\ PrevKept' /\ CruiseSeen' /\ SoftAnnounced'
    BY <2>1, StepDormant, StepMismatch, StepMemory, StepSoft
  <2>3. CruiseOffReport(CS_prev)'
    BY <2>1, StepParts DEF CruiseOffReport, SelfdrivedInv
  <2> QED
    BY <1>1, <2>2, <2>3 DEF SelfdrivedInv
<1>3. CASE UNCHANGED <<cfg, initialized, sm, mads, mismatch_counter, CS_prev, sub>>
  BY <1>1, <1>3 DEF SelfdrivedInv, Dormant, MismatchBounded, PrevKept, CruiseSeen, SoftAnnounced
<1> QED
  BY <1>2, <1>3, StepKinds DEF vars

\* What the action properties say of one step.
ImmediateStep ==
  Stepped /\ initialized' /\ ImmediateCause(CS_prev', sub', mads)
    => /\ Enabled(sm) => ~Enabled(sm')
       /\ MadsEnabled(mads) => ~MadsActive(mads')

AnnouncedStep ==
  LatActive(sm, mads) /\ ~LatActive(sm', mads') /\ sm.state # "preEnabled"
  /\ ~(sub'.custom_longitudinal_fault /\ ~Enabled(sm) /\ Enabled(sm'))
    => \/ sm'.alerts \cap {"userDisable", "immediateDisable"} # {}
       \/ "softDisable" \in sm.alerts

UnifiedStep ==
  cfg.Mads /\ toggles.unified_engagement_mode /\ ~Enabled(sm) /\ Enabled(sm')
  /\ mads.state = "disabled"
    => MadsActive(mads')

LkasStep ==
  Stepped /\ cfg.Mads /\ Enabled(sm) /\ Enabled(sm') /\ mads.state = "disabled"
  /\ ~(CS_prev.canTimeout /\ CS_prev.gear = "park") /\ MadsEnabled(mads')
    => "lkas" \in CS_prev'.buttons

DrivableStep ==
  Stepped /\ ~MadsActive(mads) /\ MadsActive(mads')
  /\ ~(CS_prev'.canTimeout /\ CS_prev'.gear = "park")
    => /\ CS_prev'.canValid /\ ~CS_prev'.canTimeout
       /\ CS_prev'.gear = "drive" /\ ~CS_prev'.door /\ ~CS_prev'.parkBrake
       /\ sub'.system = {}

BrakeStep ==
  Stepped /\ cfg.steering_mode_on_brake \in {"pause", "disengage"}
  /\ MadsActive(mads) /\ CS_prev'.canValid
  /\ CS_prev'.brake /\ (~CS_prev.brake \/ ~CS_prev'.standstill)
  /\ ~(CS_prev'.gas /\ ~CS_prev.gas)
    => ~MadsActive(mads')

CauseStep ==
  Stepped /\ cfg.Mads /\ MadsActive(mads) /\ ~MadsActive(mads') /\ sm.state # "preEnabled"
    => \/ LossCause(CS_prev', sub', mads')
       \/ CS_prev'.gas /\ toggles.disengage_on_accelerator # cfg.disengage_on_accelerator

\* From a state of the invariant every step is as the action properties say.
LEMMA EveryStep ==
  SelfdrivedInv /\ [Next]_vars
    => [ImmediateStep /\ AnnouncedStep /\ UnifiedStep /\ LkasStep /\ DrivableStep /\ BrakeStep /\ CauseStep]_vars
<1> SUFFICES ASSUME SelfdrivedInv, [Next]_vars, vars' # vars
             PROVE  ImmediateStep /\ AnnouncedStep /\ UnifiedStep /\ LkasStep /\ DrivableStep /\ BrakeStep /\ CauseStep
  OBVIOUS
<1>1. CASE \E CS \in CarState, s \in SubMaster : CruiseOffReport(CS) /\ StepWith(CS, s)
  <2>1. PICK CS \in CarState, s \in SubMaster : CruiseOffReport(CS) /\ StepWith(CS, s)
    BY <1>1
  <2>2. CS_prev' = CS /\ sub' = s
    BY <2>1, StepParts DEF SelfdrivedInv
  <2>3. ImmediateStep
    BY <2>1, <2>2, StepImmediate DEF ImmediateStep
  <2>4. AnnouncedStep
    BY <2>1, <2>2, StepAnnounced DEF AnnouncedStep
  <2>5. UnifiedStep
    BY <2>1, <2>2, StepUnified DEF UnifiedStep
  <2>6. LkasStep
    BY <2>1, <2>2, StepLkas DEF LkasStep
  <2>7. DrivableStep
    BY <2>1, <2>2, StepDrivable DEF DrivableStep
  <2>8. BrakeStep
    BY <2>1, <2>2, StepBrake DEF BrakeStep
  <2>9. CauseStep
    BY <2>1, <2>2, StepCause DEF CauseStep
  <2> QED
    BY <2>3, <2>4, <2>5, <2>6, <2>7, <2>8, <2>9
<1>2. CASE toggles' # toggles /\ UNCHANGED <<cfg, initialized, sm, mads, mismatch_counter, CS_prev, sub>>
  <2>1. ~Stepped
    BY <1>2 DEF Stepped
  <2>2. ImmediateStep /\ LkasStep /\ DrivableStep /\ BrakeStep /\ CauseStep
    BY <2>1 DEF ImmediateStep, LkasStep, DrivableStep, BrakeStep, CauseStep
  <2>3. AnnouncedStep /\ UnifiedStep
    BY <1>2 DEF AnnouncedStep, UnifiedStep, LatActive
  <2> QED
    BY <2>2, <2>3
<1> QED
  BY <1>1, <1>2, StepKinds

\* The invariant holds of every state that selfdrived can reach, for any inputs,
\* any cars and any interleaving with params_thread.
THEOREM Safety == Spec => []SelfdrivedInv
BY InitInv, Inductive, PTL DEF Spec

\* The panda never denies for MISMATCH_LIMIT samples what selfdrived keeps
\* engaged, for any limit, any inputs and any interleaving with params_thread.
THEOREM MismatchSafe == Spec => []MismatchBounded
<1>1. SelfdrivedInv => MismatchBounded
  BY DEF SelfdrivedInv
<1> QED
  BY <1>1, Safety, PTL

\* CAN loss, a system fault and the custom longitudinal fault stop both machines
\* in the step that sees them, whatever the other events of that step are and
\* whatever MADS did to them.
THEOREM ImmediateSafe == Spec => ImmediateDisableStops
<1> QED
  BY Safety, EveryStep, PTL DEF Spec, ImmediateDisableStops, ImmediateStep

\* Steering is lost with a disable alert in the same step, or after a soft
\* disable alert, although two machines share one list of alert types and each
\* leaves alerts to the other (current_alert_types).
THEOREM AnnouncedSafe == Spec => LateralLossAnnounced
<1> QED
  BY Safety, EveryStep, PTL DEF Spec, LateralLossAnnounced, AnnouncedStep

\* In Unified Engagement Mode engaging the main machine engages the steering in
\* the same step (block_unified_engagement_mode).
THEOREM UnifiedSafe == Spec => UnifiedEngagement
<1> QED
  BY Safety, EveryStep, PTL DEF Spec, UnifiedEngagement, UnifiedStep

\* Steering that is off stays off during an engagement until the LKAS button is
\* pressed (block_unified_engagement_mode, the main cruise toggle).
THEOREM LkasSafe == Spec => LkasOffHolds
<1> QED
  BY Safety, EveryStep, PTL DEF Spec, LkasOffHolds, LkasStep

\* MADS starts to steer only in a car that can be driven (update_events silences
\* and removes the events that say so).
THEOREM DrivableSafe == Spec => ActivatesOnlyWhenDrivable
<1> QED
  BY Safety, EveryStep, PTL DEF Spec, ActivatesOnlyWhenDrivable, DrivableStep

\* In the Pause and Disengage modes the brake stops the steering at once.
THEOREM BrakeSafe == Spec => BrakeStopsSteering
<1> QED
  BY Safety, EveryStep, PTL DEF Spec, BrakeStopsSteering, BrakeStep

\* The steering stops for one of the listed causes only; cancelling cruise, ESP,
\* low speed and the gas are not among them.
THEOREM CauseSafe == Spec => SteeringLossHasCause
<1> QED
  BY Safety, EveryStep, PTL DEF Spec, SteeringLossHasCause, CauseStep
=============================================================================
