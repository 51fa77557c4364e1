----------------------------- MODULE FailClosed -----------------------------
(***************************************************************************)
(* The fail-closed path of the custom longitudinal planner, a loop through *)
(* three processes.  plannerd's adapter looks at carControl.longActive,    *)
(* latches an internal fault and asks for an immediate disable through     *)
(* longitudinalPlanSP; selfdrived ends the engagement and publishes        *)
(* selfdriveState, then onroadEvents; controlsd derives longActive from    *)
(* these two.                                                              *)
(*                                                                         *)
(* selfdrived and plannerd take their messages (sm.update), work, and      *)
(* publish; the others run in between.  controlsd's cycle is one action:   *)
(* its output depends on nothing but the two messages it has sampled, so   *)
(* a longer cycle only delays it.  A SubMaster keeps the last message of   *)
(* each service, so a message is lost when the next one comes first.       *)
(***************************************************************************)
EXTENDS StateMachine

CONSTANT MAX_LAG      \* plans published between two samples of selfdrived

ASSUME MaxLagAssumption == MAX_LAG \in Nat \ {0}

Buttons == {"none", "set", "cancel"}

\* What one sample of selfdrived contains, of all the services together.
Sample == [button : Buttons, gas : BOOLEAN, soft : BOOLEAN, fault : BOOLEAN]
NoSample == [button |-> "none", gas |-> FALSE, soft |-> FALSE, fault |-> FALSE]

\* CustomLongitudinalAdapter; its `enabled' is refreshed from the param in each plan.
Adapter == [fault_class : BOOLEAN, authority_began : BOOLEAN, long_active_prev : BOOLEAN]

VARIABLES
  pc,                  \* "wait" for sm.update, "work", "events" (between two sends)
  seen,                \* what the two processes sampled; cleared after use
  state, timer,        \* selfdrived's state machine
  selfdriveState,      \* its field enabled
  onroadEvents,        \* whether one of them has overrideLongitudinal
  carControl,          \* its field longActive
  longitudinalPlanSP,  \* whether its events have customLongitudinalFault
  custom_long,         \* plannerd's adapter
  CustomLongitudinalEnabled,
  faulted,             \* history: the adapter has failed in the present engagement
  lag                  \* plans since the last sample of selfdrived

messages == <<selfdriveState, onroadEvents, carControl, longitudinalPlanSP>>
engagement == <<state, timer, faulted>>
vars == <<pc, seen, engagement, messages, custom_long, CustomLongitudinalEnabled, lag>>

\* The type invariant; selfdrived's timer and the lag stay in their ranges.
TypeOK ==
  /\ pc \in [selfdrived : {"wait", "work", "events"}, plannerd : {"wait", "work"}]
  /\ seen \in [selfdrived : Sample, plannerd : BOOLEAN]
  /\ state \in State /\ timer \in 0 .. SOFT_DISABLE_FRAMES
  /\ selfdriveState \in BOOLEAN /\ onroadEvents \in BOOLEAN
  /\ carControl \in BOOLEAN /\ longitudinalPlanSP \in BOOLEAN
  /\ custom_long \in Adapter /\ CustomLongitudinalEnabled \in BOOLEAN
  /\ faulted \in BOOLEAN /\ lag \in 0 .. MAX_LAG

Init ==
  /\ pc = [selfdrived |-> "wait", plannerd |-> "wait"]
  /\ seen = [selfdrived |-> NoSample, plannerd |-> FALSE]
  /\ state = StateMachineInit.state /\ timer = StateMachineInit.timer
  /\ selfdriveState = FALSE /\ onroadEvents = FALSE
  /\ carControl = FALSE /\ longitudinalPlanSP = FALSE
  /\ custom_long = [fault_class |-> FALSE, authority_began |-> FALSE, long_active_prev |-> FALSE]
  /\ CustomLongitudinalEnabled \in BOOLEAN
  /\ faulted = FALSE /\ lag = 0

-----------------------------------------------------------------------------
(***************************************************************************)
(* selfdrived                                                              *)
(***************************************************************************)
\* data_sample: the driver and the rest of the system, and the last plan.
DataSample(b, gas, soft) ==
  /\ pc.selfdrived = "wait"
  /\ seen' = [seen EXCEPT !.selfdrived =
                [button |-> b, gas |-> gas, soft |-> soft, fault |-> longitudinalPlanSP]]
  /\ lag' = 0
  /\ pc' = [pc EXCEPT !.selfdrived = "work"]
  /\ UNCHANGED <<engagement, messages, custom_long, CustomLongitudinalEnabled>>

\* update_events: of the events, those that matter to this loop.
SelfdrivedEvents(s) ==
  When(s.button = "set", "buttonEnable") \cup When(s.button = "cancel", "buttonCancel")
    \cup When(s.gas, "gasPressedOverride") \cup When(s.soft, "systemSoft")

\* The rest of step(), up to the send of selfdriveState.  The alert types of
\* the state machine go to the driver and not into this loop.
SelfdrivedStep ==
  LET s == seen.selfdrived
      new == StateMachineUpdate([state |-> state, timer |-> timer, alerts |-> {}],
               StateMachineTypes(SelfdrivedEvents(s), When(s.fault, "customLongitudinalFault")))
  IN /\ pc.selfdrived = "work"
     /\ state' = new.state /\ timer' = new.timer
     /\ selfdriveState' = Enabled(new)
     /\ faulted' = (faulted /\ Enabled(new))
     /\ seen' = [seen EXCEPT !.selfdrived = [NoSample EXCEPT !.gas = s.gas]]
     /\ pc' = [pc EXCEPT !.selfdrived = "events"]
     /\ UNCHANGED <<onroadEvents, carControl, longitudinalPlanSP, custom_long,
                    CustomLongitudinalEnabled, lag>>

\* onroadEvents follows in a message of its own.
PublishEvents ==
  /\ pc.selfdrived = "events"
  /\ onroadEvents' = seen.selfdrived.gas
  /\ seen' = [seen EXCEPT !.selfdrived = NoSample]
  /\ pc' = [pc EXCEPT !.selfdrived = "wait"]
  /\ UNCHANGED <<engagement, selfdriveState, carControl, longitudinalPlanSP, custom_long,
                 CustomLongitudinalEnabled, lag>>

(***************************************************************************)
(* controlsd: state_control on whatever it has, with no look at its age.   *)
(***************************************************************************)
StateControl ==
  /\ carControl' = (selfdriveState /\ ~onroadEvents)
  /\ UNCHANGED <<pc, seen, engagement, selfdriveState, onroadEvents, longitudinalPlanSP,
                 custom_long, CustomLongitudinalEnabled, lag>>

(***************************************************************************)
(* plannerd and its adapter                                                *)
(***************************************************************************)
PlanSample ==
  /\ pc.plannerd = "wait"
  /\ seen' = [seen EXCEPT !.plannerd = carControl]
  /\ pc' = [pc EXCEPT !.plannerd = "work"]
  /\ UNCHANGED <<engagement, messages, custom_long, CustomLongitudinalEnabled, lag>>

\* evaluate's engagement lifecycle: the latch is cleared on the rising edge.
Lifecycle(a, long_active) ==
  [fault_class      |-> a.fault_class /\ ~(long_active /\ ~a.long_active_prev),
   authority_began  |-> a.authority_began /\ long_active /\ a.long_active_prev,
   long_active_prev |-> long_active]

\* How the stack's computation ends: with a target, or with an exception before
\* or after evaluate has noted the beginning of authority.
Outcome == {"target", "exception", "late exception"}

\* evaluate: `evidence' is whether the sources could be read and are finite.
Evaluate(a, enabled, long_active, evidence, outcome) ==
  LET b == Lifecycle(a, long_active)
      began == b.authority_began \/ (outcome # "exception" /\ long_active)
  IN IF ~enabled \/ ~evidence THEN a
     ELSE IF b.fault_class THEN b
     ELSE [b EXCEPT !.authority_began = began, !.fault_class = outcome # "target" /\ began]

\* Mutant: the event is decided before evaluate, one plan late.
FaultEvent_Before(before, after, long_active) == before.fault_class /\ long_active

\* update_targets: the event that asks for immediateDisable.
FaultEvent(before, after, long_active) == after.fault_class /\ long_active

\* One update and publish of the planner.
Plan(evidence, outcome) ==
  LET after == Evaluate(custom_long, CustomLongitudinalEnabled, seen.plannerd, evidence, outcome)
  IN /\ pc.plannerd = "work" /\ lag < MAX_LAG
     /\ custom_long' = after
     /\ longitudinalPlanSP' = FaultEvent(custom_long, after, seen.plannerd)
     /\ faulted' = (faulted \/ (after.fault_class /\ ~custom_long.fault_class
                                  /\ state \in ENABLED_STATES))
     /\ seen' = [seen EXCEPT !.plannerd = FALSE]
     /\ lag' = lag + 1
     /\ pc' = [pc EXCEPT !.plannerd = "wait"]
     /\ UNCHANGED <<state, timer, selfdriveState, onroadEvents, carControl,
                    CustomLongitudinalEnabled>>

\* The settings turn the custom longitudinal on or off.
Setting ==
  /\ CustomLongitudinalEnabled' = ~CustomLongitudinalEnabled
  /\ UNCHANGED <<pc, seen, engagement, messages, custom_long, lag>>

-----------------------------------------------------------------------------
SelfdrivedNext ==
  \/ \E b \in Buttons, gas, soft \in BOOLEAN : DataSample(b, gas, soft)
  \/ SelfdrivedStep \/ PublishEvents

PlannerNext == PlanSample \/ \E evidence \in BOOLEAN, outcome \in Outcome : Plan(evidence, outcome)

Next == SelfdrivedNext \/ StateControl \/ PlannerNext \/ Setting

Spec == Init /\ [][Next]_vars

\* The processes run in endless loops.
Fairness == WF_vars(SelfdrivedNext) /\ WF_vars(StateControl) /\ WF_vars(PlannerNext)

FairSpec == Spec /\ Fairness

-----------------------------------------------------------------------------
(***************************************************************************)
(* Properties                                                              *)
(***************************************************************************)
\* wiring.py: "Never silently resume the Consumer-Local Baseline after a
\* Fail-closed fault".  As long as the engagement in which the adapter failed
\* goes on, the request to end it is in the last plan or in the sample that
\* selfdrived is working on.  It does not get lost behind a gas override, which
\* hides the event and resets the latch, provided that selfdrived samples
\* between two plans (MAX_LAG = 1).
FaultOnItsWay ==
  faulted => longitudinalPlanSP \/ (pc.selfdrived = "work" /\ seen.selfdrived.fault)

\* A fault of the adapter ends the engagement in which it happened, whatever
\* the driver, the setting and the evidence do in the meantime; again provided
\* that selfdrived samples between two plans (MAX_LAG = 1).
FaultEndsEngagement == faulted ~> ~faulted
=============================================================================
