-------------------------- MODULE FailClosedProofs --------------------------
(***************************************************************************)
(* The fail-closed path, proved for every soft disable time: a fault of    *)
(* the adapter is not lost on its way to selfdrived, provided that         *)
(* selfdrived samples between two plans.                                   *)
(***************************************************************************)
EXTENDS FailClosed, TLAPS

\* selfdrived's machine after update(), as the step uses it.
Updated ==
  StateMachineUpdate([state |-> state, timer |-> timer, alerts |-> {}],
    StateMachineTypes(SelfdrivedEvents(seen.selfdrived),
                      When(seen.selfdrived.fault, "customLongitudinalFault")))

LEMMA UpdatedType == TypeOK => Updated.state \in State /\ Updated.timer \in 0 .. SOFT_DISABLE_FRAMES
<1> SUFFICES ASSUME TypeOK
             PROVE  Updated.state \in State /\ Updated.timer \in 0 .. SOFT_DISABLE_FRAMES
  OBVIOUS
<1> DEFINE sm == [state |-> state, timer |-> timer, alerts |-> {}]
           T == StateMachineTypes(SelfdrivedEvents(seen.selfdrived),
                                  When(seen.selfdrived.fault, "customLongitudinalFault"))
<1>1. sm.state \in State /\ DecrementTimer(sm.timer) \in 0 .. SOFT_DISABLE_FRAMES
  BY SoftDisableAssumption DEF TypeOK, DecrementTimer
<1> HIDE DEF sm, T
<1>2. NextState(sm, T, DecrementTimer(sm.timer)) \in State
  BY <1>1 DEF NextState, State
<1> DEFINE new == NextState(sm, T, DecrementTimer(sm.timer))
<1>3. /\ Updated.state = new
      /\ \/ Updated.timer = SOFT_DISABLE_FRAMES
         \/ Updated.timer = DecrementTimer(sm.timer)
  BY DEF Updated, StateMachineUpdate, sm, T
<1> HIDE DEF new
<1> QED
  BY <1>1, <1>2, <1>3, SoftDisableAssumption DEF new

\* evaluate() leaves an adapter.
LEMMA EvaluateType ==
  ASSUME NEW a \in Adapter, NEW enabled \in BOOLEAN, NEW long_active \in BOOLEAN,
         NEW evidence \in BOOLEAN, NEW outcome \in Outcome
  PROVE  Evaluate(a, enabled, long_active, evidence, outcome) \in Adapter
<1>1. Lifecycle(a, long_active) \in Adapter
  BY DEF Lifecycle, Adapter
<1> DEFINE b == Lifecycle(a, long_active)
<1> HIDE DEF b
<1>2. b \in Adapter
  BY <1>1 DEF b
<1>3. ASSUME NEW began \in BOOLEAN, NEW fault \in BOOLEAN
      PROVE  [b EXCEPT !.authority_began = began, !.fault_class = fault] \in Adapter
  BY <1>2 DEF Adapter
<1>4. b.authority_began \in BOOLEAN
  BY <1>2 DEF Adapter
<1> QED
  BY <1>2, <1>3, <1>4 DEF Evaluate, b

\* The adapter fails only after it has had authority: while longActive.
LEMMA FaultWhileActive ==
  ASSUME NEW a \in Adapter, NEW enabled \in BOOLEAN, NEW long_active \in BOOLEAN,
         NEW evidence \in BOOLEAN, NEW outcome \in Outcome,
         Evaluate(a, enabled, long_active, evidence, outcome).fault_class, ~a.fault_class
  PROVE  long_active
<1> SUFFICES ASSUME ~long_active PROVE FALSE
  OBVIOUS
<1> DEFINE b == Lifecycle(a, long_active)
<1>1. b \in Adapter /\ ~b.fault_class /\ ~b.authority_began
  BY DEF Lifecycle, Adapter
<1>2. ASSUME NEW began, ~began
      PROVE  ~[b EXCEPT !.authority_began = began, !.fault_class = outcome # "target" /\ began].fault_class
  BY <1>1, <1>2 DEF Adapter
<1> QED
  BY <1>1, <1>2 DEF Evaluate

-----------------------------------------------------------------------------
(***************************************************************************)
(* Types                                                                   *)
(***************************************************************************)
LEMMA TypeInit == Init => TypeOK
<1> SUFFICES ASSUME Init PROVE TypeOK
  OBVIOUS
<1>1. 0 \in 0 .. SOFT_DISABLE_FRAMES /\ 0 \in 0 .. MAX_LAG
  BY SoftDisableAssumption, MaxLagAssumption
<1> QED
  BY <1>1 DEF Init, TypeOK, Sample, NoSample, Buttons, Adapter, State, StateMachineInit

LEMMA TypeNext == TypeOK /\ [Next]_vars => TypeOK'
<1> SUFFICES ASSUME TypeOK, [Next]_vars PROVE TypeOK'
  OBVIOUS
<1> USE DEF TypeOK, messages, engagement
<1>1. NoSample \in Sample
  BY DEF NoSample, Sample, Buttons
<1>2. ASSUME NEW b \in Buttons, NEW gas \in BOOLEAN, NEW soft \in BOOLEAN, DataSample(b, gas, soft)
      PROVE  TypeOK'
  <2>1. [button |-> b, gas |-> gas, soft |-> soft, fault |-> longitudinalPlanSP] \in Sample
    BY DEF Sample
  <2>2. lag' \in 0 .. MAX_LAG
    BY <1>2, MaxLagAssumption DEF DataSample
  <2> QED
    BY <1>2, <2>1, <2>2 DEF DataSample
<1>3. CASE SelfdrivedStep
  <2>1. Updated.state \in State /\ Updated.timer \in 0 .. SOFT_DISABLE_FRAMES
    BY UpdatedType
  <2>2. [NoSample EXCEPT !.gas = seen.selfdrived.gas] \in Sample
    BY <1>1 DEF Sample
  <2>3. /\ state' = Updated.state /\ timer' = Updated.timer
        /\ selfdriveState' = Enabled(Updated) /\ faulted' = (faulted /\ Enabled(Updated))
        /\ seen' = [seen EXCEPT !.selfdrived = [NoSample EXCEPT !.gas = seen.selfdrived.gas]]
        /\ pc' = [pc EXCEPT !.selfdrived = "events"]
        /\ UNCHANGED <<onroadEvents, carControl, longitudinalPlanSP, custom_long,
                       CustomLongitudinalEnabled, lag>>
    BY <1>3 DEF SelfdrivedStep, Updated
  <2> QED
    BY <2>1, <2>2, <2>3 DEF Enabled
<1>4. CASE PublishEvents
  BY <1>1, <1>4 DEF PublishEvents, Sample
<1>5. CASE StateControl
  BY <1>5 DEF StateControl
<1>6. CASE PlanSample
  BY <1>6 DEF PlanSample
<1>7. ASSUME NEW evidence \in BOOLEAN, NEW outcome \in Outcome, Plan(evidence, outcome)
      PROVE  TypeOK'
  <2> DEFINE after == Evaluate(custom_long, CustomLongitudinalEnabled, seen.plannerd, evidence, outcome)
  <2>1. after \in Adapter
    BY EvaluateType
  <2>2. /\ custom_long' = after
        /\ longitudinalPlanSP' = (after.fault_class /\ seen.plannerd)
        /\ faulted' = (faulted \/ (after.fault_class /\ ~custom_long.fault_class
                                     /\ state \in ENABLED_STATES))
        /\ seen' = [seen EXCEPT !.plannerd = FALSE]
        /\ lag' = lag + 1 /\ lag < MAX_LAG
        /\ pc' = [pc EXCEPT !.plannerd = "wait"]
        /\ UNCHANGED <<state, timer, selfdriveState, onroadEvents, carControl,
                       CustomLongitudinalEnabled>>
    BY <1>7 DEF Plan, FaultEvent
  <2>3. lag' \in 0 .. MAX_LAG
    BY <2>2, MaxLagAssumption
  <2> HIDE DEF after
  <2> QED
    BY <2>1, <2>2, <2>3 DEF Adapter
<1>8. CASE Setting
  BY <1>8 DEF Setting
<1>9. CASE UNCHANGED vars
  BY <1>9 DEF vars
<1> QED
  BY <1>2, <1>3, <1>4, <1>5, <1>6, <1>7, <1>8, <1>9 DEF Next, SelfdrivedNext, PlannerNext

\* Type correctness: the loop keeps its messages, latch and timer in their types.
THEOREM TypeCorrect == Spec => []TypeOK
BY TypeInit, TypeNext, PTL DEF Spec

-----------------------------------------------------------------------------
(***************************************************************************)
(* The fault on its way                                                    *)
(***************************************************************************)
\* FaultOnItsWay is not inductive: a plan that carries the fault must not be
\* replaced before it is sampled, so no further plan may be due (the lag is at
\* its limit); and the sample ends only an engagement that is still there.
FaultInv ==
  /\ TypeOK
  /\ faulted => state \in ENABLED_STATES
  /\ faulted => \/ longitudinalPlanSP /\ lag = MAX_LAG
                \/ pc.selfdrived = "work" /\ seen.selfdrived.fault

\* The event of a faulted plan ends an engagement.
LEMMA FaultDisables ==
  ASSUME TypeOK, state \in ENABLED_STATES, seen.selfdrived.fault
  PROVE  ~Enabled(Updated)
<1> DEFINE T == StateMachineTypes(SelfdrivedEvents(seen.selfdrived),
                                  When(seen.selfdrived.fault, "customLongitudinalFault"))
           sm == [state |-> state, timer |-> timer, alerts |-> {}]
<1>1. "immediateDisable" \in T
  BY DEF StateMachineTypes, When
<1>2. sm.state # "disabled"
  BY DEF ENABLED_STATES, ACTIVE_STATES
<1> HIDE DEF T, sm
<1>3. NextState(sm, T, DecrementTimer(sm.timer)) = "disabled"
  BY <1>1, <1>2 DEF NextState
<1>4. Updated.state = "disabled"
  BY <1>3 DEF Updated, StateMachineUpdate, T, sm
<1> QED
  BY <1>4 DEF Enabled, ENABLED_STATES, ACTIVE_STATES

LEMMA FaultNext == MAX_LAG = 1 /\ FaultInv /\ [Next]_vars => FaultInv'
<1> SUFFICES ASSUME MAX_LAG = 1, FaultInv, [Next]_vars PROVE FaultInv'
  OBVIOUS
<1>0. TypeOK /\ TypeOK'
  BY TypeNext DEF FaultInv
<1> USE DEF FaultInv, messages, engagement
<1>1. ASSUME NEW b \in Buttons, NEW gas \in BOOLEAN, NEW soft \in BOOLEAN, DataSample(b, gas, soft)
      PROVE  FaultInv'
  <2>1. faulted => longitudinalPlanSP
    BY <1>1 DEF DataSample
  <2>2. pc'.selfdrived = "work" /\ seen'.selfdrived.fault = longitudinalPlanSP
    BY <1>0, <1>1 DEF DataSample, TypeOK
  <2> QED
    BY <1>0, <1>1, <2>1, <2>2 DEF DataSample
<1>2. CASE SelfdrivedStep
  <2>1. /\ state' = Updated.state
        /\ faulted' = (faulted /\ Enabled(Updated))
        /\ UNCHANGED <<longitudinalPlanSP, lag>>
    BY <1>2 DEF SelfdrivedStep, Updated
  <2>2. faulted' => ~seen.selfdrived.fault
    BY <1>0, <2>1, FaultDisables
  <2>3. faulted' => state' \in ENABLED_STATES
    BY <2>1 DEF Enabled
  <2> QED
    BY <1>0, <2>1, <2>2, <2>3
<1>3. CASE PublishEvents
  BY <1>0, <1>3 DEF PublishEvents
<1>4. CASE StateControl
  BY <1>0, <1>4 DEF StateControl
<1>5. CASE PlanSample
  BY <1>0, <1>5 DEF PlanSample, TypeOK
<1>6. ASSUME NEW evidence \in BOOLEAN, NEW outcome \in Outcome, Plan(evidence, outcome)
      PROVE  FaultInv'
  <2> DEFINE after == Evaluate(custom_long, CustomLongitudinalEnabled, seen.plannerd, evidence, outcome)
  <2>1. /\ longitudinalPlanSP' = (after.fault_class /\ seen.plannerd)
        /\ faulted' = (faulted \/ (after.fault_class /\ ~custom_long.fault_class
                                     /\ state \in ENABLED_STATES))
        /\ lag' = lag + 1 /\ lag < MAX_LAG
        /\ UNCHANGED state
        /\ pc'.selfdrived = pc.selfdrived /\ seen'.selfdrived = seen.selfdrived
    BY <1>0, <1>6 DEF Plan, FaultEvent, TypeOK
  <2>2. lag' = MAX_LAG
    BY <1>0, <2>1 DEF TypeOK
  <2>3. after.fault_class /\ ~custom_long.fault_class => seen.plannerd
    BY <1>0, FaultWhileActive DEF TypeOK
  <2> HIDE DEF after
  <2>4. CASE faulted
    <3>1. pc.selfdrived = "work" /\ seen.selfdrived.fault
      BY <2>1, <2>4
    <3> QED
      BY <1>0, <2>1, <2>4, <3>1
  <2>5. CASE ~faulted
    BY <1>0, <2>1, <2>2, <2>3, <2>5
  <2> QED
    BY <2>4, <2>5
<1>7. CASE Setting
  BY <1>0, <1>7 DEF Setting
<1>8. CASE UNCHANGED vars
  BY <1>0, <1>8 DEF vars
<1> QED
  BY <1>1, <1>2, <1>3, <1>4, <1>5, <1>6, <1>7, <1>8 DEF Next, SelfdrivedNext, PlannerNext

\* A fault of the adapter (wiring.py evaluate, longitudinal_planner.py
\* update_targets) is in the last plan or in the sample of selfdrived as long as
\* the engagement goes on, for every soft disable time, if selfdrived samples
\* between two plans.
THEOREM FaultSafe == ASSUME MAX_LAG = 1 PROVE Spec => []FaultOnItsWay
<1>1. Init => FaultInv
  BY TypeInit DEF Init, FaultInv
<1>2. FaultInv /\ [Next]_vars => FaultInv'
  BY FaultNext
<1>3. FaultInv => FaultOnItsWay
  BY DEF FaultInv, FaultOnItsWay
<1> QED
  BY <1>1, <1>2, <1>3, PTL DEF Spec
=============================================================================
