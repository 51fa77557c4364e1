------------------------- MODULE ControlChainProofs -------------------------
(***************************************************************************)
(* ControlChain keeps its types, for every soft disable time, every limit  *)
(* of the mismatch counters and every number of crashes.                   *)
(***************************************************************************)
EXTENDS ControlChain, TLAPS

\* selfdrived's machine after update(), as the step uses it.
Updated == StateMachineUpdate([state |-> state, timer |-> timer, alerts |-> {}],
                              StateMachineTypes(SelfdrivedEvents, {}))

LEMMA UpdatedType == TypeOK => Updated.state \in State /\ Updated.timer \in 0 .. SOFT_DISABLE_FRAMES
<1> SUFFICES ASSUME TypeOK
             PROVE  Updated.state \in State /\ Updated.timer \in 0 .. SOFT_DISABLE_FRAMES
  OBVIOUS
<1> DEFINE sm == [state |-> state, timer |-> timer, alerts |-> {}]
           T == StateMachineTypes(SelfdrivedEvents, {})
<1>1. sm.state \in State /\ DecrementTimer(sm.timer) \in 0 .. SOFT_DISABLE_FRAMES
  BY SoftDisableAssumption DEF TypeOK, DecrementTimer
<1> HIDE DEF sm, T
<1>2. NextState(sm, T, DecrementTimer(sm.timer)) \in State
  BY <1>1 DEF NextState, State
<1> DEFINE new == NextState(sm, T, DecrementTimer(sm.timer))
<1>3. /\ Updated.state = new
      /\ \/ Updated.timer = SOFT_DISABLE_FRAMES
         \/ Updated.timer = DecrementTimer(sm.timer)
  BY DEF Updated, StateMachineUpdate, sm, T
<1> HIDE DEF new
<1> QED
  BY <1>1, <1>2, <1>3, SoftDisableAssumption DEF new

LEMMA TypeInit == Init => TypeOK
<1> SUFFICES ASSUME Init PROVE TypeOK
  OBVIOUS
<1>1. /\ 0 \in 0 .. SOFT_DISABLE_FRAMES /\ 0 \in 0 .. MISMATCH_LIMIT
      /\ 0 \in 0 .. HEARTBEAT_LIMIT - 1 /\ 0 \in 0 .. MAX_CRASHES
  BY SoftDisableAssumption, LimitsAssumption
<1> QED
  BY <1>1 DEF Init, TypeOK, Sample, NoSample, Buttons, State, StateMachineInit

\* The counts of mismatches stop at their limits, the panda's one step before.
LEMMA TypeNext == TypeOK /\ [Next]_vars => TypeOK'
<1> SUFFICES ASSUME TypeOK, [Next]_vars PROVE TypeOK'
  OBVIOUS
<1> USE DEF TypeOK, messages, engagement, panda, Sent
<1>1. NoSample \in Sample
  BY DEF NoSample, Sample, Buttons
<1>2. ASSUME NEW gas \in BOOLEAN, DataSample(gas)
      PROVE  TypeOK'
  <2>1. [button |-> button, gas |-> gas, commIssue |-> commIssue] \in Sample
    BY DEF Sample, commIssue
  <2>2. mismatch_counter' \in 0 .. MISMATCH_LIMIT
    BY <1>2, LimitsAssumption DEF DataSample
  <2> QED
    BY <1>2, <2>1, <2>2 DEF DataSample, Buttons
<1>3. CASE SelfdrivedStep
  <2>1. Updated.state \in State /\ Updated.timer \in 0 .. SOFT_DISABLE_FRAMES
    BY UpdatedType
  <2>2. [NoSample EXCEPT !.gas = seen.gas] \in Sample
    BY <1>1 DEF Sample
  <2>3. /\ state' = Updated.state /\ timer' = Updated.timer
        /\ selfdriveState' = Enabled(Updated)
        /\ seen' = [NoSample EXCEPT !.gas = seen.gas]
        /\ alive' = [alive EXCEPT !["selfdrived"] = TRUE] /\ pc' = "events"
        /\ UNCHANGED <<up, mismatch_counter, onroadEvents, carControl, panda, button, crashes>>
    BY <1>3 DEF SelfdrivedStep, Updated
  <2>4. selfdriveState' \in BOOLEAN
    BY <2>3 DEF Enabled
  <2>5. alive' \in [Proc -> BOOLEAN]
    BY <2>3
  <2> QED
    BY <2>1, <2>2, <2>3, <2>4, <2>5
<1>4. CASE PublishEvents
  BY <1>1, <1>4 DEF PublishEvents, Sample
<1>5. CASE StateControl
  BY <1>5 DEF StateControl, longActive
<1>6. CASE PlannerPublish
  BY <1>6 DEF PlannerPublish
<1>7. CASE Heartbeat
  BY <1>7, LimitsAssumption DEF Heartbeat
<1>8. ASSUME NEW b \in Buttons \ {"none"}, Press(b)
      PROVE  TypeOK'
  BY <1>8 DEF Press
<1>9. ASSUME NEW p \in Proc, Crash(p)
      PROVE  TypeOK'
  <2>1. crashes' \in 0 .. MAX_CRASHES
    BY <1>9, LimitsAssumption DEF Crash
  <2> QED
    BY <1>9, <2>1 DEF Crash
<1>10. ASSUME NEW p \in Proc, TimeOut(p)
       PROVE  TypeOK'
  BY <1>10 DEF TimeOut
<1>11. CASE UNCHANGED vars
  BY <1>11 DEF vars
<1> QED
  BY <1>2, <1>3, <1>4, <1>5, <1>6, <1>7, <1>8, <1>9, <1>10, <1>11 DEF Next, SelfdrivedNext

\* Type correctness: messages, counters and the panda's answer stay in their
\* types; the panda's count of contradicting heartbeats (pandad.cc) never rests
\* at its limit, because reaching it denies control in the same step.
THEOREM TypeCorrect == Spec => []TypeOK
BY TypeInit, TypeNext, PTL DEF Spec
=============================================================================
