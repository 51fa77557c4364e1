---------------------------- MODULE StateMachine ----------------------------
(***************************************************************************)
(* selfdrive/selfdrived/state.py: the engagement state machine.  One call  *)
(* of update() per 100 Hz step; T is the set of event types it finds.      *)
(***************************************************************************)
EXTENDS Naturals, Events

CONSTANT SOFT_DISABLE_FRAMES     \* int(SOFT_DISABLE_TIME / DT_CTRL), 300 in the code

ASSUME SoftDisableAssumption == SOFT_DISABLE_FRAMES \in Nat \ {0}

State == {"disabled", "preEnabled", "enabled", "softDisabling", "overriding"}
ACTIVE_STATES == {"enabled", "softDisabling", "overriding"}
ENABLED_STATES == {"preEnabled"} \cup ACTIVE_STATES

\* state, soft_disable_timer and current_alert_types (a list read as a set).
StateMachineRecord ==
  [state : State, timer : 0 .. SOFT_DISABLE_FRAMES, alerts : SUBSET ET]

StateMachineInit == [state |-> "disabled", timer |-> 0, alerts |-> {"permanent"}]

Enabled(sm) == sm.state \in ENABLED_STATES
Active(sm) == sm.state \in ACTIVE_STATES

-----------------------------------------------------------------------------
OverrideTypes == {"overrideLateral", "overrideLongitudinal"}
Overriding(T) == T \cap OverrideTypes # {}

\* The state that each branch of update() moves to.
NextState(sm, T, timer) ==
  CASE sm.state # "disabled" /\ T \cap {"immediateDisable", "userDisable"} # {} -> "disabled"
    [] sm.state = "disabled" ->
         IF "enable" \notin T \/ "noEntry" \in T THEN "disabled"
         ELSE IF "preEnable" \in T THEN "preEnabled"
         ELSE IF Overriding(T) THEN "overriding" ELSE "enabled"
    [] OTHER ->
         CASE sm.state \in {"enabled", "overriding"} ->
                IF "softDisable" \in T THEN "softDisabling"
                ELSE IF Overriding(T) THEN "overriding" ELSE "enabled"
           [] sm.state = "softDisabling" ->
                IF "softDisable" \notin T THEN "enabled"
                ELSE IF timer > 0 THEN "softDisabling" ELSE "disabled"
           [] sm.state = "preEnabled" ->
                IF "preEnable" \notin T THEN "enabled" ELSE "preEnabled"

\* The alert types that each branch adds to current_alert_types.
NextAlerts(sm, T, new) ==
  CASE sm.state # "disabled" /\ "immediateDisable" \in T -> {"immediateDisable"}
    [] sm.state # "disabled" /\ "immediateDisable" \notin T /\ "userDisable" \in T -> {"userDisable"}
    [] sm.state = "disabled" ->
         IF "enable" \notin T THEN {}
         ELSE IF "noEntry" \in T THEN {"noEntry"} ELSE {"enable"}
    [] OTHER ->
         CASE new = "softDisabling" -> {"softDisable"}
           [] new = "overriding" -> OverrideTypes
           [] new = "preEnabled" -> {"preEnable"}
           [] OTHER -> {}

\* Mutants: the soft disable timer without max(0, ...), and not decremented.
DecrementTimer_NoMax(timer) == timer - 1
DecrementTimer_Never(timer) == timer

DecrementTimer(timer) == IF timer > 0 THEN timer - 1 ELSE 0

StateMachineUpdate(sm, T) ==
  LET timer == DecrementTimer(sm.timer)
      new == NextState(sm, T, timer)
  IN [state  |-> new,
      timer  |-> IF new = "softDisabling" /\ sm.state # "softDisabling"
                   THEN SOFT_DISABLE_FRAMES ELSE timer,
      alerts |-> {"permanent"} \cup NextAlerts(sm, T, new)
                   \cup (IF new \in ACTIVE_STATES THEN {"warning"} ELSE {})]
=============================================================================
