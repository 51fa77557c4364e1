-------------------------- MODULE DriverMonitoring --------------------------
(***************************************************************************)
(* The driver monitoring policy: dmonitoringd turns what the driver camera *)
(* sees into an awareness that runs down, alerts of three levels and, in   *)
(* the end, a forced deceleration and a lockout; selfdrived refuses to     *)
(* engage during the lockout and keeps it in a param across restarts.      *)
(*                                                                         *)
(* Awareness, 1.0 in the code, is FULL units here; one step is one frame   *)
(* of the driver model.  The face is reduced to the booleans that          *)
(* _update_states derives from it.                                         *)
(***************************************************************************)
EXTENDS Integers, Sequences

CONSTANTS
  FULL,                    \* awareness of an attentive driver
  Step,                    \* what a frame costs, for each policy
  Threshold1, Threshold2,  \* awareness of alerts one and two, for each policy
  NO_RESPONSE_TIMEOUT,     \* frames of alert three
  MAX_ALERT_3, MAX_NO_RESPONSE,
  LOCKOUT_TIMES,           \* frames of the first lockout, the second, ...
  HI_STD_FALLBACK_TIME     \* frames of an uncertain model

Policy == {"vision", "wheeltouch"}

\* What the settings of DRIVER_MONITOR_SETTINGS have in common.
ASSUME DriverMonitoringAssumption ==
  /\ FULL \in Nat /\ NO_RESPONSE_TIMEOUT \in Nat \ {0} /\ HI_STD_FALLBACK_TIME \in Nat \ {0}
  /\ MAX_ALERT_3 \in Nat \ {0} /\ MAX_NO_RESPONSE \in Nat \ {0}
  /\ \A p \in Policy : /\ Step[p] \in 1 .. FULL
                       /\ Threshold1[p] \in 2 .. FULL - 1 /\ Threshold2[p] \in 1 .. Threshold1[p] - 1
  /\ LOCKOUT_TIMES \in Seq(Nat) \ {<<>>}
  /\ \A i \in DOMAIN LOCKOUT_TIMES : LOCKOUT_TIMES[i] > NO_RESPONSE_TIMEOUT

AtMost(n, max) == IF n > max THEN max ELSE n

VARIABLES
  st,                 \* awareness, that of the other policy, the policy, and whether step_change is 0
  distraction,        \* driver_distraction_filter: below 0.37, between, above 0.63
  hi_stds,            \* frames of an uncertain model
  alert_level,
  cnt,                \* alert_3_cnt, cnt_since_alert_3 and no_response_cnt
  lockout_active, lockout_count, lockout_time_elapsed,
  op_engaged,         \* selfdriveState.enabled or carControl.latActive, as last seen
  frameId,            \* of the driver model, modulo 2: a frame that changes nothing is a step, too
  ignored,            \* the last frame showed an engaged driver at speed who was not attentive
  DriverTooDistracted, DriverLockoutCount,
  dm_lockout_set,     \* of selfdrived
  queued,             \* selfdrived's put of DriverTooDistracted waits for the writer thread
  cleared             \* history: ignition or preview has cleared the param in the last step

lockout == <<lockout_active, lockout_count, lockout_time_elapsed>>
params == <<DriverTooDistracted, DriverLockoutCount>>
vars == <<st, distraction, hi_stds, alert_level, cnt, lockout, op_engaged, frameId, ignored, params, dm_lockout_set, queued, cleared>>

NoCount == [alert_3 |-> 0, since |-> 0, no_response |-> 0]
Attentive == [awareness |-> FULL, other |-> FULL, policy |-> "vision", frozen |-> FALSE]

\* The type invariant: awareness stops at its floor, whatever a frame costs, and no lockout
\* outlasts the longest one.
TypeOK ==
  /\ st \in [awareness : -1 .. FULL, other : 1 .. FULL, policy : Policy, frozen : BOOLEAN]
  /\ distraction \in 0 .. 2 /\ hi_stds \in 0 .. HI_STD_FALLBACK_TIME
  /\ alert_level \in 0 .. 3
  /\ cnt \in [alert_3 : 0 .. MAX_ALERT_3, since : 0 .. NO_RESPONSE_TIMEOUT + 1, no_response : 0 .. MAX_NO_RESPONSE]
  /\ lockout_active \in BOOLEAN /\ lockout_count \in 0 .. Len(LOCKOUT_TIMES)
  /\ \E i \in DOMAIN LOCKOUT_TIMES : lockout_time_elapsed \in 0 .. LOCKOUT_TIMES[i]
  /\ op_engaged \in BOOLEAN /\ frameId \in 0 .. 1 /\ ignored \in BOOLEAN
  /\ dm_lockout_set \in BOOLEAN /\ queued \in BOOLEAN /\ cleared \in BOOLEAN
  /\ DriverTooDistracted \in BOOLEAN /\ DriverLockoutCount \in 0 .. Len(LOCKOUT_TIMES)

Init ==
  /\ st = Attentive /\ distraction = 0 /\ hi_stds = 0 /\ alert_level = 0 /\ cnt = NoCount
  /\ lockout_active = FALSE /\ lockout_count = 0 /\ lockout_time_elapsed = 0
  /\ op_engaged = FALSE /\ frameId = 0 /\ ignored = FALSE
  /\ DriverTooDistracted = FALSE /\ DriverLockoutCount = 0 /\ dm_lockout_set = FALSE
  /\ queued = FALSE /\ cleared = TRUE

-----------------------------------------------------------------------------
(***************************************************************************)
(* _update_states: what the camera saw                                     *)
(***************************************************************************)
\* driver_distracted implies a face and a certain model; without a face nothing reads low_std.
Face == {f \in [face_detected : BOOLEAN, low_std : BOOLEAN, driver_distracted : BOOLEAN] :
           (f.driver_distracted => f.low_std) /\ (f.low_std => f.face_detected)}

\* FirstOrderFilter moves towards its input, through the middle.
Filtered(f) ==
  IF f.driver_distracted THEN {distraction, AtMost(distraction + 1, 2)}
  ELSE {distraction, IF distraction = 0 THEN 0 ELSE distraction - 1}

is_model_uncertain == hi_stds >= HI_STD_FALLBACK_TIME

NextHiStds(f) ==
  IF ~ f.face_detected THEN hi_stds
  ELSE IF f.low_std THEN 0 ELSE AtMost(hi_stds + 1, HI_STD_FALLBACK_TIME)

target_policy(f) == IF f.face_detected /\ ~ is_model_uncertain THEN "vision" ELSE "wheeltouch"

Switched(target) == [awareness |-> st.other, other |-> st.awareness, policy |-> target, frozen |-> FALSE]

\* Mutant: a red alert of the wheel policy is left for the other policy.
set_policy_Red(target) ==
  IF st.policy = "vision" /\ st.awareness <= Threshold2["vision"] THEN [st EXCEPT !.frozen = target # "vision"]
  ELSE IF target = st.policy THEN [st EXCEPT !.frozen = FALSE]
  ELSE Switched(target)

\* Mutant: leaving the camera leaves the vision policy, orange or not.
set_policy_Dodge(target) ==
  IF st.awareness <= 0 THEN st
  ELSE IF target = st.policy THEN [st EXCEPT !.frozen = FALSE]
  ELSE Switched(target)

set_policy(target) ==
  IF st.policy = "vision" /\ st.awareness <= Threshold2["vision"]
  THEN [st EXCEPT !.frozen = target # "vision"]              \* no exploit after orange alert
  ELSE IF st.awareness <= 0 THEN st
  ELSE IF target = st.policy THEN [st EXCEPT !.frozen = FALSE]
  ELSE Switched(target)

-----------------------------------------------------------------------------
(***************************************************************************)
(* _update_events                                                          *)
(***************************************************************************)
LockoutDue == cnt.alert_3 >= MAX_ALERT_3 \/ cnt.no_response >= MAX_NO_RESPONSE
LockoutStarts == LockoutDue /\ ~ lockout_active

\* lockout_count, which only selects a duration, stops at the last one.
NextLockoutCount == IF LockoutStarts THEN AtMost(lockout_count + 1, Len(LOCKOUT_TIMES)) ELSE lockout_count
lockout_duration == LOCKOUT_TIMES[IF NextLockoutCount = 0 THEN 1 ELSE NextLockoutCount]
LockoutEnds == (LockoutDue \/ lockout_active) /\ lockout_time_elapsed + 1 > lockout_duration

CountsAfterLockout == IF LockoutEnds THEN NoCount ELSE cnt

UpdateLockout ==
  /\ lockout_count' = NextLockoutCount
  /\ DriverLockoutCount' = IF LockoutStarts THEN NextLockoutCount ELSE DriverLockoutCount
  /\ lockout_active' = ((LockoutDue \/ lockout_active) /\ ~ LockoutEnds)
  /\ lockout_time_elapsed' = IF LockoutEnds THEN 0
                             ELSE IF LockoutDue \/ lockout_active THEN lockout_time_elapsed + 1
                             ELSE lockout_time_elapsed

step_change(p) == IF p.frozen THEN 0 ELSE Step[p.policy]

\* A frame's inputs i: the face, its filtered distraction, the driver's hands and feet, the car.
paying_attention(i) == i.distraction = 0 /\ i.face.face_detected /\ i.face.low_std

distracted(i) ==
  \/ i.distraction = 2 /\ i.face.driver_distracted      \* certainly_distracted
  \/ is_model_uncertain \/ ~ i.face.face_detected       \* maybe_distracted

lowspeed_exemption(p, i) == i.lowspeed /\ p.awareness - step_change(p) <= Threshold1[p.policy]
always_on_exemption(p, i) == i.always_on_valid /\ ~ i.op_engaged /\ p.awareness - step_change(p) <= 0

Recovering(p, i) == p.awareness > 0 /\ (paying_attention(i) \/ lowspeed_exemption(p, i))

Resets(p, i) ==
  \/ i.driver_engaged /\ p.awareness > 0 /\ p.policy = "wheeltouch"
  \/ ~ i.always_on_valid /\ ~ i.op_engaged
  \/ i.always_on_valid /\ ~ i.op_engaged /\ p.awareness <= 0
  \/ Recovering(p, i) /\ i.driver_engaged

\* From 1.25 to 5 times as fast as it ran down, rounded down to a unit.
Recovered(p) ==
  LET a == AtMost(p.awareness + (step_change(p) * (20 * FULL - 15 * p.awareness)) \div (4 * FULL), FULL)
  IN  [p EXCEPT !.awareness = a,
                !.other = IF a = FULL /\ p.policy = "vision" THEN AtMost(@ + step_change(p), FULL) ELSE @]

\* Mutant: only the vision policy runs down.
CountedDown_Vision(p, i) ==
  LET r == IF Recovering(p, i) THEN Recovered(p) ELSE p
      a == r.awareness - step_change(p)
  IN  IF distracted(i) /\ ~ lowspeed_exemption(p, i) /\ ~ always_on_exemption(p, i) /\ p.policy = "vision"
      THEN [r EXCEPT !.awareness = IF a < -1 THEN -1 ELSE a]
      ELSE r

\* Mutant: awareness has no floor.
CountedDown_NoFloor(p, i) ==
  LET r == IF Recovering(p, i) THEN Recovered(p) ELSE p
  IN  IF distracted(i) /\ ~ lowspeed_exemption(p, i) /\ ~ always_on_exemption(p, i)
      THEN [r EXCEPT !.awareness = @ - step_change(p)]
      ELSE r

\* The awareness after a frame that resets nothing; -1 stands for the floor of -0.1.
CountedDown(p, i) ==
  LET r == IF Recovering(p, i) THEN Recovered(p) ELSE p
      a == r.awareness - step_change(p)
  IN  IF distracted(i) /\ ~ lowspeed_exemption(p, i) /\ ~ always_on_exemption(p, i)
      THEN [r EXCEPT !.awareness = IF a < -1 THEN -1 ELSE a]
      ELSE r

\* Mutant: the seconds of a terminal alert start over in every frame.
Counted_Restart(c, p, q) ==
  IF q.awareness > 0 THEN c
  ELSE [c EXCEPT !.since = 0, !.alert_3 = IF p.awareness > 0 THEN AtMost(@ + 1, MAX_ALERT_3) ELSE @]

\* The counters, after the lockout has had its say, when awareness goes from p to q.  They go on
\* during a lockout; nothing tells apart the values from their limits upwards.
Counted(c, p, q) ==
  IF q.awareness > 0 THEN c
  ELSE LET since == IF p.awareness > 0 THEN 0 ELSE AtMost(c.since + 1, NO_RESPONSE_TIMEOUT + 1)
       IN  [since |-> since,
            alert_3 |-> IF p.awareness > 0 THEN AtMost(c.alert_3 + 1, MAX_ALERT_3) ELSE c.alert_3,
            no_response |-> IF since = NO_RESPONSE_TIMEOUT THEN AtMost(c.no_response + 1, MAX_NO_RESPONSE)
                            ELSE c.no_response]

Level(q) ==
  IF q.awareness <= 0 THEN 3
  ELSE IF q.awareness <= Threshold2[q.policy] THEN 2
  ELSE IF q.awareness <= Threshold1[q.policy] THEN 1 ELSE 0

\* The rest of _update_events, from the state p that _update_states left.
UpdateEvents(p, i) ==
  LET c == CountsAfterLockout
      q == CountedDown(p, i)
      r == Recovered(p)
  IN  \/ /\ Resets(p, i)
         /\ st' = [p EXCEPT !.awareness = FULL, !.other = FULL]
         /\ alert_level' = 0 /\ cnt' = c
      \/ /\ ~ Resets(p, i) /\ Recovering(p, i) /\ r.awareness > Threshold2[p.policy]
         /\ st' = r /\ alert_level' = 0 /\ cnt' = c
      \/ /\ ~ Resets(p, i) /\ ~ (Recovering(p, i) /\ r.awareness > Threshold2[p.policy])
         /\ st' = q /\ alert_level' = Level(q) /\ cnt' = Counted(c, p, q)

-----------------------------------------------------------------------------
\* DriverMonitoring.run_step, on a frame of the driver model.  op_engaged may rise during a
\* lockout, too: selfdrived refuses to engage, but latActive comes back by itself after a
\* standstill or a steering fault while MADS stays engaged.
RunStep ==
  /\ frameId' = 1 - frameId
  /\ UpdateLockout
  /\ UNCHANGED <<DriverTooDistracted, dm_lockout_set, queued>> /\ cleared' = FALSE
  /\ \E f \in Face :
       /\ hi_stds' = NextHiStds(f)
       /\ \E d \in Filtered(f) :
            /\ distraction' = d
            /\ \E driver_engaged, lowspeed, always_on_valid, engaged \in BOOLEAN :
                 LET i == [face |-> f, distraction |-> d, driver_engaged |-> driver_engaged, lowspeed |-> lowspeed,
                           always_on_valid |-> always_on_valid, op_engaged |-> engaged]
                 IN  /\ op_engaged' = engaged
                     /\ ignored' = /\ engaged /\ ~ lowspeed /\ ~ driver_engaged
                                   /\ distracted(i) /\ ~ paying_attention(i)
                     /\ UpdateEvents(set_policy(target_policy(f)), i)

monitor == <<st, distraction, hi_stds, alert_level, cnt, lockout, op_engaged, frameId, ignored>>

\* selfdrived has the lockout recorded in the param, by its writer thread, and removes it itself.
HandleDM ==
  /\ \/ /\ lockout_active /\ ~ dm_lockout_set
        /\ queued' = TRUE /\ UNCHANGED DriverTooDistracted
     \/ /\ ~ lockout_active /\ dm_lockout_set
        /\ DriverTooDistracted' = FALSE /\ UNCHANGED queued
  /\ dm_lockout_set' = lockout_active /\ cleared' = FALSE
  /\ UNCHANGED <<monitor, DriverLockoutCount>>

\* The writer thread of selfdrived's Params; late, it undoes a remove.
AsyncWrite ==
  /\ queued /\ queued' = FALSE /\ DriverTooDistracted' = TRUE /\ cleared' = FALSE
  /\ UNCHANGED <<monitor, DriverLockoutCount, dm_lockout_set>>

\* DriverMonitoring() and SelfdriveD() of processes that start with these params.
StartWith(tooDistractedParam, lockoutCountParam) ==
  /\ st' = Attentive /\ distraction' = 0 /\ hi_stds' = 0 /\ alert_level' = 0 /\ cnt' = NoCount
  /\ lockout_active' = tooDistractedParam /\ lockout_count' = lockoutCountParam /\ lockout_time_elapsed' = 0
  /\ dm_lockout_set' = FALSE /\ queued' = FALSE
  /\ op_engaged' = FALSE /\ frameId' = 0 /\ ignored' = FALSE
  /\ DriverTooDistracted' = tooDistractedParam /\ DriverLockoutCount' = lockoutCountParam

\* Mutant: the policy starts without the lockout in the param.
Restart_NotRead == StartWith(FALSE, DriverLockoutCount) /\ cleared' = FALSE

\* The car goes offroad and onroad with the ignition on: both processes start afresh.  A put that
\* waits is written before selfdrived ends (~Params), or lost if it is killed.
Restart ==
  /\ \E kept \in {DriverTooDistracted, DriverTooDistracted \/ queued} : StartWith(kept, DriverLockoutCount)
  /\ cleared' = FALSE

\* In between, the driver looked at the camera's preview, which removes the param.
Preview == StartWith(FALSE, DriverLockoutCount) /\ cleared' = TRUE

\* The ignition is switched on: the params are CLEAR_ON_IGNITION_ON.
Ignition == StartWith(FALSE, 0) /\ cleared' = TRUE

Next == RunStep \/ HandleDM \/ AsyncWrite \/ Restart \/ Preview \/ Ignition

Spec == Init /\ [][Next]_vars

\* Frames keep coming, and RunStep is always enabled.
FairSpec == Spec /\ WF_frameId(frameId' = 1 - frameId)

-----------------------------------------------------------------------------
noResponseForceDecel == alert_level = 3 /\ cnt.since >= NO_RESPONSE_TIMEOUT

\* Only disengaging clears a red alert: neither the wheel, nor the pedal, nor a face that
\* appears or disappears, nor the end of a lockout, whichever policy raised it.
RedStays == [][alert_level = 3 /\ op_engaged' => alert_level' = 3]_vars

\* A driver who has been told to look at the road cannot make the alert go away by hiding from
\* the camera: while nobody looks or touches anything, an orange alert of the vision policy
\* stays, although the frame asks for the other policy, whose awareness may be full.
OrangeNotDodged ==
  [][alert_level = 2 /\ st.policy = "vision" /\ ignored' => alert_level' >= 2]_vars

\* A lockout whose param is written ends when its time is over, or where the params are cleared,
\* by the ignition or the driver's preview; neither stopping and starting the processes nor a put
\* that is late or lost ends it.
LockoutHolds ==
  [][lockout_active /\ DriverTooDistracted /\ ~ lockout_active' =>
       lockout_time_elapsed = lockout_duration \/ cleared']_vars

\* A red alert the driver does not answer slows the car down, even when a lockout ends meanwhile
\* and starts the counters again.
NoResponseDecelerates == (alert_level = 3) ~> (noResponseForceDecel \/ ~ op_engaged)

\* A driver who stays inattentive is told so, however the two policies alternate.
InattentionAlarms == <>[]ignored => []<>(alert_level >= 2)
=============================================================================
