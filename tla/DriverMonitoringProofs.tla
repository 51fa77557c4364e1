----------------------- MODULE DriverMonitoringProofs -----------------------
(***************************************************************************)
(* The driver monitoring policy, for all settings: only disengaging clears *)
(* a red alert, hiding from the camera does not clear an orange one, and   *)
(* a lockout lasts its time.                                               *)
(***************************************************************************)
EXTENDS DriverMonitoring, TLAPS

Status == [awareness : -1 .. FULL, other : 1 .. FULL, policy : Policy, frozen : BOOLEAN]
Counts == [alert_3 : 0 .. MAX_ALERT_3, since : 0 .. NO_RESPONSE_TIMEOUT + 1, no_response : 0 .. MAX_NO_RESPONSE]

\* An alert is shown for an awareness that deserves it.
AlertOK ==
  /\ alert_level = 3 => st.awareness <= 0
  /\ alert_level = 2 => st.awareness <= Threshold2[st.policy]

\* A lockout does not outlast its time.
LockoutOK ==
  /\ lockout_time_elapsed <= LOCKOUT_TIMES[IF lockout_count = 0 THEN 1 ELSE lockout_count]
  /\ ~ lockout_active => lockout_time_elapsed = 0

\* The alerts need the awareness they were raised for, the lockout the time it
\* has run.
MonitorInv == TypeOK /\ AlertOK /\ LockoutOK

-----------------------------------------------------------------------------
\* What the assumption on the settings says, one fact at a time.
LEMMA Constants ==
  /\ FULL \in Nat /\ FULL > 0
  /\ \A p \in Policy : /\ Step[p] \in Nat /\ Step[p] > 0 /\ Threshold2[p] \in Nat /\ Threshold1[p] \in Nat
                       /\ 0 < Threshold2[p] /\ Threshold2[p] < Threshold1[p] /\ Threshold1[p] < FULL
<1>1. \A p \in Policy : /\ Step[p] \in 1 .. FULL /\ Threshold1[p] \in 2 .. FULL - 1
                         /\ Threshold2[p] \in 1 .. Threshold1[p] - 1
  BY DriverMonitoringAssumption
<1>2. FULL \in Nat
  BY DriverMonitoringAssumption
<1>3. FULL > 0
  BY <1>1, <1>2 DEF Policy
<1> QED
  BY <1>1, <1>2, <1>3

(***************************************************************************)
(* _update_states: which awareness a frame starts from                     *)
(***************************************************************************)
LEMMA StepType == \A p \in Status : step_change(p) \in Nat
BY Constants DEF Status, step_change

\* _set_policy changes the policy only while both awarenesses are above zero,
\* and leaves an orange alert of the vision policy alone.
LEMMA SetPolicyOK ==
  ASSUME st \in Status, NEW target \in Policy
  PROVE  /\ set_policy(target) \in Status
         /\ set_policy(target).awareness <= 0 <=> st.awareness <= 0
         /\ st.policy = "vision" /\ st.awareness <= Threshold2["vision"] =>
              set_policy(target).policy = "vision" /\ set_policy(target).awareness = st.awareness
<1>1. CASE st.policy = "vision" /\ st.awareness <= Threshold2["vision"]
  <2>1. set_policy(target) = [st EXCEPT !.frozen = target # "vision"]
    BY <1>1 DEF set_policy
  <2> QED
    BY <2>1 DEF Status
<1>2. CASE ~ (st.policy = "vision" /\ st.awareness <= Threshold2["vision"])
  <2>1. CASE st.awareness <= 0
    <3>1. set_policy(target) = st
      BY <1>2, <2>1 DEF set_policy
    <3> QED
      BY <1>2, <3>1
  <2>2. CASE st.awareness > 0
    <3>1. set_policy(target) \in {[st EXCEPT !.frozen = FALSE], Switched(target)}
      BY <1>2, <2>2 DEF set_policy, Status
    <3>2. [st EXCEPT !.frozen = FALSE] \in Status /\ [st EXCEPT !.frozen = FALSE].awareness > 0
      BY <2>2 DEF Status
    <3>3. Switched(target) \in Status /\ Switched(target).awareness > 0
      BY <2>2, Constants DEF Status, Switched
    <3>4. set_policy(target) \in Status /\ set_policy(target).awareness > 0
      BY <3>1, <3>2, <3>3
    <3>5. ~ (set_policy(target).awareness <= 0)
      BY <3>4 DEF Status
    <3>6. ~ (st.awareness <= 0)
      BY <2>2 DEF Status
    <3> QED
      BY <1>2, <3>4, <3>5, <3>6
  <2> QED
    BY <2>1, <2>2 DEF Status
<1> QED
  BY <1>1, <1>2

(***************************************************************************)
(* _update_events                                                          *)
(***************************************************************************)
\* Recovery never costs awareness, and never gives more than there is.
LEMMA RecoveredOK ==
  ASSUME NEW p \in Status
  PROVE  /\ Recovered(p) \in Status /\ Recovered(p).policy = p.policy
         /\ Recovered(p).awareness >= p.awareness
<1> DEFINE n == step_change(p) * (20 * FULL - 15 * p.awareness)
           a == AtMost(p.awareness + n \div (4 * FULL), FULL)
<1>1. step_change(p) \in Nat /\ p.awareness \in -1 .. FULL /\ p.other \in 1 .. FULL
  BY StepType DEF Status
<1>2. n \in Nat
  <2>1. 20 * FULL - 15 * p.awareness \in Nat
    BY <1>1, Constants
  <2> QED
    BY <1>1, <2>1
<1> HIDE DEF n
<1>3. n \div (4 * FULL) \in Nat
  BY <1>2, Constants
<1>4. a \in -1 .. FULL /\ a >= p.awareness
  BY <1>1, <1>3, Constants DEF AtMost
<1>5. AtMost(p.other + step_change(p), FULL) \in 1 .. FULL
  BY <1>1, Constants DEF AtMost
<1>6. Recovered(p) = [p EXCEPT !.awareness = a,
                       !.other = IF a = FULL /\ p.policy = "vision"
                                 THEN AtMost(@ + step_change(p), FULL) ELSE @]
  BY DEF Recovered, n
<1> HIDE DEF a
<1> QED
  BY <1>1, <1>4, <1>5, <1>6 DEF Status

\* An awareness that is used up stays so, and one that does not recover does
\* not rise.
LEMMA CountedDownOK ==
  ASSUME NEW p \in Status, NEW i
  PROVE  /\ CountedDown(p, i) \in Status /\ CountedDown(p, i).policy = p.policy
         /\ ~ Recovering(p, i) => CountedDown(p, i).awareness <= p.awareness
         /\ p.awareness <= 0 => CountedDown(p, i).awareness <= 0
<1> DEFINE r == IF Recovering(p, i) THEN Recovered(p) ELSE p
           a == r.awareness - step_change(p)
<1>1. step_change(p) \in Nat
  BY StepType
<1>2. r \in Status /\ r.policy = p.policy /\ (~ Recovering(p, i) => r = p)
  BY RecoveredOK
<1>3. p.awareness <= 0 => ~ Recovering(p, i)
  BY DEF Recovering, Status
<1>4. \/ CountedDown(p, i) = r
      \/ CountedDown(p, i) = [r EXCEPT !.awareness = IF a < -1 THEN -1 ELSE a]
  BY DEF CountedDown
<1> HIDE DEF r
<1> QED
  BY <1>1, <1>2, <1>3, <1>4, Constants DEF Status

\* The level that _update_events shows for an awareness.
LEMMA LevelOK ==
  \A q \in Status : /\ Level(q) \in 0 .. 3
                    /\ Level(q) = 3 <=> q.awareness <= 0
                    /\ Level(q) >= 2 <=> q.awareness <= Threshold2[q.policy]
BY Constants DEF Level, Status

\* The counters, one step on.
LEMMA CountedOK ==
  ASSUME NEW c \in Counts, NEW p \in Status, NEW q \in Status
  PROVE  Counted(c, p, q) \in Counts
<1>1. c.alert_3 \in 0 .. MAX_ALERT_3 /\ c.since \in 0 .. NO_RESPONSE_TIMEOUT + 1
      /\ c.no_response \in 0 .. MAX_NO_RESPONSE
  BY DEF Counts
<1>2. NO_RESPONSE_TIMEOUT \in Nat \ {0} /\ MAX_ALERT_3 \in Nat \ {0} /\ MAX_NO_RESPONSE \in Nat \ {0}
  BY DriverMonitoringAssumption
<1>3. /\ AtMost(c.since + 1, NO_RESPONSE_TIMEOUT + 1) \in 0 .. NO_RESPONSE_TIMEOUT + 1
      /\ AtMost(c.alert_3 + 1, MAX_ALERT_3) \in 0 .. MAX_ALERT_3
      /\ AtMost(c.no_response + 1, MAX_NO_RESPONSE) \in 0 .. MAX_NO_RESPONSE
      /\ 0 \in 0 .. NO_RESPONSE_TIMEOUT + 1
  BY <1>1, <1>2 DEF AtMost
<1> QED
  BY <1>1, <1>3 DEF Counted, Counts

(***************************************************************************)
(* The lockout                                                             *)
(***************************************************************************)
\* lockout_duration, for any count of lockouts.
Duration(n) == LOCKOUT_TIMES[IF n = 0 THEN 1 ELSE n]

LEMMA DurationType ==
  /\ Len(LOCKOUT_TIMES) \in Nat \ {0}
  /\ \A n \in 0 .. Len(LOCKOUT_TIMES) : /\ Duration(n) \in Nat /\ Duration(n) > 1
                                        /\ \E i \in DOMAIN LOCKOUT_TIMES : Duration(n) = LOCKOUT_TIMES[i]
<1>1. LOCKOUT_TIMES \in Seq(Nat) /\ LOCKOUT_TIMES # <<>> /\ NO_RESPONSE_TIMEOUT \in Nat \ {0}
      /\ \A i \in DOMAIN LOCKOUT_TIMES : LOCKOUT_TIMES[i] > NO_RESPONSE_TIMEOUT
  BY DriverMonitoringAssumption
<1>2. Len(LOCKOUT_TIMES) \in Nat \ {0} /\ DOMAIN LOCKOUT_TIMES = 1 .. Len(LOCKOUT_TIMES)
  BY <1>1
<1>3. \A n \in 0 .. Len(LOCKOUT_TIMES) : (IF n = 0 THEN 1 ELSE n) \in DOMAIN LOCKOUT_TIMES
  BY <1>2
<1>4. \A i \in DOMAIN LOCKOUT_TIMES : LOCKOUT_TIMES[i] \in Nat /\ LOCKOUT_TIMES[i] > 1
  BY <1>1
<1> QED
  BY <1>2, <1>3, <1>4 DEF Duration

\* A lockout ends exactly when its time is over, and until then its counts stay.
LEMMA UpdateLockoutOK ==
  ASSUME MonitorInv, UpdateLockout, UNCHANGED <<DriverTooDistracted, dm_lockout_set, queued>>
  PROVE  /\ lockout_active' \in BOOLEAN
         /\ lockout_count' \in 0 .. Len(LOCKOUT_TIMES) /\ DriverLockoutCount' \in 0 .. Len(LOCKOUT_TIMES)
         /\ \E i \in DOMAIN LOCKOUT_TIMES : lockout_time_elapsed' \in 0 .. LOCKOUT_TIMES[i]
         /\ LockoutOK'
         /\ lockout_active /\ ~ lockout_active' => lockout_time_elapsed = lockout_duration
<1>1. /\ lockout_active \in BOOLEAN /\ lockout_count \in 0 .. Len(LOCKOUT_TIMES)
      /\ DriverLockoutCount \in 0 .. Len(LOCKOUT_TIMES)
      /\ dm_lockout_set \in BOOLEAN /\ DriverTooDistracted \in BOOLEAN
  BY DEF MonitorInv, TypeOK
<1>2. lockout_time_elapsed \in Nat /\ lockout_time_elapsed <= Duration(lockout_count)
  <2>1. \E n \in DOMAIN LOCKOUT_TIMES : lockout_time_elapsed \in 0 .. LOCKOUT_TIMES[n]
    BY DEF MonitorInv, TypeOK
  <2> QED
    BY <2>1 DEF MonitorInv, LockoutOK, Duration
<1>3. ~ lockout_active => lockout_time_elapsed = 0
  BY DEF MonitorInv, LockoutOK
<1>4. NextLockoutCount \in 0 .. Len(LOCKOUT_TIMES) /\ (lockout_active => NextLockoutCount = lockout_count)
  BY <1>1, DurationType DEF NextLockoutCount, LockoutStarts, AtMost
<1>5. lockout_duration = Duration(NextLockoutCount)
  BY DEF lockout_duration, Duration
<1>6. lockout_count' = NextLockoutCount /\ DriverLockoutCount' \in 0 .. Len(LOCKOUT_TIMES)
  BY <1>1, <1>4 DEF UpdateLockout
<1>7. lockout_active' \in BOOLEAN
  BY DEF UpdateLockout
<1>8. /\ lockout_time_elapsed' \in Nat /\ lockout_time_elapsed' <= Duration(NextLockoutCount)
      /\ ~ lockout_active' => lockout_time_elapsed' = 0
      /\ lockout_active /\ ~ lockout_active' => lockout_time_elapsed = lockout_duration
  <2>1. Duration(NextLockoutCount) \in Nat /\ Duration(NextLockoutCount) > 1
    BY <1>4, DurationType
  <2>2. LockoutEnds => lockout_active /\ lockout_time_elapsed = lockout_duration
    BY <1>1, <1>2, <1>3, <1>4, <1>5, <2>1 DEF LockoutEnds
  <2>3. CASE LockoutEnds
    BY <2>1, <2>2, <2>3 DEF UpdateLockout
  <2>4. CASE ~ LockoutEnds /\ (LockoutDue \/ lockout_active)
    <3>1. lockout_time_elapsed' = lockout_time_elapsed + 1 /\ lockout_active' = TRUE
      BY <2>4 DEF UpdateLockout
    <3>2. lockout_time_elapsed + 1 <= Duration(NextLockoutCount)
      BY <1>2, <1>5, <2>1, <2>4 DEF LockoutEnds
    <3> QED
      BY <1>2, <3>1, <3>2
  <2>5. CASE ~ LockoutEnds /\ ~ (LockoutDue \/ lockout_active)
    BY <1>1, <1>3, <2>1, <2>5 DEF UpdateLockout
  <2> QED
    BY <2>3, <2>4, <2>5
<1>9. LockoutOK'
  BY <1>6, <1>8 DEF MonitorInv, LockoutOK, Duration
<1>10. \E i \in DOMAIN LOCKOUT_TIMES : lockout_time_elapsed' \in 0 .. LOCKOUT_TIMES[i]
  BY <1>4, <1>8, DurationType
<1> QED
  BY <1>4, <1>6, <1>7, <1>8, <1>9, <1>10

(***************************************************************************)
(* One frame                                                               *)
(***************************************************************************)
\* RunStep as the policy and the inputs of a frame see it.
Frame(target, i) ==
  /\ op_engaged' = i.op_engaged
  /\ ignored' <=> /\ i.op_engaged /\ ~ i.lowspeed /\ ~ i.driver_engaged
                  /\ distracted(i) /\ ~ paying_attention(i)
  /\ UpdateEvents(set_policy(target), i)

LEMMA RunStepFrame == ASSUME RunStep PROVE \E target \in Policy : \E i : Frame(target, i)
<1>1. PICK f \in Face :
        \E d \in Filtered(f) :
          \E driver_engaged, lowspeed, always_on_valid, engaged \in BOOLEAN :
            LET i == [face |-> f, distraction |-> d, driver_engaged |-> driver_engaged, lowspeed |-> lowspeed,
                      always_on_valid |-> always_on_valid, op_engaged |-> engaged]
            IN  /\ op_engaged' = engaged
                /\ ignored' = /\ engaged /\ ~ lowspeed /\ ~ driver_engaged
                              /\ distracted(i) /\ ~ paying_attention(i)
                /\ UpdateEvents(set_policy(target_policy(f)), i)
  BY DEF RunStep
<1>2. PICK d \in Filtered(f) :
        \E driver_engaged, lowspeed, always_on_valid, engaged \in BOOLEAN :
          LET i == [face |-> f, distraction |-> d, driver_engaged |-> driver_engaged, lowspeed |-> lowspeed,
                    always_on_valid |-> always_on_valid, op_engaged |-> engaged]
          IN  /\ op_engaged' = engaged
              /\ ignored' = /\ engaged /\ ~ lowspeed /\ ~ driver_engaged
                            /\ distracted(i) /\ ~ paying_attention(i)
              /\ UpdateEvents(set_policy(target_policy(f)), i)
  BY <1>1
<1>3. PICK driver_engaged, lowspeed, always_on_valid, engaged \in BOOLEAN :
        LET i == [face |-> f, distraction |-> d, driver_engaged |-> driver_engaged, lowspeed |-> lowspeed,
                  always_on_valid |-> always_on_valid, op_engaged |-> engaged]
        IN  /\ op_engaged' = engaged
            /\ ignored' = /\ engaged /\ ~ lowspeed /\ ~ driver_engaged
                          /\ distracted(i) /\ ~ paying_attention(i)
            /\ UpdateEvents(set_policy(target_policy(f)), i)
  BY <1>2
<1> DEFINE i == [face |-> f, distraction |-> d, driver_engaged |-> driver_engaged, lowspeed |-> lowspeed,
                 always_on_valid |-> always_on_valid, op_engaged |-> engaged]
<1>4. i.op_engaged = engaged /\ i.lowspeed = lowspeed /\ i.driver_engaged = driver_engaged
  OBVIOUS
<1>5. /\ op_engaged' = engaged
      /\ ignored' = /\ engaged /\ ~ lowspeed /\ ~ driver_engaged
                    /\ distracted(i) /\ ~ paying_attention(i)
      /\ UpdateEvents(set_policy(target_policy(f)), i)
  BY <1>3
<1> HIDE DEF i
<1>6. target_policy(f) \in Policy
  BY DEF target_policy, Policy
<1> QED
  BY <1>4, <1>5, <1>6 DEF Frame

\* What a frame does to the status, the alert and the counts.
LEMMA FrameOK ==
  ASSUME MonitorInv, UpdateLockout, NEW target \in Policy, NEW i, Frame(target, i)
  PROVE  /\ st' \in Status /\ alert_level' \in 0 .. 3 /\ cnt' \in Counts
         /\ AlertOK'
         /\ alert_level = 3 /\ op_engaged' => alert_level' = 3
         /\ alert_level = 2 /\ st.policy = "vision" /\ ignored' => alert_level' >= 2
<1> DEFINE p == set_policy(target)
           c == CountsAfterLockout
           q == CountedDown(p, i)
           r == Recovered(p)
<1>1. st \in Status /\ cnt \in Counts /\ op_engaged \in BOOLEAN /\ lockout_active \in BOOLEAN
  BY DEF MonitorInv, TypeOK, Status, Counts
<1>2. /\ p \in Status /\ (p.awareness <= 0 <=> st.awareness <= 0)
      /\ st.policy = "vision" /\ st.awareness <= Threshold2["vision"] =>
           p.policy = "vision" /\ p.awareness = st.awareness
  BY <1>1, SetPolicyOK
<1>3. /\ q \in Status /\ q.policy = p.policy
      /\ ~ Recovering(p, i) => q.awareness <= p.awareness
      /\ p.awareness <= 0 => q.awareness <= 0
  BY <1>2, CountedDownOK
<1>4. r \in Status /\ r.policy = p.policy
  BY <1>2, RecoveredOK
<1>5. p.awareness <= 0 => ~ Recovering(p, i)
  BY <1>2 DEF Recovering, Status
<1>6. p.awareness <= 0 /\ i.op_engaged => ~ Resets(p, i)
  BY <1>2, <1>5 DEF Resets, Status
<1>7. c \in Counts
  BY <1>1, DriverMonitoringAssumption DEF CountsAfterLockout, NoCount, Counts
<1>8. UpdateEvents(p, i) /\ op_engaged' = i.op_engaged
  BY DEF Frame
<1> HIDE DEF p, c, q, r
<1>9. /\ alert_level = 3 => p.awareness <= 0
      /\ ignored' => i.op_engaged /\ ~ Resets(p, i) /\ ~ Recovering(p, i)
  <2>1. alert_level = 3 => p.awareness <= 0
    BY <1>2 DEF MonitorInv, AlertOK
  <2>2. ignored' => i.op_engaged /\ ~ i.driver_engaged /\ ~ Recovering(p, i)
    BY DEF Frame, Recovering, lowspeed_exemption
  <2> QED
    BY <2>1, <2>2 DEF Resets
<1>10. CASE /\ Resets(p, i) /\ alert_level' = 0 /\ cnt' = c
            /\ st' = [p EXCEPT !.awareness = FULL, !.other = FULL]
  <2>1. st' \in Status /\ st'.awareness > 0
    <3>1. FULL \in 1 .. FULL /\ FULL \in -1 .. FULL
      BY Constants
    <3>2. [p EXCEPT !.awareness = FULL, !.other = FULL] \in Status
      BY <1>2, <3>1 DEF Status
    <3>3. [p EXCEPT !.awareness = FULL, !.other = FULL].awareness = FULL
      BY <1>2 DEF Status
    <3> QED
      BY <1>10, <3>2, <3>3, Constants
  <2>2. AlertOK' /\ ~ (p.awareness <= 0 /\ i.op_engaged) /\ ~ ignored'
    BY <1>6, <1>9, <1>10 DEF AlertOK
  <2> QED
    BY <1>7, <1>8, <1>9, <1>10, <2>1, <2>2
<1>11. CASE /\ Recovering(p, i) /\ r.awareness > Threshold2[p.policy]
            /\ st' = r /\ alert_level' = 0 /\ cnt' = c
  <2>1. st' \in Status /\ st'.awareness > 0
    BY <1>2, <1>4, <1>11, Constants DEF Status
  <2>2. AlertOK' /\ ~ (p.awareness <= 0) /\ ~ ignored'
    BY <1>5, <1>9, <1>11 DEF AlertOK
  <2> QED
    BY <1>7, <1>8, <1>9, <1>11, <2>1, <2>2
<1>12. CASE /\ ~ Resets(p, i) /\ st' = q /\ alert_level' = Level(q) /\ cnt' = Counted(c, p, q)
  <2>1. cnt' \in Counts
    BY <1>2, <1>3, <1>7, <1>12, CountedOK
  <2>2. alert_level' \in 0 .. 3 /\ AlertOK'
    BY <1>3, <1>12, LevelOK DEF AlertOK
  <2>3. alert_level = 3 => alert_level' = 3
    BY <1>3, <1>9, <1>12, LevelOK
  <2>4. alert_level = 2 /\ st.policy = "vision" /\ ignored' => alert_level' >= 2
    <3> SUFFICES ASSUME alert_level = 2, st.policy = "vision", ignored' PROVE q.awareness <= Threshold2[q.policy]
      BY <1>3, <1>12, LevelOK
    <3>1. p.policy = "vision" /\ p.awareness <= Threshold2["vision"]
      BY <1>2 DEF MonitorInv, AlertOK
    <3>2. q.awareness <= p.awareness /\ q.policy = "vision"
      BY <1>3, <1>9, <3>1
    <3> QED
      BY <1>2, <1>3, <3>1, <3>2, Constants DEF Status
  <2> QED
    BY <1>3, <1>12, <2>1, <2>2, <2>3, <2>4
<1> QED
  BY <1>8, <1>10, <1>11, <1>12 DEF UpdateEvents, p, c, q, r

(***************************************************************************)
(* The steps                                                               *)
(***************************************************************************)
LEMMA RunStepInv ==
  ASSUME MonitorInv, RunStep
  PROVE  /\ MonitorInv'
         /\ alert_level = 3 /\ op_engaged' => alert_level' = 3
         /\ alert_level = 2 /\ st.policy = "vision" /\ ignored' => alert_level' >= 2
         /\ lockout_active /\ ~ lockout_active' => lockout_time_elapsed = lockout_duration
<1>1. /\ UpdateLockout /\ UNCHANGED <<DriverTooDistracted, dm_lockout_set, queued>>
      /\ frameId' = 1 - frameId /\ cleared' = FALSE
  BY DEF RunStep
<1>2. /\ st' \in Status /\ alert_level' \in 0 .. 3 /\ cnt' \in Counts
      /\ AlertOK'
      /\ alert_level = 3 /\ op_engaged' => alert_level' = 3
      /\ alert_level = 2 /\ st.policy = "vision" /\ ignored' => alert_level' >= 2
  BY <1>1, RunStepFrame, FrameOK
<1>3. /\ lockout_active' \in BOOLEAN
      /\ lockout_count' \in 0 .. Len(LOCKOUT_TIMES) /\ DriverLockoutCount' \in 0 .. Len(LOCKOUT_TIMES)
      /\ \E i \in DOMAIN LOCKOUT_TIMES : lockout_time_elapsed' \in 0 .. LOCKOUT_TIMES[i]
      /\ LockoutOK'
      /\ lockout_active /\ ~ lockout_active' => lockout_time_elapsed = lockout_duration
  BY <1>1, UpdateLockoutOK
<1>4. distraction' \in 0 .. 2 /\ hi_stds' \in 0 .. HI_STD_FALLBACK_TIME
  <2>1. PICK f \in Face : hi_stds' = NextHiStds(f) /\ \E d \in Filtered(f) : distraction' = d
    BY DEF RunStep
  <2>2. distraction \in 0 .. 2 /\ hi_stds \in 0 .. HI_STD_FALLBACK_TIME
    BY DEF MonitorInv, TypeOK
  <2>3. distraction' \in 0 .. 2
    BY <2>1, <2>2 DEF Filtered, AtMost
  <2>4. hi_stds' \in 0 .. HI_STD_FALLBACK_TIME
    BY <2>1, <2>2, DriverMonitoringAssumption DEF NextHiStds, AtMost
  <2> QED
    BY <2>3, <2>4
<1>5. op_engaged' \in BOOLEAN /\ ignored' \in BOOLEAN
  BY DEF RunStep
<1>6. /\ frameId' \in 0 .. 1 /\ DriverTooDistracted' \in BOOLEAN /\ dm_lockout_set' \in BOOLEAN
      /\ queued' \in BOOLEAN /\ cleared' \in BOOLEAN
  <2>1. frameId' \in 0 .. 1
    BY <1>1 DEF MonitorInv, TypeOK
  <2>2. DriverTooDistracted' \in BOOLEAN /\ dm_lockout_set' \in BOOLEAN /\ queued' \in BOOLEAN
    BY <1>1 DEF MonitorInv, TypeOK
  <2>3. cleared' \in BOOLEAN
    BY <1>1
  <2> QED
    BY <2>1, <2>2, <2>3
<1>7. TypeOK'
  BY <1>2, <1>3, <1>4, <1>5, <1>6 DEF TypeOK, Status, Counts
<1> QED
  BY <1>2, <1>3, <1>7 DEF MonitorInv

LEMMA HandleDMInv ==
  MonitorInv /\ (HandleDM \/ AsyncWrite) => MonitorInv' /\ UNCHANGED <<alert_level, lockout_active>>
<1> SUFFICES ASSUME MonitorInv, HandleDM \/ AsyncWrite
             PROVE  MonitorInv' /\ UNCHANGED <<alert_level, lockout_active>>
  OBVIOUS
<1>1. UNCHANGED monitor /\ UNCHANGED DriverLockoutCount
  BY DEF HandleDM, AsyncWrite
<1>2. /\ DriverTooDistracted' \in BOOLEAN /\ dm_lockout_set' \in BOOLEAN
      /\ queued' \in BOOLEAN /\ cleared' \in BOOLEAN
  <2> USE DEF MonitorInv, TypeOK
  <2>1. CASE HandleDM
    BY <2>1 DEF HandleDM
  <2>2. CASE AsyncWrite
    BY <2>2 DEF AsyncWrite
  <2> QED
    BY <2>1, <2>2
<1> USE DEF MonitorInv, monitor, lockout
<1>3. TypeOK'
  BY <1>1, <1>2 DEF TypeOK
<1>4. AlertOK' /\ LockoutOK'
  BY <1>1 DEF AlertOK, LockoutOK
<1> QED
  BY <1>1, <1>3, <1>4

\* Processes that start are attentive, and nobody is engaged.
LEMMA StartInv ==
  ASSUME NEW x \in BOOLEAN, NEW n \in 0 .. Len(LOCKOUT_TIMES), StartWith(x, n),
         cleared' \in BOOLEAN
  PROVE  MonitorInv' /\ op_engaged' = FALSE /\ ignored' = FALSE /\ lockout_active' = x
<1> USE DEF StartWith
<1>1. st' \in Status /\ cnt' \in Counts
  BY Constants, DriverMonitoringAssumption DEF Attentive, NoCount, Status, Counts, Policy
<1>2. \E i \in DOMAIN LOCKOUT_TIMES : lockout_time_elapsed' \in 0 .. LOCKOUT_TIMES[i]
  BY DurationType
<1>3. TypeOK'
  <2>1. /\ distraction' \in 0 .. 2 /\ hi_stds' \in 0 .. HI_STD_FALLBACK_TIME /\ alert_level' \in 0 .. 3
        /\ frameId' \in 0 .. 1 /\ lockout_count' \in 0 .. Len(LOCKOUT_TIMES)
        /\ DriverLockoutCount' \in 0 .. Len(LOCKOUT_TIMES)
    BY DriverMonitoringAssumption
  <2>2. /\ lockout_active' \in BOOLEAN /\ op_engaged' \in BOOLEAN /\ ignored' \in BOOLEAN
        /\ dm_lockout_set' \in BOOLEAN /\ DriverTooDistracted' \in BOOLEAN /\ queued' \in BOOLEAN
    OBVIOUS
  <2> QED
    BY <1>1, <1>2, <2>1, <2>2 DEF TypeOK, Status, Counts
<1>4. AlertOK'
  BY DEF AlertOK
<1>5. LockoutOK'
  BY DurationType DEF LockoutOK, Duration
<1> QED
  BY <1>3, <1>4, <1>5 DEF MonitorInv

LEMMA InitInv == Init => MonitorInv
<1> SUFFICES ASSUME Init PROVE MonitorInv
  OBVIOUS
<1> USE DEF Init
<1>1. st \in Status /\ cnt \in Counts
  BY Constants, DriverMonitoringAssumption DEF Attentive, NoCount, Status, Counts, Policy
<1>2. \E i \in DOMAIN LOCKOUT_TIMES : lockout_time_elapsed \in 0 .. LOCKOUT_TIMES[i]
  BY DurationType
<1>3. TypeOK
  <2>1. /\ distraction \in 0 .. 2 /\ hi_stds \in 0 .. HI_STD_FALLBACK_TIME /\ alert_level \in 0 .. 3
        /\ frameId \in 0 .. 1 /\ lockout_count \in 0 .. Len(LOCKOUT_TIMES)
        /\ DriverLockoutCount \in 0 .. Len(LOCKOUT_TIMES)
    BY DriverMonitoringAssumption, DurationType
  <2>2. /\ lockout_active \in BOOLEAN /\ op_engaged \in BOOLEAN /\ ignored \in BOOLEAN
        /\ dm_lockout_set \in BOOLEAN /\ DriverTooDistracted \in BOOLEAN
        /\ queued \in BOOLEAN /\ cleared \in BOOLEAN
    OBVIOUS
  <2> QED
    BY <1>1, <1>2, <2>1, <2>2 DEF TypeOK, Status, Counts
<1>4. AlertOK
  BY DEF AlertOK
<1>5. LockoutOK
  BY DurationType DEF LockoutOK, Duration
<1> QED
  BY <1>3, <1>4, <1>5 DEF MonitorInv

LEMMA NextInv ==
  ASSUME MonitorInv, [Next]_vars
  PROVE  /\ MonitorInv'
         /\ [alert_level = 3 /\ op_engaged' => alert_level' = 3]_vars
         /\ [alert_level = 2 /\ st.policy = "vision" /\ ignored' => alert_level' >= 2]_vars
         /\ [lockout_active /\ DriverTooDistracted /\ ~ lockout_active' =>
               lockout_time_elapsed = lockout_duration \/ cleared']_vars
<1>1. CASE RunStep
  BY <1>1, RunStepInv
<1>2. CASE HandleDM \/ AsyncWrite
  BY <1>2, HandleDMInv
<1>3. CASE Restart
  <2>1. /\ DriverTooDistracted \in BOOLEAN /\ queued \in BOOLEAN
        /\ DriverLockoutCount \in 0 .. Len(LOCKOUT_TIMES)
    BY DEF MonitorInv, TypeOK
  <2>2. PICK kept \in {DriverTooDistracted, DriverTooDistracted \/ queued} : StartWith(kept, DriverLockoutCount)
    BY <1>3 DEF Restart
  <2>3. kept \in BOOLEAN /\ (DriverTooDistracted => kept) /\ cleared' \in BOOLEAN
    BY <1>3, <2>1, <2>2 DEF Restart
  <2>4. MonitorInv' /\ op_engaged' = FALSE /\ ignored' = FALSE /\ lockout_active' = kept
    BY <2>1, <2>2, <2>3, StartInv
  <2> QED
    BY <2>3, <2>4
<1>4. CASE Preview \/ Ignition
  <2>1. /\ FALSE \in BOOLEAN /\ 0 \in 0 .. Len(LOCKOUT_TIMES)
        /\ DriverLockoutCount \in 0 .. Len(LOCKOUT_TIMES)
    BY DurationType DEF MonitorInv, TypeOK
  <2>2. cleared' = TRUE /\ (StartWith(FALSE, DriverLockoutCount) \/ StartWith(FALSE, 0))
    BY <1>4 DEF Preview, Ignition
  <2>3. MonitorInv' /\ op_engaged' = FALSE /\ ignored' = FALSE
    BY <2>1, <2>2, StartInv
  <2> QED
    BY <2>2, <2>3
<1>5. CASE UNCHANGED vars
  BY <1>5 DEF vars, lockout, params, MonitorInv, TypeOK, AlertOK, LockoutOK
<1> QED
  BY <1>1, <1>2, <1>3, <1>4, <1>5 DEF Next

\* The invariant that the theorems below rest on.
THEOREM Safety == Spec => []MonitorInv
<1>1. MonitorInv /\ [Next]_vars => MonitorInv'
  BY NextInv
<1> QED
  BY InitInv, <1>1, PTL DEF Spec

\* policy.py: for every cost of a frame awareness stays in its range, that of the
\* policy that is not active above zero, and no lockout outlasts the longest one.
THEOREM TypeCorrect == Spec => []TypeOK
<1>1. MonitorInv => TypeOK
  BY DEF MonitorInv
<1> QED
  BY Safety, <1>1, PTL

\* policy.py: in no setting, policy or order of events does anything but a
\* disengagement clear a red alert.
THEOREM RedSafe == Spec => RedStays
<1>1. MonitorInv /\ [Next]_vars => [alert_level = 3 /\ op_engaged' => alert_level' = 3]_vars
  BY NextInv
<1> QED
  BY Safety, <1>1, PTL DEF Spec, RedStays

\* _set_policy: a driver who hides from the camera after an orange alert keeps
\* it, whatever awareness the other policy has.
THEOREM OrangeSafe == Spec => OrangeNotDodged
<1>1. MonitorInv /\ [Next]_vars =>
        [alert_level = 2 /\ st.policy = "vision" /\ ignored' => alert_level' >= 2]_vars
  BY NextInv
<1> QED
  BY Safety, <1>1, PTL DEF Spec, OrangeNotDodged

\* A lockout whose param is written ends with its time, or where ignition or the
\* preview clears the param; restarts of the processes, and puts that are late
\* or lost, do not end it (policy.py, selfdrived.py).
THEOREM LockoutSafe == Spec => LockoutHolds
<1>1. MonitorInv /\ [Next]_vars =>
        [lockout_active /\ DriverTooDistracted /\ ~ lockout_active' =>
           lockout_time_elapsed = lockout_duration \/ cleared']_vars
  BY NextInv
<1> QED
  BY Safety, <1>1, PTL DEF Spec, LockoutHolds
=============================================================================
