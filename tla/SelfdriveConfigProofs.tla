------------------------ MODULE SelfdriveConfigProofs ------------------------
(***************************************************************************)
(* The Engagement-Cycle Latch, proved for every set of modes, every length *)
(* of the long press and every bound: whatever params_thread, the writer   *)
(* thread and other processes do, selfdriveStateSP implements              *)
(* EngagementLatch.                                                        *)
(***************************************************************************)
EXTENDS SelfdriveConfig, TLAPS

\* What can be written to the Params store through the queue.
Queued == {"ExperimentalMode"} \X BOOLEAN \cup {"LongitudinalPersonality"} \X Personality

\* The mode that a step has published is the one it has latched.
LatchInv == TypeOK /\ published.active = active

\* (personality - 1) % 3 stays a personality, the wrap-around included.
LEMMA DecrementType ==
  ASSUME NEW p \in Personality
  PROVE  (p - 1) % 3 \in Personality
BY DEF Personality

\* The start: everything is read from the store.
LEMMA InitInv == Init => LatchInv
<1> SUFFICES ASSUME Init PROVE LatchInv
  OBVIOUS
<1>1. params \in Params
  BY StoredAssumption DEF Init
<1>2. config \in Snapshot
  BY <1>1 DEF Init, Params, Snapshot
<1>3. queue \in Seq({"ExperimentalMode"} \X BOOLEAN \cup {"LongitudinalPersonality"} \X Personality)
  BY DEF Init
<1>4. /\ thread \in [pc : {"enabled", "mode", "experimental", "personality", "replace"},
                     custom : BOOLEAN, config : Snapshot]
      /\ step \in [pc : {"begin", "events", "gap", "decrement", "config", "update"}, config : Snapshot]
  BY <1>2 DEF Init
<1>5. active \in Modes /\ config.personality \in Personality
  BY <1>2 DEF Init, Snapshot
<1>6. /\ CS \in CarState
      /\ helper \in [frames : 0 .. DISTANCE_LONG_PRESS, switched : BOOLEAN]
      /\ enabled \in BOOLEAN
  <2>1. 0 \in 0 .. DISTANCE_LONG_PRESS
    BY LongPressAssumption
  <2>2. CS \in CarState
    BY DEF Init, CarState
  <2> QED
    BY <2>1, <2>2 DEF Init
<1>7. published \in [enabled : BOOLEAN, config : Snapshot, active : Modes]
  BY <1>2, <1>5 DEF Init
<1>8. driver \in [held : BOOLEAN, presses : 0 .. MAX_PRESSES, replays : 0 .. MAX_REPLAYS,
                  changes : 0 .. MAX_CHANGES]
  <2>1. 0 \in 0 .. MAX_PRESSES /\ 0 \in 0 .. MAX_REPLAYS /\ 0 \in 0 .. MAX_CHANGES
    BY BoundsAssumption
  <2> QED
    BY <2>1 DEF Init
<1>9. published.active = active
  BY DEF Init
<1> QED
  BY <1>1, <1>2, <1>3, <1>4, <1>5, <1>6, <1>7, <1>8, <1>9 DEF LatchInv, TypeOK

\* params_thread reads params and replaces the config.
LEMMA ThreadInv == LatchInv /\ ParamsThread => LatchInv'
<1> SUFFICES ASSUME LatchInv, ParamsThread PROVE LatchInv'
  OBVIOUS
<1> USE DEF LatchInv, TypeOK, Thread, stepVars
<1>1. params.CustomLongitudinalEnabled \in BOOLEAN /\ params.CustomLongitudinalMode \in Modes
      /\ params.ExperimentalMode \in BOOLEAN /\ params.LongitudinalPersonality \in Personality
  BY DEF Params
<1>2. CASE ReadEnabled
  BY <1>1, <1>2 DEF ReadEnabled
<1>3. CASE ReadMode
  <2>1. [thread.config EXCEPT !.custom_longitudinal_mode = params.CustomLongitudinalMode] \in Snapshot
    BY <1>1 DEF Snapshot
  <2> QED
    BY <1>3, <2>1 DEF ReadMode
<1>4. CASE ReadExperimental
  <2>1. ExperimentalMode \in BOOLEAN
    BY <1>1 DEF ExperimentalMode
  <2>2. [thread.config EXCEPT !.experimental_mode = ExperimentalMode] \in Snapshot
    BY <2>1 DEF Snapshot
  <2> QED
    BY <1>4, <2>2 DEF ReadExperimental
<1>5. CASE ReadPersonality
  <2>1. [thread.config EXCEPT !.personality = params.LongitudinalPersonality] \in Snapshot
    BY <1>1 DEF Snapshot
  <2> QED
    BY <1>5, <2>1 DEF ReadPersonality
<1>6. CASE Replace
  BY <1>6 DEF Replace
<1> QED
  BY <1>2, <1>3, <1>4, <1>5, <1>6 DEF ParamsThread

\* The actions of step() other than its end: the configuration of the step is
\* a config that was there, and nothing is published.
LEMMA StepInv == LatchInv /\ Step => LatchInv'
<1> SUFFICES ASSUME LatchInv, Step PROVE LatchInv'
  OBVIOUS
<1> USE DEF LatchInv, TypeOK
<1>1. ASSUME NEW cs \in CarState, Sample(cs)
      PROVE  /\ step' \in [pc : {"begin", "events", "gap", "decrement", "config", "update"}, config : Snapshot]
             /\ CS' \in CarState
             /\ UNCHANGED <<params, queue, config, thread, helper, enabled, active, published>>
  BY <1>1 DEF Sample
<1>2. CASE DataSample
  <2>1. PICK cs \in CarState : /\ Sample(cs)
           /\ CASE cs.gap = "none" -> UNCHANGED driver
                [] cs.gap = "pressed" ->
                     /\ ~driver.held /\ driver.presses < MAX_PRESSES
                     /\ driver' = [driver EXCEPT !.held = TRUE, !.presses = @ + 1]
                [] cs.gap = "released" ->
                     /\ driver.held
                     /\ driver' = [driver EXCEPT !.held = FALSE]
    BY <1>2 DEF DataSample
  <2>2. driver' \in [held : BOOLEAN, presses : 0 .. MAX_PRESSES, replays : 0 .. MAX_REPLAYS,
                     changes : 0 .. MAX_CHANGES]
    <3>1. cs.gap \in {"none", "pressed", "released"}
      BY DEF CarState
    <3>2. CASE cs.gap = "none"
      BY <2>1, <3>2
    <3>3. CASE cs.gap = "pressed"
      <4>1. driver.presses \in 0 .. MAX_PRESSES /\ MAX_PRESSES \in Nat
        BY BoundsAssumption
      <4>2. driver.presses < MAX_PRESSES
        BY <2>1, <3>3
      <4>3. driver.presses + 1 \in 0 .. MAX_PRESSES
        BY <4>1, <4>2
      <4>4. driver' = [driver EXCEPT !.held = TRUE, !.presses = @ + 1]
        BY <2>1, <3>3
      <4> QED
        BY <4>3, <4>4
    <3>4. CASE cs.gap = "released"
      BY <2>1, <3>4
    <3> QED
      BY <3>1, <3>2, <3>3, <3>4
  <2> QED
    BY <1>1, <2>1, <2>2
<1>3. CASE DataSampleStale
  <2>1. driver' \in [held : BOOLEAN, presses : 0 .. MAX_PRESSES, replays : 0 .. MAX_REPLAYS,
                     changes : 0 .. MAX_CHANGES]
    BY <1>3, BoundsAssumption DEF DataSampleStale
  <2> QED
    BY <1>1, <1>3, <2>1 DEF DataSampleStale
<1>4. CASE CruiseUpdate
  <2>1. ButtonFrames \in 0 .. DISTANCE_LONG_PRESS
    BY LongPressAssumption DEF ButtonFrames, CarState
  <2>2. Toggles(ButtonFrames) \in BOOLEAN
    BY DEF Toggles
  <2>3. helper' \in [frames : 0 .. DISTANCE_LONG_PRESS, switched : BOOLEAN]
    BY <1>4, <2>1, <2>2 DEF CruiseUpdate
  <2>4. <<"ExperimentalMode", ~step.config.experimental_mode>> \in Queued
    BY DEF Queued, Snapshot
  <2>5. queue' \in Seq(Queued)
    <3>1. queue \in Seq(Queued)
      BY DEF Queued
    <3>2. Append(queue, <<"ExperimentalMode", ~step.config.experimental_mode>>) \in Seq(Queued)
      BY <2>4, <3>1
    <3> QED
      BY <1>4, <3>1, <3>2 DEF CruiseUpdate
  <2> QED
    BY <1>4, <2>3, <2>5 DEF CruiseUpdate, Queued
<1>5. CASE GapIgnored
  BY <1>5 DEF GapIgnored
<1>6. CASE GapRead
  BY <1>6 DEF GapRead
<1>7. CASE GapWrite
  <2> DEFINE p == Decrement(step.config.personality)
  <2>1. p \in Personality
    BY DecrementType DEF Decrement, Snapshot
  <2>2. [step.config EXCEPT !.personality = p] \in Snapshot
    BY <2>1 DEF Snapshot
  <2>3. <<"LongitudinalPersonality", p>> \in Queued
    BY <2>1 DEF Queued
  <2>4. Append(queue, <<"LongitudinalPersonality", p>>) \in Seq(Queued)
    BY <2>3 DEF Queued
  <2> QED
    BY <1>7, <2>2, <2>4 DEF GapWrite, Queued
<1>8. CASE Refresh
  BY <1>8 DEF Refresh
<1>9. CASE Update
  <2>1. NextActive(enabled') \in Modes
    BY DEF NextActive, Snapshot
  <2> QED
    BY <1>9, <2>1 DEF Update
<1> QED
  BY <1>2, <1>3, <1>4, <1>5, <1>6, <1>7, <1>8, <1>9 DEF Step

\* The other writers of the store.
LEMMA WritersInv == LatchInv /\ (AsyncWrite \/ OtherProcess) => LatchInv'
<1> SUFFICES ASSUME LatchInv, AsyncWrite \/ OtherProcess PROVE LatchInv'
  OBVIOUS
<1> USE DEF LatchInv, TypeOK, stepVars
<1>1. CASE AsyncWrite
  <2>1. queue \in Seq(Queued) /\ queue # <<>>
    BY <1>1 DEF AsyncWrite, Queued
  <2>2. Head(queue) \in Queued /\ Tail(queue) \in Seq(Queued)
    BY <2>1
  <2>3. params' \in Params
    <3>1. CASE Head(queue)[1] = "ExperimentalMode" /\ Head(queue)[2] \in BOOLEAN
      BY <1>1, <3>1 DEF AsyncWrite, Params
    <3>2. CASE Head(queue)[1] = "LongitudinalPersonality" /\ Head(queue)[2] \in Personality
      BY <1>1, <3>2 DEF AsyncWrite, Params
    <3> QED
      BY <2>2, <3>1, <3>2 DEF Queued
  <2> QED
    BY <1>1, <2>2, <2>3 DEF AsyncWrite, Queued
<1>2. CASE OtherProcess
  <2>1. PICK p \in Params, key \in DOMAIN params :
           /\ params' = [params EXCEPT ![key] = p[key]]
           /\ driver' = [driver EXCEPT !.changes = @ + 1]
    BY <1>2 DEF OtherProcess
  <2>2. key \in {"CustomLongitudinalEnabled", "CustomLongitudinalMode", "ExperimentalMode",
                 "LongitudinalPersonality"}
    BY DEF Params
  <2>3. params' \in Params
    BY <2>1, <2>2 DEF Params
  <2>4. driver' \in [held : BOOLEAN, presses : 0 .. MAX_PRESSES, replays : 0 .. MAX_REPLAYS,
                     changes : 0 .. MAX_CHANGES]
    <3>1. driver.changes + 1 \in 0 .. MAX_CHANGES
      <4>1. driver.changes \in 0 .. MAX_CHANGES /\ MAX_CHANGES \in Nat
        BY BoundsAssumption
      <4>2. driver.changes < MAX_CHANGES
        BY <1>2 DEF OtherProcess
      <4> QED
        BY <4>1, <4>2
    <3> QED
      BY <2>1, <3>1
  <2> QED
    BY <1>2, <2>3, <2>4 DEF OtherProcess
<1> QED
  BY <1>1, <1>2

\* Every step keeps it, and so does stuttering.
LEMMA NextInv == LatchInv /\ [Next]_vars => LatchInv'
<1> SUFFICES ASSUME LatchInv, [Next]_vars PROVE LatchInv'
  OBVIOUS
<1>1. CASE ParamsThread
  BY <1>1, ThreadInv
<1>2. CASE Step
  BY <1>2, StepInv
<1>3. CASE AsyncWrite \/ OtherProcess
  BY <1>3, WritersInv
<1>4. CASE UNCHANGED vars
  BY <1>4 DEF vars, LatchInv, TypeOK
<1> QED
  BY <1>1, <1>2, <1>3, <1>4 DEF Next

\* The start, as the latch sees it: disengaged, tracking the stored mode.
LEMMA LatchInit == Init => Latch!Init
<1> SUFFICES ASSUME Init PROVE Latch!Init
  OBVIOUS
<1>1. LatchInv
  BY InitInv
<1>2. step.config = config /\ published.enabled = FALSE /\ published.active = active
  BY DEF Init
<1>3. config.custom_longitudinal_mode \in Modes
  BY <1>1 DEF LatchInv, TypeOK, Snapshot
<1> QED
  BY <1>2, <1>3 DEF Init, Latch!Init

\* Every step of the code is a step of the latch, or one it does not see: a new
\* snapshot reads the pending mode, the end of a step tracks it or holds.
LEMMA LatchStep ==
  LatchInv /\ [Next]_vars
    => [Latch!Next]_<<published.enabled, step.config.custom_longitudinal_mode, published.active>>
<1> DEFINE lvars == <<published.enabled, step.config.custom_longitudinal_mode, published.active>>
<1> SUFFICES ASSUME LatchInv, [Next]_vars PROVE [Latch!Next]_lvars
  OBVIOUS
<1>1. CASE ParamsThread \/ AsyncWrite \/ OtherProcess
  <2>1. UNCHANGED <<step, published>>
    BY <1>1 DEF ParamsThread, ReadEnabled, ReadMode, ReadExperimental, ReadPersonality,
                Replace, Thread, AsyncWrite, OtherProcess, stepVars
  <2> QED
    BY <2>1
<1>2. ASSUME UNCHANGED published, step'.config = config
      PROVE  Latch!Next
  <2>1. config.custom_longitudinal_mode \in Modes
    BY DEF LatchInv, TypeOK, Snapshot
  <2> QED
    BY <1>2, <2>1 DEF Latch!Next, Latch!Read
<1>3. CASE DataSample \/ DataSampleStale \/ GapRead \/ Refresh
  <2>1. UNCHANGED published /\ step'.config = config
    <3>1. ASSUME NEW cs, Sample(cs) PROVE UNCHANGED published /\ step'.config = config
      BY <3>1 DEF Sample
    <3>2. CASE DataSample
      <4>1. PICK cs \in CarState : Sample(cs)
        BY <3>2, Zenon DEF DataSample
      <4> QED
        BY <3>1, <4>1
    <3>3. CASE DataSampleStale
      BY <3>1, <3>3 DEF DataSampleStale
    <3>4. CASE GapRead \/ Refresh
      BY <3>4 DEF GapRead, Refresh
    <3> QED
      BY <1>3, <3>2, <3>3, <3>4
  <2> QED
    BY <1>2, <2>1
<1>4. CASE CruiseUpdate \/ GapIgnored \/ GapWrite
  <2>1. UNCHANGED published /\ step'.config = step.config
    BY <1>4 DEF CruiseUpdate, GapIgnored, GapWrite, LatchInv, TypeOK
  <2> QED
    BY <2>1
<1>5. CASE Update
  <2>1. /\ step'.config = step.config
        /\ enabled' \in BOOLEAN
        /\ published'.enabled = enabled'
        /\ published'.active = NextActive(enabled')
    BY <1>5 DEF Update, LatchInv, TypeOK
  <2>2. CASE enabled' = TRUE
    <3>1. published'.active = published.active
      BY <2>1, <2>2 DEF NextActive, LatchInv
    <3> QED
      BY <2>1, <2>2, <3>1 DEF Latch!Next, Latch!Hold
  <2>3. CASE enabled' = FALSE
    <3>1. published'.active = step.config.custom_longitudinal_mode
      BY <2>1, <2>3 DEF NextActive
    <3> QED
      BY <2>1, <2>3, <3>1 DEF Latch!Next, Latch!Track
  <2> QED
    BY <2>1, <2>2, <2>3
<1>6. CASE UNCHANGED vars
  BY <1>6 DEF vars
<1> QED
  BY <1>1, <1>3, <1>4, <1>5, <1>6 DEF Next, Step

\* Type correctness, for every length of the queue of writes: what step(),
\* params_thread and the writer thread pass to each other is a configuration,
\* the decremented personality included.
THEOREM TypeCorrect == Spec => []TypeOK
<1>1. LatchInv => TypeOK
  BY DEF LatchInv
<1> QED
  BY <1>1, InitInv, NextInv, PTL DEF Spec

\* The Engagement-Cycle Latch: the mode that selfdriveStateSP publishes during
\* an engagement is the one the last disengaged step saw (selfdrived.py step and
\* params_thread), for every set of modes, every number of button presses and
\* every number of writes by other processes.
THEOREM LatchRefinement == Spec => LatchSpec
<1>1. Init => LatchInv
  BY InitInv
<1>2. LatchInv /\ [Next]_vars => LatchInv'
  BY NextInv
<1>3. Init => Latch!Init
  BY LatchInit
<1>4. LatchInv /\ [Next]_vars
        => [Latch!Next]_<<published.enabled, step.config.custom_longitudinal_mode, published.active>>
  BY LatchStep
<1> QED
  BY <1>1, <1>2, <1>3, <1>4, PTL DEF Spec, LatchSpec, Latch!Spec
=============================================================================
