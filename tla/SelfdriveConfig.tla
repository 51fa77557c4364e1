--------------------------- MODULE SelfdriveConfig ---------------------------
(***************************************************************************)
(* The settings that selfdrived changes while driving, and who races for   *)
(* them:                                                                   *)
(*   - step(), 100 Hz, works on a snapshot of self.config, handles the     *)
(*     distance button and latches the longitudinal mode;                  *)
(*   - params_thread, 10 Hz, reads the params one by one and then          *)
(*     overwrites every field of self.config;                              *)
(*   - Params.put(block=False) only queues a write; another thread of the  *)
(*     process writes the file later;                                      *)
(*   - other processes (the settings UI) write the same params.            *)
(* The car has openpilot longitudinal control; without it none of this     *)
(* code does anything.  The process is initialized: update_events of an    *)
(* earlier step returns before the button code, like a step without button *)
(* event or cruise.                                                        *)
(***************************************************************************)
EXTENDS Integers, Sequences

CONSTANTS Modes,                  \* LongitudinalMode: "acc", "e2e", "scc"
          DISTANCE_LONG_PRESS,    \* 50 frames in the code
          StoredParams,           \* what the Params store may hold at the start
          MAX_PRESSES,            \* bound: presses of the distance button
          MAX_REPLAYS,            \* bound: releases of it that a stale step sees again
          MAX_CHANGES             \* bound: writes by other processes

ASSUME ModesAssumption == "e2e" \in Modes
ASSUME LongPressAssumption == DISTANCE_LONG_PRESS \in Nat \ {0}
ASSUME BoundsAssumption == {MAX_PRESSES, MAX_REPLAYS, MAX_CHANGES} \subseteq Nat

Personality == 0 .. 2

Params ==
  [CustomLongitudinalEnabled : BOOLEAN, CustomLongitudinalMode : Modes,
   ExperimentalMode : BOOLEAN, LongitudinalPersonality : Personality]

ASSUME StoredAssumption == StoredParams \subseteq Params

\* SelfdriveConfigSnapshot, without the fields that nothing here depends on.
Snapshot ==
  [custom_longitudinal_mode : Modes, experimental_mode : BOOLEAN, personality : Personality]

\* The distance button of a CarState, and cruiseState.available.
CarState == [gap : {"none", "pressed", "released"}, available : BOOLEAN]

VARIABLES
  params,       \* the files of the Params store
  queue,        \* the writes queued by put(block=False), <<key, value>>
  config,       \* self.config
  thread,       \* params_thread: its program counter and locals
  step,         \* step(): its program counter and local config
  CS,           \* the CarState of this step (CS_prev at its beginning)
  helper,       \* CruiseHelper: frame count of the button, experimental_mode_switched
  enabled,
  active,       \* active_custom_longitudinal_mode
  published,    \* the last selfdriveState and selfdriveStateSP
  driver        \* the button as the driver holds it, and what the bounds count

vars == <<params, queue, config, thread, step, CS, helper, enabled, active, published, driver>>
stepVars == <<step, CS, helper, enabled, active, published>>

Init ==
  /\ params \in StoredParams
  /\ queue = <<>>
  /\ config = [custom_longitudinal_mode |-> params.CustomLongitudinalMode,
               experimental_mode |-> FALSE, personality |-> params.LongitudinalPersonality]
  /\ thread = [pc |-> "enabled", custom |-> FALSE, config |-> config]
  /\ step = [pc |-> "begin", config |-> config]
  /\ CS = [gap |-> "none", available |-> FALSE]
  /\ helper = [frames |-> 0, switched |-> FALSE]
  /\ enabled = FALSE
  /\ active = config.custom_longitudinal_mode
  /\ published = [enabled |-> FALSE, config |-> config, active |-> active]
  /\ driver = [held |-> FALSE, presses |-> 0, replays |-> 0, changes |-> 0]

-----------------------------------------------------------------------------
(***************************************************************************)
(* params_thread.                                                          *)
(***************************************************************************)
Thread(pc, next) ==
  /\ thread.pc = pc
  /\ thread' = next
  /\ UNCHANGED <<params, queue, stepVars, driver>>

ReadEnabled ==
  /\ Thread("enabled", [thread EXCEPT !.pc = "mode", !.custom = params.CustomLongitudinalEnabled])
  /\ UNCHANGED config

ReadMode ==
  /\ Thread("mode", [thread EXCEPT !.pc = "experimental",
                       !.config.custom_longitudinal_mode = params.CustomLongitudinalMode])
  /\ UNCHANGED config

\* Mutant: derived from the pending mode.
ExperimentalMode_Pending ==
  IF thread.custom THEN thread.config.custom_longitudinal_mode = "e2e" ELSE params.ExperimentalMode

\* Custom longitudinal derives it from the latched mode.
ExperimentalMode ==
  IF thread.custom THEN active = "e2e" ELSE params.ExperimentalMode

ReadExperimental ==
  /\ Thread("experimental", [thread EXCEPT !.pc = "personality",
                               !.config.experimental_mode = ExperimentalMode])
  /\ UNCHANGED config

ReadPersonality ==
  /\ Thread("personality", [thread EXCEPT !.pc = "replace",
                              !.config.personality = params.LongitudinalPersonality])
  /\ UNCHANGED config

\* Mutant: personality not among the fields.
Replace_NoPersonality ==
  /\ Thread("replace", [thread EXCEPT !.pc = "enabled"])
  /\ config' = [thread.config EXCEPT !.personality = config.personality]

\* self.config = replace(config, ...) names every field.
Replace ==
  /\ Thread("replace", [thread EXCEPT !.pc = "enabled"])
  /\ config' = thread.config

ParamsThread == ReadEnabled \/ ReadMode \/ ReadExperimental \/ ReadPersonality \/ Replace

-----------------------------------------------------------------------------
(***************************************************************************)
(* step().                                                                 *)
(***************************************************************************)
\* The snapshot, then data_sample.
Sample(cs) ==
  /\ step.pc = "begin"
  /\ step' = [pc |-> "events", config |-> config]
  /\ CS' = cs
  /\ UNCHANGED <<params, queue, config, thread, helper, enabled, active, published>>

\* A new CarState.  The driver presses and releases in turn.
DataSample ==
  \E cs \in CarState :
    /\ Sample(cs)
    /\ CASE cs.gap = "none" -> UNCHANGED driver
         [] cs.gap = "pressed" ->
              /\ ~driver.held /\ driver.presses < MAX_PRESSES
              /\ driver' = [driver EXCEPT !.held = TRUE, !.presses = @ + 1]
         [] cs.gap = "released" ->
              /\ driver.held
              /\ driver' = [driver EXCEPT !.held = FALSE]

\* recv_one timed out: CS_prev again, with its button events.
DataSampleStale ==
  /\ Sample(CS)
  /\ IF CS.gap # "released" THEN UNCHANGED driver
     ELSE /\ driver.replays < MAX_REPLAYS
          /\ driver' = [driver EXCEPT !.replays = @ + 1]

\* update_button_frame_counts.  Counts past the long press are all alike.
ButtonFrames ==
  CASE CS.gap = "pressed" -> 1
    [] CS.gap = "released" -> 0
    [] CS.gap = "none" ->
         IF helper.frames \in 1 .. DISTANCE_LONG_PRESS - 1 THEN helper.frames + 1
                                                           ELSE helper.frames

Toggles(frames) ==
  /\ frames >= DISTANCE_LONG_PRESS
  /\ ~helper.switched
  /\ ~params.CustomLongitudinalEnabled

\* CruiseHelper.update, with the experimental mode of the snapshot.
CruiseUpdate ==
  /\ step.pc = "events"
  /\ step' = [step EXCEPT !.pc = "gap"]
  /\ IF CS.available
       THEN /\ helper' = [frames |-> ButtonFrames,
                          switched |-> helper.switched \/ Toggles(ButtonFrames)]
            /\ queue' = IF Toggles(ButtonFrames)
                          THEN Append(queue, <<"ExperimentalMode", ~step.config.experimental_mode>>)
                          ELSE queue
       ELSE UNCHANGED <<helper, queue>>
  /\ UNCHANGED <<params, config, thread, CS, enabled, active, published, driver>>

\* No release of the distance button, or one that ends a long press.
GapIgnored ==
  /\ step.pc = "gap"
  /\ CS.gap # "released" \/ helper.switched
  /\ step' = [step EXCEPT !.pc = "config"]
  /\ helper' = IF CS.gap = "released" THEN [helper EXCEPT !.switched = FALSE] ELSE helper
  /\ UNCHANGED <<params, queue, config, thread, CS, enabled, active, published, driver>>

\* "decrement personality on distance button press": read self.config ...
GapRead ==
  /\ step.pc = "gap"
  /\ CS.gap = "released" /\ ~helper.switched
  /\ step' = [pc |-> "decrement", config |-> config]
  /\ UNCHANGED <<params, queue, config, thread, CS, helper, enabled, active, published, driver>>

Decrement(personality) == (personality - 1) % 3

\* ... and write it back, then queue the param.
GapWrite ==
  LET personality == Decrement(step.config.personality)
  IN /\ step.pc = "decrement"
     /\ step' = [step EXCEPT !.pc = "config"]
     /\ config' = [step.config EXCEPT !.personality = personality]
     /\ queue' = Append(queue, <<"LongitudinalPersonality", personality>>)
     /\ UNCHANGED <<params, thread, CS, helper, enabled, active, published, driver>>

\* config = self.config, after update_events.
Refresh ==
  /\ step.pc = "config"
  /\ step' = [pc |-> "update", config |-> config]
  /\ UNCHANGED <<params, queue, config, thread, CS, helper, enabled, active, published, driver>>

\* Mutant: the latch is open while engaged.
NextActive_Open(on) == step.config.custom_longitudinal_mode

\* The Engagement-Cycle Latch.
NextActive(on) == IF on THEN active ELSE step.config.custom_longitudinal_mode

\* The state machine decides, the latch follows it, and both are published.
Update ==
  /\ step.pc = "update"
  /\ step' = [step EXCEPT !.pc = "begin"]
  /\ enabled' \in BOOLEAN
  /\ active' = NextActive(enabled')
  /\ published' = [enabled |-> enabled', config |-> step.config, active |-> active']
  /\ UNCHANGED <<params, queue, config, thread, CS, helper, driver>>

Step ==
  \/ DataSample \/ DataSampleStale \/ CruiseUpdate
  \/ GapIgnored \/ GapRead \/ GapWrite \/ Refresh \/ Update

-----------------------------------------------------------------------------
\* asyncWriteThread writes the oldest queued value.
AsyncWrite ==
  /\ queue # <<>>
  /\ params' = [params EXCEPT ![Head(queue)[1]] = Head(queue)[2]]
  /\ queue' = Tail(queue)
  /\ UNCHANGED <<config, thread, stepVars, driver>>

\* Another process writes a param.
OtherProcess ==
  /\ driver.changes < MAX_CHANGES
  /\ \E p \in Params : \E key \in DOMAIN params :
       /\ p[key] # params[key]
       /\ params' = [params EXCEPT ![key] = p[key]]
       /\ driver' = [driver EXCEPT !.changes = @ + 1]
  /\ UNCHANGED <<queue, config, thread, stepVars>>

Next == ParamsThread \/ Step \/ AsyncWrite \/ OtherProcess

Spec == Init /\ [][Next]_vars

\* step() and params_thread loop for ever and the writer thread drains its
\* queue; nothing is assumed of the driver or of other processes.
Fairness == WF_vars(ParamsThread) /\ WF_vars(Step) /\ WF_vars(AsyncWrite)
FairSpec == Spec /\ Fairness

-----------------------------------------------------------------------------
TypeOK ==
  /\ params \in Params
  /\ queue \in Seq({"ExperimentalMode"} \X BOOLEAN \cup {"LongitudinalPersonality"} \X Personality)
  /\ config \in Snapshot
  /\ thread \in [pc : {"enabled", "mode", "experimental", "personality", "replace"},
                 custom : BOOLEAN, config : Snapshot]
  /\ step \in [pc : {"begin", "events", "gap", "decrement", "config", "update"}, config : Snapshot]
  /\ CS \in CarState
  /\ helper \in [frames : 0 .. DISTANCE_LONG_PRESS, switched : BOOLEAN]
  /\ enabled \in BOOLEAN
  /\ active \in Modes
  /\ published \in [enabled : BOOLEAN, config : Snapshot, active : Modes]
  /\ driver \in [held : BOOLEAN, presses : 0 .. MAX_PRESSES, replays : 0 .. MAX_REPLAYS,
                 changes : 0 .. MAX_CHANGES]

\* The Engagement-Cycle Latch: whatever other processes write and whenever
\* params_thread replaces the config, the mode that selfdriveStateSP publishes
\* during an engagement is the one that the last disengaged step saw.
Latch == INSTANCE EngagementLatch
           WITH enabled <- published.enabled, active <- published.active,
                pending <- step.config.custom_longitudinal_mode

LatchSpec == Latch!Spec

\* The published experimental mode settles on the mode the planner runs (the
\* latched one, or the param without custom longitudinal), although
\* params_thread derives it from an active mode that step() changes.
ExperimentalSettles ==
  <>[](published.config.experimental_mode =
         IF params.CustomLongitudinalEnabled THEN active = "e2e" ELSE params.ExperimentalMode)

\* After the last press and the last change in the settings, what selfdrived
\* uses and publishes is the personality that the next start will read.
PersonalityConverges ==
  <>[](/\ config.personality = params.LongitudinalPersonality
       /\ published.config.personality = params.LongitudinalPersonality)
=============================================================================
