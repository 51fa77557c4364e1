---------------------------- MODULE ControlChain ----------------------------
(***************************************************************************)
(* How an engagement reaches the car, and what stops the car when a        *)
(* process on the way dies or stalls.  selfdrived decides; controlsd       *)
(* derives carControl.longActive from the last messages of selfdrived and  *)
(* never looks at their age; card sends carControl to the car while it is  *)
(* alive; pandad tells the panda whether a living selfdrived is engaged;   *)
(* selfdrived watches controlsd, plannerd and the panda.                   *)
(*                                                                         *)
(* selfdrived samples, works and publishes two messages; the others run in *)
(* between.  The cycles of controlsd and pandad are one action each: their *)
(* outputs depend on nothing but the messages they have sampled, so a      *)
(* longer cycle only delays them.  A process may crash: manager restarts   *)
(* none of the three (restart_if_crash is False).                          *)
(***************************************************************************)
EXTENDS StateMachine

CONSTANTS MISMATCH_LIMIT,      \* samples of a panda that denies control, 200 in selfdrived
          HEARTBEAT_LIMIT,     \* heartbeats without engagement the panda tolerates
          MAX_CRASHES

ASSUME LimitsAssumption ==
  MISMATCH_LIMIT \in Nat \ {0} /\ HEARTBEAT_LIMIT \in Nat \ {0} /\ MAX_CRASHES \in Nat

Proc == {"selfdrived", "controlsd", "plannerd"}
Buttons == {"none", "set", "cancel"}

\* What one sample of selfdrived contains, of all the services together.
Sample == [button : Buttons, gas : BOOLEAN, commIssue : BOOLEAN]
NoSample == [button |-> "none", gas |-> FALSE, commIssue |-> FALSE]

VARIABLES
  up,                  \* the process runs
  alive,               \* SubMaster: its last message is younger than 10 periods
  pc, seen,            \* where selfdrived is, and what it sampled (cleared after use)
  state, timer, mismatch_counter,
  selfdriveState,      \* its field enabled
  onroadEvents,        \* whether one of them has overrideLongitudinal
  carControl,          \* its field longActive
  controls_allowed, heartbeat_mismatches,
  button,              \* the driver's button event that selfdrived has not sampled
  crashes              \* bounded by MAX_CRASHES

engagement == <<state, timer>>
messages == <<selfdriveState, onroadEvents, carControl>>
panda == <<controls_allowed, heartbeat_mismatches>>
vars == <<up, alive, pc, seen, engagement, mismatch_counter, messages, panda, button, crashes>>

\* The type invariant; the panda's count of mismatches never stays at its limit.
TypeOK ==
  /\ up \in [Proc -> BOOLEAN] /\ alive \in [Proc -> BOOLEAN]
  /\ pc \in {"wait", "work", "events"} /\ seen \in Sample
  /\ state \in State /\ timer \in 0 .. SOFT_DISABLE_FRAMES
  /\ mismatch_counter \in 0 .. MISMATCH_LIMIT
  /\ selfdriveState \in BOOLEAN /\ onroadEvents \in BOOLEAN /\ carControl \in BOOLEAN
  /\ controls_allowed \in BOOLEAN /\ heartbeat_mismatches \in 0 .. HEARTBEAT_LIMIT - 1
  /\ button \in Buttons /\ crashes \in 0 .. MAX_CRASHES

Init ==
  /\ up = [p \in Proc |-> TRUE] /\ alive = [p \in Proc |-> TRUE]
  /\ pc = "wait" /\ seen = NoSample
  /\ state = StateMachineInit.state /\ timer = StateMachineInit.timer /\ mismatch_counter = 0
  /\ selfdriveState = FALSE /\ onroadEvents = FALSE /\ carControl = FALSE
  /\ controls_allowed = FALSE /\ heartbeat_mismatches = 0
  /\ button = "none" /\ crashes = 0

-----------------------------------------------------------------------------
\* pm.send: the subscribers see the service alive again.
Sent(p) == alive' = [alive EXCEPT ![p] = TRUE]

(***************************************************************************)
(* selfdrived                                                              *)
(***************************************************************************)
\* Mutant: of the control processes only controlsd is watched.
commIssue_Controls == ~alive["controlsd"]

\* SubMaster.all_checks of the services this chain has.
commIssue == ~alive["controlsd"] \/ ~alive["plannerd"]

\* data_sample: the messages of the step, and the mismatch count.  The driver
\* may press the gas pedal in any step.
DataSample(gas) ==
  /\ up["selfdrived"] /\ pc = "wait"
  /\ seen' = [button |-> button, gas |-> gas, commIssue |-> commIssue]
  /\ button' = "none"
  /\ mismatch_counter' = IF state \notin ENABLED_STATES THEN 0
                         ELSE IF controls_allowed \/ mismatch_counter = MISMATCH_LIMIT
                              THEN mismatch_counter ELSE mismatch_counter + 1
  /\ pc' = "work"
  /\ UNCHANGED <<up, alive, engagement, messages, panda, crashes>>

\* update_events: of the events, those that this chain produces.
SelfdrivedEvents ==
  When(seen.button = "set", "buttonEnable")
    \cup When(seen.button = "cancel", "buttonCancel")
    \cup When(seen.gas, "gasPressedOverride")
    \cup When(seen.commIssue, "systemSoft")
    \cup When(mismatch_counter = MISMATCH_LIMIT, "controlsMismatch")

\* The rest of step(), up to the send of selfdriveState.  The alert types of
\* the state machine go to the driver and not into this chain.
SelfdrivedStep ==
  LET new == StateMachineUpdate([state |-> state, timer |-> timer, alerts |-> {}],
                                StateMachineTypes(SelfdrivedEvents, {}))
  IN /\ up["selfdrived"] /\ pc = "work"
     /\ state' = new.state /\ timer' = new.timer
     /\ selfdriveState' = Enabled(new)
     /\ seen' = [NoSample EXCEPT !.gas = seen.gas]
     /\ Sent("selfdrived") /\ pc' = "events"
     /\ UNCHANGED <<up, mismatch_counter, onroadEvents, carControl, panda, button, crashes>>

\* onroadEvents follows in a message of its own.
PublishEvents ==
  /\ up["selfdrived"] /\ pc = "events"
  /\ onroadEvents' = seen.gas
  /\ seen' = NoSample /\ pc' = "wait"
  /\ UNCHANGED <<up, alive, engagement, mismatch_counter, selfdriveState, carControl, panda,
                 button, crashes>>

(***************************************************************************)
(* controlsd, plannerd, card                                               *)
(***************************************************************************)
\* Mutant: longActive, once set, ends only with an override.
longActive_Latched == (selfdriveState \/ carControl) /\ ~onroadEvents

longActive == selfdriveState /\ ~onroadEvents

StateControl ==
  /\ up["controlsd"]
  /\ carControl' = longActive
  /\ Sent("controlsd")
  /\ UNCHANGED <<up, pc, seen, engagement, mismatch_counter, selfdriveState, onroadEvents,
                 panda, button, crashes>>

\* The plan itself does not matter here.
PlannerPublish ==
  /\ up["plannerd"]
  /\ Sent("plannerd")
  /\ UNCHANGED <<up, pc, seen, engagement, mismatch_counter, messages, panda, button, crashes>>

\* card's controls_update: it sends while carControl is alive.
Sending == alive["controlsd"] /\ carControl

(***************************************************************************)
(* The panda and the driver                                                *)
(***************************************************************************)
\* Mutant: without the age of selfdriveState.
engaged_Last == selfdriveState

\* What pandad sends with the heartbeat.
engaged == alive["selfdrived"] /\ selfdriveState

\* The panda counts the heartbeats that contradict it, then denies control.
Heartbeat ==
  LET n == IF controls_allowed /\ ~engaged THEN heartbeat_mismatches + 1 ELSE 0
  IN /\ heartbeat_mismatches' = IF n = HEARTBEAT_LIMIT THEN 0 ELSE n
     /\ controls_allowed' = (controls_allowed /\ n # HEARTBEAT_LIMIT)
     /\ UNCHANGED <<up, alive, pc, seen, engagement, mismatch_counter, messages, button, crashes>>

\* A button event goes to the panda and, through card, to selfdrived.
Press(b) ==
  /\ button = "none"
  /\ button' = b
  /\ controls_allowed' = (b = "set")
  /\ UNCHANGED <<up, alive, pc, seen, engagement, mismatch_counter, messages,
                 heartbeat_mismatches, crashes>>

(***************************************************************************)
(* Faults                                                                  *)
(***************************************************************************)
Crash(p) ==
  /\ up[p] /\ crashes < MAX_CRASHES
  /\ up' = [up EXCEPT ![p] = FALSE]
  /\ crashes' = crashes + 1
  /\ UNCHANGED <<alive, pc, seen, engagement, mismatch_counter, messages, panda, button>>

\* The last message of a dead or stalled process has become too old.
TimeOut(p) ==
  /\ alive[p]
  /\ alive' = [alive EXCEPT ![p] = FALSE]
  /\ UNCHANGED <<up, pc, seen, engagement, mismatch_counter, messages, panda, button, crashes>>

-----------------------------------------------------------------------------
SelfdrivedNext == (\E gas \in BOOLEAN : DataSample(gas)) \/ SelfdrivedStep \/ PublishEvents

Next ==
  \/ SelfdrivedNext \/ StateControl \/ PlannerPublish \/ Heartbeat
  \/ \E b \in Buttons \ {"none"} : Press(b)
  \/ \E p \in Proc : Crash(p) \/ TimeOut(p)

Spec == Init /\ [][Next]_vars

\* The processes and pandad run in endless loops; the age of a message grows.
Fairness ==
  /\ WF_vars(SelfdrivedNext) /\ WF_vars(StateControl) /\ WF_vars(PlannerPublish)
  /\ WF_vars(Heartbeat)
  /\ \A p \in Proc : WF_vars(~up[p] /\ TimeOut(p))

FairSpec == Spec /\ Fairness

-----------------------------------------------------------------------------
(***************************************************************************)
(* Properties                                                              *)
(***************************************************************************)
\* card sends it and the panda lets it through.
Actuating == Sending /\ controls_allowed

\* No process of the chain can die and leave the car under longitudinal
\* control: the panda stops a dead selfdrived, card a dead controlsd, and a
\* soft disable a dead plannerd.
DeathStopsActuation == (\E p \in Proc : ~up[p]) ~> ~Actuating

\* A disengagement reaches the car through two other processes, one of which
\* may die on the way, and is not left to the panda.
StopReachesCar ==
  (up["selfdrived"] /\ state = "disabled") ~> (~Sending \/ state # "disabled" \/ ~up["selfdrived"])

\* selfdrived's own checks end an engagement that has lost one of the other
\* processes for good.
LostPartnerDisengages ==
  (~up["controlsd"] \/ ~up["plannerd"]) ~> (state = "disabled" \/ ~up["selfdrived"])
=============================================================================
