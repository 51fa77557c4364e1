---------------------------- MODULE MCSelfdrived ----------------------------
(***************************************************************************)
(* Instances of Selfdrived for TLC.  The inputs of a run are a drivable    *)
(* CarState and the ones that differ from it in one or two ways.           *)
(***************************************************************************)
EXTENDS Selfdrived

Drive ==
  [canValid |-> TRUE, canTimeout |-> FALSE, gas |-> FALSE, brake |-> FALSE, regen |-> FALSE,
   standstill |-> FALSE, slow |-> FALSE, gear |-> "drive", available |-> TRUE,
   cruise |-> FALSE, buttonEnable |-> FALSE, buttons |-> {}, steering |-> FALSE,
   door |-> FALSE, parkBrake |-> FALSE, brakeHold |-> FALSE, car |-> {}, twice |-> {}]

Healthy ==
  [ready |-> TRUE, allowed |-> TRUE, allowed_lateral |-> TRUE, system |-> {},
   custom_longitudinal_fault |-> FALSE]

\* One change: a flag flipped, a button, a gear, an event of the car.
Flip(cs, fields) == {[cs EXCEPT ![f] = ~@] : f \in fields}
Press(cs, buttons) == {[cs EXCEPT !.buttons = {b}] : b \in buttons}
Gears(cs, gears) == {[cs EXCEPT !.gear = g] : g \in gears}
Report(cs, sets) == {[cs EXCEPT !.car = es] : es \in sets}

Stopped == [Drive EXCEPT !.standstill = TRUE, !.slow = TRUE]
Braking == [Drive EXCEPT !.brake = TRUE]
Held == [Stopped EXCEPT !.brake = TRUE]

System(e) == [Healthy EXCEPT !.system = {e}]
Denied(f) == [Healthy EXCEPT ![f] = FALSE]
PlanFault == [Healthy EXCEPT !.custom_longitudinal_fault = TRUE]

With(css, subs) == [CS : css, sub : subs]

\* A car without PCM cruise: buttons engage.
ButtonConfigs ==
  {[Mads |-> TRUE, steering_mode_on_brake |-> mode, disengage_on_accelerator |-> FALSE,
    allow_always |-> FALSE, no_main_cruise |-> FALSE, pcmCruise |-> FALSE,
    honda |-> FALSE, allow_button_cancel |-> TRUE] : mode \in MadsSteeringModeOnBrake}

\* Driving, stopped, braking and held on the brake; every single change of
\* driving, those of braking that the brake interacts with (enabling, the LKAS
\* button, the gas, main cruise, the gear, the brand's events), and of being held
\* the three ways to start.
Bases == {Drive, Stopped, Braking, Held}

PedalChanges(cs) ==
  Flip(cs, {"gas", "available", "buttonEnable", "steering", "canValid"})
    \cup Press(cs, {"lkas", "set"})
    \cup Gears(cs, {"reverse"})
    \cup Report(cs, {{"cruiseDisabled", "belowEngageSpeed"}})

Changes(cs) ==
  PedalChanges(cs)
    \cup Flip(cs, {"regen", "door", "parkBrake", "brakeHold"})
    \cup Press(cs, {"cancel"})
    \cup Gears(cs, {"park"})
    \cup Report(cs, {{"espActive"}, {"steerDisengage"}, {"wrongCruiseMode"}})

ButtonInputs ==
  With(Bases \cup Changes(Drive) \cup PedalChanges(Braking)
         \cup Flip(Held, {"gas", "buttonEnable"}) \cup Press(Held, {"lkas"}),
       {Healthy})

\* Faults of the system, the panda, the planner and the CAN bus, with a driver
\* who engages, brakes, disables and changes gear.
FaultConfigs == {c \in ButtonConfigs : c.steering_mode_on_brake # "remainActive"}

Parked == [Stopped EXCEPT !.gear = "park"]

FaultInputs ==
  With({Drive, Braking, Held, Parked} \cup Flip(Drive, {"buttonEnable", "canValid"})
         \cup Press(Drive, {"lkas", "cancel"})
         \cup {[cs EXCEPT !.canTimeout = TRUE, !.canValid = FALSE] : cs \in {Drive, Parked}},
       {Healthy})
  \cup With({Drive, Braking} \cup Flip(Held, {"buttonEnable"}),
            {System(e) : e \in {"systemSoft", "systemFault", "systemBlock"}}
              \cup {Denied(f) : f \in {"allowed", "allowed_lateral"}}
              \cup {PlanFault})

\* PCM cruise: the car's own cruise engages.  One car has an LKAS button that
\* works without main cruise, one has no main cruise, one runs without MADS, and
\* one is a Honda, whose own code reports that cruise is off.
PcmConfigs ==
  LET Pcm(on, mode, gas, always, nomain, honda) ==
        [Mads |-> on, steering_mode_on_brake |-> mode, disengage_on_accelerator |-> gas,
         allow_always |-> always, no_main_cruise |-> nomain, pcmCruise |-> TRUE,
         honda |-> honda, allow_button_cancel |-> ~always]
  IN {Pcm(TRUE, "pause", TRUE, TRUE, FALSE, FALSE),
      Pcm(TRUE, "disengage", FALSE, TRUE, TRUE, FALSE),
      Pcm(FALSE, "pause", TRUE, FALSE, FALSE, FALSE),
      Pcm(TRUE, "pause", TRUE, FALSE, FALSE, TRUE)}

Cruising == [Drive EXCEPT !.cruise = TRUE]

PcmInputs ==
  With({Drive, Cruising, Braking, Held}
         \cup Flip(Drive, {"available"}) \cup Flip(Held, {"cruise"})
         \cup Flip(Cruising, {"gas", "brake", "steering", "canValid"})
         \cup Press(Drive, {"lkas", "cancel"}) \cup Press(Cruising, {"lkas", "cancel"})
         \cup Gears(Stopped, {"park"})
         \cup Report(Drive, {{"cruiseDisabled"}}) \cup Report(Cruising, {{"belowEngageSpeed"}})
         \cup {[cs EXCEPT !.twice = {"buttonCancel"}] : cs \in Press(Cruising, {"cancel"})},
       {Healthy})
  \cup With({Drive, Cruising}, {System("systemSoft")})

DisengageConfigs == {c \in ButtonConfigs : c.steering_mode_on_brake = "disengage"}
=============================================================================
