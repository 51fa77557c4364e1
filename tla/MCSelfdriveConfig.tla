-------------------------- MODULE MCSelfdriveConfig --------------------------
(***************************************************************************)
(* Instances of SelfdriveConfig for TLC.                                   *)
(***************************************************************************)
EXTENDS SelfdriveConfig

\* "scc" behaves as "acc" here: only "e2e" is asked for by name.
TwoModes == {"acc", "e2e"}

\* Custom longitudinal on, as by default.  The personalities are a cycle, so
\* one of them is enough.
Stored(mode) ==
  [CustomLongitudinalEnabled |-> TRUE, CustomLongitudinalMode |-> mode,
   ExperimentalMode |-> FALSE, LongitudinalPersonality |-> 1]

\* One of them; another process may switch it off, to the
\* other mode, or change the two other params.
OneStored == {Stored("e2e")}
=============================================================================
