-------------------------- MODULE MCSelfdrivedLive --------------------------
(***************************************************************************)
(* The instances of MCSelfdrived with steps that are counted modulo 2: a   *)
(* step() that finds nothing new and changes nothing is a step all the     *)
(* same, and fairness must not force the driver to do something else.      *)
(***************************************************************************)
EXTENDS MCSelfdrived

VARIABLE frame

LiveInit == Init /\ frame = 0

LiveNext ==
  \/ (Step \/ StepStale) /\ frame' = 1 - frame
  \/ ParamsThread /\ UNCHANGED frame

\* run() never stops calling step(), which is always enabled; nothing is
\* assumed of params_thread.
FairSpec == LiveInit /\ [][LiveNext]_<<vars, frame>> /\ WF_frame(frame' = 1 - frame)
=============================================================================
