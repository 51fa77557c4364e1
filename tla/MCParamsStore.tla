---------------------------- MODULE MCParamsStore ----------------------------
(***************************************************************************)
(* Instances of ParamsStore for TLC.                                       *)
(***************************************************************************)
EXTENDS ParamsStore

CONSTANTS k1, k2, v1, v2

TwoKeys == {k1, k2}
TwoValues == {v1, v2}

\* clearAll removes one of the two keys and keeps the other.
OneKey == {k1}
=============================================================================
