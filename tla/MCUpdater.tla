----------------------------- MODULE MCUpdater -----------------------------
(* Two releases that ask for different operating systems. *)
EXTENDS Updater

MCRelease == {"r1", "r2"}
MCAgnos == [r \in MCRelease |-> IF r = "r1" THEN "os1" ELSE "os2"]
=============================================================================
