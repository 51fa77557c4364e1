--------------------------- MODULE MCUploadQueue ---------------------------
(* Both handlers are after the same upload. *)
EXTENDS UploadQueue

MCId == {"a1"}
MCUrl == [x \in MCId |-> "a"]
=============================================================================
