--------------------------- MODULE EngagementLatch ---------------------------
(***************************************************************************)
(* What CONTEXT.md and the ADR of 2026-07-10 promise of an Engagement-     *)
(* Cycle Latch: "a setting captured when controls engage and held          *)
(* unchanged until disengagement"; writes are accepted at any time and are *)
(* pending until then.                                                     *)
(***************************************************************************)
CONSTANT Modes

VARIABLES enabled,    \* controls are engaged
          pending,    \* the setting as last read
          active      \* the captured setting

Init == enabled = FALSE /\ pending \in Modes /\ active = pending

\* The setting is read again, engaged or not.
Read == pending' \in Modes /\ UNCHANGED <<enabled, active>>

\* While disengaged, and in the step that disengages, the latch is open ...
Track == enabled' = FALSE /\ active' = pending /\ UNCHANGED pending

\* ... and in the step that engages it has closed on what it last tracked.
Hold == enabled' = TRUE /\ UNCHANGED <<pending, active>>

Next == Read \/ Track \/ Hold

Spec == Init /\ [][Next]_<<enabled, pending, active>>
=============================================================================
