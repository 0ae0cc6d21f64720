-------------------------- MODULE MCScheduledRotation --------------------------
(***************************************************************************)
(* ScheduledRotation for TLC; its configuration gives every constant.      *)
(***************************************************************************)
EXTENDS ScheduledRotation

=============================================================================
