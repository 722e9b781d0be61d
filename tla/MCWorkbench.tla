---------------------------- MODULE MCWorkbench ----------------------------
(* The screen of one session. *)
EXTENDS Workbench
=============================================================================
