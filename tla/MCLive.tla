------------------------------- MODULE MCLive -------------------------------
(* Small instances of LiveView for TLC. *)
EXTENDS LiveView, TLC

CONSTANTS c1, c2
=============================================================================
