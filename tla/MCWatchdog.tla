----------------------------- MODULE MCWatchdog -----------------------------
(* Small instances of Watchdog. *)
EXTENDS Watchdog
=============================================================================
