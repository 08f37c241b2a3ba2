----------------------------- MODULE MCWatchdog -----------------------------
(* Watchdog with a server that has a port and one that has none.           *)
EXTENDS Watchdog
=============================================================================
