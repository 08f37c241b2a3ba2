--------------------------- MODULE ServeLifecycle ---------------------------
(***************************************************************************)
(* What a client of /serve/load, /serve/stop and /serve/status may rely on *)
(* for one port: the phases of the server ("idle, loading, ready, error",  *)
(* with bare for a server without a model) and the loads under way. It     *)
(* says nothing of processes, locks, probes or files; ServeManager does.   *)
(***************************************************************************)
CONSTANT Task       \* identifies the loads under way

VARIABLES
    phase,          \* what /serve/status answers
    managed,        \* does it name a process?
    loads           \* the loads that have not ended

vars == <<phase, managed, loads>>

Phases == {"Idle", "Loading", "Bare", "Ready", "Error"}

TypeOK == phase \in Phases /\ managed \in BOOLEAN /\ loads \subseteq Task

Init == phase = "Idle" /\ ~managed /\ loads = {}

(* A load is accepted whatever the phase, and shows at once.               *)
Begin(t) ==
    /\ t \notin loads /\ loads' = loads \cup {t}
    /\ phase' = "Loading"
    /\ UNCHANGED managed

(* The first thing it does is to dispose of the server before it.          *)
Dispose == loads # {} /\ managed' = FALSE /\ UNCHANGED <<phase, loads>>

(* Every load says how it ended, even one that has been overtaken.         *)
End(t) ==
    /\ t \in loads /\ loads' = loads \ {t}
    /\ \/ phase' \in {"Bare", "Ready"} /\ managed' = TRUE
       \/ phase' = "Error" /\ UNCHANGED managed

(* A stop or an emergency stop overrides the phase; the loads go on.       *)
Halt == phase' \in {"Idle", "Error"} /\ managed' = FALSE /\ UNCHANGED loads

(* Found by the poll loop or the status handler: never during a load.      *)
Adopt ==
    /\ phase # "Loading" /\ phase' \in {"Bare", "Ready"}
    /\ managed' = TRUE
    /\ UNCHANGED loads

(* A conflict has gone away: only an error is cleared.                     *)
Recover == phase = "Error" /\ phase' = "Idle" /\ UNCHANGED <<managed, loads>>

(* The daemon dies; its successor starts over.                             *)
Forget == phase' = "Idle" /\ managed' = FALSE /\ loads' = {}

Next ==
    \/ \E t \in Task : Begin(t) \/ End(t)
    \/ Dispose \/ Halt \/ Adopt \/ Recover \/ Forget

Spec == Init /\ [][Next]_vars

(* Loading is never a dead end, and a server that is said to be there is   *)
(* named, or a load is about to put another one in its place.              *)
LoadingIsLoad  == phase = "Loading" => loads # {}
ReadyIsBacked  == phase \in {"Bare", "Ready"} => managed \/ loads # {}
=============================================================================
