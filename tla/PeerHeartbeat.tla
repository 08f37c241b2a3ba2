---------------------------- MODULE PeerHeartbeat ----------------------------
(***************************************************************************)
(* The watch over the peers of a distributed session (src/src/serve.rs,    *)
(* with its callers in src/src/daemon.rs): one shared PeerHeartbeat, whose *)
(* loop pings the peers, counts their misses in the shared status, and on  *)
(* the third in a row stops every local server. The HTTP handlers start    *)
(* and stop it on their way to load and stop servers.                      *)
(*                                                                         *)
(* Servers appear only as far as the watch is concerned; ServeManager has  *)
(* the rest. A handler serves one request at a time, so that the number of *)
(* handlers bounds the requests that overlap.                              *)
(***************************************************************************)
EXTENDS Naturals, Sequences

CONSTANTS
    Peer,       \* the other machines
    ServePort,  \* the ports with a ServeManager
    Share,      \* stands for the ShareManager
    Loop,       \* slots for heartbeat loops
    NoLoop,
    Handler,    \* slots for HTTP requests
    Hostfile,   \* the hostfiles a request may name: [format, hosts]
    Events      \* the events of the environment that a run includes

Server == ServePort \cup {Share}

ASSUME PeerHeartbeatAssumption ==
    /\ Share \notin ServePort
    /\ NoLoop \notin Loop
    /\ Hostfile \subseteq [format : {"array", "object"}, hosts : Seq(Peer)]
    /\ Events \subseteq {"loss", "recover", "hang", "share"}

VARIABLES
    alive,      \* which peers answer
    status,     \* PeerHeartbeatStatus: active, and the misses of each peer
    handle,     \* the loop whose JoinHandle is in HeartbeatState
    loop,       \* the spawned loops
    call,       \* the requests being handled
    srv         \* the servers

watch == <<alive, status, handle, loop, call, srv>>

(* HEARTBEAT_MISS_THRESHOLD, and the bound on a counter that goes beyond.  *)
Threshold == 3
MissCap   == 4

LoopPcs == {"none", "sleeping", "pinged", "killing", "blocked", "closing"}

(* strikes is not in the code: the pings in a row that this loop has seen  *)
(* fail, for each of its peers.                                            *)
Loops == [pc : LoopPcs, peers : Seq(Peer), results : Seq(BOOLEAN),
          strikes : Seq(0..MissCap), todo : SUBSET Server, at : Server]

CallPcs == {"idle", "stopping", "starting", "registering", "serving"}
Calls   == [pc : CallPcs, server : Server, peers : Seq(Peer), goal : {"boot", "fail", "none"},
            dist : BOOLEAN, loop : Loop \cup {NoLoop}]

(* spared: booting when an emergency stop came by. dist: launched to work  *)
(* together with the peers.                                                *)
Servers == [state : {"off", "booting", "spared", "running", "hung"}, dist : BOOLEAN]

HeartbeatTypeOK ==
    /\ alive \in [Peer -> BOOLEAN]
    /\ status \in [active : BOOLEAN, peers : Seq(Peer), misses : Seq(0..MissCap)]
    /\ Len(status.misses) = Len(status.peers)
    /\ handle \in Loop \cup {NoLoop}
    /\ loop \in [Loop -> Loops]
    /\ call \in [Handler -> Calls]
    /\ srv \in [Server -> Servers]

NotSpawned == [pc |-> "none", peers |-> <<>>, results |-> <<>>, strikes |-> <<>>,
               todo |-> {}, at |-> Share]
NoCall == [pc |-> "idle", server |-> Share, peers |-> <<>>, goal |-> "none",
           dist |-> FALSE, loop |-> NoLoop]

HeartbeatInit ==
    /\ alive = [p \in Peer |-> TRUE]
    /\ status = [active |-> FALSE, peers |-> <<>>, misses |-> <<>>]
    /\ handle = NoLoop
    /\ loop = [l \in Loop |-> NotSpawned]
    /\ call = [c \in Handler |-> NoCall]
    /\ srv = [q \in Server |-> [state |-> "off", dist |-> FALSE]]

Zeros(list) == [i \in DOMAIN list |-> 0]
Spawned(peers) == [pc |-> "sleeping", peers |-> peers, results |-> <<>>,
                   strikes |-> Zeros(peers), todo |-> {}, at |-> Share]
Bump(n)     == IF n < MissCap THEN n + 1 ELSE n

-----------------------------------------------------------------------------
(* Requests. "jaccl" makes a load distributed whenever there is a hostfile,*)
(* "auto" if its hosts answer too, so that any load may turn out either way*)
(* (resolve_backend_validated). parse_hostfile_peers reads arrays only.    *)
Peers(f) == IF f.format = "array" THEN f.hosts ELSE <<>>

Asks(c, pc, q, peers, goal, dist) ==
    call' = [call EXCEPT ![c] = [pc |-> pc, server |-> q, peers |-> peers,
                                 goal |-> goal, dist |-> dist, loop |-> NoLoop]]

(* POST /serve/load for a server of its own: no watch is needed, by it.    *)
ServeLoad(c, q) ==
    /\ call[c].pc = "idle" /\ q \in ServePort
    /\ Asks(c, "stopping", q, <<>>, "boot", FALSE)
    /\ UNCHANGED <<alive, status, handle, loop, srv>>

(* For one that spans the machines of a hostfile.                          *)
ServeLoadDistributed(c, q, f) ==
    /\ call[c].pc = "idle" /\ q \in ServePort
    /\ Asks(c, IF Peers(f) = <<>> THEN "serving" ELSE "stopping", q, Peers(f), "boot", TRUE)
    /\ UNCHANGED <<alive, status, handle, loop, srv>>

(* POST /serve/share, likewise; without a hostfile the watch is left alone.*)
(* The launch itself, do_jaccl_orchestrate, wants the hosts in an object.  *)
ShareLoad(c) ==
    /\ "share" \in Events
    /\ call[c].pc = "idle"
    /\ Asks(c, "serving", Share, <<>>, "boot", FALSE)
    /\ UNCHANGED <<alive, status, handle, loop, srv>>

ShareLoadDistributed(c, f) ==
    /\ "share" \in Events
    /\ call[c].pc = "idle"
    /\ Asks(c, IF Peers(f) = <<>> THEN "serving" ELSE "stopping", Share, Peers(f),
            IF f.format = "object" THEN "boot" ELSE "fail", TRUE)
    /\ UNCHANGED <<alive, status, handle, loop, srv>>

(* A server's write lock is held for ever by a loop that waits in vain for *)
(* the exit of its child.                                                  *)
LockedUp(q) == \E l \in Loop : loop[l].pc = "blocked" /\ loop[l].at = q

(* POST /serve/stop, /serve/share/stop: the server first, then the watch.  *)
ServeStop(c, q) ==
    /\ call[c].pc = "idle"
    /\ q = Share => "share" \in Events
    /\ ~LockedUp(q)
    /\ srv' = [srv EXCEPT ![q] = [state |-> IF srv[q].state \in {"booting", "spared"}
                                            THEN srv[q].state ELSE "off",
                                  dist |-> srv[q].dist]]
    /\ Asks(c, "stopping", q, <<>>, "none", FALSE)
    /\ UNCHANGED <<alive, status, handle, loop>>

(* Variant for StatusIsTrue: stop leaves the status as it is.              *)
HeartbeatStopsQuietly(c) ==
    /\ call[c].pc = "stopping"
    /\ loop' = IF handle = NoLoop THEN loop ELSE [loop EXCEPT ![handle] = NotSpawned]
    /\ handle' = NoLoop
    /\ call' = [call EXCEPT ![c].pc = IF call[c].peers # <<>> THEN "starting" ELSE "serving"]
    /\ UNCHANGED <<alive, status, srv>>

(* Variant for LoopIsStoppable: the handle is taken and not aborted.       *)
HeartbeatStopsNothing(c) ==
    /\ call[c].pc = "stopping"
    /\ handle' = NoLoop
    /\ status' = [status EXCEPT !.active = FALSE]
    /\ call' = [call EXCEPT ![c].pc = IF call[c].peers # <<>> THEN "starting" ELSE "serving"]
    /\ UNCHANGED <<alive, loop, srv>>

(* stop(): the loop is aborted wherever it waits. start() does it first.   *)
HeartbeatStops(c) ==
    /\ call[c].pc = "stopping"
    /\ loop' = IF handle = NoLoop THEN loop ELSE [loop EXCEPT ![handle] = NotSpawned]
    /\ handle' = NoLoop
    /\ status' = [status EXCEPT !.active = FALSE]
    /\ call' = [call EXCEPT ![c].pc = IF call[c].peers # <<>> THEN "starting" ELSE "serving"]
    /\ UNCHANGED <<alive, srv>>

(* Variant for ThreeStrikes: the misses of the last session are kept.      *)
HeartbeatStartsStale(c) ==
    /\ call[c].pc = "starting"
    /\ status' = [active |-> TRUE, peers |-> call[c].peers,
                  misses |-> [i \in DOMAIN call[c].peers |->
                     IF i \in DOMAIN status.misses THEN status.misses[i] ELSE 0]]
    /\ \E l \in Loop :
          /\ loop[l].pc = "none"
          /\ loop' = [loop EXCEPT ![l] = Spawned(call[c].peers)]
          /\ call' = [call EXCEPT ![c].pc = "registering", ![c].loop = l]
    /\ UNCHANGED <<alive, handle, srv>>

(* start(), after the stop: a fresh status and a new loop ...              *)
HeartbeatStarts(c) ==
    /\ call[c].pc = "starting"
    /\ status' = [active |-> TRUE, peers |-> call[c].peers, misses |-> Zeros(call[c].peers)]
    /\ \E l \in Loop :
          /\ loop[l].pc = "none"
          /\ loop' = [loop EXCEPT ![l] = Spawned(call[c].peers)]
          /\ call' = [call EXCEPT ![c].pc = "registering", ![c].loop = l]
    /\ UNCHANGED <<alive, handle, srv>>

(* ... whose handle is stored once the mutex is free. What was there is    *)
(* dropped, which detaches the loop.                                       *)
HeartbeatRegisters(c) ==
    /\ call[c].pc = "registering"
    /\ handle' = call[c].loop
    /\ call' = [call EXCEPT ![c].pc = "serving", ![c].loop = NoLoop]
    /\ UNCHANGED <<alive, status, loop, srv>>

(* What is left of the request: the load, whose launch may yet fail.       *)
Serves(c) ==
    /\ call[c].pc = "serving"
    /\ call' = [call EXCEPT ![c] = NoCall]
    /\ IF call[c].goal = "none" THEN UNCHANGED srv
       ELSE /\ ~LockedUp(call[c].server)
            /\ srv' = [srv EXCEPT ![call[c].server] =
                          [state |-> IF call[c].goal = "boot" THEN "booting" ELSE "off",
                           dist |-> call[c].dist]]
    /\ UNCHANGED <<alive, status, handle, loop>>

CallStep(c) == HeartbeatStops(c) \/ HeartbeatStarts(c) \/ HeartbeatRegisters(c) \/ Serves(c)

-----------------------------------------------------------------------------
(* The loop.                                                               *)

(* Every second the peers are pinged, all of them at once.                 *)
Pings(l) ==
    /\ loop[l].pc = "sleeping"
    /\ \E results \in [DOMAIN loop[l].peers -> BOOLEAN] :
          /\ \A i \in DOMAIN results :
                IF "loss" \in Events THEN results[i] => alive[loop[l].peers[i]]
                                     ELSE results[i] = alive[loop[l].peers[i]]
          /\ loop' = [loop EXCEPT ![l].pc = "pinged", ![l].results = results]
    /\ UNCHANGED <<alive, status, handle, call, srv>>

(* A loop finds its peers in the shared status by their index alone.       *)
Mine(l) == DOMAIN loop[l].results \cap DOMAIN status.misses

Counted(l) ==
    [i \in DOMAIN status.misses |->
        IF i \notin Mine(l) THEN status.misses[i]
        ELSE IF loop[l].results[i] THEN 0 ELSE Bump(status.misses[i])]

Struck(l) ==
    [i \in DOMAIN loop[l].peers |->
        IF loop[l].results[i] THEN 0 ELSE Bump(loop[l].strikes[i])]

(* Variant for DeadPeerStopsServers: the threshold itself is not enough.   *)
AnyDeadTooLate(l) == \E i \in Mine(l) : ~loop[l].results[i] /\ Counted(l)[i] > MissCap

AnyDead(l) == \E i \in Mine(l) : ~loop[l].results[i] /\ Counted(l)[i] >= Threshold

(* The share manager comes last, the others in the order of a HashMap.     *)
Counts(l) ==
    /\ loop[l].pc = "pinged"
    /\ status' = [status EXCEPT !.misses = Counted(l)]
    /\ loop' = [loop EXCEPT ![l].pc = IF AnyDead(l) THEN "killing" ELSE "sleeping",
                            ![l].todo = IF AnyDead(l) THEN Server ELSE {},
                            ![l].results = <<>>,
                            ![l].strikes = Struck(l)]
    /\ UNCHANGED <<alive, handle, call, srv>>

(* emergency_stop of one manager: its child is killed, what a load is      *)
(* still booting is not its child yet. One that cannot die is waited for.  *)
EmergencyStops(l, q) ==
    /\ loop[l].pc = "killing"
    /\ q \in loop[l].todo /\ (q = Share => loop[l].todo = {Share})
    /\ ~LockedUp(q)
    /\ IF srv[q].state = "hung"
       THEN /\ loop' = [loop EXCEPT ![l].pc = "blocked", ![l].at = q]
            /\ UNCHANGED srv
       ELSE /\ srv' = [srv EXCEPT ![q].state = CASE @ = "running" -> "off"
                                                 [] @ = "booting" -> "spared"
                                                 [] OTHER -> @]
            /\ loop' = [loop EXCEPT ![l].todo = @ \ {q},
                                    ![l].pc = IF q = Share THEN "closing" ELSE "killing"]
    /\ UNCHANGED <<alive, status, handle, call>>

Closes(l) ==
    /\ loop[l].pc = "closing"
    /\ status' = [status EXCEPT !.active = FALSE]
    /\ loop' = [loop EXCEPT ![l] = NotSpawned]
    /\ UNCHANGED <<alive, handle, call, srv>>

LoopStep(l) ==
    Pings(l) \/ Counts(l) \/ Closes(l) \/ \E q \in Server : EmergencyStops(l, q)

-----------------------------------------------------------------------------
(* Peers and servers.                                                      *)

Dies(p) ==
    /\ alive[p] /\ alive' = [alive EXCEPT ![p] = FALSE]
    /\ UNCHANGED <<status, handle, loop, call, srv>>

Returns(p) ==
    /\ "recover" \in Events
    /\ ~alive[p] /\ alive' = [alive EXCEPT ![p] = TRUE]
    /\ UNCHANGED <<status, handle, loop, call, srv>>

(* A load ends: the server is ready, or it is not going to be.             *)
Settles(q) ==
    /\ srv[q].state \in {"booting", "spared"}
    /\ \E s \in {"running", "off"} : srv' = [srv EXCEPT ![q].state = s]
    /\ UNCHANGED <<alive, status, handle, loop, call>>

Hangs(q) ==
    /\ "hang" \in Events
    /\ srv[q].state = "running" /\ srv' = [srv EXCEPT ![q].state = "hung"]
    /\ UNCHANGED <<alive, status, handle, loop, call>>

-----------------------------------------------------------------------------
HeartbeatNext ==
    \/ \E c \in Handler :
          \/ \E q \in ServePort : ServeLoad(c, q) \/ \E f \in Hostfile : ServeLoadDistributed(c, q, f)
          \/ ShareLoad(c) \/ \E f \in Hostfile : ShareLoadDistributed(c, f)
          \/ \E q \in Server : ServeStop(c, q)
          \/ CallStep(c)
    \/ \E l \in Loop : LoopStep(l)
    \/ \E p \in Peer : Dies(p) \/ Returns(p)
    \/ \E q \in Server : Settles(q) \/ Hangs(q)

HeartbeatSpec == HeartbeatInit /\ [][HeartbeatNext]_watch

(* Tokio runs the loops and the handlers.                                  *)
FairHeartbeatSpec ==
    /\ HeartbeatSpec
    /\ \A l \in Loop : WF_watch(LoopStep(l))
    /\ \A c \in Handler : WF_watch(CallStep(c))

-----------------------------------------------------------------------------
(* Properties.                                                             *)

Running(l) == loop[l].pc # "none"

(* No emergency without cause: a loop that stops the servers has itself    *)
(* seen one of its peers miss three pings in a row, in this session.       *)
ThreeStrikes ==
    \A l \in Loop : loop[l].pc = "killing" =>
        \E i \in DOMAIN loop[l].strikes : loop[l].strikes[i] >= Threshold

(* The status the watchdog and /watchdog/peers report is that of a loop    *)
(* which runs, with the peers that this loop pings.                        *)
StatusIsTrue ==
    /\ status.active <=> \E l \in Loop : Running(l)
    /\ \A l \in Loop : Running(l) => status.peers = loop[l].peers

(* start(): "Stop any existing heartbeat first". A loop that runs is one   *)
(* that the next stop or start will abort, so there are never two of them. *)
LoopIsStoppable ==
    \A l \in Loop : Running(l) =>
        handle = l \/ \E c \in Handler : call[c].pc = "registering" /\ call[c].loop = l

Watched(p) ==
    \E l \in Loop : loop[l].pc \in {"sleeping", "pinged"}
                    /\ \E i \in DOMAIN loop[l].peers : loop[l].peers[i] = p

Calm == \A c \in Handler : call[c].pc = "idle"

NoneHangs == \A q \in Server : srv[q].state # "hung"

(* A server that runs while a watched peer is gone for good is stopped,    *)
(* unless a request comes between, or a server that cannot be stopped.     *)
DeadPeerStopsServers ==
    \A p \in Peer, q \in Server :
        []((Watched(p) /\ srv[q].state = "running" /\ [](~alive[p] /\ Calm /\ NoneHangs))
              => <>(srv[q].state # "running"))
=============================================================================
