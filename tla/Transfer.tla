------------------------------- MODULE Transfer -------------------------------
(***************************************************************************)
(* The transfer of a model directory from one node to another over RDMA    *)
(* (src/src/transfer.rs). The node that is asked runs a pipeline, rank 0;  *)
(* it posts /transfer/accept to the other, which runs an accept task,      *)
(* rank 1. Each node has one worker thread, which owns the JACCL groups and*)
(* does one command after the other for all the tasks of the node.         *)
(*                                                                         *)
(* A group is one handshake, and has the name of the transfer whose port it*)
(* was made on. A worker keeps its end of it under a key, and uses it again*)
(* for the next transfer with that key if a probe says that it is alive.   *)
(* The groups are those of the shim in vendor/jaccl: an operation that times*)
(* out goes on in a detached thread, which takes what comes in later.      *)
(*                                                                         *)
(* The files of a model have a version; a directory may come to hold those *)
(* of another model, too. A length and what it announces are one message,  *)
(* the size and the chunks of all the files another.                       *)
(***************************************************************************)
EXTENDS Naturals, Sequences, FiniteSets

CONSTANTS
    Node, Model,
    Transfers,   \* bound on the transfers that are asked for
    MaxVersion,  \* bound on the versions of a directory
    None,        \* no group, no request
    Stored,      \* the directories that are there from the start
    Asks,        \* the requests a run includes: [from, to, model, direction]
    Events       \* the faults a run includes

Request == [from : Node, to : Node, model : Model, direction : {"send", "recv"}]

Transfer == 1..Transfers

ASSUME TransferAssumption ==
    /\ Transfers \in Nat /\ MaxVersion \in Nat \ {0} /\ None \notin Transfer /\ None \notin Request
    /\ Stored \subseteq Node \X Model
    /\ Asks \subseteq {q \in Request : q.from # q.to}
    /\ Events \subseteq {"refuse", "loss", "edit", "disk"}
    /\ Node \cap ({"accept"} \X Model) = {}    \* no host is called "accept:<model>"

Rank == {0, 1}
End  == Transfer \X Rank                \* one side of a transfer, or of a group
Key  == Node \cup ({"accept"} \X Model)

VARIABLES
    req,     \* what each transfer was asked for
    at,      \* of each side: the stage it is in
    queue,   \* of each node: the commands for its worker
    work,    \* of each node: the command its worker is busy with, and how far
    groups,  \* of each node: the groups its worker keeps
    wire,    \* of each end of a group: the messages under way to it
    ghosts,  \* of each end: how many detached receives wait there
    lingers, \* ends whose handshake was given up, and goes on by itself
    disk,    \* of each node and model: what its directory holds
    mem,     \* of each side: the manifest it goes by, then its checksums
    hashed   \* the directories that receivers have taken checksums of

vars == <<req, at, queue, work, groups, wire, ghosts, lingers, disk, mem, hashed>>

(* Of the files of each model: absent, whole, or cut off.                  *)
Broken    == MaxVersion + 1
Directory == [Model -> 0..Broken]
Empty     == [m \in Model |-> 0]
Files(d)  == {m \in Model : d[m] # 0}

(* A pipeline in "init" waits for the answer of its peer and for its worker,*)
(* in "told" for the worker, and in "opened" or "failed" for the peer.     *)
Stages   == {"off", "init", "told", "opened", "failed", "manifest", "files", "verify",
             "done", "error", "dead"}
Commands == {"init", "manifest", "files", "verify"}
Message  == [kind : Commands \cup {"probe"}, dir : Directory]
Idle     == [cmd |-> None, step |-> "idle"]

(* Every variable holds what the code can store in it; a wait that is over *)
(* is not counted any more.                                                *)
TypeOK ==
    /\ req \in [Transfer -> Request \cup {None}]
    /\ at \in [End -> Stages]
    /\ queue \in [Node -> Seq(End \X Commands)]
    /\ \A n \in Node : \/ work[n] = Idle
                       \/ /\ work[n].cmd \in End \X Commands
                          /\ work[n].step \in {"probe", "handshake", "operation"}
    /\ groups \in [Node -> [Key -> Transfer \cup {None}]]
    /\ wire \in [End -> Seq(Message)]
    /\ ghosts \in [End -> Nat]
    /\ lingers \subseteq End
    /\ disk \in [Node -> [Model -> Directory]]
    /\ mem \in [End -> Directory] /\ hashed \subseteq Node \X Model \X Directory

-----------------------------------------------------------------------------
NodeOf(e) == IF e[2] = 0 THEN req[e[1]].from ELSE req[e[1]].to
KeyOf(e)  == IF e[2] = 0 THEN req[e[1]].to ELSE <<"accept", req[e[1]].model>>
Dir(e)    == disk[NodeOf(e)][req[e[1]].model]
Other(e)  == <<e[1], 1 - e[2]>>

(* Rank 1 always receives. A pipeline that is asked to receive does so, too:*)
(* from rank 0, which is itself, so that nothing ever comes.               *)
IsSender(e) == e[2] = 0 /\ req[e[1]].direction = "send"

(* The directory after files have been written into it.                    *)
Writes(e, files) ==
    [disk EXCEPT ![NodeOf(e)][req[e[1]].model] =
        [m \in Model |-> IF files[m] # 0 THEN files[m] ELSE @[m]]]

(* The end of the group that a worker holds for this side.                 *)
Held(e) == <<groups[NodeOf(e)][KeyOf(e)], e[2]>>

Init ==
    /\ req = [t \in Transfer |-> None]
    /\ at = [e \in End |-> "off"]
    /\ queue = [n \in Node |-> <<>>] /\ work = [n \in Node |-> Idle]
    /\ groups = [n \in Node |-> [k \in Key |-> None]]
    /\ wire = [e \in End |-> <<>>] /\ ghosts = [e \in End |-> 0] /\ lingers = {}
    /\ disk = [n \in Node |-> [m \in Model |->
                  IF <<n, m>> \in Stored THEN [Empty EXCEPT ![m] = 1] ELSE Empty]]
    /\ mem = [e \in End |-> Empty] /\ hashed = {}

Sends(e, cmd)  == queue' = [queue EXCEPT ![NodeOf(e)] = Append(@, <<e, cmd>>)]
Moves(e, s)    == at' = [at EXCEPT ![e] = s]
Leaves(n)      == work' = [work EXCEPT ![n] = Idle]
Steps(n, s)    == work' = [work EXCEPT ![n].step = s]
Puts(e, kind, d) == wire' = [wire EXCEPT ![e] = Append(@, [kind |-> kind, dir |-> d])]
Takes(e)       == wire' = [wire EXCEPT ![e] = Tail(@)]
Heard(e)       == IF wire[e] # <<>> THEN Head(wire[e]).kind ELSE "nothing"

-----------------------------------------------------------------------------
(* POST /transfer. The preflight and the look for the directory may end the*)
(* pipeline at once; else its worker is told to open the group first.      *)
Starts(t, q) ==
    /\ req[t] = None /\ (\A s \in 1..(t - 1) : req[s] # None) /\ q \in Asks
    /\ req' = [req EXCEPT ![t] = q]
    /\ \/ /\ "refuse" \in Events \/ (q.direction = "send" /\ Files(disk[q.from][q.model]) = {})
          /\ Moves(<<t, 0>>, "error")
          /\ UNCHANGED queue
       \/ /\ q.direction = "send" => Files(disk[q.from][q.model]) # {}
          /\ Moves(<<t, 0>>, "init")
          /\ queue' = [queue EXCEPT ![q.from] = Append(@, <<<<t, 0>>, "init">>)]
    /\ UNCHANGED <<work, groups, wire, ghosts, lingers, disk, mem, hashed>>

(* Five seconds later the peer is told; a probe is over by then, if it has *)
(* begun.                                                                  *)
Notifies(t) ==
    /\ at[<<t, 0>>] \in {"init", "opened", "failed"} /\ at[<<t, 1>>] = "off"
    /\ work[req[t].from] # [cmd |-> <<<<t, 0>>, "init">>, step |-> "probe"]
    /\ Moves(<<t, 1>>, "init") /\ Sends(<<t, 1>>, "init")
    /\ UNCHANGED <<req, work, groups, wire, ghosts, lingers, disk, mem, hashed>>

(* The peer answers; the answer may be an error, or be lost.               *)
IsTold(t) ==
    LET e == <<t, 0>>
    IN  /\ at[e] \in {"init", "opened", "failed"}
        /\ \/ /\ at[<<t, 1>>] # "off" /\ at[e] = "opened"
              /\ Moves(e, "manifest") /\ Sends(e, "manifest")
           \/ /\ at[<<t, 1>>] # "off" /\ at[e] # "opened"
              /\ Moves(e, IF at[e] = "init" THEN "told" ELSE "error")
              /\ UNCHANGED queue
           \/ "refuse" \in Events /\ Moves(e, "error") /\ UNCHANGED queue
    /\ UNCHANGED <<req, work, groups, wire, ghosts, lingers, disk, mem, hashed>>

-----------------------------------------------------------------------------
(* The worker thread takes a command. Who asks for a group probes the one  *)
(* that is there: rank 0 sends first. Who receives files truncates first.  *)
Begins(n) ==
    /\ work[n] = Idle /\ queue[n] # <<>>
    /\ LET cmd == Head(queue[n])
           e   == cmd[1]
           old == groups[n][KeyOf(e)]
       IN  /\ queue' = [queue EXCEPT ![n] = Tail(@)]
           /\ work' = [work EXCEPT ![n] = [cmd |-> cmd, step |->
                          IF cmd[2] # "init" THEN "operation"
                          ELSE IF old # None THEN "probe" ELSE "handshake"]]
           /\ IF cmd[2] = "init" /\ old # None /\ e[2] = 0
              THEN Puts(<<old, 1>>, "probe", Empty) ELSE UNCHANGED wire
           /\ disk' = IF cmd[2] = "files" /\ ~IsSender(e)
                      THEN Writes(e, [m \in Model |-> IF mem[e][m] # 0 THEN Broken ELSE 0])
                      ELSE disk
    /\ UNCHANGED <<req, at, groups, ghosts, lingers, mem, hashed>>

Busy(n, e, cmd, step) == work[n] = [cmd |-> <<e, cmd>>, step |-> step]

(* Where a side goes when its worker answers; nobody may be waiting.       *)
Opened(e, ok) ==
    CASE at[e] = "init" /\ e[2] = 0             -> IF ok THEN "opened" ELSE "failed"
      [] at[e] = "told" \/ (at[e] = "init" /\ e[2] = 1) -> IF ok THEN "manifest" ELSE "error"
      [] OTHER -> at[e]

Replies(n, e, ok) ==
    /\ Leaves(n) /\ Moves(e, Opened(e, ok))
    /\ queue' = IF Opened(e, ok) = "manifest" /\ at[e] # "manifest"
                THEN [queue EXCEPT ![n] = Append(@, <<e, "manifest">>)] ELSE queue

(* Rank 1 answers what it hears, and is done.                              *)
ProbeSucceeds(n, e) ==
    /\ Busy(n, e, "init", "probe") /\ ghosts[Held(e)] = 0 /\ Heard(Held(e)) = "probe"
    /\ wire' = LET w == [wire EXCEPT ![Held(e)] = Tail(@)]
               IN  IF e[2] = 0 THEN w
                   ELSE [w EXCEPT ![<<Held(e)[1], 0>>] = Append(@, [kind |-> "probe", dir |-> Empty])]
    /\ Replies(n, e, TRUE)
    /\ UNCHANGED <<req, groups, ghosts, lingers, disk, mem, hashed>>

(* In two seconds no answer, or a message of another length: the group is  *)
(* poisoned and dropped; its receive goes on in the detached thread.       *)
ProbeFails(n, e) ==
    /\ Busy(n, e, "init", "probe")
    /\ Heard(Held(e)) # "probe" \/ ghosts[Held(e)] > 0
    /\ ghosts' = [ghosts EXCEPT ![Held(e)] = @ + 1]
    /\ groups' = [groups EXCEPT ![n][KeyOf(e)] = None]
    /\ Steps(n, "handshake")
    /\ UNCHANGED <<req, at, queue, wire, lingers, disk, mem, hashed>>

(* The two workers meet in the handshake of one transfer.                  *)
Meets(t) ==
    LET a == <<t, 0>>
        b == <<t, 1>>
        m == NodeOf(a)
        n == NodeOf(b)
        Goes(e) == Opened(e, TRUE) = "manifest"
    IN  /\ req[t] # None /\ Busy(m, a, "init", "handshake") /\ Busy(n, b, "init", "handshake")
        /\ groups' = [groups EXCEPT ![m][KeyOf(a)] = t, ![n][KeyOf(b)] = t]
        /\ work' = [work EXCEPT ![m] = Idle, ![n] = Idle]
        /\ at' = [at EXCEPT ![a] = Opened(a, TRUE), ![b] = Opened(b, TRUE)]
        /\ queue' = [x \in Node |->
                        IF x = m /\ Goes(a) THEN Append(queue[x], <<a, "manifest">>)
                        ELSE IF x = n /\ Goes(b) THEN Append(queue[x], <<b, "manifest">>)
                        ELSE queue[x]]
        /\ UNCHANGED <<req, wire, ghosts, lingers, disk, mem, hashed>>

(* A handshake that the other side has given up still completes with the   *)
(* thread that side has left behind, and there is nobody behind it.        *)
MeetsNobody(n, e) ==
    /\ Busy(n, e, "init", "handshake") /\ Other(e) \in lingers
    /\ lingers' = lingers \ {Other(e)}
    /\ groups' = [groups EXCEPT ![n][KeyOf(e)] = e[1]]
    /\ Replies(n, e, TRUE)
    /\ UNCHANGED <<req, wire, ghosts, disk, mem, hashed>>

HandshakeFails(n, e) ==
    /\ Busy(n, e, "init", "handshake")
    /\ lingers' = lingers \cup {e}
    /\ Replies(n, e, FALSE)
    /\ UNCHANGED <<req, groups, wire, ghosts, disk, mem, hashed>>

-----------------------------------------------------------------------------
(* The stages of a transfer are messages of one side, taken by the other:  *)
(* the manifest, the files, and back the checksums of what was received.   *)
Speaks(e, cmd) == IsSender(e) = (cmd # "verify")
After(cmd)     == CASE cmd = "manifest" -> "files" [] cmd = "files" -> "verify" [] OTHER -> "done"

GoesOn(n, e, cmd) ==
    /\ Leaves(n) /\ Moves(e, After(cmd))
    /\ queue' = IF After(cmd) = "done" THEN queue
                ELSE [queue EXCEPT ![n] = Append(@, <<e, After(cmd)>>)]

Ends(n, e, how) == Leaves(n) /\ Moves(e, how) /\ UNCHANGED queue
GivesUp(n, e)   == Ends(n, e, "error")
Remembers(e, d) == mem' = [mem EXCEPT ![e] = d]

(* Another transfer to this peer has dropped the group, and made no new one.*)
FindsNoGroup(n, e, cmd) ==
    /\ Busy(n, e, cmd, "operation") /\ Held(e)[1] = None
    /\ GivesUp(n, e)
    /\ UNCHANGED <<req, groups, wire, ghosts, lingers, disk, mem, hashed>>

(* What a side sends: the files that its directory has now, those that the *)
(* manifest named, its checksums. Files that have changed since have       *)
(* another size, or another content under the old size.                    *)
Contents(e, cmd) ==
    CASE cmd = "manifest" -> {Dir(e)}
      [] cmd = "files" -> {[m \in Model |-> IF Dir(e)[m] = mem[e][m] THEN mem[e][m] ELSE v] :
                               v \in {Broken} \cup {Dir(e)[m] : m \in Model}}
      [] cmd = "verify" -> {mem[e]}

(* Group::send, and bulk_send_file: the operation may fail although its    *)
(* detached thread gets the message through. A sender then takes checksums.*)
Speak(n, e, cmd) ==
    /\ Busy(n, e, cmd, "operation") /\ Speaks(e, cmd) /\ Held(e)[1] # None
    /\ \E d \in Contents(e, cmd) :
         \/ Puts(Other(Held(e)), cmd, d) /\ GoesOn(n, e, cmd)
         \/ "loss" \in Events /\ Puts(Other(Held(e)), cmd, d) /\ GivesUp(n, e)
         \/ "loss" \in Events /\ UNCHANGED wire /\ GivesUp(n, e)
    /\ IF cmd = "verify" THEN UNCHANGED mem ELSE Remembers(e, Dir(e))
    /\ UNCHANGED <<req, groups, ghosts, lingers, disk, hashed>>

Hears(n, e, cmd) ==
    /\ Busy(n, e, cmd, "operation") /\ ~Speaks(e, cmd) /\ Held(e)[1] # None
    /\ e[2] = 0 => IsSender(e)
    /\ ghosts[Held(e)] = 0 /\ wire[Held(e)] # <<>>
    /\ Takes(Held(e))
    /\ UNCHANGED <<req, groups, ghosts, lingers>>

HearsManifest(n, e) ==
    /\ Hears(n, e, "manifest") /\ Heard(Held(e)) = "manifest"
    /\ Remembers(e, Head(wire[Held(e)]).dir) /\ GoesOn(n, e, "manifest")
    /\ UNCHANGED <<disk, hashed>>

(* A receiver takes checksums of all that its directory holds then.        *)
HearsFiles(n, e) ==
    LET files == Head(wire[Held(e)]).dir
        m     == req[e[1]].model
    IN  /\ Hears(n, e, "files") /\ Heard(Held(e)) = "files"
        /\ \/ /\ Files(files) = Files(mem[e])
              /\ disk' = Writes(e, files)
              /\ Remembers(e, disk'[n][m]) /\ hashed' = hashed \cup {<<n, m, disk'[n][m]>>}
              /\ GoesOn(n, e, "files")
           \/ /\ "disk" \in Events \/ Files(files) # Files(mem[e])
              /\ GivesUp(n, e) /\ UNCHANGED <<disk, mem, hashed>>

(* The sender compares its files, and only its files, with the peer's.     *)
Matches(mine, theirs) == \A m \in Files(mine) : theirs[m] = mine[m] /\ mine[m] # Broken

(* Variant for DoneMeansArrived: the names are compared, not the hashes.   *)
HearsNames(n, e) ==
    /\ Hears(n, e, "verify") /\ Heard(Held(e)) = "verify"
    /\ IF Files(mem[e]) \subseteq Files(Head(wire[Held(e)]).dir)
       THEN GoesOn(n, e, "verify") ELSE GivesUp(n, e)
    /\ UNCHANGED <<disk, mem, hashed>>

HearsSums(n, e) ==
    /\ Hears(n, e, "verify") /\ Heard(Held(e)) = "verify"
    /\ IF Matches(mem[e], Head(wire[Held(e)]).dir) THEN GoesOn(n, e, "verify") ELSE GivesUp(n, e)
    /\ UNCHANGED <<disk, mem, hashed>>

(* A message that was not meant for this receive. A length that is none is *)
(* an error, or ends the task with a panic; data spoils the files.         *)
HearsGarbage(n, e, cmd) ==
    /\ Hears(n, e, cmd) /\ Heard(Held(e)) # cmd
    /\ \/ GivesUp(n, e) /\ UNCHANGED <<mem, hashed>>
       \/ cmd # "files" /\ Ends(n, e, "dead") /\ UNCHANGED <<mem, hashed>>
       \/ /\ cmd = "files" /\ GoesOn(n, e, cmd)
          /\ Remembers(e, Dir(e)) /\ hashed' = hashed \cup {<<n, req[e[1]].model, Dir(e)>>}
    /\ UNCHANGED disk

(* Variant for EveryPipelineEnds: hashing takes long, so that the receive  *)
(* of the checksums is given no timeout.                                   *)
WaitsForSums(n, e, cmd) ==
    /\ Busy(n, e, cmd, "operation") /\ ~Speaks(e, cmd) /\ Held(e)[1] # None
    /\ cmd # "verify"
    /\ ghosts' = [ghosts EXCEPT ![Held(e)] = @ + 1]
    /\ GivesUp(n, e)
    /\ UNCHANGED <<req, groups, wire, lingers, disk, mem, hashed>>

(* Ten seconds for a header, five minutes for a chunk.                     *)
TimesOut(n, e, cmd) ==
    /\ Busy(n, e, cmd, "operation") /\ ~Speaks(e, cmd) /\ Held(e)[1] # None
    /\ ghosts' = [ghosts EXCEPT ![Held(e)] = @ + 1]
    /\ GivesUp(n, e)
    /\ UNCHANGED <<req, groups, wire, lingers, disk, mem, hashed>>

(* A detached thread gets the message that its receive has waited for.     *)
GhostHears(e) ==
    /\ ghosts[e] > 0 /\ wire[e] # <<>>
    /\ Takes(e)
    /\ ghosts' = [ghosts EXCEPT ![e] = @ - 1]
    /\ UNCHANGED <<req, at, queue, work, groups, lingers, disk, mem, hashed>>

(* Somebody replaces the files of a model.                                 *)
Edits(n, m) ==
    /\ "edit" \in Events /\ <<n, m>> \in Stored /\ disk[n][m][m] < MaxVersion
    /\ disk' = [disk EXCEPT ![n][m][m] = @ + 1]
    /\ UNCHANGED <<req, at, queue, work, groups, wire, ghosts, lingers, mem, hashed>>

-----------------------------------------------------------------------------
(* What the worker of n may do with the command cmd of the side e.         *)
WorkerActs(n, e, cmd) ==
    \/ ProbeSucceeds(n, e) \/ ProbeFails(n, e) \/ MeetsNobody(n, e) \/ HandshakeFails(n, e)
    \/ HearsManifest(n, e) \/ HearsFiles(n, e) \/ HearsSums(n, e)
    \/ /\ cmd # "init"
       /\ \/ Speak(n, e, cmd) \/ HearsGarbage(n, e, cmd)
          \/ TimesOut(n, e, cmd) \/ FindsNoGroup(n, e, cmd)

WorkerRuns(n) ==
    \/ Begins(n)
    \/ /\ work[n] # Idle
       /\ WorkerActs(n, work[n].cmd[1], work[n].cmd[2])

Next ==
    \/ \E t \in Transfer : (\E q \in Asks : Starts(t, q)) \/ Notifies(t) \/ IsTold(t) \/ Meets(t)
    \/ \E n \in Node : WorkerRuns(n) \/ \E m \in Model : Edits(n, m)
    \/ \E e \in End : GhostHears(e)

Spec == Init /\ [][Next]_vars

(* Threads run and timeouts expire; nobody has to edit or to ask.          *)
Fairness == /\ \A n \in Node : WF_vars(WorkerRuns(n))
            /\ \A t \in Transfer : WF_vars(Notifies(t) \/ IsTold(t))
FairSpec == Spec /\ Fairness

-----------------------------------------------------------------------------
(* A transfer is reported as done only if its receiver has at some time had*)
(* all the files that the sender took checksums of, with their content, in *)
(* the directory of the model: whatever was edited, lost, delayed, left to *)
(* a detached thread or taken over with a group of an earlier transfer.    *)
(* (If one model is sent between two nodes at a time: the group of another *)
(* model's transfer may have the sums of that model under way.)            *)
DoneMeansArrived ==
    \A t \in Transfer : at[<<t, 0>>] = "done" =>
        \E h \in hashed : /\ h[1] = req[t].to /\ h[2] = req[t].model
                          /\ Matches(mem[<<t, 0>>], h[3])

(* A transfer that was asked for ends, and /transfer/status shows it: no    *)
(* loss of a message, refusal, dead group or busy worker keeps it going for*)
(* ever. A panic ends it as well, without a word in its status.            *)
EveryPipelineEnds == \A t \in Transfer : req[t] # None ~> at[<<t, 0>>] \in {"done", "error", "dead"}
=============================================================================
