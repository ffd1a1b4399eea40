------------------------------ MODULE Onebitd ------------------------------
(***************************************************************************)
(* The daemon onebitd (tools/onebitd.cpp): it spawns an inference backend  *)
(* as a child process on a local port, waits until its /health answers,    *)
(* proxies HTTP requests to it, and goes down with it or on a signal.      *)
(*                                                                         *)
(* The processes are the daemon's main thread, the thread that runs        *)
(* svr.listen() with its handlers, the child, the signal and the rest of   *)
(* the machine, which may take a port that is free and a process id that   *)
(* was given back.  The main thread steps at its system calls.             *)
(***************************************************************************)
EXTENDS Naturals

CONSTANTS
    Requests,
    HealthTimeout,   \* kHealthTimeoutSecs: probes of a starting backend
    Polls            \* polls of a child that was sent SIGTERM

ASSUME DaemonAssumption == HealthTimeout \in Nat \ {0} /\ Polls \in Nat

VARIABLES
    d,         \* where the main thread is
    pid,       \* g_child_pid names the child
    shutdown,  \* g_shutdown
    n,         \* the counter of the loop the main thread is in
    child,     \* the child process
    port,      \* who listens on the backend port
    listener,  \* the thread of svr.listen()
    reqs,      \* the requests and who answered them
    stolen,    \* history: someone else took the backend port
    missed,    \* history: svr.stop() came before svr.listen()
    stray      \* history: a signal went to a pid that was given back

vars == <<d, pid, shutdown, n, child, port, listener, reqs, stolen, missed, stray>>

Alive == {"loading", "up"}

TypeOK ==
    /\ d \in {"spawn", "wait", "probe", "serve", "loop", "stop", "join",
              "term", "poll", "kill", "reap", "exited"}
    /\ pid \in BOOLEAN /\ shutdown \in BOOLEAN
    /\ n \in 0 .. HealthTimeout \/ n \in 0 .. Polls
    /\ child \in {"none", "loading", "up", "zombie", "gone"}
    /\ port \in {"free", "child", "other"}
    /\ listener \in {"off", "starting", "listening", "draining", "ended"}
    /\ reqs \in [Requests -> {"none", "open", "child", "other", "502"}]
    /\ stolen \in BOOLEAN /\ missed \in BOOLEAN /\ stray \in BOOLEAN

Init ==
    /\ d = "spawn" /\ pid = FALSE /\ shutdown = FALSE /\ n = 0
    /\ child = "none" /\ port = "free" /\ listener = "off"
    /\ reqs = [r \in Requests |-> "none"]
    /\ stolen = FALSE /\ missed = FALSE /\ stray = FALSE

service == <<listener, reqs>>
history == <<stolen, missed, stray>>

-----------------------------------------------------------------------------
(* The child and the rest of the machine.                                  *)

Dies == child' = "zombie" /\ port' = (IF port = "child" THEN "free" ELSE port)

(* The backend has loaded its model and listens, or finds its port taken.  *)
ChildListens ==
    /\ child = "loading"
    /\ \/ port = "free" /\ child' = "up" /\ port' = "child"
       \/ port = "other" /\ Dies
    /\ UNCHANGED <<d, pid, shutdown, n, service, history>>

(* The backend ends: a failed exec, a crash, SIGTERM.                      *)
ChildExits ==
    /\ child \in Alive /\ Dies
    /\ UNCHANGED <<d, pid, shutdown, n, service, history>>

(* find_free_port() gave the port back; another process takes it.          *)
PortTaken ==
    /\ port = "free" /\ port' = "other" /\ stolen' = TRUE
    /\ UNCHANGED <<d, pid, shutdown, n, child, service, missed, stray>>

(* signal_handler()                                                        *)
Signal ==
    /\ ~shutdown /\ d # "exited" /\ shutdown' = TRUE
    /\ UNCHANGED <<d, pid, n, child, port, service, history>>

-----------------------------------------------------------------------------
(* find_free_port() and spawn_backend(): a port and a child, or return 1.  *)
Spawn ==
    /\ d = "spawn"
    /\ \/ d' = "wait" /\ pid' = TRUE /\ child' = "loading"
       \/ d' = "exited" /\ UNCHANGED <<pid, child>>
    /\ UNCHANGED <<shutdown, n, port, service, history>>

(* Where a failed wait leads: to kill_child() and return 1.                *)
GiveUp == d' = "term" /\ n' = 0

(* Mutant: the daemon serves without a probe.                              *)
MutWaitRound ==
    /\ d = "wait"
    /\ \/ (shutdown \/ n = HealthTimeout) /\ GiveUp
       \/ ~shutdown /\ n < HealthTimeout /\ d' = "serve" /\ n' = 0
    /\ UNCHANGED <<pid, child, shutdown, port, service, history>>

(* wait_for_backend(), one round: the signal, the child that exited early, *)
(* which is reaped and forgotten, and then the probe.                      *)
WaitRound ==
    /\ d = "wait"
    /\ \/ (shutdown \/ n = HealthTimeout) /\ GiveUp /\ UNCHANGED <<pid, child>>
       \/ /\ ~shutdown /\ n < HealthTimeout
          /\ IF child = "zombie"
             THEN GiveUp /\ pid' = FALSE /\ child' = "gone"
             ELSE d' = "probe" /\ UNCHANGED <<n, pid, child>>
    /\ UNCHANGED <<shutdown, port, service, history>>

(* GET /health: whoever listens on the port may answer it with 200; a      *)
(* signal that arrives meanwhile is not looked at.                         *)
Probe ==
    /\ d = "probe"
    /\ \/ port # "free" /\ d' = "serve" /\ n' = 0
       \/ d' = "wait" /\ n' = n + 1
    /\ UNCHANGED <<pid, shutdown, child, port, service, history>>

(* The server thread is started.                                           *)
Serve ==
    /\ d = "serve" /\ d' = "loop" /\ listener' = "starting"
    /\ UNCHANGED <<pid, shutdown, n, child, port, reqs, history>>

(* svr.listen() binds and accepts, or fails and the thread ends: nobody    *)
(* looks at its result.                                                    *)
Listen ==
    /\ listener = "starting" /\ listener' \in {"listening", "ended"}
    /\ UNCHANGED <<d, pid, shutdown, n, child, port, reqs, history>>

(* A request is accepted ...                                               *)
Arrive(r) ==
    /\ listener = "listening" /\ reqs[r] = "none"
    /\ reqs' = [reqs EXCEPT ![r] = "open"]
    /\ UNCHANGED <<d, pid, shutdown, n, child, port, listener, history>>

(* ... and proxy_get or proxy_post passes on what the backend port         *)
(* answers, or 502 after an error or a timeout.                            *)
Proxy(r) ==
    /\ reqs[r] = "open"
    /\ \E who \in {"502"} \cup ({port} \ {"free"}) : reqs' = [reqs EXCEPT ![r] = who]
    /\ UNCHANGED <<d, pid, shutdown, n, child, port, listener, history>>

(* Mutant: only the signal ends the daemon.                                *)
MutLoopRound ==
    /\ d = "loop"
    /\ shutdown /\ d' = "stop" /\ UNCHANGED <<shutdown, child>>
    /\ UNCHANGED <<pid, n, port, service, history>>

(* The main loop: the signal, or the child that exited, which is reaped;   *)
(* g_child_pid keeps its number.                                           *)
LoopRound ==
    /\ d = "loop"
    /\ \/ shutdown /\ d' = "stop" /\ UNCHANGED <<shutdown, child>>
       \/ ~shutdown /\ child = "zombie" /\ d' = "stop" /\ shutdown' = TRUE /\ child' = "gone"
    /\ UNCHANGED <<pid, n, port, service, history>>

(* Mutant: the listening socket stays open.                                *)
MutStopServer ==
    /\ d = "stop" /\ d' = "join" /\ UNCHANGED <<listener, missed>>
    /\ UNCHANGED <<pid, shutdown, n, child, port, reqs, stolen, stray>>

(* svr.stop(): it ends a server that listens and does nothing to one that  *)
(* does not listen yet.                                                    *)
StopServer ==
    /\ d = "stop" /\ d' = "join"
    /\ listener' = IF listener = "listening" THEN "draining" ELSE listener
    /\ missed' = (listener = "starting")
    /\ UNCHANGED <<pid, shutdown, n, child, port, reqs, stolen, stray>>

(* listen() returns once its handlers have returned.                       *)
Drained ==
    /\ listener = "draining" /\ \A r \in Requests : reqs[r] # "open"
    /\ listener' = "ended"
    /\ UNCHANGED <<d, pid, shutdown, n, child, port, reqs, history>>

(* server_thread.join()                                                    *)
Join ==
    /\ d = "join" /\ listener = "ended" /\ GiveUp
    /\ UNCHANGED <<pid, shutdown, child, port, service, history>>

-----------------------------------------------------------------------------
(* kill_child()                                                            *)

Hits == stray' = (stray \/ child = "gone")

(* Nothing to do without a child; otherwise SIGTERM.                       *)
Term ==
    /\ d = "term"
    /\ \/ ~pid /\ d' = "exited" /\ UNCHANGED stray
       \/ pid /\ d' = "poll" /\ Hits
    /\ UNCHANGED <<pid, shutdown, n, child, port, service, stolen, missed>>

(* waitpid(WNOHANG) until it has the child or the time is up.              *)
Poll ==
    /\ d = "poll"
    /\ \/ child = "zombie" /\ child' = "gone" /\ d' = "kill" /\ UNCHANGED n
       \/ child # "zombie" /\ n < Polls /\ n' = n + 1 /\ UNCHANGED <<d, child>>
       \/ child # "zombie" /\ n = Polls /\ d' = "kill" /\ UNCHANGED <<n, child>>
    /\ UNCHANGED <<pid, shutdown, port, service, history>>

(* Mutant: a child that did not go on SIGTERM is left alone.               *)
MutKill ==
    /\ d = "kill" /\ d' = "exited" /\ pid' = FALSE
    /\ UNCHANGED <<shutdown, n, child, port, service, history>>

(* SIGKILL, whether the child is still there or not.                       *)
Kill ==
    /\ d = "kill" /\ d' = "reap"
    /\ Hits
    /\ IF child \in Alive THEN Dies ELSE UNCHANGED <<child, port>>
    /\ UNCHANGED <<pid, shutdown, n, service, stolen, missed>>

(* waitpid(): the child is reaped, or there is none any more.              *)
Reap ==
    /\ d = "reap" /\ child \in {"zombie", "gone"}
    /\ child' = "gone" /\ pid' = FALSE /\ d' = "exited"
    /\ UNCHANGED <<shutdown, n, port, service, history>>

Main == Spawn \/ WaitRound \/ Probe \/ Serve \/ LoopRound \/ StopServer
        \/ Join \/ Term \/ Poll \/ Kill \/ Reap

Server == Listen \/ Drained \/ \E r \in Requests : Proxy(r)

Next == Main \/ Server \/ ChildListens \/ ChildExits \/ PortTaken \/ Signal
        \/ \E r \in Requests : Arrive(r)

Spec == Init /\ [][Next]_vars

(* The daemon's threads run and every proxied call has a timeout; neither  *)
(* the child nor the signal has to do anything.                            *)
FairSpec == Spec /\ WF_vars(Main) /\ WF_vars(Server)

-----------------------------------------------------------------------------
(* kill_child() is reached on every way out and gets its child: when the   *)
(* daemon has gone, no backend stays behind, alive or as a zombie.         *)
NoOrphan == d = "exited" => child \in {"none", "gone"} /\ port # "child"

(* No request is accepted before a backend has answered its health check   *)
(* (wait_for_backend() comes before the server thread): the child listened *)
(* at some time, unless someone else took its port.                        *)
ReadyFirst ==
    listener # "off" => child \in {"up", "zombie", "gone"} \/ stolen

(* The daemon goes down with its child ("backend exited, shutting down")   *)
(* and on a signal, whatever the child, the handlers and the network do,   *)
(* unless svr.stop() came too early for svr.listen().                      *)
GoesDown == (shutdown \/ child = "zombie") ~> (d = "exited" \/ missed)

(* "Start server in a separate thread so we can monitor shutdown signal"   *)
(* (onebitd.cpp:403): a signal ends the daemon.                            *)
SignalEnds == shutdown ~> (d = "exited")

(* "Force kill if still alive" (onebitd.cpp:53): no signal goes to a       *)
(* process id that was given back.                                         *)
OnlyItsChild == ~stray
=============================================================================
