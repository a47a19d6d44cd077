----------------------------- MODULE NodeClient -----------------------------
(***************************************************************************)
(* This device as a node of another gateway: one worker that connects,     *)
(* reads requests and runs tools for them, threads that forward chats, and *)
(* the starting and stopping of the worker.                                *)
(*   - node/node_client.c                                                  *)
(* Stopping has two phases: the descriptor is closed, so that the worker   *)
(* wakes, and what TLS needs is freed only when the worker has ended.      *)
(***************************************************************************)
EXTENDS Naturals

CONSTANTS Tls,        \* s_use_tls: the port of the gateway is 443
          MaxStarts,  \* calls of node_client_start
          MaxTasks,   \* requests and forwarded chats
          Faults      \* "connect", "upgrade", "drop": no connection, no upgrade, a lost line;
                      \* "handshake": a TLS handshake that fails; "ping": the worker answers or
                      \* sends a ping while another thread writes; "full": a peer that reads
                      \* no more

VARIABLES wanted,   \* s_running
          worker,   \* the worker
          socket,   \* a socket is open: "none", "hidden" from do_shutdown_fd, "open", or "shut"
          linked,   \* s_ws.connected
          tlsReady, \* s_ws.tls_init
          writer,   \* who holds s_mutex while it writes a frame
          forward,  \* the thread that forwards a chat
          control,  \* the caller of start and stop
          restart,  \* it is node_client_start that stops the previous worker
          starts, tasks,
          leaked,   \* sockets that nobody can close any more
          torn      \* frames whose bytes another's went between

vars == <<wanted, worker, socket, linked, tlsReady, writer, forward, control, restart, starts, tasks,
          leaked, torn>>

TypeOK ==
    /\ wanted \in BOOLEAN /\ linked \in BOOLEAN /\ tlsReady \in BOOLEAN
    /\ worker \in {"none", "loop", "handshake", "upgrade", "reading", "tool", "reply", "replying",
                   "lost", "exited"}
    /\ socket \in {"none", "hidden", "open", "shut"}
    /\ writer \in {"nobody", "worker", "forward"}
    /\ forward \in {"idle", "checked", "writing"}
    /\ control \in {"idle", "shut", "join", "free"}
    /\ restart \in BOOLEAN
    /\ starts \in 0..MaxStarts /\ tasks \in 0..MaxTasks
    /\ leaked \in Nat /\ torn \in BOOLEAN

Init ==
    /\ wanted = FALSE /\ worker = "none"
    /\ socket = "none" /\ linked = FALSE /\ tlsReady = FALSE
    /\ writer = "nobody" /\ forward = "idle"
    /\ control = "idle" /\ restart = FALSE /\ starts = 0 /\ tasks = 0
    /\ leaked = 0 /\ torn = FALSE

controlVars == <<wanted, control, restart, starts>>
connVars == <<socket, linked, tlsReady>>

-----------------------------------------------------------------------------
(* node_client_start: a previous worker is stopped first.  node_client_stop*)
Create == wanted' = TRUE /\ worker' = "loop"

Start ==
    /\ control = "idle" /\ starts < MaxStarts
    /\ starts' = starts + 1
    /\ IF wanted THEN /\ wanted' = FALSE /\ control' = "shut" /\ restart' = TRUE
                      /\ UNCHANGED worker
       ELSE Create /\ UNCHANGED <<control, restart>>
    /\ UNCHANGED <<connVars, writer, forward, tasks, leaked, torn>>

Stop ==
    /\ control = "idle" /\ (wanted \/ worker # "none")
    /\ wanted' = FALSE
    /\ control' = "shut" /\ restart' = FALSE
    /\ UNCHANGED <<worker, connVars, writer, forward, starts, tasks, leaked, torn>>

(* Phase 1, do_shutdown_fd: it needs the mutex, and sees the socket of a   *)
(* TLS connection only after the handshake.                                *)
Shut ==
    /\ control = "shut" /\ writer = "nobody"
    /\ linked' = FALSE
    /\ socket' = IF socket = "open" THEN "shut" ELSE socket
    /\ control' = "join"
    /\ UNCHANGED <<wanted, worker, tlsReady, writer, forward, restart, starts, tasks, leaked, torn>>
(* The worker is not waited for. *)
Join_Mut ==
    /\ control = "join"
    /\ control' = "free"
    /\ UNCHANGED <<wanted, worker, connVars, writer, forward, restart, starts, tasks, leaked, torn>>

Join ==
    /\ control = "join" /\ worker \in {"none", "exited"}
    /\ worker' = "none"
    /\ control' = "free"
    /\ UNCHANGED <<wanted, connVars, writer, forward, restart, starts, tasks, leaked, torn>>

(* Phase 2, do_free_tls; then the new worker, if one was asked for.        *)
Free ==
    /\ control = "free" /\ writer = "nobody"
    /\ tlsReady' = FALSE
    /\ control' = "idle" /\ restart' = FALSE
    /\ IF restart THEN Create ELSE UNCHANGED <<wanted, worker>>
    /\ UNCHANGED <<socket, linked, writer, forward, starts, tasks, leaked, torn>>

ControlStep == Shut \/ Join \/ Free

-----------------------------------------------------------------------------
(* The worker: do_connect begins with an empty s_ws.                       *)
Connect ==
    /\ worker = "loop"
    /\ linked' = FALSE /\ tlsReady' = FALSE
    /\ \/ ~wanted /\ worker' = "exited" /\ UNCHANGED <<socket, leaked>>
       \/ /\ wanted
          /\ worker' = IF Tls THEN "handshake" ELSE "upgrade"
          /\ socket' = IF Tls THEN "hidden" ELSE "open"
          /\ leaked' = leaked + (IF socket \in {"hidden", "open"} THEN 1 ELSE 0)
       \/ wanted /\ "connect" \in Faults /\ socket' = "none" /\ UNCHANGED <<worker, leaked>>
    /\ UNCHANGED <<controlVars, writer, forward, tasks, torn>>

(* do_disconnect_locked closes the socket it sees: not one whose handshake *)
(* failed.                                                                 *)
Disconnect ==
    /\ linked' = FALSE /\ tlsReady' = FALSE
    /\ socket' = IF socket = "hidden" THEN "hidden" ELSE "none"

Handshake ==
    /\ worker = "handshake"
    /\ \/ worker' = "upgrade" /\ tlsReady' = TRUE /\ socket' = "open" /\ UNCHANGED linked
       \/ "handshake" \in Faults /\ worker' = "loop" /\ writer = "nobody" /\ Disconnect
    /\ UNCHANGED <<controlVars, writer, forward, tasks, leaked, torn>>

Upgrade ==
    /\ worker = "upgrade" /\ writer = "nobody"
    /\ \/ socket = "open" /\ linked' = TRUE /\ worker' = "reading" /\ UNCHANGED <<socket, tlsReady>>
       \/ (socket = "shut" \/ "upgrade" \in Faults) /\ worker' = "loop" /\ Disconnect
    /\ UNCHANGED <<controlVars, writer, forward, tasks, leaked, torn>>

(* The recv loop: a request, a ping, the end of the line or of the worker. *)
Request ==
    /\ worker = "reading" /\ wanted /\ linked /\ tasks < MaxTasks
    /\ tasks' = tasks + 1
    /\ worker' = "tool"
    /\ UNCHANGED <<controlVars, connVars, writer, forward, leaked, torn>>

Ping ==
    /\ "ping" \in Faults /\ worker = "reading" /\ linked
    /\ torn' = (torn \/ writer # "nobody")
    /\ UNCHANGED <<controlVars, worker, connVars, writer, forward, tasks, leaked>>

Lost ==
    /\ worker = "reading"
    /\ "drop" \in Faults \/ ~wanted \/ ~linked
    /\ worker' = "lost"
    /\ UNCHANGED <<controlVars, connVars, writer, forward, tasks, leaked, torn>>

Leave ==
    /\ worker = "lost" /\ writer = "nobody"
    /\ Disconnect
    /\ worker' = IF wanted THEN "loop" ELSE "exited"
    /\ UNCHANGED <<controlVars, writer, forward, tasks, leaked, torn>>

ToolDone ==
    /\ worker = "tool"
    /\ worker' = "reply"
    /\ UNCHANGED <<controlVars, connVars, writer, forward, tasks, leaked, torn>>

(* ws_send_text writes a frame piece by piece, under the mutex.            *)
MayWrite == writer = "nobody"

Reply ==
    /\ \/ worker = "reply" /\ MayWrite
          /\ IF linked THEN /\ worker' = "replying" /\ writer' = "worker"
                            /\ torn' = (torn \/ writer # "nobody")
             ELSE worker' = "reading" /\ UNCHANGED <<writer, torn>>
       \/ worker = "replying" /\ worker' = "reading" /\ writer' = "nobody" /\ UNCHANGED torn
    /\ UNCHANGED <<controlVars, connVars, forward, tasks, leaked>>

WorkerStep ==
    \/ Connect \/ Handshake \/ Upgrade \/ (Lost /\ (~wanted \/ ~linked)) \/ Leave \/ ToolDone \/ Reply

-----------------------------------------------------------------------------
(* node_client_send_chat_message, of any thread: whether there is a        *)
(* connection is asked twice.                                              *)
Forward ==
    /\ forward = "idle" /\ linked /\ tasks < MaxTasks
    /\ tasks' = tasks + 1
    /\ forward' = "checked"
    /\ UNCHANGED <<controlVars, worker, connVars, writer, leaked, torn>>

Write ==
    /\ \/ forward = "checked" /\ MayWrite
          /\ IF linked THEN /\ forward' = "writing" /\ writer' = "forward"
                            /\ torn' = (torn \/ writer # "nobody")
             ELSE forward' = "idle" /\ UNCHANGED <<writer, torn>>
       \/ forward = "writing" /\ "full" \notin Faults
          /\ forward' = "idle" /\ writer' = "nobody" /\ UNCHANGED torn
    /\ UNCHANGED <<controlVars, worker, connVars, tasks, leaked>>

Next ==
    \/ Start \/ Stop \/ ControlStep
    \/ WorkerStep \/ Request \/ Ping \/ Lost
    \/ Forward \/ Write

(* A gateway that refuses for ever delays nothing but the connection.      *)
Spec ==
    /\ Init /\ [][Next]_vars
    /\ WF_vars(ControlStep) /\ WF_vars(WorkerStep) /\ WF_vars(Write)

-----------------------------------------------------------------------------
(* What TLS reads with is not freed under the worker, and a stopped client *)
(* holds no socket and no TLS objects; none is lost, either.               *)
LinkIsOwned ==
    /\ Tls /\ worker \in {"reading", "tool", "reply", "replying", "upgrade"} => tlsReady
    /\ control = "idle" /\ ~wanted => worker = "none" /\ socket = "none" /\ ~linked /\ ~tlsReady
    /\ leaked = 0

(* The bytes of two frames are not mixed.                                  *)
FramesWhole == ~torn

(* Stopping and forwarding end, whatever the worker is doing.              *)
Waiting == control # "idle" \/ forward # "idle"
StopReturns == Waiting ~> ~Waiting
=============================================================================
