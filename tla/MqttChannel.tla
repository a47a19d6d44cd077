----------------------------- MODULE MqttChannel -----------------------------
(***************************************************************************)
(* The MQTT channel between the broker and the agent: the sync thread      *)
(* keeps the connection and hands messages to the bus while it holds the   *)
(* client's mutex, and the outbound dispatcher needs that mutex to publish *)
(* an answer.  The shell sets another broker while it runs.                *)
(*   - src/channels/mqtt_channel.c, cmd_channel.c: cmd_set_mqtt            *)
(* The MQTT-C client, the bus and the agent are as the channel sees them:  *)
(* queues of bounded length with pushes that time out.                     *)
(***************************************************************************)
EXTENDS Naturals

CONSTANTS MaxMessages, \* messages published to the inbound topic
          QueueLen,    \* places of each of the two queues of the bus
          MaxPacked,   \* answers that the send buffer holds
          MaxSets,     \* times the shell sets the broker
          Faults       \* of "drop", "connect", "long", "slow"

Threads == 1..(MaxSets + 1)

VARIABLES running, \* s_running
          sync,    \* where each sync thread is
          sock,    \* s_sockfd names an open socket
          broken,  \* the client's error is not MQTT_OK
          lock,    \* who holds the client's mutex, 0 for nobody
          shell,   \* where cmd_set_mqtt is
          sets,
          topic,   \* messages at the broker for this client
          inbound, outbound, \* lengths of the bus's queues
          agent,   \* the agent has an answer to push
          sender,  \* the dispatcher has an answer to publish
          packed   \* answers in the send buffer

mqttVars == <<running, sync, sock, broken, lock, shell, sets, topic, inbound, outbound, agent,
              sender, packed>>

TypeOK ==
    /\ running \in BOOLEAN /\ sock \in BOOLEAN /\ broken \in BOOLEAN
    /\ sync \in [Threads -> {"none", "top", "connecting", "sending", "receiving", "pushing"}]
    /\ lock \in 0..(MaxSets + 1)
    /\ shell \in {"idle", "stopping"} /\ sets \in 0..MaxSets
    /\ topic \in 0..MaxMessages
    /\ inbound \in 0..QueueLen /\ outbound \in 0..QueueLen
    /\ agent \in BOOLEAN /\ sender \in BOOLEAN
    /\ packed \in 0..MaxPacked

(* mqtt_channel_start has started a thread; the client has no connection.  *)
Init ==
    /\ running = TRUE
    /\ sync = [t \in Threads |-> IF t = 1 THEN "top" ELSE "none"]
    /\ sock = FALSE /\ broken = TRUE /\ lock = 0
    /\ shell = "idle" /\ sets = 0
    /\ topic \in 0..MaxMessages
    /\ inbound = 0 /\ outbound = 0 /\ agent = FALSE /\ sender = FALSE /\ packed = 0

busVars == <<inbound, outbound, agent, sender>>
At(t, where) == sync' = [sync EXCEPT ![t] = where]

-----------------------------------------------------------------------------
(* cmd_set_mqtt stops the channel, waits twice the interval of the thread, *)
(* and starts it again.  A thread that did not look at s_running meanwhile *)
(* goes on beside the new one.                                             *)
StopChannel ==
    /\ shell = "idle" /\ sets < MaxSets
    /\ sets' = sets + 1
    /\ shell' = "stopping" /\ running' = FALSE
    /\ sock' = FALSE /\ broken' = TRUE
    /\ UNCHANGED <<sync, lock, topic, busVars, packed>>

Alive == {t \in Threads : sync[t] # "none"}
StartChannel ==
    /\ shell = "stopping"
    /\ Alive = {} \/ "slow" \in Faults
    /\ shell' = "idle" /\ running' = TRUE
    /\ broken' = TRUE /\ packed' = 0 /\ lock' = 0
    /\ At(sets + 1, "top")
    /\ UNCHANGED <<sock, sets, topic, busVars>>

-----------------------------------------------------------------------------
(* The sync thread.  A client that is broken is connected again: what its  *)
(* buffer held is gone, and so is what the broker held for the session.    *)
Look(t) ==
    /\ sync[t] = "top"
    /\ \/ ~running /\ At(t, "none") /\ UNCHANGED lock
       \/ running /\ broken /\ lock = 0 /\ lock' = t /\ At(t, "connecting")
       \/ running /\ ~broken /\ lock = 0 /\ lock' = t /\ At(t, "receiving")
    /\ UNCHANGED <<running, sock, broken, shell, sets, topic, busVars, packed>>

Reconnect(t) ==
    /\ sync[t] = "connecting"
    /\ packed' = 0 /\ lock' = 0
    /\ \/ "connect" \in Faults /\ sock' = FALSE /\ UNCHANGED broken
       \/ sock' = TRUE /\ broken' = FALSE
    /\ At(t, "top")
    /\ UNCHANGED <<running, shell, sets, topic, busVars>>

(* on_publish pushes to the bus with the mutex held ...                    *)
Receive(t) ==
    /\ sync[t] = "receiving"
    /\ IF topic > 0 /\ ~broken
       THEN topic' = topic - 1 /\ At(t, "pushing")
       ELSE UNCHANGED topic /\ At(t, "sending")
    /\ UNCHANGED <<running, sock, broken, lock, shell, sets, busVars, packed>>

PushInbound(t) ==
    /\ sync[t] = "pushing" /\ inbound < QueueLen
    /\ inbound' = inbound + 1
    /\ At(t, "receiving")
    /\ UNCHANGED <<running, sock, broken, lock, shell, sets, topic, outbound, agent, sender, packed>>

(* ... and gives the message up when the queue stays full.                 *)
PushTimesOut(t) ==
    /\ sync[t] = "pushing" /\ inbound = QueueLen
    /\ At(t, "receiving")
    /\ UNCHANGED <<running, sock, broken, lock, shell, sets, topic, busVars, packed>>

(* What was packed is sent and acknowledged; the thread then sleeps.       *)
Flush(t) ==
    /\ sync[t] = "sending"
    /\ packed' = IF broken THEN packed ELSE 0
    /\ lock' = 0
    /\ At(t, "top")
    /\ UNCHANGED <<running, sock, broken, shell, sets, topic, busVars>>

SyncStep(t) == Look(t) \/ Reconnect(t) \/ Receive(t) \/ PushInbound(t) \/ PushTimesOut(t) \/ Flush(t)

(* The connection breaks.                                                  *)
Drop ==
    /\ "drop" \in Faults /\ ~broken /\ topic > 0
    /\ broken' = TRUE
    /\ topic' = topic - 1
    /\ UNCHANGED <<running, sync, sock, lock, shell, sets, busVars, packed>>

-----------------------------------------------------------------------------
(* The agent takes a message when it has answered the last one, ...        *)
Think ==
    /\ inbound > 0 /\ ~agent
    /\ inbound' = inbound - 1 /\ agent' = TRUE
    /\ UNCHANGED <<running, sync, sock, broken, lock, shell, sets, topic, outbound, sender, packed>>

(* ... and its push, too, ends when the queue stays full.                  *)
Answer ==
    /\ agent
    /\ agent' = FALSE
    /\ outbound' = IF outbound < QueueLen THEN outbound + 1 ELSE outbound
    /\ UNCHANGED <<running, sync, sock, broken, lock, shell, sets, topic, inbound, sender, packed>>

(* The dispatcher: mqtt_channel_send waits for the mutex to publish.       *)
Fetch ==
    /\ outbound > 0 /\ ~sender
    /\ outbound' = outbound - 1 /\ sender' = TRUE
    /\ UNCHANGED <<running, sync, sock, broken, lock, shell, sets, topic, inbound, agent, packed>>

(* An answer that the buffer cannot take breaks the client.                *)
Publish ==
    /\ sender
    /\ sender' = FALSE
    /\ \/ ~(running /\ sock) /\ UNCHANGED <<packed, broken>>
       \/ /\ running /\ sock /\ lock = 0
          /\ IF packed < MaxPacked
             THEN packed' = packed + 1 /\ UNCHANGED broken
             ELSE broken' = TRUE /\ UNCHANGED packed
       \/ /\ running /\ sock /\ lock = 0 /\ "long" \in Faults
          /\ broken' = TRUE /\ UNCHANGED packed
    /\ UNCHANGED <<running, sync, sock, lock, shell, sets, topic, inbound, outbound, agent>>

Next ==
    \/ StopChannel \/ StartChannel
    \/ \E t \in Threads : SyncStep(t)
    \/ Drop \/ Think \/ Answer \/ Fetch \/ Publish

(* The mutex is held for short times again and again, so that who waits    *)
(* for it gets it.                                                         *)
Spec == Init /\ [][Next]_mqttVars
        /\ \A t \in Threads : WF_mqttVars(SyncStep(t))
        /\ WF_mqttVars(StartChannel) /\ WF_mqttVars(Think \/ Answer)
        /\ WF_mqttVars(Fetch) /\ SF_mqttVars(Publish)

-----------------------------------------------------------------------------
(* One thread at a time works with the client and its buffers, and holds   *)
(* the mutex when it does.                                                 *)
OneClient ==
    /\ \A t, u \in Alive : t = u
    /\ \A t \in Alive : sync[t] # "top" => lock = t

(* Nothing stands still because the queues of the bus are full: who waits  *)
(* for a place, for the mutex or for the thread's end gets it.             *)
Waiting == sender \/ agent \/ shell # "idle" \/ \E t \in Threads : sync[t] = "pushing"
NobodyStuck == Waiting ~> ~Waiting
=============================================================================
