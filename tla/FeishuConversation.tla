-------------------------- MODULE FeishuConversation --------------------------
(***************************************************************************)
(* The Feishu conversation of voice_assistant.c: the agent enters it, the  *)
(* main thread switches the cloud to recognition only and wakes a polling  *)
(* thread, which puts the messages of the group into a small ring, and a   *)
(* speaking thread reads them out.  Both threads are detached and are only *)
(* told to end; a conversation that is left ends when the farewell was     *)
(* spoken.  Messages are numbered in the order they were sent.             *)
(***************************************************************************)
EXTENDS Naturals, Sequences, FiniteSets

CONSTANTS
    MaxMsgs, MaxEnters,  \* bounds on the messages of the group and the conversations
    QueueLen,            \* FEISHU_TTS_QUEUE_SIZE - 1
    Ours,                \* the messages that the device sent, or another bot did
    Late                 \* may a poll outlast the end of a conversation, or voice_assistant_stop?

VARIABLES
    up, linked,              \* s_va_running; is the connection to the cloud open?
    mode, chat,              \* s_feishu_conversation_mode; is s_feishu_conversation_chat_id set?
    leaving,                 \* s_pending_conversation_exit: "no", "speaking", "timed"
    toAsr, toOmni, cloud,    \* s_pending_asr_only_switch, s_pending_omni_restore; what the cloud does
    polling, created, need,  \* s_feishu_poll_running, _thread_created, _need_poll
    pollers, page,           \* the polling threads and, of the working one, the messages it has left
    reading, hired, workers, \* s_feishu_tts_running, _worker_created; the speaking threads
    ring, recent, posted,    \* the ring; what a poll returns; the messages sent to the group
    seen, spoken,            \* s_conv_msgid_ring; what was read out
    enters

flagVars == <<mode, chat, leaving, toAsr, toOmni>>
lineVars == <<up, linked, cloud>>
pollVars == <<polling, created, need>>
threadVars == <<pollers, page>>
speakVars == <<reading, hired, workers>>
groupVars == <<recent, posted>>
vars == <<flagVars, lineVars, pollVars, threadVars, speakVars, ring, groupVars, seen, spoken, enters>>

States == {"off", "wait", "request", "deliver"}
Threads == 1..(MaxEnters + 1)

Init ==
    /\ up = FALSE /\ linked = FALSE /\ cloud = "omni"
    /\ mode = FALSE /\ chat = FALSE /\ leaving = "no" /\ toAsr = FALSE /\ toOmni = FALSE
    /\ polling = FALSE /\ created = FALSE /\ need = FALSE
    /\ pollers = [t \in Threads |-> "off"] /\ page = <<>>
    /\ reading = FALSE /\ hired = FALSE /\ workers = [t \in Threads |-> "off"]
    /\ ring = <<>> /\ recent = {} /\ posted = 0 /\ seen = {} /\ spoken = <<>> /\ enters = 0

(* A thread is created in a slot that is free. *)
Free(threads) == CHOOSE t \in Threads : threads[t] = "off"

----------------------------------------------------------------------------
(* The group.  A poll asks for the last five seconds. *)

Post ==
    /\ posted < MaxMsgs /\ posted' = posted + 1 /\ recent' = recent \cup {posted'}
    /\ UNCHANGED <<flagVars, lineVars, pollVars, threadVars, speakVars, ring, seen, spoken, enters>>
Age ==
    /\ recent # {} /\ recent' = recent \ {CHOOSE m \in recent : \A n \in recent : m <= n}
    /\ UNCHANGED <<flagVars, lineVars, pollVars, threadVars, speakVars, ring, posted, seen, spoken, enters>>

----------------------------------------------------------------------------
(* voice_assistant_start, the connection, voice_assistant_stop. *)

Start ==
    /\ ~up /\ up' = TRUE
    /\ UNCHANGED <<flagVars, linked, cloud, pollVars, threadVars, speakVars, ring, groupVars, seen, spoken, enters>>
Link ==
    /\ up /\ linked' = ~linked /\ cloud' = "omni"
    /\ UNCHANGED <<flagVars, up, pollVars, threadVars, speakVars, ring, groupVars, seen, spoken, enters>>

(* The mode is cleared first, then the speaking thread and its ring, then  *)
(* the polling thread, then, after the join, what was pending.             *)
InFlight == \E t \in Threads : pollers[t] \in {"request", "deliver"}
Stop ==
    /\ up /\ (Late \/ ~InFlight)
    /\ up' = FALSE /\ linked' = FALSE /\ cloud' = "omni"
    /\ mode' = FALSE /\ chat' = (chat /\ ~mode)
    /\ leaving' = "no" /\ toAsr' = FALSE /\ toOmni' = FALSE
    /\ IF reading THEN reading' = FALSE /\ hired' = FALSE /\ ring' = <<>>
       ELSE UNCHANGED <<reading, hired, ring>>
    /\ polling' = (polling /\ ~created) /\ created' = FALSE
    /\ UNCHANGED <<need, threadVars, workers, groupVars, seen, spoken, enters>>

----------------------------------------------------------------------------
(* Entering, by the agent, and leaving, by the user, the agent, silence or *)
(* the end of the page (leaving again would only repeat the wait).  What   *)
(* was polled in one conversation is older than five seconds when the next *)
(* one begins: the farewell and the three seconds after it are between.    *)

StartPoller ==
    IF created THEN UNCHANGED <<pollVars, pollers>>
    ELSE /\ polling' = TRUE /\ need' = FALSE /\ created' = TRUE
         /\ pollers' = [pollers EXCEPT ![Free(pollers)] = "wait"]
Enter ==
    /\ up /\ ~mode /\ (Late \/ (~InFlight /\ recent \cap seen = {}))
    /\ enters < MaxEnters /\ enters' = enters + 1
    /\ mode' = TRUE /\ chat' = TRUE /\ toAsr' = TRUE
    /\ seen' = {}
    /\ StartPoller
    /\ UNCHANGED <<lineVars, leaving, toOmni, page, speakVars, ring, groupVars, spoken>>
Leave ==
    /\ mode /\ leaving = "no" /\ leaving' = "speaking" /\ chat' = FALSE /\ toOmni' = TRUE
    /\ UNCHANGED <<mode, toAsr, lineVars, pollVars, threadVars, speakVars, ring, groupVars, seen, spoken, enters>>

----------------------------------------------------------------------------
(* The main thread, while it is connected. *)

MainRest == UNCHANGED <<up, linked, chat, threadVars, speakVars, ring, groupVars, seen, spoken, enters>>
Switch ==
    /\ linked /\ (toAsr \/ toOmni)
    /\ cloud' = (IF toOmni THEN "omni" ELSE "asr") /\ toAsr' = FALSE /\ toOmni' = FALSE
    /\ MainRest /\ UNCHANGED <<mode, leaving, pollVars>>

(* Three seconds after the farewell was spoken; nothing is spoken if the   *)
(* speaking thread has nothing to say.                                     *)
FarewellDone ==
    /\ linked
    /\ \/ leaving = "speaking" /\ leaving' = "timed" /\ UNCHANGED <<mode, pollVars>>
       \/ /\ leaving = "timed" /\ (\A t \in Threads : workers[t] # "speak")
          /\ leaving' = "no" /\ mode' = FALSE
          /\ polling' = (polling /\ ~created) /\ created' = FALSE /\ UNCHANGED need
    /\ MainRest /\ UNCHANGED <<toAsr, toOmni, cloud>>
TriggerPoll ==
    /\ linked /\ mode /\ leaving = "no" /\ ~need /\ need' = TRUE
    /\ MainRest /\ UNCHANGED <<mode, leaving, toAsr, toOmni, cloud, polling, created>>
MainStep == Switch \/ FarewellDone

----------------------------------------------------------------------------
(* The polling threads: feishu_poll_thread_func, feishu_conv_poll_messages. *)

Poller(t, from, to) == pollers[t] = from /\ pollers' = [pollers EXCEPT ![t] = to]
PollRest == UNCHANGED <<flagVars, lineVars, polling, created, groupVars, spoken, enters>>

WakeUp(t) ==
    /\ \/ ~polling /\ Poller(t, "wait", "off") /\ UNCHANGED need
       \/ polling /\ need /\ need' = FALSE /\ Poller(t, "wait", IF mode /\ chat THEN "request" ELSE "wait")
    /\ PollRest /\ UNCHANGED <<page, speakVars, ring, seen>>
Answered(t) ==
    /\ \/ Poller(t, "request", "deliver")
          /\ page' = [i \in 1..Cardinality(recent) |->
                        CHOOSE m \in recent : Cardinality({n \in recent : n < m}) = i - 1]
       \/ Poller(t, "request", "wait") /\ UNCHANGED page
    /\ PollRest /\ UNCHANGED <<need, speakVars, ring, seen>>

(* A message not seen before, and not sent by a bot or by this device, is  *)
(* queued for the speaking thread, which is started if need be; a full     *)
(* ring loses its oldest message.                                          *)
Room_Mut == ring   \* the ring is not looked at
Room == IF Len(ring) = QueueLen THEN Tail(ring) ELSE ring
Deliver(t) ==
    /\ page # <<>> /\ Poller(t, "deliver", "deliver") /\ page' = Tail(page)
    /\ LET m == Head(page)
       IN /\ seen' = seen \cup {m}
          /\ IF m \in seen \cup Ours THEN UNCHANGED <<ring, speakVars>>
             ELSE /\ ring' = Append(Room, m)
                  /\ IF hired THEN UNCHANGED speakVars
                     ELSE /\ reading' = TRUE /\ hired' = TRUE
                          /\ workers' = [workers EXCEPT ![Free(workers)] = "wait"]
    /\ PollRest /\ UNCHANGED need
PollDone(t) ==
    /\ page = <<>> /\ Poller(t, "deliver", "wait")
    /\ PollRest /\ UNCHANGED <<need, page, speakVars, ring, seen>>

(* The speaking threads: feishu_tts_worker. *)
Worker(t, from, to) == workers[t] = from /\ workers' = [workers EXCEPT ![t] = to]
SpeakRest == UNCHANGED <<flagVars, lineVars, pollVars, threadVars, groupVars, seen, enters, reading>>
Take(t) ==
    /\ ring # <<>> /\ Worker(t, "wait", "speak")
    /\ ring' = Tail(ring) /\ spoken' = Append(spoken, Head(ring))
    /\ SpeakRest /\ UNCHANGED hired
Spoken(t) == Worker(t, "speak", "wait") /\ SpeakRest /\ UNCHANGED <<hired, ring, spoken>>
Quit(t) ==
    /\ ring = <<>> /\ ~reading /\ Worker(t, "wait", "off") /\ hired' = FALSE
    /\ SpeakRest /\ UNCHANGED <<ring, spoken>>

PollStep(t) == WakeUp(t) \/ Answered(t) \/ Deliver(t) \/ PollDone(t)
SpeakStep(t) == Take(t) \/ Spoken(t) \/ Quit(t)
Next == \/ Post \/ Age \/ Start \/ Link \/ Stop \/ Enter \/ Leave
        \/ MainStep \/ TriggerPoll
        \/ \E t \in Threads : PollStep(t) \/ SpeakStep(t)

----------------------------------------------------------------------------
TypeOK ==
    /\ {up, linked, mode, chat, toAsr, toOmni, polling, created, need, reading, hired} \subseteq BOOLEAN
    /\ leaving \in {"no", "speaking", "timed"} /\ cloud \in {"omni", "asr"}
    /\ pollers \in [Threads -> States] /\ workers \in [Threads -> {"off", "wait", "speak"}]
    /\ Len(ring) <= QueueLen /\ recent \cup seen \subseteq 1..MaxMsgs

(* Messages are read out in the order of the group and each of them once,  *)
(* although windows overlap and the ring overflows.                        *)
SpokenInOrder == \A i, j \in 1..Len(spoken) : i < j => spoken[i] < spoken[j]

(* After voice_assistant_stop nothing that was polled before is read out.  *)
QuietAfterStop == ~up => ring = <<>>

(* A conversation that was left ends, if the connection stays.             *)
Waiting == leaving # "no" /\ linked
LeavingEnds == Waiting ~> ~Waiting
=============================================================================
