--------------------------- MODULE VoiceAssistant ---------------------------
(***************************************************************************)
(* The voice assistant of the board (voice_assistant.c) outside Feishu     *)
(* conversations: its main thread (dashscope_thread) holds the connection  *)
(* to the cloud and the cloud microphone, the wake-word thread             *)
(* (wakeup_detector.cpp) listens when no dialogue is on, the AI page       *)
(* (ai_page.c) suspends and resumes both, the network monitor              *)
(* (lvgldemo.c) starts and stops them, and the agent answers what the fast *)
(* path handed to it.  None of these flags is locked.                      *)
(*                                                                         *)
(* What runs between two blocking calls is one action.  A time-out may     *)
(* come at any time after it was set.  Texts are their intents; pictures,  *)
(* conversations and the playback are in modules of their own.             *)
(***************************************************************************)
EXTENDS Naturals

CONSTANTS
    Faults,       \* what may fail: subset of {"connect", "line", "mic", "push"}
    Resets,       \* may another thread than the main one reset a fast path?
    MaxEvents     \* bound on the wake words heard, the pages opened and the changes of the network

VARIABLES
    running, main, stream,     \* s_va_running; the main thread; is s_asr_stream open?
    dialogue, suspended,       \* s_dialogue_active, s_listening_suspended
    mic, recorders,            \* is s_recorder set? how many cloud recorders are open?
    fast, heard, ended,        \* s_feishu_fast_path, s_fast_path_tts_started, s_fast_path_tts_done_ts
    response, omniEcho, ttsEcho, \* s_response_active; s_omni_echo_*, s_tts_echo_*: "off", "on", "settling"
    bye,                       \* s_pending_dialogue_exit
    cloud,                     \* is the cloud answering?
    agent, speaking,           \* the agent's thread; voice_channel_is_speaking()
    wk,                        \* the wake-word detector: [run, pc, rec], pc is "off" when no thread is active
    page, ui,                  \* the AI page; the thread that opens it
    wifi, ready, monitor,      \* the link; last_network_ready; disconnect_handler_thread
    events

flagVars == <<fast, heard, ended>>
echoVars == <<response, omniEcho, ttsEcho>>
micVars == <<mic, recorders>>
netVars == <<wifi, ready, monitor>>
mainVars == <<running, main, stream, dialogue, suspended, micVars, flagVars, echoVars, bye, cloud>>
vars == <<mainVars, agent, speaking, wk, page, ui, netVars, events>>

Init ==
    /\ running = FALSE /\ main = "off" /\ stream = FALSE
    /\ dialogue = FALSE /\ suspended = FALSE /\ mic = FALSE /\ recorders = 0
    /\ fast = FALSE /\ heard = FALSE /\ ended = FALSE
    /\ response = FALSE /\ omniEcho = "off" /\ ttsEcho = "off" /\ bye = FALSE
    /\ cloud = "idle" /\ agent = "idle" /\ speaking = FALSE
    /\ wk = [run |-> FALSE, pc |-> "off", rec |-> FALSE]
    /\ page = "none" /\ ui = "free" /\ wifi = FALSE /\ ready = FALSE /\ monitor = "off"
    /\ events = 0

Event == events < MaxEvents /\ events' = events + 1

----------------------------------------------------------------------------
(* The microphone and the flags. *)

(* dialogue_open_mic, which forgets the echo of what is played. *)
OpenMic ==
    /\ mic' = TRUE /\ recorders' = recorders + 1
    /\ omniEcho' = "off" /\ ttsEcho' = "off" /\ UNCHANGED response
MicFails == "mic" \in Faults /\ omniEcho' = "off" /\ ttsEcho' = "off" /\ UNCHANGED <<response, micVars>>

(* dialogue_close_mic *)
CloseMic == mic' = FALSE /\ recorders' = IF mic THEN recorders - 1 ELSE recorders

NoFast == fast' = FALSE /\ heard' = FALSE /\ ended' = FALSE
Quiet == response' = FALSE /\ omniEcho' = "off" /\ ttsEcho' = "off"

(* va_dialogue_exit_cleanup *)
EndDialogue ==
    /\ dialogue' = FALSE /\ heard' = FALSE /\ ended' = FALSE /\ UNCHANGED fast
    /\ CloseMic /\ Quiet

----------------------------------------------------------------------------
(* The wake-word detector. *)

Wake(pc) == wk' = [wk EXCEPT !.pc = pc]

(* wakeup_detector_start waits for an old thread to end and gives up after *)
(* three seconds, which only a prompt outlasts.                            *)
Slow == wk.pc \in {"greet", "prompt"}
CanStart == wk.run \/ wk.pc = "off" \/ Slow
StartDetector ==
    wk' = IF wk.run \/ wk.pc # "off" THEN wk ELSE [run |-> TRUE, pc |-> "open", rec |-> FALSE]

(* wakeup_detector_stop: the flag, then the wait for the thread, if it ran. *)
CanGoOn == wk.pc = "off" \/ Slow

(* wakeup_thread: it opens its recorder ... *)
WkOpen ==
    /\ wk.pc = "open"
    /\ wk' = [wk EXCEPT !.pc = "listen", !.rec = TRUE]

(* ... hears the wake word or a request for a prompt, for both of which    *)
(* do_play_prompt closes the recorder ...                                  *)
WakeWord ==
    /\ wk.pc = "listen" /\ wk.run /\ Event
    /\ \E what \in (IF ready THEN {"greet"} ELSE {}) \cup {"prompt"} :
           wk' = [wk EXCEPT !.pc = what, !.rec = FALSE]
    /\ UNCHANGED <<mainVars, agent, speaking, page, ui, netVars>>

(* ... and after the greeting hands over to a dialogue (on_local_wakeup,   *)
(* voice_assistant_enter_dialogue); after a prompt it listens again.       *)
WkGreeted ==
    /\ wk.pc = "greet"
    /\ dialogue' = (dialogue \/ running)
    /\ wk' = [wk EXCEPT !.run = FALSE, !.pc = "close"]
WkPrompted ==
    wk.pc = "prompt" /\ Wake(IF wk.run THEN "open" ELSE "close") /\ UNCHANGED dialogue
WkClose ==
    \/ wk.pc = "listen" /\ ~wk.run /\ Wake("close")
    \/ wk.pc = "close" /\ wk' = [wk EXCEPT !.pc = "off", !.rec = FALSE]

WkStep ==
    /\ \/ (WkOpen \/ WkClose) /\ UNCHANGED dialogue
       \/ WkGreeted \/ WkPrompted
    /\ UNCHANGED <<running, main, stream, suspended, micVars, flagVars, echoVars, bye, cloud,
                   agent, speaking, page, ui, netVars, events>>

----------------------------------------------------------------------------
(* The main thread: dashscope_thread. *)

othersVars == <<running, suspended, agent, speaking, page, ui, netVars, events>>
Go(pc) == main' = pc
MainRest == UNCHANGED <<othersVars, wk>>

(* The stream is opened again and again until that succeeds. *)
Connect ==
    /\ main = "connect" /\ running
    /\ \/ stream' = TRUE /\ Go("turn")
       \/ "connect" \in Faults /\ UNCHANGED <<stream, main>>
    /\ MainRest /\ UNCHANGED <<dialogue, micVars, flagVars, echoVars, bye, cloud>>
Exit ==
    /\ main = "connect" /\ ~running
    /\ dialogue' = FALSE /\ Go(IF dialogue THEN "vad" ELSE "off")
    /\ MainRest /\ UNCHANGED <<stream, micVars, flagVars, echoVars, bye, cloud>>

(* The top of the loop: the microphone follows s_dialogue_active, but for  *)
(* a fast path, which gives it back itself.                                *)
MicWanted_Mut == dialogue /\ ~mic      \* also while the fast path has it closed
MicWanted == dialogue /\ ~mic /\ ~fast
Turn ==
    /\ main = "turn"
    /\ CASE ~running -> Go("cleanup") /\ UNCHANGED <<wk, micVars>>
         [] running /\ MicWanted ->
              /\ wk' = [wk EXCEPT !.run = FALSE]          \* wakeup_detector_stop
              /\ Go(IF wk.run THEN "wait" ELSE "open") /\ UNCHANGED micVars
         [] running /\ ~dialogue /\ mic -> CloseMic /\ Go("vad") /\ UNCHANGED wk
         [] OTHER -> Go("hear") /\ UNCHANGED <<wk, micVars>>
    /\ UNCHANGED <<othersVars, stream, dialogue, flagVars, echoVars, bye, cloud>>
Waited ==
    /\ main = "wait" /\ CanGoOn /\ Go("open")
    /\ MainRest /\ UNCHANGED <<stream, dialogue, micVars, flagVars, echoVars, bye, cloud>>

(* A microphone that cannot be opened ends the dialogue. *)
Open ==
    /\ main = "open"
    /\ \/ OpenMic /\ Go("hear") /\ UNCHANGED dialogue
       \/ MicFails /\ dialogue' = FALSE /\ Go("vad")
    /\ MainRest /\ UNCHANGED <<stream, flagVars, bye, cloud>>

(* va_maybe_start_wakeup looks at the suspend flag, then starts. *)
Vad ==
    \/ /\ main = "vad"
       /\ Go(IF ~suspended THEN "start" ELSE IF stream THEN "turn" ELSE "connect") /\ UNCHANGED wk
    \/ /\ main = "start" /\ CanStart
       /\ StartDetector /\ Go(IF stream THEN "turn" ELSE "connect")
VadStep == Vad /\ UNCHANGED <<othersVars, stream, dialogue, micVars, flagVars, echoVars, bye, cloud>>

(* The echo of the agent's voice and of the cloud's; a microphone that     *)
(* fails and a broken line end the connection.                             *)
Settle(echo) == IF echo = "settling" THEN {"settling", "off"} ELSE {echo}
Hear ==
    /\ main = "hear"
    /\ IF speaking
       THEN /\ ttsEcho' = "on"
            /\ heard' = (heard \/ fast) /\ ended' = (ended /\ ~fast)
       ELSE /\ ttsEcho' \in (IF ttsEcho = "on" THEN {"settling"} ELSE Settle(ttsEcho))
            /\ ended' = (ended \/ (ttsEcho = "on" /\ fast /\ heard)) /\ UNCHANGED heard
    /\ omniEcho' \in Settle(omniEcho)
    /\ Go("event") \/ ("line" \in Faults /\ Go("cleanup"))
    /\ MainRest /\ UNCHANGED <<stream, dialogue, micVars, fast, response, bye, cloud>>

(* process_dashscope_event: of a reply the first event, its audio and the  *)
(* last.  A reply that comes while the agent speaks is an echo.            *)
Reply ==
    \/ /\ cloud = "idle" /\ cloud' = "replying"
       /\ IF fast \/ speaking THEN UNCHANGED <<response, omniEcho>>
          ELSE response' = TRUE /\ omniEcho' = "on"
    \/ /\ cloud = "replying" /\ UNCHANGED <<cloud, response>>
       /\ omniEcho' = IF fast THEN omniEcho ELSE "on"
    \/ /\ cloud = "replying" /\ cloud' = "idle" /\ response' = FALSE
       /\ omniEcho' = IF ~fast /\ omniEcho = "on" THEN "settling" ELSE omniEcho

(* What the user said (on_dashscope_vad_event) is taken unless it may be   *)
(* the agent's own voice.  An intent for Feishu silences the cloud, closes *)
(* the microphone and asks the agent, whose queue may be full.             *)
Said == mic /\ ~fast /\ ~speaking
FastPath ==
    /\ Said
    /\ fast' = TRUE /\ heard' = FALSE /\ ended' = FALSE
    /\ response' = FALSE /\ omniEcho' = "off"
    /\ CloseMic
    /\ agent' \in {IF agent = "idle" THEN "asked" ELSE agent}
                     \cup (IF "push" \in Faults THEN {agent} ELSE {})
    /\ UNCHANGED bye
Farewell == Said /\ dialogue /\ bye' = TRUE /\ UNCHANGED <<micVars, flagVars, response, omniEcho, agent>>

(* While listening is suspended, what the cloud still sends is dropped. *)
HandleEvent ==
    /\ main = "event" /\ Go("timers")
    /\ \/ ~suspended /\ Reply /\ UNCHANGED <<micVars, flagVars, bye, agent>>
       \/ ~suspended /\ (FastPath \/ Farewell) /\ UNCHANGED cloud
       \/ UNCHANGED <<micVars, flagVars, response, omniEcho, bye, agent, cloud>>
    /\ UNCHANGED <<running, suspended, speaking, page, ui, netVars, events, wk, stream, dialogue, ttsEcho>>

(* The time-outs, in the order of the loop.  Silence is told to the user   *)
(* before the wake-word detector starts.                                   *)
Voiceless == ~speaking /\ ttsEcho = "off"
Silence == dialogue /\ ~fast /\ ~response /\ Voiceless /\ EndDialogue /\ Go("told") /\ UNCHANGED bye
Told == main = "told" /\ Go("vad") /\ MainRest
            /\ UNCHANGED <<stream, dialogue, micVars, flagVars, echoVars, bye, cloud>>

(* A fast path ends when the answer was spoken, five seconds after that if *)
(* a response keeps it, and in any case after thirty seconds.              *)
Release_Mut ==   \* only when the answer was spoken
    /\ fast /\ heard /\ Voiceless /\ (~response \/ ended)
    /\ NoFast /\ Go("reopen")
    /\ UNCHANGED <<dialogue, micVars, echoVars, bye>>
Release ==
    /\ fast
    /\ \/ heard /\ Voiceless /\ (~response \/ ended)
       \/ dialogue
    /\ NoFast /\ Go("reopen")
    /\ UNCHANGED <<dialogue, micVars, echoVars, bye>>

ByeNow == bye /\ omniEcho = "off" /\ ~response
Leave == ByeNow /\ bye' = FALSE /\ EndDialogue /\ Go("vad")

(* The watchdog of a response without audio. *)
Stall ==
    /\ dialogue /\ response /\ Quiet /\ Go("turn")
    /\ UNCHANGED <<dialogue, micVars, flagVars, bye>>

NoTimer ==
    /\ (~ByeNow /\ Go("turn")) \/ ("line" \in Faults /\ Go("cleanup"))
    /\ UNCHANGED <<dialogue, micVars, flagVars, echoVars, bye>>

Timers(timer) == main = "timers" /\ timer /\ MainRest /\ UNCHANGED <<stream, cloud>>

Reopen ==
    /\ main = "reopen"
    /\ \/ dialogue /\ ~mic /\ OpenMic /\ Go("turn") /\ UNCHANGED dialogue
       \/ dialogue /\ ~mic /\ MicFails /\ dialogue' = FALSE /\ Go("vad")
       \/ ~(dialogue /\ ~mic) /\ Go("turn") /\ UNCHANGED <<dialogue, micVars, echoVars>>
    /\ MainRest /\ UNCHANGED <<stream, flagVars, bye, cloud>>

(* The end of a connection ends the dialogue, and its fast path with it. *)
Cleanup ==
    /\ main = "cleanup"
    /\ Quiet /\ CloseMic /\ stream' = FALSE /\ cloud' = "idle"
    /\ IF dialogue
       THEN dialogue' = FALSE /\ (IF fast THEN NoFast ELSE UNCHANGED flagVars) /\ Go("vad")
       ELSE UNCHANGED <<dialogue, flagVars>> /\ Go("connect")
    /\ MainRest /\ UNCHANGED bye

TimeOut == Timers(Silence \/ Release)
MainStep == Connect \/ Exit \/ Turn \/ Waited \/ Open \/ VadStep \/ Hear \/ HandleEvent \/ TimeOut
              \/ Timers(Leave \/ Stall \/ NoTimer) \/ Told \/ Reopen \/ Cleanup

----------------------------------------------------------------------------
(* The agent's thread. *)

agentRest == <<running, main, stream, suspended, bye, cloud, wk, page, ui, netVars>>

Speak ==
    /\ \/ agent = "asked" /\ UNCHANGED events
       \/ agent = "idle" /\ Event
    /\ agent' = "speak" /\ speaking' = TRUE
    /\ UNCHANGED <<agentRest, dialogue, micVars, flagVars, echoVars>>
Spoken ==
    /\ agent = "speak" /\ agent' = "idle" /\ speaking' = FALSE
    /\ UNCHANGED <<agentRest, dialogue, micVars, flagVars, echoVars, events>>
Unanswered ==
    /\ agent = "asked" /\ agent' = "idle"
    /\ UNCHANGED <<agentRest, speaking, dialogue, micVars, flagVars, echoVars, events>>

(* voice_assistant_reset_feishu_fast_path *)
Reset ==
    /\ Resets /\ agent = "asked"
    /\ NoFast /\ agent' = IF fast /\ dialogue /\ ~mic THEN "reopen" ELSE "idle"
    /\ UNCHANGED <<agentRest, speaking, dialogue, micVars, echoVars, events>>
AgentReopen ==
    /\ agent = "reopen" /\ agent' = "idle" /\ OpenMic
    /\ UNCHANGED <<agentRest, speaking, dialogue, flagVars, events>>

AgentStep == Spoken \/ (agent = "asked" /\ Speak) \/ Unanswered \/ Reset \/ AgentReopen

----------------------------------------------------------------------------
(* The AI page.  Its creation starts what is not running, ends a dialogue, *)
(* resumes listening and starts the wake-word detector.                    *)

(* voice_assistant_start *)
Start ==
    /\ main = "off" \/ running
    /\ running' = TRUE
    /\ IF running THEN UNCHANGED <<main, mic>> ELSE Go("connect") /\ mic' = FALSE

(* The user does not open the page while a loss of the network is handled. *)
OpenPage ==
    /\ page = "none" /\ ui = "free" /\ monitor \notin {"stop", "join"} /\ Event
    /\ Start
    /\ dialogue' = FALSE /\ suspended' = FALSE /\ ui' = "vad"
    /\ UNCHANGED <<stream, recorders, flagVars, echoVars, bye, cloud, agent, speaking, wk, page, netVars>>
PageOpened ==
    /\ ui = "vad" /\ CanStart /\ StartDetector
    /\ page' = "alive" /\ ui' = "free"
    /\ UNCHANGED <<mainVars, agent, speaking, netVars, events>>

(* The gesture to leave is refused while voice_assistant_is_exit_blocked;  *)
(* ai_deinit_thread then resets the fast path, suspends listening and      *)
(* waits for the detector.                                                 *)
LeavePage ==
    /\ page = "alive" /\ ~fast /\ ~response /\ omniEcho = "off"
    /\ page' = "leaving"
    /\ UNCHANGED <<mainVars, agent, speaking, wk, ui, netVars, events>>
LeaveReset ==
    /\ page = "leaving" /\ (fast => Resets)
    /\ NoFast /\ page' = IF fast /\ dialogue /\ ~mic THEN "reopen" ELSE "suspend"
    /\ UNCHANGED <<running, main, stream, dialogue, suspended, micVars, echoVars, bye, cloud, agent,
                   speaking, wk, ui, netVars, events>>
LeaveReopen ==
    /\ page = "reopen" /\ page' = "suspend" /\ OpenMic
    /\ UNCHANGED <<running, main, stream, dialogue, suspended, flagVars, bye, cloud, agent, speaking,
                   wk, ui, netVars, events>>

(* voice_assistant_suspend_listening *)
Suspend ==
    /\ page = "suspend"
    /\ suspended' = TRUE /\ dialogue' = FALSE
    /\ wk' = [wk EXCEPT !.run = FALSE] /\ page' = IF wk.run THEN "wait" ELSE "clear"
    /\ UNCHANGED <<running, main, stream, micVars, flagVars, echoVars, bye, cloud, agent, speaking,
                   ui, netVars, events>>
Suspended ==
    /\ page = "clear" \/ (page = "wait" /\ CanGoOn)
    /\ Quiet /\ NoFast /\ bye' = FALSE /\ page' = "none"
    /\ UNCHANGED <<running, main, stream, dialogue, suspended, micVars, cloud, agent, speaking, wk,
                   ui, netVars, events>>

PageStep == PageOpened \/ LeaveReset \/ LeaveReopen \/ Suspend \/ Suspended

----------------------------------------------------------------------------
(* The network monitor: network_monitor_timer_cb. *)

monitorRest == <<stream, suspended, recorders, echoVars, cloud, agent, speaking, page, ui, wifi>>

Wifi == /\ Event /\ wifi' = ~wifi
        /\ UNCHANGED <<mainVars, agent, speaking, wk, page, ui, ready, monitor>>

(* on_network_ready waits for the handler of the last loss. *)
NetworkReady ==
    /\ wifi /\ ~ready /\ monitor = "off"
    /\ ready' = TRUE /\ Start
    /\ dialogue' = (dialogue /\ running)
    /\ UNCHANGED <<monitorRest, flagVars, bye, wk, monitor, events>>

(* on_network_disconnected, and the thread it creates. *)
NetworkLost ==
    /\ ~wifi /\ ready /\ monitor = "off"
    /\ ready' = FALSE /\ monitor' = "stop"
    /\ UNCHANGED <<monitorRest, running, main, dialogue, mic, flagVars, bye, wk, events>>

(* voice_assistant_stop: the flag, the join, and the flags that are left. *)
Stop ==
    /\ monitor = "stop" /\ running' = FALSE
    /\ monitor' = IF running THEN "join" ELSE "vad"
    /\ UNCHANGED <<monitorRest, main, dialogue, mic, flagVars, bye, ready, wk, events>>
Joined ==
    /\ monitor = "join" /\ main = "off"
    /\ dialogue' = FALSE /\ bye' = FALSE /\ NoFast
    /\ monitor' = "vad"
    /\ UNCHANGED <<monitorRest, running, main, mic, ready, wk, events>>
RestartVad ==
    /\ \/ /\ monitor = "vad" /\ UNCHANGED wk
          /\ monitor' = IF suspended \/ wk.run THEN "off" ELSE "start"
       \/ monitor = "start" /\ CanStart /\ StartDetector /\ monitor' = "off"
    /\ UNCHANGED <<monitorRest, running, main, dialogue, mic, flagVars, bye, ready, events>>

MonitorStep == NetworkReady \/ NetworkLost \/ Stop \/ Joined \/ RestartVad

Next == \/ WkStep \/ WakeWord \/ MainStep \/ AgentStep \/ Speak
        \/ OpenPage \/ LeavePage \/ PageStep \/ Wifi \/ MonitorStep

----------------------------------------------------------------------------
TypeOK ==
    /\ {running, stream, dialogue, suspended, mic, fast, heard, ended, response, bye, speaking,
        wifi, ready} \subseteq BOOLEAN
    /\ main \in {"off", "connect", "turn", "wait", "open", "vad", "start", "hear", "event", "timers",
                 "told", "reopen", "cleanup"}
    /\ recorders \in Nat /\ {omniEcho, ttsEcho} \subseteq {"off", "on", "settling"}
    /\ cloud \in {"idle", "replying"} /\ agent \in {"idle", "asked", "speak", "reopen"}
    /\ wk \in [run : BOOLEAN, pc : {"off", "open", "listen", "greet", "prompt", "close"}, rec : BOOLEAN]
    /\ page \in {"none", "alive", "leaving", "reopen", "suspend", "wait", "clear"} /\ ui \in {"free", "vad"}
    /\ monitor \in {"off", "stop", "join", "vad", "start"} /\ events \in 0..MaxEvents

(* While the agent works for a fast path, the cloud microphone is closed:  *)
(* neither the top of the loop nor a time-out opens it beside the fast     *)
(* path (dashscope_thread, on_dashscope_vad_event).                        *)
ClosedInFastPath == fast => ~mic

(* The recorder that s_recorder holds is the only one that is open: no     *)
(* path opens a second one or loses the handle of the first.               *)
OneRecorder == recorders = IF mic THEN 1 ELSE 0

(* When voice_assistant_stop has joined the main thread, nothing of it is  *)
(* left: no stream, no microphone, no response, no fast path to release.   *)
StoppedIsClean ==
    ~running /\ monitor \in {"vad", "start"} =>
        main = "off" /\ ~stream /\ recorders = 0 /\ ~response /\ ~fast /\ ~bye

(* A dialogue gets its microphone, or ends: no fast path, lost line or     *)
(* failure leaves the user talking to nobody for ever.                     *)
Waiting == dialogue /\ ~mic /\ running
DialogueHasMic == Waiting ~> ~Waiting
=============================================================================
