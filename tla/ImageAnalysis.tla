---------------------------- MODULE ImageAnalysis ----------------------------
(***************************************************************************)
(* The analysis of a photo by the cloud: the state machine s_img_ctx of    *)
(* voice_assistant.c between the LVGL thread, which queues a photo from    *)
(* the buttons of the camera page, and the main thread, which sends it     *)
(* over the connection of the dialogue; camera_ai_page.c shows the answer  *)
(* and then opens a dialogue about it.  A photo is its number, 0 is none.  *)
(* The cloud (external) answers what it was sent, or reports an error.     *)
(***************************************************************************)
EXTENDS Naturals

CONSTANTS
    MaxPhotos,   \* bound on the photos taken
    Faults,      \* what may fail: subset of {"line", "server", "stall", "upload", "read"}
    SlowLine     \* may a photo be retaken and asked about before the last one is sent?

VARIABLES
    st, data, sending,       \* s_img_ctx.state and .data; s_img_sending, which mutes the microphone
    conn, vad, cloud,        \* s_asr_stream; who ends an utterance, the cloud or commits; what the cloud works on
    main, using,             \* the main thread; the buffer it is sending from
    response, dialogue, suspended, \* s_response_active, s_dialogue_active, s_listening_suspended
    ui, page,                \* the LVGL thread; the screen
    busy, chat, opened,      \* cam_busy, cam_ai_chat_active, g_cai_mic_opened
    photo, photos,           \* cam_big_filename; the photos taken
    upload, reply            \* cam_feishu_thread and what it posts; a posted cai_on_ai_reply

contextVars == <<st, data, sending>>
lineVars == <<conn, vad, cloud>>
talkVars == <<response, dialogue, suspended>>
pageVars == <<page, busy, chat, opened, photo, photos>>
vars == <<contextVars, lineVars, main, using, talkVars, ui, pageVars, upload, reply>>

Init ==
    /\ st = "idle" /\ data = 0 /\ sending = FALSE
    /\ conn = FALSE /\ vad = "server" /\ cloud = "idle"
    /\ main = "loop" /\ using = 0
    /\ response = FALSE /\ dialogue = FALSE /\ suspended = FALSE
    /\ ui = "free" /\ page = "menu" /\ busy = FALSE /\ chat = FALSE /\ opened = FALSE
    /\ photo = 0 /\ photos = 0 /\ upload = "none" /\ reply = FALSE

Working == st \in {"queued", "sending", "committing", "waiting"}

(* What every end of an analysis does: the buffer is freed, the microphone *)
(* is heard again.                                                         *)
Clear(state) == st' = state /\ data' = 0 /\ sending' = FALSE

----------------------------------------------------------------------------
(* The LVGL thread. *)

UiRest == UNCHANGED <<lineVars, main, using>>

(* cam_screen_load_cb, which resets the page unless cam_busy is set.       *)
EnterCamera ==
    /\ ui = "free" /\ page = "menu" /\ page' = "camera"
    /\ IF busy THEN UNCHANGED <<photo, talkVars>>
       ELSE photo' = 0 /\ suspended' = TRUE /\ dialogue' = FALSE /\ response' = FALSE
    /\ UiRest /\ UNCHANGED <<contextVars, ui, busy, chat, opened, photos, upload, reply>>

(* destroy_camera_ai_page *)
DestroyChat ==
    /\ chat' = FALSE /\ opened' = FALSE
    /\ IF chat THEN suspended' = TRUE /\ dialogue' = FALSE /\ response' = FALSE
       ELSE UNCHANGED talkVars

(* cam_capture_btn_cb, and the transfer of the photo. *)
Capture ==
    /\ ui = "free" /\ page = "camera" /\ ~busy /\ photos < MaxPhotos
    /\ photos' = photos + 1 /\ photo' = photos'
    /\ DestroyChat
    /\ UiRest /\ UNCHANGED <<contextVars, ui, page, busy, upload, reply>>

(* cam_ai_btn_cb: an analysis that is left from before is thrown away and  *)
(* the user asked to try again; otherwise the state is taken, and then the *)
(* file read (voice_assistant_analyze_image).                              *)
AskAi == ui = "free" /\ page = "camera" /\ ~busy /\ ~chat /\ photo # 0 /\ conn
ResetImage ==
    /\ AskAi /\ st # "idle" /\ (SlowLine \/ main = "loop")
    /\ Clear("idle")
    /\ UiRest /\ UNCHANGED <<talkVars, ui, pageVars, upload, reply>>
Analyze ==
    /\ AskAi /\ st = "idle"
    /\ st' = "queued" /\ busy' = TRUE /\ ui' = "read"
    /\ UiRest
    /\ UNCHANGED <<data, sending, talkVars, page, chat, opened, photo, photos, upload, reply>>

(* A file that cannot be read gives the state back, and only that; a photo *)
(* that is queued is shown on the chat page, and uploaded to Feishu when   *)
(* no document is active.                                                  *)
ReadFails ==
    /\ ui \in {"read", "again"} /\ (photo = 0 \/ "read" \in Faults)
    /\ st' = "idle" /\ busy' = FALSE /\ ui' = "free"
    /\ UiRest
    /\ UNCHANGED <<data, sending, talkVars, page, chat, opened, photo, photos, upload, reply>>
Queue ==
    /\ ui \in {"read", "again"} /\ photo # 0
    /\ data' = photo /\ st' = "queued" /\ ui' = "free"
    /\ IF ui = "read"
       THEN /\ page' = "ai" /\ chat' = TRUE /\ opened' = FALSE
            /\ upload' \in {upload} \cup (IF upload = "none" THEN {"run"} ELSE {})
       ELSE UNCHANGED <<page, chat, opened, upload>>
    /\ UiRest /\ UNCHANGED <<sending, talkVars, busy, photo, photos, reply>>

(* cam_feishu_thread, and cam_feishu_done_cb, which asks for the analysis  *)
(* once more.                                                              *)
Uploaded ==
    /\ upload = "run"
    /\ upload' \in {"ok"} \cup (IF "upload" \in Faults THEN {"failed"} ELSE {})
    /\ UiRest /\ UNCHANGED <<contextVars, talkVars, ui, pageVars, reply>>
UploadDone ==
    /\ ui = "free" /\ upload \in {"ok", "failed"} /\ upload' = "none"
    /\ IF upload = "ok" /\ conn /\ st = "idle"
       THEN st' = "queued" /\ ui' = "again" /\ UNCHANGED busy
       ELSE busy' = FALSE /\ UNCHANGED <<st, ui>>
    /\ UiRest /\ UNCHANGED <<data, sending, talkVars, page, chat, opened, photo, photos, reply>>

(* cai_on_ai_reply: the first answer opens the dialogue. *)
FirstReply ==
    /\ ui = "free" /\ reply /\ reply' = FALSE
    /\ IF chat /\ ~opened
       THEN opened' = TRUE /\ suspended' = FALSE /\ dialogue' = TRUE
       ELSE UNCHANGED <<opened, suspended, dialogue>>
    /\ UiRest /\ UNCHANGED <<contextVars, response, ui, page, busy, chat, photo, photos, upload>>

(* The gestures: back from the chat, to it again, and to the menu, which   *)
(* is refused while the cloud speaks in a chat.                            *)
Swipe ==
    /\ ui = "free"
    /\ \/ page = "ai" /\ page' = "camera" /\ busy' = FALSE /\ UNCHANGED <<chat, opened, talkVars>>
       \/ page = "camera" /\ chat /\ page' = "ai" /\ UNCHANGED <<busy, chat, opened, talkVars>>
       \/ page = "camera" /\ ~(chat /\ response) /\ page' = "menu" /\ DestroyChat /\ UNCHANGED busy
    /\ UiRest /\ UNCHANGED <<contextVars, ui, photo, photos, upload, reply>>

----------------------------------------------------------------------------
(* The main thread. *)

MainRest == UNCHANGED <<ui, pageVars, upload>>

(* The loop takes what is queued, whether its data is there or not; what   *)
(* the LVGL thread has changed meanwhile is left alone.                    *)
Take ==
    /\ main = "loop" /\ conn /\ st = "queued"
    /\ st' = "sending" /\ sending' = TRUE /\ main' = "vad"
    /\ MainRest /\ UNCHANGED <<data, lineVars, using, talkVars, reply>>

(* do_image_send_and_commit: no detection of speech from here on, some     *)
(* silence, the photo, the commit.                                         *)
DisableVad ==
    /\ main = "vad"
    /\ IF sending /\ st = "sending"
       THEN vad' = "manual" /\ using' = data /\ main' = "image"
       ELSE main' = "loop" /\ UNCHANGED <<vad, using>>
    /\ MainRest /\ UNCHANGED <<contextVars, conn, cloud, talkVars, reply>>
SendImage ==
    /\ main = "image" /\ using' = 0
    /\ \/ using # 0 /\ st' = "committing" /\ cloud' = "commit" /\ UNCHANGED <<data, sending>>
       \/ (using = 0 \/ "line" \in Faults) /\ Clear("error") /\ UNCHANGED cloud
    /\ main' = "loop"
    /\ MainRest /\ UNCHANGED <<conn, vad, talkVars, reply>>

(* input_audio_buffer.committed is answered by response.create. *)
Committed ==
    /\ main = "loop" /\ cloud = "commit" /\ cloud' = "idle"
    /\ main' = IF st = "committing" THEN "create" ELSE "loop"
    /\ MainRest /\ UNCHANGED <<contextVars, conn, vad, using, talkVars, reply>>
CreateResponse ==
    /\ main = "create" /\ main' = "loop"
    /\ \/ st' = "waiting" /\ cloud' = "asked" /\ UNCHANGED <<data, sending, vad>>
       \/ "line" \in Faults /\ Clear("error") /\ vad' = "server" /\ UNCHANGED cloud
    /\ MainRest /\ UNCHANGED <<conn, using, talkVars, reply>>

(* process_dashscope_event: what comes while listening is suspended is     *)
(* dropped, but for an analysis.  The user may also talk in the dialogue.  *)
Dropped == suspended /\ st \notin {"sending", "committing", "waiting"}
Talk ==
    /\ cloud = "idle" /\ dialogue /\ vad = "server" /\ ~sending /\ conn /\ cloud' = "asked"
    /\ MainRest /\ UNCHANGED <<contextVars, conn, vad, main, using, talkVars, reply>>
ResponseCreated ==
    /\ main = "loop" /\ cloud = "asked" /\ cloud' = "speaking"
    /\ response' = (response \/ ~Dropped)
    /\ MainRest /\ UNCHANGED <<contextVars, conn, vad, main, using, dialogue, suspended, reply>>
Transcript ==
    /\ main = "loop" /\ cloud = "speaking" /\ cloud' = "told"
    /\ reply' = (reply \/ (~Dropped /\ chat))
    /\ MainRest /\ UNCHANGED <<contextVars, conn, vad, main, using, talkVars>>
ResponseDone ==
    /\ main = "loop" /\ cloud = "told" /\ cloud' = "idle"
    /\ response' = (response /\ Dropped)
    /\ IF st = "waiting" THEN Clear("idle") /\ vad' = "server" ELSE UNCHANGED <<contextVars, vad>>
    /\ MainRest /\ UNCHANGED <<conn, main, using, dialogue, suspended, reply>>
ServerError ==
    /\ "server" \in Faults /\ main = "loop" /\ cloud # "idle" /\ cloud' = "idle"
    /\ IF st \in {"sending", "committing", "waiting"}
       THEN Clear("idle") /\ vad' = "server"
       ELSE UNCHANGED <<contextVars, vad>>
    /\ MainRest /\ UNCHANGED <<conn, main, using, talkVars, reply>>

(* The watchdog of a response without audio; silence ends a dialogue.      *)
Stall ==
    /\ "stall" \in Faults /\ main = "loop" /\ dialogue /\ response
    /\ response' = FALSE
    /\ IF st # "idle" THEN Clear("idle") ELSE UNCHANGED contextVars
    /\ cloud' = "idle"
    /\ MainRest /\ UNCHANGED <<conn, vad, main, using, dialogue, suspended, reply>>
Silence ==
    /\ main = "loop" /\ dialogue /\ ~response /\ dialogue' = FALSE
    /\ MainRest /\ UNCHANGED <<contextVars, lineVars, main, using, response, suspended, reply>>

(* The cleanup of a lost connection; a new session starts with the cloud's *)
(* detection of speech.  voice_assistant_stop resets what is left.         *)
Lost ==
    /\ main = "loop" /\ conn
    /\ conn' = FALSE /\ cloud' = "idle" /\ response' = FALSE /\ dialogue' = FALSE
    /\ IF st # "idle" THEN Clear("idle") ELSE UNCHANGED contextVars
    /\ MainRest /\ UNCHANGED <<vad, main, using, suspended, reply>>
Connect ==
    /\ main = "loop" /\ ~conn /\ conn' = TRUE /\ vad' = "server"
    /\ MainRest /\ UNCHANGED <<contextVars, cloud, main, using, talkVars, reply>>
Stop ==
    /\ ~conn /\ (st # "idle" \/ sending) /\ Clear("idle")
    /\ MainRest /\ UNCHANGED <<lineVars, main, using, talkVars, reply>>

UiStep == ReadFails \/ Queue \/ UploadDone \/ FirstReply
MainStep == Take \/ DisableVad \/ SendImage \/ CreateResponse
CloudStep == Committed \/ ResponseCreated \/ Transcript \/ ResponseDone \/ ServerError
Next == \/ UiStep \/ EnterCamera \/ Capture \/ ResetImage \/ Analyze \/ Swipe \/ Uploaded
        \/ MainStep \/ CloudStep \/ Talk \/ Stall \/ Silence \/ Lost \/ Connect \/ Stop

----------------------------------------------------------------------------
TypeOK ==
    /\ st \in {"idle", "queued", "sending", "committing", "waiting", "error"}
    /\ {data, using, photo, photos} \subseteq 0..MaxPhotos
    /\ {sending, conn, response, dialogue, suspended, busy, chat, opened, reply} \subseteq BOOLEAN
    /\ vad \in {"server", "manual"} /\ cloud \in {"idle", "commit", "asked", "speaking", "told"}
    /\ main \in {"loop", "vad", "image", "create"} /\ ui \in {"free", "read", "again"}
    /\ page \in {"menu", "camera", "ai"} /\ upload \in {"none", "run", "ok", "failed"}

(* No photo is left in memory after its analysis ended, however it ended,  *)
(* and none is freed under the thread that sends it (s_img_ctx.data is     *)
(* read without the lock).                                                 *)
BufferFollowsState ==
    /\ st \in {"idle", "error"} => data = 0
    /\ main = "image" /\ using # 0 => data = using

(* An analysis ends when the cloud answers, whatever the pages do.         *)
Waiting == Working /\ conn
AnalysisEnds == Waiting ~> ~Waiting
=============================================================================
