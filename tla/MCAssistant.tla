----------------------------- MODULE MCAssistant -----------------------------
(***************************************************************************)
(* The TLC instance of what the user talks to and sees on the board: the   *)
(* voice assistant, the analysis of photos, the documents they are written *)
(* to, the Feishu conversation, the meeting page, telephone calls and the  *)
(* WiFi page.  A behaviour follows the component that focus names; the     *)
(* others stay in their initial states.                                    *)
(***************************************************************************)
EXTENDS Naturals, Sequences, FiniteSets

VARIABLES focus,
          running, main, stream, dialogue, suspended, mic, recorders, fast, heard, ended, response,
          omniEcho, ttsEcho, bye, cloud, agent, speaking, wk, page, ui, wifi, ready, monitor, events,
          st, data, sending, conn, vad, imgCloud, imgMain, using, imgResponse, imgDialogue,
          imgSuspended, imgUi, imgPage, busy, imgChat, opened, imgPhoto, photos, imgUpload, reply,
          visiting, gen, threads, docActive, silent, skip, photo, started, round, chat, upload,
          pending, written, total,
          up, linked, mode, convChat, leaving, toAsr, toOmni, convCloud, polling, created, need,
          pollers, convPage, reading, hired, workers, ring, recent, convPosted, seen, spoken, enters,
          meetUi, rec2, warm, asr, audio, results, posted, text, saved,
          booted, line, file, last, rings, active, going, incoming, calling, pages, deleted,
          wifiPage, calls, list, scanning, modal, user, auto, failures, radio, link, wifiSaved,
          selected, handle, clients, visits, scans, connects, drops

(* Every fault of the assistant; events enough for a dialogue, the page    *)
(* and a change of the network between them.                               *)
V == INSTANCE VoiceAssistant WITH
       Faults <- {"connect", "line", "mic", "push"}, Resets <- FALSE, MaxEvents <- 3

(* A photo after another. *)
I == INSTANCE ImageAnalysis WITH
       MaxPhotos <- 2, Faults <- {"line", "server", "stall", "upload", "read"}, SlowLine <- FALSE,
       cloud <- imgCloud, main <- imgMain, response <- imgResponse, dialogue <- imgDialogue,
       suspended <- imgSuspended, ui <- imgUi, page <- imgPage, chat <- imgChat,
       photo <- imgPhoto, upload <- imgUpload

(* Two visits, so that the thread of the first may end in the second. *)
D == INSTANCE PhotoDocument WITH
       MaxVisits <- 2, MaxPhotos <- 1, MaxReplies <- 2, Spoken <- 9, active <- docActive

(* A ring that overflows, a message of the device among others. *)
F == INSTANCE FeishuConversation WITH
       MaxMsgs <- 3, MaxEnters <- 1, QueueLen <- 1, Ours <- {2}, Late <- FALSE,
       chat <- convChat, cloud <- convCloud, page <- convPage, posted <- convPosted

(* Two meetings, more blocks than are kept, a pause. *)
M == INSTANCE Meeting WITH
       MaxMeetings <- 2, MaxSegs <- 2, MaxBlocks <- 3, MaxBacklog <- 2, MaxResults <- 2,
       Faults <- {"rec2", "line"}, Calls <- FALSE, ui <- meetUi

(* A user who does not answer within the 300 ms of an animation. *)
T == INSTANCE PhoneCalls WITH MaxCalls <- 2, MaxPages <- 6, Quick <- FALSE

(* Two passwords entered, a link that is lost, a driver that is stuck and reset. *)
W == INSTANCE WifiPage WITH
       Ssids <- {"home", "cafe"}, MaxSaved <- 1, FailLimit <- 1, MaxVisits <- 1, MaxScans <- 1,
       MaxConnects <- 2, MaxDrops <- 2, Faults <- {}, page <- wifiPage, saved <- wifiSaved

assistantVars == <<running, main, stream, dialogue, suspended, mic, recorders, fast, heard, ended,
                   response, omniEcho, ttsEcho, bye, cloud, agent, speaking, wk, page, ui, wifi,
                   ready, monitor, events>>
imageVars == <<st, data, sending, conn, vad, imgCloud, imgMain, using, imgResponse, imgDialogue,
               imgSuspended, imgUi, imgPage, busy, imgChat, opened, imgPhoto, photos, imgUpload,
               reply>>
documentVars == <<visiting, gen, threads, docActive, silent, skip, photo, started, round, chat,
                  upload, pending, written, total>>
conversationVars == <<up, linked, mode, convChat, leaving, toAsr, toOmni, convCloud, polling,
                      created, need, pollers, convPage, reading, hired, workers, ring, recent,
                      convPosted, seen, spoken, enters>>
meetingVars == <<meetUi, rec2, warm, asr, audio, results, posted, text, saved>>
callVars == <<booted, line, file, last, rings, active, going, incoming, calling, pages, deleted>>
wifiVars == <<wifiPage, calls, list, scanning, modal, user, auto, failures, radio, link, wifiSaved,
              selected, handle, clients, visits, scans, connects, drops>>
vars == <<focus, assistantVars, imageVars, documentVars, conversationVars, meetingVars, callVars,
          wifiVars>>

Init == /\ focus \in {"assistant", "image", "document", "conversation", "meeting", "call", "wifi"}
        /\ V!Init /\ I!Init /\ D!Init /\ F!Init /\ M!Init /\ T!Init /\ W!Init

Assistant(Step) == /\ focus = "assistant" /\ Step
                   /\ UNCHANGED <<focus, imageVars, documentVars, conversationVars, meetingVars,
                                  callVars, wifiVars>>
Image(Step) == /\ focus = "image" /\ Step
               /\ UNCHANGED <<focus, assistantVars, documentVars, conversationVars, meetingVars,
                              callVars, wifiVars>>
Document(Step) == /\ focus = "document" /\ Step
                  /\ UNCHANGED <<focus, assistantVars, imageVars, conversationVars, meetingVars,
                                 callVars, wifiVars>>
Conversation(Step) == /\ focus = "conversation" /\ Step
                      /\ UNCHANGED <<focus, assistantVars, imageVars, documentVars, meetingVars,
                                     callVars, wifiVars>>
InMeeting(Step) == /\ focus = "meeting" /\ Step
                   /\ UNCHANGED <<focus, assistantVars, imageVars, documentVars, conversationVars,
                                  callVars, wifiVars>>
Call(Step) == /\ focus = "call" /\ Step
              /\ UNCHANGED <<focus, assistantVars, imageVars, documentVars, conversationVars,
                             meetingVars, wifiVars>>
Wifi(Step) == /\ focus = "wifi" /\ Step
              /\ UNCHANGED <<focus, assistantVars, imageVars, documentVars, conversationVars,
                             meetingVars, callVars>>

Next == \/ Assistant(V!Next) \/ Image(I!Next) \/ Document(D!Next) \/ Conversation(F!Next)
        \/ InMeeting(M!Next) \/ Call(T!Next) \/ Wifi(W!Next)

(* The threads of each component are scheduled; users, the network, calls  *)
(* and faults need not come.  As one component steps in a behaviour, a     *)
(* fairness condition stands for one thread of each.                       *)
First == Assistant(V!MainStep) \/ Image(I!MainStep) \/ Conversation(F!MainStep)
            \/ InMeeting(M!UiStep) \/ Call(T!UiStep) \/ Wifi(W!UserStep)
Second == Assistant(V!WkStep) \/ Image(I!UiStep)
            \/ Conversation(\E t \in F!Threads : F!SpeakStep(t)) \/ InMeeting(M!Warmed)
            \/ Wifi(W!AutoStep)
Third == Assistant(V!AgentStep) \/ Image(I!CloudStep)
            \/ InMeeting(\E m \in M!Meetings : M!AsrStep(m)) \/ Wifi(W!Scanned)
Fourth == Assistant(V!PageStep) \/ Wifi(W!Associate)
Fifth == Assistant(V!MonitorStep)

(* A time-out that stays armed comes, and a connection that is tried again *)
(* and again is made.                                                      *)
Spec == /\ Init /\ [][Next]_vars
        /\ WF_vars(First) /\ WF_vars(Second) /\ WF_vars(Third) /\ WF_vars(Fourth) /\ WF_vars(Fifth)
        /\ SF_vars(Assistant(V!TimeOut)) /\ SF_vars(Assistant(V!Connect))

(* Each component keeps to its types. *)
TypesOK == V!TypeOK /\ I!TypeOK /\ D!TypeOK /\ F!TypeOK /\ M!TypeOK /\ T!TypeOK /\ W!TypeOK

(* The microphones and the photo in memory have one owner: the cloud's     *)
(* recorder and the fast path of the assistant, the second recorder of a   *)
(* meeting, the buffer of an analysis; and so have the DHCP lease, which   *)
(* one client renews, and the list that a scan fills.                      *)
OwnedOnce == /\ V!ClosedInFastPath /\ V!OneRecorder /\ M!RecorderAlive /\ I!BufferFollowsState
             /\ W!OneRenewal /\ W!ListAlive

(* What was stopped or left leaves nothing to what comes next: no thread   *)
(* of the assistant, no message of a conversation, no document of another  *)
(* visit, no text of another meeting, no screen of another call, no        *)
(* password that was wrong and no name of a network that is not linked.    *)
NothingLeftBehind == /\ V!StoppedIsClean /\ F!QuietAfterStop /\ D!DocOfThisVisit /\ M!SavedIsOwn
                     /\ T!ScreenAlive /\ T!NoGhostCall /\ W!SavedWorks /\ W!ShownIsLinked

(* What is sent, recorded, read out and written stays in order and whole.  *)
OnceAndInOrder == M!AudioInOrder /\ M!SegmentsKept /\ F!SpokenInOrder /\ D!RoundsOnce

(* Nobody waits for ever: a dialogue gets its microphone or ends, an       *)
(* analysis, a conversation that was left and a meeting end, a call that   *)
(* changed is shown, and a board that knows a network is linked again.     *)
AssistantEnds ==
    LET Waiting == V!Waiting \/ I!Waiting \/ F!Waiting \/ M!Waiting \/ T!Waiting
                     \/ W!Waiting
    IN Waiting ~> ~Waiting
=============================================================================
