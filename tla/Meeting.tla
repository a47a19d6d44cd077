------------------------------ MODULE Meeting ------------------------------
(***************************************************************************)
(* The meeting page and its transcription: the LVGL thread that records a  *)
(* meeting in segments and puts them together at its end, the warm-up      *)
(* thread that opens a connection while the page still waits to be         *)
(* started, and one transcription thread per meeting, which reads a second *)
(* recorder, sends what it reads and, when the meeting is over, has the    *)
(* text summarised and saved.                                              *)
(*   - lvgldemo/meeting_page.c, meeting_asr.c, meeting_feishu_sync.c       *)
(* A block of audio is its number; a result of the cloud is its number     *)
(* too, and two successive results are two versions of one sentence.       *)
(***************************************************************************)
EXTENDS Naturals, Sequences

CONSTANTS MaxMeetings,   \* meetings started
          MaxSegs,       \* MEETING_MAX_SEGMENTS
          MaxBlocks,     \* blocks of audio of a meeting
          MaxBacklog,    \* ASR_BACKLOG_MAX_NODES
          MaxResults,    \* results of a meeting
          Faults,        \* those of "rec2", "resume", "line" that may happen
          Calls          \* whether a phone call may take the screen

VARIABLES ui,      \* the page and the LVGL thread
          rec2,    \* meeting_asr_recorder_handle: the meeting that opened it, 0 for NULL
          warm,    \* s_warm_valid and s_warm_connecting
          asr,     \* where each meeting's transcription thread is
          audio,   \* the newest thread's blocks: read, waiting, sent
          results, \* the results received in each meeting
          posted,  \* results posted to the LVGL thread
          text,    \* s_full_transcription, and current_asr_text (0 when empty)
          saved    \* the text saved of each meeting

vars == <<ui, rec2, warm, asr, audio, results, posted, text, saved>>

Meetings == 1..MaxMeetings
Sentence(r) == (r + 1) \div 2
Silence == [next |-> 1, back |-> <<>>, sent |-> <<>>]
NoText == [full |-> <<>>, current |-> 0]

TypeOK ==
    /\ ui \in [at : {"ready", "leaving", "closing", "joining"}, shown : BOOLEAN, leave : BOOLEAN,
               meeting : 0..MaxMeetings, recording : BOOLEAN, paused : BOOLEAN,
               running : BOOLEAN, played : BOOLEAN, stop : BOOLEAN, segs : 0..MaxSegs,
               wav : 0..MaxSegs, recorded : 0..MaxSegs]
    /\ rec2 \in 0..MaxMeetings
    /\ warm \in [valid : BOOLEAN, connecting : BOOLEAN]
    /\ asr \in [Meetings -> {"none", "connect", "wait", "cold", "run", "retry", "catchUp", "stream",
                             "results", "atEnd", "file", "check", "post", "summary", "save",
                             "done"}]
    /\ audio.next \in 1..MaxBlocks + 1
    /\ audio.back \in Seq(1..MaxBlocks) /\ audio.sent \in Seq(1..MaxBlocks)
    /\ results \in [Meetings -> 0..MaxResults]
    /\ posted \in Seq(Meetings \X (1..MaxResults))
    /\ text.full \in Seq(Meetings \X (1..MaxResults))
    /\ saved \in [Meetings -> Seq(Meetings \X (1..MaxResults))]

Init ==
    /\ ui = [at |-> "ready", shown |-> FALSE, leave |-> FALSE, meeting |-> 0,
             recording |-> FALSE, paused |-> FALSE, running |-> FALSE, played |-> FALSE,
             stop |-> FALSE, segs |-> 0, wav |-> 0, recorded |-> 0]
    /\ rec2 = 0
    /\ warm = [valid |-> FALSE, connecting |-> FALSE]
    /\ asr = [m \in Meetings |-> "none"]
    /\ audio = Silence
    /\ results = [m \in Meetings |-> 0]
    /\ posted = <<>>
    /\ text = NoText
    /\ saved = [m \in Meetings |-> <<>>]

Ready == ui.at = "ready"
Now == ui.meeting

-----------------------------------------------------------------------------
(* The LVGL thread.                                                        *)

(* Entering the page creates it and starts the warm-up thread, which does  *)
(* nothing beside a connection that is there or being made.  Each turn of  *)
(* the main loop runs what is posted; a user is turns slower.              *)
EnterPage ==
    /\ Ready /\ ~ui.shown /\ posted = <<>>
    /\ ui' = [ui EXCEPT !.shown = TRUE, !.played = FALSE]
    /\ warm' = IF warm.valid THEN warm ELSE [warm EXCEPT !.connecting = TRUE]
    /\ UNCHANGED <<rec2, asr, audio, results, posted, text, saved>>

(* Pressing play, once for a page: both recorders are opened, prepared and *)
(* started.  Without the second one the thread waits for the file.         *)
StartMeeting(second) ==
    LET m == Now + 1
    IN /\ Ready /\ ui.shown /\ ~ui.played /\ Now < MaxMeetings
       /\ second \/ "rec2" \in Faults
       /\ ui' = [ui EXCEPT !.meeting = m, !.recording = TRUE, !.paused = FALSE, !.running = TRUE,
                           !.played = TRUE, !.stop = FALSE, !.segs = 1, !.recorded = 1, !.wav = 0]
       /\ rec2' = IF second THEN m ELSE 0
       /\ asr' = [asr EXCEPT ![m] = IF second THEN "connect" ELSE "atEnd"]
       /\ audio' = Silence
       /\ text' = [text EXCEPT !.full = <<>>]
       /\ UNCHANGED <<warm, results, posted, saved>>

(* A pause ends the segment; resuming starts the next one, and a second    *)
(* recorder that cannot be prepared is closed.                             *)
Pause ==
    /\ Ready /\ ui.recording /\ ~ui.paused /\ ui.segs < MaxSegs
    /\ ui' = [ui EXCEPT !.paused = TRUE]
    /\ UNCHANGED <<rec2, warm, asr, audio, results, posted, text, saved>>

Resume ==
    /\ Ready /\ ui.recording /\ ui.paused
    /\ ui' = [ui EXCEPT !.paused = FALSE, !.segs = @ + 1, !.recorded = @ + 1]
    /\ rec2' \in {rec2} \cup (IF "resume" \in Faults THEN {0} ELSE {})
    /\ UNCHANGED <<warm, asr, audio, results, posted, text, saved>>

(* meeting_page_stop: a recorder whose thread has ended is closed here,    *)
(* one that is in use by the thread itself.                                *)
PageStop(leave) ==
    /\ ui' = [ui EXCEPT !.stop = TRUE, !.leave = leave, !.recording = FALSE,
                        !.paused = FALSE,
                        !.at = IF ui.recording THEN "closing" ELSE "joining"]
    /\ rec2' = IF ui.recording /\ ~ui.running THEN 0 ELSE rec2
    /\ UNCHANGED <<warm, asr, audio, results, posted, text, saved>>

EndMeeting ==
    /\ Ready /\ ui.shown /\ (ui.recording \/ (ui.running /\ ~ui.stop))
    /\ PageStop(FALSE)

(* The segments are written together into one file, while the page draws   *)
(* nothing and runs no posted callback.                                    *)
Concat ==
    /\ ui.at = "closing"
    /\ ui' = [ui EXCEPT !.at = "joining", !.wav = ui.segs, !.segs = 0]
    /\ UNCHANGED <<rec2, warm, asr, audio, results, posted, text, saved>>

(* Swiping away is refused while a meeting is recorded or transcribed; a   *)
(* call loads its own screen.  The unload handler says that no thread runs *)
(* and leaves the rest to a callback.                                      *)
LeavePage ==
    /\ Ready /\ ui.shown
    /\ Calls \/ (~ui.recording /\ ~ui.running)
    /\ ui' = [ui EXCEPT !.at = "leaving", !.shown = FALSE, !.running = FALSE]
    /\ UNCHANGED <<rec2, warm, asr, audio, results, posted, text, saved>>

CleanUp ==
    /\ ui.at = "leaving"
    /\ PageStop(TRUE)

(* The end of the stop; the page that goes gives back the connection that  *)
(* nobody took and forgets the last sentence.                              *)
Stopped ==
    /\ ui.at = "joining"
    /\ ui' = [ui EXCEPT !.at = "ready", !.leave = FALSE]
    /\ warm' = IF ui.leave THEN [warm EXCEPT !.valid = FALSE] ELSE warm
    /\ text' = IF ui.leave THEN [text EXCEPT !.current = 0] ELSE text
    /\ UNCHANGED <<rec2, asr, audio, results, posted, saved>>

(* A posted result replaces the last sentence or, being of another one,    *)
(* sends it to the end of the text.                                        *)
ShowResult ==
    /\ Ready /\ posted # <<>>
    /\ posted' = Tail(posted)
    /\ LET r == Head(posted)[2]
           same == text.current # 0 /\ Sentence(text.current) = Sentence(r)
       IN text' = IF ~ui.shown THEN text
                  ELSE [full |-> IF same \/ text.current = 0 THEN text.full
                                 ELSE Append(text.full, <<Head(posted)[1], text.current>>),
                        current |-> r]
    /\ UNCHANGED <<ui, rec2, warm, asr, audio, results, saved>>

UiStep == Concat \/ CleanUp \/ Stopped \/ ShowResult

-----------------------------------------------------------------------------
(* The warm-up thread: the connection it was started for is made or not.   *)
Warmed ==
    /\ warm.connecting
    /\ warm' \in {[valid |-> TRUE, connecting |-> FALSE], [valid |-> FALSE, connecting |-> FALSE]}
    /\ UNCHANGED <<ui, rec2, asr, audio, results, posted, text, saved>>

-----------------------------------------------------------------------------
(* The transcription thread of meeting m.                                  *)
At(m, pc) == asr[m] = pc
Go(m, pc) == asr' = [asr EXCEPT ![m] = pc]
Quiet == UNCHANGED <<ui, rec2, posted, results, text, saved>>

(* A block is read from the second recorder, unless the meeting is paused  *)
(* or over; the backlog keeps the newest blocks.                           *)
MayRead == ~ui.paused /\ ui.recording /\ audio.next <= MaxBlocks
Push_Mut(back) ==   \* at the wrong end
    <<audio.next>> \o (IF Len(back) = MaxBacklog THEN Tail(back) ELSE back)
Push(back) == IF Len(back) = MaxBacklog THEN Append(Tail(back), audio.next)
              ELSE Append(back, audio.next)
ReadAhead(back) ==
    IF MayRead THEN [audio EXCEPT !.back = Push(back), !.next = @ + 1]
    ELSE [audio EXCEPT !.back = back]

(* asr_stream_connect_wait: the warm connection if it is there, the one    *)
(* being made after a while in which blocks are read ahead, or a new one.  *)
TakeWarm(m) ==
    /\ At(m, "connect") \/ At(m, "wait")
    /\ warm.valid
    /\ warm' = [warm EXCEPT !.valid = FALSE]
    /\ Go(m, "run") /\ UNCHANGED audio /\ Quiet

WaitWarm(m) ==
    /\ At(m, "connect") \/ (At(m, "wait") /\ ~ui.stop)
    /\ ~warm.valid /\ warm.connecting
    /\ Go(m, "wait")
    /\ audio' = IF At(m, "connect") THEN audio ELSE ReadAhead(audio.back)
    /\ At(m, "connect") \/ MayRead
    /\ UNCHANGED warm /\ Quiet

GiveUpWarm(m) ==
    /\ \/ At(m, "connect") /\ ~warm.valid /\ ~warm.connecting /\ Go(m, "cold")
       \/ At(m, "wait") /\ Go(m, IF ui.stop THEN "check" ELSE "cold")
    /\ audio' = [audio EXCEPT !.back = IF ui.stop THEN <<>> ELSE @]
    /\ UNCHANGED warm /\ Quiet

ColdConnect(m) ==
    /\ At(m, "cold") \/ At(m, "retry")
    /\ \/ Go(m, IF At(m, "cold") THEN "run" ELSE "catchUp") /\ UNCHANGED audio
       \/ "line" \in Faults /\ Go(m, "check") /\ audio' = [audio EXCEPT !.back = <<>>]
    /\ UNCHANGED warm /\ Quiet

(* The task is announced; a warm connection that has gone stale is         *)
(* replaced by a new one.                                                  *)
RunTask(m) ==
    /\ At(m, "run")
    /\ Go(m, "catchUp") \/ ("line" \in Faults /\ Go(m, "retry"))
    /\ UNCHANGED <<warm, audio>> /\ Quiet

(* asr_backlog_send: of the blocks read ahead two are sent for one that is *)
(* read, until none is left.                                               *)
CatchUp(m) ==
    /\ At(m, "catchUp")
    /\ IF audio.back = <<>> THEN Go(m, "stream") /\ UNCHANGED audio
       ELSE \/ /\ LET two == IF Len(audio.back) = 1 THEN 1 ELSE 2
                      rest == SubSeq(audio.back, two + 1, Len(audio.back))
                  IN audio' = [ReadAhead(rest) EXCEPT
                                 !.sent = @ \o SubSeq(audio.back, 1, two)]
               /\ UNCHANGED asr
            \/ /\ "line" \in Faults /\ Go(m, "check")
               /\ audio' = [audio EXCEPT !.back = <<>>]
    /\ UNCHANGED warm /\ Quiet

(* asr_send_audio_stream: a block is read and sent, and the results that   *)
(* have come are posted; the end of the meeting ends the stream.           *)
Result(m) ==
    /\ results[m] < MaxResults
    /\ results' = [results EXCEPT ![m] = @ + 1]
    /\ posted' = Append(posted, <<m, results'[m]>>)

Send(m) ==
    /\ At(m, "stream") /\ ~ui.stop /\ MayRead
    /\ audio' = [audio EXCEPT !.sent = Append(@, audio.next), !.next = @ + 1]
    /\ Result(m) \/ UNCHANGED <<results, posted>>
    /\ UNCHANGED <<ui, rec2, warm, asr, text, saved>>

EndStream(m) ==
    /\ At(m, "stream")
    /\ (ui.stop /\ Go(m, "results")) \/ ("line" \in Faults /\ Go(m, "check"))
    /\ UNCHANGED <<warm, audio>> /\ Quiet

(* Results come until the task is finished or the line drops.              *)
LastResults(m) ==
    /\ At(m, "results")
    /\ \/ Result(m) /\ UNCHANGED asr
       \/ Go(m, "check") /\ UNCHANGED <<results, posted>>
    /\ UNCHANGED <<ui, rec2, warm, audio, text, saved>>

(* Without a second recorder the file is transcribed when the meeting is   *)
(* over: given up if it is not there in time.                              *)
AwaitEnd(m) ==
    /\ At(m, "atEnd") /\ ui.stop
    /\ Go(m, "file")
    /\ UNCHANGED <<warm, audio>> /\ Quiet

TranscribeFile(m) ==
    /\ At(m, "file")
    /\ \/ ui.wav > 0 /\ Result(m) /\ UNCHANGED asr
       \/ Go(m, "check") /\ UNCHANGED <<results, posted>>
    /\ UNCHANGED <<ui, rec2, warm, audio, text, saved>>

(* The last sentence is put to the text.  (The flag that would abort the   *)
(* thread here is never set: meeting_page_cleanup sets it while a thread   *)
(* runs, and the unload handler has just said that none does.)             *)
AfterStream(m) ==
    /\ At(m, "check")
    /\ text' = IF text.current = 0 THEN text
               ELSE [text EXCEPT !.full = Append(@, <<m, text.current>>)]
    /\ Go(m, IF text'.full = <<>> THEN "post" ELSE "summary")
    /\ UNCHANGED <<ui, rec2, warm, audio, results, posted, saved>>

(* The summary of the language model takes its time; then the text, as it  *)
(* is by then, is saved.                                                   *)
Summarise(m) ==
    /\ At(m, "summary")
    /\ Go(m, "save")
    /\ UNCHANGED <<warm, audio>> /\ Quiet

Save(m) ==
    /\ At(m, "save")
    /\ saved' \in {saved, [saved EXCEPT ![m] = text.full]}
    /\ Go(m, "post")
    /\ UNCHANGED <<ui, rec2, warm, audio, results, posted, text>>

(* The end of the thread: the recorder that the handle names is closed.    *)
Done(m) ==
    /\ At(m, "post")
    /\ rec2' = 0
    /\ ui' = [ui EXCEPT !.running = FALSE]
    /\ Go(m, "done")
    /\ UNCHANGED <<warm, audio, results, posted, text, saved>>

AsrStep(m) ==
    \/ TakeWarm(m) \/ WaitWarm(m) \/ GiveUpWarm(m) \/ ColdConnect(m) \/ RunTask(m) \/ CatchUp(m)
    \/ Send(m) \/ EndStream(m) \/ LastResults(m) \/ AwaitEnd(m) \/ TranscribeFile(m)
    \/ AfterStream(m) \/ Summarise(m) \/ Save(m) \/ Done(m)

User == EnterPage \/ (\E second \in BOOLEAN : StartMeeting(second)) \/ Pause \/ Resume
           \/ EndMeeting \/ LeavePage

Next == User \/ UiStep \/ Warmed \/ \E m \in Meetings : AsrStep(m)

Spec == /\ Init /\ [][Next]_vars
        /\ WF_vars(UiStep) /\ WF_vars(Warmed)
        /\ WF_vars(\E m \in Meetings : AsrStep(m))

-----------------------------------------------------------------------------
(* The cloud is sent the audio in the order it was recorded, and of what   *)
(* was read ahead only the oldest blocks are lost: what is sent and what   *)
(* waits follow each other (asr_backlog_push and asr_backlog_send keep     *)
(* their promise while the two readers of the recorder take turns).        *)
AudioInOrder ==
    LET all == audio.sent \o audio.back
    IN \A i, j \in 1..Len(all) : i < j => all[i] < all[j]

(* Every segment of a meeting is in its file, however often it was paused. *)
SegmentsKept == ui.at = "ready" /\ ui.wav > 0 /\ ui.stop => ui.wav = ui.recorded

(* What is saved of a meeting is its own: no sentence of another, none     *)
(* before an earlier one (meeting_page_start clears the text for this).    *)
SavedIsOwn ==
    \A m \in Meetings :
        /\ \A i \in 1..Len(saved[m]) : saved[m][i][1] = m
        /\ \A i, j \in 1..Len(saved[m]) : i < j => saved[m][i][2] <= saved[m][j][2]

(* The recorder a thread reads is open: it is closed by the thread itself  *)
(* ("meeting_recorder_close ... does not touch rec2 while it runs").       *)
RecorderAlive == \A m \in Meetings : asr[m] \in {"wait", "catchUp", "stream"} => rec2 = m

(* When a meeting has been saved, every sentence that was received is      *)
(* saved in its last version.                                              *)
AllSaved ==
    \A m \in Meetings :
        saved[m] # <<>> /\ asr[m] = "post" => saved[m][Len(saved[m])][2] = results[m]

(* A meeting that was ended is transcribed and closed.                     *)
Waiting == ui.at # "ready" \/ (ui.stop /\ ui.running)
MeetingEnds == Waiting ~> ~Waiting
=============================================================================
