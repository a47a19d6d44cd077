---------------------------- MODULE VoiceChannel ----------------------------
(***************************************************************************)
(* The push-to-talk channel of voice_channel.c: one thread that starts and *)
(* stops recordings, the recording thread, the detached threads that       *)
(* connect recognition streams, and the threads that speak answers.  They  *)
(* meet in s_voice (state, cap, asr_stream, tts_pb, tts_speaking) under    *)
(* s_voice.lock, in speak_lock, in the preconnected stream, and in the     *)
(* reference count that keeps WiFi power saving off.                       *)
(*                                                                         *)
(* A section under one lock is one action.  The speaking itself is in      *)
(* TtsPlayback; failing allocations and thread creations are left out.     *)
(***************************************************************************)
EXTENDS Naturals, Sequences, FiniteSets

CONSTANTS
    Speakers,      \* threads that call voice_channel_speak
    MaxSessions,   \* bound on the recordings started
    MaxCalls,      \* bound on the recordings started and answers spoken together
    MaxWarms,      \* bound on the preconnect threads
    Faults,        \* what may fail: subset of {"device", "capture", "read", "connect", "send", "playback"}
    LateFailure    \* may capture fail when an older session's connector has already delivered?

VARIABLES
    state,     \* s_voice.state
    cap,       \* s_voice.cap: "none", "open", "freed"
    slot,      \* s_voice.asr_stream, 0 for NULL
    warm,      \* s_asr_preconnect
    refs,      \* s_wifi_ps_refs
    ends,      \* how often each opened stream was finished or aborted
    user,      \* the thread that starts and stops: [pc, stream, withText]
    rec,       \* the recording thread: [pc, stream, abnormal]
    conns,     \* the connector thread of each session: [pc, stream]
    warmers,   \* the preconnect threads: [pc, stream]
    tts,       \* [pb, speaking]
    speakLock, \* the speaker that holds speak_lock, or "none"
    talk,      \* the program counter of each speaker
    sessions, speaks

vars == <<state, cap, slot, warm, refs, ends, user, rec, conns, warmers, tts, speakLock, talk,
          sessions, speaks>>

MaxStreams == MaxSessions + MaxWarms
NoTts == [pb |-> FALSE, speaking |-> FALSE]

Init ==
    /\ state = "idle" /\ cap = "none" /\ slot = 0 /\ warm = 0 /\ refs = 0 /\ ends = <<>>
    /\ user = [pc |-> "free", stream |-> 0, withText |-> FALSE]
    /\ rec = [pc |-> "off", stream |-> 0, abnormal |-> FALSE]
    /\ conns = [s \in 1..MaxSessions |-> [pc |-> "off", stream |-> 0]]
    /\ warmers = [w \in 1..MaxWarms |-> [pc |-> "off", stream |-> 0]]
    /\ tts = NoTts /\ speakLock = "none" /\ talk = [s \in Speakers |-> "free"]
    /\ sessions = 0 /\ speaks = 0

----------------------------------------------------------------------------
(* Streams: voice_asr_stream_open, _abort and _finish; both of these free it. *)

Opened == DOMAIN ends
NewStream == Len(ends) + 1
Open == ends' = Append(ends, 0)
Ended(s) == IF s = 0 THEN ends ELSE [ends EXCEPT ![s] = @ + 1]

speakVars == <<tts, speakLock, talk, speaks>>
streamVars == <<warm, ends, conns, warmers>>
Go(pc) == user' = [user EXCEPT !.pc = pc]

----------------------------------------------------------------------------
(* voice_channel_start. *)

\* Opening the capture device and entering RECORDING, s_voice.lock held.
OpenCapture ==
    \/ /\ cap' = "open" /\ slot' = 0 /\ state' = "recording" /\ Go("acquire")
       /\ sessions' = sessions + 1
    \/ /\ "device" \in Faults
       /\ cap' = "none" /\ slot' = 0 /\ Go("free") /\ UNCHANGED <<state, sessions>>

\* An active TTS is stopped first, and waited for without the lock.
CallStart ==
    /\ user.pc = "free" /\ state = "idle" /\ sessions < MaxSessions /\ sessions + speaks < MaxCalls
    /\ IF tts.pb \/ tts.speaking
       THEN /\ tts' = [tts EXCEPT !.speaking = FALSE]
            /\ Go("waitSpeak") /\ UNCHANGED <<state, cap, slot, sessions>>
       ELSE OpenCapture /\ UNCHANGED tts
    /\ UNCHANGED <<refs, rec, streamVars, speakLock, talk, speaks>>

WaitSpeak ==
    /\ user.pc = "waitSpeak" /\ speakLock = "none"
    /\ Go("recheck")
    /\ UNCHANGED <<state, cap, slot, refs, rec, streamVars, speakVars, sessions>>

Recheck ==
    /\ user.pc = "recheck"
    /\ IF state = "idle" THEN OpenCapture
       ELSE Go("free") /\ UNCHANGED <<state, cap, slot, sessions>>
    /\ UNCHANGED <<refs, rec, streamVars, speakVars>>

\* voice_wifi_ps_acquire, and the recording thread is created.
Acquire ==
    /\ user.pc = "acquire"
    /\ refs' = refs + 1
    /\ rec' = [pc |-> "begin", stream |-> 0, abnormal |-> FALSE]
    /\ Go("capture")
    /\ UNCHANGED <<state, cap, slot, streamVars, speakVars, sessions>>

\* sem_wait on rec_ready, then the capture starts and so does the connector.
StartCapture ==
    /\ user.pc = "capture" /\ rec.pc # "begin" /\ cap = "open"
    /\ Go("free")
    /\ conns' = [conns EXCEPT ![sessions] = [pc |-> "connect", stream |-> 0]]
    /\ UNCHANGED <<state, cap, slot, refs, rec, warm, ends, warmers, speakVars, sessions>>

\* It fails also when the recording thread has failed and closed the device.
CaptureFails ==
    /\ user.pc = "capture" /\ rec.pc # "begin"
    /\ \/ cap # "open"
       \/ "capture" \in Faults /\ (LateFailure \/ rec.stream = 0)
    /\ Go("failed")
    /\ state' = "idle" /\ ends' = Ended(slot) /\ slot' = 0
    /\ UNCHANGED <<cap, refs, rec, warm, conns, warmers, speakVars, sessions>>

FailedJoin ==
    /\ user.pc = "failed" /\ rec.pc = "gone"
    /\ Go("free")
    /\ cap' = "none" /\ refs' = IF refs > 0 THEN refs - 1 ELSE 0
    /\ UNCHANGED <<state, slot, rec, streamVars, speakVars, sessions>>

----------------------------------------------------------------------------
(* voice_channel_stop and voice_channel_stop_with_text. *)

CallStop ==
    /\ user.pc = "free" /\ state = "recording"
    /\ state' = "stopping"
    /\ \E withText \in BOOLEAN : user' = [user EXCEPT !.pc = "release", !.withText = withText]
    /\ UNCHANGED <<cap, slot, refs, rec, streamVars, speakVars, sessions>>

Release ==
    /\ user.pc = "release"
    /\ refs' = IF refs > 0 THEN refs - 1 ELSE 0
    /\ Go(IF user.withText THEN "join" ELSE "close")
    /\ UNCHANGED <<state, cap, slot, rec, streamVars, speakVars, sessions>>

\* voice_channel_stop closes the device first, which ends a read in progress.
CloseCapture ==
    /\ user.pc = "close"
    /\ cap' = "freed" /\ Go("join")
    /\ UNCHANGED <<state, slot, refs, rec, streamVars, speakVars, sessions>>

Join ==
    /\ user.pc = "join" /\ rec.pc = "gone"
    /\ cap' = "none" /\ slot' = 0 /\ state' = "idle"
    /\ user' = [user EXCEPT !.pc = "finish", !.stream = slot]
    /\ UNCHANGED <<refs, rec, streamVars, speakVars, sessions>>

\* voice_asr_stream_finish, or the batch recognition of the buffered PCM.
Finish ==
    /\ user.pc = "finish"
    /\ ends' = Ended(user.stream)
    /\ user' = [user EXCEPT !.pc = "free", !.stream = 0]
    /\ UNCHANGED <<state, cap, slot, refs, rec, warm, conns, warmers, speakVars, sessions>>

UserStep == WaitSpeak \/ Recheck \/ Acquire \/ StartCapture \/ CaptureFails \/ FailedJoin
            \/ Release \/ CloseCapture \/ Join \/ Finish

----------------------------------------------------------------------------
(* recording_thread. *)

Begin ==
    /\ rec.pc = "begin"
    /\ rec' = [rec EXCEPT !.pc = "look"]
    /\ UNCHANGED <<state, cap, slot, refs, user, streamVars, speakVars, sessions>>

\* The state, and the connector's stream if there is none yet.
Look ==
    /\ rec.pc = "look"
    /\ rec' = [rec EXCEPT !.pc = IF state = "recording" THEN "read" ELSE "leave",
                          !.stream = IF @ = 0 THEN slot ELSE @]
    /\ slot' = IF rec.stream = 0 THEN 0 ELSE slot
    /\ UNCHANGED <<state, cap, refs, user, streamVars, speakVars, sessions>>

Read ==
    /\ rec.pc = "read"
    /\ \/ cap = "open" /\ rec' = [rec EXCEPT !.pc = IF rec.stream = 0 THEN "look" ELSE "send"]
       \/ /\ cap # "open" \/ "read" \in Faults
          /\ rec' = [rec EXCEPT !.pc = "leave", !.abnormal = TRUE]
    /\ UNCHANGED <<state, cap, slot, refs, user, streamVars, speakVars, sessions>>

\* The chunk goes to the recogniser; a failing stream is aborted and the PCM
\* buffered again.  vad_done ends the loop when the server has sent anything.
Send ==
    /\ rec.pc = "send"
    /\ \/ rec' = [rec EXCEPT !.pc = "look"] /\ UNCHANGED <<state, ends>>
       \/ /\ rec' = [rec EXCEPT !.pc = "leave"]
          /\ state' = IF state = "recording" THEN "stopping" ELSE state
          /\ UNCHANGED ends
       \/ /\ "send" \in Faults
          /\ rec' = [rec EXCEPT !.pc = "look", !.stream = 0]
          /\ ends' = Ended(rec.stream)
          /\ UNCHANGED state
    /\ UNCHANGED <<cap, slot, refs, user, warm, conns, warmers, speakVars, sessions>>

\* Of two streams the connector's is aborted; the other is left for the stopping
\* thread, or aborted as well when the thread ends by itself (recording_cleanup_locked).
Leave_Mut ==
    /\ rec.pc = "leave"
    /\ LET keep == IF rec.stream # 0 THEN rec.stream ELSE slot
           cleanup == rec.abnormal /\ state = "recording"
       IN /\ ends' = IF cleanup /\ keep # 0 THEN Ended(keep) ELSE ends
          /\ slot' = IF cleanup THEN 0 ELSE keep
          /\ cap' = IF cleanup THEN "none" ELSE cap
          /\ state' = IF cleanup THEN "idle" ELSE state
    /\ rec' = [rec EXCEPT !.pc = "gone", !.stream = 0]
    /\ UNCHANGED <<refs, user, warm, conns, warmers, speakVars, sessions>>

Leave ==
    /\ rec.pc = "leave"
    /\ LET keep == IF rec.stream # 0 THEN rec.stream ELSE slot
           surplus == IF rec.stream # 0 THEN slot ELSE 0
           cleanup == rec.abnormal /\ state = "recording"
           ending == ({surplus} \cup IF cleanup THEN {keep} ELSE {}) \ {0}
       IN /\ ends' = [s \in Opened |-> ends[s] + IF s \in ending THEN 1 ELSE 0]
          /\ slot' = IF cleanup THEN 0 ELSE keep
          /\ cap' = IF cleanup THEN "none" ELSE cap
          /\ state' = IF cleanup THEN "idle" ELSE state
    /\ rec' = [rec EXCEPT !.pc = "gone", !.stream = 0]
    /\ UNCHANGED <<refs, user, warm, conns, warmers, speakVars, sessions>>

RecStep == Begin \/ Look \/ Read \/ Send \/ Leave

----------------------------------------------------------------------------
(* asr_connector_thread, asr_preconnect_thread. *)

Connect(s) ==
    /\ conns[s].pc = "connect"
    /\ \/ /\ warm # 0
          /\ conns' = [conns EXCEPT ![s] = [pc |-> "store", stream |-> warm]]
          /\ warm' = 0 /\ UNCHANGED ends
       \/ /\ warm = 0
          /\ conns' = [conns EXCEPT ![s] = [pc |-> "store", stream |-> NewStream]]
          /\ Open /\ UNCHANGED warm
       \/ /\ warm = 0 /\ "connect" \in Faults
          /\ conns' = [conns EXCEPT ![s].pc = "off"] /\ UNCHANGED <<warm, ends>>
    /\ UNCHANGED <<state, cap, slot, refs, user, rec, warmers, speakVars, sessions>>

Store(s) ==
    /\ conns[s].pc = "store"
    /\ conns' = [conns EXCEPT ![s] = [pc |-> "off", stream |-> 0]]
    /\ IF state = "recording" /\ slot = 0
       THEN slot' = conns[s].stream /\ UNCHANGED ends
       ELSE ends' = Ended(conns[s].stream) /\ UNCHANGED slot
    /\ UNCHANGED <<state, cap, refs, user, rec, warm, warmers, speakVars, sessions>>

\* voice_channel_asr_preconnect: at start-up and after each pipeline.
Preconnect(w) ==
    /\ warmers[w].pc = "off" /\ warm = 0
    /\ warmers' = [warmers EXCEPT ![w].pc = "open"]
    /\ UNCHANGED <<state, cap, slot, warm, refs, ends, user, rec, conns, speakVars, sessions>>

OpenWarm(w) ==
    /\ warmers[w].pc = "open"
    /\ \/ warmers' = [warmers EXCEPT ![w] = [pc |-> "store", stream |-> NewStream]] /\ Open
       \/ /\ "connect" \in Faults
          /\ warmers' = [warmers EXCEPT ![w].pc = "gone"] /\ UNCHANGED ends
    /\ UNCHANGED <<state, cap, slot, warm, refs, user, rec, conns, speakVars, sessions>>

StoreWarm(w) ==
    /\ warmers[w].pc = "store"
    /\ warmers' = [warmers EXCEPT ![w] = [pc |-> "gone", stream |-> 0]]
    /\ ends' = Ended(warm) /\ warm' = warmers[w].stream
    /\ UNCHANGED <<state, cap, slot, refs, user, rec, conns, speakVars, sessions>>

ConnectStep == \/ \E s \in 1..MaxSessions : Connect(s) \/ Store(s)
               \/ \E w \in 1..MaxWarms : OpenWarm(w) \/ StoreWarm(w)

----------------------------------------------------------------------------
(* voice_channel_speak. *)

recordVars == <<state, cap, slot, user, rec, streamVars, sessions>>
Says(s, pc) == talk' = [talk EXCEPT ![s] = pc]

\* An answer still being spoken is stopped, then waited for.
CallSpeak(s) ==
    /\ talk[s] = "free" /\ sessions + speaks < MaxCalls
    /\ speaks' = speaks + 1
    /\ tts' = IF tts.pb \/ tts.speaking THEN [tts EXCEPT !.speaking = FALSE] ELSE tts
    /\ Says(s, "lock")
    /\ UNCHANGED <<refs, speakLock, recordVars>>

TakeSpeakLock(s) ==
    /\ talk[s] = "lock" /\ speakLock = "none"
    /\ speakLock' = s /\ Says(s, "check")
    /\ UNCHANGED <<refs, tts, speaks, recordVars>>

CheckIdle(s) ==
    /\ talk[s] = "check"
    /\ IF state = "idle" THEN Says(s, "open") /\ UNCHANGED speakLock
                         ELSE Says(s, "free") /\ speakLock' = "none"
    /\ UNCHANGED <<refs, tts, speaks, recordVars>>

OpenPlayback(s) ==
    /\ talk[s] = "open"
    /\ \/ Says(s, "acquire") /\ tts' = [pb |-> TRUE, speaking |-> TRUE] /\ UNCHANGED speakLock
       \/ /\ "playback" \in Faults
          /\ Says(s, "free") /\ speakLock' = "none" /\ UNCHANGED tts
    /\ UNCHANGED <<refs, speaks, recordVars>>

SpeakAcquires(s) ==
    /\ talk[s] = "acquire"
    /\ refs' = refs + 1 /\ Says(s, "play")
    /\ UNCHANGED <<tts, speakLock, speaks, recordVars>>

Played(s) ==
    /\ talk[s] = "play"
    /\ tts' = NoTts /\ Says(s, "release")
    /\ UNCHANGED <<refs, speakLock, speaks, recordVars>>

SpeakReleases_Mut(s) ==
    /\ talk[s] = "release"
    /\ refs' = (IF refs > 0 THEN refs - 1 ELSE 0) /\ Says(s, "free")
    /\ UNCHANGED <<tts, speakLock, speaks, recordVars>>

SpeakReleases(s) ==
    /\ talk[s] = "release"
    /\ refs' = (IF refs > 0 THEN refs - 1 ELSE 0)
    /\ speakLock' = "none" /\ Says(s, "free")
    /\ UNCHANGED <<tts, speaks, recordVars>>

SpeakStep(s) == TakeSpeakLock(s) \/ CheckIdle(s) \/ OpenPlayback(s) \/ SpeakAcquires(s)
                \/ Played(s) \/ SpeakReleases(s)

Next ==
    \/ CallStart \/ CallStop \/ UserStep \/ RecStep \/ ConnectStep
    \/ \E w \in 1..MaxWarms : Preconnect(w)
    \/ \E s \in Speakers : CallSpeak(s) \/ SpeakStep(s)

\* Connecting, reading, recognising and speaking all end by a time-out; nobody
\* need call anything.
Fairness == WF_vars(UserStep) /\ WF_vars(RecStep) /\ WF_vars(ConnectStep)
            /\ \A s \in Speakers : WF_vars(SpeakStep(s))

Spec == Init /\ [][Next]_vars /\ Fairness

----------------------------------------------------------------------------
Stream == 0..MaxStreams

TypeOK ==
    /\ state \in {"idle", "recording", "stopping"} /\ cap \in {"none", "open", "freed"}
    /\ slot \in Stream /\ warm \in Stream
    /\ refs \in 0..(MaxSessions + Cardinality(Speakers))
    /\ user \in [pc : {"free", "waitSpeak", "recheck", "acquire", "capture", "failed",
                       "release", "close", "join", "finish"},
                 stream : Stream, withText : BOOLEAN]
    /\ rec.stream \in Stream
    /\ speakLock \in Speakers \cup {"none"}

\* Where a stream can be: the slot, the preconnect pool, or a thread.
Slot == <<"slot", 0>>
Warm == <<"warm", 0>>
Rec == <<"rec", 0>>
User == <<"user", 0>>
Places == {Slot, Warm, Rec, User} \cup ({"conn"} \X (1..MaxSessions))
                                  \cup ({"warmer"} \X (1..MaxWarms))
At(p) == CASE p = Slot -> slot [] p = Warm -> warm [] p = Rec -> rec.stream
           [] p = User -> user.stream [] p[1] = "conn" -> conns[p[2]].stream
           [] OTHER -> warmers[p[2]].stream
Owners(s) == {p \in Places : At(p) = s}

\* Every recognition stream has one owner until it is finished or aborted, once;
\* none is used after it was freed, and none is left where the next start would
\* forget it.  Connectors that come late and every failure are included.
StreamsOwned ==
    /\ \A s \in Opened : \/ ends[s] = 0 /\ \E p \in Places : Owners(s) = {p}
                         \/ ends[s] = 1 /\ Owners(s) = {}
    /\ state = "idle" /\ user.pc = "free" => slot = 0

Recording == state = "recording" /\ user.pc # "acquire"

\* WiFi power saving is never restored while a recording or an answer is in
\* progress, however they overlap, and one answer is played at a time.
Playing(s) == talk[s] = "play"
PowerSaveOff ==
    /\ refs >= (IF Recording THEN 1 ELSE 0) + (IF \E s \in Speakers : Playing(s) THEN 1 ELSE 0)
    /\ \A s, t \in Speakers : Playing(s) /\ Playing(t) => s = t

\* Every call of start, stop and speak returns, whichever locks and threads it
\* waits for: as the calls are bounded, in the end nobody is in one.
Waiting == user.pc # "free" \/ \E s \in Speakers : talk[s] # "free"
CallsReturn == Waiting ~> ~Waiting

\* A recording session comes to an end once the user wants it to: the channel
\* is ready for the next one.
SessionEnds == (state = "stopping") ~> (state = "idle")
=============================================================================
