-------------------------- MODULE SpeechRecognizer --------------------------
(***************************************************************************)
(* What becomes of speech: the chunks of a recording, which are buffered   *)
(* until the connector brings a stream and are sent over it from then on;  *)
(* the answers of the service that recognises them; the text that the      *)
(* agent gets.  A recording without a stream is recognised as a whole, by  *)
(* a detached thread, while the next one may be made.                      *)
(*   - voice/voice_channel.c, voice_asr.c, dashscope_asr.c, volc_asr.c     *)
(* Chunk k of recording r is <<r, k>>, and so is the word spoken in it.    *)
(* The states of the channel are in VoiceChannel.  The limits of 100 and   *)
(* 200 frames for an answer are left out.                                  *)
(***************************************************************************)
EXTENDS Naturals, Sequences

CONSTANTS MaxRecordings, MaxChunks,  \* recordings, and chunks of each
          Backends,  \* names of the registered services, "dashscope" and "volcengine"
          Faults     \* "connect", "refused": no connection, an error for an answer;
                     \* "send": a chunk that cannot be sent; "cut": a service that closes within
                     \* the answer; "late": a recording that ends just when its stream comes;
                     \* "overlap": recognitions of volcengine at the same time

VARIABLES backend,   \* s_active
          recording, \* the channel: "idle", "on", or "finish" while its stream is finished
          number,    \* recordings made
          chunks,    \* chunks read of this one
          buffer,    \* s_voice.pcm_buf
          fallback,  \* need_fallback: chunks go to the buffer
          connector, \* the connector of this recording
          stream,    \* its stream: "none", "offered" in s_voice.asr_stream, "own"
          heard,     \* what the service has got over the stream
          task,      \* the recognition of each recording
          confirmed, \* confirmed_len of recv_volc_response, a static variable
          posted     \* what the agent got for each recording

vars == <<backend, recording, number, chunks, buffer, fallback, connector, stream, heard, task,
          confirmed, posted>>

Recordings == 1..MaxRecordings
Chunk == Recordings \X (1..MaxChunks)
NoTask == [pc |-> "none", by |-> "none", audio |-> <<>>, wire |-> <<>>, text |-> <<>>]
Nothing == <<>>
Failure == <<<<0, 0>>>>   \* "[ASR failed: credentials not configured]"

TypeOK ==
    /\ backend \in Backends
    /\ recording \in {"idle", "on", "finish"} /\ number \in 0..MaxRecordings
    /\ chunks \in 0..MaxChunks /\ fallback \in BOOLEAN
    /\ buffer \in Seq(Chunk) /\ heard \in Seq(Chunk)
    /\ connector \in {"idle", "connecting"} /\ stream \in {"none", "offered", "own"}
    /\ \A r \in Recordings :
         /\ task[r].pc \in {"none", "open", "receive", "done", "failed"}
         /\ task[r].by \in Backends \cup {"none"}
         /\ task[r].audio \in Seq(Chunk) /\ task[r].text \in Seq(Chunk)
         /\ posted[r] = Failure \/ posted[r] \in Seq(Chunk)
    /\ confirmed \in Nat

Init ==
    /\ backend \in Backends
    /\ recording = "idle" /\ number = 0 /\ chunks = 0 /\ buffer = <<>> /\ fallback = TRUE
    /\ connector = "idle" /\ stream = "none" /\ heard = <<>>
    /\ task = [r \in Recordings |-> NoTask]
    /\ confirmed = 0
    /\ posted = [r \in Recordings |-> Nothing]

recordVars == <<recording, number, chunks, buffer, fallback, connector, stream, heard>>
Running == {r \in Recordings : task[r].pc # "none"}

-----------------------------------------------------------------------------
(* voice_channel_start: a buffer, the recording thread, the connector.     *)
Start ==
    /\ recording = "idle" /\ number < MaxRecordings
    /\ "overlap" \in Faults \/ backend = "dashscope" \/ Running = {}
    /\ recording' = "on" /\ number' = number + 1
    /\ chunks' = 0 /\ buffer' = <<>> /\ fallback' = TRUE
    /\ connector' = "connecting" /\ stream' = "none" /\ heard' = <<>>
    /\ UNCHANGED <<backend, task, confirmed, posted>>

(* asr_connector_thread: a stream that comes when the recording is over is *)
(* aborted.                                                                *)
Connect ==
    /\ connector = "connecting"
    /\ connector' = "idle"
    /\ \/ stream' = IF recording = "on" THEN "offered" ELSE stream
       \/ "connect" \in Faults /\ UNCHANGED stream
    /\ UNCHANGED <<backend, recording, number, chunks, buffer, fallback, heard, task, confirmed,
                   posted>>

(* A round of the recording thread: the stream is taken if there is one;   *)
(* the chunk goes to the buffer, or over the stream, and with the first    *)
(* one over it goes the buffer.  After a failure chunks are buffered again.*)
Accumulated(chunk) == IF fallback THEN Append(buffer, chunk) ELSE buffer
Flushed(chunk) == IF fallback THEN Accumulated(chunk) ELSE <<>>

Read ==
    /\ recording = "on" /\ chunks < MaxChunks
    /\ chunks' = chunks + 1
    /\ LET chunk == <<number, chunks + 1>>
       IN \/ /\ stream = "none"
             /\ buffer' = Accumulated(chunk)
             /\ UNCHANGED <<fallback, stream, heard>>
          \/ /\ stream # "none"
             /\ stream' = "own" /\ fallback' = FALSE /\ buffer' = <<>>
             /\ heard' = Append(heard \o Flushed(chunk), chunk)
          \/ /\ stream # "none" /\ "send" \in Faults
             /\ stream' = "none" /\ fallback' = TRUE /\ buffer' = <<>> /\ heard' = <<>>
    /\ UNCHANGED <<backend, recording, number, connector, task, confirmed, posted>>

-----------------------------------------------------------------------------
(* The services (external): a text on the way, then that of all they heard.*)
(* dashscope calls the former a stash, volcengine an intermediate result.  *)
Partial(audio) == IF audio = <<>> THEN <<>> ELSE <<Head(audio)>>
Answers(audio) ==
    {<<<<"part", Partial(audio)>>, <<"final", audio>>>>, <<<<"final", audio>>>>}
    \cup (IF "refused" \in Faults THEN {<<<<"error", <<>>>>>>} ELSE {})
    \cup (IF "cut" \in Faults THEN {<<<<"part", Partial(audio)>>, <<"close", <<>>>>>>} ELSE {})

Begin(pc, audio, wire) == [pc |-> pc, by |-> backend, audio |-> audio, wire |-> wire, text |-> <<>>]

(* voice_channel_stop: a stream is told that this was all, and its answer  *)
(* waited for; otherwise what is in the buffer is given to a worker.       *)
Finish ==
    /\ recording = "on"
    /\ stream = "own" \/ (stream = "offered" /\ "late" \in Faults)
    /\ recording' = "finish"
    /\ \E wire \in Answers(heard) :
         task' = [task EXCEPT ![number] = Begin("receive", heard, wire)]
    /\ UNCHANGED <<backend, number, chunks, buffer, fallback, connector, stream, heard, confirmed,
                   posted>>

Batch ==
    /\ recording = "on" /\ stream = "none"
    /\ recording' = "idle"
    /\ task' = IF buffer = <<>> THEN task
               ELSE [task EXCEPT ![number] = Begin("open", buffer, <<>>)]
    /\ buffer' = <<>>
    /\ UNCHANGED <<backend, number, chunks, fallback, connector, stream, heard, confirmed, posted>>

(* The recognition of a whole recording: a connection of its own, all the  *)
(* chunks, and the end of them.                                            *)
Submit(r) ==
    /\ task[r].pc = "open"
    /\ \/ \E wire \in Answers(task[r].audio) :
            task' = [task EXCEPT ![r].pc = "receive", ![r].wire = wire]
       \/ "connect" \in Faults /\ task' = [task EXCEPT ![r].pc = "failed"]
    /\ UNCHANGED <<backend, recordVars, confirmed, posted>>

(* dashscope: parts are put together, the transcript replaces them; a      *)
(* closed connection ends it like a transcript.                            *)
Dashscope(r) ==
    LET kind == Head(task[r].wire)[1]
        words == Head(task[r].wire)[2]
        then == [task[r] EXCEPT !.wire = Tail(@)]
    IN /\ task[r].by = "dashscope"
       /\ task' = [task EXCEPT ![r] =
              CASE kind = "part"  -> [then EXCEPT !.text = @ \o words]
                [] kind = "final" -> [then EXCEPT !.text = words, !.pc = "done"]
                [] kind = "close" -> [then EXCEPT !.pc = "done"]
                [] kind = "error" -> [then EXCEPT !.pc = "failed"]]
       /\ UNCHANGED confirmed

(* volcengine: a result is written after what is confirmed, where nobody   *)
(* sees it when the text is shorter.                                       *)
Written(text, at, words) == IF at <= Len(text) THEN SubSeq(text, 1, at) \o words ELSE text

Volcengine(r) ==
    LET kind == Head(task[r].wire)[1]
        words == Head(task[r].wire)[2]
        at == IF task[r].text = <<>> THEN 0 ELSE confirmed
        text == Written(task[r].text, at, words)
        then == [task[r] EXCEPT !.wire = Tail(@)]
    IN /\ task[r].by = "volcengine"
       /\ \/ /\ kind \in {"part", "final"}
             /\ task' = [task EXCEPT ![r] = [then EXCEPT !.text = text,
                                             !.pc = IF kind = "final" THEN "done" ELSE @]]
             /\ confirmed' = IF kind = "final" THEN Len(text) ELSE at
          \/ /\ kind \in {"close", "error"}
             /\ task' = [task EXCEPT ![r] = [then EXCEPT !.pc = "failed"]]
             /\ UNCHANGED confirmed

Receive(r) ==
    /\ task[r].pc = "receive"
    /\ Dashscope(r) \/ Volcengine(r)
    /\ UNCHANGED <<backend, recordVars, posted>>

(* The agent gets the text, or that there is none.                         *)
Post(r) ==
    /\ task[r].pc \in {"done", "failed"}
    /\ posted' = [posted EXCEPT ![r] =
            IF task[r].pc = "done" /\ task[r].text # <<>> THEN task[r].text ELSE Failure]
    /\ task' = [task EXCEPT ![r].pc = "none"]
    /\ IF recording = "finish" /\ r = number
       THEN recording' = "idle" /\ stream' = "none" /\ buffer' = <<>>
       ELSE UNCHANGED <<recording, stream, buffer>>
    /\ UNCHANGED <<backend, number, chunks, fallback, connector, heard, confirmed>>

(* voice_asr_set_backend *)
SetBackend ==
    /\ recording = "idle" /\ Running = {}
    /\ backend' \in Backends
    /\ UNCHANGED <<recordVars, task, confirmed, posted>>

TaskStep(r) == Submit(r) \/ Receive(r) \/ Post(r)
Next ==
    \/ Start \/ Connect \/ Read \/ Finish \/ Batch \/ SetBackend
    \/ \E r \in Recordings : TaskStep(r)

Spec == /\ Init /\ [][Next]_vars
        /\ \A r \in Recordings : WF_vars(TaskStep(r))

-----------------------------------------------------------------------------
(* No chunk of a recording is lost on its way to the service, none comes   *)
(* out of order, and one comes twice at most: the chunk that was read when *)
(* the stream came is in the buffer that is flushed and is sent after it.  *)
InOrder(seq) ==
    \A i \in 1..Len(seq) :
        IF i = 1 THEN seq[1] = <<number, 1>>
        ELSE seq[i] \in {seq[i - 1], <<number, seq[i - 1][2] + 1>>}
SpeechInOrder ==
    /\ (recording = "on" /\ stream = "own") \/ recording = "finish" =>
           /\ heard # <<>> /\ InOrder(heard) /\ Len(heard) <= chunks + 1
           /\ heard[Len(heard)] = <<number, chunks>>
    /\ recording = "on" /\ stream # "own" => buffer = [k \in 1..chunks |-> <<number, k>>]

(* The agent gets for a recording the text of its own audio, whole.        *)
TextIsOwn ==
    \A r \in Recordings :
        posted[r] \in {Nothing, Failure, task[r].audio}

(* A recognition ends. *)
Waiting == recording = "finish" \/ Running # {}
RecognitionEnds == Waiting ~> ~Waiting
=============================================================================
