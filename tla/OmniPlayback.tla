---------------------------- MODULE OmniPlayback ----------------------------
(***************************************************************************)
(* The voice of the cloud: the assistant's main thread appends the pieces  *)
(* of a response to a cache file, a consumer thread reads the file and     *)
(* plays, and whoever ends the response joins the consumer and closes.     *)
(*   - lvgldemo/voice_assistant.c: omni_pb_open, omni_pb_enqueue,          *)
(*     omni_pb_close, omni_pb_consumer_thread and the events that call     *)
(*     them                                                                *)
(* Both threads use one descriptor, whose offset they share.  A piece is a *)
(* number, written and read whole.                                         *)
(***************************************************************************)
EXTENDS Naturals, Sequences

CONSTANTS MaxResponses, \* responses of the cloud
          MaxPieces,    \* pieces of a response
          Prebuffer,    \* OMNI_FILE_PREBUFFER_BYTES, in pieces
          Closers,      \* who closes: "main", and "agent" for voice_assistant_suspend_listening
          Racing        \* whether one thread may come between another's lseek and its read or write

VARIABLES closer,   \* where each closer is
          writing,  \* the main thread is between lseek and write
          consumer, \* where the consumer is
          ready,    \* file_prebuffer_done
          open,     \* s_omni_file_fd is a descriptor
          file,     \* the content of OMNI_CACHE_FILE
          offset,   \* the offset of the descriptor
          writePos, readPos, \* s_omni_file_write_pos, s_omni_file_read_pos
          eof,      \* s_omni_file_eof
          running,  \* s_omni_consumer_running
          sem,      \* s_omni_file_sem
          sent,     \* the pieces of this response
          played,   \* what was written to the playback
          responses

omniVars == <<closer, writing, consumer, ready, open, file, offset, writePos, readPos, eof, running,
              sem, sent, played, responses>>

TypeOK ==
    /\ closer \in [Closers -> {"idle", "joining", "closing"}]
    /\ writing \in BOOLEAN /\ ready \in BOOLEAN /\ open \in BOOLEAN
    /\ consumer \in {"none", "look", "wait", "reading", "over"}
    /\ file \in Seq(1..MaxPieces) /\ Len(file) <= MaxPieces
    /\ offset \in 0..MaxPieces /\ writePos \in 0..MaxPieces /\ readPos \in 0..MaxPieces
    /\ eof \in BOOLEAN /\ running \in BOOLEAN /\ sem \in Nat
    /\ sent \in 0..MaxPieces /\ played \in Seq(1..MaxPieces)
    /\ responses \in 0..MaxResponses

Init ==
    /\ closer = [c \in Closers |-> "idle"]
    /\ writing = FALSE /\ consumer = "none" /\ ready = FALSE
    /\ open = FALSE /\ file = <<>> /\ offset = 0 /\ writePos = 0 /\ readPos = 0
    /\ eof = FALSE /\ running = FALSE /\ sem = 0
    /\ sent = 0 /\ played = <<>> /\ responses = 0

fileVars == <<open, file, offset, writePos, readPos>>
playVars == <<consumer, ready, played>>
MainIdle == closer["main"] = "idle" /\ ~writing

-----------------------------------------------------------------------------
(* The main thread.  response.created: omni_pb_open; an older response was *)
(* ended by its response.done.                                             *)
Open ==
    /\ MainIdle /\ ~open /\ responses < MaxResponses
    /\ \A c \in Closers : closer[c] = "idle"
    /\ responses' = responses + 1
    /\ open' = TRUE /\ file' = <<>> /\ offset' = 0 /\ writePos' = 0 /\ readPos' = 0
    /\ eof' = FALSE /\ running' = TRUE /\ sem' = 0
    /\ consumer' = "look" /\ ready' = FALSE /\ played' = <<>>
    /\ sent' = 0
    /\ UNCHANGED <<closer, writing>>

(* response.audio.delta: omni_pb_enqueue seeks and writes under the mutex. *)
EnqueueSeek ==
    /\ MainIdle /\ open /\ sent < MaxPieces
    /\ Racing \/ consumer # "reading"
    /\ writing' = TRUE
    /\ offset' = writePos
    /\ sent' = sent + 1
    /\ UNCHANGED <<closer, consumer, ready, open, file, writePos, readPos, eof, running, sem, played,
                   responses>>

Put(f, at, piece) == IF at < Len(f) THEN [f EXCEPT ![at + 1] = piece] ELSE Append(f, piece)

EnqueueWrite ==
    /\ writing
    /\ writing' = FALSE
    /\ IF open
       THEN /\ file' = Put(file, offset, sent)
            /\ offset' = offset + 1 /\ writePos' = writePos + 1
       ELSE UNCHANGED <<file, offset, writePos>>
    /\ sem' = sem + 1
    /\ UNCHANGED <<closer, consumer, ready, open, readPos, eof, running, sent, played, responses>>

-----------------------------------------------------------------------------
(* omni_pb_close: the consumer is told of the end twice and joined, unless *)
(* another closer cleared the flag, ...                                    *)
BeginClose(c) ==
    /\ closer[c] = "idle" /\ open
    /\ c = "main" => ~writing
    /\ eof' = TRUE
    /\ sem' = IF running THEN sem + 2 ELSE sem + 1
    /\ running' = FALSE
    /\ closer' = [closer EXCEPT ![c] = IF running THEN "joining" ELSE "closing"]
    /\ UNCHANGED <<writing, playVars, fileVars, sent, responses>>

Join(c) ==
    /\ closer[c] = "joining" /\ consumer = "over"
    /\ consumer' = "none"
    /\ closer' = [closer EXCEPT ![c] = "closing"]
    /\ UNCHANGED <<writing, ready, fileVars, eof, running, sem, sent, played, responses>>

(* ... and the playback and the file are closed.                           *)
Close(c) ==
    /\ closer[c] = "closing"
    /\ closer' = [closer EXCEPT ![c] = "idle"]
    /\ open' = FALSE
    /\ UNCHANGED <<writing, playVars, file, offset, writePos, readPos, eof, running, sem, sent,
                   responses>>

-----------------------------------------------------------------------------
(* The consumer: before it plays it waits for the prebuffer, for the end   *)
(* or for a time-out that it notices when it is woken; ...                 *)
Look ==
    /\ consumer = "look"
    /\ \/ /\ ~ready /\ (writePos >= Prebuffer \/ eof)
          /\ ready' = TRUE /\ UNCHANGED consumer
       \/ /\ ~ready /\ writePos < Prebuffer /\ ~eof
          /\ consumer' = "wait" /\ UNCHANGED ready
       \/ /\ ready /\ writePos <= readPos
          /\ consumer' = IF ~running /\ eof THEN "over" ELSE "wait"
          /\ UNCHANGED ready
    /\ UNCHANGED <<closer, writing, fileVars, eof, running, sem, sent, played, responses>>

Woken ==
    /\ consumer = "wait" /\ sem > 0
    /\ sem' = sem - 1
    /\ consumer' = "look"
    /\ ready' \in {ready, TRUE}
    /\ UNCHANGED <<closer, writing, fileVars, eof, running, sent, played, responses>>

(* ... then it seeks to where it is and reads, without the mutex.          *)
ReadSeek ==
    /\ consumer = "look" /\ ready /\ writePos > readPos
    /\ Racing \/ ~writing
    /\ open
    /\ offset' = readPos
    /\ consumer' = "reading"
    /\ UNCHANGED <<closer, writing, ready, open, file, writePos, readPos, eof, running, sem, sent,
                   played, responses>>

Read ==
    /\ consumer = "reading"
    /\ consumer' = "look"
    /\ IF open /\ offset < Len(file)
       THEN /\ played' = Append(played, file[offset + 1])
            /\ offset' = offset + 1 /\ readPos' = readPos + 1
       ELSE UNCHANGED <<played, offset, readPos>>
    /\ UNCHANGED <<closer, writing, ready, open, file, writePos, eof, running, sem, sent, responses>>

Next ==
    \/ Open \/ EnqueueSeek \/ EnqueueWrite
    \/ \E c \in Closers : BeginClose(c) \/ Join(c) \/ Close(c)
    \/ Look \/ Woken \/ ReadSeek \/ Read

ConsumerStep == Look \/ Woken \/ ReadSeek \/ Read
MainStep == EnqueueWrite \/ Join("main") \/ Close("main")

Spec == Init /\ [][Next]_omniVars /\ WF_omniVars(ConsumerStep) /\ WF_omniVars(MainStep)

-----------------------------------------------------------------------------
(* What is played are the pieces of this response, in order and each once, *)
(* and when the response has been closed all of them were.                 *)
PlayedInOrder == played = [i \in 1..Len(played) |-> i]
PlayedWhole == ~open => Len(played) = sent

(* The main thread, which reads nothing of the cloud while it closes, gets *)
(* back from it.                                                           *)
Waiting == closer["main"] # "idle"
CloseReturns == Waiting ~> ~Waiting
=============================================================================
