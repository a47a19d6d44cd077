----------------------------- MODULE TtsPlayback -----------------------------
(***************************************************************************)
(* One spoken answer on its way to the loudspeaker.  voice_channel_speak   *)
(* opens the playback (tts_pb_open); the synthesis appends PCM to a cache  *)
(* file (tts_pb_enqueue); the consumer thread copies the file into the     *)
(* ring of audio_playback.c; the drain thread hands the ring to the media  *)
(* player; tts_pb_close waits for both threads.  voice_channel_abort_tts,  *)
(* a recording or the next speaker interrupt all this with tts_pb_stop.    *)
(*                                                                         *)
(* PCM is a sequence of chunks, numbered as they are synthesised.  Both    *)
(* prebuffers may time out at any poll.  A consumer that cannot allocate   *)
(* its read buffer, and a file that cannot be opened, are left out.        *)
(***************************************************************************)
EXTENDS Naturals, Sequences

CONSTANTS
    Chunks,          \* chunks of PCM the synthesis delivers
    RingSize,        \* RING_BUF_SIZE, in chunks
    RingPrebuffer,   \* PREBUFFER_BYTES, in chunks
    FilePrebuffer,   \* TTS_FILE_PREBUFFER_BYTES, in chunks
    Faults           \* what may fail: subset of {"file", "player"}

VARIABLES
    speaker,   \* the speaking thread: [pc, made], made counts the synthesised chunks
    file,      \* the cache file: [data, read, eof, feeding, sem]
    consumer,  \* the consumer thread: [pc, avail, total, eof, ready, chunk]
    ring,      \* the playback: [data, sem, eos, draining, stopped, started]
    drain,     \* the drain thread: [pc, chunk]
    played,    \* what the media player was given
    abort,     \* s_voice.tts_abort
    stopper    \* the interrupting thread: "away", "file", "ring", "back"

vars == <<speaker, file, consumer, ring, drain, played, abort, stopper>>

Init ==
    /\ speaker = [pc |-> "idle", made |-> 0]
    /\ file = [data |-> <<>>, read |-> 0, eof |-> FALSE, feeding |-> FALSE, sem |-> 0]
    /\ consumer = [pc |-> "off", avail |-> 0, total |-> 0, eof |-> FALSE, ready |-> FALSE, chunk |-> 0]
    /\ ring = [data |-> <<>>, sem |-> 0, eos |-> FALSE, draining |-> FALSE,
               stopped |-> FALSE, started |-> FALSE]
    /\ drain = [pc |-> "off", chunk |-> 0]
    /\ played = <<>> /\ abort = FALSE /\ stopper = "away"

----------------------------------------------------------------------------
(* The speaking thread. *)

Open ==
    /\ speaker.pc = "idle"
    /\ speaker' = [speaker EXCEPT !.pc = "stream"]
    /\ file' = [file EXCEPT !.feeding = TRUE]
    /\ ring' = [ring EXCEPT !.draining = TRUE]
    /\ consumer' = [consumer EXCEPT !.pc = "look"]
    /\ drain' = [drain EXCEPT !.pc = "test"]
    /\ abort' = FALSE
    /\ UNCHANGED <<played, stopper>>

\* The TTS callback: after an abort the PCM is dropped; a failed write drops it too.
Enqueue ==
    /\ speaker.pc = "stream" /\ speaker.made < Chunks
    /\ speaker' = [speaker EXCEPT !.made = @ + 1]
    /\ \/ abort /\ file' = file
       \/ ~abort /\ file' = [file EXCEPT !.data = Append(@, speaker.made + 1), !.sem = @ + 1]
       \/ ~abort /\ "file" \in Faults /\ file' = [file EXCEPT !.sem = @ + 1]
    /\ UNCHANGED <<consumer, ring, drain, played, abort, stopper>>

\* tts_pb_close: the end mark and two posts, one for each of the flags the
\* consumer looks at, then the join.
MarkEof ==
    /\ speaker.pc = "stream" /\ speaker.made = Chunks
    /\ speaker' = [speaker EXCEPT !.pc = "eof"]
    /\ file' = [file EXCEPT !.eof = TRUE, !.sem = @ + 1]
    /\ UNCHANGED <<consumer, ring, drain, played, abort, stopper>>

StopFeeding ==
    /\ speaker.pc = "eof"
    /\ speaker' = [speaker EXCEPT !.pc = "joinConsumer"]
    /\ file' = [file EXCEPT !.feeding = FALSE, !.sem = @ + 1]
    /\ UNCHANGED <<consumer, ring, drain, played, abort, stopper>>

\* audio_playback_close: eos, a post, drain_running = 0, a post, the join; all
\* of it with s_tts_pb_lock held.
CloseRing ==
    /\ speaker.pc = "joinConsumer" /\ consumer.pc = "gone"
    /\ speaker' = [speaker EXCEPT !.pc = "close"]
    /\ ring' = [ring EXCEPT !.eos = TRUE, !.sem = @ + 1]
    /\ UNCHANGED <<file, consumer, drain, played, abort, stopper>>

StopDraining ==
    /\ speaker.pc = "close"
    /\ speaker' = [speaker EXCEPT !.pc = "joinDrain"]
    /\ ring' = [ring EXCEPT !.draining = FALSE, !.sem = @ + 1]
    /\ UNCHANGED <<file, consumer, drain, played, abort, stopper>>

JoinDrain ==
    /\ speaker.pc = "joinDrain" /\ drain.pc = "gone"
    /\ speaker' = [speaker EXCEPT !.pc = "closed"]
    /\ UNCHANGED <<file, consumer, ring, drain, played, abort, stopper>>

\* s_voice.tts_pb = NULL under s_voice.lock, which an interrupting thread holds.
Done ==
    /\ speaker.pc = "closed" /\ stopper \notin {"file", "ring"}
    /\ speaker' = [speaker EXCEPT !.pc = "done"]
    /\ abort' = FALSE
    /\ UNCHANGED <<file, consumer, ring, drain, played, stopper>>

SpeakerStep == Open \/ Enqueue \/ MarkEof \/ StopFeeding \/ CloseRing \/ StopDraining \/ JoinDrain \/ Done

----------------------------------------------------------------------------
(* tts_pb_consumer_thread. *)

Look ==
    /\ consumer.pc = "look"
    /\ consumer' = [consumer EXCEPT !.pc = "decide", !.avail = Len(file.data) - file.read,
                                    !.total = Len(file.data), !.eof = file.eof]
    /\ UNCHANGED <<speaker, file, ring, drain, played, abort, stopper>>

\* May the thread go past the prebuffer with what it saw?
Buffered == consumer.ready \/ consumer.total >= FilePrebuffer \/ consumer.eof

\* Nothing will come any more.
Finished == ~file.feeding /\ consumer.eof

Decide ==
    /\ consumer.pc = "decide"
    /\ \/ /\ ~Buffered                                  \* wait, perhaps past the time-out
          /\ \E late \in BOOLEAN : consumer' = [consumer EXCEPT !.pc = "wait", !.ready = late]
          /\ UNCHANGED file
       \/ /\ Buffered /\ consumer.avail = 0
          /\ consumer' = [consumer EXCEPT !.pc = IF Finished THEN "gone" ELSE "wait", !.ready = TRUE]
          /\ UNCHANGED file
       \/ /\ Buffered /\ consumer.avail > 0
          /\ consumer' = [consumer EXCEPT !.pc = "enter", !.ready = TRUE,
                                          !.chunk = file.data[file.read + 1]]
          /\ file' = [file EXCEPT !.read = @ + 1]
    /\ UNCHANGED <<speaker, ring, drain, played, abort, stopper>>

WaitFile ==
    /\ consumer.pc = "wait" /\ file.sem > 0
    /\ consumer' = [consumer EXCEPT !.pc = "look"]
    /\ file' = [file EXCEPT !.sem = @ - 1]
    /\ UNCHANGED <<speaker, ring, drain, played, abort, stopper>>

\* audio_playback_write, with s_tts_pb_lock held.
EnterWrite ==
    /\ consumer.pc = "enter"
    /\ consumer' = [consumer EXCEPT !.pc = IF ring.stopped THEN "look" ELSE "write"]
    /\ UNCHANGED <<speaker, file, ring, drain, played, abort, stopper>>

\* A write to a full ring polls until there is room or the playback is stopped.
WriteRing ==
    /\ consumer.pc = "write"
    /\ \/ /\ Len(ring.data) < RingSize
          /\ ring' = [ring EXCEPT !.data = Append(@, consumer.chunk), !.sem = @ + 1]
       \/ /\ Len(ring.data) = RingSize /\ ring.stopped
          /\ UNCHANGED ring
    /\ consumer' = [consumer EXCEPT !.pc = "look"]
    /\ UNCHANGED <<speaker, file, drain, played, abort, stopper>>

ConsumerStep == Look \/ Decide \/ WaitFile \/ EnterWrite \/ WriteRing

----------------------------------------------------------------------------
(* drain_thread. *)

GoOn_Mut == ~ring.stopped /\ ring.draining

GoOn == ~ring.stopped /\ (ring.draining \/ (ring.eos /\ ring.data # <<>>))

Test ==
    /\ drain.pc = "test"
    /\ drain' = [drain EXCEPT !.pc = IF ~GoOn THEN "tail"
                                     ELSE IF ~ring.started /\ ~ring.eos THEN "prebuffer" ELSE "wait"]
    /\ UNCHANGED <<speaker, file, consumer, ring, played, abort, stopper>>

\* Below the threshold the thread sleeps and tests again, until the time-out.
Prebuffer ==
    /\ drain.pc = "prebuffer"
    /\ drain' \in {[drain EXCEPT !.pc = pc] :
                     pc \in {"process"} \cup (IF Len(ring.data) < RingPrebuffer THEN {"test"} ELSE {})}
    /\ UNCHANGED <<speaker, file, consumer, ring, played, abort, stopper>>

WaitRing ==
    /\ drain.pc = "wait" /\ ring.sem > 0
    /\ ring' = [ring EXCEPT !.sem = @ - 1]
    /\ drain' = [drain EXCEPT !.pc = IF ring.stopped THEN "tail" ELSE "process"]
    /\ UNCHANGED <<speaker, file, consumer, played, abort, stopper>>

Process ==
    /\ drain.pc = "process"
    /\ IF ring.data = <<>>
       THEN drain' = [drain EXCEPT !.pc = "test"] /\ UNCHANGED ring
       ELSE /\ drain' = [pc |-> IF ring.started THEN "give" ELSE "start", chunk |-> Head(ring.data)]
            /\ ring' = [ring EXCEPT !.data = Tail(@)]
    /\ UNCHANGED <<speaker, file, consumer, played, abort, stopper>>

\* media_player_prepare and media_player_start, when the first data is there.
StartPlayer ==
    /\ drain.pc = "start"
    /\ \/ ring' = [ring EXCEPT !.started = TRUE] /\ drain' = [drain EXCEPT !.pc = "give"]
       \/ /\ "player" \in Faults
          /\ ring' = [ring EXCEPT !.stopped = TRUE] /\ drain' = [drain EXCEPT !.pc = "tail"]
    /\ UNCHANGED <<speaker, file, consumer, played, abort, stopper>>

\* media_player_write_data; it may fail, in particular once the player is stopped.
Give ==
    /\ drain.pc = "give"
    /\ \/ /\ played' = Append(played, drain.chunk)
          /\ drain' = [drain EXCEPT !.pc = IF ring.stopped THEN "tail" ELSE "process"]
          /\ UNCHANGED ring
       \/ /\ "player" \in Faults \/ ring.stopped
          /\ ring' = [ring EXCEPT !.stopped = TRUE]
          /\ drain' = [drain EXCEPT !.pc = "tail"]
          /\ UNCHANGED played
    /\ UNCHANGED <<speaker, file, consumer, abort, stopper>>

\* What is left in the ring when the loop ends.
DrainTail ==
    /\ drain.pc = "tail"
    /\ IF ring.eos /\ ~ring.stopped /\ ring.started /\ ring.data # <<>>
       THEN /\ played' = Append(played, Head(ring.data))
            /\ ring' = [ring EXCEPT !.data = Tail(@)]
            /\ UNCHANGED drain
       ELSE drain' = [drain EXCEPT !.pc = "gone"] /\ UNCHANGED <<played, ring>>
    /\ UNCHANGED <<speaker, file, consumer, abort, stopper>>

DrainStep == Test \/ Prebuffer \/ WaitRing \/ Process \/ StartPlayer \/ Give \/ DrainTail

----------------------------------------------------------------------------
(* An interruption: s_voice.lock is held from Interrupt to StopRing. *)

Interrupt ==
    /\ stopper = "away" /\ speaker.pc \notin {"idle", "done"}
    /\ stopper' = "file" /\ abort' = TRUE
    /\ UNCHANGED <<speaker, file, consumer, ring, drain, played>>

StopFile ==
    /\ stopper = "file"
    /\ stopper' = "ring"
    /\ file' = [file EXCEPT !.eof = TRUE, !.sem = @ + 1]
    /\ UNCHANGED <<speaker, consumer, ring, drain, played, abort>>

\* audio_playback_stop under s_tts_pb_lock, which a writing consumer and
\* audio_playback_close hold; after the close there is no playback to stop.
StopRing ==
    /\ stopper = "ring"
    /\ consumer.pc \notin {"enter", "write"} /\ speaker.pc \notin {"close", "joinDrain"}
    /\ stopper' = "back"
    /\ ring' = IF speaker.pc = "closed" THEN ring
               ELSE [ring EXCEPT !.stopped = TRUE, !.sem = @ + 1]
    /\ UNCHANGED <<speaker, file, consumer, drain, played, abort>>

StopperStep == Interrupt \/ StopFile \/ StopRing

Next == SpeakerStep \/ ConsumerStep \/ DrainStep \/ StopperStep

\* Every thread is scheduled; a stop once begun is carried through.
Fairness ==
    /\ WF_vars(SpeakerStep) /\ WF_vars(ConsumerStep) /\ WF_vars(DrainStep)
    /\ WF_vars(StopFile) /\ SF_vars(StopRing)

Spec == Init /\ [][Next]_vars /\ Fairness

----------------------------------------------------------------------------
TypeOK ==
    /\ speaker \in [pc : {"idle", "stream", "eof", "joinConsumer", "close", "joinDrain", "closed", "done"},
                    made : 0..Chunks]
    /\ Len(file.data) <= Chunks /\ file.read <= Len(file.data)
    /\ Len(ring.data) <= RingSize
    /\ Len(played) <= Chunks
    /\ drain.pc \in {"off", "test", "prebuffer", "wait", "process", "start", "give", "tail", "gone"}

\* Nothing is played twice, out of order or before it was synthesised, and when
\* the speaker is done everything that reached the file has been played, unless
\* the playback was stopped: by an interruption or by a failing player.  Short
\* answers that never fill a prebuffer are included.
EverythingPlayed ==
    /\ played = SubSeq(file.data, 1, Len(played))
    /\ speaker.pc = "done" /\ ~ring.stopped => played = file.data

\* The speaking thread comes back, whatever stops or fails on the way.
Waiting == speaker.pc \notin {"idle", "done"}
SpeakerReturns == Waiting ~> ~Waiting
=============================================================================
