------------------------------ MODULE MCDevice ------------------------------
(***************************************************************************)
(* The TLC instance of what drives the board's devices: the playback of    *)
(* one answer, the sentence pipeline, the push-to-talk sessions beside the *)
(* speaking threads, the camera on the other board, the recorder and       *)
(* player pages, and the voice of the cloud.  A behaviour follows the      *)
(* component that focus names; the others stay in their initial states.    *)
(***************************************************************************)
EXTENDS Naturals, Sequences, FiniteSets

CONSTANTS Chunks, RingSize, RingPrebuffer, FilePrebuffer, PlaybackFaults,     \* of TtsPlayback
          Sentences, PipeLen,                                                 \* of TtsPipeline
          Speakers, MaxSessions, MaxCalls, MaxWarms, ChannelFaults,           \* of VoiceChannel
          Frames, MaxRetrans, MaxPresses, MaxLost, MaxUartLost, PatientUser,  \* of CameraTransfer
          MaxFiles, MaxListed, MaxVisits, MaxPlays,                           \* of RecorderPlayer
          MaxResponses, MaxPieces, OmniPrebuffer                              \* of OmniPlayback

VARIABLES focus,
          speaker, file, consumer, ring, drain, played, abort, stopper,
          pq, pipe, feeder, aborter, worker, heard, bus,
          state, cap, slot, warm, refs, ends, user, rec, conns, warmers, tts, speakLock, talk,
          sessions, speaks,
          busy, name, fd, image, bitmap, nframes, total, session, active, isBig, timer, spiTimer,
          posted, upc, spc, down, wire, lost, uartLost, presses,
          hpc, photo, taken, left, sid, round, cmds, acks,
          page, calls, held, forgotten, recording, path, disk, listed, scan, press, finger,
          dialog, removed, player, going, playing, visits, plays,
          closer, writing, voiceReader, ready, open, cacheFile, offset, writePos, readPos, eof,
          running, sem, sent, spoken, responses

P == INSTANCE TtsPlayback WITH Faults <- PlaybackFaults
L == INSTANCE TtsPipeline
C == INSTANCE VoiceChannel WITH Faults <- ChannelFaults, LateFailure <- FALSE
K == INSTANCE CameraTransfer WITH file <- image
R == INSTANCE RecorderPlayer WITH lost <- forgotten, Faults <- {"ended"}
O == INSTANCE OmniPlayback WITH
       consumer <- voiceReader, file <- cacheFile, played <- spoken,
       Closers <- {"main"}, Racing <- FALSE, Prebuffer <- OmniPrebuffer

ASSUME PlaybackAssumption == Chunks \in Nat /\ RingSize \in Nat
ASSUME PipelineAssumption == Sentences \in Nat /\ PipeLen \in Nat

(* "none" stands for nobody who holds speak_lock. *)
ASSUME ChannelAssumption ==
  /\ IsFiniteSet(Speakers) /\ "none" \notin Speakers
  /\ MaxSessions \in Nat /\ MaxWarms \in Nat

ASSUME CameraAssumption == Frames \in Seq(Nat \ {0}) /\ MaxRetrans \in Nat

ASSUME RecorderAssumption == /\ MaxFiles \in Nat /\ MaxListed \in Nat
                             /\ MaxVisits \in Nat /\ MaxPlays \in Nat

ASSUME OmniAssumption == MaxResponses \in Nat /\ MaxPieces \in Nat

playbackVars == <<speaker, file, consumer, ring, drain, played, abort, stopper>>
pipelineVars == <<pq, pipe, feeder, aborter, worker, heard, bus>>
channelVars == <<state, cap, slot, warm, refs, ends, user, rec, conns, warmers, tts, speakLock,
                 talk, sessions, speaks>>
cameraVars == <<busy, name, fd, image, bitmap, nframes, total, session, active, isBig, timer,
                spiTimer, posted, upc, spc, down, wire, lost, uartLost, presses,
                hpc, photo, taken, left, sid, round, cmds, acks>>
recorderVars == <<page, calls, held, forgotten, recording, path, disk, listed, scan, press, finger,
                  dialog, removed, player, going, playing, visits, plays>>
omniVars == <<closer, writing, voiceReader, ready, open, cacheFile, offset, writePos, readPos, eof,
              running, sem, sent, spoken, responses>>
audioVars == <<playbackVars, pipelineVars, channelVars>>
pageVars == <<cameraVars, recorderVars, omniVars>>
vars == <<focus, audioVars, pageVars>>

Init == /\ focus \in {"playback", "pipeline", "channel", "camera", "recorder", "omni"}
        /\ P!Init /\ L!Init /\ C!Init /\ K!Init /\ R!Init /\ O!Init

Playback(Step) ==
    focus = "playback" /\ Step /\ UNCHANGED <<focus, pipelineVars, channelVars, pageVars>>
Pipeline(Step) ==
    focus = "pipeline" /\ Step /\ UNCHANGED <<focus, playbackVars, channelVars, pageVars>>
Channel(Step) ==
    focus = "channel" /\ Step /\ UNCHANGED <<focus, playbackVars, pipelineVars, pageVars>>
Camera(Step) ==
    focus = "camera" /\ Step /\ UNCHANGED <<focus, audioVars, recorderVars, omniVars>>
Recorder(Step) ==
    focus = "recorder" /\ Step /\ UNCHANGED <<focus, audioVars, cameraVars, omniVars>>
Omni(Step) ==
    focus = "omni" /\ Step /\ UNCHANGED <<focus, audioVars, cameraVars, recorderVars>>

Next == Playback(P!Next) \/ Pipeline(L!Next) \/ Channel(C!Next) \/ Camera(K!Next)
           \/ Recorder(R!Next) \/ Omni(O!Next)

(* The threads of each component are scheduled, and the network ends by a  *)
(* time-out; users, aborts and preconnections need not happen.  As one     *)
(* component steps in a behaviour, a fairness condition stands for one     *)
(* thread of each, and the last one, for every speaker, for that thread.   *)
First == Playback(P!SpeakerStep) \/ Pipeline(L!FeederStep) \/ Channel(C!UserStep)
            \/ Camera(K!LvglStep) \/ Recorder(R!UiStep) \/ Omni(O!ConsumerStep)
Second == Playback(P!ConsumerStep) \/ Pipeline(L!AbortStep) \/ Channel(C!RecStep)
            \/ Camera(K!UartStep) \/ Omni(O!MainStep)
Third == Playback(P!DrainStep) \/ Pipeline(L!WorkerStep) \/ Channel(C!ConnectStep)
            \/ Camera(K!SpiStep)
Fourth(s) == Playback(P!StopFile) \/ Channel(C!SpeakStep(s)) \/ Camera(K!HubStep)

Spec == /\ Init /\ [][Next]_vars
        /\ WF_vars(First) /\ WF_vars(Second) /\ WF_vars(Third)
        /\ \A s \in Speakers : WF_vars(Fourth(s))
        /\ SF_vars(Playback(P!StopRing))

(* Each component keeps to its types. *)
TypesOK == P!TypeOK /\ L!TypeOK /\ C!TypeOK /\ K!TypeOK /\ R!TypeOK /\ O!TypeOK

(* What is synthesised is heard: the chunks of an answer in TtsPlayback,   *)
(* the sentences of an answer in TtsPipeline, the pieces of a response of  *)
(* the cloud in OmniPlayback.                                              *)
EverythingPlayed == P!EverythingPlayed /\ L!SentencesInOrder /\ O!PlayedInOrder /\ O!PlayedWhole

(* The properties of the push-to-talk channel, stated in VoiceChannel. *)
ChannelInOrder == C!StreamsOwned /\ C!PowerSaveOff

(* Only what is missing of a photo is sent again, as CameraTransfer states. *)
OnlyMissingAgain == K!OnlyMissingAgain

(* Files are what the page takes them for: the photo that is shown is the  *)
(* one that the hub sent, the recording that is deleted is the one that    *)
(* the dialog named, and one that goes on is not listed.                   *)
FilesAsShown == K!PhotoIsWhole /\ R!DeletesShown /\ R!ListedIsWhole

(* A page that is idle or left holds no device: the camera page its file   *)
(* and its timers, the recorder page its capture, also beside a player.    *)
IdleIsClosed == K!IdleIsClosed /\ R!RecordingHeld /\ R!PipelineFree

(* No call of the voice channel and no capture lasts for ever.  As the     *)
(* other components stay where nobody waits, this is SpeakerReturns,       *)
(* PipelineEnds, CallsReturn, PagesLeft, CloseReturns or, while no UART    *)
(* frame is lost, CaptureEnds, whichever has the focus.                    *)
DeviceEnds ==
    LET Waiting == P!Waiting \/ L!Waiting \/ C!Waiting \/ K!Waiting \/ R!Waiting \/ O!Waiting
    IN Waiting ~> ~Waiting
-----------------------------------------------------------------------------
(* The values of the TLC run: a ring smaller than the answer, and          *)
(* prebuffers that are reached or time out; twice as many sentences as the *)
(* queue holds; two recordings, or one beside an answer, or two answers;   *)
(* photos of different sizes, and enough losses to use up the              *)
(* retransmissions; a recording more than the page lists, and two visits;  *)
(* responses shorter and longer than the prebuffer, one after the other.   *)
TwoPhotos == <<3, 2>>
=============================================================================
