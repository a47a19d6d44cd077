----------------------------- MODULE FrameReaders -----------------------------
(***************************************************************************)
(* The WebSocket connections of the program.  There is no library for      *)
(* them: nine files upgrade a connection, read frames and answer pings,    *)
(* each in its own way.                                                    *)
(*   - voice/ws_conn_pool.c ("pool"), dashscope_tts.c ("speech"),          *)
(*     volc_tts_ws.c ("voice"), volc_asr.c ("ear"), dashscope_asr.c        *)
(*     ("cloud"), meeting_asr.c ("meeting")                                *)
(*   - channels/feishu_ws.c ("feishu"), channels/ws_server.c ("server"),   *)
(*     node/node_client.c ("node")                                         *)
(* A frame is a head, a second length field if it is long, and its data.   *)
(* What each reader takes from the line for a frame, what it keeps of what *)
(* comes with the answer to its upgrade, and what it does when the rest of *)
(* a frame is late, are operators of their own.  A behaviour follows one   *)
(* of the readers.                                                         *)
(***************************************************************************)
EXTENDS Naturals, Sequences

CONSTANTS Readers,   \* the readers that are followed
          MaxFrames, \* frames that the peer of each sends
          Extra,     \* pairs of a reader and an op that its peer does not send otherwise
          Large,     \* readers whose peer sends frames longer than their buffer
          Again,     \* a time-out of a socket is reported as nothing to read, as the pool
                     \* expects, and not as a failure, as volc_tts_ws.c expects
          Stalled,   \* pairs of a reader and a kind of frame, within which its line may be quiet
          Silent,    \* readers whose line may be dead for good
          Overfull,  \* more comes with the answer to an upgrade than is kept
          Crossing   \* a ping is answered while another thread sends, by those that take no
                     \* lock for it

VARIABLES reader, \* the one that is followed
          phase,  \* "connect", "upgrade", "setup", "open", "ended", "closed"
          coming, \* what the peer has sent and the line has not brought
          wire,   \* what can be read
          rest,   \* what is still to be read of the frame that is being read
          as,     \* what becomes of it
          frames, \* frames that the peer has sent
          told,   \* those that say something
          given,  \* those that the reader has handed on
          audio,  \* audio among them, of the sentence that is spoken
          sender, \* another thread is within a frame of its own
          dead,   \* the line is dead
          torn    \* a pong was written within a frame

frameVars == <<reader, phase, coming, wire, rest, as, frames, told, given, audio, sender,
              dead, torn>>

(* Sizes: none, up to 125 bytes, longer, longer than the buffer.           *)
Ops == {"text", "binary", "ping", "pong", "close"}
Data == {"text", "binary"}
Frame == [n : 0..MaxFrames[reader], op : Ops, size : 0..3]
Second(f) == IF f.size >= 2 THEN 1 ELSE 0
All(f) == Second(f) + f.size
Units(f) == <<[f |-> f, head |-> TRUE]>> \o [i \in 1..All(f) |-> [f |-> f, head |-> FALSE]]

TypeOK ==
    /\ reader \in Readers
    /\ phase \in {"connect", "upgrade", "setup", "open", "ended", "closed"} /\ audio \in BOOLEAN
    /\ coming \in Seq([f : Frame, head : BOOLEAN]) /\ wire \in Seq([f : Frame, head : BOOLEAN])
    /\ rest \in 0..4 /\ as \in {"none", "given", "skipped", "answered", "end", "error"}
    /\ frames \in 0..MaxFrames[reader] /\ told \in 0..frames /\ given \in Seq(1..MaxFrames[reader])
    /\ sender \in {"idle", "within"} /\ dead \in BOOLEAN /\ torn \in BOOLEAN

Init ==
    /\ reader \in Readers /\ phase = "connect" /\ coming = <<>> /\ wire = <<>>
    /\ rest = 0 /\ as = "none" /\ frames = 0 /\ told = 0 /\ given = <<>> /\ audio = FALSE
    /\ sender = "idle" /\ dead = FALSE /\ torn = FALSE

-----------------------------------------------------------------------------
(* What is read of a frame after its head, and what becomes of it.         *)
Read(n, what) == [left |-> n, as |-> what]
OfPing(f) == Read(IF f.size <= 1 THEN f.size ELSE 1, "answered")
Whole(f) == CASE f.size = 0 -> Read(0, "end")
              [] f.size = 3 -> Read(1, "error")
              [] OTHER -> Read(All(f), "given")

(* A text or a binary frame that fits; another opcode by the first length, *)
(* whatever stands for it.  As a close returns 0, the length of its data,  *)
(* most take an empty text for one.                                        *)
PoolReads(f) == CASE f.op = "close" -> Read(f.size, "end")
                  [] f.op = "ping" -> OfPing(f)
                  [] f.op \in Data -> Whole(f)
                  [] OTHER -> Read(IF f.size <= 1 THEN f.size ELSE 1, "skipped")

(* What is not text is read away, whatever its length.                     *)
SpeechReads(f) == CASE f.op = "close" -> Read(f.size, "end")
                    [] f.op = "ping" -> OfPing(f)
                    [] f.op = "text" -> Whole(f)
                    [] OTHER -> Read(All(f), "skipped")

(* Every frame is read alike; its data, not its opcode, says what it is.   *)
(* What is too short for a header is skipped by one, an error to the other. *)
VoiceReads(f) == IF f.size = 3 THEN Read(1, "error")
                 ELSE Read(All(f), CASE f.op = "close" -> "end"
                                     [] f.op \in Data /\ f.size > 0 -> "given"
                                     [] OTHER -> "skipped")
EarReads(f) == IF f.size = 3 THEN Read(1, "error")
               ELSE Read(All(f), IF f.op \in Data /\ f.size > 0 THEN "given" ELSE "error")

(* What is neither text nor a ping, or is too long, is left on the line;   *)
(* what is too long ends only a session that is not set up.                *)
CloudReads(f) == CASE f.op = "close" -> Read(f.size, "end")
                   [] f.op = "ping" -> OfPing(f)
                   [] f.op = "text" -> IF f.size = 3 /\ phase = "open" THEN Read(1, "skipped")
                                     ELSE Whole(f)
                   [] OTHER -> Read(0, "skipped")

(* Every frame is read to its end; what does not fit is cut, and an empty  *)
(* text is an answer as long as audio is sent, and the end after that.     *)
MeetingReads(f) == Read(All(f), CASE f.op = "close" -> "end"
                                  [] f.op = "text" -> IF f.size = 0 THEN "empty" ELSE "given"
                                  [] OTHER -> "skipped")

(* A frame that is too long ends the connection.                           *)
ServerReads(f) == CASE f.op = "close" -> Read(0, "end")
                    [] f.op \in {"ping", "pong"} ->
                         IF f.size >= 2 THEN Read(1, "error")
                         ELSE Read(f.size, IF f.op = "ping" THEN "answered" ELSE "skipped")
                    [] f.op \in Data -> Whole(f)

NodeReads(f) == CASE f.op = "close" -> Read(0, "end")
                  [] f.op = "ping" -> Read(All(f), "answered")
                  [] f.op \in Data -> Read(All(f), IF f.size = 0 THEN "end" ELSE "given")
                  [] OTHER -> Read(All(f), "skipped")

FeishuReads(f) == Read(All(f), CASE f.op = "close" -> "end"
                                 [] f.op = "ping" -> "answered"
                                 [] f.op \in Data /\ f.size > 0 -> "given"
                                 [] OTHER -> "skipped")

Reads(f) == CASE reader = "pool" -> PoolReads(f)
              [] reader = "speech" -> SpeechReads(f)
              [] reader = "voice" -> VoiceReads(f)
              [] reader = "ear" -> EarReads(f)
              [] reader = "cloud" -> CloudReads(f)
              [] reader = "meeting" -> MeetingReads(f)
              [] reader = "server" -> ServerReads(f)
              [] reader = "node" -> NodeReads(f)
              [] reader = "feishu" -> FeishuReads(f)

-----------------------------------------------------------------------------
(* What is kept of the frames that come in one piece with the answer to an *)
(* upgrade: three readers hold back as much as their buffer takes, two     *)
(* read the answer byte by byte, and the others drop it.                   *)
Fitting(early) == IF Overfull THEN <<>> ELSE early
PoolKeeps(early) == Fitting(early)
SpeechKeeps(early) == Fitting(early)
CloudKeeps(early) == Fitting(early)
NodeKeeps(early) == early
FeishuKeeps(early) == early
VoiceKeeps(early) == <<>>
EarKeeps(early) == <<>>
MeetingKeeps(early) == <<>>
ServerKeeps(early) == <<>>

Keeps(early) == CASE reader = "pool" -> PoolKeeps(early)
                  [] reader = "speech" -> SpeechKeeps(early)
                  [] reader = "cloud" -> CloudKeeps(early)
                  [] reader = "node" -> NodeKeeps(early)
                  [] reader = "feishu" -> FeishuKeeps(early)
                  [] reader = "voice" -> VoiceKeeps(early)
                  [] reader = "ear" -> EarKeeps(early)
                  [] reader = "meeting" -> MeetingKeeps(early)
                  [] reader = "server" -> ServerKeeps(early)

(* How a read ends when nothing comes for as long as it waits: the         *)
(* connection is given up, the next read takes what comes for a head, or   *)
(* the reader goes on waiting.  Before a head there is no frame to lose    *)
(* and "next" is to wait again.  A pool whose sentence was heard at least  *)
(* in part ends the sentence and keeps the connection, and what is read of *)
(* a ping or skipped is not looked at by the first three.                  *)
InData == rest > 0 /\ coming # <<>> /\ rest <= Head(coming).f.size /\ as # "error"
             /\ ~(rest = 1 /\ Head(coming).f.size = 3)
PoolLate == IF as \in {"answered", "skipped"} \/ audio THEN {"next"} ELSE {"closed"}
SpeechLate == IF Again THEN {"waits"}
              ELSE IF as = "answered" \/ (as = "skipped" /\ InData) THEN {"next"} ELSE {"closed"}
CloudLate == IF as = "answered" \/ (Again /\ InData /\ as = "given") THEN {"next"} ELSE {"closed"}
VoiceLate == IF Again THEN {"waits"} ELSE IF audio THEN {"next", "closed"} ELSE {"closed"}
EarLate == IF Again THEN {"waits"} ELSE {"closed"}
MeetingLate == {"next", "closed"}
ServerLate == IF InData /\ as = "given" THEN {"waits"} ELSE {"closed"}
NodeLate == IF Again THEN {"waits"} ELSE {"next", "closed"}
(* Within the data it keeps a lock that its ping then waits for.           *)
FeishuLate == IF Again \/ InData THEN {"waits"} ELSE {"next", "closed"}

(* Before its session is set up a reader ends with the first failure.      *)
SettingUp == {"pool", "speech", "cloud", "meeting"}
ReaderLate == CASE reader = "pool" -> PoolLate
                [] reader = "speech" -> SpeechLate
                [] reader = "ear" -> EarLate
                [] reader = "server" -> ServerLate
                [] reader = "feishu" -> FeishuLate
                [] reader = "voice" -> VoiceLate
                [] reader = "cloud" -> CloudLate
                [] reader = "meeting" -> MeetingLate
                [] reader = "node" -> NodeLate
Late == IF phase = "setup" /\ ReaderLate # {"waits"} /\ (reader = "cloud" => as # "answered")
        THEN {"closed"} ELSE ReaderLate

-----------------------------------------------------------------------------
Linked == phase \in {"setup", "open"}

Gone == /\ phase' = "closed" /\ coming' = <<>> /\ wire' = <<>> /\ rest' = 0 /\ as' = "none"
        /\ sender' = "idle"

Connect ==
    /\ phase = "connect"
    /\ \/ Gone
       \/ phase' = "upgrade" /\ UNCHANGED <<coming, wire, rest, as, sender>>
    /\ UNCHANGED <<reader, frames, told, given, audio, dead, torn>>

(* Services that speak first may do so in one piece with their answer.     *)
SpeakFirst == {"pool", "speech", "cloud", "feishu"}

Upgrade ==
    /\ phase = "upgrade"
    /\ \/ Gone
       \/ /\ phase' = (IF reader \in SettingUp THEN "setup" ELSE "open")
          /\ wire' = Keeps(coming) /\ coming' = <<>>
          /\ UNCHANGED <<rest, as, sender>>
    /\ UNCHANGED <<reader, frames, told, given, audio, dead, torn>>

(* The peer: the opcodes of each, control frames short.                    *)
Sends == (CASE reader \in {"pool", "speech", "cloud", "meeting"} -> {"text", "ping", "close"}
            [] reader \in {"voice", "ear"} -> {"binary", "close"}
            [] reader = "server" -> {"text", "ping", "close"}
            [] reader = "node" -> {"text", "pong", "close"}
            [] reader = "feishu" -> {"binary", "ping", "pong"})
         \cup {op \in Ops : <<reader, op>> \in Extra}

Send(op, size) ==
    /\ Linked \/ (phase = "upgrade" /\ reader \in SpeakFirst)
    /\ frames < MaxFrames[reader] /\ ~dead
    /\ op \in Sends /\ (op \notin Data => size <= 1) /\ (size = 3 => reader \in Large)
    /\ coming = <<>> /\ ~(\E i \in 1..Len(wire) : wire[i].f.op = "close")
    /\ frames' = frames + 1 /\ told' = told + (IF op \in Data /\ size > 0 THEN 1 ELSE 0)
    /\ coming' = Units([n |-> told', op |-> op, size |-> size])
    /\ UNCHANGED <<reader, phase, wire, rest, as, given, audio, sender, dead, torn>>

(* The line brings it in pieces.                                           *)
Bring ==
    /\ Linked /\ coming # <<>> /\ ~dead
    /\ wire' = Append(wire, Head(coming)) /\ coming' = Tail(coming)
    /\ UNCHANGED <<reader, phase, rest, as, frames, told, given, audio, sender, dead, torn>>

(* Or no longer brings it.                                                 *)
Die ==
    /\ reader \in Silent /\ Linked /\ ~dead
    /\ dead' = TRUE
    /\ UNCHANGED <<reader, phase, coming, wire, rest, as, frames, told, given, audio, sender, torn>>

(* A frame that is read: handed on, skipped, answered with a pong, or the  *)
(* end.  While a session is set up, anything but a text is the end for     *)
(* most.  A text may be the audio of a sentence, its end, or a failure     *)
(* that ends the connection; the pool keeps it for the next sentence if    *)
(* this one was heard, even if what came last was an error.                *)
Consumed == rest' = 0 /\ as' = "none" /\ wire' = Tail(wire) /\ UNCHANGED <<coming, sender>>
Aborts == phase = "setup" /\ reader # "cloud"
LastSays == IF phase = "setup" THEN {"speech", "cloud"}
            ELSE {"pool", "speech", "voice", "ear", "cloud", "meeting"}
Heard == CASE phase = "open" /\ reader = "pool" -> BOOLEAN
           [] phase = "open" /\ reader = "voice" -> {audio, TRUE}
           [] OTHER -> {audio}
Unlocked == {"server", "node"}
Over(f, what) ==
    CASE what = "given" ->
           /\ given' = Append(given, f.n) /\ UNCHANGED torn
           /\ \/ Consumed /\ phase' \in {phase, "open"} /\ audio' \in Heard
              \/ reader \in LastSays /\ Gone /\ UNCHANGED audio
      [] what \in {"end", "error"} /\ audio /\ reader = "pool" ->
           /\ Consumed /\ phase' = (IF what = "end" THEN "ended" ELSE "open")
           /\ audio' = FALSE /\ UNCHANGED <<given, torn>>
      [] what = "empty" -> /\ \/ Consumed /\ phase' = "open"
                              \/ phase = "open" /\ Gone
                           /\ UNCHANGED <<given, audio, torn>>
      [] what = "skipped" /\ ~Aborts -> Consumed /\ UNCHANGED <<phase, given, audio, torn>>
      [] what = "answered" /\ ~Aborts ->
           /\ sender = "idle" \/ (Crossing /\ reader \in Unlocked)
           /\ torn' = (torn \/ sender = "within")
           /\ Consumed /\ UNCHANGED <<phase, given, audio>>
      [] OTHER -> Gone /\ UNCHANGED <<given, audio, torn>>

(* What the peer of the pool has ended is noticed with the next sentence.  *)
NextSentence ==
    /\ phase = "ended" /\ Gone
    /\ UNCHANGED <<reader, frames, told, given, audio, dead, torn>>

(* A head.  What is not one, taken for one, says anything.                 *)
ReadHead ==
    /\ Linked /\ rest = 0 /\ wire # <<>>
    /\ reader = "feishu" => sender = "idle"
    /\ LET u == Head(wire)
           f == u.f
           read == Reads(f)
       IN IF ~u.head THEN Gone /\ UNCHANGED <<given, audio, torn>>
          ELSE IF read.left = 0 THEN Over(f, read.as)
          ELSE /\ rest' = read.left /\ as' = read.as /\ wire' = Tail(wire)
               /\ UNCHANGED <<phase, coming, given, audio, sender, torn>>
    /\ UNCHANGED <<reader, frames, told, dead>>

ReadRest ==
    /\ Linked /\ rest > 0 /\ wire # <<>>
    /\ IF rest = 1 THEN Over(Head(wire).f, as)
       ELSE /\ rest' = rest - 1 /\ wire' = Tail(wire)
            /\ UNCHANGED <<phase, coming, as, given, audio, sender, torn>>
    /\ UNCHANGED <<reader, frames, told, dead>>

(* Nothing comes for as long as a read waits.                              *)
TimeOut ==
    /\ Linked /\ wire = <<>>
    /\ dead \/ (rest > 0 /\ <<reader, as>> \in Stalled)
    /\ \/ "closed" \in Late /\ Gone /\ UNCHANGED audio
       \/ /\ "next" \in Late /\ rest' = 0 /\ as' = "none"
          /\ audio' = (audio /\ (reader = "pool" => as \in {"answered", "skipped"}))
          /\ UNCHANGED <<phase, coming, wire, sender>>
    /\ UNCHANGED <<reader, frames, told, given, dead, torn>>

(* Another thread sends a frame, its head and its data in two calls, under *)
(* a lock that feishu_ws.c also holds while it reads.                      *)
Write ==
    /\ Linked /\ reader \in {"server", "node", "feishu"}
    /\ reader = "feishu" /\ sender = "idle" => rest = 0
    /\ sender' = (IF sender = "idle" THEN "within" ELSE "idle")
    /\ UNCHANGED <<reader, phase, coming, wire, rest, as, frames, told, given, audio, dead, torn>>

ReaderStep == Connect \/ Upgrade \/ ReadHead \/ ReadRest

Next == \/ ReaderStep \/ NextSentence \/ TimeOut \/ Bring \/ Die \/ Write
        \/ \E op \in Ops, size \in 0..3 : Send(op, size)

(* A lock that is free again and again is got.                             *)
Spec == /\ Init /\ [][Next]_frameVars
        /\ SF_frameVars(ReaderStep) /\ WF_frameVars(Bring)
        /\ WF_frameVars(dead /\ TimeOut) /\ WF_frameVars(sender = "within" /\ Write)

-----------------------------------------------------------------------------
(* A reader that is about to read a head finds one: whatever frames came   *)
(* before, it has taken all of them from the line, or given the line up.   *)
InStep == Linked /\ rest = 0 /\ wire # <<>> => Head(wire).head

(* What is handed on are the peer's texts and data in their order, from    *)
(* the first one on, none twice and none left out.                         *)
GivenInOrder == \A i \in 1..Len(given) : given[i] = i

(* A pong is not written between the head and the data of another frame.   *)
PongsApart == ~torn

(* A reader does not wait within a frame for ever.                         *)
Within == Linked /\ rest > 0
ReadsEnd == Within ~> ~Within
=============================================================================
