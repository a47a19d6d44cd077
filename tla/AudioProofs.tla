---------------------------- MODULE AudioProofs -----------------------------
(***************************************************************************)
(* Proofs about what is heard: the playback of an answer, the sentence     *)
(* pipeline and the voice of the cloud, components of MCDevice, for any    *)
(* sizes of rings, queues and answers; and the types of the whole device.  *)
(***************************************************************************)
EXTENDS DeviceProofs

-----------------------------------------------------------------------------
(* The playback of one answer.                                             *)
SpeakerType ==
  speaker \in [pc : {"idle", "stream", "eof", "joinConsumer", "close", "joinDrain", "closed",
                     "done"}, made : 0..Chunks]
FileType == file \in [data : Seq(Nat), read : Nat, eof : BOOLEAN, feeding : BOOLEAN, sem : Nat]
ConsumerType ==
  consumer \in [pc : {"off", "look", "decide", "wait", "enter", "write", "gone"},
                avail : Nat, total : Nat, eof : BOOLEAN, ready : BOOLEAN, chunk : Nat]
RingType == ring \in [data : Seq(Nat), sem : Nat, eos : BOOLEAN, draining : BOOLEAN,
                      stopped : BOOLEAN, started : BOOLEAN]
DrainType == drain \in [pc : {"off", "test", "prebuffer", "wait", "process", "start", "give",
                              "tail", "gone"}, chunk : Nat]
OtherTypes == /\ played \in Seq(Nat) /\ abort \in BOOLEAN
              /\ stopper \in {"away", "file", "ring", "back"}
Bounds == /\ Len(file.data) <= speaker.made /\ file.read <= Len(file.data)
          /\ Len(ring.data) <= RingSize
Playbacks == /\ SpeakerType /\ FileType /\ ConsumerType /\ RingType /\ DrainType
             /\ OtherTypes /\ Bounds

(* What was played, the chunk that the drain thread has in hand, the ring  *)
(* and the chunk that the consumer carries are what was read of the file,  *)
(* until a stop throws some of it away.                                    *)
InHand == IF drain.pc \in {"start", "give"} THEN 1 ELSE 0
Carried == IF consumer.pc \in {"enter", "write"} THEN 1 ELSE 0
DrainOver == drain.pc \in {"tail", "gone"}
Passed == Len(played) + InHand
Flow ==
  /\ Len(played) <= file.read
  /\ \A i \in 1..Len(played) : played[i] = file.data[i]
  /\ ~DrainOver \/ ~ring.stopped =>
       /\ Passed + Len(ring.data) <= file.read
       /\ InHand = 1 => drain.chunk = file.data[Passed]
       /\ \A i \in 1..Len(ring.data) : ring.data[i] = file.data[Passed + i]
  /\ Carried = 1 => file.read > 0 /\ consumer.chunk = file.data[file.read]
  /\ ~ring.stopped => Passed + Len(ring.data) + Carried = file.read
  /\ consumer.pc = "write" /\ ring.stopped => DrainOver

(* How far the threads are: the file does not grow after its end mark, the *)
(* consumer has read all of it when it is gone, and the ring is closed     *)
(* after that.                                                             *)
Closing ==
  /\ speaker.pc = "idle" => /\ consumer.pc = "off" /\ drain.pc = "off" /\ ~file.eof
                            /\ stopper = "away"
  /\ speaker.pc # "idle" => consumer.pc # "off" /\ drain.pc # "off"
  /\ file.eof /\ speaker.pc = "stream" => abort
  /\ stopper = "file" => abort
  /\ consumer.eof => file.eof
  /\ consumer.pc = "decide" => /\ consumer.avail <= Len(file.data) - file.read
                               /\ consumer.eof => consumer.avail = Len(file.data) - file.read
  /\ consumer.pc = "gone" => file.eof /\ file.read = Len(file.data)
  /\ speaker.pc \in {"close", "joinDrain", "closed", "done"} \/ ring.eos => consumer.pc = "gone"
  /\ speaker.pc \in {"stream", "eof", "joinConsumer", "close"} => ring.draining
  /\ speaker.pc \in {"close", "joinDrain", "closed", "done"} => ring.eos
  /\ speaker.pc \in {"closed", "done"} => drain.pc = "gone"
  /\ DrainOver /\ ~ring.stopped => ring.data = <<>> /\ ~ring.draining

PlaybackInv == Playbacks /\ Flow /\ Closing

LEMMA PlaybackInit == P!Init /\ PlaybackAssumption => PlaybackInv
  <1> SUFFICES ASSUME P!Init, PlaybackAssumption PROVE PlaybackInv
    OBVIOUS
  <1>1. <<>> \in Seq(Nat) /\ Len(<<>>) = 0
    BY EmptySeq
  <1>2. Playbacks
    <2>1. SpeakerType
      BY <1>1 DEF P!Init, PlaybackAssumption, Playbacks, SpeakerType
    <2>2. FileType
      BY <1>1 DEF P!Init, PlaybackAssumption, Playbacks, FileType, ConsumerType
    <2>3. ConsumerType
      BY <1>1 DEF P!Init, PlaybackAssumption, Playbacks, ConsumerType, FileType
    <2>4. RingType
      BY <1>1 DEF P!Init, PlaybackAssumption, Playbacks, RingType, ConsumerType
    <2>5. DrainType
      BY <1>1 DEF P!Init, PlaybackAssumption, Playbacks, DrainType, RingType
    <2>6. OtherTypes
      BY <1>1 DEF P!Init, PlaybackAssumption, Playbacks, OtherTypes, RingType, DrainType
    <2>7. Bounds
      BY <1>1 DEF P!Init, PlaybackAssumption, Playbacks, Bounds, SpeakerType, FileType, RingType,
         ConsumerType
    <2> QED
      BY <2>1, <2>2, <2>3, <2>4, <2>5, <2>6, <2>7 DEF Playbacks
  <1>3. Flow /\ Closing
    BY <1>1 DEF P!Init, Flow, Closing, InHand, Carried, Passed, DrainOver
  <1> QED
    BY <1>2, <1>3 DEF PlaybackInv

PlaybackNumbers ==
  /\ Chunks \in Nat /\ RingSize \in Nat /\ speaker.made \in 0..Chunks
  /\ Len(file.data) \in Nat /\ Len(ring.data) \in Nat /\ Len(played) \in Nat
  /\ file.read \in Nat /\ file.read <= Len(file.data) /\ consumer.avail \in Nat
  /\ InHand \in {0, 1} /\ Carried \in {0, 1}
  /\ InHand \in Nat /\ Carried \in Nat /\ Passed \in Nat
PlaybackSeqs ==
  /\ file.data \in Seq(Nat) /\ ring.data \in Seq(Nat) /\ played \in Seq(Nat)
  /\ drain.chunk \in Nat /\ consumer.chunk \in Nat
  /\ \A i \in 1..Len(file.data) : file.data[i] \in Nat
  /\ speaker.pc \in {"idle", "stream", "eof", "joinConsumer", "close", "joinDrain", "closed", "done"}

LEMMA PlaybackFacts ==
  ASSUME PlaybackInv, PlaybackAssumption
  PROVE  Playbacks /\ Flow /\ Closing /\ PlaybackNumbers /\ PlaybackSeqs
  <1>0. Playbacks /\ Flow /\ Closing
    BY DEF PlaybackInv
  <1>1. file.data \in Seq(Nat) /\ ring.data \in Seq(Nat) /\ played \in Seq(Nat)
    BY <1>0 DEF Playbacks, FileType, RingType, OtherTypes
  <1>2. /\ Len(file.data) \in Nat /\ Len(ring.data) \in Nat /\ Len(played) \in Nat
        /\ \A i \in 1..Len(file.data) : file.data[i] \in Nat
    BY <1>1, LenProperties, ElementOfSeq
  <1>3. file.read \in Nat /\ file.read <= Len(file.data)
    BY <1>0 DEF Playbacks, FileType, Bounds
  <1>4. /\ speaker.made \in 0..Chunks /\ drain.chunk \in Nat /\ consumer.chunk \in Nat
        /\ consumer.avail \in Nat
        /\ speaker.pc \in {"idle", "stream", "eof", "joinConsumer", "close", "joinDrain", "closed", "done"}
    BY <1>0 DEF Playbacks, SpeakerType, DrainType, ConsumerType
  <1>5. InHand \in {0, 1} /\ Carried \in {0, 1} /\ Passed \in Nat
    BY <1>0, <1>2 DEF InHand, Carried, Passed
  <1> QED
    BY <1>0, <1>1, <1>2, <1>3, <1>4, <1>5 DEF PlaybackNumbers, PlaybackSeqs, PlaybackAssumption

LEMMA FlowStays ==
  ASSUME Flow, played' = played, drain'.chunk = drain.chunk, ring'.data = ring.data,
         ring'.stopped = ring.stopped, consumer'.chunk = consumer.chunk,
         file'.data = file.data, file'.read = file.read,
         InHand' = InHand, Carried' = Carried, DrainOver' <=> DrainOver,
         consumer'.pc = "write" => consumer.pc = "write"
  PROVE  Flow'
  BY DEF Flow, Passed

LEMMA PlaybackOpen ==
  ASSUME PlaybackInv, PlaybackAssumption, P!Open PROVE PlaybackInv'
  <1>0. Playbacks /\ Flow /\ Closing /\ PlaybackNumbers /\ PlaybackSeqs
    BY PlaybackFacts
  <1>1. /\ UNCHANGED <<played, stopper>>
        /\ speaker.pc = "idle" /\ abort' = FALSE
        /\ speaker' = [pc |-> "stream", made |-> speaker.made]
        /\ file' = [data |-> file.data, read |-> file.read, eof |-> file.eof,
                    feeding |-> TRUE, sem |-> file.sem]
        /\ ring' = [data |-> ring.data, sem |-> ring.sem, eos |-> ring.eos,
                    draining |-> TRUE, stopped |-> ring.stopped,
                    started |-> ring.started]
        /\ consumer' = [pc |-> "look", avail |-> consumer.avail,
                        total |-> consumer.total, eof |-> consumer.eof,
                        ready |-> consumer.ready, chunk |-> consumer.chunk]
        /\ drain' = [pc |-> "test", chunk |-> drain.chunk]
    BY <1>0 DEF P!Open, Playbacks, SpeakerType, FileType, ConsumerType, RingType, DrainType
  <1>2. Playbacks'
    <2>1. SpeakerType'
      BY <1>0, <1>1 DEF Playbacks, SpeakerType
    <2>2. FileType'
      BY <1>0, <1>1 DEF Playbacks, FileType
    <2>3. ConsumerType'
      BY <1>0, <1>1 DEF Playbacks, ConsumerType
    <2>4. RingType'
      BY <1>0, <1>1 DEF Playbacks, RingType, ConsumerType
    <2>5. DrainType'
      BY <1>0, <1>1 DEF Playbacks, DrainType, RingType
    <2>6. OtherTypes'
      BY <1>0, <1>1 DEF Playbacks, OtherTypes, DrainType
    <2>7. Bounds'
      BY <1>0, <1>1 DEF Playbacks, Bounds, PlaybackNumbers
    <2> QED
      BY <1>0, <2>1, <2>2, <2>3, <2>4, <2>5, <2>6, <2>7 DEF Playbacks
  <1>3. Flow'
    BY <1>0, <1>1, FlowStays DEF InHand, Carried, DrainOver, Closing
  <1>4. Closing'
    BY <1>0, <1>1 DEF Closing, DrainOver, PlaybackNumbers, PlaybackSeqs
  <1> QED
    BY <1>2, <1>3, <1>4 DEF PlaybackInv

LEMMA PlaybackEnqueue ==
  ASSUME PlaybackInv, PlaybackAssumption, P!Enqueue PROVE PlaybackInv'
  <1>0. Playbacks /\ Flow /\ Closing /\ PlaybackNumbers /\ PlaybackSeqs
    BY PlaybackFacts
  <1>1. /\ UNCHANGED <<consumer, ring, drain, played, abort, stopper>>
        /\ speaker.pc = "stream" /\ speaker.made < Chunks
        /\ speaker' = [pc |-> speaker.pc, made |-> speaker.made + 1]
    BY <1>0 DEF P!Enqueue, Playbacks, SpeakerType
  <1>2. SpeakerType' /\ ConsumerType' /\ RingType' /\ DrainType' /\ OtherTypes'
    <2>1. SpeakerType'
      BY <1>0, <1>1 DEF Playbacks, SpeakerType
    <2> QED
      BY <1>0, <1>1, <2>1 DEF Playbacks, ConsumerType, RingType, DrainType, OtherTypes
  <1>3. CASE file'.data = file.data /\ FileType' /\ UNCHANGED <<file.read, file.eof, file.feeding>>
    <2>1. Playbacks'
      BY <1>0, <1>1, <1>2, <1>3 DEF Playbacks, Bounds, PlaybackNumbers
    <2>2. Flow'
      BY <1>0, <1>1, <1>3, FlowStays DEF InHand, Carried, DrainOver
    <2>3. Closing'
      BY <1>0, <1>1, <1>3 DEF Closing, DrainOver
    <2> QED
      BY <2>1, <2>2, <2>3 DEF PlaybackInv
  <1>4. CASE /\ ~abort /\ file'.data = Append(file.data, speaker.made + 1) /\ FileType'
             /\ UNCHANGED <<file.read, file.eof, file.feeding>>
    <2>1. /\ Len(file'.data) = Len(file.data) + 1
          /\ \A i \in 1..Len(file.data) : file'.data[i] = file.data[i]
      BY <1>0, <1>4, AppendFacts DEF PlaybackNumbers, PlaybackSeqs
    <2>2. Playbacks'
      BY <1>0, <1>1, <1>2, <1>4, <2>1 DEF Playbacks, Bounds, PlaybackNumbers
    <2>3. Flow'
      <3>1. /\ InHand' = InHand /\ Carried' = Carried /\ Passed' = Passed
            /\ DrainOver' <=> DrainOver
        BY <1>1 DEF InHand, Carried, Passed, DrainOver
      <3>2. /\ \A i \in 1..Len(played) : played[i] = file'.data[i]
            /\ Carried = 1 => file.read > 0 /\ consumer.chunk = file'.data[file.read]
        <4>1. /\ \A i \in 1..Len(played) : played[i] = file.data[i]
              /\ Len(played) <= file.read
              /\ Carried = 1 => file.read > 0 /\ consumer.chunk = file.data[file.read]
          BY <1>0 DEF Flow
        <4>2. file.read > 0 => file.read \in 1..Len(file.data)
          BY <1>0 DEF PlaybackNumbers
        <4>3. \A i \in 1..Len(played) : i \in 1..Len(file.data)
          BY <1>0, <4>1 DEF PlaybackNumbers
        <4> QED
          BY <2>1, <4>1, <4>2, <4>3
      <3>3. ASSUME ~DrainOver \/ ~ring.stopped
            PROVE  /\ InHand = 1 => drain.chunk = file'.data[Passed]
                   /\ \A i \in 1..Len(ring.data) : ring.data[i] = file'.data[Passed + i]
        <4>1. /\ Passed + Len(ring.data) <= file.read
              /\ InHand = 1 => drain.chunk = file.data[Passed]
              /\ \A i \in 1..Len(ring.data) : ring.data[i] = file.data[Passed + i]
          BY <1>0, <3>3 DEF Flow
        <4>2. InHand = 1 => Passed \in 1..Len(file.data)
          <5>1. InHand = 1 => Passed > 0
            BY <1>0 DEF PlaybackNumbers, Passed
          <5> QED
            BY <1>0, <4>1, <5>1 DEF PlaybackNumbers
        <4>3. ASSUME NEW i \in 1..Len(ring.data) PROVE Passed + i \in 1..Len(file.data)
          BY <1>0, <4>1 DEF PlaybackNumbers
        <4> QED
          BY <2>1, <4>1, <4>2, <4>3
      <3> QED
        BY <1>0, <1>1, <1>4, <3>1, <3>2, <3>3 DEF Flow
    <2>4. Closing'
      <3>1. ~file.eof /\ consumer.pc # "gone" /\ ~consumer.eof
        BY <1>0, <1>1, <1>4 DEF Closing
      <3>2. ASSUME consumer.pc = "decide"
            PROVE  consumer.avail <= Len(file'.data) - file'.read
        <4>1. consumer.avail <= Len(file.data) - file.read
          BY <1>0, <3>2 DEF Closing
        <4> QED
          BY <1>0, <1>4, <2>1, <4>1 DEF PlaybackNumbers
      <3> QED
        BY <1>0, <1>1, <1>4, <3>1, <3>2 DEF Closing, DrainOver
    <2> QED
      BY <2>2, <2>3, <2>4 DEF PlaybackInv
  <1>5. /\ FileType' /\ UNCHANGED <<file.read, file.eof, file.feeding>>
        /\ \/ file'.data = file.data
           \/ ~abort /\ file'.data = Append(file.data, speaker.made + 1)
    <2>1. Append(file.data, speaker.made + 1) \in Seq(Nat)
      BY <1>0, AppendFacts DEF Playbacks, PlaybackNumbers, PlaybackSeqs
    <2>2. CASE file' = file
      BY <1>0, <2>2 DEF Playbacks, FileType
    <2>3. CASE file' = [file EXCEPT !.sem = @ + 1]
      BY <1>0, <2>3 DEF Playbacks, FileType
    <2>4. CASE ~abort /\ file' = [file EXCEPT !.data = Append(@, speaker.made + 1), !.sem = @ + 1]
      <3> DEFINE longer == Append(file.data, speaker.made + 1)
      <3>1. file' = [data |-> longer, read |-> file.read, eof |-> file.eof,
                     feeding |-> file.feeding, sem |-> file.sem + 1]
        BY <1>0, <2>4 DEF Playbacks, FileType
      <3>2. longer \in Seq(Nat)
        BY <2>1 DEF PlaybackInv
      <3> HIDE DEF longer
      <3>3. FileType' /\ file'.data = longer /\ UNCHANGED <<file.read, file.eof, file.feeding>>
        BY <1>0, <3>1, <3>2 DEF Playbacks, FileType
      <3> QED
        BY <2>4, <3>3 DEF longer
    <2> QED
      BY <2>2, <2>3, <2>4 DEF P!Enqueue
  <1> QED
    BY <1>3, <1>4, <1>5 DEF PlaybackInv

LEMMA PlaybackMarkEof ==
  ASSUME PlaybackInv, PlaybackAssumption, P!MarkEof PROVE PlaybackInv'
  <1>0. Playbacks /\ Flow /\ Closing /\ PlaybackNumbers /\ PlaybackSeqs
    BY PlaybackFacts
  <1>1. /\ UNCHANGED <<consumer, ring, drain, played, abort, stopper>>
        /\ speaker.pc = "stream"
        /\ speaker' = [pc |-> "eof", made |-> speaker.made]
        /\ file' = [data |-> file.data, read |-> file.read, eof |-> TRUE,
                    feeding |-> file.feeding, sem |-> file.sem + 1]
    BY <1>0 DEF P!MarkEof, Playbacks, SpeakerType, FileType, ConsumerType, RingType, DrainType
  <1>2. Playbacks'
    <2>1. ConsumerType' /\ RingType' /\ DrainType'
      BY <1>0, <1>1 DEF Playbacks, ConsumerType, RingType, DrainType
    <2>2. SpeakerType'
      BY <1>0, <1>1 DEF Playbacks, SpeakerType
    <2>3. FileType'
      BY <1>0, <1>1 DEF Playbacks, FileType
    <2>4. OtherTypes'
      BY <1>0, <1>1 DEF Playbacks, OtherTypes, DrainType
    <2>5. Bounds'
      BY <1>0, <1>1 DEF Playbacks, Bounds, PlaybackNumbers
    <2> QED
      BY <1>0, <2>1, <2>2, <2>3, <2>4, <2>5 DEF Playbacks
  <1>3. Flow'
    BY <1>0, <1>1, FlowStays DEF InHand, Carried, DrainOver, Closing
  <1>4. Closing'
    BY <1>0, <1>1 DEF Closing, DrainOver, PlaybackNumbers, PlaybackSeqs
  <1> QED
    BY <1>2, <1>3, <1>4 DEF PlaybackInv

LEMMA PlaybackStopFeeding ==
  ASSUME PlaybackInv, PlaybackAssumption, P!StopFeeding PROVE PlaybackInv'
  <1>0. Playbacks /\ Flow /\ Closing /\ PlaybackNumbers /\ PlaybackSeqs
    BY PlaybackFacts
  <1>1. /\ UNCHANGED <<consumer, ring, drain, played, abort, stopper>>
        /\ speaker.pc = "eof"
        /\ speaker' = [pc |-> "joinConsumer", made |-> speaker.made]
        /\ file' = [data |-> file.data, read |-> file.read, eof |-> file.eof,
                    feeding |-> FALSE, sem |-> file.sem + 1]
    BY <1>0 DEF P!StopFeeding, Playbacks, SpeakerType, FileType, ConsumerType, RingType, DrainType
  <1>2. Playbacks'
    <2>1. ConsumerType' /\ RingType' /\ DrainType'
      BY <1>0, <1>1 DEF Playbacks, ConsumerType, RingType, DrainType
    <2>2. SpeakerType'
      BY <1>0, <1>1 DEF Playbacks, SpeakerType
    <2>3. FileType'
      BY <1>0, <1>1 DEF Playbacks, FileType
    <2>4. OtherTypes'
      BY <1>0, <1>1 DEF Playbacks, OtherTypes, DrainType
    <2>5. Bounds'
      BY <1>0, <1>1 DEF Playbacks, Bounds, PlaybackNumbers
    <2> QED
      BY <1>0, <2>1, <2>2, <2>3, <2>4, <2>5 DEF Playbacks
  <1>3. Flow'
    BY <1>0, <1>1, FlowStays DEF InHand, Carried, DrainOver, Closing
  <1>4. Closing'
    BY <1>0, <1>1 DEF Closing, DrainOver, PlaybackNumbers, PlaybackSeqs
  <1> QED
    BY <1>2, <1>3, <1>4 DEF PlaybackInv

LEMMA PlaybackCloseRing ==
  ASSUME PlaybackInv, PlaybackAssumption, P!CloseRing PROVE PlaybackInv'
  <1>0. Playbacks /\ Flow /\ Closing /\ PlaybackNumbers /\ PlaybackSeqs
    BY PlaybackFacts
  <1>1. /\ UNCHANGED <<file, consumer, drain, played, abort, stopper>>
        /\ speaker.pc = "joinConsumer" /\ consumer.pc = "gone"
        /\ speaker' = [pc |-> "close", made |-> speaker.made]
        /\ ring' = [data |-> ring.data, sem |-> ring.sem + 1, eos |-> TRUE,
                    draining |-> ring.draining, stopped |-> ring.stopped,
                    started |-> ring.started]
    BY <1>0 DEF P!CloseRing, Playbacks, SpeakerType, FileType, ConsumerType, RingType, DrainType
  <1>2. Playbacks'
    <2>1. FileType' /\ ConsumerType' /\ DrainType'
      BY <1>0, <1>1 DEF Playbacks, FileType, ConsumerType, DrainType
    <2>2. SpeakerType'
      BY <1>0, <1>1 DEF Playbacks, SpeakerType
    <2>3. RingType'
      BY <1>0, <1>1 DEF Playbacks, RingType, ConsumerType
    <2>4. OtherTypes'
      BY <1>0, <1>1 DEF Playbacks, OtherTypes, DrainType
    <2>5. Bounds'
      BY <1>0, <1>1 DEF Playbacks, Bounds, PlaybackNumbers
    <2> QED
      BY <1>0, <2>1, <2>2, <2>3, <2>4, <2>5 DEF Playbacks
  <1>3. Flow'
    BY <1>0, <1>1, FlowStays DEF InHand, Carried, DrainOver, Closing
  <1>4. Closing'
    BY <1>0, <1>1 DEF Closing, DrainOver, PlaybackNumbers, PlaybackSeqs
  <1> QED
    BY <1>2, <1>3, <1>4 DEF PlaybackInv

LEMMA PlaybackStopDraining ==
  ASSUME PlaybackInv, PlaybackAssumption, P!StopDraining PROVE PlaybackInv'
  <1>0. Playbacks /\ Flow /\ Closing /\ PlaybackNumbers /\ PlaybackSeqs
    BY PlaybackFacts
  <1>1. /\ UNCHANGED <<file, consumer, drain, played, abort, stopper>>
        /\ speaker.pc = "close"
        /\ speaker' = [pc |-> "joinDrain", made |-> speaker.made]
        /\ ring' = [data |-> ring.data, sem |-> ring.sem + 1, eos |-> ring.eos,
                    draining |-> FALSE, stopped |-> ring.stopped,
                    started |-> ring.started]
    BY <1>0 DEF P!StopDraining, Playbacks, SpeakerType, FileType, ConsumerType, RingType, DrainType
  <1>2. Playbacks'
    <2>1. FileType' /\ ConsumerType' /\ DrainType'
      BY <1>0, <1>1 DEF Playbacks, FileType, ConsumerType, DrainType
    <2>2. SpeakerType'
      BY <1>0, <1>1 DEF Playbacks, SpeakerType
    <2>3. RingType'
      BY <1>0, <1>1 DEF Playbacks, RingType, ConsumerType
    <2>4. OtherTypes'
      BY <1>0, <1>1 DEF Playbacks, OtherTypes, DrainType
    <2>5. Bounds'
      BY <1>0, <1>1 DEF Playbacks, Bounds, PlaybackNumbers
    <2> QED
      BY <1>0, <2>1, <2>2, <2>3, <2>4, <2>5 DEF Playbacks
  <1>3. Flow'
    BY <1>0, <1>1, FlowStays DEF InHand, Carried, DrainOver, Closing
  <1>4. Closing'
    BY <1>0, <1>1 DEF Closing, DrainOver, PlaybackNumbers, PlaybackSeqs
  <1> QED
    BY <1>2, <1>3, <1>4 DEF PlaybackInv

LEMMA PlaybackJoinDrain ==
  ASSUME PlaybackInv, PlaybackAssumption, P!JoinDrain PROVE PlaybackInv'
  <1>0. Playbacks /\ Flow /\ Closing /\ PlaybackNumbers /\ PlaybackSeqs
    BY PlaybackFacts
  <1>1. /\ UNCHANGED <<file, consumer, ring, drain, played, abort, stopper>>
        /\ speaker.pc = "joinDrain" /\ drain.pc = "gone"
        /\ speaker' = [pc |-> "closed", made |-> speaker.made]
    BY <1>0 DEF P!JoinDrain, Playbacks, SpeakerType, FileType, ConsumerType, RingType, DrainType
  <1>2. Playbacks'
    <2>1. FileType' /\ ConsumerType' /\ RingType' /\ DrainType'
      BY <1>0, <1>1 DEF Playbacks, FileType, ConsumerType, RingType, DrainType
    <2>2. SpeakerType'
      BY <1>0, <1>1 DEF Playbacks, SpeakerType
    <2>3. OtherTypes'
      BY <1>0, <1>1 DEF Playbacks, OtherTypes, DrainType
    <2>4. Bounds'
      BY <1>0, <1>1 DEF Playbacks, Bounds, PlaybackNumbers
    <2> QED
      BY <1>0, <2>1, <2>2, <2>3, <2>4 DEF Playbacks
  <1>3. Flow'
    BY <1>0, <1>1, FlowStays DEF InHand, Carried, DrainOver, Closing
  <1>4. Closing'
    BY <1>0, <1>1 DEF Closing, DrainOver, PlaybackNumbers, PlaybackSeqs
  <1> QED
    BY <1>2, <1>3, <1>4 DEF PlaybackInv

LEMMA PlaybackDone ==
  ASSUME PlaybackInv, PlaybackAssumption, P!Done PROVE PlaybackInv'
  <1>0. Playbacks /\ Flow /\ Closing /\ PlaybackNumbers /\ PlaybackSeqs
    BY PlaybackFacts
  <1>1. /\ UNCHANGED <<file, consumer, ring, drain, played, stopper>>
        /\ speaker.pc = "closed" /\ abort' = FALSE /\ stopper # "file"
        /\ speaker' = [pc |-> "done", made |-> speaker.made]
    BY <1>0 DEF P!Done, Playbacks, SpeakerType, FileType, ConsumerType, RingType, DrainType
  <1>2. Playbacks'
    <2>1. FileType' /\ ConsumerType' /\ RingType' /\ DrainType'
      BY <1>0, <1>1 DEF Playbacks, FileType, ConsumerType, RingType, DrainType
    <2>2. SpeakerType'
      BY <1>0, <1>1 DEF Playbacks, SpeakerType
    <2>3. OtherTypes'
      BY <1>0, <1>1 DEF Playbacks, OtherTypes, DrainType
    <2>4. Bounds'
      BY <1>0, <1>1 DEF Playbacks, Bounds, PlaybackNumbers
    <2> QED
      BY <1>0, <2>1, <2>2, <2>3, <2>4 DEF Playbacks
  <1>3. Flow'
    BY <1>0, <1>1, FlowStays DEF InHand, Carried, DrainOver, Closing
  <1>4. Closing'
    BY <1>0, <1>1 DEF Closing, DrainOver, PlaybackNumbers, PlaybackSeqs
  <1> QED
    BY <1>2, <1>3, <1>4 DEF PlaybackInv

LEMMA PlaybackLook ==
  ASSUME PlaybackInv, PlaybackAssumption, P!Look PROVE PlaybackInv'
  <1>0. Playbacks /\ Flow /\ Closing /\ PlaybackNumbers /\ PlaybackSeqs
    BY PlaybackFacts
  <1>1. /\ UNCHANGED <<speaker, file, ring, drain, played, abort, stopper>>
        /\ consumer.pc = "look"
        /\ consumer' = [pc |-> "decide", avail |-> Len(file.data) - file.read,
                        total |-> Len(file.data), eof |-> file.eof,
                        ready |-> consumer.ready, chunk |-> consumer.chunk]
    BY <1>0 DEF P!Look, Playbacks, SpeakerType, FileType, ConsumerType, RingType, DrainType
  <1>2. Playbacks'
    <2>1. SpeakerType' /\ FileType' /\ RingType' /\ DrainType'
      BY <1>0, <1>1 DEF Playbacks, SpeakerType, FileType, RingType, DrainType
    <2>2. ConsumerType'
      <3>1. Len(file.data) - file.read \in Nat /\ Len(file.data) \in Nat
        BY <1>0 DEF PlaybackNumbers
      <3>2. file.eof \in BOOLEAN
        BY <1>0 DEF Playbacks, FileType
      <3> DEFINE some == Len(file.data) - file.read
                 all == Len(file.data)
      <3>3. consumer' = [pc |-> "decide", avail |-> some, total |-> all, eof |-> file.eof,
                         ready |-> consumer.ready, chunk |-> consumer.chunk]
        BY <1>1
      <3>4. some \in Nat /\ all \in Nat
        BY <3>1
      <3> HIDE DEF some, all
      <3> QED
        BY <1>0, <3>2, <3>3, <3>4 DEF Playbacks, ConsumerType
    <2>3. OtherTypes'
      BY <1>0, <1>1 DEF Playbacks, OtherTypes, DrainType
    <2>4. Bounds'
      BY <1>0, <1>1 DEF Playbacks, Bounds, PlaybackNumbers
    <2> QED
      BY <1>0, <2>1, <2>2, <2>3, <2>4 DEF Playbacks
  <1>3. Flow'
    BY <1>0, <1>1, FlowStays DEF InHand, Carried, DrainOver, Closing
  <1>4. Closing'
    BY <1>0, <1>1 DEF Closing, DrainOver, PlaybackNumbers, PlaybackSeqs
  <1> QED
    BY <1>2, <1>3, <1>4 DEF PlaybackInv

LEMMA PlaybackDecide ==
  ASSUME PlaybackInv, PlaybackAssumption, P!Decide PROVE PlaybackInv'
  <1>0. Playbacks /\ Flow /\ Closing /\ PlaybackNumbers /\ PlaybackSeqs
    BY PlaybackFacts
  <1>1. /\ UNCHANGED <<speaker, ring, drain, played, abort, stopper>>
        /\ consumer.pc = "decide"
    BY  DEF P!Decide
  <1>2. SpeakerType' /\ RingType' /\ DrainType' /\ OtherTypes'
    BY <1>0, <1>1 DEF Playbacks, SpeakerType, RingType, DrainType, OtherTypes
  <1> DEFINE Stays(pc, late) == consumer' = [consumer EXCEPT !.pc = pc, !.ready = late]
  <1>3. CASE file' = file /\ \E late \in BOOLEAN : Stays("wait", late)
    <2>1. PICK late \in BOOLEAN : Stays("wait", late)
      BY <1>3 DEF PlaybackInv
    <2>2. consumer' = [pc |-> "wait", avail |-> consumer.avail, total |-> consumer.total,
                       eof |-> consumer.eof, ready |-> late, chunk |-> consumer.chunk]
      BY <1>0, <2>1 DEF Playbacks, ConsumerType
    <2>3. ConsumerType'
      BY <1>0, <2>2 DEF Playbacks, ConsumerType
    <2>4. Playbacks'
      BY <1>0, <1>1, <1>2, <1>3, <2>3 DEF Playbacks, FileType, Bounds
    <2>5. Flow'
      BY <1>0, <1>1, <1>3, <2>2, FlowStays DEF InHand, Carried, DrainOver
    <2>6. Closing'
      BY <1>0, <1>1, <1>3, <2>2 DEF Closing, DrainOver
    <2> QED
      BY <2>4, <2>5, <2>6 DEF PlaybackInv
  <1>4. CASE file' = file /\ Stays("gone", TRUE) /\ consumer.avail = 0 /\ consumer.eof
    <2>2. consumer' = [pc |-> "gone", avail |-> consumer.avail, total |-> consumer.total,
                       eof |-> consumer.eof, ready |-> TRUE, chunk |-> consumer.chunk]
      BY <1>0, <1>4 DEF Playbacks, ConsumerType
    <2>3. ConsumerType'
      BY <1>0, <2>2 DEF Playbacks, ConsumerType
    <2>4. Playbacks'
      BY <1>0, <1>1, <1>2, <1>4, <2>3 DEF Playbacks, FileType, Bounds
    <2>5. Flow'
      BY <1>0, <1>1, <1>4, <2>2, FlowStays DEF InHand, Carried, DrainOver
    <2>6. Closing'
      BY <1>0, <1>1, <1>4, <2>2 DEF Closing, DrainOver, PlaybackNumbers, PlaybackSeqs
    <2> QED
      BY <2>4, <2>5, <2>6 DEF PlaybackInv
  <1>5. CASE /\ consumer.avail > 0
             /\ consumer' = [consumer EXCEPT !.pc = "enter", !.ready = TRUE,
                                             !.chunk = file.data[file.read + 1]]
             /\ file' = [file EXCEPT !.read = @ + 1]
    <2>1. /\ file.read + 1 \in 1..Len(file.data) /\ file.data[file.read + 1] \in Nat
      <3>1. file.read + 1 \in 1..Len(file.data)
        <4>1. consumer.avail <= Len(file.data) - file.read
          BY <1>0, <1>1 DEF Closing
        <4>2. consumer.avail > 0
          BY <1>5
        <4> QED
          BY <1>0, <4>1, <4>2 DEF PlaybackNumbers
      <3> QED
        BY <1>0, <3>1 DEF PlaybackNumbers, PlaybackSeqs
    <2>2. consumer' = [pc |-> "enter", avail |-> consumer.avail, total |-> consumer.total,
                       eof |-> consumer.eof, ready |-> TRUE, chunk |-> file.data[file.read + 1]]
      BY <1>0, <1>5 DEF Playbacks, ConsumerType
    <2>3. file' = [data |-> file.data, read |-> file.read + 1, eof |-> file.eof,
                   feeding |-> file.feeding, sem |-> file.sem]
      BY <1>0, <1>5 DEF Playbacks, FileType
    <2>4. ConsumerType'
      BY <1>0, <2>1, <2>2 DEF Playbacks, ConsumerType
    <2>5. FileType'
      BY <1>0, <2>1, <2>3 DEF Playbacks, FileType
    <2>6. Playbacks'
      BY <1>0, <1>1, <1>2, <2>1, <2>3, <2>4, <2>5 DEF Playbacks, Bounds, PlaybackNumbers
    <2>7. Flow'
      <3>1. /\ InHand' = InHand /\ Passed' = Passed /\ Carried = 0 /\ Carried' = 1
            /\ DrainOver' <=> DrainOver
        BY <1>1, <2>2 DEF InHand, Carried, Passed, DrainOver
      <3>2. /\ file'.data = file.data /\ file'.read = file.read + 1
            /\ consumer'.chunk = file.data[file.read + 1] /\ consumer'.pc = "enter"
        BY <2>2, <2>3 DEF PlaybackInv
      <3>3. /\ Len(played) <= file.read + 1
            /\ \A n \in Nat : n <= file.read => n <= file.read + 1
            /\ file.read + 1 > 0
        BY <1>0 DEF Flow, PlaybackNumbers
      <3>4. ~DrainOver \/ ~ring.stopped => Passed + Len(ring.data) <= file.read + 1
        <4>1. ~DrainOver \/ ~ring.stopped => Passed + Len(ring.data) <= file.read
          BY <1>0 DEF Flow
        <4> QED
          BY <1>0, <4>1 DEF PlaybackNumbers
      <3>5. ~ring.stopped => Passed + Len(ring.data) + 1 = file.read + 1
        <4>1. ~ring.stopped => Passed + Len(ring.data) + Carried = file.read
          BY <1>0 DEF Flow
        <4> QED
          BY <1>0, <3>1, <4>1 DEF PlaybackNumbers
      <3>6. /\ \A i \in 1..Len(played) : played[i] = file.data[i]
            /\ ~DrainOver \/ ~ring.stopped =>
                 /\ InHand = 1 => drain.chunk = file.data[Passed]
                 /\ \A i \in 1..Len(ring.data) : ring.data[i] = file.data[Passed + i]
        BY <1>0 DEF Flow
      <3> QED
        BY <1>1, <3>1, <3>2, <3>3, <3>4, <3>5, <3>6 DEF Flow
    <2>8. Closing'
      BY <1>0, <1>1, <2>1, <2>2, <2>3 DEF Closing, DrainOver, PlaybackNumbers, PlaybackSeqs
    <2> QED
      BY <2>6, <2>7, <2>8 DEF PlaybackInv
  <1>6. \/ file' = file /\ \E late \in BOOLEAN : Stays("wait", late)
        \/ file' = file /\ Stays("gone", TRUE) /\ consumer.avail = 0 /\ consumer.eof
        \/ /\ consumer.avail > 0
           /\ consumer' = [consumer EXCEPT !.pc = "enter", !.ready = TRUE,
                                           !.chunk = file.data[file.read + 1]]
           /\ file' = [file EXCEPT !.read = @ + 1]
    BY  DEF P!Decide, P!Finished
  <1> QED
    BY <1>3, <1>4, <1>5, <1>6 DEF PlaybackInv

LEMMA PlaybackWaitFile ==
  ASSUME PlaybackInv, PlaybackAssumption, P!WaitFile PROVE PlaybackInv'
  <1>0. Playbacks /\ Flow /\ Closing /\ PlaybackNumbers /\ PlaybackSeqs
    BY PlaybackFacts
  <1>1. /\ UNCHANGED <<speaker, ring, drain, played, abort, stopper>>
        /\ consumer.pc = "wait" /\ file.sem > 0
        /\ consumer' = [pc |-> "look", avail |-> consumer.avail,
                        total |-> consumer.total, eof |-> consumer.eof,
                        ready |-> consumer.ready, chunk |-> consumer.chunk]
        /\ file' = [data |-> file.data, read |-> file.read, eof |-> file.eof,
                    feeding |-> file.feeding, sem |-> file.sem - 1]
    BY <1>0 DEF P!WaitFile, Playbacks, SpeakerType, FileType, ConsumerType, RingType, DrainType
  <1>2. Playbacks'
    <2>1. SpeakerType' /\ RingType' /\ DrainType'
      BY <1>0, <1>1 DEF Playbacks, SpeakerType, RingType, DrainType
    <2>2. FileType'
      BY <1>0, <1>1 DEF Playbacks, FileType
    <2>3. ConsumerType'
      BY <1>0, <1>1 DEF Playbacks, ConsumerType
    <2>4. OtherTypes'
      BY <1>0, <1>1 DEF Playbacks, OtherTypes, DrainType
    <2>5. Bounds'
      BY <1>0, <1>1 DEF Playbacks, Bounds, PlaybackNumbers
    <2> QED
      BY <1>0, <2>1, <2>2, <2>3, <2>4, <2>5 DEF Playbacks
  <1>3. Flow'
    BY <1>0, <1>1, FlowStays DEF InHand, Carried, DrainOver, Closing
  <1>4. Closing'
    BY <1>0, <1>1 DEF Closing, DrainOver, PlaybackNumbers, PlaybackSeqs
  <1> QED
    BY <1>2, <1>3, <1>4 DEF PlaybackInv

LEMMA PlaybackEnterWrite ==
  ASSUME PlaybackInv, PlaybackAssumption, P!EnterWrite PROVE PlaybackInv'
  <1>0. Playbacks /\ Flow /\ Closing /\ PlaybackNumbers /\ PlaybackSeqs
    BY PlaybackFacts
  <1>1. /\ UNCHANGED <<speaker, file, ring, drain, played, abort, stopper>>
        /\ consumer.pc = "enter"
        /\ consumer' = [pc |-> IF ring.stopped THEN "look" ELSE "write",
                        avail |-> consumer.avail, total |-> consumer.total,
                        eof |-> consumer.eof, ready |-> consumer.ready,
                        chunk |-> consumer.chunk]
    BY <1>0 DEF P!EnterWrite, Playbacks, SpeakerType, FileType, ConsumerType, RingType, DrainType
  <1>2. Playbacks'
    <2>1. SpeakerType' /\ FileType' /\ RingType' /\ DrainType'
      BY <1>0, <1>1 DEF Playbacks, SpeakerType, FileType, RingType, DrainType
    <2>2. ConsumerType'
      BY <1>0, <1>1 DEF Playbacks, ConsumerType
    <2>3. OtherTypes'
      BY <1>0, <1>1 DEF Playbacks, OtherTypes, DrainType
    <2>4. Bounds'
      BY <1>0, <1>1 DEF Playbacks, Bounds, PlaybackNumbers
    <2> QED
      BY <1>0, <2>1, <2>2, <2>3, <2>4 DEF Playbacks
  <1>3. Flow'
    BY <1>0, <1>1 DEF Flow, InHand, Carried, Passed, DrainOver, Closing, PlaybackNumbers
  <1>4. Closing'
    BY <1>0, <1>1 DEF Closing, DrainOver, PlaybackNumbers, PlaybackSeqs
  <1> QED
    BY <1>2, <1>3, <1>4 DEF PlaybackInv

LEMMA PlaybackWriteRing ==
  ASSUME PlaybackInv, PlaybackAssumption, P!WriteRing PROVE PlaybackInv'
  <1>0. Playbacks /\ Flow /\ Closing /\ PlaybackNumbers /\ PlaybackSeqs
    BY PlaybackFacts
  <1>1. /\ UNCHANGED <<speaker, file, drain, played, abort, stopper>>
        /\ consumer.pc = "write"
        /\ consumer' = [pc |-> "look", avail |-> consumer.avail, total |-> consumer.total,
                        eof |-> consumer.eof, ready |-> consumer.ready, chunk |-> consumer.chunk]
    BY <1>0 DEF P!WriteRing, Playbacks, ConsumerType
  <1>2. SpeakerType' /\ FileType' /\ ConsumerType' /\ DrainType' /\ OtherTypes'
    <2>1. ConsumerType'
      BY <1>0, <1>1 DEF Playbacks, ConsumerType
    <2> QED
      BY <1>0, <1>1, <2>1 DEF Playbacks, SpeakerType, FileType, DrainType, OtherTypes
  <1>3. CASE Len(ring.data) < RingSize
             /\ ring' = [ring EXCEPT !.data = Append(@, consumer.chunk), !.sem = @ + 1]
    <2>1. ring' = [data |-> Append(ring.data, consumer.chunk), sem |-> ring.sem + 1,
                   eos |-> ring.eos, draining |-> ring.draining, stopped |-> ring.stopped,
                   started |-> ring.started]
      BY <1>0, <1>3 DEF Playbacks, RingType
    <2>2. /\ ring'.data \in Seq(Nat) /\ Len(ring'.data) = Len(ring.data) + 1
          /\ \A i \in 1..Len(ring.data) : ring'.data[i] = ring.data[i]
          /\ ring'.data[Len(ring.data) + 1] = consumer.chunk
      BY <1>0, <2>1, AppendFacts DEF PlaybackNumbers, PlaybackSeqs
    <2>3. RingType'
      <3>1. Append(ring.data, consumer.chunk) \in Seq(Nat)
        BY <2>1, <2>2 DEF PlaybackInv
      <3> QED
        BY <1>0, <2>1, <3>1 DEF Playbacks, RingType
    <2>4. Playbacks'
      BY <1>0, <1>1, <1>2, <1>3, <2>2, <2>3 DEF Playbacks, Bounds, PlaybackNumbers
    <2>5. Flow'
      <3>1. /\ InHand' = InHand /\ Passed' = Passed /\ Carried = 1 /\ Carried' = 0
            /\ DrainOver' <=> DrainOver
        BY <1>1 DEF InHand, Carried, Passed, DrainOver
      <3>2. ring'.stopped = ring.stopped /\ consumer'.pc = "look"
        BY <1>1, <2>1 DEF PlaybackInv
      <3>3. ASSUME ~ring.stopped
            PROVE  /\ Passed + Len(ring'.data) <= file.read
                   /\ Passed + Len(ring'.data) = file.read
                   /\ \A i \in 1..Len(ring'.data) : ring'.data[i] = file.data[Passed + i]
        <4>1. /\ Passed + Len(ring.data) + 1 = file.read /\ consumer.chunk = file.data[file.read]
              /\ \A i \in 1..Len(ring.data) : ring.data[i] = file.data[Passed + i]
          BY <1>0, <3>1, <3>3 DEF Flow
        <4>2. /\ Passed + Len(ring'.data) = file.read
              /\ \A i \in 1..Len(ring'.data) : i \in 1..Len(ring.data) \/ i = Len(ring.data) + 1
          BY <1>0, <2>2, <4>1 DEF PlaybackNumbers
        <4>3. Passed + (Len(ring.data) + 1) = file.read
          BY <1>0, <4>1 DEF PlaybackNumbers
        <4>4. file.read <= file.read
          BY <1>0 DEF PlaybackNumbers
        <4> QED
          BY <2>2, <4>1, <4>2, <4>3, <4>4
      <3>4. ring.stopped => DrainOver
        BY <1>0, <1>1 DEF Flow
      <3>5. ~ring.stopped => Passed + Len(ring'.data) + 0 = file.read
        BY <1>0, <2>2, <3>3 DEF PlaybackNumbers
      <3>6. /\ Len(played) <= file.read /\ \A i \in 1..Len(played) : played[i] = file.data[i]
            /\ ~ring.stopped => (InHand = 1 => drain.chunk = file.data[Passed])
        BY <1>0 DEF Flow
      <3> QED
        BY <1>1, <3>1, <3>2, <3>3, <3>4, <3>5, <3>6 DEF Flow
    <2>6. Closing'
      <3>1. /\ UNCHANGED <<ring.eos, ring.draining, ring.stopped, consumer.eof>>
            /\ consumer'.pc = "look"
        BY <1>1, <2>1 DEF PlaybackInv
      <3>2. ~ring.stopped => ~DrainOver
        <4>1. DrainOver /\ ~ring.stopped => ~ring.draining
          BY <1>0 DEF Closing
        <4>2. ~ring.draining => consumer.pc \in {"off", "gone"}
          BY <1>0 DEF Closing, PlaybackSeqs
        <4> QED
          BY <1>1, <4>1, <4>2
      <3> QED
        BY <1>0, <1>1, <3>1, <3>2 DEF Closing, DrainOver
    <2> QED
      BY <2>4, <2>5, <2>6 DEF PlaybackInv
  <1>4. CASE ring.stopped /\ ring' = ring
    <2>1. Playbacks'
      BY <1>0, <1>1, <1>2, <1>4 DEF Playbacks, RingType, Bounds
    <2>2. Flow'
      BY <1>0, <1>1, <1>4 DEF Flow, InHand, Carried, Passed, DrainOver, PlaybackNumbers
    <2>3. Closing'
      BY <1>0, <1>1, <1>4 DEF Closing, DrainOver, PlaybackNumbers, PlaybackSeqs
    <2> QED
      BY <2>1, <2>2, <2>3 DEF PlaybackInv
  <1> QED
    BY <1>3, <1>4 DEF P!WriteRing

LEMMA PlaybackTest ==
  ASSUME PlaybackInv, PlaybackAssumption, P!Test PROVE PlaybackInv'
  <1>0. Playbacks /\ Flow /\ Closing /\ PlaybackNumbers /\ PlaybackSeqs
    BY PlaybackFacts
  <1>1. /\ UNCHANGED <<speaker, file, consumer, ring, played, abort, stopper>>
        /\ drain.pc = "test"
        /\ drain' = [pc |-> drain'.pc, chunk |-> drain.chunk]
        /\ \/ drain'.pc = "tail" /\ ~P!GoOn
           \/ drain'.pc \in {"prebuffer", "wait"}
    BY <1>0 DEF P!Test, Playbacks, SpeakerType, FileType, ConsumerType, RingType, DrainType
  <1>2. Playbacks'
    <2>1. SpeakerType' /\ FileType' /\ ConsumerType' /\ RingType'
      BY <1>0, <1>1 DEF Playbacks, SpeakerType, FileType, ConsumerType, RingType
    <2>2. DrainType'
      BY <1>0, <1>1 DEF Playbacks, DrainType, RingType
    <2>3. OtherTypes'
      BY <1>0, <1>1 DEF Playbacks, OtherTypes, DrainType
    <2>4. Bounds'
      BY <1>0, <1>1 DEF Playbacks, Bounds, PlaybackNumbers
    <2> QED
      BY <1>0, <2>1, <2>2, <2>3, <2>4 DEF Playbacks
  <1>3. Flow'
    <2>1. /\ InHand' = InHand /\ Passed' = Passed /\ Carried' = Carried /\ ~DrainOver
      BY <1>1 DEF InHand, Carried, Passed, DrainOver
    <2>2. ~(consumer.pc = "write" /\ ring.stopped)
      BY <1>0, <2>1 DEF Flow
    <2>3. drain'.chunk = drain.chunk
      BY <1>1
    <2> QED
      BY <1>0, <1>1, <2>1, <2>2, <2>3 DEF Flow
  <1>4. Closing'
    BY <1>0, <1>1 DEF Closing, DrainOver, P!GoOn, PlaybackNumbers, PlaybackSeqs
  <1> QED
    BY <1>2, <1>3, <1>4 DEF PlaybackInv

LEMMA PlaybackPrebuffer ==
  ASSUME PlaybackInv, PlaybackAssumption, P!Prebuffer PROVE PlaybackInv'
  <1>0. Playbacks /\ Flow /\ Closing /\ PlaybackNumbers /\ PlaybackSeqs
    BY PlaybackFacts
  <1>1. /\ UNCHANGED <<speaker, file, consumer, ring, played, abort, stopper>>
        /\ drain.pc = "prebuffer"
        /\ drain' = [pc |-> drain'.pc, chunk |-> drain.chunk]
        /\ drain'.pc \in {"process", "test"}
    BY <1>0 DEF P!Prebuffer, Playbacks, SpeakerType, FileType, ConsumerType, RingType, DrainType
  <1>2. Playbacks'
    <2>1. SpeakerType' /\ FileType' /\ ConsumerType' /\ RingType'
      BY <1>0, <1>1 DEF Playbacks, SpeakerType, FileType, ConsumerType, RingType
    <2>2. DrainType'
      BY <1>0, <1>1 DEF Playbacks, DrainType, RingType
    <2>3. OtherTypes'
      BY <1>0, <1>1 DEF Playbacks, OtherTypes, DrainType
    <2>4. Bounds'
      BY <1>0, <1>1 DEF Playbacks, Bounds, PlaybackNumbers
    <2> QED
      BY <1>0, <2>1, <2>2, <2>3, <2>4 DEF Playbacks
  <1>3. Flow'
    BY <1>0, <1>1, FlowStays DEF InHand, Carried, DrainOver, Closing
  <1>4. Closing'
    BY <1>0, <1>1 DEF Closing, DrainOver, PlaybackNumbers, PlaybackSeqs
  <1> QED
    BY <1>2, <1>3, <1>4 DEF PlaybackInv

LEMMA PlaybackWaitRing ==
  ASSUME PlaybackInv, PlaybackAssumption, P!WaitRing PROVE PlaybackInv'
  <1>0. Playbacks /\ Flow /\ Closing /\ PlaybackNumbers /\ PlaybackSeqs
    BY PlaybackFacts
  <1>1. /\ UNCHANGED <<speaker, file, consumer, played, abort, stopper>>
        /\ drain.pc = "wait" /\ ring.sem > 0
        /\ drain' = [pc |-> IF ring.stopped THEN "tail" ELSE "process",
                     chunk |-> drain.chunk]
        /\ ring' = [data |-> ring.data, sem |-> ring.sem - 1, eos |-> ring.eos,
                    draining |-> ring.draining, stopped |-> ring.stopped,
                    started |-> ring.started]
    BY <1>0 DEF P!WaitRing, Playbacks, SpeakerType, FileType, ConsumerType, RingType, DrainType
  <1>2. Playbacks'
    <2>1. SpeakerType' /\ FileType' /\ ConsumerType'
      BY <1>0, <1>1 DEF Playbacks, SpeakerType, FileType, ConsumerType
    <2>2. RingType'
      BY <1>0, <1>1 DEF Playbacks, RingType, ConsumerType
    <2>3. DrainType'
      BY <1>0, <1>1 DEF Playbacks, DrainType, RingType
    <2>4. OtherTypes'
      BY <1>0, <1>1 DEF Playbacks, OtherTypes, DrainType
    <2>5. Bounds'
      BY <1>0, <1>1 DEF Playbacks, Bounds, PlaybackNumbers
    <2> QED
      BY <1>0, <2>1, <2>2, <2>3, <2>4, <2>5 DEF Playbacks
  <1>3. Flow'
    BY <1>0, <1>1 DEF Flow, InHand, Carried, Passed, DrainOver, Closing, PlaybackNumbers
  <1>4. Closing'
    BY <1>0, <1>1 DEF Closing, DrainOver, PlaybackNumbers, PlaybackSeqs
  <1> QED
    BY <1>2, <1>3, <1>4 DEF PlaybackInv

\* What one chunk taken out of the ring leaves.
LEMMA MovesOn ==
  ASSUME NEW p \in Nat, NEW n \in Nat \ {0}, NEW m, m = n - 1, NEW r \in Nat, p + n <= r
  PROVE  p + 1 + m <= r /\ 1 \in 1..n
  OBVIOUS

LEMMA TakenFromRing ==
  ASSUME NEW p \in Nat, NEW n \in Nat \ {0}, NEW m, m = n - 1
  PROVE  p + 1 + m = p + n
  OBVIOUS

LEMMA PlaybackProcess ==
  ASSUME PlaybackInv, PlaybackAssumption, P!Process PROVE PlaybackInv'
  <1>0. Playbacks /\ Flow /\ Closing /\ PlaybackNumbers /\ PlaybackSeqs
    BY PlaybackFacts
  <1>1. UNCHANGED <<speaker, file, consumer, played, abort, stopper>> /\ drain.pc = "process"
    BY  DEF P!Process
  <1>2. SpeakerType' /\ FileType' /\ ConsumerType' /\ OtherTypes'
    BY <1>0, <1>1 DEF Playbacks, SpeakerType, FileType, ConsumerType, OtherTypes
  <1>3. CASE ring.data = <<>>
    <2>1. drain' = [pc |-> "test", chunk |-> drain.chunk] /\ ring' = ring
      BY <1>0, <1>3 DEF P!Process, Playbacks, DrainType
    <2>2. Playbacks'
      BY <1>0, <1>1, <1>2, <2>1 DEF Playbacks, RingType, DrainType, Bounds
    <2>3. Flow'
      BY <1>0, <1>1, <2>1, FlowStays DEF InHand, Carried, DrainOver
    <2>4. Closing'
      BY <1>0, <1>1, <2>1 DEF Closing, DrainOver
    <2> QED
      BY <2>2, <2>3, <2>4 DEF PlaybackInv
  <1>4. CASE ring.data # <<>>
    <2>1. /\ ring' = [ring EXCEPT !.data = Tail(@)]
          /\ drain' = [pc |-> IF ring.started THEN "give" ELSE "start", chunk |-> Head(ring.data)]
      BY <1>4 DEF P!Process
    <2>2. ring' = [data |-> Tail(ring.data), sem |-> ring.sem, eos |-> ring.eos,
                   draining |-> ring.draining, stopped |-> ring.stopped, started |-> ring.started]
      BY <1>0, <2>1 DEF Playbacks, RingType
    <2>3. /\ Len(ring.data) \in Nat \ {0} /\ drain'.chunk = ring.data[1] /\ ring.data[1] \in Nat
          /\ drain'.pc \in {"give", "start"}
          /\ ring'.data \in Seq(Nat) /\ Len(ring'.data) = Len(ring.data) - 1
          /\ \A i \in 1..Len(ring.data) - 1 : ring'.data[i] = ring.data[i + 1]
      BY <1>0, <1>4, <2>1, <2>2, TailFacts DEF PlaybackNumbers, PlaybackSeqs
    <2>4. RingType'
      <3>1. Tail(ring.data) \in Seq(Nat)
        BY <2>2, <2>3 DEF PlaybackInv
      <3> QED
        BY <1>0, <2>2, <3>1 DEF Playbacks, RingType
    <2>5. DrainType'
      <3>1. Head(ring.data) \in Nat
        BY <2>1, <2>3 DEF PlaybackInv
      <3> QED
        BY <2>1, <3>1 DEF DrainType
    <2>6. Playbacks'
      BY <1>0, <1>1, <1>2, <2>3, <2>4, <2>5 DEF Playbacks, Bounds, PlaybackNumbers
    <2>7. Flow'
      <3>1. /\ InHand = 0 /\ InHand' = 1 /\ Passed' = Passed + 1 /\ Carried' = Carried
            /\ ~DrainOver
        BY <1>0, <1>1, <2>3 DEF InHand, Carried, Passed, DrainOver, PlaybackNumbers
      <3>2. ring'.stopped = ring.stopped
        BY <2>2 DEF PlaybackInv
      <3>3. /\ Passed + 1 + Len(ring'.data) <= file.read
            /\ drain'.chunk = file.data[Passed + 1]
            /\ \A i \in 1..Len(ring'.data) : ring'.data[i] = file.data[Passed + 1 + i]
        <4>1. /\ Passed + Len(ring.data) <= file.read
              /\ \A i \in 1..Len(ring.data) : ring.data[i] = file.data[Passed + i]
          BY <1>0, <3>1 DEF Flow
        <4>2. Passed + 1 + Len(ring'.data) <= file.read /\ 1 \in 1..Len(ring.data)
          <5>1. Len(ring.data) \in Nat \ {0} /\ Len(ring'.data) = Len(ring.data) - 1
            BY <2>3
          <5>2. Passed \in Nat /\ file.read \in Nat
            BY <1>0 DEF PlaybackNumbers
          <5>3. Passed + Len(ring.data) <= file.read
            BY <4>1
          <5> QED
            BY <5>1, <5>2, <5>3, MovesOn
        <4>3. ASSUME NEW i \in 1..Len(ring'.data)
              PROVE  ring'.data[i] = file.data[Passed + 1 + i]
          <5>1. i \in 1..Len(ring.data) - 1 /\ i + 1 \in 1..Len(ring.data)
            BY <1>0, <2>3 DEF PlaybackNumbers
          <5>2. Passed + (i + 1) = Passed + 1 + i
            BY <1>0 DEF PlaybackNumbers
          <5> QED
            BY <2>3, <4>1, <5>1, <5>2
        <4> QED
          BY <2>3, <4>1, <4>2, <4>3
      <3>4. ~ring.stopped => Passed + 1 + Len(ring'.data) + Carried = file.read
        <4>1. ~ring.stopped => Passed + Len(ring.data) + Carried = file.read
          BY <1>0 DEF Flow
        <4>2. Len(ring.data) \in Nat \ {0} /\ Len(ring'.data) = Len(ring.data) - 1
          BY <2>3
        <4>3. Passed \in Nat /\ Carried \in Nat /\ file.read \in Nat
          BY <1>0 DEF PlaybackNumbers
        <4>4. Passed + 1 + Len(ring'.data) = Passed + Len(ring.data)
          <5>1. Passed \in Nat
            BY <4>3
          <5> QED
            BY <4>2, <5>1, TakenFromRing
        <4> QED
          BY <4>1, <4>4, Zenon
      <3>5. ~(consumer.pc = "write" /\ ring.stopped)
        BY <1>0, <3>1 DEF Flow
      <3> QED
        BY <1>0, <1>1, <3>1, <3>2, <3>3, <3>4, <3>5 DEF Flow
    <2>8. Closing'
      BY <1>0, <1>1, <2>2, <2>3 DEF Closing, DrainOver
    <2> QED
      BY <2>6, <2>7, <2>8 DEF PlaybackInv
  <1> QED
    BY <1>3, <1>4 DEF PlaybackInv

(* The player fails: what is in hand and in the ring is thrown away. *)
LEMMA PlayerFails ==
  ASSUME PlaybackInv, PlaybackAssumption, drain.pc \in {"start", "give"},
         UNCHANGED <<speaker, file, consumer, played, abort, stopper>>,
         ring' = [ring EXCEPT !.stopped = TRUE], drain' = [drain EXCEPT !.pc = "tail"]
  PROVE  PlaybackInv'
  <1>0. Playbacks /\ Flow /\ Closing /\ PlaybackNumbers /\ PlaybackSeqs
    BY PlaybackFacts
  <1>1. /\ ring' = [data |-> ring.data, sem |-> ring.sem, eos |-> ring.eos,
                    draining |-> ring.draining, stopped |-> TRUE, started |-> ring.started]
        /\ drain' = [pc |-> "tail", chunk |-> drain.chunk]
    BY <1>0 DEF Playbacks, RingType, DrainType
  <1>2. RingType' /\ DrainType'
    BY <1>0, <1>1 DEF Playbacks, RingType, DrainType
  <1>3. Playbacks'
    BY <1>0, <1>1, <1>2 DEF Playbacks, SpeakerType, FileType, ConsumerType, OtherTypes, Bounds
  <1>4. Flow'
    BY <1>0, <1>1 DEF Flow, InHand, Carried, Passed, DrainOver, PlaybackNumbers
  <1>5. Closing'
    BY <1>0, <1>1 DEF Closing, DrainOver
  <1> QED
    BY <1>3, <1>4, <1>5 DEF PlaybackInv

LEMMA PlaybackStartPlayer ==
  ASSUME PlaybackInv, PlaybackAssumption, P!StartPlayer PROVE PlaybackInv'
  <1>0. Playbacks /\ Flow /\ Closing /\ PlaybackNumbers /\ PlaybackSeqs
    BY PlaybackFacts
  <1>1. UNCHANGED <<speaker, file, consumer, played, abort, stopper>> /\ drain.pc = "start"
    BY  DEF P!StartPlayer
  <1>2. SpeakerType' /\ FileType' /\ ConsumerType' /\ OtherTypes'
    BY <1>0, <1>1 DEF Playbacks, SpeakerType, FileType, ConsumerType, OtherTypes
  <1>3. CASE /\ ring' = [ring EXCEPT !.started = TRUE]
             /\ drain' = [drain EXCEPT !.pc = "give"]
    <2>1. /\ ring' = [data |-> ring.data, sem |-> ring.sem, eos |-> ring.eos,
                      draining |-> ring.draining, stopped |-> ring.stopped, started |-> TRUE]
          /\ drain' = [pc |-> "give", chunk |-> drain.chunk]
      BY <1>0, <1>3 DEF Playbacks, RingType, DrainType
    <2>2. RingType' /\ DrainType'
      BY <1>0, <2>1 DEF Playbacks, RingType, DrainType
    <2>3. Playbacks'
      BY <1>0, <1>1, <1>2, <2>1, <2>2 DEF Playbacks, Bounds
    <2>4. Flow'
      BY <1>0, <1>1, <2>1, FlowStays DEF InHand, Carried, DrainOver
    <2>5. Closing'
      BY <1>0, <1>1, <2>1 DEF Closing, DrainOver
    <2> QED
      BY <2>3, <2>4, <2>5 DEF PlaybackInv
  <1>4. CASE /\ ring' = [ring EXCEPT !.stopped = TRUE]
             /\ drain' = [drain EXCEPT !.pc = "tail"]
    BY <1>1, <1>2, <1>4, PlayerFails
  <1> QED
    BY <1>3, <1>4 DEF P!StartPlayer

LEMMA PlaybackGive ==
  ASSUME PlaybackInv, PlaybackAssumption, P!Give PROVE PlaybackInv'
  <1>0. Playbacks /\ Flow /\ Closing /\ PlaybackNumbers /\ PlaybackSeqs
    BY PlaybackFacts
  <1>1. UNCHANGED <<speaker, file, consumer, abort, stopper>> /\ drain.pc = "give"
    BY  DEF P!Give
  <1>2. SpeakerType' /\ FileType' /\ ConsumerType'
    BY <1>0, <1>1 DEF Playbacks, SpeakerType, FileType, ConsumerType
  <1>3. CASE /\ played' = Append(played, drain.chunk) /\ ring' = ring
             /\ drain' = [drain EXCEPT !.pc = IF ring.stopped THEN "tail" ELSE "process"]
    <2>1. drain' = [pc |-> IF ring.stopped THEN "tail" ELSE "process", chunk |-> drain.chunk]
      BY <1>0, <1>3 DEF Playbacks, DrainType
    <2>2. /\ played' \in Seq(Nat) /\ Len(played') = Len(played) + 1
          /\ \A i \in 1..Len(played) : played'[i] = played[i]
          /\ played'[Len(played) + 1] = drain.chunk
      BY <1>0, <1>3, AppendFacts DEF PlaybackNumbers, PlaybackSeqs
    <2>3. Playbacks'
      BY <1>0, <1>1, <1>2, <1>3, <2>1, <2>2 DEF Playbacks, RingType, DrainType, OtherTypes, Bounds
    <2>4. Flow'
      <3>1. /\ InHand = 1 /\ InHand' = 0 /\ Passed' = Passed /\ Carried' = Carried
            /\ ~DrainOver /\ (DrainOver' => ring.stopped)
        BY <1>0, <1>1, <2>1, <2>2 DEF InHand, Carried, Passed, DrainOver, PlaybackNumbers
      <3>2. /\ Len(played') <= file.read
            /\ \A i \in 1..Len(played') : played'[i] = file.data[i]
        <4>1. /\ Passed + Len(ring.data) <= file.read /\ drain.chunk = file.data[Passed]
              /\ \A i \in 1..Len(played) : played[i] = file.data[i]
          BY <1>0, <3>1 DEF Flow
        <4>2. Passed = Len(played) + 1
          BY <3>1 DEF Passed
        <4>3. Len(played') <= file.read
          <5>1. Len(played') = Passed
            BY <2>2, <4>2
          <5>2. Passed \in Nat /\ file.read \in Nat /\ Len(ring.data) \in Nat
            BY <1>0 DEF PlaybackNumbers
          <5>3. Passed + Len(ring.data) <= file.read
            BY <4>1
          <5> QED
            BY <5>1, <5>2, <5>3
        <4>4. \A i \in 1..Len(played') : i \in 1..Len(played) \/ i = Len(played) + 1
          BY <1>0, <2>2 DEF PlaybackNumbers
        <4> QED
          BY <2>2, <4>1, <4>2, <4>3, <4>4
      <3>3. ~(consumer.pc = "write" /\ ring.stopped)
        BY <1>0, <3>1 DEF Flow
      <3> QED
        BY <1>0, <1>1, <1>3, <3>1, <3>2, <3>3 DEF Flow
    <2>5. Closing'
      BY <1>0, <1>1, <1>3, <2>1 DEF Closing, DrainOver
    <2> QED
      BY <2>3, <2>4, <2>5 DEF PlaybackInv
  <1>4. CASE /\ ring' = [ring EXCEPT !.stopped = TRUE] /\ played' = played
             /\ drain' = [drain EXCEPT !.pc = "tail"]
    BY <1>1, <1>4, PlayerFails
  <1> QED
    BY <1>3, <1>4 DEF P!Give

LEMMA PlaybackDrainTail ==
  ASSUME PlaybackInv, PlaybackAssumption, P!DrainTail PROVE PlaybackInv'
  <1>0. Playbacks /\ Flow /\ Closing /\ PlaybackNumbers /\ PlaybackSeqs
    BY PlaybackFacts
  <1>1. /\ UNCHANGED <<speaker, file, consumer, abort, stopper>>
        /\ drain.pc = "tail"
        /\ drain' = [pc |-> "gone", chunk |-> drain.chunk]
        /\ ring' = ring /\ played' = played
    BY <1>0 DEF P!DrainTail, Closing, DrainOver, Playbacks, SpeakerType, FileType, ConsumerType,
           RingType, DrainType
  <1>2. Playbacks'
    <2>1. SpeakerType' /\ FileType' /\ ConsumerType'
      BY <1>0, <1>1 DEF Playbacks, SpeakerType, FileType, ConsumerType
    <2>2. RingType'
      BY <1>0, <1>1 DEF Playbacks, RingType, ConsumerType
    <2>3. DrainType'
      BY <1>0, <1>1 DEF Playbacks, DrainType, RingType
    <2>4. OtherTypes'
      BY <1>0, <1>1 DEF Playbacks, OtherTypes, DrainType
    <2>5. Bounds'
      BY <1>0, <1>1 DEF Playbacks, Bounds, PlaybackNumbers
    <2> QED
      BY <1>0, <2>1, <2>2, <2>3, <2>4, <2>5 DEF Playbacks
  <1>3. Flow'
    BY <1>0, <1>1 DEF Flow, InHand, Carried, Passed, DrainOver, Closing, PlaybackNumbers
  <1>4. Closing'
    BY <1>0, <1>1 DEF Closing, DrainOver, PlaybackNumbers, PlaybackSeqs
  <1> QED
    BY <1>2, <1>3, <1>4 DEF PlaybackInv

LEMMA PlaybackInterrupt ==
  ASSUME PlaybackInv, PlaybackAssumption, P!Interrupt PROVE PlaybackInv'
  <1>0. Playbacks /\ Flow /\ Closing /\ PlaybackNumbers /\ PlaybackSeqs
    BY PlaybackFacts
  <1>1. /\ UNCHANGED <<speaker, file, consumer, ring, drain, played>>
        /\ speaker.pc # "idle" /\ stopper' = "file" /\ abort' = TRUE
    BY <1>0 DEF P!Interrupt, Playbacks, SpeakerType, FileType, ConsumerType, RingType, DrainType
  <1>2. Playbacks'
    <2>1. SpeakerType' /\ FileType' /\ ConsumerType' /\ RingType' /\ DrainType'
      BY <1>0, <1>1 DEF Playbacks, SpeakerType, FileType, ConsumerType, RingType, DrainType
    <2>2. OtherTypes'
      BY <1>0, <1>1 DEF Playbacks, OtherTypes, DrainType
    <2>3. Bounds'
      BY <1>0, <1>1 DEF Playbacks, Bounds, PlaybackNumbers
    <2> QED
      BY <1>0, <2>1, <2>2, <2>3 DEF Playbacks
  <1>3. Flow'
    BY <1>0, <1>1, FlowStays DEF InHand, Carried, DrainOver, Closing
  <1>4. Closing'
    BY <1>0, <1>1 DEF Closing, DrainOver, PlaybackNumbers, PlaybackSeqs
  <1> QED
    BY <1>2, <1>3, <1>4 DEF PlaybackInv

LEMMA PlaybackStopFile ==
  ASSUME PlaybackInv, PlaybackAssumption, P!StopFile PROVE PlaybackInv'
  <1>0. Playbacks /\ Flow /\ Closing /\ PlaybackNumbers /\ PlaybackSeqs
    BY PlaybackFacts
  <1>1. /\ UNCHANGED <<speaker, consumer, ring, drain, played, abort>>
        /\ stopper = "file" /\ stopper' = "ring"
        /\ file' = [data |-> file.data, read |-> file.read, eof |-> TRUE,
                    feeding |-> file.feeding, sem |-> file.sem + 1]
    BY <1>0 DEF P!StopFile, Playbacks, SpeakerType, FileType, ConsumerType, RingType, DrainType
  <1>2. Playbacks'
    <2>1. SpeakerType' /\ ConsumerType' /\ RingType' /\ DrainType'
      BY <1>0, <1>1 DEF Playbacks, SpeakerType, ConsumerType, RingType, DrainType
    <2>2. FileType'
      BY <1>0, <1>1 DEF Playbacks, FileType
    <2>3. OtherTypes'
      BY <1>0, <1>1 DEF Playbacks, OtherTypes, DrainType
    <2>4. Bounds'
      BY <1>0, <1>1 DEF Playbacks, Bounds, PlaybackNumbers
    <2> QED
      BY <1>0, <2>1, <2>2, <2>3, <2>4 DEF Playbacks
  <1>3. Flow'
    BY <1>0, <1>1, FlowStays DEF InHand, Carried, DrainOver, Closing
  <1>4. Closing'
    <2>1. /\ file'.data = file.data /\ file'.read = file.read /\ file'.eof = TRUE
          /\ speaker.pc # "idle"
      BY <1>0, <1>1 DEF Closing
    <2>2. abort
      BY <1>0, <1>1 DEF Closing
    <2> QED
      BY <1>0, <1>1, <2>1, <2>2 DEF Closing, DrainOver
  <1> QED
    BY <1>2, <1>3, <1>4 DEF PlaybackInv

LEMMA PlaybackStopRing ==
  ASSUME PlaybackInv, PlaybackAssumption, P!StopRing PROVE PlaybackInv'
  <1>0. Playbacks /\ Flow /\ Closing /\ PlaybackNumbers /\ PlaybackSeqs
    BY PlaybackFacts
  <1>1. /\ UNCHANGED <<speaker, file, consumer, drain, played, abort>>
        /\ stopper = "ring" /\ stopper' = "back" /\ consumer.pc \notin {"enter", "write"}
    BY  DEF P!StopRing
  <1>2. SpeakerType' /\ FileType' /\ ConsumerType' /\ DrainType' /\ OtherTypes'
    BY <1>0, <1>1 DEF Playbacks, SpeakerType, FileType, ConsumerType, DrainType, OtherTypes
  <1>3. RingType' /\ UNCHANGED <<ring.data, ring.eos, ring.draining>> /\ (ring.stopped => ring'.stopped)
    <2>1. CASE ring' = ring
      BY <1>0, <2>1 DEF Playbacks, RingType
    <2>2. CASE ring' = [ring EXCEPT !.stopped = TRUE, !.sem = @ + 1]
      <3>1. ring' = [data |-> ring.data, sem |-> ring.sem + 1, eos |-> ring.eos,
                     draining |-> ring.draining, stopped |-> TRUE, started |-> ring.started]
        BY <1>0, <2>2 DEF Playbacks, RingType
      <3> QED
        BY <1>0, <3>1 DEF Playbacks, RingType
    <2> QED
      BY <2>1, <2>2 DEF P!StopRing
  <1>4. Playbacks'
    BY <1>0, <1>1, <1>2, <1>3 DEF Playbacks, Bounds
  <1>5. Flow'
    BY <1>0, <1>1, <1>3 DEF Flow, InHand, Carried, Passed, DrainOver, PlaybackNumbers
  <1>6. Closing'
    BY <1>0, <1>1, <1>3 DEF Closing, DrainOver
  <1> QED
    BY <1>4, <1>5, <1>6 DEF PlaybackInv

LEMMA PlaybackInvKept ==
  ASSUME PlaybackInv, [P!Next]_playbackVars, PlaybackAssumption
  PROVE  PlaybackInv'
  <1>1. CASE P!SpeakerStep
    BY <1>1, PlaybackOpen, PlaybackEnqueue, PlaybackMarkEof, PlaybackStopFeeding, PlaybackCloseRing,
       PlaybackStopDraining, PlaybackJoinDrain, PlaybackDone DEF P!SpeakerStep
  <1>2. CASE P!ConsumerStep
    BY <1>2, PlaybackLook, PlaybackDecide, PlaybackWaitFile, PlaybackEnterWrite, PlaybackWriteRing
       DEF P!ConsumerStep
  <1>3. CASE P!DrainStep
    BY <1>3, PlaybackTest, PlaybackPrebuffer, PlaybackWaitRing, PlaybackProcess,
       PlaybackStartPlayer, PlaybackGive, PlaybackDrainTail DEF P!DrainStep
  <1>4. CASE P!StopperStep
    BY <1>4, PlaybackInterrupt, PlaybackStopFile, PlaybackStopRing DEF P!StopperStep
  <1>5. CASE UNCHANGED playbackVars
    <2>1. Playbacks'
      BY <1>5 DEF playbackVars, PlaybackInv, Playbacks, SpeakerType, FileType, ConsumerType,
                  RingType, DrainType, OtherTypes, Bounds
    <2>2. Flow'
      BY <1>5, FlowStays DEF playbackVars, PlaybackInv, InHand, Carried, DrainOver
    <2>3. Closing'
      BY <1>5 DEF playbackVars, PlaybackInv, Closing, DrainOver
    <2> QED
      BY <2>1, <2>2, <2>3 DEF PlaybackInv
  <1> QED
    BY <1>1, <1>2, <1>3, <1>4, <1>5 DEF P!Next

LEMMA PlaybackShows ==
  ASSUME PlaybackInv, PlaybackAssumption
  PROVE  P!EverythingPlayed /\ P!TypeOK
  <1>0. Playbacks /\ Flow /\ Closing /\ PlaybackNumbers /\ PlaybackSeqs
    BY PlaybackFacts
  <1>1. /\ Len(played) <= file.read /\ \A i \in 1..Len(played) : played[i] = file.data[i]
    BY <1>0 DEF Flow
  <1>2. Len(played) <= Len(file.data)
    BY <1>0, <1>1 DEF PlaybackNumbers
  <1>3. played = SubSeq(file.data, 1, Len(played))
    <2>1. /\ SubSeq(file.data, 1, Len(played)) \in Seq(Nat)
          /\ Len(SubSeq(file.data, 1, Len(played))) = Len(played)
          /\ \A i \in 1..Len(played) : SubSeq(file.data, 1, Len(played))[i] = file.data[i]
      <3>1. /\ 1 \in 1..Len(file.data) + 1 /\ Len(played) \in 1 - 1..Len(file.data)
            /\ Len(played) - 1 + 1 = Len(played) /\ Len(played) \in Nat
            /\ \A i \in 1..Len(played) : 1 + i - 1 = i
        BY <1>0, <1>2 DEF PlaybackNumbers
      <3> DEFINE n == Len(played)
                 part == SubSeq(file.data, 1, n)
      <3>2. /\ part \in Seq(Nat) /\ Len(part) = n - 1 + 1
            /\ \A i \in 1..n - 1 + 1 : part[i] = file.data[1 + i - 1]
        BY <1>0, <3>1, SubSeqProperties DEF PlaybackSeqs
      <3> QED
        BY <3>1, <3>2
    <2> QED
      BY <1>0, <1>1, <2>1, SeqEqual DEF PlaybackSeqs
  <1>4. ASSUME speaker.pc = "done", ~ring.stopped PROVE played = file.data
    <2>1. /\ drain.pc = "gone" /\ consumer.pc = "gone" /\ ring.data = <<>>
          /\ file.read = Len(file.data)
      BY <1>0, <1>4 DEF Closing, DrainOver
    <2>2. InHand = 0 /\ Carried = 0 /\ Len(ring.data) = 0 /\ Passed = Len(played)
      BY <1>0, <2>1, EmptySeq DEF InHand, Carried, Passed, PlaybackNumbers
    <2>3. Len(played) = Len(file.data)
      <3>1. Passed + Len(ring.data) + Carried = file.read
        BY <1>0, <1>4 DEF Flow
      <3> QED
        BY <1>0, <2>1, <2>2, <3>1 DEF PlaybackNumbers
    <2> QED
      BY <1>0, <1>1, <2>3, SeqEqual DEF PlaybackSeqs
  <1>5. P!TypeOK
    <2>1. Len(file.data) <= Chunks /\ Len(played) <= Chunks
      BY <1>0, <1>2 DEF Playbacks, Bounds, PlaybackNumbers
    <2> QED
      BY <1>0, <2>1 DEF Playbacks, SpeakerType, DrainType, Bounds, P!TypeOK
  <1> QED
    BY <1>3, <1>4, <1>5 DEF P!EverythingPlayed

-----------------------------------------------------------------------------
-----------------------------------------------------------------------------
(* TtsPipeline. *)

\* The sentence that the pipeline thread has in hand.
Holds == worker.pc \in {"popped", "say"} /\ worker.item # 0
Quiet == aborter["barge"] = "away" /\ aborter["agent"] = "away"

PipeTypes ==
  /\ pipe \in [active : BOOLEAN, running : BOOLEAN, abort : BOOLEAN,
               pb : {"none", "open", "stopped"}]
  /\ aborter \in [{"agent", "barge"} -> {"away", "flag", "join", "back"}]
FeederTypes ==
  feeder \in [pc : {"idle", "activate", "stream", "push", "full", "woken", "join", "abort", "done"},
              next : 1..Sentences + 1, started : BOOLEAN]
WorkerTypes ==
  /\ worker \in [pc : {"off", "test", "pop", "popped", "say", "gone"}, item : 0..Sentences]
  /\ worker.pc = "say" => worker.item # 0
PqTypes == pq \in Seq(0..Sentences) /\ Len(pq) \in 0..PipeLen
SaidTypes == heard \in Seq(1..Sentences) /\ bus \in Seq(1..Sentences)

\* Where the threads are together.
Threads ==
  /\ feeder.pc = "idle" => ~feeder.started /\ Quiet /\ feeder.next = 1 /\ bus = <<>>
  /\ ~feeder.started => /\ feeder.pc \in {"idle", "stream", "done"}
                        /\ worker.pc = "off" /\ ~pipe.active /\ heard = <<>> /\ pq = <<>>
  /\ ~pipe.active /\ feeder.pc # "activate" => worker.pc \in {"off", "gone"}
  /\ bus # <<>> => worker.pc \in {"off", "gone"}

\* Sentences go one way: heard, in hand, queued, and still to come.
Ascends(s) == \A i, j \in 1..Len(s) : i < j => s[i] < s[j]
SaidOrder ==
  /\ Ascends(heard) /\ Ascends(bus)
  /\ \A i \in 1..Len(heard) : heard[i] < feeder.next
  /\ \A i \in 1..Len(bus) : bus[i] < feeder.next
  /\ \A i \in 1..Len(heard), j \in 1..Len(bus) : heard[i] < bus[j]
QueueOrder ==
  /\ Holds => /\ worker.item < feeder.next
              /\ \A i \in 1..Len(heard) : heard[i] < worker.item
              /\ \A i \in 1..Len(pq) : pq[i] # 0 => worker.item < pq[i]
  /\ \A i \in 1..Len(pq) : pq[i] # 0 => pq[i] < feeder.next
  /\ \A i, j \in 1..Len(pq) : i < j /\ pq[i] # 0 /\ pq[j] # 0 => pq[i] < pq[j]
  /\ \A i \in 1..Len(heard), j \in 1..Len(pq) : pq[j] # 0 => heard[i] < pq[j]

\* While nobody aborts, no sentence is missing anywhere.
Said == Len(heard) + (IF Holds THEN 1 ELSE 0)
ToBus ==
  /\ feeder.pc \in {"idle", "stream", "done"}
  /\ Len(bus) = feeder.next - 1 /\ \A i \in 1..Len(bus) : bus[i] = i
  /\ feeder.pc = "done" => feeder.next = Sentences + 1
ToQueue ==
  /\ feeder.pc \in {"activate", "stream", "push", "full", "woken", "join"}
  /\ ~pipe.abort /\ pipe.running /\ pipe.pb = "open" /\ bus = <<>>
  /\ feeder.pc # "activate" => pipe.active
  /\ Said < feeder.next
  /\ \A i \in 1..Len(heard) : heard[i] = i
  /\ Holds => worker.item = Len(heard) + 1
  /\ \A i \in 1..Len(pq) : i < feeder.next - Said => pq[i] = Said + i
  /\ feeder.pc = "join" => feeder.next = Sentences + 1
  /\ \/ /\ worker.pc \in {"test", "pop", "popped", "say"}
        /\ worker.pc = "popped" => worker.item # 0
        /\ IF feeder.pc = "join" THEN Len(pq) = feeder.next - Said /\ pq[Len(pq)] = 0
                                 ELSE Len(pq) = feeder.next - 1 - Said
     \/ /\ feeder.pc = "join" /\ worker.pc \in {"popped", "gone"} /\ worker.item = 0
        /\ Len(pq) = 0 /\ Said = feeder.next - 1
AllSaid == bus = <<>> /\ Len(heard) = Sentences /\ \A i \in 1..Len(heard) : heard[i] = i
NothingMissing ==
  Quiet => IF ~feeder.started THEN ToBus
           ELSE IF feeder.pc = "done" THEN AllSaid ELSE ToQueue

PipelineTypes == PipeTypes /\ FeederTypes /\ WorkerTypes /\ PqTypes /\ SaidTypes
PipelineInv == PipelineTypes /\ Threads /\ SaidOrder /\ QueueOrder /\ NothingMissing

PipelineNumbers ==
  /\ Sentences \in Nat /\ PipeLen \in Nat
  /\ feeder.next \in Nat /\ feeder.next >= 1 /\ feeder.next <= Sentences + 1
  /\ Len(pq) \in Nat /\ Len(pq) <= PipeLen /\ Len(heard) \in Nat /\ Len(bus) \in Nat
  /\ worker.item \in Nat /\ Said \in Nat
PipelineSeqs ==
  /\ \A i \in 1..Len(pq) : pq[i] \in Nat
  /\ \A i \in 1..Len(heard) : heard[i] \in Nat
  /\ \A i \in 1..Len(bus) : bus[i] \in Nat

LEMMA PipelineFacts ==
  ASSUME PipelineInv, PipelineAssumption
  PROVE  /\ PipelineNumbers /\ PipelineSeqs
         /\ PipeTypes /\ FeederTypes /\ WorkerTypes /\ PqTypes /\ SaidTypes
         /\ Threads /\ SaidOrder /\ QueueOrder /\ NothingMissing
  <1>1. /\ PipeTypes /\ FeederTypes /\ WorkerTypes /\ PqTypes /\ SaidTypes
        /\ Threads /\ SaidOrder /\ QueueOrder /\ NothingMissing
    BY DEF PipelineInv, PipelineTypes
  <1>2. /\ Len(heard) \in Nat /\ Len(bus) \in Nat /\ Len(pq) \in Nat /\ Len(pq) <= PipeLen
        /\ Sentences \in Nat /\ PipeLen \in Nat
    BY <1>1, LenProperties DEF SaidTypes, PqTypes, PipelineAssumption
  <1>3. /\ feeder.next \in Nat /\ feeder.next >= 1 /\ feeder.next <= Sentences + 1
        /\ worker.item \in Nat
    BY <1>1, <1>2 DEF FeederTypes, WorkerTypes
  <1>4. Said \in Nat
    BY <1>2 DEF Said
  <1>5. PipelineSeqs
    <2>1. \A s \in Seq(0..Sentences) : \A i \in 1..Len(s) : s[i] \in Nat
      <3>1. \A s \in Seq(0..Sentences) : \A i \in 1..Len(s) : s[i] \in 0..Sentences
        BY ElementOfSeq
      <3> QED
        BY <1>2, <3>1
    <2>2. \A s \in Seq(1..Sentences) : \A i \in 1..Len(s) : s[i] \in Nat
      <3>1. \A s \in Seq(1..Sentences) : \A i \in 1..Len(s) : s[i] \in 1..Sentences
        BY ElementOfSeq
      <3> QED
        BY <1>2, <3>1
    <2> QED
      BY <1>1, <2>1, <2>2 DEF PqTypes, SaidTypes, PipelineSeqs
  <1> QED
    BY <1>1, <1>2, <1>3, <1>4, <1>5 DEF PipelineNumbers

\* The parts of the state that a step leaves alone keep their types.
LEMMA PipelineTypesStay ==
  ASSUME PipelineTypes
  PROVE  /\ UNCHANGED <<pipe, aborter>> => PipeTypes'
         /\ UNCHANGED feeder => FeederTypes'
         /\ UNCHANGED worker => WorkerTypes'
         /\ UNCHANGED pq => PqTypes'
         /\ UNCHANGED <<heard, bus>> => SaidTypes'
  BY DEF PipelineTypes, PipeTypes, FeederTypes, WorkerTypes, PqTypes, SaidTypes

\* The feeder moves on: its record keeps its type.
LEMMA FeederMoves ==
  ASSUME FeederTypes,
         NEW pc \in {"idle", "activate", "stream", "push", "full", "woken", "join", "abort", "done"},
         NEW next \in 1..Sentences + 1, NEW started \in BOOLEAN,
         feeder' = [pc |-> pc, next |-> next, started |-> started]
  PROVE  FeederTypes' /\ feeder'.pc = pc /\ feeder'.next = next /\ feeder'.started = started
  BY DEF FeederTypes

LEMMA GoesTo ==
  ASSUME FeederTypes, NEW pc, L!Goes(pc)
  PROVE  /\ feeder' = [pc |-> pc, next |-> feeder.next, started |-> feeder.started]
         /\ feeder.next \in 1..Sentences + 1 /\ feeder.started \in BOOLEAN
         /\ feeder'.pc = pc /\ feeder'.next = feeder.next /\ feeder'.started = feeder.started
  BY DEF FeederTypes, L!Goes

\* Nothing is said or queued, and nothing taken in hand.
LEMMA OrderStays ==
  ASSUME SaidOrder, QueueOrder, PipelineNumbers, PipelineSeqs, UNCHANGED <<heard, bus, pq>>,
         Holds' => Holds /\ worker'.item = worker.item,
         feeder'.next \in Nat, feeder'.next >= feeder.next
  PROVE  SaidOrder' /\ QueueOrder'
  <1>1. \A x \in Nat : x < feeder.next => x < feeder'.next
    BY DEF PipelineNumbers
  <1>2. SaidOrder'
    <2>1. Ascends(heard)' /\ Ascends(bus)'
      BY DEF SaidOrder, Ascends
    <2> QED
      BY <1>1, <2>1 DEF SaidOrder, PipelineSeqs
  <1>3. Holds' => Holds /\ worker'.item = worker.item /\ worker.item \in Nat
    BY DEF PipelineNumbers
  <1> QED
    BY <1>1, <1>2, <1>3 DEF QueueOrder, PipelineSeqs

LEMMA AscendsOn ==
  ASSUME NEW S \in SUBSET Nat, NEW s \in Seq(S), NEW x \in S, Ascends(s),
         \A i \in 1..Len(s) : s[i] < x
  PROVE  Ascends(Append(s, x))
  <1>1. /\ Len(s) \in Nat /\ Len(Append(s, x)) = Len(s) + 1 /\ Append(s, x)[Len(s) + 1] = x
        /\ \A i \in 1..Len(s) : Append(s, x)[i] = s[i]
    BY AppendFacts
  <1> DEFINE t == Append(s, x)
  <1>2. /\ Len(t) = Len(s) + 1 /\ t[Len(s) + 1] = x /\ \A i \in 1..Len(s) : t[i] = s[i]
    BY <1>1
  <1> HIDE DEF t
  <1>3. ASSUME NEW i \in 1..Len(t), NEW j \in 1..Len(t), i < j PROVE t[i] < t[j]
    <2>1. i \in 1..Len(s) /\ (j \in 1..Len(s) \/ j = Len(s) + 1)
      BY <1>1, <1>2, <1>3
    <2>2. t[i] = s[i]
      BY <1>2, <2>1
    <2>3. CASE j \in 1..Len(s)
      <3>1. t[j] = s[j] /\ s[i] < s[j]
        BY <1>2, <1>3, <2>1, <2>3 DEF Ascends
      <3> QED
        BY <2>2, <3>1
    <2>4. CASE j = Len(s) + 1
      BY <1>2, <2>1, <2>2, <2>4
    <2> QED
      BY <2>1, <2>3, <2>4
  <1>4. Ascends(t)
    BY <1>3 DEF Ascends
  <1> QED
    BY <1>4 DEF t

LEMMA PipelineInit == ASSUME PipelineAssumption, L!Init PROVE PipelineInv
  <1>1. PipeTypes /\ FeederTypes /\ WorkerTypes /\ PqTypes /\ SaidTypes
    <2>1. /\ pipe = [active |-> FALSE, running |-> FALSE, abort |-> FALSE, pb |-> "none"]
          /\ feeder = [pc |-> "idle", next |-> 1, started |-> FALSE]
          /\ worker = [pc |-> "off", item |-> 0] /\ pq = <<>> /\ heard = <<>> /\ bus = <<>>
          /\ aborter = [t \in {"agent", "barge"} |-> "away"]
      BY DEF L!Init, L!Off, L!Final
    <2>2. PipeTypes
      BY <2>1 DEF PipeTypes
    <2>3. 1 \in 1..Sentences + 1 /\ 0 \in 0..Sentences /\ 0 \in 0..PipeLen
      BY DEF PipelineAssumption
    <2>4. FeederTypes /\ WorkerTypes
      BY <2>1, <2>3 DEF FeederTypes, WorkerTypes
    <2>5. PqTypes /\ SaidTypes
      BY <2>1, <2>3, EmptySeq DEF PqTypes, SaidTypes
    <2> QED
      BY <2>2, <2>4, <2>5
  <1>2. /\ feeder.pc = "idle" /\ feeder.next = 1 /\ ~feeder.started /\ ~pipe.active
        /\ worker.pc = "off" /\ heard = <<>> /\ bus = <<>> /\ pq = <<>> /\ Quiet
    BY DEF L!Init, L!Off, Quiet
  <1>3. Len(heard) = 0 /\ Len(bus) = 0 /\ Len(pq) = 0
    BY <1>2
  <1>4. Threads /\ SaidOrder /\ QueueOrder
    BY <1>2, <1>3 DEF Threads, SaidOrder, QueueOrder, Ascends, Holds
  <1>5. NothingMissing
    BY <1>2, <1>3 DEF NothingMissing, ToBus
  <1> QED
    BY <1>1, <1>4, <1>5 DEF PipelineInv, PipelineTypes

LEMMA PipelineStart ==
  ASSUME PipelineInv, PipelineAssumption, L!Start PROVE PipelineInv'
  <1>0. /\ PipelineNumbers /\ PipelineSeqs
        /\ PipeTypes /\ FeederTypes /\ WorkerTypes /\ PqTypes /\ SaidTypes
        /\ Threads /\ SaidOrder /\ QueueOrder /\ NothingMissing
    BY PipelineFacts
  <1>1. feeder.pc = "idle" /\ UNCHANGED <<aborter, heard, bus>>
    BY DEF L!Start
  <1>2. /\ ~feeder.started /\ feeder.next = 1 /\ bus = <<>> /\ heard = <<>> /\ pq = <<>>
        /\ worker.pc = "off" /\ ~pipe.active
    BY <1>0, <1>1 DEF Threads
  <1>3. Len(heard) = 0 /\ Len(bus) = 0 /\ Len(pq) = 0
    BY <1>2
  <1>4. CASE /\ pq' = <<>> /\ pipe' = [L!Off EXCEPT !.running = TRUE, !.pb = "open"]
             /\ worker' = [worker EXCEPT !.pc = "test"]
             /\ feeder' = [feeder EXCEPT !.pc = "activate", !.started = TRUE]
    <2>1. /\ pipe' = [active |-> FALSE, running |-> TRUE, abort |-> FALSE, pb |-> "open"]
          /\ worker' = [pc |-> "test", item |-> worker.item] /\ worker.item \in 0..Sentences
          /\ feeder' = [pc |-> "activate", next |-> 1, started |-> TRUE]
          /\ 1 \in 1..Sentences + 1
      BY <1>0, <1>2, <1>4 DEF L!Off, FeederTypes, WorkerTypes
    <2>2. PipeTypes' /\ FeederTypes' /\ WorkerTypes'
      BY <1>0, <1>1, <2>1 DEF PipeTypes, FeederTypes, WorkerTypes
    <2>3. PqTypes' /\ SaidTypes'
      BY <1>0, <1>1, <1>2, <1>4 DEF PqTypes, SaidTypes
    <2>4. Threads'
      BY <1>1, <1>2, <2>1 DEF Threads
    <2>5. SaidOrder' /\ QueueOrder'
      BY <1>0, <1>1, <1>2, <1>4, <2>1, OrderStays DEF Holds
    <2>6. Len(pq') = 0 /\ Said' = 0 /\ ~Holds'
      BY <1>1, <1>3, <1>2, <1>4, <2>1 DEF Said, Holds
    <2>7. ToQueue'
      BY <1>1, <1>2, <1>3, <2>1, <2>6 DEF ToQueue
    <2>8. NothingMissing'
      BY <2>1, <2>7 DEF NothingMissing
    <2> QED
      BY <2>2, <2>3, <2>4, <2>5, <2>8 DEF PipelineInv, PipelineTypes
  <1>5. CASE L!Goes("stream") /\ UNCHANGED <<pq, pipe, worker>>
    <2>1. /\ feeder' = [pc |-> "stream", next |-> feeder.next, started |-> feeder.started]
          /\ feeder.next \in 1..Sentences + 1 /\ feeder.started \in BOOLEAN
      BY <1>0, <1>5, GoesTo
    <2>2. PipelineTypes'
      BY <1>0, <1>1, <1>5, <2>1, FeederMoves, PipelineTypesStay DEF PipelineTypes
    <2>3. Threads'
      BY <1>1, <1>2, <1>5, <2>1 DEF Threads
    <2>4. SaidOrder' /\ QueueOrder'
      BY <1>0, <1>1, <1>5, <2>1, OrderStays DEF Holds, PipelineNumbers
    <2>5. NothingMissing'
      BY <1>1, <1>2, <1>3, <2>1 DEF NothingMissing, ToBus
    <2> QED
      BY <2>2, <2>3, <2>4, <2>5 DEF PipelineInv
  <1> QED
    BY <1>4, <1>5 DEF L!Start

\* What holds of the queue does, while the feeder moves from one place of the
\* stream to another, or a step of the pipeline thread that takes nothing.
LEMMA QueueStays ==
  ASSUME ToQueue, UNCHANGED <<pq, heard, bus>>,
         pipe'.running = pipe.running /\ pipe'.abort = pipe.abort /\ pipe'.pb = pipe.pb,
         pipe'.active = pipe.active \/ pipe'.active,
         feeder'.next = feeder.next, feeder'.pc \in {"activate", "stream", "push", "full", "woken"},
         feeder.pc # "join", feeder'.pc # "activate" => pipe'.active,
         worker'.pc \in {"test", "pop", "popped", "say"}, worker'.item = worker.item,
         Holds' <=> Holds, worker'.pc = "popped" => worker'.item # 0
  PROVE  ToQueue'
  <1>1. Said' = Said
    BY DEF Said
  <1> QED
    BY <1>1 DEF ToQueue

LEMMA PipelineActivate ==
  ASSUME PipelineInv, PipelineAssumption, L!Activate PROVE PipelineInv'
  <1>0. /\ PipelineNumbers /\ PipelineSeqs
        /\ PipeTypes /\ FeederTypes /\ WorkerTypes /\ PqTypes /\ SaidTypes
        /\ Threads /\ SaidOrder /\ QueueOrder /\ NothingMissing
    BY PipelineFacts
  <1>1. /\ feeder.pc = "activate" /\ UNCHANGED <<pq, aborter, worker, heard, bus>>
        /\ L!Goes("stream") /\ pipe' = [pipe EXCEPT !.active = TRUE]
    BY DEF L!Activate
  <1>2. /\ feeder' = [pc |-> "stream", next |-> feeder.next, started |-> feeder.started]
        /\ feeder.next \in 1..Sentences + 1 /\ feeder.started \in BOOLEAN
    BY <1>0, <1>1, GoesTo
  <1>3. /\ pipe' = [active |-> TRUE, running |-> pipe.running, abort |-> pipe.abort, pb |-> pipe.pb]
        /\ pipe.running \in BOOLEAN /\ pipe.abort \in BOOLEAN /\ pipe.pb \in {"none", "open", "stopped"}
    BY <1>0, <1>1 DEF PipeTypes
  <1>4. PipeTypes' /\ PipelineTypes'
    <2>1. PipeTypes'
      BY <1>0, <1>1, <1>3 DEF PipeTypes
    <2> QED
      BY <1>0, <1>1, <1>2, <2>1, FeederMoves, PipelineTypesStay DEF PipelineTypes
  <1>5. Threads'
    BY <1>0, <1>1, <1>2, <1>3 DEF Threads
  <1>6. SaidOrder' /\ QueueOrder'
    BY <1>0, <1>1, <1>2, OrderStays DEF Holds, PipelineNumbers
  <1>7. NothingMissing'
    <2>1. feeder.started /\ feeder'.started
      BY <1>0, <1>1, <1>2 DEF Threads
    <2>2. ASSUME Quiet PROVE ToQueue'
      <3>1. ToQueue
        BY <1>0, <1>1, <2>1, <2>2 DEF NothingMissing
      <3>2. worker.pc \in {"test", "pop", "popped", "say"} /\ (worker.pc = "popped" => worker.item # 0)
        BY <1>1, <3>1 DEF ToQueue
      <3> QED
        BY <1>1, <1>2, <1>3, <3>1, <3>2, QueueStays DEF Holds
    <2> QED
      BY <1>1, <1>2, <2>1, <2>2 DEF NothingMissing, Quiet
  <1> QED
    BY <1>4, <1>5, <1>6, <1>7 DEF PipelineInv

\* A sentence that the pipeline does not take goes to the bus.
LEMMA PipelineFlush ==
  ASSUME PipelineInv, PipelineAssumption, L!Flush PROVE PipelineInv'
  <1>0. /\ PipelineNumbers /\ PipelineSeqs
        /\ PipeTypes /\ FeederTypes /\ WorkerTypes /\ PqTypes /\ SaidTypes
        /\ Threads /\ SaidOrder /\ QueueOrder /\ NothingMissing
    BY PipelineFacts
  <1>1. /\ feeder.pc = "stream" /\ feeder.next <= Sentences
        /\ UNCHANGED <<pq, pipe, aborter, worker, heard>>
    BY DEF L!Flush
  <1>2. CASE pipe.active /\ L!Goes("push") /\ UNCHANGED bus
    <2>1. /\ feeder' = [pc |-> "push", next |-> feeder.next, started |-> feeder.started]
          /\ feeder.next \in 1..Sentences + 1 /\ feeder.started \in BOOLEAN
      BY <1>0, <1>2, GoesTo
    <2>2. PipelineTypes'
      BY <1>0, <1>1, <1>2, <2>1, FeederMoves, PipelineTypesStay DEF PipelineTypes
    <2>3. Threads'
      BY <1>0, <1>1, <1>2, <2>1 DEF Threads
    <2>4. SaidOrder' /\ QueueOrder'
      BY <1>0, <1>1, <1>2, <2>1, OrderStays DEF Holds, PipelineNumbers
    <2>5. NothingMissing'
      <3>1. feeder.started /\ feeder'.started
        BY <1>0, <1>2, <2>1 DEF Threads
      <3>2. ASSUME Quiet PROVE ToQueue'
        <4>1. ToQueue
          BY <1>0, <1>1, <3>1, <3>2 DEF NothingMissing
        <4>2. worker.pc \in {"test", "pop", "popped", "say"} /\ (worker.pc = "popped" => worker.item # 0)
          BY <1>1, <4>1 DEF ToQueue
        <4> QED
          BY <1>1, <1>2, <2>1, <4>1, <4>2, QueueStays DEF Holds
      <3> QED
        BY <1>1, <2>1, <3>1, <3>2 DEF NothingMissing, Quiet
    <2> QED
      BY <2>2, <2>3, <2>4, <2>5 DEF PipelineInv
  <1>3. CASE /\ ~pipe.active /\ bus' = Append(bus, feeder.next)
             /\ feeder' = [feeder EXCEPT !.next = @ + 1]
    <2>1. /\ feeder' = [pc |-> "stream", next |-> feeder.next + 1, started |-> feeder.started]
          /\ feeder.next + 1 \in 1..Sentences + 1 /\ feeder.started \in BOOLEAN
          /\ feeder.next \in 1..Sentences
      BY <1>0, <1>1, <1>3 DEF FeederTypes, PipelineNumbers
    <2>2. /\ bus' \in Seq(1..Sentences) /\ Len(bus') = Len(bus) + 1
          /\ \A k \in 1..Len(bus) : bus'[k] = bus[k]
          /\ bus'[Len(bus) + 1] = feeder.next
      BY <1>0, <1>3, <2>1, AppendFacts DEF SaidTypes
    <2>3. PipelineTypes'
      <3>1. SaidTypes'
        BY <1>0, <1>1, <2>2 DEF SaidTypes
      <3> QED
        BY <1>0, <1>1, <2>1, <3>1, FeederMoves, PipelineTypesStay DEF PipelineTypes
    <2>4. worker.pc \in {"off", "gone"} /\ ~Holds /\ ~Holds'
      BY <1>0, <1>1, <1>3 DEF Threads, Holds
    <2>5. Threads'
      BY <1>0, <1>1, <1>3, <2>1, <2>4 DEF Threads
    <2>6. SaidOrder'
      <3>1. \A k \in 1..Len(bus') : k \in 1..Len(bus) \/ k = Len(bus) + 1
        BY <1>0, <2>2 DEF PipelineNumbers
      <3>2. Ascends(bus')
        <4>1. 1..Sentences \in SUBSET Nat
          BY <1>0 DEF PipelineNumbers
        <4>2. Ascends(bus) /\ \A i \in 1..Len(bus) : bus[i] < feeder.next
          BY <1>0 DEF SaidOrder
        <4>3. Ascends(Append(bus, feeder.next))
          BY <1>0, <2>1, <4>1, <4>2, AscendsOn DEF SaidTypes
        <4> QED
          BY <1>3, <4>3
      <3>3. Ascends(heard')
        BY <1>0, <1>1 DEF SaidOrder
      <3>4. \A i \in 1..Len(heard') : heard'[i] < feeder'.next
        BY <1>0, <1>1, <2>1 DEF SaidOrder, PipelineSeqs
      <3>5. \A k \in 1..Len(bus') : bus'[k] < feeder'.next
        <4>1. feeder'.next = feeder.next + 1 /\ feeder.next \in Nat
          BY <1>0, <2>1 DEF PipelineNumbers
        <4>2. \A k \in 1..Len(bus) : bus[k] \in Nat /\ bus[k] < feeder.next
          BY <1>0 DEF SaidOrder, PipelineSeqs
        <4>3. ASSUME NEW k \in 1..Len(bus) PROVE bus'[k] < feeder'.next
          BY <2>2, <4>1, <4>2
        <4>4. bus'[Len(bus) + 1] < feeder'.next
          BY <2>2, <4>1
        <4> QED
          BY <3>1, <4>3, <4>4
      <3>6. \A i \in 1..Len(heard'), j \in 1..Len(bus') : heard'[i] < bus'[j]
        BY <1>0, <1>1, <2>2, <3>1 DEF SaidOrder
      <3> QED
        BY <3>2, <3>3, <3>4, <3>5, <3>6 DEF SaidOrder, Ascends
    <2>7. QueueOrder'
      BY <1>0, <1>1, <2>1, <2>4 DEF QueueOrder, PipelineSeqs
    <2>8. NothingMissing'
      <3>1. ASSUME Quiet, feeder.started PROVE FALSE
        BY <1>0, <1>1, <1>3, <3>1 DEF NothingMissing, ToQueue
      <3>2. ASSUME Quiet PROVE ToBus'
        <4>1. ToBus /\ ~feeder.started
          BY <1>0, <3>1, <3>2 DEF NothingMissing
        <4>2. Len(bus) = feeder.next - 1 /\ \A i \in 1..Len(bus) : bus[i] = i
          BY <4>1 DEF ToBus
        <4>3. Len(bus') = feeder'.next - 1
          BY <1>0, <2>1, <2>2, <4>2 DEF PipelineNumbers
        <4>4. bus'[Len(bus) + 1] = Len(bus) + 1
          BY <1>0, <2>2, <4>2 DEF PipelineNumbers
        <4>5. \A k \in 1..Len(bus') : k \in 1..Len(bus) \/ k = Len(bus) + 1
          BY <1>0, <2>2 DEF PipelineNumbers
        <4>6. \A k \in 1..Len(bus') : bus'[k] = k
          BY <2>2, <4>2, <4>4, <4>5
        <4> QED
          BY <2>1, <4>3, <4>6 DEF ToBus
      <3> QED
        BY <1>1, <2>1, <3>1, <3>2 DEF NothingMissing, Quiet
    <2> QED
      BY <2>3, <2>5, <2>6, <2>7, <2>8 DEF PipelineInv
  <1> QED
    BY <1>2, <1>3 DEF L!Flush

LEMMA PipelineEndStream ==
  ASSUME PipelineInv, PipelineAssumption, L!EndStream PROVE PipelineInv'
  <1>0. /\ PipelineNumbers /\ PipelineSeqs
        /\ PipeTypes /\ FeederTypes /\ WorkerTypes /\ PqTypes /\ SaidTypes
        /\ Threads /\ SaidOrder /\ QueueOrder /\ NothingMissing
    BY PipelineFacts
  <1>1. feeder.pc = "stream" /\ UNCHANGED <<pq, pipe, worker, heard, bus>>
    BY DEF L!EndStream
  <1>2. PICK pc \in {"done", "push", "abort"} :
          /\ L!Goes(pc)
          /\ pc = "done" => ~feeder.started /\ feeder.next > Sentences
          /\ pc # "done" => feeder.started
          /\ pc = "abort" => aborter' = [aborter EXCEPT !["agent"] = "flag"]
          /\ pc # "abort" => UNCHANGED aborter
    BY DEF L!EndStream
  <1>3. /\ feeder' = [pc |-> pc, next |-> feeder.next, started |-> feeder.started]
        /\ feeder.next \in 1..Sentences + 1 /\ feeder.started \in BOOLEAN
    BY <1>0, <1>2, GoesTo
  <1>4. PipelineTypes'
    <2>1. PipeTypes'
      BY <1>0, <1>1, <1>2 DEF PipeTypes
    <2> QED
      BY <1>0, <1>1, <1>3, <2>1, FeederMoves, PipelineTypesStay DEF PipelineTypes
  <1>5. Threads'
    BY <1>0, <1>1, <1>2, <1>3 DEF Threads
  <1>6. SaidOrder' /\ QueueOrder'
    BY <1>0, <1>1, <1>3, OrderStays DEF Holds, PipelineNumbers
  <1>7. NothingMissing'
    <2>1. CASE pc = "abort"
      <3>1. aborter'["agent"] = "flag"
        BY <1>0, <1>2, <2>1 DEF PipeTypes
      <3> QED
        BY <3>1 DEF NothingMissing, Quiet
    <2>2. CASE pc = "push"
      <3>1. ASSUME Quiet PROVE ToQueue'
        <4>1. ToQueue
          BY <1>0, <1>1, <1>2, <2>2, <3>1 DEF NothingMissing
        <4>2. worker.pc \in {"test", "pop", "popped", "say"} /\ (worker.pc = "popped" => worker.item # 0)
          BY <1>1, <4>1 DEF ToQueue
        <4>3. pipe.active
          BY <1>1, <4>1 DEF ToQueue
        <4> QED
          BY <1>1, <1>3, <2>2, <4>1, <4>2, <4>3, QueueStays DEF Holds
      <3> QED
        BY <1>2, <1>3, <2>2, <3>1 DEF NothingMissing, Quiet
    <2>3. CASE pc = "done"
      <3>1. feeder.next = Sentences + 1
        BY <1>0, <1>2, <2>3 DEF PipelineNumbers
      <3>2. ASSUME Quiet PROVE ToBus'
        <4>1. ToBus
          BY <1>0, <1>2, <2>3, <3>2 DEF NothingMissing
        <4> QED
          BY <1>1, <1>3, <2>3, <3>1, <4>1 DEF ToBus
      <3> QED
        BY <1>2, <1>3, <2>3, <3>2 DEF NothingMissing, Quiet
    <2> QED
      BY <2>1, <2>2, <2>3
  <1> QED
    BY <1>4, <1>5, <1>6, <1>7 DEF PipelineInv

\* Where the feeder is after it queued a sentence, or the final signal.
LEMMA AfterPushed ==
  ASSUME FeederTypes, PipelineNumbers
  PROVE  /\ L!Finishing => /\ feeder.next = Sentences + 1 /\ L!Item = 0
                           /\ L!AfterPush = [pc |-> "join", next |-> feeder.next,
                                             started |-> feeder.started]
         /\ ~L!Finishing => /\ feeder.next \in 1..Sentences /\ L!Item = feeder.next
                            /\ feeder.next + 1 \in 1..Sentences + 1
                            /\ L!AfterPush = [pc |-> "stream", next |-> feeder.next + 1,
                                              started |-> feeder.started]
         /\ L!Item \in 0..Sentences /\ feeder.started \in BOOLEAN
  <1>1. L!Finishing <=> feeder.next > Sentences
    BY DEF L!Finishing
  <1>2. /\ L!Finishing => L!Item = 0 /\ L!AfterPush = [feeder EXCEPT !.pc = "join"]
        /\ ~L!Finishing => /\ L!Item = feeder.next
                           /\ L!AfterPush = [feeder EXCEPT !.pc = "stream", !.next = @ + 1]
    BY DEF L!Item, L!AfterPush, L!Final
  <1>6. [feeder EXCEPT !.pc = "join"]
          = [pc |-> "join", next |-> feeder.next, started |-> feeder.started]
    BY DEF FeederTypes
  <1>7. [feeder EXCEPT !.pc = "stream", !.next = @ + 1]
          = [pc |-> "stream", next |-> feeder.next + 1, started |-> feeder.started]
    <2>1. feeder = [pc |-> feeder.pc, next |-> feeder.next, started |-> feeder.started]
      BY DEF FeederTypes
    <2>2. feeder.next \in Nat
      BY DEF PipelineNumbers
    <2> DEFINE f == feeder.next
               p == feeder.pc
               b == feeder.started
    <2>3. feeder = [pc |-> p, next |-> f, started |-> b] /\ f \in Nat
      BY <2>1, <2>2
    <2> HIDE DEF f, p, b
    <2>4. [feeder EXCEPT !.pc = "stream"] = [pc |-> "stream", next |-> f, started |-> b]
      BY <2>3
    <2>5. feeder.next = f
      BY <2>3
    <2>6. [feeder EXCEPT !.pc = "stream", !.next = @ + 1]
            = [[pc |-> "stream", next |-> f, started |-> b] EXCEPT !.next = f + 1]
      BY <2>4, <2>5, Zenon
    <2>7. [[pc |-> "stream", next |-> f, started |-> b] EXCEPT !.next = f + 1]
            = [pc |-> "stream", next |-> f + 1, started |-> b]
      OBVIOUS
    <2> QED
      BY <2>6, <2>7 DEF f, b
  <1>3. feeder.started \in BOOLEAN
    BY DEF FeederTypes
  <1>4. /\ L!Finishing => feeder.next = Sentences + 1
        /\ ~L!Finishing => feeder.next \in 1..Sentences /\ feeder.next + 1 \in 1..Sentences + 1
    BY <1>1 DEF PipelineNumbers
  <1>5. 0 \in 0..Sentences /\ (~L!Finishing => feeder.next \in 0..Sentences)
    BY <1>4 DEF PipelineNumbers
  <1> QED
    BY <1>2, <1>3, <1>4, <1>5, <1>6, <1>7

\* Put queues at the end, or finds the queue full.
LEMMA PipelinePut ==
  ASSUME PipelineInv, PipelineAssumption, L!Put, feeder.pc \in {"push", "woken"},
         UNCHANGED <<pipe, aborter, worker, heard, bus>>, feeder.pc = "push" => pipe.active
  PROVE  PipelineInv'
  <1>0. /\ PipelineNumbers /\ PipelineSeqs
        /\ PipeTypes /\ FeederTypes /\ WorkerTypes /\ PqTypes /\ SaidTypes
        /\ Threads /\ SaidOrder /\ QueueOrder /\ NothingMissing
    BY PipelineFacts
  <1>1. feeder.started
    BY <1>0 DEF Threads
  <1>2. CASE L!Goes("full") /\ UNCHANGED pq
    <2>1. /\ feeder' = [pc |-> "full", next |-> feeder.next, started |-> feeder.started]
          /\ feeder.next \in 1..Sentences + 1 /\ feeder.started \in BOOLEAN
      BY <1>0, <1>2, GoesTo
    <2>2. PipelineTypes'
      BY <1>0, <1>2, <2>1, FeederMoves, PipelineTypesStay DEF PipelineTypes
    <2>3. Threads'
      BY <1>0, <1>1, <2>1 DEF Threads
    <2>4. SaidOrder' /\ QueueOrder'
      BY <1>0, <1>2, <2>1, OrderStays DEF Holds, PipelineNumbers
    <2>5. NothingMissing'
      <3>1. ASSUME Quiet PROVE ToQueue'
        <4>1. ToQueue
          BY <1>0, <1>1, <3>1 DEF NothingMissing
        <4>2. worker.pc \in {"test", "pop", "popped", "say"} /\ (worker.pc = "popped" => worker.item # 0)
          BY <4>1 DEF ToQueue
        <4>3. pipe.active
          BY <4>1 DEF ToQueue
        <4> QED
          BY <1>2, <2>1, <4>1, <4>2, <4>3, QueueStays DEF Holds
      <3> QED
        BY <1>1, <2>1, <3>1 DEF NothingMissing, Quiet
    <2> QED
      BY <2>2, <2>3, <2>4, <2>5 DEF PipelineInv
  <1>3. CASE Len(pq) < PipeLen /\ pq' = Append(pq, L!Item) /\ feeder' = L!AfterPush
    <2>1. /\ pq' \in Seq(0..Sentences) /\ Len(pq') = Len(pq) + 1
          /\ \A k \in 1..Len(pq) : pq'[k] = pq[k]
          /\ pq'[Len(pq) + 1] = L!Item
      BY <1>0, <1>3, AfterPushed, AppendFacts DEF PqTypes
    <2>2. /\ feeder'.next \in Nat /\ feeder'.next >= feeder.next /\ feeder'.started
          /\ feeder'.pc \in {"join", "stream"}
          /\ L!Item # 0 => L!Item = feeder.next /\ feeder'.next = feeder.next + 1
      BY <1>0, <1>1, <1>3, AfterPushed DEF PipelineNumbers
    <2>3. PipelineTypes'
      <3>1. FeederTypes'
        BY <1>0, <1>3, AfterPushed DEF FeederTypes
      <3>2. PqTypes'
        BY <1>0, <1>3, <2>1 DEF PqTypes, PipelineNumbers
      <3> QED
        BY <1>0, <3>1, <3>2, PipelineTypesStay DEF PipelineTypes
    <2>4. Threads'
      BY <1>0, <1>1, <2>2 DEF Threads
    <2>5. \A k \in 1..Len(pq') : k \in 1..Len(pq) \/ k = Len(pq) + 1
      BY <1>0, <2>1 DEF PipelineNumbers
    <2>6. SaidOrder'
      <3>1. \A x \in Nat : x < feeder.next => x < feeder'.next
        BY <1>0, <2>2 DEF PipelineNumbers
      <3> QED
        BY <1>0, <3>1 DEF SaidOrder, PipelineSeqs, Ascends
    <2>7. QueueOrder'
      <3>1. \A x \in Nat : x < feeder.next => x < feeder'.next
        BY <1>0, <2>2 DEF PipelineNumbers
      <3>2. L!Item # 0 => L!Item < feeder'.next
        BY <1>0, <2>2 DEF PipelineNumbers
      <3>3. (Holds' <=> Holds) /\ worker.item \in Nat
        BY <1>0 DEF Holds, PipelineNumbers
      <3>4. ASSUME Holds
            PROVE  /\ worker.item < feeder'.next
                   /\ \A i \in 1..Len(heard) : heard[i] < worker.item
                   /\ \A k \in 1..Len(pq') : pq'[k] # 0 => worker.item < pq'[k]
        BY <1>0, <2>1, <2>2, <2>5, <3>1, <3>3, <3>4 DEF QueueOrder
      <3>5. \A k \in 1..Len(pq') : pq'[k] # 0 => pq'[k] < feeder'.next
        BY <1>0, <2>1, <2>5, <3>1, <3>2 DEF QueueOrder, PipelineSeqs
      <3>6. ASSUME NEW i \in 1..Len(pq'), NEW j \in 1..Len(pq'), i < j, pq'[i] # 0, pq'[j] # 0
            PROVE  pq'[i] < pq'[j]
        <4>1. i \in 1..Len(pq)
          BY <1>0, <2>1, <3>6 DEF PipelineNumbers
        <4>2. CASE j \in 1..Len(pq)
          BY <1>0, <2>1, <3>6, <4>1, <4>2 DEF QueueOrder
        <4>3. CASE j = Len(pq) + 1
          BY <1>0, <2>1, <2>2, <3>6, <4>1, <4>3 DEF QueueOrder
        <4> QED
          BY <2>5, <4>2, <4>3
      <3>7. \A i \in 1..Len(heard), k \in 1..Len(pq') : pq'[k] # 0 => heard[i] < pq'[k]
        BY <1>0, <2>1, <2>2, <2>5 DEF QueueOrder, SaidOrder
      <3> QED
        BY <1>0, <3>3, <3>4, <3>5, <3>6, <3>7 DEF QueueOrder
    <2>8. NothingMissing'
      <3>1. ASSUME Quiet PROVE ToQueue'
        <4>1. ToQueue
          BY <1>0, <1>1, <3>1 DEF NothingMissing
        <4>2. /\ worker.pc \in {"test", "pop", "popped", "say"} /\ (worker.pc = "popped" => worker.item # 0)
              /\ pipe.active /\ Len(pq) = feeder.next - 1 - Said /\ Said < feeder.next
              /\ \A i \in 1..Len(pq) : i < feeder.next - Said => pq[i] = Said + i
          BY <4>1 DEF ToQueue
        <4>3. Said' = Said /\ (Holds' <=> Holds) /\ Said \in Nat
          BY <1>0 DEF Said, Holds, PipelineNumbers
        <4>4. CASE L!Finishing
          <5>1. /\ feeder'.pc = "join" /\ feeder'.next = feeder.next /\ feeder.next = Sentences + 1
                /\ L!Item = 0
            BY <1>0, <1>3, <4>4, AfterPushed
          <5>2. Len(pq') = feeder'.next - Said /\ pq'[Len(pq')] = 0
            BY <1>0, <2>1, <4>2, <4>3, <5>1 DEF PipelineNumbers
          <5>3. \A k \in 1..Len(pq') : k < feeder'.next - Said => pq'[k] = Said + k
            <6>1. \A k \in 1..Len(pq') : k < feeder'.next - Said => k \in 1..Len(pq)
              BY <1>0, <2>1, <4>2, <4>3, <5>1 DEF PipelineNumbers
            <6> QED
              BY <2>1, <4>2, <5>1, <6>1
          <5> QED
            BY <4>1, <4>2, <4>3, <5>1, <5>2, <5>3 DEF ToQueue
        <4>5. CASE ~L!Finishing
          <5>1. /\ feeder'.pc = "stream" /\ feeder'.next = feeder.next + 1 /\ L!Item = feeder.next
            BY <1>0, <1>3, <4>5, AfterPushed
          <5>2. /\ Len(pq') = feeder'.next - 1 - Said /\ pq'[Len(pq) + 1] = Said + (Len(pq) + 1)
                /\ Said < feeder'.next
            <6>1. feeder.next \in Nat /\ Len(pq) \in Nat /\ Said \in Nat
              BY <1>0 DEF PipelineNumbers
            <6>2. Len(pq') = Len(pq) + 1 /\ pq'[Len(pq) + 1] = feeder.next
              BY <2>1, <5>1
            <6>3. Len(pq) = feeder.next - 1 - Said /\ Said < feeder.next
              BY <4>2
            <6> QED
              BY <5>1, <6>1, <6>2, <6>3
          <5>3. \A k \in 1..Len(pq) : k < feeder.next - Said
            BY <1>0, <4>2, <4>3 DEF PipelineNumbers
          <5>4. \A k \in 1..Len(pq') : pq'[k] = Said + k
            BY <2>1, <2>5, <4>2, <5>2, <5>3
          <5> QED
            BY <4>1, <4>2, <4>3, <5>1, <5>2, <5>4 DEF ToQueue
        <4> QED
          BY <4>4, <4>5
      <3>2. feeder'.pc # "done"
        BY <2>2
      <3> QED
        BY <2>2, <3>1, <3>2 DEF NothingMissing, Quiet
    <2> QED
      BY <2>3, <2>4, <2>6, <2>7, <2>8 DEF PipelineInv
  <1> QED
    BY <1>2, <1>3 DEF L!Put

LEMMA PipelinePush ==
  ASSUME PipelineInv, PipelineAssumption, L!Push PROVE PipelineInv'
  <1>0. /\ PipelineNumbers /\ PipelineSeqs
        /\ PipeTypes /\ FeederTypes /\ WorkerTypes /\ PqTypes /\ SaidTypes
        /\ Threads /\ SaidOrder /\ QueueOrder /\ NothingMissing
    BY PipelineFacts
  <1>1. feeder.pc = "push" /\ UNCHANGED <<pipe, aborter, worker, heard, bus>>
    BY DEF L!Push
  <1>2. CASE pipe.active
    BY <1>1, <1>2, PipelinePut DEF L!Push
  <1>3. CASE ~pipe.active
    <2>1. /\ feeder' = IF L!Finishing THEN [feeder EXCEPT !.pc = "done"] ELSE L!AfterPush
          /\ UNCHANGED pq
      BY <1>3 DEF L!Push
    <2>2. PICK pc \in {"done", "stream"}, next \in 1..Sentences + 1 :
            /\ feeder' = [pc |-> pc, next |-> next, started |-> feeder.started]
            /\ next >= feeder.next
      <3>1. CASE L!Finishing
        <4>1. feeder' = [pc |-> "done", next |-> feeder.next, started |-> feeder.started]
          BY <1>0, <2>1, <3>1 DEF FeederTypes
        <4> QED
          BY <1>0, <4>1 DEF PipelineNumbers, FeederTypes
      <3>2. CASE ~L!Finishing
        <4>1. feeder' = [pc |-> "stream", next |-> feeder.next + 1, started |-> feeder.started]
              /\ feeder.next + 1 \in 1..Sentences + 1
          BY <1>0, <2>1, <3>2, AfterPushed
        <4> QED
          BY <1>0, <4>1 DEF PipelineNumbers
      <3> QED
        BY <3>1, <3>2
    <2>3. PipelineTypes'
      <3>1. feeder.started \in BOOLEAN
        BY <1>0 DEF FeederTypes
      <3> QED
        BY <1>0, <1>1, <2>1, <2>2, <3>1, FeederMoves, PipelineTypesStay DEF PipelineTypes
    <2>4. Threads'
      BY <1>0, <1>1, <2>1, <2>2 DEF Threads
    <2>5. SaidOrder' /\ QueueOrder'
      BY <1>0, <1>1, <2>1, <2>2, OrderStays DEF Holds, PipelineNumbers
    <2>6. ~Quiet
      BY <1>0, <1>1, <1>3 DEF NothingMissing, ToQueue, Threads
    <2>7. NothingMissing'
      BY <1>1, <2>6 DEF NothingMissing, Quiet
    <2> QED
      BY <2>3, <2>4, <2>5, <2>7 DEF PipelineInv
  <1> QED
    BY <1>2, <1>3

LEMMA PipelinePushAfterWait ==
  ASSUME PipelineInv, PipelineAssumption, L!PushAfterWait PROVE PipelineInv'
  BY PipelinePut DEF L!PushAfterWait

LEMMA PipelineFinishJoin ==
  ASSUME PipelineInv, PipelineAssumption, L!FinishJoin PROVE PipelineInv'
  <1>0. /\ PipelineNumbers /\ PipelineSeqs
        /\ PipeTypes /\ FeederTypes /\ WorkerTypes /\ PqTypes /\ SaidTypes
        /\ Threads /\ SaidOrder /\ QueueOrder /\ NothingMissing
    BY PipelineFacts
  <1>1. /\ feeder.pc = "join" /\ worker.pc = "gone" /\ UNCHANGED <<aborter, worker, heard, bus>>
        /\ pipe' = [pipe EXCEPT !.active = FALSE, !.running = FALSE, !.pb = "none"]
        /\ pq' = <<>> /\ L!Goes("done")
    BY DEF L!FinishJoin
  <1>2. /\ feeder' = [pc |-> "done", next |-> feeder.next, started |-> feeder.started]
        /\ feeder.next \in 1..Sentences + 1 /\ feeder.started \in BOOLEAN
    BY <1>0, <1>1, GoesTo
  <1>3. /\ pipe' = [active |-> FALSE, running |-> FALSE, abort |-> pipe.abort, pb |-> "none"]
        /\ pipe.abort \in BOOLEAN
    BY <1>0, <1>1 DEF PipeTypes
  <1>4. Len(pq') = 0 /\ pq' \in Seq(0..Sentences)
    BY <1>1, EmptySeq
  <1>5. PipelineTypes'
    <2>1. PipeTypes'
      BY <1>0, <1>1, <1>3 DEF PipeTypes
    <2>2. PqTypes'
      BY <1>0, <1>4 DEF PqTypes, PipelineNumbers
    <2> QED
      BY <1>0, <1>1, <1>2, <2>1, <2>2, FeederMoves, PipelineTypesStay DEF PipelineTypes
  <1>6. Threads'
    BY <1>0, <1>1, <1>2, <1>3 DEF Threads
  <1>7. SaidOrder' /\ QueueOrder'
    BY <1>0, <1>1, <1>2, <1>4 DEF SaidOrder, QueueOrder, Ascends, Holds
  <1>8. NothingMissing'
    <2>1. feeder.started
      BY <1>0, <1>1 DEF Threads
    <2>2. ASSUME Quiet PROVE AllSaid'
      <3>1. ToQueue
        BY <1>0, <1>1, <2>1, <2>2 DEF NothingMissing
      <3>2. Said = Len(heard) /\ Said = feeder.next - 1 /\ feeder.next = Sentences + 1 /\ bus = <<>>
        BY <1>1, <3>1 DEF ToQueue, Said, Holds
      <3>3. Len(heard) = Sentences
        BY <1>0, <3>2 DEF PipelineNumbers
      <3> QED
        BY <1>1, <3>1, <3>2, <3>3 DEF AllSaid, ToQueue
    <2> QED
      BY <1>1, <1>2, <2>1, <2>2 DEF NothingMissing, Quiet
  <1> QED
    BY <1>5, <1>6, <1>7, <1>8 DEF PipelineInv

LEMMA PipelineAgentAborted ==
  ASSUME PipelineInv, PipelineAssumption, L!AgentAborted PROVE PipelineInv'
  <1>0. /\ PipelineNumbers /\ PipelineSeqs
        /\ PipeTypes /\ FeederTypes /\ WorkerTypes /\ PqTypes /\ SaidTypes
        /\ Threads /\ SaidOrder /\ QueueOrder /\ NothingMissing
    BY PipelineFacts
  <1>1. /\ feeder.pc = "abort" /\ aborter["agent"] = "back" /\ L!Goes("done")
        /\ UNCHANGED <<pq, pipe, aborter, worker, heard, bus>>
    BY DEF L!AgentAborted
  <1>2. /\ feeder' = [pc |-> "done", next |-> feeder.next, started |-> feeder.started]
        /\ feeder.next \in 1..Sentences + 1 /\ feeder.started \in BOOLEAN
    BY <1>0, <1>1, GoesTo
  <1>3. PipelineTypes'
    BY <1>0, <1>1, <1>2, FeederMoves, PipelineTypesStay DEF PipelineTypes
  <1>4. Threads'
    BY <1>0, <1>1, <1>2 DEF Threads
  <1>5. SaidOrder' /\ QueueOrder'
    BY <1>0, <1>1, <1>2, OrderStays DEF Holds, PipelineNumbers
  <1>6. NothingMissing'
    BY <1>1 DEF NothingMissing, Quiet
  <1> QED
    BY <1>3, <1>4, <1>5, <1>6 DEF PipelineInv

\* Who aborts, the agent or another thread.
LEMMA PipelineAborts ==
  ASSUME PipelineInv, PipelineAssumption,
         L!BargeIn \/ \E t \in {"agent", "barge"} : L!AbortFlag(t) \/ L!AbortJoin(t)
  PROVE  PipelineInv'
  <1>0. /\ PipelineNumbers /\ PipelineSeqs
        /\ PipeTypes /\ FeederTypes /\ WorkerTypes /\ PqTypes /\ SaidTypes
        /\ Threads /\ SaidOrder /\ QueueOrder /\ NothingMissing
    BY PipelineFacts
  <1>1. UNCHANGED <<feeder, worker, heard, bus>>
    BY DEF L!BargeIn, L!AbortFlag, L!AbortJoin
  <1>2. PICK t \in {"agent", "barge"}, at \in {"flag", "join", "back"} :
          aborter' = [aborter EXCEPT ![t] = at]
    BY DEF L!BargeIn, L!AbortFlag, L!AbortJoin
  <1>3. aborter' \in [{"agent", "barge"} -> {"away", "flag", "join", "back"}] /\ ~Quiet'
    BY <1>0, <1>2 DEF PipeTypes, Quiet
  <1>4. NothingMissing'
    BY <1>3 DEF NothingMissing
  <1>5. CASE L!BargeIn
    <2>1. UNCHANGED <<pq, pipe>>
      BY <1>5 DEF L!BargeIn
    <2>2. PipelineTypes'
      <3>1. PipeTypes'
        BY <1>0, <1>3, <2>1 DEF PipeTypes
      <3> QED
        BY <1>0, <1>1, <2>1, <3>1, PipelineTypesStay DEF PipelineTypes
    <2>3. Threads'
      BY <1>0, <1>1, <1>5, <2>1 DEF Threads, L!BargeIn
    <2>4. SaidOrder' /\ QueueOrder'
      BY <1>0, <1>1, <2>1, OrderStays DEF Holds, PipelineNumbers
    <2> QED
      BY <1>4, <2>2, <2>3, <2>4 DEF PipelineInv
  <1>6. ASSUME NEW s \in {"agent", "barge"}, L!AbortFlag(s) PROVE PipelineInv'
    <2>1. UNCHANGED pq /\ pipe'.active = pipe.active /\ aborter[s] = "flag"
      BY <1>0, <1>6 DEF L!AbortFlag, PipeTypes
    <2>2. PipelineTypes'
      <3>1. PipeTypes'
        <4>1. CASE UNCHANGED pipe
          BY <1>0, <1>3, <4>1 DEF PipeTypes
        <4>2. CASE pipe' = [pipe EXCEPT !.abort = TRUE, !.running = FALSE,
                                        !.pb = IF @ = "open" THEN "stopped" ELSE @]
          <5>1. pipe' = [active |-> pipe.active, running |-> FALSE, abort |-> TRUE,
                         pb |-> IF pipe.pb = "open" THEN "stopped" ELSE pipe.pb]
                /\ pipe.active \in BOOLEAN /\ pipe.pb \in {"none", "open", "stopped"}
            BY <1>0, <4>2 DEF PipeTypes
          <5> QED
            BY <1>3, <5>1 DEF PipeTypes
        <4> QED
          BY <1>6, <4>1, <4>2 DEF L!AbortFlag
      <3> QED
        BY <1>0, <1>1, <2>1, <3>1, PipelineTypesStay DEF PipelineTypes
    <2>3. feeder.pc # "idle"
      BY <1>0, <2>1 DEF Threads, Quiet
    <2>4. Threads'
      BY <1>0, <1>1, <2>1, <2>3 DEF Threads
    <2>5. SaidOrder' /\ QueueOrder'
      BY <1>0, <1>1, <2>1, OrderStays DEF Holds, PipelineNumbers
    <2> QED
      BY <1>4, <2>2, <2>4, <2>5 DEF PipelineInv
  <1>7. ASSUME NEW s \in {"agent", "barge"}, L!AbortJoin(s) PROVE PipelineInv'
    <2>1. /\ aborter[s] = "join" /\ worker.pc = "gone" /\ pq' = <<>>
          /\ pipe' = [pipe EXCEPT !.active = FALSE, !.pb = "none"]
      BY <1>7 DEF L!AbortJoin
    <2>2. Len(pq') = 0 /\ pq' \in Seq(0..Sentences)
      BY <2>1, EmptySeq
    <2>3. PipelineTypes'
      <3>1. PipeTypes'
        <4>1. /\ pipe' = [active |-> FALSE, running |-> pipe.running, abort |-> pipe.abort,
                          pb |-> "none"]
              /\ pipe.running \in BOOLEAN /\ pipe.abort \in BOOLEAN
          BY <1>0, <2>1 DEF PipeTypes
        <4> QED
          BY <1>3, <4>1 DEF PipeTypes
      <3>2. PqTypes'
        BY <1>0, <2>2 DEF PqTypes, PipelineNumbers
      <3> QED
        BY <1>0, <1>1, <3>1, <3>2, PipelineTypesStay DEF PipelineTypes
    <2>4. feeder.pc # "idle"
      BY <1>0, <2>1 DEF Threads, Quiet
    <2>5. Threads'
      BY <1>0, <1>1, <2>1, <2>4 DEF Threads
    <2>6. SaidOrder' /\ QueueOrder'
      BY <1>0, <1>1, <2>1, <2>2 DEF SaidOrder, QueueOrder, Ascends, Holds
    <2> QED
      BY <1>4, <2>3, <2>5, <2>6 DEF PipelineInv
  <1> QED
    BY <1>5, <1>6, <1>7

LEMMA PipelineTest ==
  ASSUME PipelineInv, PipelineAssumption, L!Test PROVE PipelineInv'
  <1>0. /\ PipelineNumbers /\ PipelineSeqs
        /\ PipeTypes /\ FeederTypes /\ WorkerTypes /\ PqTypes /\ SaidTypes
        /\ Threads /\ SaidOrder /\ QueueOrder /\ NothingMissing
    BY PipelineFacts
  <1>1. worker.pc = "test" /\ UNCHANGED <<pq, pipe, feeder, aborter, heard, bus>>
    BY DEF L!Test
  <1>2. /\ worker' = [pc |-> IF pipe.running THEN "pop" ELSE "gone", item |-> worker.item]
        /\ worker.item \in 0..Sentences
    BY <1>0 DEF L!Test, WorkerTypes
  <1>3. PipelineTypes'
    <2>1. WorkerTypes'
      BY <1>0, <1>2 DEF WorkerTypes
    <2> QED
      BY <1>0, <1>1, <2>1, PipelineTypesStay DEF PipelineTypes
  <1>4. Threads'
    BY <1>0, <1>1, <1>2 DEF Threads, Quiet
  <1>5. ~Holds /\ ~Holds'
    BY <1>1, <1>2 DEF Holds
  <1>6. SaidOrder' /\ QueueOrder'
    BY <1>0, <1>1, <1>5, OrderStays DEF PipelineNumbers
  <1>7. NothingMissing'
    <2>1. feeder.started /\ feeder'.started
      BY <1>0, <1>1 DEF Threads
    <2>2. Said' = Said
      BY <1>1, <1>5 DEF Said
    <2>3. CASE Quiet /\ feeder.pc # "done"
      <3>1. ToQueue
        BY <1>0, <1>1, <2>1, <2>3 DEF NothingMissing
      <3>2. ToQueue'
        BY <1>1, <1>2, <1>5, <2>2, <3>1 DEF ToQueue
      <3> QED
        BY <1>1, <2>1, <2>3, <3>2 DEF NothingMissing
    <2>4. CASE ~Quiet \/ feeder.pc = "done"
      BY <1>0, <1>1, <2>1, <2>4 DEF NothingMissing, AllSaid, Quiet
    <2> QED
      BY <2>3, <2>4
  <1> QED
    BY <1>3, <1>4, <1>6, <1>7 DEF PipelineInv

LEMMA PipelinePop ==
  ASSUME PipelineInv, PipelineAssumption, L!Pop PROVE PipelineInv'
  <1>0. /\ PipelineNumbers /\ PipelineSeqs
        /\ PipeTypes /\ FeederTypes /\ WorkerTypes /\ PqTypes /\ SaidTypes
        /\ Threads /\ SaidOrder /\ QueueOrder /\ NothingMissing
    BY PipelineFacts
  <1>1. worker.pc = "pop" /\ UNCHANGED <<pipe, aborter, heard, bus>> /\ ~Holds /\ Said = Len(heard)
    BY DEF L!Pop, Holds, Said
  <1>2. feeder.started
    BY <1>0, <1>1 DEF Threads
  <1>3. CASE pq = <<>>
    <2>1. /\ worker' = [worker EXCEPT !.pc = "gone"] /\ UNCHANGED <<pq, feeder>> /\ ~pipe.running
      BY <1>3 DEF L!Pop
    <2>2. worker' = [pc |-> "gone", item |-> worker.item] /\ worker.item \in 0..Sentences
      BY <1>0, <2>1 DEF WorkerTypes
    <2>3. PipelineTypes'
      <3>1. WorkerTypes'
        BY <1>0, <2>2 DEF WorkerTypes
      <3> QED
        BY <1>0, <1>1, <2>1, <3>1, PipelineTypesStay DEF PipelineTypes
    <2>4. Threads'
      BY <1>0, <1>1, <1>2, <2>1, <2>2 DEF Threads, Quiet
    <2>5. SaidOrder' /\ QueueOrder'
      BY <1>0, <1>1, <2>1, <2>2, OrderStays DEF PipelineNumbers, Holds
    <2>6. NothingMissing'
      <3>1. Quiet => feeder.pc = "done"
        BY <1>0, <1>2, <2>1 DEF NothingMissing, ToQueue
      <3> QED
        BY <1>0, <1>1, <1>2, <2>1, <3>1 DEF NothingMissing, AllSaid, Quiet
    <2> QED
      BY <2>3, <2>4, <2>5, <2>6 DEF PipelineInv
  <1>4. CASE pq # <<>>
    <2>1. /\ worker' = [pc |-> "popped", item |-> Head(pq)] /\ pq' = Tail(pq)
          /\ feeder' = IF feeder.pc = "full" THEN [feeder EXCEPT !.pc = "woken"] ELSE feeder
      BY <1>4 DEF L!Pop
    <2>2. /\ Len(pq) \in Nat \ {0} /\ worker'.item = pq[1] /\ pq[1] \in 0..Sentences
          /\ worker'.pc = "popped" /\ pq' \in Seq(0..Sentences) /\ Len(pq') = Len(pq) - 1
          /\ \A k \in 1..Len(pq) - 1 : pq'[k] = pq[k + 1]
      BY <1>0, <1>4, <2>1, TailFacts DEF PqTypes
    <2>3. PICK pc \in {"idle", "activate", "stream", "push", "full", "woken", "join", "abort", "done"} :
            /\ feeder' = [pc |-> pc, next |-> feeder.next, started |-> feeder.started]
            /\ pc = feeder.pc \/ (feeder.pc = "full" /\ pc = "woken")
      <3>1. CASE feeder.pc = "full"
        <4>1. feeder' = [pc |-> "woken", next |-> feeder.next, started |-> feeder.started]
          BY <1>0, <2>1, <3>1 DEF FeederTypes
        <4> QED
          BY <3>1, <4>1
      <3>2. CASE feeder.pc # "full"
        <4>1. feeder' = feeder /\ feeder = [pc |-> feeder.pc, next |-> feeder.next, started |-> feeder.started]
              /\ feeder.pc \in {"idle", "activate", "stream", "push", "full", "woken", "join", "abort", "done"}
          BY <1>0, <2>1, <3>2 DEF FeederTypes
        <4> QED
          BY <4>1
      <3> QED
        BY <3>1, <3>2
    <2>4. PipelineTypes'
      <3>1. WorkerTypes'
        BY <2>1, <2>2 DEF WorkerTypes
      <3>2. PqTypes'
        BY <1>0, <2>2 DEF PqTypes, PipelineNumbers
      <3>3. feeder.next \in 1..Sentences + 1 /\ feeder.started \in BOOLEAN
        BY <1>0 DEF FeederTypes
      <3>4. FeederTypes'
        BY <1>0, <2>3, <3>3, FeederMoves
      <3> QED
        BY <1>0, <1>1, <3>1, <3>2, <3>4, PipelineTypesStay DEF PipelineTypes
    <2>5. Threads'
      BY <1>0, <1>1, <1>2, <2>2, <2>3 DEF Threads
    <2>6. SaidOrder'
      BY <1>0, <1>1, <2>3 DEF SaidOrder, Ascends
    <2>7. \A k \in 1..Len(pq') : k \in 1..Len(pq) /\ k + 1 \in 1..Len(pq) /\ pq'[k] = pq[k + 1] /\ 1 < k + 1
      BY <1>0, <2>2 DEF PipelineNumbers
    <2>8. QueueOrder'
      <3>1. 1 \in 1..Len(pq)
        BY <2>2
      <3>2. ASSUME worker'.item # 0
            PROVE  /\ worker'.item < feeder'.next
                   /\ \A i \in 1..Len(heard) : heard[i] < worker'.item
                   /\ \A k \in 1..Len(pq') : pq'[k] # 0 => worker'.item < pq'[k]
        <4>1. pq[1] # 0
          BY <2>2, <3>2
        <4>2. pq[1] < feeder.next /\ \A i \in 1..Len(heard) : heard[i] < pq[1]
          BY <1>0, <3>1, <4>1 DEF QueueOrder
        <4>3. \A k \in 1..Len(pq') : pq'[k] # 0 => pq[1] < pq'[k]
          BY <1>0, <2>7, <3>1, <4>1 DEF QueueOrder
        <4> QED
          BY <2>2, <2>3, <4>2, <4>3
      <3>3. \A k \in 1..Len(pq') : pq'[k] # 0 => pq'[k] < feeder'.next
        BY <1>0, <2>3, <2>7 DEF QueueOrder
      <3>4. ASSUME NEW i \in 1..Len(pq'), NEW j \in 1..Len(pq'), i < j, pq'[i] # 0, pq'[j] # 0
            PROVE  pq'[i] < pq'[j]
        <4>1. /\ i + 1 \in 1..Len(pq) /\ j + 1 \in 1..Len(pq)
              /\ pq'[i] = pq[i + 1] /\ pq'[j] = pq[j + 1]
          BY <2>7
        <4>2. i + 1 < j + 1
          BY <1>0, <2>2, <3>4 DEF PipelineNumbers
        <4> QED
          BY <1>0, <3>4, <4>1, <4>2 DEF QueueOrder
      <3>5. \A i \in 1..Len(heard), k \in 1..Len(pq') : pq'[k] # 0 => heard[i] < pq'[k]
        BY <1>0, <2>7 DEF QueueOrder
      <3> QED
        BY <1>1, <3>2, <3>3, <3>4, <3>5 DEF QueueOrder, Holds
    <2>9. NothingMissing'
      <3>1. CASE Quiet /\ feeder.pc # "done"
        <4>1. ToQueue
          BY <1>0, <1>2, <3>1 DEF NothingMissing
        <4>2. /\ IF feeder.pc = "join" THEN Len(pq) = feeder.next - Said /\ pq[Len(pq)] = 0
                                       ELSE Len(pq) = feeder.next - 1 - Said
              /\ Said < feeder.next
              /\ \A i \in 1..Len(pq) : i < feeder.next - Said => pq[i] = Said + i
          BY <1>1, <4>1 DEF ToQueue
        <4>3. /\ feeder'.next = feeder.next /\ feeder'.started = feeder.started
              /\ feeder'.pc \in {"activate", "stream", "push", "full", "woken", "join"}
              /\ (feeder'.pc = "join" <=> feeder.pc = "join")
              /\ (feeder'.pc = "activate" <=> feeder.pc = "activate") /\ feeder'.pc # "done"
          BY <2>3, <4>1 DEF ToQueue
        <4>4. CASE pq[1] # 0
          <5>1. Said < feeder.next - 1
            BY <1>0, <2>2, <4>2, <4>4 DEF PipelineNumbers
          <5>2. pq[1] = Said + 1
            BY <1>0, <2>2, <4>2, <5>1 DEF PipelineNumbers
          <5>3. Holds' /\ Said' = Said + 1 /\ worker'.item = Len(heard) + 1
            BY <1>0, <1>1, <2>2, <4>4, <5>2 DEF Holds, Said, PipelineNumbers
          <5>9. /\ Said' = Said + 1 /\ Said \in Nat /\ feeder'.next = feeder.next /\ feeder.next \in Nat
                /\ Len(pq) \in Nat \ {0} /\ Len(pq') = Len(pq) - 1
            BY <1>0, <2>2, <4>3, <5>3 DEF PipelineNumbers
          <5>4. /\ Said' < feeder'.next
                /\ feeder.pc = "join" => Len(pq') = feeder'.next - Said'
                /\ feeder.pc # "join" => Len(pq') = feeder'.next - 1 - Said'
            <6>1. CASE feeder.pc = "join" /\ Len(pq) = feeder.next - Said
              BY <5>1, <5>9, <6>1
            <6>2. CASE feeder.pc # "join" /\ Len(pq) = feeder.next - 1 - Said
              BY <5>1, <5>9, <6>2
            <6> QED
              BY <4>2, <6>1, <6>2
          <5>5. \A k \in 1..Len(pq') : k < feeder'.next - Said' => pq'[k] = Said' + k
            <6>1. ASSUME NEW k \in 1..Len(pq'), k < feeder'.next - Said' PROVE pq'[k] = Said' + k
              <7>1. k + 1 < feeder.next - Said /\ Said + (k + 1) = Said' + k
                BY <5>9, <6>1
              <7> QED
                BY <2>7, <4>2, <7>1
            <6> QED
              BY <6>1
          <5>6. feeder.pc = "join" => Len(pq') \in 1..Len(pq') /\ Len(pq') + 1 = Len(pq)
            BY <1>0, <2>2, <4>2, <5>1 DEF PipelineNumbers
          <5>7. feeder.pc = "join" => pq'[Len(pq')] = 0
            BY <2>7, <4>2, <5>6
          <5>8. ToQueue'
            BY <1>1, <2>2, <4>1, <4>3, <4>4, <5>3, <5>4, <5>5, <5>7 DEF ToQueue
          <5> QED
            BY <1>2, <3>1, <4>3, <5>8 DEF NothingMissing
        <4>5. CASE pq[1] = 0
          <5>1. feeder.pc = "join" /\ Len(pq) = 1 /\ Said = feeder.next - 1
            <6>1. /\ feeder.next \in Nat /\ Len(pq) \in Nat /\ Said \in Nat /\ 1 <= Len(pq)
                  /\ 1 \in 1..Len(pq)
              BY <1>0, <2>2 DEF PipelineNumbers
            <6>2. ~(1 < feeder.next - Said)
              BY <4>2, <4>5, <6>1
            <6>3. CASE feeder.pc = "join"
              <7>1. Len(pq) = feeder.next - Said
                BY <4>2, <6>3
              <7> QED
                BY <6>1, <6>2, <6>3, <7>1
            <6>4. CASE feeder.pc # "join"
              <7>1. Len(pq) = feeder.next - 1 - Said
                BY <4>2, <6>4
              <7> QED
                BY <6>1, <6>2, <7>1
            <6> QED
              BY <6>3, <6>4
          <5>2. ~Holds' /\ Said' = Said /\ Len(pq') = 0 /\ worker'.item = 0
            BY <1>1, <2>2, <4>5, <5>1 DEF Holds, Said
          <5>3. ToQueue'
            BY <1>0, <1>1, <2>2, <4>1, <4>2, <4>3, <5>1, <5>2 DEF ToQueue, PipelineNumbers
          <5> QED
            BY <1>2, <3>1, <4>3, <5>3 DEF NothingMissing
        <4> QED
          BY <4>4, <4>5
      <3>2. CASE ~Quiet \/ feeder.pc = "done"
        BY <1>0, <1>1, <1>2, <2>3, <3>2 DEF NothingMissing, AllSaid, Quiet
      <3> QED
        BY <3>1, <3>2
    <2> QED
      BY <2>4, <2>5, <2>6, <2>8, <2>9 DEF PipelineInv
  <1> QED
    BY <1>3, <1>4

LEMMA PipelinePopped ==
  ASSUME PipelineInv, PipelineAssumption, L!Popped PROVE PipelineInv'
  <1>0. /\ PipelineNumbers /\ PipelineSeqs
        /\ PipeTypes /\ FeederTypes /\ WorkerTypes /\ PqTypes /\ SaidTypes
        /\ Threads /\ SaidOrder /\ QueueOrder /\ NothingMissing
    BY PipelineFacts
  <1>1. worker.pc = "popped" /\ UNCHANGED <<pq, pipe, feeder, aborter, heard, bus>>
    BY DEF L!Popped
  <1>2. /\ worker' = [pc |-> IF pipe.abort \/ worker.item = 0 THEN "gone" ELSE "say",
                      item |-> worker.item]
        /\ worker.item \in 0..Sentences
    BY <1>0 DEF L!Popped, L!Final, WorkerTypes
  <1>3. PipelineTypes'
    <2>1. WorkerTypes'
      BY <1>0, <1>2 DEF WorkerTypes
    <2> QED
      BY <1>0, <1>1, <2>1, PipelineTypesStay DEF PipelineTypes
  <1>4. Threads'
    BY <1>0, <1>1, <1>2 DEF Threads, Quiet
  <1>5. Holds' => Holds /\ worker'.item = worker.item
    BY <1>1, <1>2 DEF Holds
  <1>6. SaidOrder' /\ QueueOrder'
    BY <1>0, <1>1, <1>5, OrderStays DEF PipelineNumbers
  <1>7. NothingMissing'
    <2>1. feeder.started /\ feeder'.started
      BY <1>0, <1>1 DEF Threads
    <2>2. CASE Quiet /\ feeder.pc # "done"
      <3>1. ToQueue
        BY <1>0, <1>1, <2>1, <2>2 DEF NothingMissing
      <3>2. ~pipe.abort
        BY <3>1 DEF ToQueue
      <3>3. (Holds' <=> Holds) /\ worker'.item = worker.item /\ Said' = Said
        BY <1>1, <1>2, <3>2 DEF Holds, Said
      <3>4. ToQueue'
        BY <1>1, <1>2, <3>1, <3>2, <3>3 DEF ToQueue
      <3> QED
        BY <1>1, <2>1, <2>2, <3>4 DEF NothingMissing
    <2>3. CASE ~Quiet \/ feeder.pc = "done"
      BY <1>0, <1>1, <2>1, <2>3 DEF NothingMissing, AllSaid, Quiet
    <2> QED
      BY <2>2, <2>3
  <1> QED
    BY <1>3, <1>4, <1>6, <1>7 DEF PipelineInv

\* What was in hand is said, or dropped after an abort.
LEMMA PipelineSay ==
  ASSUME PipelineInv, PipelineAssumption, L!Say PROVE PipelineInv'
  <1>0. /\ PipelineNumbers /\ PipelineSeqs
        /\ PipeTypes /\ FeederTypes /\ WorkerTypes /\ PqTypes /\ SaidTypes
        /\ Threads /\ SaidOrder /\ QueueOrder /\ NothingMissing
    BY PipelineFacts
  <1>1. worker.pc = "say" /\ UNCHANGED <<pq, pipe, feeder, aborter, bus>>
    BY DEF L!Say
  <1>2. worker' = [pc |-> "test", item |-> worker.item] /\ worker.item \in 0..Sentences
    BY <1>0 DEF L!Say, WorkerTypes
  <1>3. /\ worker.item # 0 /\ Holds /\ ~Holds' /\ feeder.started /\ bus = <<>>
        /\ Said = Len(heard) + 1
    BY <1>0, <1>1, <1>2 DEF Holds, Said, WorkerTypes, Threads
  <1>4. Threads'
    BY <1>0, <1>1, <1>2, <1>3 DEF Threads, Quiet
  <1>5. WorkerTypes'
    BY <1>2 DEF WorkerTypes
  <1>6. CASE heard' = heard /\ (pipe.abort \/ pipe.pb # "open")
    <2>1. PipelineTypes'
      BY <1>0, <1>1, <1>5, <1>6, PipelineTypesStay DEF PipelineTypes
    <2>2. SaidOrder' /\ QueueOrder'
      BY <1>0, <1>1, <1>3, <1>6, OrderStays DEF PipelineNumbers
    <2>3. NothingMissing'
      <3>1. Quiet => feeder.pc = "done"
        BY <1>0, <1>3, <1>6 DEF NothingMissing, ToQueue
      <3> QED
        BY <1>0, <1>1, <1>3, <1>6, <3>1 DEF NothingMissing, AllSaid, Quiet
    <2> QED
      BY <1>4, <2>1, <2>2, <2>3 DEF PipelineInv
  <1>7. CASE heard' = Append(heard, worker.item) /\ ~pipe.abort /\ pipe.pb = "open"
    <2>1. worker.item \in 1..Sentences
      BY <1>0, <1>2, <1>3 DEF PipelineNumbers
    <2>2. /\ heard' \in Seq(1..Sentences) /\ Len(heard') = Len(heard) + 1
          /\ \A k \in 1..Len(heard) : heard'[k] = heard[k]
          /\ heard'[Len(heard) + 1] = worker.item
      BY <1>0, <1>7, <2>1, AppendFacts DEF SaidTypes
    <2>3. \A k \in 1..Len(heard') : k \in 1..Len(heard) \/ k = Len(heard) + 1
      BY <1>0, <2>2 DEF PipelineNumbers
    <2>4. PipelineTypes'
      <3>1. SaidTypes'
        BY <1>0, <1>1, <2>2 DEF SaidTypes
      <3> QED
        BY <1>0, <1>1, <1>5, <3>1, PipelineTypesStay DEF PipelineTypes
    <2>5. SaidOrder'
      <3>1. Ascends(heard')
        <4>1. 1..Sentences \in SUBSET Nat
          BY <1>0 DEF PipelineNumbers
        <4>2. Ascends(heard) /\ \A i \in 1..Len(heard) : heard[i] < worker.item
          BY <1>0, <1>3 DEF SaidOrder, QueueOrder
        <4>3. Ascends(Append(heard, worker.item))
          BY <1>0, <2>1, <4>1, <4>2, AscendsOn DEF SaidTypes
        <4> QED
          BY <1>7, <4>3
      <3>2. \A k \in 1..Len(heard') : heard'[k] < feeder.next
        BY <1>0, <1>3, <2>2, <2>3 DEF SaidOrder, QueueOrder
      <3>3. Len(bus) = 0
        BY <1>3
      <3> QED
        BY <1>0, <1>1, <3>1, <3>2, <3>3 DEF SaidOrder, Ascends
    <2>6. QueueOrder'
      <3>1. \A k \in 1..Len(heard'), j \in 1..Len(pq) : pq[j] # 0 => heard'[k] < pq[j]
        BY <1>0, <1>3, <2>2, <2>3 DEF QueueOrder
      <3> QED
        BY <1>0, <1>1, <1>3, <3>1 DEF QueueOrder
    <2>7. NothingMissing'
      <3>1. CASE Quiet /\ feeder.pc # "done"
        <4>1. ToQueue
          BY <1>0, <1>3, <3>1 DEF NothingMissing
        <4>2. Said' = Said
          BY <1>0, <1>3, <2>2 DEF Said, PipelineNumbers
        <4>3. worker.item = Len(heard) + 1 /\ \A i \in 1..Len(heard) : heard[i] = i
          BY <1>3, <4>1 DEF ToQueue
        <4>4. \A k \in 1..Len(heard') : heard'[k] = k
          BY <2>2, <2>3, <4>3
        <4>5. ToQueue'
          BY <1>1, <1>2, <1>3, <4>1, <4>2, <4>4 DEF ToQueue
        <4> QED
          BY <1>1, <1>3, <3>1, <4>5 DEF NothingMissing
      <3>2. CASE ~Quiet
        BY <1>1, <3>2 DEF NothingMissing, Quiet
      <3>3. CASE Quiet /\ feeder.pc = "done"
        \* All was said already: the sentence in hand would come after the last.
        <4>1. AllSaid
          BY <1>0, <1>3, <3>3 DEF NothingMissing
        <4>2. worker.item <= Len(heard)
          BY <1>0, <2>1, <4>1 DEF AllSaid, PipelineNumbers
        <4>3. heard[worker.item] = worker.item /\ heard[worker.item] < worker.item
          BY <1>0, <1>3, <2>1, <4>1, <4>2 DEF AllSaid, QueueOrder, PipelineNumbers
        <4> QED
          BY <1>0, <4>3 DEF PipelineNumbers
      <3> QED
        BY <3>1, <3>2, <3>3
    <2> QED
      BY <1>4, <2>4, <2>5, <2>6, <2>7 DEF PipelineInv
  <1> QED
    BY <1>6, <1>7 DEF L!Say

LEMMA PipelineInvKept ==
  ASSUME PipelineInv, PipelineAssumption, [L!Next]_pipelineVars PROVE PipelineInv'
  <1>1. CASE UNCHANGED pipelineVars
    BY <1>1 DEF PipelineInv, PipelineTypes, PipeTypes, FeederTypes, WorkerTypes, PqTypes, SaidTypes,
         Threads, SaidOrder, QueueOrder, Ascends, Holds, Said, NothingMissing, ToBus, ToQueue,
         AllSaid, Quiet, pipelineVars
  <1>2. CASE L!Next
    BY <1>2, PipelineStart, PipelineActivate, PipelineFlush, PipelineEndStream, PipelinePush,
       PipelinePushAfterWait, PipelineFinishJoin, PipelineAgentAborted, PipelineAborts,
       PipelineTest, PipelinePop, PipelinePopped, PipelineSay
       DEF L!Next, L!FeederStep, L!AbortStep, L!WorkerStep
  <1> QED
    BY <1>1, <1>2

\* The sequence that counts up is the one of its numbers.
LEMMA CountsUp ==
  ASSUME NEW n \in Nat, NEW s \in Seq(1..n), Len(s) = n, \A i \in 1..n : s[i] = i
  PROVE  s = [i \in 1..n |-> i]
  <1>1. s \in [1..n -> 1..n]
    BY LenProperties
  <1> QED
    BY <1>1

LEMMA PipelineShows ==
  ASSUME PipelineInv, PipelineAssumption PROVE L!SentencesInOrder /\ L!TypeOK
  <1>0. /\ PipelineNumbers /\ PipelineSeqs
        /\ PipeTypes /\ FeederTypes /\ WorkerTypes /\ PqTypes /\ SaidTypes
        /\ Threads /\ SaidOrder /\ QueueOrder /\ NothingMissing
    BY PipelineFacts
  <1> DEFINE all == heard \o bus
  <1>1. /\ all \in Seq(1..Sentences) /\ Len(all) = Len(heard) + Len(bus)
        /\ \A i \in 1..Len(heard) : all[i] = heard[i]
        /\ \A i \in 1..Len(all) : i > Len(heard) => all[i] = bus[i - Len(heard)]
    BY <1>0, ConcatProperties DEF SaidTypes
  <1> HIDE DEF all
  <1>2. \A i \in 1..Len(all) : \/ i \in 1..Len(heard) /\ all[i] = heard[i]
                               \/ /\ i > Len(heard) /\ i - Len(heard) \in 1..Len(bus)
                                  /\ all[i] = bus[i - Len(heard)]
    BY <1>0, <1>1 DEF PipelineNumbers
  <1>3. ASSUME NEW i \in 1..Len(all), NEW j \in 1..Len(all), i < j PROVE all[i] < all[j]
    <2>1. CASE j \in 1..Len(heard)
      <3>1. i \in 1..Len(heard)
        BY <1>0, <1>1, <1>3, <2>1 DEF PipelineNumbers
      <3> QED
        BY <1>0, <1>1, <1>3, <2>1, <3>1 DEF SaidOrder, Ascends
    <2>2. CASE j \notin 1..Len(heard) /\ i \in 1..Len(heard)
      <3>1. j - Len(heard) \in 1..Len(bus) /\ all[j] = bus[j - Len(heard)]
        BY <1>2, <2>2
      <3> QED
        BY <1>0, <1>1, <2>2, <3>1 DEF SaidOrder
    <2>3. CASE j \notin 1..Len(heard) /\ i \notin 1..Len(heard)
      <3>1. /\ j - Len(heard) \in 1..Len(bus) /\ all[j] = bus[j - Len(heard)]
            /\ i - Len(heard) \in 1..Len(bus) /\ all[i] = bus[i - Len(heard)]
        BY <1>2, <2>3
      <3>2. i - Len(heard) < j - Len(heard)
        BY <1>0, <1>1, <1>3 DEF PipelineNumbers
      <3> QED
        BY <1>0, <3>1, <3>2 DEF SaidOrder, Ascends
    <2> QED
      BY <2>1, <2>2, <2>3
  <1>4. ASSUME feeder.pc = "done", Quiet PROVE all = [i \in 1..Sentences |-> i]
    <2>1. CASE feeder.started
      <3>1. AllSaid
        BY <1>0, <1>4, <2>1 DEF NothingMissing
      <3>2. Len(bus) = 0 /\ Len(heard) = Sentences
        BY <3>1 DEF AllSaid
      <3>3. Len(all) = Sentences /\ \A i \in 1..Sentences : all[i] = i
        BY <1>0, <1>1, <3>1, <3>2 DEF AllSaid, PipelineNumbers
      <3> QED
        BY <1>0, <1>1, <3>3, CountsUp
    <2>2. CASE ~feeder.started
      <3>1. ToBus /\ heard = <<>>
        BY <1>0, <1>4, <2>2 DEF NothingMissing, Threads
      <3>2. Len(bus) = Sentences /\ Len(heard) = 0 /\ \A i \in 1..Len(bus) : bus[i] = i
        BY <1>0, <1>4, <3>1 DEF ToBus, PipelineNumbers
      <3>3. Len(all) = Sentences /\ \A i \in 1..Sentences : all[i] = i
        BY <1>0, <1>1, <1>2, <3>2 DEF PipelineNumbers
      <3> QED
        BY <1>0, <1>1, <3>3, CountsUp
    <2> QED
      BY <2>1, <2>2
  <1>5. L!SentencesInOrder
    BY <1>3, <1>4 DEF L!SentencesInOrder, L!Barged, Quiet, all
  <1>6. L!TypeOK
    <2>1. pq \in UNION {[1..n -> 0..Sentences] : n \in 0..PipeLen}
      <3>1. pq \in [1..Len(pq) -> 0..Sentences] /\ Len(pq) \in 0..PipeLen
        BY <1>0, LenProperties DEF PqTypes
      <3> QED
        BY <3>1
    <2> QED
      BY <1>0, <2>1 DEF PipeTypes, FeederTypes, WorkerTypes, L!TypeOK
  <1> QED
    BY <1>5, <1>6

-----------------------------------------------------------------------------
(* The voice of the cloud.                                                 *)
Main == closer["main"]
OmniFlags == /\ writing \in BOOLEAN /\ ready \in BOOLEAN /\ open \in BOOLEAN
             /\ eof \in BOOLEAN /\ running \in BOOLEAN
OmniTypes ==
  /\ closer \in [{"main"} -> {"idle", "joining", "closing"}]
  /\ OmniFlags
  /\ voiceReader \in {"none", "look", "wait", "reading", "over"}
  /\ cacheFile \in Seq(1..MaxPieces) /\ spoken \in Seq(1..MaxPieces)
  /\ offset \in 0..MaxPieces /\ writePos \in 0..MaxPieces /\ readPos \in 0..MaxPieces
  /\ sent \in 0..MaxPieces /\ sem \in Nat
  /\ responses \in 0..MaxResponses

(* The file and what was played of it are the pieces in their order. *)
PiecesInOrder ==
  /\ \A i \in 1..Len(cacheFile) : cacheFile[i] = i
  /\ \A i \in 1..Len(spoken) : spoken[i] = i
  /\ Len(cacheFile) = writePos /\ Len(spoken) = readPos /\ readPos <= writePos
  /\ sent = IF writing THEN writePos + 1 ELSE writePos

(* The threads keep apart: one offset serves a write or a read at a time,  *)
(* and who closes has joined the reader, which read everything.            *)
OmniThreads ==
  /\ writing => open /\ Main = "idle" /\ offset = writePos /\ voiceReader # "reading"
  /\ voiceReader = "reading" => offset = readPos /\ readPos < writePos
  /\ voiceReader = "none" => Main = "closing" \/ ~open
  /\ voiceReader = "over" => Main = "joining" /\ readPos = writePos
  /\ open /\ Main = "idle" => running /\ ~eof
  /\ Main = "joining" => open
  /\ Main = "closing" => open /\ voiceReader = "none"
  /\ voiceReader = "none" => readPos = writePos
  /\ ~open => voiceReader = "none"
OmniInv == OmniTypes /\ PiecesInOrder /\ OmniThreads

LEMMA OmniInit == O!Init /\ OmniAssumption => OmniInv
  <1>1. <<>> \in Seq(1..MaxPieces) /\ Len(<<>>) = 0
    BY EmptySeq
  <1>2. O!Init /\ OmniAssumption => OmniTypes
    <2> SUFFICES ASSUME O!Init, OmniAssumption PROVE OmniTypes
      OBVIOUS
    <2>1. cacheFile \in Seq(1..MaxPieces) /\ spoken \in Seq(1..MaxPieces)
      BY <1>1 DEF O!Init
    <2>2. OmniFlags
      BY DEF O!Init, OmniFlags
    <2> QED
      BY <2>1, <2>2 DEF O!Init, OmniTypes, OmniAssumption
  <1>3. O!Init => PiecesInOrder
    BY DEF O!Init, PiecesInOrder
  <1>4. O!Init => OmniThreads
    BY DEF O!Init, OmniThreads, Main
  <1> QED
    BY <1>2, <1>3, <1>4 DEF OmniInv

LEMMA OmniInvKept ==
  ASSUME OmniInv, [O!Next]_omniVars, OmniAssumption
  PROVE  OmniInv'
  <1> USE DEF OmniInv, OmniTypes, PiecesInOrder, OmniThreads, Main, OmniAssumption
  <1>0. Len(cacheFile) \in Nat /\ Len(spoken) \in Nat
    BY LenProperties
  <1>1. CASE O!Open
    <2>1. <<>> \in Seq(1..MaxPieces) /\ Len(<<>>) = 0
      BY EmptySeq
    <2>2. OmniTypes'
      <3>1. cacheFile' \in Seq(1..MaxPieces) /\ spoken' \in Seq(1..MaxPieces)
        BY <1>1, <2>1 DEF O!Open
      <3>2. OmniFlags'
        BY <1>1 DEF O!Open, OmniFlags
      <3> QED
        BY <1>1, <3>1, <3>2 DEF O!Open, O!MainIdle
    <2>3. PiecesInOrder' /\ OmniThreads'
      BY <1>1 DEF O!Open, O!MainIdle
    <2> QED
      BY <2>2, <2>3
  <1>2. CASE O!EnqueueSeek
    BY <1>2 DEF O!EnqueueSeek, O!MainIdle, OmniFlags
  <1>3. CASE O!EnqueueWrite
    <2>1. /\ cacheFile' = Append(cacheFile, sent) /\ sent = Len(cacheFile) + 1
          /\ sent \in 1..MaxPieces
      BY <1>0, <1>3 DEF O!EnqueueWrite, O!Put
    <2>2. /\ cacheFile' \in Seq(1..MaxPieces) /\ Len(cacheFile') = sent
          /\ \A i \in 1..Len(cacheFile) : cacheFile'[i] = i
          /\ cacheFile'[sent] = sent
      BY <2>1, AppendFacts
    <2>3. OmniTypes'
      <3>1. OmniFlags'
        BY <1>3 DEF O!EnqueueWrite, OmniFlags
      <3>2. offset' \in 0..MaxPieces /\ writePos' \in 0..MaxPieces /\ sem' \in Nat
        BY <1>3, <2>1 DEF O!EnqueueWrite
      <3> QED
        BY <1>3, <2>2, <3>1, <3>2 DEF O!EnqueueWrite
    <2>4. PiecesInOrder'
      BY <1>0, <1>3, <2>1, <2>2 DEF O!EnqueueWrite
    <2>5. OmniThreads'
      BY <1>3 DEF O!EnqueueWrite
    <2> QED
      BY <2>3, <2>4, <2>5
  <1>4. CASE O!BeginClose("main")
    <2>1. /\ UNCHANGED <<writing, voiceReader, ready, open, cacheFile, offset, writePos, readPos,
                         sent, spoken, responses>>
          /\ ~writing /\ open /\ Main = "idle" /\ Main' = "joining" /\ closer' \in [{"main"} -> {"joining"}]
      BY <1>4 DEF O!BeginClose, O!playVars, O!fileVars
    <2>2. OmniTypes'
      <3>1. eof' = TRUE /\ running' = FALSE
        BY <1>4 DEF O!BeginClose
      <3>2. OmniFlags'
        BY <2>1, <3>1 DEF OmniFlags
      <3>3. sem' \in Nat
        BY <1>4 DEF O!BeginClose
      <3> QED
        BY <2>1, <3>2, <3>3
    <2>3. PiecesInOrder' /\ OmniThreads'
      BY <2>1
    <2> QED
      BY <2>2, <2>3
  <1>5. CASE O!Join("main")
    BY <1>5 DEF O!Join, O!fileVars, OmniFlags
  <1>6. CASE O!Close("main")
    BY <1>6 DEF O!Close, O!playVars, OmniFlags
  <1>7. CASE O!Look
    <2>1. /\ UNCHANGED <<closer, writing, open, cacheFile, offset, writePos, readPos, eof, running,
                         sem, sent, spoken, responses>>
          /\ voiceReader = "look" /\ voiceReader' \in {"look", "wait", "over"}
          /\ ready' \in BOOLEAN
          /\ voiceReader' = "over" => ~running /\ eof /\ writePos <= readPos
      BY <1>7 DEF O!Look, O!fileVars, OmniFlags
    <2> QED
      BY <2>1 DEF OmniFlags
  <1>8. CASE O!Woken
    <2>1. /\ UNCHANGED <<closer, writing, open, cacheFile, offset, writePos, readPos, eof, running,
                         sent, spoken, responses>>
          /\ voiceReader = "wait" /\ voiceReader' = "look" /\ sem' \in Nat
      BY <1>8 DEF O!Woken, O!fileVars
    <2>2. OmniFlags'
      BY <1>8, <2>1 DEF O!Woken, OmniFlags
    <2> QED
      BY <2>1, <2>2
  <1>9. CASE O!ReadSeek
    BY <1>9 DEF O!ReadSeek, OmniFlags
  <1>10. CASE O!Read
    <2>1. /\ spoken' = Append(spoken, readPos + 1) /\ readPos + 1 \in 1..MaxPieces
          /\ readPos' = readPos + 1 /\ offset' = offset + 1
      BY <1>0, <1>10 DEF O!Read
    <2>2. /\ spoken' \in Seq(1..MaxPieces) /\ Len(spoken') = readPos'
          /\ \A i \in 1..Len(spoken) : spoken'[i] = i
          /\ spoken'[readPos'] = readPos'
      BY <2>1, AppendFacts
    <2>3. OmniTypes'
      BY <1>10, <2>1, <2>2 DEF O!Read, OmniFlags
    <2>4. PiecesInOrder'
      BY <1>0, <1>10, <2>1, <2>2 DEF O!Read
    <2>5. OmniThreads'
      BY <1>10, <2>1 DEF O!Read
    <2> QED
      BY <2>3, <2>4, <2>5
  <1>11. CASE UNCHANGED omniVars
    BY <1>11 DEF omniVars, OmniFlags
  <1> QED
    BY <1>1, <1>2, <1>3, <1>4, <1>5, <1>6, <1>7, <1>8, <1>9, <1>10, <1>11 DEF O!Next

LEMMA OmniShows ==
  ASSUME OmniInv, OmniAssumption
  PROVE  O!PlayedInOrder /\ O!PlayedWhole /\ O!TypeOK
  <1> USE DEF OmniInv, OmniTypes, PiecesInOrder, OmniThreads
  <1>1. O!PlayedInOrder
    <2>1. spoken = [i \in 1..Len(spoken) |-> spoken[i]]
      OBVIOUS
    <2> QED
      BY <2>1 DEF O!PlayedInOrder
  <1>2. O!PlayedWhole
    BY DEF O!PlayedWhole
  <1>3. cacheFile \in Seq(1..MaxPieces) /\ Len(cacheFile) <= MaxPieces
    BY LenProperties
  <1>4. O!TypeOK
    BY <1>3 DEF O!TypeOK, OmniFlags
  <1> QED
    BY <1>1, <1>2, <1>4

-----------------------------------------------------------------------------
(* What is heard, and the types of the device. *)

AudioInv == PlaybackInv /\ PipelineInv /\ ChannelFull /\ OmniInv

LEMMA AudioSteps ==
  ASSUME [Next]_vars
  PROVE  /\ [P!Next]_playbackVars /\ [L!Next]_pipelineVars
         /\ [C!Next]_channelVars /\ [O!Next]_omniVars
  BY DEF Next, vars, Playback, Pipeline, Channel, Camera, Recorder, Omni, pageVars, audioVars

LEMMA AudioInit == Init => AudioInv
  <1> USE PlaybackAssumption, PipelineAssumption, ChannelAssumption, OmniAssumption
  <1> SUFFICES ASSUME Init PROVE AudioInv
    OBVIOUS
  <1>1. P!Init /\ L!Init /\ C!Init /\ O!Init
    BY DEF Init
  <1> QED
    BY <1>1, PlaybackInit, PipelineInit, ChannelFullInit, OmniInit DEF AudioInv

LEMMA AudioInvKept == AudioInv /\ [Next]_vars => AudioInv'
  <1> USE PlaybackAssumption, PipelineAssumption, ChannelAssumption, OmniAssumption
  <1> SUFFICES ASSUME AudioInv, [Next]_vars PROVE AudioInv'
    OBVIOUS
  <1>1. PlaybackInv' /\ PipelineInv'
    BY AudioSteps, PlaybackInvKept, PipelineInvKept DEF AudioInv
  <1>2. ChannelFull'
    BY AudioSteps, ChannelFullKept DEF AudioInv
  <1>3. OmniInv'
    BY AudioSteps, OmniInvKept DEF AudioInv
  <1> QED
    BY <1>1, <1>2, <1>3 DEF AudioInv

(* What is synthesised is heard, in order and to its end, unless somebody    *)
(* stops it: the chunks through the file and the ring of tts.c, the          *)
(* sentences through the queue of the pipeline, and the pieces of a response *)
(* of the cloud through its cache file.                                      *)
THEOREM AllPlayed == Spec => []EverythingPlayed
  <1>1. AudioInv => EverythingPlayed
    BY PlaybackAssumption, PipelineAssumption, OmniAssumption, PlaybackShows, PipelineShows,
       OmniShows
       DEF AudioInv, EverythingPlayed
  <1> QED
    BY <1>1, AudioInit, AudioInvKept, PTL DEF Spec

(* Each component of the device keeps to its types, for any sizes of its     *)
(* rings, queues, photos and lists and any numbers of faults: rings and      *)
(* queues stay within their sizes, the references that voice_channel.c takes *)
(* to WiFi's power saving between none and those who can hold one, and no    *)
(* index of cam_recv_bitmap or of the list of recordings leaves its array.   *)
THEOREM TypesKept == Spec => []TypesOK
  <1>1. AudioInv => P!TypeOK /\ L!TypeOK /\ C!TypeOK /\ O!TypeOK
    BY PlaybackAssumption, PipelineAssumption, ChannelAssumption, OmniAssumption,
       PlaybackShows, PipelineShows, ChannelShows, OmniShows DEF AudioInv
  <1>2. PagesInv => K!TypeOK /\ R!TypeOK
    BY CameraAssumption, RecorderAssumption, CamPageShows, RecorderShows DEF PagesInv
  <1>3. AudioInv /\ PagesInv => TypesOK
    BY <1>1, <1>2 DEF TypesOK
  <1> QED
    BY <1>3, AudioInit, AudioInvKept, PagesInit, PagesInvKept, PTL DEF Spec
=============================================================================
