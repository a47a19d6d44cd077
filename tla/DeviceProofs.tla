--------------------------- MODULE DeviceProofs -----------------------------
(***************************************************************************)
(* Proofs about the push-to-talk channel, the camera transfer and the      *)
(* recorder and player pages, components of MCDevice, for any numbers of   *)
(* recordings, connectors, speakers and visits and any photos,             *)
(* retransmissions and losses.                                             *)
(***************************************************************************)
EXTENDS MCDevice, SequenceTheorems, FiniteSetTheorems, WellFoundedInduction, TLAPS

-----------------------------------------------------------------------------
(* The channel.                                                            *)

UserPcs == {"free", "waitSpeak", "recheck", "acquire", "capture", "failed",
            "release", "close", "join", "finish"}
Users == [pc : UserPcs, stream : Nat, withText : BOOLEAN]
RecPcs == {"off", "begin", "look", "read", "send", "leave", "gone"}
Recs == [pc : RecPcs, stream : Nat, abnormal : BOOLEAN]
Conns == [1..MaxSessions -> [pc : {"off", "connect", "store"}, stream : Nat]]
Warmers == [1..MaxWarms -> [pc : {"off", "open", "store", "gone"}, stream : Nat]]
Talks == [Speakers -> {"free", "lock", "check", "open", "acquire", "play", "release"}]
ChannelTypes ==
  /\ state \in {"idle", "recording", "stopping"} /\ cap \in {"none", "open", "freed"}
  /\ slot \in Nat /\ warm \in Nat /\ refs \in Nat /\ sessions \in 0..MaxSessions
  /\ user \in Users /\ rec \in Recs /\ conns \in Conns /\ warmers \in Warmers /\ talk \in Talks
  /\ speakLock \in Speakers \cup {"none"} /\ ends \in Seq({0, 1})

(* What the thread that starts and stops knows of the recording thread, and  *)
(* which places are empty at which of their steps.                           *)
RecGone == rec.pc \in {"off", "gone"}
UserKnows ==
  /\ user.pc \in {"waitSpeak", "recheck", "acquire", "finish"} => RecGone
  /\ user.pc \in {"free", "capture"} /\ state = "idle" => RecGone
  /\ user.pc \in {"waitSpeak", "recheck", "failed", "finish"} => state = "idle"
  /\ user.pc \in {"release", "close", "join"} => state = "stopping"
  /\ user.pc = "acquire" => state = "recording"
  /\ user.pc \in {"waitSpeak", "recheck"} => sessions < MaxSessions
  /\ user.pc \in {"acquire", "capture"} => sessions # 0 /\ (cap = "open" \/ state = "idle")
Empty ==
  /\ state = "idle" => slot = 0 /\ rec.stream = 0
  /\ rec.pc \in {"off", "begin", "gone"} => rec.stream = 0
  /\ user.pc # "finish" => user.stream = 0
  /\ \A c \in 1..MaxSessions : conns[c].pc # "store" => conns[c].stream = 0
  /\ \A w \in 1..MaxWarms : warmers[w].pc # "store" => warmers[w].stream = 0
ConnsOfOld ==
  \A c \in 1..MaxSessions : conns[c].pc # "off" =>
     /\ c <= sessions
     /\ user.pc \in {"acquire", "capture"} => c # sessions
Protocol == UserKnows /\ Empty /\ ConnsOfOld

(* Which stream each place holds, and that a stream is in one place until    *)
(* it ends, which is once.                                                   *)
Spread(sl, wa, rc, us, cs, ws) ==
  [p \in C!Places |->
     CASE p = C!Slot -> sl [] p = C!Warm -> wa [] p = C!Rec -> rc [] p = C!User -> us
       [] p[1] = "conn" -> cs[p[2]].stream [] OTHER -> ws[p[2]].stream]
Held == [p \in C!Places |-> C!At(p)]
Owned(h, e) ==
  /\ h \in [C!Places -> 0..Len(e)] /\ e \in Seq({0, 1})
  /\ \A p, q \in C!Places : p # q /\ h[p] = h[q] => h[p] = 0
  /\ \A s \in 1..Len(e) : e[s] = 0 <=> \E p \in C!Places : h[p] = s

(* Who has taken a reference to the power saving of WiFi. *)
UserHolds == \/ user.pc \in {"capture", "failed", "release"}
             \/ user.pc = "free" /\ state # "idle"
SpeakerHolds == \E s \in Speakers : talk[s] \in {"play", "release"}
LockHeld == \A s \in Speakers :
              talk[s] \in {"check", "open", "acquire", "play", "release"} <=> speakLock = s
RefsCover == refs >= (IF UserHolds THEN 1 ELSE 0) + (IF SpeakerHolds THEN 1 ELSE 0)
ChannelInv == ChannelTypes /\ Protocol /\ Owned(Held, ends) /\ LockHeld /\ RefsCover

-----------------------------------------------------------------------------
(* The camera.                                                             *)

SpiFrames == [no : Nat, photo : Nat, sid : Nat]
Commands == [cmd : {"captureReq", "getImage"}] \cup [cmd : {"ready"}, session : Nat]
Acks == [sid : Nat, ok : BOOLEAN, missing : SUBSET Nat]
Answers == [cmd : {"captureAck", "captureFail"}] \cup [cmd : {"imageAck"}, photo : 1..Len(Frames)]
CameraTypes ==
  /\ wire \in Seq(SpiFrames) /\ cmds \in Seq(Commands) /\ acks \in Seq(Acks)
  /\ down \in Seq(Answers)
  /\ session \in Nat /\ sid \in Nat /\ round \in Nat /\ nframes \in Nat /\ total \in Nat
  /\ photo \in 0..Len(Frames) /\ taken \in 0..Len(Frames) /\ left \subseteq Nat \ {0}
  /\ hpc \in {"idle", "capturing", "sending", "drain", "wait"}
  /\ hpc \in {"sending", "drain", "wait"} => photo # 0

IsReady(k) == k \in 1..Len(cmds) /\ cmds[k].cmd = "ready"

(* The numbers of sessions only grow: what is under way is of the page's    *)
(* session or an older one, and older than every command that waits.        *)
Seen == {sid} \cup {wire[j].sid : j \in 1..Len(wire)} \cup {acks[a].sid : a \in 1..Len(acks)}
SeenBelow(n) == \A x \in Seen : x < n
SessionsGrow ==
  /\ SeenBelow(session + 1)
  /\ \A k \in 1..Len(cmds) : IsReady(k) => cmds[k].session < session + 1
  /\ upc = "ready" => /\ SeenBelow(session)
                      /\ \A k \in 1..Len(cmds) : IsReady(k) => cmds[k].session < session
  /\ \A k \in 1..Len(cmds) : IsReady(k) =>
       /\ SeenBelow(cmds[k].session)
       /\ \A n \in 1..Len(cmds) : IsReady(n) /\ n < k => cmds[n].session < cmds[k].session

(* Each round has one END, which is the last frame on the line, and one     *)
(* acknowledgement, which comes when the line is empty.                     *)
Ends(j) == wire[j].no = K!End /\ wire[j].sid = sid
RoundsApart ==
  /\ hpc = "sending" => /\ \A j \in 1..Len(wire) : ~Ends(j)
                        /\ \A a \in 1..Len(acks) : acks[a].sid # sid
  /\ hpc \in {"drain", "wait"} =>
       /\ \A j \in 1..Len(wire) : Ends(j) => /\ j = Len(wire)
                                             /\ \A a \in 1..Len(acks) : acks[a].sid # sid
       /\ \A a \in 1..Len(acks) : acks[a].sid = sid =>
            /\ wire = <<>>
            /\ \A b \in 1..Len(acks) : acks[b].sid = sid => a = b

(* What is sent again is neither there nor already on the line; what an     *)
(* acknowledgement calls missing is.                                        *)
AgainIsMissing ==
  /\ hpc = "sending" /\ round > 0 =>
       /\ \A j \in 1..Len(wire) : wire[j].no \notin left
       /\ sid = session => left \cap bitmap = {}
  /\ hpc \in {"drain", "wait"} /\ sid = session =>
       \A a \in 1..Len(acks) : acks[a].sid = sid => acks[a].missing \cap bitmap = {}

CameraInv == CameraTypes /\ SessionsGrow /\ RoundsApart /\ AgainIsMissing

LEMMA HasLeast ==
  ASSUME NEW S \in SUBSET Nat, S # {}
  PROVE  \E n \in S : \A m \in S : n <= m
  <1> DEFINE Below == {p \in Nat \X Nat : p[1] < p[2]}
  <1>1. IsWellFoundedOn(Below, Nat)
    <2>1. OpToRel(<, Nat) = Below
      BY DEF OpToRel
    <2> QED
      BY <2>1, NatLessThanWellFounded
  <1>0. \A m, n \in Nat : <<m, n>> \in Below <=> m < n
    OBVIOUS
  <1> HIDE DEF Below
  <1>2. \E n \in S : \A m \in S : <<m, n>> \notin Below
    BY <1>1, WFMin
  <1>3. PICK least \in S : \A m \in S : <<m, least>> \notin Below
    BY <1>2
  <1>4. least \in Nat
    OBVIOUS
  <1>5. ASSUME NEW m \in S PROVE least <= m
    <2>1. m \in Nat /\ ~(m < least)
      BY <1>0, <1>3, <1>4
    <2> QED
      BY <1>4, <2>1
  <1> QED
    BY <1>5

LEMMA TailFacts ==
  ASSUME NEW S, NEW s \in Seq(S), s # <<>>
  PROVE  /\ Len(s) \in Nat \ {0} /\ Head(s) = s[1] /\ s[1] \in S
         /\ Tail(s) \in Seq(S) /\ Len(Tail(s)) = Len(s) - 1
         /\ \A k \in 1..Len(s) - 1 : Tail(s)[k] = s[k + 1]
  BY HeadTailProperties, LenProperties, EmptySeq

LEMMA AppendFacts ==
  ASSUME NEW S, NEW s \in Seq(S), NEW x \in S
  PROVE  /\ Len(s) \in Nat
         /\ Append(s, x) \in Seq(S) /\ Len(Append(s, x)) = Len(s) + 1
         /\ \A k \in 1..Len(s) : Append(s, x)[k] = s[k]
         /\ Append(s, x)[Len(s) + 1] = x
  BY AppendProperties, LenProperties

(* A step that keeps the sessions and shows no new one. *)
OldCommands == \E d \in {0, 1} : \A k \in 1..Len(cmds') : IsReady(k)' =>
                  IsReady(k + d) /\ cmds'[k].session = cmds[k + d].session

LEMMA NoNewSession ==
  ASSUME CameraTypes, CameraTypes', SessionsGrow, session' = session, Seen' \subseteq Seen,
  OldCommands,
         upc' = "ready" => upc = "ready"
  PROVE  SessionsGrow'
  <1>1. PICK d \in {0, 1} : \A k \in 1..Len(cmds') : IsReady(k)' =>
                  IsReady(k + d) /\ cmds'[k].session = cmds[k + d].session
    BY DEF OldCommands
  <1>2. \A n : SeenBelow(n) => SeenBelow(n)'
    BY DEF SeenBelow
  <1>3. \A k \in 1..Len(cmds') : IsReady(k)' => k + d \in 1..Len(cmds)
    BY <1>1 DEF IsReady
  <1>4. \A n \in Nat : (\A k \in 1..Len(cmds) : IsReady(k) => cmds[k].session < n)
                     => \A k \in 1..Len(cmds') : IsReady(k)' => cmds'[k].session < n
    BY <1>1, <1>3
  <1>5. ASSUME NEW k \in 1..Len(cmds'), IsReady(k)'
        PROVE  /\ SeenBelow(cmds[k].session)'
               /\ \A n \in 1..Len(cmds') : IsReady(n)' /\ n < k => cmds'[n].session < cmds'[k].session
    <2>1. SeenBelow(cmds[k + d].session)
      BY <1>1, <1>3, <1>5 DEF SessionsGrow
    <2>2. SeenBelow(cmds[k].session)'
      <3>1. SeenBelow(cmds'[k].session)
        BY <1>1, <1>5, <2>1
      <3> QED
        BY <1>2, <3>1 DEF SeenBelow
    <2>3. ASSUME NEW n \in 1..Len(cmds'), IsReady(n)', n < k
          PROVE  cmds'[n].session < cmds'[k].session
      <3>1. /\ k + d \in 1..Len(cmds) /\ IsReady(k + d) /\ cmds'[k].session = cmds[k + d].session
            /\ n + d \in 1..Len(cmds) /\ IsReady(n + d) /\ cmds'[n].session = cmds[n + d].session
        BY <1>1, <1>3, <1>5, <2>3
      <3>2. n + d < k + d
        BY <1>1, <2>3 DEF CameraTypes
      <3> QED
        BY <3>1, <3>2 DEF SessionsGrow
    <2> QED
      BY <2>2, <2>3
  <1>6. SeenBelow(session + 1)' /\ (upc' = "ready" => SeenBelow(session)')
    <2>1. SeenBelow(session + 1) /\ (upc = "ready" => SeenBelow(session))
      BY DEF SessionsGrow
    <2> QED
      BY <2>1 DEF SeenBelow
  <1>7. /\ \A k \in 1..Len(cmds') : IsReady(k)' => cmds'[k].session < session' + 1
        /\ upc' = "ready" => \A k \in 1..Len(cmds') : IsReady(k)' => cmds'[k].session < session'
    <2>1. session \in Nat /\ session + 1 \in Nat
      BY DEF CameraTypes
    <2> QED
      BY <1>4, <2>1 DEF SessionsGrow
  <1> QED
    BY <1>5, <1>6, <1>7 DEF SessionsGrow

-----------------------------------------------------------------------------
(* What is sent over the lines. *)

LEMMA Sent ==
  ASSUME CameraTypes
  PROVE  /\ \A m \in Commands : K!ToHub(m) =>
              acks' = acks /\ cmds' \in Seq(Commands) /\ (cmds' = cmds \/ cmds' = Append(cmds, m))
         /\ \A m \in Acks : K!AckToHub(m) =>
              cmds' = cmds /\ acks' \in Seq(Acks) /\ (acks' = acks \/ acks' = Append(acks, m))
         /\ \A m \in Answers : K!ToPage(m) => down' \in Seq(Answers)
  <1>1. cmds \in Seq(Commands) /\ acks \in Seq(Acks) /\ down \in Seq(Answers)
    BY DEF CameraTypes
  <1>2. /\ \A m \in Commands : Append(cmds, m) \in Seq(Commands)
        /\ \A m \in Acks : Append(acks, m) \in Seq(Acks)
        /\ \A m \in Answers : Append(down, m) \in Seq(Answers)
    BY <1>1, AppendFacts
  <1> QED
    BY <1>1, <1>2 DEF K!ToHub, K!AckToHub, K!ToPage, K!Transmit

LEMMA Messages ==
  ASSUME CameraTypes, CameraAssumption
  PROVE  /\ [cmd |-> "captureReq"] \in Commands /\ [cmd |-> "getImage"] \in Commands
         /\ [cmd |-> "ready", session |-> session] \in Commands
         /\ [cmd |-> "captureAck"] \in Answers /\ [cmd |-> "captureFail"] \in Answers
         /\ photo # 0 => [cmd |-> "imageAck", photo |-> photo] \in Answers
         /\ \A m \in Answers : m.cmd = "imageAck" => Frames[m.photo] \in Nat \ {0}
         /\ \A m \in Commands : m.cmd = "ready" => m.session \in Nat
         /\ photo # 0 => K!FramesOf(photo) \subseteq Nat \ {0}
         /\ \A f \in SpiFrames : f.no \in Nat /\ f.sid \in Nat
         /\ \A a \in Acks : a.sid \in Nat /\ a.missing \subseteq Nat
         /\ K!NextNo \in Nat /\ (K!NextNo = K!End <=> left = {})
         /\ [no |-> K!NextNo, photo |-> photo, sid |-> sid] \in SpiFrames
         /\ K!Expected \in Nat
         /\ [sid |-> wire[1].sid, ok |-> K!Complete(K!Expected),
             missing |-> 1..K!Expected \ bitmap] \in Acks \/ wire = <<>>
  <1>1. Len(Frames) \in Nat /\ \A p \in 1..Len(Frames) : Frames[p] \in Nat \ {0}
    BY LenProperties, ElementOfSeq DEF CameraAssumption
  <1>2. photo # 0 => photo \in 1..Len(Frames)
    BY <1>1 DEF CameraTypes
  <1>3. K!Expected \in Nat
    BY DEF CameraTypes, K!Expected
  <1>4. wire # <<>> => wire[1].sid \in Nat
    <2>1. wire # <<>> => wire[1] \in SpiFrames
      BY TailFacts DEF CameraTypes
    <2> QED
      BY <2>1 DEF SpiFrames
  <1>5. wire # <<>> => [sid |-> wire[1].sid, ok |-> K!Complete(K!Expected),
                        missing |-> 1..K!Expected \ bitmap] \in Acks
    <2>1. K!Complete(K!Expected) \in BOOLEAN
      BY Zenon DEF K!Complete
    <2>2. 1..K!Expected \ bitmap \in SUBSET Nat
      BY <1>3
    <2> QED
      BY <1>4, <2>1, <2>2 DEF Acks
  <1>6. \A m \in Answers : m.cmd = "imageAck" => Frames[m.photo] \in Nat \ {0}
    BY <1>1 DEF Answers
  <1>7. photo # 0 => K!FramesOf(photo) \subseteq Nat \ {0}
    BY <1>1, <1>2 DEF K!FramesOf
  <1>8. /\ [cmd |-> "captureReq"] \in Commands /\ [cmd |-> "getImage"] \in Commands
        /\ [cmd |-> "ready", session |-> session] \in Commands
        /\ \A m \in Commands : m.cmd = "ready" => m.session \in Nat
    BY DEF CameraTypes, Commands
  <1>9. /\ [cmd |-> "captureAck"] \in Answers /\ [cmd |-> "captureFail"] \in Answers
        /\ photo # 0 => [cmd |-> "imageAck", photo |-> photo] \in Answers
    BY <1>2 DEF Answers
  <1>10. /\ \A f \in SpiFrames : f.no \in Nat /\ f.sid \in Nat
         /\ \A a \in Acks : a.sid \in Nat /\ a.missing \subseteq Nat
    BY DEF SpiFrames, Acks
  <1>11. K!NextNo \in Nat /\ (K!NextNo = K!End <=> left = {})
    BY HasLeast DEF CameraTypes, K!NextNo, K!End
  <1>12. [no |-> K!NextNo, photo |-> photo, sid |-> sid] \in SpiFrames
    BY <1>1, <1>11 DEF CameraTypes, SpiFrames
  <1> QED
    BY <1>3, <1>5, <1>6, <1>7, <1>8, <1>9, <1>10, <1>11, <1>12

CameraNumbers ==
  /\ session \in Nat /\ sid \in Nat /\ round \in Nat /\ nframes \in Nat /\ total \in Nat
  /\ photo \in 0..Len(Frames) /\ taken \in 0..Len(Frames) /\ left \subseteq Nat \ {0}
  /\ hpc \in {"idle", "capturing", "sending", "drain", "wait"}
  /\ hpc \in {"sending", "drain", "wait"} => photo # 0

LEMMA CameraTypesKept ==
  ASSUME CameraTypes, CameraAssumption, K!Next
  PROVE  CameraTypes'
  <1> DEFINE Lines == /\ wire \in Seq(SpiFrames) /\ cmds \in Seq(Commands) /\ acks \in Seq(Acks)
                      /\ down \in Seq(Answers)
  <1>0. /\ CameraTypes = (Lines /\ CameraNumbers) /\ CameraTypes' = (Lines' /\ CameraNumbers')
        /\ Lines /\ CameraNumbers
    BY DEF CameraTypes, CameraNumbers
  <1>1. /\ <<>> \in Seq(SpiFrames) /\ <<>> \in Seq(Commands) /\ <<>> \in Seq(Acks) /\ <<>> \in Seq(Answers)
        /\ wire # <<>> => Tail(wire) \in Seq(SpiFrames) /\ Head(wire) \in SpiFrames /\ Head(wire) = wire[1]
        /\ cmds # <<>> => Tail(cmds) \in Seq(Commands) /\ Head(cmds) \in Commands
        /\ acks # <<>> => Tail(acks) \in Seq(Acks) /\ Head(acks) \in Acks
        /\ down # <<>> => Tail(down) \in Seq(Answers) /\ Head(down) \in Answers
    BY <1>0, TailFacts
  <1>2. \A q \in Seq(SpiFrames) : Append(q, [no |-> K!NextNo, photo |-> photo, sid |-> sid]) \in Seq(SpiFrames)
    BY Messages, AppendFacts
  <1>3a. /\ \A m \in Commands : Append(cmds, m) \in Seq(Commands)
         /\ \A m \in Acks : Append(acks, m) \in Seq(Acks)
         /\ \A m \in Answers : Append(down, m) \in Seq(Answers)
    BY <1>0, AppendFacts
  <1> HIDE DEF SpiFrames, Commands, Acks, Answers
  <1>3. CASE K!Press
    BY <1>0, <1>1, <1>3, Sent, Messages DEF K!Press, CameraNumbers, K!hubVars
  <1>4. CASE K!LvglStep
    <2>1. CASE K!Callback
      BY <1>0, <1>1, <2>1 DEF K!Callback, K!Failure, K!transferVars, K!hubVars, CameraNumbers
    <2>2. CASE K!TimeOut
      BY <1>0, <1>1, <2>2 DEF K!TimeOut, K!Failure, K!transferVars, K!hubVars, CameraNumbers
    <2>3. CASE K!SpiTimeOut
      BY <1>0, <1>1, <2>3 DEF K!SpiTimeOut, K!Failure, K!transferVars, K!hubVars, CameraNumbers
    <2> QED
      BY <1>4, <2>1, <2>2, <2>3 DEF K!LvglStep
  <1>5. CASE K!UartStep
    <2> USE DEF K!pageVars, K!transferVars, K!lineVars, K!hubVars, K!Received, CameraNumbers
    <2>1. CASE K!LateAnswer
      BY <1>0, <1>1, <2>1 DEF K!LateAnswer
    <2>2. CASE K!CaptureAck
      BY <1>0, <1>1, <2>2, Sent, Messages DEF K!CaptureAck
    <2>3. CASE K!Arm
      BY <1>0, <1>1, <2>3 DEF K!Arm
    <2>4. CASE K!CaptureFail
      BY <1>0, <1>1, <2>4 DEF K!CaptureFail
    <2>5. CASE K!ImageAck
      <3>1. Head(down) \in Answers /\ Head(down).cmd = "imageAck"
        BY <1>1, <2>5 DEF K!ImageAck
      <3>2. total' \in Nat
        BY <2>5, <3>1, Messages DEF K!ImageAck
      <3>3. down # <<>> /\ down' = Tail(down) /\ session' = session + 1 /\ nframes' = 0
            /\ UNCHANGED <<wire, cmds, acks, K!hubVars>>
        BY <2>5 DEF K!ImageAck
      <3> QED
        BY <1>0, <1>1, <3>2, <3>3
    <2>6. CASE K!OpenFails
      <3>1. down # <<>> /\ down' = Tail(down) /\ session' = session + 1
            /\ UNCHANGED <<wire, cmds, acks, nframes, total, K!hubVars>>
        BY <2>6 DEF K!OpenFails
      <3> QED
        BY <1>0, <1>1, <3>1
    <2>7. CASE K!Ready
      <3>1. /\ acks' = acks
            /\ cmds' = cmds \/ cmds' = Append(cmds, [cmd |-> "ready", session |-> session])
        BY <2>7 DEF K!Ready, K!ToHub, K!Transmit
      <3>2. [cmd |-> "ready", session |-> session] \in Commands
        BY Messages
      <3>3. cmds' \in Seq(Commands)
        BY <1>0, <1>3a, <3>1, <3>2
      <3> QED
        BY <1>0, <2>7, <3>1, <3>3 DEF K!Ready
    <2>8. CASE K!Activate
      BY <1>0, <1>1, <2>8 DEF K!Activate
    <2> QED
      BY <1>5, <2>1, <2>2, <2>3, <2>4, <2>5, <2>6, <2>7, <2>8 DEF K!UartStep
  <1>6. CASE K!SpiStep
    <2> USE DEF K!pageVars, K!transferVars, K!lineVars, K!hubVars, K!Reading, K!NextFrame,
    CameraNumbers
    <2>1. CASE K!Data
      BY <1>0, <1>1, <2>1, Messages DEF K!Data
    <2>2. CASE K!EndFrame
      <3> DEFINE ack == [sid |-> wire[1].sid, ok |-> K!Complete(K!Expected),
                         missing |-> 1..K!Expected \ bitmap]
      <3>1. wire # <<>> /\ wire' = Tail(wire) /\ Head(wire) = wire[1] /\ nframes' = K!Expected
        BY <1>1, <2>2 DEF K!EndFrame
      <3>2. cmds' = cmds /\ (acks' = acks \/ acks' = Append(acks, ack))
        BY <2>2, <3>1 DEF K!EndFrame, K!AckToHub, K!Transmit
      <3>3. ack \in Acks /\ K!Expected \in Nat
        BY <3>1, Messages
      <3> HIDE DEF ack
      <3>4. acks' \in Seq(Acks)
        BY <1>0, <1>3a, <3>2, <3>3
      <3> QED
        BY <1>0, <1>1, <2>2, <3>1, <3>2, <3>3, <3>4 DEF K!EndFrame
    <2>3. CASE K!Decoded
      BY <1>0, <1>1, <2>3 DEF K!Decoded
    <2> QED
      BY <1>6, <2>1, <2>2, <2>3 DEF K!SpiStep
  <1>7. CASE K!HubStep
    <2> USE DEF K!pageVars, K!transferVars, K!lineVars, K!hubVars, K!Command, CameraNumbers
    <2>1. CASE K!CaptureReq
      BY <1>0, <1>1, <2>1 DEF K!CaptureReq
    <2>2. CASE K!DoCapture
      <3>1. down' \in Seq(Answers)
        BY <2>2, Sent, Messages DEF K!DoCapture
      <3>2. taken' \in 0..Len(Frames) /\ photo' \in 0..Len(Frames)
        BY <1>0, <2>2, LenProperties DEF K!DoCapture, CameraAssumption
      <3> QED
        BY <1>0, <2>2, <3>1, <3>2 DEF K!DoCapture
    <2>3. CASE K!GetImage
      <3> DEFINE m == IF photo = 0 THEN [cmd |-> "captureFail"]
                                   ELSE [cmd |-> "imageAck", photo |-> photo]
      <3>1. down' = down \/ down' = Append(down, m)
        BY <2>3 DEF K!GetImage, K!ToPage, K!Transmit
      <3>2. m \in Answers
        BY Messages
      <3> HIDE DEF m
      <3>3. down' \in Seq(Answers)
        BY <1>0, <1>3a, <3>1, <3>2
      <3> QED
        BY <1>0, <1>1, <2>3, <3>3 DEF K!GetImage
    <2>4. CASE K!ReadyBig
      BY <1>0, <1>1, <2>4, Messages DEF K!ReadyBig
    <2>5. CASE K!SendFrame
      BY <1>0, <1>1, <1>2, <2>5 DEF K!SendFrame
    <2>6. CASE K!Drain
      BY <1>0, <1>1, <2>6 DEF K!Drain
    <2>7. CASE K!WaitAck
      <3>1. acks # <<>> /\ acks' = Tail(acks) /\ Head(acks).missing \subseteq Nat
        BY <1>1, <2>7, Messages DEF K!WaitAck
      <3>2. photo # 0 => K!FramesOf(photo) \subseteq Nat \ {0}
        BY Messages
      <3>3. /\ left' = left \/ left' = Head(acks).missing \cap K!FramesOf(photo)
            /\ round' \in {round, round + 1} /\ hpc' \in {"wait", "idle", "sending"}
        BY <2>7 DEF K!WaitAck
      <3>4. left' \subseteq Nat \ {0}
        <4>1. CASE left' = left
          BY <1>0, <4>1
        <4>2. CASE left' = Head(acks).missing \cap K!FramesOf(photo) /\ photo # 0
          BY <3>2, <4>2
        <4> QED
          BY <1>0, <2>7, <3>3, <4>1, <4>2 DEF K!WaitAck
      <3>5. UNCHANGED <<wire, cmds, down, session, sid, nframes, total, photo, taken>>
        BY <2>7 DEF K!WaitAck
      <3>6. hpc = "wait"
        BY <2>7 DEF K!WaitAck
      <3>7. Lines'
        BY <1>0, <1>1, <3>1, <3>5
      <3>8. CameraNumbers'
        BY <1>0, <3>3, <3>4, <3>5, <3>6
      <3> QED
        BY <1>0, <3>7, <3>8
    <2>8. CASE K!AckTimeOut
      BY <1>0, <1>1, <2>8 DEF K!AckTimeOut
    <2> QED
      BY <1>7, <2>1, <2>2, <2>3, <2>4, <2>5, <2>6, <2>7, <2>8 DEF K!HubStep
  <1> QED
    BY <1>3, <1>4, <1>5, <1>6, <1>7 DEF K!Next

-----------------------------------------------------------------------------
(* Sessions. *)

WireShrinks == wire' = wire \/ wire' = <<>> \/ (wire # <<>> /\ wire' = Tail(wire))
AcksShrink == acks' = acks \/ acks' = <<>> \/ (acks # <<>> /\ acks' = Tail(acks))

LEMMA NothingNewSeen ==
  ASSUME CameraTypes, sid' = sid
  PROVE  /\ WireShrinks /\ AcksShrink => Seen' \subseteq Seen
         /\ \A f \in SpiFrames : f.sid = sid /\ wire' = Append(wire, f) /\ acks' = acks
                              => Seen' \subseteq Seen
         /\ \A a \in Acks : a.sid \in Seen /\ acks' = Append(acks, a) /\ WireShrinks
                         => Seen' \subseteq Seen
  <1>1. wire \in Seq(SpiFrames) /\ acks \in Seq(Acks)
    BY DEF CameraTypes
  <1>2. WireShrinks => \A j \in 1..Len(wire') : wire'[j].sid \in Seen
    <2>1. wire # <<>> /\ wire' = Tail(wire) =>
            \A j \in 1..Len(wire') : j + 1 \in 1..Len(wire) /\ wire'[j] = wire[j + 1]
      BY <1>1, TailFacts
    <2>2. WireShrinks => \/ wire' = wire \/ wire' = <<>>
                         \/ \A j \in 1..Len(wire') : j + 1 \in 1..Len(wire) /\ wire'[j] = wire[j + 1]
      BY <2>1 DEF WireShrinks
    <2> QED
      BY <2>2 DEF Seen
  <1>3. AcksShrink => \A j \in 1..Len(acks') : acks'[j].sid \in Seen
    <2>1. acks # <<>> /\ acks' = Tail(acks) =>
            \A j \in 1..Len(acks') : j + 1 \in 1..Len(acks) /\ acks'[j] = acks[j + 1]
      BY <1>1, TailFacts
    <2>2. AcksShrink => \/ acks' = acks \/ acks' = <<>>
                         \/ \A j \in 1..Len(acks') : j + 1 \in 1..Len(acks) /\ acks'[j] = acks[j + 1]
      BY <2>1 DEF AcksShrink
    <2> QED
      BY <2>2 DEF Seen
  <1>4. ASSUME NEW f \in SpiFrames, f.sid = sid, wire' = Append(wire, f)
        PROVE  \A j \in 1..Len(wire') : wire'[j].sid \in Seen
    <2>1. /\ Len(wire') = Len(wire) + 1 /\ Len(wire) \in Nat
          /\ \A k \in 1..Len(wire) : wire'[k] = wire[k]
          /\ wire'[Len(wire) + 1] = f
      BY <1>1, <1>4, AppendFacts
    <2> QED
      BY <1>4, <2>1 DEF Seen
  <1>5. ASSUME NEW a \in Acks, a.sid \in Seen, acks' = Append(acks, a)
        PROVE  \A j \in 1..Len(acks') : acks'[j].sid \in Seen
    <2>1. /\ Len(acks') = Len(acks) + 1 /\ Len(acks) \in Nat
          /\ \A k \in 1..Len(acks) : acks'[k] = acks[k]
          /\ acks'[Len(acks) + 1] = a
      BY <1>1, <1>5, AppendFacts
    <2> QED
      BY <1>5, <2>1 DEF Seen
  <1>6. (/\ \A j \in 1..Len(wire') : wire'[j].sid \in Seen
         /\ \A j \in 1..Len(acks') : acks'[j].sid \in Seen) => Seen' \subseteq Seen
    BY DEF Seen
  <1>7. acks' = acks => AcksShrink
    BY DEF AcksShrink
  <1> QED
    BY <1>2, <1>3, <1>4, <1>5, <1>6, <1>7

LEMMA CommandsAreOld ==
  ASSUME CameraTypes
  PROVE  /\ cmds' = cmds => OldCommands
         /\ cmds # <<>> /\ cmds' = Tail(cmds) => OldCommands
         /\ \A m \in Commands : m.cmd # "ready" /\ cmds' = Append(cmds, m) => OldCommands
  <1>1. cmds \in Seq(Commands) /\ Len(cmds) \in Nat
    BY LenProperties DEF CameraTypes
  <1>2. ASSUME cmds' = cmds PROVE OldCommands
    <2>1. \A k \in 1..Len(cmds') : IsReady(k)' => IsReady(k + 0) /\ cmds'[k].session = cmds[k + 0].session
      BY <1>1, <1>2 DEF IsReady
    <2> QED
      BY <2>1 DEF OldCommands
  <1>3. ASSUME cmds # <<>>, cmds' = Tail(cmds) PROVE OldCommands
    <2>1. /\ Len(cmds) \in Nat \ {0} /\ Len(cmds') = Len(cmds) - 1
          /\ \A k \in 1..Len(cmds) - 1 : cmds'[k] = cmds[k + 1]
      BY <1>1, <1>3, TailFacts
    <2>2. \A k \in 1..Len(cmds') : IsReady(k)' => IsReady(k + 1) /\ cmds'[k].session = cmds[k + 1].session
      BY <2>1 DEF IsReady
    <2> QED
      BY <2>2 DEF OldCommands
  <1>4. ASSUME NEW m \in Commands, m.cmd # "ready", cmds' = Append(cmds, m) PROVE OldCommands
    <2>1. /\ Len(cmds') = Len(cmds) + 1
          /\ \A k \in 1..Len(cmds) : cmds'[k] = cmds[k]
          /\ cmds'[Len(cmds) + 1] = m
      BY <1>1, <1>4, AppendFacts
    <2>2. \A k \in 1..Len(cmds') : IsReady(k)' => IsReady(k + 0) /\ cmds'[k].session = cmds[k + 0].session
      BY <1>1, <1>4, <2>1 DEF IsReady
    <2> QED
      BY <2>2 DEF OldCommands
  <1> QED
    BY <1>2, <1>3, <1>4

LEMMA SessionsGrowKept ==
  ASSUME CameraTypes, CameraTypes', SessionsGrow, CameraAssumption, K!Next
  PROVE  SessionsGrow'
  <1> DEFINE Calm == /\ session' = session /\ (upc' = "ready" => upc = "ready")
                     /\ Seen' \subseteq Seen /\ OldCommands
  <1>0. Calm => SessionsGrow'
    BY NoNewSession
  <1>2. /\ cmds' = cmds => OldCommands
        /\ cmds # <<>> /\ cmds' = Tail(cmds) => OldCommands
        /\ cmds' = Append(cmds, [cmd |-> "captureReq"]) => OldCommands
        /\ cmds' = Append(cmds, [cmd |-> "getImage"]) => OldCommands
    BY CommandsAreOld, Messages
  <1>3. sid' = sid /\ WireShrinks /\ AcksShrink => Seen' \subseteq Seen
    BY NothingNewSeen
  <1>4. (wire' = wire => WireShrinks) /\ (acks' = acks => AcksShrink)
    BY DEF WireShrinks, AcksShrink
  <1>5. wire \in Seq(SpiFrames) /\ cmds \in Seq(Commands) /\ session \in Nat
    BY DEF CameraTypes
  <1>5a. Seen \subseteq Nat
    <2>1. /\ \A j \in 1..Len(wire) : wire[j] \in SpiFrames
          /\ \A a \in 1..Len(acks) : acks[a] \in Acks
      BY ElementOfSeq DEF CameraTypes
    <2> QED
      BY <2>1, Messages DEF Seen, CameraTypes
  <1> USE DEF K!pageVars, K!transferVars, K!lineVars, K!hubVars
  <1>6. CASE K!Press
    <2>1. Calm
      BY <1>2, <1>3, <1>4, <1>6 DEF K!Press, K!ToHub, K!Transmit
    <2> QED
      BY <1>0, <2>1
  <1>7. CASE K!LvglStep
    <2>1. wire' = wire \/ wire' = <<>>
      BY <1>7 DEF K!LvglStep, K!Callback, K!TimeOut, K!SpiTimeOut
    <2>2. UNCHANGED <<session, upc, sid, acks, cmds>>
      BY <1>7 DEF K!LvglStep, K!Callback, K!TimeOut, K!SpiTimeOut, K!Failure
    <2> QED
      BY <1>0, <1>2, <1>3, <1>4, <2>1, <2>2 DEF WireShrinks
  <1>8. CASE K!UartStep
    <2>1. sid' = sid /\ wire' = wire /\ acks' = acks
      BY <1>8 DEF K!UartStep, K!LateAnswer, K!CaptureAck, K!Arm, K!CaptureFail, K!ImageAck,
                  K!OpenFails, K!Ready, K!Activate, K!ToHub, K!Transmit
    <2>2. Seen' = Seen
      BY <2>1 DEF Seen
    <2>3. CASE K!LateAnswer \/ K!Arm \/ K!CaptureFail \/ K!Activate
      <3>1. session' = session /\ (upc' = "ready" => upc = "ready") /\ cmds' = cmds
        BY <2>3 DEF K!LateAnswer, K!Arm, K!CaptureFail, K!Activate
      <3> QED
        BY <1>0, <1>2, <2>2, <3>1
    <2>4. CASE K!CaptureAck
      <3>1. session' = session /\ (upc' = "ready" => upc = "ready")
            /\ (cmds' = cmds \/ cmds' = Append(cmds, [cmd |-> "getImage"]))
        BY <2>4 DEF K!CaptureAck, K!ToHub, K!Transmit
      <3> QED
        BY <1>0, <1>2, <2>2, <3>1
    <2>5. CASE K!ImageAck \/ K!OpenFails
      <3>1. session' = session + 1 /\ cmds' = cmds
        BY <2>5 DEF K!ImageAck, K!OpenFails
      <3>2. SeenBelow(session + 1)' /\ SeenBelow(session)'
        <4>1. \A x \in Seen : x \in Nat /\ x < session + 1
          BY <1>5a DEF SessionsGrow, SeenBelow
        <4>2. \A x \in Seen' : x < session' + 1 /\ x < session'
          BY <1>5, <2>2, <3>1, <4>1
        <4> QED
          BY <4>2 DEF SeenBelow
      <3>3. \A k \in 1..Len(cmds) : IsReady(k) =>
              cmds[k].session \in Nat /\ cmds[k].session < session + 1 /\ SeenBelow(cmds[k].session)
        <4>1. \A k \in 1..Len(cmds) : cmds[k] \in Commands
          BY <1>5, ElementOfSeq
        <4> QED
          BY <4>1, Messages DEF SessionsGrow, IsReady
      <3>4. \A k : IsReady(k)' <=> IsReady(k)
        BY <3>1 DEF IsReady
      <3>5. \A k \in 1..Len(cmds') : IsReady(k)' =>
              /\ cmds'[k].session < session' /\ cmds'[k].session < session' + 1
              /\ SeenBelow(cmds[k].session)'
        BY <1>5, <2>2, <3>1, <3>3, <3>4 DEF SeenBelow
      <3>6. \A k \in 1..Len(cmds') : IsReady(k)' =>
              \A n \in 1..Len(cmds') : IsReady(n)' /\ n < k => cmds'[n].session < cmds'[k].session
        BY <3>1, <3>4 DEF SessionsGrow
      <3> QED
        BY <3>2, <3>5, <3>6 DEF SessionsGrow
    <2>6. CASE K!Ready
      <3>1. session' = session /\ upc = "ready" /\ upc' # "ready"
            /\ (cmds' = cmds \/ cmds' = Append(cmds, [cmd |-> "ready", session |-> session]))
        BY <2>6 DEF K!Ready, K!ToHub, K!Transmit
      <3>2. CASE cmds' = cmds
        BY <1>0, <1>2, <2>2, <3>1, <3>2
      <3>3. CASE cmds' = Append(cmds, [cmd |-> "ready", session |-> session])
        <4> DEFINE last == Len(cmds) + 1
        <4>1. /\ Len(cmds) \in Nat /\ Len(cmds') = last
              /\ \A k \in 1..Len(cmds) : cmds'[k] = cmds[k]
              /\ cmds'[last] = [cmd |-> "ready", session |-> session]
          BY <1>5, <3>3, Messages, AppendFacts
        <4>2. \A k \in 1..Len(cmds') : k \in 1..Len(cmds) \/ k = last
          BY <4>1
        <4>3. /\ \A k \in 1..Len(cmds) : IsReady(k)' <=> IsReady(k)
              /\ cmds'[last].session = session
          BY <4>1 DEF IsReady
        <4>4. /\ SeenBelow(session + 1) /\ SeenBelow(session)
              /\ \A k \in 1..Len(cmds) : IsReady(k) =>
                   /\ cmds[k].session < session /\ cmds[k].session < session + 1
                   /\ SeenBelow(cmds[k].session)
                   /\ \A n \in 1..Len(cmds) : IsReady(n) /\ n < k => cmds[n].session < cmds[k].session
          BY <3>1 DEF SessionsGrow
        <4>5. \A x : SeenBelow(x) => \A y \in Seen' : y < x
          BY <2>2 DEF SeenBelow
        <4>6. SeenBelow(session + 1)'
          BY <3>1, <4>4, <4>5 DEF SeenBelow
        <4>7. \A k \in 1..Len(cmds') : IsReady(k)' =>
                cmds'[k].session < session' + 1 /\ SeenBelow(cmds[k].session)'
          <5>1. ASSUME NEW k \in 1..Len(cmds), IsReady(k)'
                PROVE  cmds'[k].session < session' + 1 /\ SeenBelow(cmds[k].session)'
            <6>1. cmds'[k] = cmds[k] /\ cmds[k].session < session + 1 /\ SeenBelow(cmds[k].session)
              BY <4>1, <4>3, <4>4, <5>1
            <6>2. \A y \in Seen' : y < cmds[k].session
              BY <4>5, <6>1
            <6>3. SeenBelow(cmds[k].session)'
              BY <6>1, <6>2 DEF SeenBelow
            <6> QED
              BY <3>1, <6>1, <6>3
          <5>2. ASSUME NEW k \in 1..Len(cmds'), k = last
                PROVE  cmds'[k].session < session' + 1 /\ SeenBelow(cmds[k].session)'
            <6>1. \A y \in Seen' : y < session
              BY <4>4, <4>5
            <6>2. cmds'[k].session = session
              BY <4>3, <5>2
            <6>3. SeenBelow(cmds[k].session)'
              BY <6>1, <6>2 DEF SeenBelow
            <6> QED
              BY <1>5, <3>1, <6>2, <6>3
          <5> QED
            BY <4>2, <5>1, <5>2
        <4>8. \A k, n \in 1..Len(cmds') : IsReady(k)' /\ IsReady(n)' /\ n < k =>
                cmds'[n].session < cmds'[k].session
          <5>1. \A k, n \in 1..Len(cmds') : n < k => n \in 1..Len(cmds)
            BY <4>1
          <5> QED
            BY <4>1, <4>2, <4>3, <4>4, <5>1
        <4> QED
          BY <3>1, <4>6, <4>7, <4>8 DEF SessionsGrow
      <3> QED
        BY <3>1, <3>2, <3>3
    <2> QED
      BY <1>8, <2>3, <2>4, <2>5, <2>6 DEF K!UartStep
  <1>9. CASE K!SpiStep
    <2>1. session' = session /\ upc' = upc /\ sid' = sid /\ cmds' = cmds /\ WireShrinks
      BY <1>9 DEF K!SpiStep, K!Data, K!EndFrame, K!Decoded, K!Reading, K!AckToHub, K!Transmit,
         WireShrinks
    <2>2. CASE acks' = acks
      BY <1>0, <1>2, <1>3, <1>4, <2>1, <2>2
    <2>3. CASE acks' # acks
      <3> DEFINE ack == [sid |-> wire[1].sid, ok |-> K!Complete(K!Expected),
                         missing |-> 1..K!Expected \ bitmap]
      <3>1. wire # <<>> /\ acks' = Append(acks, [sid |-> Head(wire).sid, ok |-> K!Complete(K!Expected),
                                                 missing |-> 1..K!Expected \ bitmap])
        BY <1>9, <2>3 DEF K!SpiStep, K!Data, K!EndFrame, K!Decoded, K!Reading, K!AckToHub,
           K!Transmit,
                          K!NextFrame
      <3>2. 1 \in 1..Len(wire) /\ Head(wire) = wire[1]
        BY <1>5, <3>1, TailFacts
      <3>3. ack \in Acks /\ ack.sid = wire[1].sid
        BY <3>1, Messages
      <3>4. acks' = Append(acks, ack) /\ wire[1].sid \in Seen
        BY <3>1, <3>2 DEF Seen
      <3> HIDE DEF ack
      <3>5. Seen' \subseteq Seen
        BY <2>1, <3>3, <3>4, NothingNewSeen
      <3> QED
        BY <1>0, <1>2, <2>1, <3>5
    <2> QED
      BY <2>2, <2>3
  <1>10. CASE K!HubStep
    <2>1. session' = session /\ upc' = upc
      BY <1>10 DEF K!HubStep, K!CaptureReq, K!DoCapture, K!GetImage, K!ReadyBig, K!SendFrame,
         K!Drain,
                   K!WaitAck, K!AckTimeOut
    <2>2. CASE K!CaptureReq \/ K!DoCapture \/ K!GetImage
      <3>1. sid' = sid /\ wire' = wire /\ acks' = acks
            /\ (cmds' = cmds \/ (cmds # <<>> /\ cmds' = Tail(cmds)))
        BY <2>2 DEF K!CaptureReq, K!DoCapture, K!GetImage, K!Command, K!ToPage, K!Transmit
      <3> QED
        BY <1>0, <1>2, <1>3, <1>4, <2>1, <3>1
    <2>3. CASE K!Drain \/ K!WaitAck \/ K!AckTimeOut
      <3>1. sid' = sid /\ wire' = wire /\ AcksShrink /\ cmds' = cmds
        BY <2>3 DEF K!Drain, K!WaitAck, K!AckTimeOut, AcksShrink
      <3> QED
        BY <1>0, <1>2, <1>3, <1>4, <2>1, <3>1
    <2>4. CASE K!SendFrame
      <3> DEFINE f == [no |-> K!NextNo, photo |-> photo, sid |-> sid]
      <3>1. sid' = sid /\ acks' = acks /\ cmds' = cmds /\ (wire' = wire \/ wire' = Append(wire, f))
        BY <2>4 DEF K!SendFrame
      <3>2. f \in SpiFrames /\ f.sid = sid
        BY Messages
      <3> HIDE DEF f
      <3>3. Seen' \subseteq Seen
        BY <1>3, <1>4, <3>1, <3>2, NothingNewSeen
      <3> QED
        BY <1>0, <1>2, <2>1, <3>1, <3>3
    <2>5. CASE K!ReadyBig
      <3> DEFINE r == cmds[1].session
      <3>1. /\ cmds # <<>> /\ Head(cmds).cmd = "ready" /\ cmds' = Tail(cmds)
            /\ sid' = Head(cmds).session /\ wire' = wire /\ acks' = acks
        BY <2>5 DEF K!ReadyBig, K!Command
      <3>2. /\ Len(cmds) \in Nat \ {0} /\ Head(cmds) = cmds[1] /\ cmds[1] \in Commands
            /\ Len(cmds') = Len(cmds) - 1
            /\ \A k \in 1..Len(cmds) - 1 : cmds'[k] = cmds[k + 1]
        BY <1>5, <3>1, TailFacts
      <3>3. /\ IsReady(1) /\ sid' = r /\ r \in Nat
            /\ \A k \in 1..Len(cmds') : k + 1 \in 1..Len(cmds) /\ 1 < k + 1 /\ (IsReady(k)' => IsReady(k + 1))
        BY <3>1, <3>2, Messages DEF IsReady
      <3>4. Seen' \subseteq Seen \cup {r}
        BY <3>1, <3>3 DEF Seen
      <3>5. /\ r < session + 1 /\ (upc = "ready" => r < session)
            /\ \A k \in 1..Len(cmds') : IsReady(k)' => r < cmds[k + 1].session
        BY <3>2, <3>3 DEF SessionsGrow
      <3>6. /\ SeenBelow(session + 1) /\ (upc = "ready" => SeenBelow(session))
            /\ \A k \in 1..Len(cmds') : IsReady(k)' => SeenBelow(cmds[k + 1].session)
        BY <3>3 DEF SessionsGrow
      <3> HIDE DEF r
      <3>7. \A x : SeenBelow(x) /\ r < x => \A y \in Seen' : y < x
        BY <3>4 DEF SeenBelow
      <3>8. SeenBelow(session + 1)' /\ (upc' = "ready" => SeenBelow(session)')
        BY <2>1, <3>5, <3>6, <3>7 DEF SeenBelow
      <3>9. \A k \in 1..Len(cmds') : IsReady(k)' => SeenBelow(cmds[k].session)'
        BY <3>2, <3>5, <3>6, <3>7 DEF SeenBelow
      <3>10. \A k \in 1..Len(cmds') : IsReady(k)' =>
               /\ cmds'[k].session < session' + 1
               /\ upc' = "ready" => cmds'[k].session < session'
        BY <2>1, <3>2, <3>3 DEF SessionsGrow
      <3>11. \A k, n \in 1..Len(cmds') : IsReady(k)' /\ IsReady(n)' /\ n < k =>
               cmds'[n].session < cmds'[k].session
        <4>1. ASSUME NEW k \in 1..Len(cmds'), NEW n \in 1..Len(cmds'), IsReady(k)', IsReady(n)', n < k
              PROVE  cmds'[n].session < cmds'[k].session
          <5>1. /\ k + 1 \in 1..Len(cmds) /\ IsReady(k + 1) /\ cmds'[k] = cmds[k + 1]
                /\ n + 1 \in 1..Len(cmds) /\ IsReady(n + 1) /\ cmds'[n] = cmds[n + 1]
            BY <3>2, <3>3, <4>1
          <5>2. n + 1 < k + 1
            BY <3>2, <4>1
          <5> QED
            BY <5>1, <5>2 DEF SessionsGrow
        <4> QED
          BY <4>1
      <3> QED
        BY <3>8, <3>9, <3>10, <3>11 DEF SessionsGrow
    <2> QED
      BY <1>10, <2>2, <2>3, <2>4, <2>5 DEF K!HubStep
  <1> QED
    BY <1>6, <1>7, <1>8, <1>9, <1>10 DEF K!Next

-----------------------------------------------------------------------------
(* Rounds. *)

Rounds == RoundsApart /\ AgainIsMissing

LEMMA QuietRounds ==
  ASSUME CameraTypes, Rounds, UNCHANGED <<hpc, sid, round, left, acks>>,
         wire' = wire \/ wire' = <<>>,
         UNCHANGED <<session, bitmap>> \/ session' # sid
  PROVE  Rounds'
  <1>1. CASE wire' = wire
    <2>1. RoundsApart'
      BY <1>1 DEF Rounds, RoundsApart, Ends
    <2>2. AgainIsMissing'
      BY <1>1 DEF Rounds, AgainIsMissing
    <2> QED
      BY <2>1, <2>2 DEF Rounds
  <1>2. CASE wire' = <<>>
    <2>1. RoundsApart'
      BY <1>2 DEF Rounds, RoundsApart, Ends
    <2>2. AgainIsMissing'
      BY <1>2 DEF Rounds, AgainIsMissing
    <2> QED
      BY <2>1, <2>2 DEF Rounds
  <1> QED
    BY <1>1, <1>2

LEMMA DataRounds ==
  ASSUME CameraTypes, Rounds, K!Data
  PROVE  Rounds'
  <1>1. /\ UNCHANGED <<hpc, sid, round, left, acks, session>> /\ wire # <<>> /\ wire' = Tail(wire)
        /\ bitmap' \subseteq bitmap \cup {Head(wire).no}
    BY DEF K!Data, K!Reading, K!NextFrame, K!hubVars
  <1>2. /\ Len(wire) \in Nat \ {0} /\ Head(wire) = wire[1] /\ Len(wire') = Len(wire) - 1
        /\ \A j \in 1..Len(wire) - 1 : wire'[j] = wire[j + 1]
    BY <1>1, TailFacts DEF CameraTypes
  <1>3. \A j \in 1..Len(wire') : /\ j + 1 \in 1..Len(wire) /\ wire'[j] = wire[j + 1]
                                 /\ (Ends(j)' <=> Ends(j + 1))
    BY <1>1, <1>2 DEF Ends
  <1>4. RoundsApart'
    <2>1. hpc' = "sending" => /\ \A j \in 1..Len(wire') : ~Ends(j)'
                              /\ \A a \in 1..Len(acks') : acks'[a].sid # sid'
      BY <1>1, <1>3 DEF Rounds, RoundsApart
    <2>2. hpc' \in {"drain", "wait"} =>
            \A j \in 1..Len(wire') : Ends(j)' => /\ j = Len(wire')
                                                 /\ \A a \in 1..Len(acks') : acks'[a].sid # sid'
      <3>1. hpc \in {"drain", "wait"} =>
              \A j \in 1..Len(wire') : Ends(j + 1) => /\ j + 1 = Len(wire)
                                                      /\ \A a \in 1..Len(acks) : acks[a].sid # sid
        BY <1>3 DEF Rounds, RoundsApart
      <3>2. \A j \in 1..Len(wire') : j + 1 = Len(wire) => j = Len(wire')
        BY <1>2
      <3> QED
        BY <1>1, <1>3, <3>1, <3>2
    <2>3. hpc' \in {"drain", "wait"} => \A a \in 1..Len(acks') : acks'[a].sid # sid'
      BY <1>1 DEF Rounds, RoundsApart
    <2> QED
      BY <2>1, <2>2, <2>3 DEF RoundsApart
  <1>5. AgainIsMissing'
    <2>1. hpc' = "sending" /\ round' > 0 => \A j \in 1..Len(wire') : wire'[j].no \notin left'
      BY <1>1, <1>3 DEF Rounds, AgainIsMissing
    <2>2. hpc' = "sending" /\ round' > 0 /\ sid' = session' => left' \cap bitmap' = {}
      <3>1. hpc = "sending" /\ round > 0 => wire[1].no \notin left
        BY <1>2 DEF Rounds, AgainIsMissing
      <3> QED
        BY <1>1, <1>2, <3>1 DEF Rounds, AgainIsMissing
    <2>3. hpc' \in {"drain", "wait"} => \A a \in 1..Len(acks') : acks'[a].sid # sid'
      BY <1>1 DEF Rounds, RoundsApart
    <2> QED
      BY <2>1, <2>2, <2>3 DEF AgainIsMissing
  <1> QED
    BY <1>4, <1>5 DEF Rounds

LEMMA EndRounds ==
  ASSUME CameraTypes, Rounds, K!EndFrame
  PROVE  Rounds'
  <1> DEFINE ack == [sid |-> wire[1].sid, ok |-> K!Complete(K!Expected),
                     missing |-> 1..K!Expected \ bitmap]
  <1>1. /\ UNCHANGED <<hpc, sid, round, left, session, bitmap>> /\ wire # <<>> /\ wire' = Tail(wire)
        /\ Head(wire).no = K!End
    BY DEF K!EndFrame, K!Reading, K!NextFrame, K!hubVars
  <1>2. /\ Len(wire) \in Nat \ {0} /\ Head(wire) = wire[1] /\ Len(wire') = Len(wire) - 1
        /\ \A j \in 1..Len(wire) - 1 : wire'[j] = wire[j + 1]
    BY <1>1, TailFacts DEF CameraTypes
  <1>3. \A j \in 1..Len(wire') : /\ j + 1 \in 1..Len(wire) /\ wire'[j] = wire[j + 1]
                                 /\ (Ends(j)' <=> Ends(j + 1))
    BY <1>1, <1>2 DEF Ends
  <1>4. acks' = acks \/ acks' = Append(acks, ack)
    BY <1>2 DEF K!EndFrame, K!AckToHub, K!Transmit, K!NextFrame
  <1>5. ack \in Acks /\ ack.sid = wire[1].sid /\ ack.missing \cap bitmap = {}
    BY <1>1, CameraAssumption, Messages
  <1>6. 1 \in 1..Len(wire) /\ (wire[1].sid = sid => Ends(1))
    BY <1>1, <1>2 DEF Ends
  <1> HIDE DEF ack
  <1>7. /\ Len(acks) \in Nat
        /\ acks' # acks => /\ Len(acks') = Len(acks) + 1 /\ acks'[Len(acks) + 1] = ack
                           /\ \A a \in 1..Len(acks) : acks'[a] = acks[a]
    <2>1. acks \in Seq(Acks)
      BY DEF CameraTypes
    <2>2. /\ Len(acks) \in Nat /\ Len(Append(acks, ack)) = Len(acks) + 1
          /\ Append(acks, ack)[Len(acks) + 1] = ack
          /\ \A a \in 1..Len(acks) : Append(acks, ack)[a] = acks[a]
      BY <1>5, <2>1, AppendFacts
    <2> QED
      BY <1>4, <2>2
  <1>8. \A a \in 1..Len(acks') : \/ a \in 1..Len(acks) /\ acks'[a] = acks[a]
                                 \/ acks'[a].sid = wire[1].sid
    BY <1>5, <1>7
  <1>9. CASE hpc = "sending"
    <2>1. wire[1].sid # sid
      BY <1>6, <1>9 DEF Rounds, RoundsApart
    <2>2. RoundsApart'
      <3>1. \A j \in 1..Len(wire') : ~Ends(j)'
        BY <1>3, <1>9 DEF Rounds, RoundsApart
      <3>2. \A a \in 1..Len(acks') : acks'[a].sid # sid'
        BY <1>1, <1>8, <1>9, <2>1 DEF Rounds, RoundsApart
      <3> QED
        BY <1>1, <1>9, <3>1, <3>2 DEF RoundsApart
    <2>3. AgainIsMissing'
      BY <1>1, <1>3, <1>9 DEF Rounds, AgainIsMissing
    <2> QED
      BY <2>2, <2>3 DEF Rounds
  <1>10. CASE hpc \in {"drain", "wait"} /\ wire[1].sid # sid
    <2>1. \A a \in 1..Len(acks') : acks'[a].sid = sid' => a \in 1..Len(acks) /\ acks'[a] = acks[a]
      BY <1>1, <1>8, <1>10
    <2>2. \A a \in 1..Len(acks') : acks'[a].sid # sid'
      BY <1>1, <1>10, <2>1 DEF Rounds, RoundsApart
    <2>3. \A j \in 1..Len(wire') : Ends(j)' => j = Len(wire')
      BY <1>2, <1>3, <1>10 DEF Rounds, RoundsApart
    <2>4. RoundsApart'
      BY <1>1, <1>10, <2>2, <2>3 DEF RoundsApart
    <2>5. AgainIsMissing'
      BY <1>1, <1>10, <2>2 DEF AgainIsMissing
    <2> QED
      BY <2>4, <2>5 DEF Rounds
  <1>11. CASE hpc \in {"drain", "wait"} /\ wire[1].sid = sid
    <2>1. Ends(1) /\ Len(wire) = 1 /\ \A a \in 1..Len(acks) : acks[a].sid # sid
      BY <1>6, <1>11 DEF Rounds, RoundsApart
    <2>2. wire' = <<>> /\ Len(wire') = 0
      <3>1. wire' \in Seq(SpiFrames) /\ Len(wire') = 0
        BY <1>1, <1>2, <2>1, TailFacts DEF CameraTypes
      <3> QED
        BY <3>1, EmptySeq
    <2>3. \A a \in 1..Len(acks') : acks'[a].sid = sid' => a = Len(acks) + 1 /\ acks'[a] = ack
      BY <1>1, <1>7, <1>8, <2>1
    <2>4. RoundsApart'
      <3>1. \A a \in 1..Len(acks') : acks'[a].sid = sid' =>
              /\ wire' = <<>> /\ \A b \in 1..Len(acks') : acks'[b].sid = sid' => a = b
        BY <2>2, <2>3
      <3> QED
        BY <1>1, <1>11, <2>2, <3>1 DEF RoundsApart
    <2>5. AgainIsMissing'
      BY <1>1, <1>5, <1>11, <2>3 DEF AgainIsMissing
    <2> QED
      BY <2>4, <2>5 DEF Rounds
  <1>12. CASE hpc \in {"idle", "capturing"}
    BY <1>1, <1>12 DEF Rounds, RoundsApart, AgainIsMissing
  <1> QED
    BY <1>9, <1>10, <1>11, <1>12 DEF CameraTypes

LEMMA SendRounds ==
  ASSUME CameraTypes, Rounds, CameraAssumption, K!SendFrame
  PROVE  Rounds'
  <1> DEFINE f == [no |-> K!NextNo, photo |-> photo, sid |-> sid]
  <1>1. /\ UNCHANGED <<sid, round, acks, session, bitmap>> /\ hpc = "sending"
        /\ left' = left \ {K!NextNo} /\ hpc' = IF left = {} THEN "drain" ELSE "sending"
        /\ wire' = wire \/ wire' = Append(wire, f)
    BY DEF K!SendFrame, K!pageVars
  <1>2. /\ f \in SpiFrames /\ f.no = K!NextNo /\ f.sid = sid
        /\ K!NextNo \in Nat /\ (K!NextNo = K!End <=> left = {})
    BY Messages
  <1> HIDE DEF f
  <1>3. /\ Len(wire) \in Nat
        /\ wire' # wire => /\ Len(wire') = Len(wire) + 1 /\ wire'[Len(wire) + 1] = f
                           /\ \A j \in 1..Len(wire) : wire'[j] = wire[j]
    BY <1>1, <1>2, AppendFacts, LenProperties DEF CameraTypes
  <1>4. \A j \in 1..Len(wire') : \/ j \in 1..Len(wire) /\ wire'[j] = wire[j]
                                 \/ j = Len(wire') /\ wire'[j] = f
    BY <1>3
  <1>5. /\ \A j \in 1..Len(wire) : ~Ends(j)
        /\ \A a \in 1..Len(acks') : acks'[a].sid # sid'
    BY <1>1 DEF Rounds, RoundsApart
  <1>6. \A j \in 1..Len(wire') : Ends(j)' => j = Len(wire') /\ wire'[j] = f
    BY <1>1, <1>4, <1>5 DEF Ends
  <1>7. CASE left = {}
    <2>1. hpc' = "drain"
      BY <1>1, <1>7
    <2> QED
      BY <1>5, <1>6, <2>1 DEF Rounds, RoundsApart, AgainIsMissing
  <1>8. CASE left # {}
    <2>1. hpc' = "sending"
      BY <1>1, <1>8
    <2>2. \A j \in 1..Len(wire') : ~Ends(j)'
      BY <1>2, <1>6, <1>8 DEF Ends
    <2>3. RoundsApart'
      BY <1>5, <2>1, <2>2 DEF RoundsApart
    <2>4. round' > 0 => \A j \in 1..Len(wire') : wire'[j].no \notin left'
      BY <1>1, <1>2, <1>4 DEF Rounds, AgainIsMissing
    <2>5. round' > 0 /\ sid' = session' => left' \cap bitmap' = {}
      BY <1>1 DEF Rounds, AgainIsMissing
    <2>6. AgainIsMissing'
      BY <2>1, <2>4, <2>5 DEF AgainIsMissing
    <2> QED
      BY <2>3, <2>6 DEF Rounds
  <1> QED
    BY <1>7, <1>8

LEMMA WaitRounds ==
  ASSUME CameraTypes, Rounds, K!WaitAck
  PROVE  Rounds'
  <1>1. /\ UNCHANGED <<sid, wire, session, bitmap>> /\ hpc = "wait" /\ acks # <<>> /\ acks' = Tail(acks)
        /\ \/ Head(acks).sid # sid /\ UNCHANGED <<hpc, left, round>>
           \/ hpc' = "idle"
           \/ /\ Head(acks).sid = sid /\ left' \subseteq Head(acks).missing
              /\ hpc' = "sending"
    BY DEF K!WaitAck, K!pageVars, K!lineVars
  <1>2. /\ Len(acks) \in Nat \ {0} /\ Head(acks) = acks[1] /\ Len(acks') = Len(acks) - 1
        /\ \A a \in 1..Len(acks) - 1 : acks'[a] = acks[a + 1]
    BY <1>1, TailFacts DEF CameraTypes
  <1>3. \A a \in 1..Len(acks') : a + 1 \in 1..Len(acks) /\ acks'[a] = acks[a + 1] /\ a + 1 # 1
    BY <1>2
  <1>4. \A j : Ends(j)' <=> Ends(j)
    BY <1>1 DEF Ends
  <1>5. CASE UNCHANGED <<hpc, left, round>>
    <2>1. \A j \in 1..Len(wire') : Ends(j)' => /\ j = Len(wire')
                                               /\ \A a \in 1..Len(acks') : acks'[a].sid # sid'
      BY <1>1, <1>3, <1>4 DEF Rounds, RoundsApart
    <2>2. \A a \in 1..Len(acks') : acks'[a].sid = sid' => wire' = <<>>
      BY <1>1, <1>3 DEF Rounds, RoundsApart
    <2>3. \A a, b \in 1..Len(acks') : acks'[a].sid = sid' /\ acks'[b].sid = sid' => a = b
      <3>1. ASSUME NEW a \in 1..Len(acks'), NEW b \in 1..Len(acks'), acks'[a].sid = sid', acks'[b].sid = sid'
            PROVE  a + 1 = b + 1
        BY <1>1, <1>3, <3>1 DEF Rounds, RoundsApart
      <3>2. \A a, b \in 1..Len(acks') : a + 1 = b + 1 => a = b
        BY <1>2
      <3> QED
        BY <3>1, <3>2
    <2>4. RoundsApart'
      BY <1>1, <1>5, <2>1, <2>2, <2>3 DEF RoundsApart
    <2>5. AgainIsMissing'
      BY <1>1, <1>3, <1>5 DEF Rounds, AgainIsMissing
    <2> QED
      BY <2>4, <2>5 DEF Rounds
  <1>6. CASE hpc' = "idle"
    BY <1>6 DEF Rounds, RoundsApart, AgainIsMissing
  <1>7. CASE Head(acks).sid = sid /\ left' \subseteq Head(acks).missing /\ hpc' = "sending"
    <2>1. 1 \in 1..Len(acks) /\ acks[1].sid = sid
      BY <1>2, <1>7
    <2>2. wire = <<>> /\ \A b \in 1..Len(acks) : acks[b].sid = sid => 1 = b
      BY <1>1, <2>1 DEF Rounds, RoundsApart
    <2>3. \A a \in 1..Len(acks') : acks'[a].sid # sid'
      BY <1>1, <1>3, <2>2
    <2>4. sid = session => acks[1].missing \cap bitmap = {}
      BY <1>1, <2>1 DEF Rounds, AgainIsMissing
    <2>5. \A j \in 1..Len(wire') : FALSE
      BY <1>1, <2>2
    <2>6. RoundsApart'
      BY <1>7, <2>3, <2>5 DEF RoundsApart
    <2>7. AgainIsMissing'
      BY <1>1, <1>2, <1>7, <2>4, <2>5 DEF AgainIsMissing
    <2> QED
      BY <2>6, <2>7 DEF Rounds
  <1> QED
    BY <1>1, <1>5, <1>6, <1>7

LEMMA RoundsKept ==
  ASSUME CameraTypes, SessionsGrow, Rounds, CameraAssumption, K!Next
  PROVE  Rounds'
  <1> USE DEF K!pageVars, K!transferVars, K!lineVars, K!hubVars
  <1>1. CASE K!Press
    BY <1>1, QuietRounds DEF K!Press, K!ToHub, K!Transmit
  <1>2. CASE K!LvglStep
    <2>1. wire' = wire \/ wire' = <<>>
      BY <1>2 DEF K!LvglStep, K!Callback, K!TimeOut, K!SpiTimeOut
    <2>2. UNCHANGED <<hpc, sid, round, left, acks, session, bitmap>>
      BY <1>2 DEF K!LvglStep, K!Callback, K!TimeOut, K!SpiTimeOut, K!Failure
    <2> QED
      BY <2>1, <2>2, QuietRounds
  <1>3. CASE K!UartStep
    <2>1. UNCHANGED <<hpc, sid, round, left, acks, wire>>
      BY <1>3 DEF K!UartStep, K!LateAnswer, K!CaptureAck, K!Arm, K!CaptureFail, K!ImageAck,
                  K!OpenFails, K!Ready, K!Activate, K!ToHub, K!Transmit
    <2>2. UNCHANGED <<session, bitmap>> \/ session' = session + 1
      BY <1>3 DEF K!UartStep, K!LateAnswer, K!CaptureAck, K!Arm, K!CaptureFail, K!ImageAck,
                  K!OpenFails, K!Ready, K!Activate
    <2>3. sid < session + 1
      BY DEF SessionsGrow, SeenBelow, Seen
    <2>4. session' = session + 1 => session' # sid
      BY <2>3 DEF CameraTypes
    <2> QED
      BY <2>1, <2>2, <2>4, QuietRounds
  <1>4. CASE K!SpiStep
    <2>1. CASE K!Decoded
      BY <2>1, QuietRounds DEF K!Decoded
    <2> QED
      BY <1>4, <2>1, DataRounds, EndRounds DEF K!SpiStep
  <1>5. CASE K!HubStep
    <2>1. CASE K!CaptureReq \/ K!DoCapture \/ K!GetImage
      <3>1. hpc' \in {"idle", "capturing"}
        BY <2>1 DEF K!CaptureReq, K!DoCapture, K!GetImage, K!Command
      <3> QED
        BY <3>1 DEF Rounds, RoundsApart, AgainIsMissing
    <2>2. CASE K!ReadyBig
      <3>1. /\ cmds # <<>> /\ Head(cmds).cmd = "ready" /\ sid' = Head(cmds).session
            /\ wire' = wire /\ acks' = acks /\ round' = 0 /\ hpc' = "sending"
        BY <2>2 DEF K!ReadyBig, K!Command
      <3>2. Len(cmds) \in Nat \ {0} /\ Head(cmds) = cmds[1] /\ cmds[1] \in Commands
        BY <3>1, TailFacts DEF CameraTypes
      <3>3. IsReady(1) /\ sid' \in Nat /\ sid' = cmds[1].session
        BY <3>1, <3>2, Messages DEF IsReady
      <3>4. \A x \in Seen : x < cmds[1].session
        BY <3>3 DEF SessionsGrow, SeenBelow, IsReady
      <3>5. sid' \notin Seen
        BY <3>3, <3>4
      <3>6. RoundsApart'
        BY <3>1, <3>5 DEF RoundsApart, Ends, Seen
      <3>7. AgainIsMissing'
        BY <3>1 DEF AgainIsMissing
      <3> QED
        BY <3>6, <3>7 DEF Rounds
    <2>3. CASE K!Drain
      <3>1. UNCHANGED <<sid, wire>> /\ hpc = "drain" /\ (hpc' = "idle" \/ (hpc' = "wait" /\ acks' = <<>>))
        BY <2>3 DEF K!Drain
      <3>2. RoundsApart'
        BY <3>1 DEF Rounds, RoundsApart, Ends
      <3>3. AgainIsMissing'
        BY <3>1 DEF AgainIsMissing
      <3> QED
        BY <3>2, <3>3 DEF Rounds
    <2>4. CASE K!AckTimeOut
      <3>1. UNCHANGED <<sid, wire, acks>> /\ hpc = "wait" /\ hpc' = "drain" /\ acks = <<>>
        BY <2>4 DEF K!AckTimeOut
      <3>2. RoundsApart'
        BY <3>1 DEF Rounds, RoundsApart, Ends
      <3>3. AgainIsMissing'
        BY <3>1 DEF AgainIsMissing
      <3> QED
        BY <3>2, <3>3 DEF Rounds
    <2> QED
      BY <1>5, <2>1, <2>2, <2>3, <2>4, SendRounds, WaitRounds DEF K!HubStep
  <1> QED
    BY <1>1, <1>2, <1>3, <1>4, <1>5 DEF K!Next

LEMMA CameraInit == ASSUME CameraAssumption, K!Init PROVE CameraInv
  <1>1. CameraTypes
    BY LenProperties DEF CameraTypes, K!Init, CameraAssumption
  <1>2. \A k \in 1..Len(cmds) : FALSE
    BY DEF K!Init
  <1>3. SessionsGrow
    <2>1. SeenBelow(1)
      BY DEF K!Init, SeenBelow, Seen
    <2>2. SeenBelow(session + 1)
      BY <2>1 DEF K!Init, SeenBelow
    <2> QED
      BY <1>2, <2>2 DEF SessionsGrow, K!Init
  <1>4. RoundsApart /\ AgainIsMissing
    BY DEF RoundsApart, AgainIsMissing, K!Init
  <1> QED
    BY <1>1, <1>3, <1>4 DEF CameraInv

LEMMA CameraInvKept == ASSUME CameraInv, CameraAssumption, [K!Next]_cameraVars PROVE CameraInv'
  <1>1. CASE K!Next
    <2>1. CameraTypes' /\ SessionsGrow' /\ Rounds'
      BY <1>1, CameraTypesKept, SessionsGrowKept, RoundsKept DEF CameraInv, Rounds
    <2> QED
      BY <2>1 DEF CameraInv, Rounds
  <1>2. CASE UNCHANGED cameraVars
    <2>1. CameraTypes'
      BY <1>2 DEF cameraVars, CameraInv, CameraTypes
    <2>2. Seen' = Seen /\ \A k : IsReady(k)' <=> IsReady(k)
      BY <1>2 DEF cameraVars, Seen, IsReady
    <2>3. \A k : SeenBelow(k)' <=> SeenBelow(k)
      BY <2>2 DEF SeenBelow
    <2>4. SessionsGrow'
      BY <1>2, <2>2 DEF cameraVars, CameraInv, SessionsGrow, SeenBelow
    <2>5. Rounds'
      BY <1>2, QuietRounds DEF cameraVars, CameraInv, Rounds
    <2> QED
      BY <2>1, <2>4, <2>5 DEF CameraInv, Rounds
  <1> QED
    BY <1>1, <1>2

(* A retransmission of the hub (spi_send_image) never carries a frame that   *)
(* the page already has of this session, for any photos and whatever is     *)
(* lost of the frames, the acknowledgements and the commands.               *)
THEOREM OnlyMissing == Spec => []OnlyMissingAgain
  <1>1. Init => CameraInv
    BY CameraAssumption, CameraInit DEF Init
  <1>2. CameraInv /\ [Next]_vars => CameraInv'
    <2> SUFFICES ASSUME CameraInv, [Next]_vars PROVE CameraInv'
      OBVIOUS
    <2>1. [K!Next]_cameraVars
      BY DEF Next, vars, Playback, Pipeline, Channel, Camera, Recorder, Omni, pageVars, audioVars
    <2> QED
      BY <2>1, CameraAssumption, CameraInvKept
  <1>3. CameraInv => OnlyMissingAgain
    BY DEF CameraInv, AgainIsMissing, OnlyMissingAgain, K!OnlyMissingAgain
  <1> QED
    BY <1>1, <1>2, <1>3, PTL DEF Spec


-----------------------------------------------------------------------------
(* Streams and the places they are in. *)

Closed(e, s) == IF s = 0 THEN e ELSE [e EXCEPT ![s] = @ + 1]

LEMMA Drops ==
  ASSUME NEW h, NEW e, Owned(h, e), NEW p \in C!Places
  PROVE  Owned([h EXCEPT ![p] = 0], Closed(e, h[p]))
  <1> DEFINE g == [h EXCEPT ![p] = 0]
             d == Closed(e, h[p])
  <1>1. /\ h \in [C!Places -> 0..Len(e)] /\ e \in Seq({0, 1}) /\ Len(e) \in Nat
        /\ \A q, r \in C!Places : q # r /\ h[q] = h[r] => h[q] = 0
        /\ \A s \in 1..Len(e) : e[s] = 0 <=> \E q \in C!Places : h[q] = s
    BY LenProperties DEF Owned
  <1>2. \A q \in C!Places : g[q] = IF q = p THEN 0 ELSE h[q]
    BY <1>1
  <1>3. /\ d \in Seq({0, 1}) /\ Len(d) = Len(e)
        /\ \A s \in 1..Len(e) : d[s] = IF s = h[p] THEN 1 ELSE e[s]
    <2>1. CASE h[p] = 0
      BY <1>1, <2>1 DEF Closed
    <2>2. CASE h[p] # 0
      <3>1. h[p] \in 1..Len(e) /\ e[h[p]] = 0
        BY <1>1, <2>2
      <3>2. d = [e EXCEPT ![h[p]] = 1]
        BY <2>2, <3>1 DEF Closed
      <3>3. [e EXCEPT ![h[p]] = 1] \in Seq({0, 1}) /\ Len([e EXCEPT ![h[p]] = 1]) = Len(e)
        BY <1>1, <3>1, ExceptSeq
      <3> QED
        BY <1>1, <3>1, <3>2, <3>3, ExceptSeq
    <2> QED
      BY <2>1, <2>2
  <1>4. g \in [C!Places -> 0..Len(d)]
    BY <1>1, <1>3
  <1> HIDE DEF g, d
  <1>5. \A q, r \in C!Places : q # r /\ g[q] = g[r] => g[q] = 0
    BY <1>1, <1>2
  <1>6. \A s \in 1..Len(d) : d[s] = 0 <=> \E q \in C!Places : g[q] = s
    <2> SUFFICES ASSUME NEW s \in 1..Len(d) PROVE d[s] = 0 <=> \E q \in C!Places : g[q] = s
      OBVIOUS
    <2>1. s \in 1..Len(e) /\ s # 0
      BY <1>1, <1>3
    <2>2. CASE s = h[p]
      <3>1. \A q \in C!Places : g[q] # s
        BY <1>1, <1>2, <2>1, <2>2
      <3> QED
        BY <1>3, <2>1, <2>2, <3>1
    <2>3. CASE s # h[p]
      <3>1. \A q \in C!Places : g[q] = s <=> h[q] = s
        BY <1>2, <2>1, <2>3
      <3> QED
        BY <1>1, <1>3, <2>1, <2>3, <3>1
    <2> QED
      BY <2>2, <2>3
  <1>7. Owned(g, d)
    BY <1>3, <1>4, <1>5, <1>6 DEF Owned
  <1> QED
    BY <1>7 DEF g, d

LEMMA Moves ==
  ASSUME NEW h, NEW e, Owned(h, e), NEW p \in C!Places, NEW q \in C!Places, p # q, h[q] = 0
  PROVE  Owned([h EXCEPT ![q] = h[p], ![p] = 0], e)
  <1> DEFINE g == [h EXCEPT ![q] = h[p], ![p] = 0]
  <1>1. /\ h \in [C!Places -> 0..Len(e)] /\ e \in Seq({0, 1}) /\ Len(e) \in Nat
        /\ \A r, t \in C!Places : r # t /\ h[r] = h[t] => h[r] = 0
        /\ \A s \in 1..Len(e) : e[s] = 0 <=> \E r \in C!Places : h[r] = s
    BY LenProperties DEF Owned
  <1>2. \A r \in C!Places : g[r] = IF r = p THEN 0 ELSE IF r = q THEN h[p] ELSE h[r]
    BY <1>1
  <1>3. g \in [C!Places -> 0..Len(e)]
    BY <1>1
  <1> HIDE DEF g
  <1>4. \A r, t \in C!Places : r # t /\ g[r] = g[t] => g[r] = 0
    BY <1>1, <1>2
  <1>5. \A s \in 1..Len(e) : e[s] = 0 <=> \E r \in C!Places : g[r] = s
    <2> SUFFICES ASSUME NEW s \in 1..Len(e)
                 PROVE  (\E r \in C!Places : h[r] = s) <=> \E r \in C!Places : g[r] = s
      BY <1>1
    <2>1. ASSUME NEW r \in C!Places, h[r] = s PROVE \E t \in C!Places : g[t] = s
      <3>1. CASE r = p
        BY <1>2, <2>1, <3>1
      <3>2. CASE r # p
        BY <1>1, <1>2, <2>1, <3>2
      <3> QED
        BY <3>1, <3>2
    <2>2. ASSUME NEW r \in C!Places, g[r] = s PROVE \E t \in C!Places : h[t] = s
      BY <1>1, <1>2, <2>2
    <2> QED
      BY <2>1, <2>2
  <1>6. Owned(g, e)
    BY <1>1, <1>3, <1>4, <1>5 DEF Owned
  <1> QED
    BY <1>6 DEF g

LEMMA Opens ==
  ASSUME NEW h, NEW e, Owned(h, e), NEW q \in C!Places, h[q] = 0
  PROVE  Owned([h EXCEPT ![q] = Len(e) + 1], Append(e, 0))
  <1> DEFINE g == [h EXCEPT ![q] = Len(e) + 1]
             d == Append(e, 0)
  <1>1. /\ h \in [C!Places -> 0..Len(e)] /\ e \in Seq({0, 1}) /\ Len(e) \in Nat
        /\ \A r, t \in C!Places : r # t /\ h[r] = h[t] => h[r] = 0
        /\ \A s \in 1..Len(e) : e[s] = 0 <=> \E r \in C!Places : h[r] = s
    BY LenProperties DEF Owned
  <1>2. \A r \in C!Places : g[r] = IF r = q THEN Len(e) + 1 ELSE h[r]
    BY <1>1
  <1>3. /\ d \in Seq({0, 1}) /\ Len(d) = Len(e) + 1
        /\ \A s \in 1..Len(e) : d[s] = e[s]
        /\ d[Len(e) + 1] = 0
    BY <1>1, AppendFacts
  <1>4. g \in [C!Places -> 0..Len(d)]
    BY <1>1, <1>3
  <1> HIDE DEF g, d
  <1>5. \A r, t \in C!Places : r # t /\ g[r] = g[t] => g[r] = 0
    BY <1>1, <1>2
  <1>6. \A s \in 1..Len(d) : d[s] = 0 <=> \E r \in C!Places : g[r] = s
    <2> SUFFICES ASSUME NEW s \in 1..Len(d) PROVE d[s] = 0 <=> \E r \in C!Places : g[r] = s
      OBVIOUS
    <2>1. CASE s = Len(e) + 1
      BY <1>2, <1>3, <2>1
    <2>2. CASE s \in 1..Len(e)
      <3>1. \A r \in C!Places : g[r] = s <=> h[r] = s
        BY <1>1, <1>2, <2>2
      <3> QED
        BY <1>1, <1>3, <2>2, <3>1
    <2> QED
      BY <1>1, <1>3, <2>1, <2>2
  <1>7. Owned(g, d)
    BY <1>3, <1>4, <1>5, <1>6 DEF Owned
  <1> QED
    BY <1>7 DEF g, d

(* The places are apart, and a change of what one of them holds is that one. *)
LEMMA Apart ==
  /\ C!Slot \in C!Places /\ C!Warm \in C!Places /\ C!Rec \in C!Places /\ C!User \in C!Places
  /\ \A c \in 1..MaxSessions : /\ <<"conn", c>> \in C!Places
                               /\ <<"conn", c>> \notin {C!Slot, C!Warm, C!Rec, C!User}
  /\ \A w \in 1..MaxWarms : /\ <<"warmer", w>> \in C!Places
                            /\ <<"warmer", w>> \notin {C!Slot, C!Warm, C!Rec, C!User}
  /\ \A p \in C!Places :
       \/ p \in {C!Slot, C!Warm, C!Rec, C!User}
       \/ p[1] = "conn" /\ p[2] \in 1..MaxSessions /\ p = <<"conn", p[2]>>
       \/ p[1] = "warmer" /\ p[2] \in 1..MaxWarms /\ p = <<"warmer", p[2]>>
  /\ C!Slot[1] = "slot" /\ C!Warm[1] = "warm" /\ C!Rec[1] = "rec" /\ C!User[1] = "user"
  BY DEF C!Places, C!Slot, C!Warm, C!Rec, C!User

LEMMA SpreadAt ==
  ASSUME NEW sl, NEW wa, NEW rc, NEW us, NEW cs, NEW ws
  PROVE  LET h == Spread(sl, wa, rc, us, cs, ws) IN
         /\ h[C!Slot] = sl /\ h[C!Warm] = wa /\ h[C!Rec] = rc /\ h[C!User] = us
         /\ \A c \in 1..MaxSessions : h[<<"conn", c>>] = cs[c].stream
         /\ \A w \in 1..MaxWarms : h[<<"warmer", w>>] = ws[w].stream
  <1>1. /\ C!Slot # C!Warm /\ C!Slot # C!Rec /\ C!Slot # C!User
        /\ C!Warm # C!Rec /\ C!Warm # C!User /\ C!Rec # C!User
        /\ C!Slot[1] # "conn" /\ C!Warm[1] # "conn" /\ C!Rec[1] # "conn" /\ C!User[1] # "conn"
    BY DEF C!Slot, C!Warm, C!Rec, C!User
  <1>2. /\ C!Slot \in C!Places /\ C!Warm \in C!Places /\ C!Rec \in C!Places /\ C!User \in C!Places
    BY Apart
  <1>3. \A c \in 1..MaxSessions :
          /\ <<"conn", c>> \in C!Places /\ <<"conn", c>>[1] = "conn" /\ <<"conn", c>>[2] = c
          /\ <<"conn", c>> \notin {C!Slot, C!Warm, C!Rec, C!User}
    BY Apart
  <1>4. \A w \in 1..MaxWarms :
          /\ <<"warmer", w>> \in C!Places /\ <<"warmer", w>>[1] # "conn" /\ <<"warmer", w>>[2] = w
          /\ <<"warmer", w>> \notin {C!Slot, C!Warm, C!Rec, C!User}
    BY Apart
  <1> DEFINE h == Spread(sl, wa, rc, us, cs, ws)
  <1>5. \A p \in C!Places :
          h[p] = CASE p = C!Slot -> sl [] p = C!Warm -> wa [] p = C!Rec -> rc [] p = C!User -> us
                   [] p[1] = "conn" -> cs[p[2]].stream [] OTHER -> ws[p[2]].stream
    BY DEF Spread
  <1> HIDE DEF C!Slot, C!Warm, C!Rec, C!User, C!Places, h
  <1>6. h[C!Slot] = sl /\ h[C!Warm] = wa /\ h[C!Rec] = rc /\ h[C!User] = us
    <2>1. h[C!Slot] = sl
      BY <1>1, <1>2, <1>5
    <2>2. h[C!Warm] = wa
      BY <1>1, <1>2, <1>5
    <2>3. h[C!Rec] = rc
      BY <1>1, <1>2, <1>5
    <2>4. h[C!User] = us
      BY <1>1, <1>2, <1>5
    <2> QED
      BY <2>1, <2>2, <2>3, <2>4
  <1>7. \A c \in 1..MaxSessions : h[<<"conn", c>>] = cs[c].stream
    BY <1>3, <1>5
  <1>8. \A w \in 1..MaxWarms : h[<<"warmer", w>>] = ws[w].stream
    BY <1>4, <1>5
  <1> QED
    BY <1>6, <1>7, <1>8 DEF h

LEMMA SpreadEqual ==
  ASSUME NEW h \in [C!Places -> Nat], NEW sl, NEW wa, NEW rc, NEW us, NEW cs, NEW ws,
         h[C!Slot] = sl, h[C!Warm] = wa, h[C!Rec] = rc, h[C!User] = us,
         \A c \in 1..MaxSessions : h[<<"conn", c>>] = cs[c].stream,
         \A w \in 1..MaxWarms : h[<<"warmer", w>>] = ws[w].stream
  PROVE  Spread(sl, wa, rc, us, cs, ws) = h
  <1> DEFINE g == Spread(sl, wa, rc, us, cs, ws)
  <1>1. /\ g[C!Slot] = sl /\ g[C!Warm] = wa /\ g[C!Rec] = rc /\ g[C!User] = us
        /\ \A c \in 1..MaxSessions : g[<<"conn", c>>] = cs[c].stream
        /\ \A w \in 1..MaxWarms : g[<<"warmer", w>>] = ws[w].stream
    BY SpreadAt
  <1>2. g = [p \in C!Places |-> g[p]]
    BY DEF Spread
  <1> HIDE DEF g
  <1>3. \A p \in C!Places : g[p] = h[p]
    <2> SUFFICES ASSUME NEW p \in C!Places PROVE g[p] = h[p]
      OBVIOUS
    <2>1. CASE p \in {C!Slot, C!Warm, C!Rec, C!User}
      BY <1>1, <2>1
    <2>2. CASE p[1] = "conn" /\ p[2] \in 1..MaxSessions /\ p = <<"conn", p[2]>>
      BY <1>1, <2>2
    <2>3. CASE p[1] = "warmer" /\ p[2] \in 1..MaxWarms /\ p = <<"warmer", p[2]>>
      BY <1>1, <2>3
    <2> QED
      BY <2>1, <2>2, <2>3, Apart
  <1>4. g = h
    BY <1>2, <1>3
  <1> QED
    BY <1>4 DEF g

LEMMA HeldIs ==
  ASSUME ChannelTypes
  PROVE  /\ Held = Spread(slot, warm, rec.stream, user.stream, conns, warmers)
         /\ Held' = Spread(slot', warm', rec'.stream, user'.stream, conns', warmers')
         /\ Held[C!Slot] = slot /\ Held[C!Warm] = warm /\ Held[C!Rec] = rec.stream
         /\ Held[C!User] = user.stream
         /\ \A c \in 1..MaxSessions : Held[<<"conn", c>>] = conns[c].stream
         /\ \A w \in 1..MaxWarms : Held[<<"warmer", w>>] = warmers[w].stream
  <1>1. Held = Spread(slot, warm, rec.stream, user.stream, conns, warmers)
    BY Zenon DEF Held, Spread, C!At
  <1>2. Held' = Spread(slot', warm', rec'.stream, user'.stream, conns', warmers')
    BY Zenon DEF Held, Spread, C!At
  <1> QED
    BY <1>1, <1>2, SpreadAt

Becomes(h) ==
  /\ h[C!Slot] = slot' /\ h[C!Warm] = warm' /\ h[C!Rec] = rec'.stream /\ h[C!User] = user'.stream
  /\ \A c \in 1..MaxSessions : h[<<"conn", c>>] = conns'[c].stream
  /\ \A w \in 1..MaxWarms : h[<<"warmer", w>>] = warmers'[w].stream

LEMMA HeldBecomes ==
  ASSUME ChannelTypes, NEW h \in [C!Places -> Nat], Becomes(h)
  PROVE  Held' = h
  <1>1. Held' = Spread(slot', warm', rec'.stream, user'.stream, conns', warmers')
    BY HeldIs
  <1>2. Spread(slot', warm', rec'.stream, user'.stream, conns', warmers') = h
    BY SpreadEqual DEF Becomes
  <1> QED
    BY <1>1, <1>2

LEMMA Distinct ==
  /\ C!Slot # C!Warm /\ C!Slot # C!Rec /\ C!Slot # C!User
  /\ C!Warm # C!Rec /\ C!Warm # C!User /\ C!Rec # C!User
  /\ \A c, d : <<"conn", c>> = <<"conn", d>> => c = d
  /\ \A w, v : <<"warmer", w>> = <<"warmer", v>> => w = v
  /\ \A c, w : /\ <<"conn", c>> # <<"warmer", w>>
               /\ <<"conn", c>> \notin {C!Slot, C!Warm, C!Rec, C!User}
               /\ <<"warmer", w>> \notin {C!Slot, C!Warm, C!Rec, C!User}
  BY DEF C!Slot, C!Warm, C!Rec, C!User

(* The steps of a stream: it stays, it ends, it goes from one place to       *)
(* another, it is opened.                                                    *)
LEMMA StreamsStay ==
  ASSUME ChannelTypes, Owned(Held, ends),
         UNCHANGED <<ends, slot, warm>>, rec'.stream = rec.stream, user'.stream = user.stream,
         \A c \in 1..MaxSessions : conns'[c].stream = conns[c].stream,
         \A w \in 1..MaxWarms : warmers'[w].stream = warmers[w].stream
  PROVE  Owned(Held', ends')
  <1>1. Held \in [C!Places -> Nat]
    BY DEF Owned
  <1>2. Held' = Held
    BY <1>1, HeldIs, HeldBecomes DEF Becomes
  <1> QED
    BY <1>2

LEMMA HeldFacts ==
  ASSUME ChannelTypes, Owned(Held, ends)
  PROVE  /\ Held \in [C!Places -> Nat] /\ Len(ends) \in Nat /\ ends \in Seq({0, 1})
         /\ Held[C!Slot] = slot /\ Held[C!Warm] = warm /\ Held[C!Rec] = rec.stream
         /\ Held[C!User] = user.stream
         /\ \A c \in 1..MaxSessions : /\ Held[<<"conn", c>>] = conns[c].stream
                                      /\ <<"conn", c>> \in C!Places
         /\ \A w \in 1..MaxWarms : /\ Held[<<"warmer", w>>] = warmers[w].stream
                                   /\ <<"warmer", w>> \in C!Places
         /\ C!Slot \in C!Places /\ C!Warm \in C!Places /\ C!Rec \in C!Places /\ C!User \in C!Places
         /\ \A s : C!Ended(s) = Closed(ends, s)
  <1>1. Held \in [C!Places -> Nat] /\ Len(ends) \in Nat /\ ends \in Seq({0, 1})
    BY LenProperties DEF Owned
  <1>2. \A s : C!Ended(s) = Closed(ends, s)
    BY DEF C!Ended, Closed
  <1> QED
    BY <1>1, <1>2, HeldIs, Apart

LEMMA StreamEnds ==
  ASSUME ChannelTypes, Owned(Held, ends), NEW p \in C!Places, ends' = Closed(ends, Held[p]),
         \A g : (\A r \in C!Places : g[r] = IF r = p THEN 0 ELSE Held[r]) => Becomes(g)
  PROVE  Owned(Held', ends')
  <1> DEFINE h == [Held EXCEPT ![p] = 0]
  <1>1. h \in [C!Places -> Nat] /\ \A r \in C!Places : h[r] = IF r = p THEN 0 ELSE Held[r]
    BY HeldFacts
  <1>2. Owned(h, Closed(ends, Held[p]))
    BY Drops
  <1> HIDE DEF h
  <1>3. Held' = h
    BY <1>1, HeldBecomes
  <1> QED
    BY <1>2, <1>3

LEMMA StreamMoves ==
  ASSUME ChannelTypes, Owned(Held, ends), ends' = ends,
         NEW p \in C!Places, NEW q \in C!Places, p # q, Held[q] = 0,
         \A g : (\A r \in C!Places : g[r] = IF r = p THEN 0 ELSE IF r = q THEN Held[p] ELSE Held[r])
                => Becomes(g)
  PROVE  Owned(Held', ends')
  <1> DEFINE h == [Held EXCEPT ![q] = Held[p], ![p] = 0]
  <1>1. h \in [C!Places -> Nat]
        /\ \A r \in C!Places : h[r] = IF r = p THEN 0 ELSE IF r = q THEN Held[p] ELSE Held[r]
    BY HeldFacts
  <1>2. Owned(h, ends)
    BY Moves
  <1> HIDE DEF h
  <1>3. Held' = h
    BY <1>1, HeldBecomes
  <1> QED
    BY <1>2, <1>3

LEMMA StreamOpens ==
  ASSUME ChannelTypes, Owned(Held, ends), ends' = Append(ends, 0), NEW q \in C!Places, Held[q] = 0,
         \A g : (\A r \in C!Places : g[r] = IF r = q THEN Len(ends) + 1 ELSE Held[r]) => Becomes(g)
  PROVE  Owned(Held', ends')
  <1> DEFINE h == [Held EXCEPT ![q] = Len(ends) + 1]
  <1>1. h \in [C!Places -> Nat] /\ \A r \in C!Places : h[r] = IF r = q THEN Len(ends) + 1 ELSE Held[r]
    BY HeldFacts
  <1>2. Owned(h, Append(ends, 0))
    BY Opens
  <1> HIDE DEF h
  <1>3. Held' = h
    BY <1>1, HeldBecomes
  <1> QED
    BY <1>2, <1>3

LEMMA UserStreams ==
  ASSUME ChannelTypes, Protocol, Owned(Held, ends), C!CallStart \/ C!CallStop \/ C!UserStep
  PROVE  Owned(Held', ends')
  <1> USE DEF ChannelTypes, Users, Recs, Conns, Warmers, UserPcs, RecPcs, C!streamVars,
  C!speakVars, C!Go
  <1>1. CASE C!CallStart \/ C!Recheck
    <2>1. slot = 0
      BY <1>1 DEF C!CallStart, C!Recheck, Protocol, UserKnows, Empty
    <2>2. /\ slot' \in {0, slot} /\ UNCHANGED <<ends, warm, rec, conns, warmers>>
          /\ user'.stream = user.stream
      BY <1>1 DEF C!CallStart, C!Recheck, C!OpenCapture
    <2> HIDE DEF ChannelTypes
    <2> QED
      BY <2>1, <2>2, StreamsStay
  <1>2. CASE C!CallStop \/ C!WaitSpeak \/ C!Acquire \/ C!FailedJoin \/ C!Release \/ C!CloseCapture
    <2>1. UNCHANGED <<ends, slot, warm, conns, warmers>> /\ user'.stream = user.stream
      BY <1>2 DEF C!CallStop, C!WaitSpeak, C!Acquire, C!FailedJoin, C!Release, C!CloseCapture
    <2>2. rec'.stream = rec.stream
      <3>1. CASE C!Acquire
        <4>1. rec.stream = 0
          BY <3>1 DEF C!Acquire, Protocol, UserKnows, Empty, RecGone
        <4>2. rec' = [pc |-> "begin", stream |-> 0, abnormal |-> FALSE]
          BY <3>1 DEF C!Acquire
        <4> QED
          BY <4>1, <4>2
      <3>2. CASE C!CallStop \/ C!WaitSpeak \/ C!FailedJoin \/ C!Release \/ C!CloseCapture
        BY <3>2 DEF C!CallStop, C!WaitSpeak, C!FailedJoin, C!Release, C!CloseCapture
      <3> QED
        BY <1>2, <3>1, <3>2
    <2> HIDE DEF ChannelTypes
    <2> QED
      BY <2>1, <2>2, StreamsStay
  <1>3. CASE C!StartCapture
    <2>1. sessions \in 1..MaxSessions /\ conns[sessions].pc = "off" /\ conns[sessions].stream = 0
      BY <1>3 DEF C!StartCapture, Protocol, UserKnows, ConnsOfOld, Empty
    <2>2. /\ UNCHANGED <<ends, slot, warm, rec, warmers>> /\ user'.stream = user.stream
          /\ \A c \in 1..MaxSessions : conns'[c].stream = conns[c].stream
      BY <1>3, <2>1 DEF C!StartCapture
    <2> HIDE DEF ChannelTypes
    <2> QED
      BY <2>2, StreamsStay
  <1>4. CASE C!CaptureFails
    <2>1. /\ UNCHANGED <<warm, rec, conns, warmers>> /\ user'.stream = user.stream
          /\ slot' = 0 /\ ends' = C!Ended(slot)
      BY <1>4 DEF C!CaptureFails
    <2> HIDE DEF ChannelTypes
    <2>2. \A g : (\A r \in C!Places : g[r] = IF r = C!Slot THEN 0 ELSE Held[r]) => Becomes(g)
      BY <2>1, HeldFacts, Distinct DEF Becomes
    <2> QED
      BY <2>1, <2>2, HeldFacts, StreamEnds
  <1>5. CASE C!Join
    <2>1. /\ UNCHANGED <<warm, rec, conns, warmers, ends>> /\ user'.stream = slot
          /\ slot' = 0 /\ user.stream = 0
      BY <1>5 DEF C!Join, Protocol, Empty
    <2> HIDE DEF ChannelTypes
    <2>2. \A g : (\A r \in C!Places : g[r] = IF r = C!Slot THEN 0
                                             ELSE IF r = C!User THEN Held[C!Slot] ELSE Held[r])
                 => Becomes(g)
      BY <2>1, HeldFacts, Distinct DEF Becomes
    <2> QED
      BY <2>1, <2>2, HeldFacts, Distinct, StreamMoves
  <1>6. CASE C!Finish
    <2>1. /\ UNCHANGED <<warm, rec, conns, warmers, slot>> /\ user'.stream = 0
          /\ ends' = C!Ended(user.stream)
      BY <1>6 DEF C!Finish
    <2> HIDE DEF ChannelTypes
    <2>2. \A g : (\A r \in C!Places : g[r] = IF r = C!User THEN 0 ELSE Held[r]) => Becomes(g)
      BY <2>1, HeldFacts, Distinct DEF Becomes
    <2> QED
      BY <2>1, <2>2, HeldFacts, StreamEnds
  <1> QED
    BY <1>1, <1>2, <1>3, <1>4, <1>5, <1>6 DEF C!UserStep

LEMMA ConnectStreams ==
  ASSUME ChannelTypes, Protocol, Owned(Held, ends), C!ConnectStep
  PROVE  Owned(Held', ends')
  <1>1. ASSUME NEW s \in 1..MaxSessions, C!Connect(s) PROVE Owned(Held', ends')
    <2>1. /\ conns[s].stream = 0 /\ UNCHANGED <<slot, rec, user, warmers>>
          /\ conns \in [1..MaxSessions -> [pc : {"off", "connect", "store"}, stream : Nat]]
      BY <1>1 DEF C!Connect, Protocol, Empty, ChannelTypes, Conns
    <2>2. CASE conns' = [conns EXCEPT ![s] = [pc |-> "store", stream |-> warm]] /\ warm' = 0 /\ ends' = ends
      <3>1. conns'[s].stream = warm /\ \A c \in 1..MaxSessions : c # s => conns'[c] = conns[c]
        BY <2>1, <2>2
      <3> DEFINE k == <<"conn", s>>
      <3>2. ASSUME NEW g, \A r \in C!Places : g[r] = IF r = C!Warm THEN 0
                                                    ELSE IF r = k THEN Held[C!Warm] ELSE Held[r]
            PROVE  Becomes(g)
        <4>1. g[C!Slot] = slot' /\ g[C!Warm] = warm' /\ g[C!Rec] = rec'.stream /\ g[C!User] = user'.stream
          BY <2>1, <2>2, <3>2, HeldFacts, Distinct
        <4>2. \A w \in 1..MaxWarms : g[<<"warmer", w>>] = warmers'[w].stream
          BY <2>1, <3>2, HeldFacts, Distinct
        <4>3. \A c \in 1..MaxSessions : g[<<"conn", c>>] = conns'[c].stream
          <5>1. \A c \in 1..MaxSessions : c # s => g[<<"conn", c>>] = Held[<<"conn", c>>]
            BY <3>2, HeldFacts, Distinct
          <5>2. g[<<"conn", s>>] = warm
            BY <3>2, HeldFacts, Distinct
          <5> QED
            BY <3>1, <5>1, <5>2, HeldFacts
        <4> QED
          BY <4>1, <4>2, <4>3 DEF Becomes
      <3>3. k \in C!Places /\ C!Warm \in C!Places /\ C!Warm # k /\ Held[k] = 0
        BY <2>1, HeldFacts, Distinct
      <3> HIDE DEF k
      <3> QED
        BY <2>2, <3>2, <3>3, StreamMoves
    <2>3. CASE /\ conns' = [conns EXCEPT ![s] = [pc |-> "store", stream |-> Len(ends) + 1]]
               /\ warm' = warm /\ ends' = Append(ends, 0)
      <3>1. conns'[s].stream = Len(ends) + 1 /\ \A c \in 1..MaxSessions : c # s => conns'[c] = conns[c]
        BY <2>1, <2>3
      <3>2. \A g : (\A r \in C!Places : g[r] = IF r = <<"conn", s>> THEN Len(ends) + 1 ELSE Held[r])
                   => Becomes(g)
        BY <2>1, <2>3, <3>1, HeldFacts, Distinct DEF Becomes
      <3> QED
        BY <2>1, <2>3, <3>2, HeldFacts, StreamOpens
    <2>4. CASE conns' = [conns EXCEPT ![s].pc = "off"] /\ warm' = warm /\ ends' = ends
      <3>1. \A c \in 1..MaxSessions : conns'[c].stream = conns[c].stream
        BY <2>1, <2>4
      <3> QED
        BY <2>1, <2>4, <3>1, StreamsStay
    <2> QED
      BY <1>1, <2>2, <2>3, <2>4 DEF C!Connect, C!NewStream, C!Open
  <1>2. ASSUME NEW s \in 1..MaxSessions, C!Store(s) PROVE Owned(Held', ends')
    <2>1. /\ UNCHANGED <<rec, user, warm, warmers>>
          /\ conns'[s].stream = 0 /\ \A c \in 1..MaxSessions : c # s => conns'[c] = conns[c]
      BY <1>2 DEF C!Store, ChannelTypes, Conns
    <2>2. CASE slot = 0 /\ slot' = conns[s].stream /\ ends' = ends
      <3> DEFINE k == <<"conn", s>>
      <3>1. ASSUME NEW g, \A r \in C!Places : g[r] = IF r = k THEN 0
                                                    ELSE IF r = C!Slot THEN Held[k] ELSE Held[r]
            PROVE  Becomes(g)
          <4>1. /\ g[C!Slot] = slot' /\ g[C!Warm] = warm' /\ g[C!Rec] = rec'.stream
                /\ g[C!User] = user'.stream
            BY <2>1, <2>2, <3>1, HeldFacts, Distinct
          <4>2. ASSUME NEW c \in 1..MaxSessions PROVE g[<<"conn", c>>] = conns'[c].stream
            <5>1. CASE c = s
              BY <2>1, <3>1, <5>1, HeldFacts, Distinct
            <5>2. CASE c # s
              BY <2>1, <3>1, <5>2, HeldFacts, Distinct
            <5> QED
              BY <5>1, <5>2
          <4>3. \A w \in 1..MaxWarms : g[<<"warmer", w>>] = warmers'[w].stream
            BY <2>1, <3>1, HeldFacts, Distinct
          <4> QED
            BY <4>1, <4>2, <4>3 DEF Becomes
      <3>2. k \in C!Places /\ C!Slot \in C!Places /\ C!Slot # k /\ Held[C!Slot] = 0
        BY <2>2, HeldFacts, Distinct
      <3> HIDE DEF k
      <3> QED
        BY <2>2, <3>1, <3>2, StreamMoves
    <2>3. CASE slot' = slot /\ ends' = C!Ended(conns[s].stream)
      <3> DEFINE k == <<"conn", s>>
      <3>1. ASSUME NEW g, \A r \in C!Places : g[r] = IF r = k THEN 0 ELSE Held[r]
            PROVE  Becomes(g)
        BY <2>1, <2>3, <3>1, HeldFacts, Distinct DEF Becomes
      <3>2. k \in C!Places /\ ends' = Closed(ends, Held[k])
        BY <2>3, HeldFacts
      <3> HIDE DEF k
      <3> QED
        BY <3>1, <3>2, StreamEnds
    <2> QED
      BY <1>2, <2>2, <2>3 DEF C!Store
  <1>3. ASSUME NEW w \in 1..MaxWarms, C!OpenWarm(w) PROVE Owned(Held', ends')
    <2>1. /\ warmers[w].stream = 0 /\ UNCHANGED <<slot, warm, rec, user, conns>>
          /\ warmers \in [1..MaxWarms -> [pc : {"off", "open", "store", "gone"}, stream : Nat]]
      BY <1>3 DEF C!OpenWarm, Protocol, Empty, ChannelTypes, Warmers
    <2>2. CASE /\ warmers' = [warmers EXCEPT ![w] = [pc |-> "store", stream |-> Len(ends) + 1]]
               /\ ends' = Append(ends, 0)
      <3>1. warmers'[w].stream = Len(ends) + 1 /\ \A v \in 1..MaxWarms : v # w => warmers'[v] = warmers[v]
        BY <2>1, <2>2
      <3>2. \A g : (\A r \in C!Places : g[r] = IF r = <<"warmer", w>> THEN Len(ends) + 1 ELSE Held[r])
                   => Becomes(g)
        BY <2>1, <2>2, <3>1, HeldFacts, Distinct DEF Becomes
      <3> QED
        BY <2>1, <2>2, <3>2, HeldFacts, StreamOpens
    <2>3. CASE warmers' = [warmers EXCEPT ![w].pc = "gone"] /\ ends' = ends
      <3>1. \A v \in 1..MaxWarms : warmers'[v].stream = warmers[v].stream
        BY <2>1, <2>3
      <3> QED
        BY <2>1, <2>3, <3>1, StreamsStay
    <2> QED
      BY <1>3, <2>2, <2>3 DEF C!OpenWarm, C!NewStream, C!Open
  <1>4. ASSUME NEW w \in 1..MaxWarms, C!StoreWarm(w) PROVE Owned(Held', ends')
    <2> DEFINE g == [Held EXCEPT ![C!Warm] = 0]
               h == [g EXCEPT ![C!Warm] = g[<<"warmer", w>>], ![<<"warmer", w>>] = 0]
    <2>1. /\ UNCHANGED <<slot, rec, user, conns>> /\ warm' = warmers[w].stream /\ ends' = C!Ended(warm)
          /\ warmers'[w].stream = 0 /\ \A v \in 1..MaxWarms : v # w => warmers'[v] = warmers[v]
      BY <1>4 DEF C!StoreWarm, ChannelTypes, Warmers
    <2>2. Owned(g, Closed(ends, warm))
      BY HeldFacts, Drops
    <2>3. /\ g \in [C!Places -> Nat] /\ g[C!Warm] = 0 /\ g[<<"warmer", w>>] = warmers[w].stream
          /\ \A p \in C!Places : p # C!Warm => g[p] = Held[p]
      BY HeldFacts, Distinct
    <2> HIDE DEF g
    <2>4. Owned(h, Closed(ends, warm))
      BY <2>2, <2>3, HeldFacts, Distinct, Moves
    <2>5. /\ h \in [C!Places -> Nat]
          /\ \A r \in C!Places : h[r] = IF r = <<"warmer", w>> THEN 0
                                        ELSE IF r = C!Warm THEN g[<<"warmer", w>>] ELSE g[r]
      BY <2>3, HeldFacts
    <2> HIDE DEF h
    <2>6. Becomes(h)
      <3>1. h[C!Slot] = slot' /\ h[C!Warm] = warm' /\ h[C!Rec] = rec'.stream /\ h[C!User] = user'.stream
        BY <2>1, <2>3, <2>5, HeldFacts, Distinct
      <3>2. \A c \in 1..MaxSessions : h[<<"conn", c>>] = conns'[c].stream
        BY <2>1, <2>3, <2>5, HeldFacts, Distinct
      <3>3. \A v \in 1..MaxWarms : h[<<"warmer", v>>] = warmers'[v].stream
        <4>1. \A v \in 1..MaxWarms : v # w => h[<<"warmer", v>>] = Held[<<"warmer", v>>]
          BY <2>3, <2>5, HeldFacts, Distinct
        <4>2. h[<<"warmer", w>>] = 0
          BY <2>5, HeldFacts
        <4> QED
          BY <2>1, <4>1, <4>2, HeldFacts
      <3> QED
        BY <3>1, <3>2, <3>3 DEF Becomes
    <2> QED
      BY <2>1, <2>4, <2>5, <2>6, HeldFacts, HeldBecomes
  <1> QED
    BY <1>1, <1>2, <1>3, <1>4 DEF C!ConnectStep

LEMMA RecStreams ==
  ASSUME ChannelTypes, Protocol, Owned(Held, ends), C!RecStep
  PROVE  Owned(Held', ends')
  <1>0. /\ rec \in [pc : {"off", "begin", "look", "read", "send", "leave", "gone"},
                    stream : Nat, abnormal : BOOLEAN]
        /\ slot \in Nat
    BY DEF ChannelTypes, Recs, RecPcs
  <1>1. CASE C!Begin \/ C!Read
    <2>1. UNCHANGED <<ends, slot, warm, user, conns, warmers>> /\ rec'.stream = rec.stream
      BY <1>0, <1>1 DEF C!Begin, C!Read, C!streamVars
    <2> QED
      BY <2>1, StreamsStay
  <1>2. CASE C!Look
    <2>1. UNCHANGED <<ends, warm, user, conns, warmers>>
          /\ rec'.stream = (IF rec.stream = 0 THEN slot ELSE rec.stream)
          /\ slot' = (IF rec.stream = 0 THEN 0 ELSE slot)
      BY <1>0, <1>2 DEF C!Look, C!streamVars
    <2>2. CASE rec.stream = 0
      <3>1. \A g : (\A r \in C!Places : g[r] = IF r = C!Slot THEN 0
                                               ELSE IF r = C!Rec THEN Held[C!Slot] ELSE Held[r])
                   => Becomes(g)
        BY <2>1, <2>2, HeldFacts, Distinct DEF Becomes
      <3> QED
        BY <2>1, <2>2, <3>1, HeldFacts, Distinct, StreamMoves
    <2>3. CASE rec.stream # 0
      BY <2>1, <2>3, StreamsStay
    <2> QED
      BY <2>2, <2>3
  <1>3. CASE C!Send
    <2>1. /\ UNCHANGED <<slot, warm, user, conns, warmers>>
          /\ \/ rec'.stream = rec.stream /\ ends' = ends
             \/ rec'.stream = 0 /\ ends' = C!Ended(rec.stream)
      BY <1>0, <1>3 DEF C!Send
    <2>2. CASE rec'.stream = rec.stream /\ ends' = ends
      BY <2>1, <2>2, StreamsStay
    <2>3. CASE rec'.stream = 0 /\ ends' = C!Ended(rec.stream)
      <3>1. \A g : (\A r \in C!Places : g[r] = IF r = C!Rec THEN 0 ELSE Held[r]) => Becomes(g)
        BY <2>1, <2>3, HeldFacts, Distinct DEF Becomes
      <3> QED
        BY <2>3, <3>1, HeldFacts, StreamEnds
    <2> QED
      BY <2>1, <2>2, <2>3
  <1>4. CASE C!Leave
    <2> DEFINE keep == IF rec.stream # 0 THEN rec.stream ELSE slot
               surplus == IF rec.stream # 0 THEN slot ELSE 0
               cleanup == rec.abnormal /\ state = "recording"
               ending == ({surplus} \cup IF cleanup THEN {keep} ELSE {}) \ {0}
    <2>1. /\ UNCHANGED <<warm, user, conns, warmers>> /\ rec'.stream = 0
          /\ slot' = (IF cleanup THEN 0 ELSE keep)
          /\ ends' = [s \in 1..Len(ends) |-> ends[s] + IF s \in ending THEN 1 ELSE 0]
      <3>1. DOMAIN ends = 1..Len(ends)
        BY HeldFacts
      <3> QED
        BY <1>0, <1>4, <3>1 DEF C!Leave, C!Opened
    <2>2. \A s \in Nat : Closed(ends, s) = [n \in 1..Len(ends) |-> ends[n] + IF n = s THEN 1 ELSE 0]
      <3> SUFFICES ASSUME NEW s \in Nat
                   PROVE  Closed(ends, s) = [n \in 1..Len(ends) |-> ends[n] + IF n = s THEN 1 ELSE 0]
        OBVIOUS
      <3>1. ends = [n \in 1..Len(ends) |-> ends[n]] /\ \A n \in 1..Len(ends) : ends[n] \in {0, 1}
        BY HeldFacts
      <3>2. CASE s = 0
        <4>1. \A n \in 1..Len(ends) : ends[n] = ends[n] + IF n = s THEN 1 ELSE 0
          BY <3>1, <3>2
        <4> QED
          BY <3>1, <3>2, <4>1 DEF Closed
      <3>3. CASE s # 0
        <4>1. \A n \in 1..Len(ends) : (IF n = s THEN ends[n] + 1 ELSE ends[n])
                                      = ends[n] + IF n = s THEN 1 ELSE 0
          BY <3>1
        <4> QED
          BY <3>1, <3>3, <4>1 DEF Closed
      <3> QED
        BY <3>2, <3>3
    <2>3. CASE ~cleanup /\ rec.stream = 0
      <3>1. slot' = slot /\ rec'.stream = rec.stream
        BY <2>1, <2>3
      <3>2. ends' = Closed(ends, 0)
        <4>1. \A n \in 1..Len(ends) : n \in ending <=> n = 0
          BY <2>3, HeldFacts
        <4> HIDE DEF ending
        <4>2. \A n \in 1..Len(ends) : ends[n] + (IF n \in ending THEN 1 ELSE 0)
                                      = ends[n] + (IF n = 0 THEN 1 ELSE 0)
          BY <4>1
        <4> QED
          BY <2>1, <2>2, <4>2
      <3> QED
        BY <2>1, <3>1, <3>2, StreamsStay DEF Closed
    <2>4. CASE cleanup /\ rec.stream = 0
      <3>1. ends' = Closed(ends, slot)
        <4>1. \A n \in 1..Len(ends) : n \in ending <=> n = slot
          BY <2>4
        <4> QED
          BY <1>0, <2>1, <2>2, <4>1
      <3>2. \A g : (\A r \in C!Places : g[r] = IF r = C!Slot THEN 0 ELSE Held[r]) => Becomes(g)
        BY <2>1, <2>4, HeldFacts, Distinct DEF Becomes
      <3> QED
        BY <3>1, <3>2, HeldFacts, StreamEnds
    <2>5. CASE rec.stream # 0
      <3> DEFINE g == [Held EXCEPT ![C!Slot] = 0]
                 e == Closed(ends, slot)
      <3>1. Owned(g, e)
        BY HeldFacts, Drops
      <3>2. g \in [C!Places -> Nat] /\ \A r \in C!Places : g[r] = IF r = C!Slot THEN 0 ELSE Held[r]
        BY HeldFacts
      <3>3. slot # rec.stream /\ rec.stream \in 1..Len(ends)
        <4>1. /\ \A p, q \in C!Places : p # q /\ Held[p] = Held[q] => Held[p] = 0
              /\ Held \in [C!Places -> 0..Len(ends)]
          BY DEF Owned
        <4> QED
          BY <2>5, <4>1, HeldFacts, Distinct
      <3>4. /\ Len(e) = Len(ends) /\ e \in Seq({0, 1})
            /\ \A n \in 1..Len(ends) : e[n] = ends[n] + IF n = slot THEN 1 ELSE 0
        <4>1. e = [n \in 1..Len(ends) |-> ends[n] + IF n = slot THEN 1 ELSE 0]
          BY <1>0, <2>2
        <4>2. e \in Seq({0, 1})
          BY <3>1 DEF Owned
        <4> QED
          BY <4>1, <4>2, HeldFacts
      <3> HIDE DEF g, e
      <3>5. CASE ~cleanup
        <4> DEFINE h == [g EXCEPT ![C!Slot] = g[C!Rec], ![C!Rec] = 0]
        <4>1. Owned(h, e)
          BY <3>1, <3>2, HeldFacts, Distinct, Moves
        <4>2. h \in [C!Places -> Nat]
              /\ \A r \in C!Places : h[r] = IF r = C!Rec THEN 0 ELSE IF r = C!Slot THEN g[C!Rec] ELSE g[r]
          BY <3>2, HeldFacts
        <4> HIDE DEF h
        <4>3. slot' = rec.stream
          BY <2>1, <2>5, <3>5
        <4>4. Becomes(h)
          <5>1. h[C!Slot] = slot' /\ h[C!Warm] = warm' /\ h[C!Rec] = rec'.stream /\ h[C!User] = user'.stream
            BY <2>1, <3>2, <4>2, <4>3, HeldFacts, Distinct
          <5>2. \A c \in 1..MaxSessions : h[<<"conn", c>>] = Held[<<"conn", c>>]
            BY <3>2, <4>2, HeldFacts, Distinct
          <5>3. \A w \in 1..MaxWarms : h[<<"warmer", w>>] = Held[<<"warmer", w>>]
            BY <3>2, <4>2, HeldFacts, Distinct
          <5> QED
            BY <2>1, <5>1, <5>2, <5>3, HeldFacts DEF Becomes
        <4>5. ends' = e
          <5>1. \A n : n \in ending <=> n = slot /\ n # 0
            BY <2>5, <3>5
          <5> HIDE DEF ending
          <5>2. \A n \in 1..Len(ends) : ends'[n] = e[n]
            BY <2>1, <3>4, <5>1
          <5>3. e = [n \in 1..Len(ends) |-> e[n]]
            BY <3>4
          <5> QED
            BY <2>1, <5>2, <5>3
        <4> QED
          BY <4>1, <4>2, <4>4, <4>5, HeldBecomes
      <3>6. CASE cleanup
        <4> DEFINE h == [g EXCEPT ![C!Rec] = 0]
                   d == Closed(e, g[C!Rec])
        <4>1. Owned(h, d)
          BY <3>1, HeldFacts, Drops
        <4>2. h \in [C!Places -> Nat] /\ \A r \in C!Places : h[r] = IF r = C!Rec THEN 0 ELSE g[r]
          BY <3>2, HeldFacts
        <4> HIDE DEF h
        <4>3. Becomes(h)
          <5>1. h[C!Slot] = slot' /\ h[C!Warm] = warm' /\ h[C!Rec] = rec'.stream /\ h[C!User] = user'.stream
            BY <2>1, <3>2, <3>6, <4>2, HeldFacts, Distinct
          <5>2. \A c \in 1..MaxSessions : h[<<"conn", c>>] = Held[<<"conn", c>>]
            BY <3>2, <4>2, HeldFacts, Distinct
          <5>3. \A w \in 1..MaxWarms : h[<<"warmer", w>>] = Held[<<"warmer", w>>]
            BY <3>2, <4>2, HeldFacts, Distinct
          <5> QED
            BY <2>1, <5>1, <5>2, <5>3, HeldFacts DEF Becomes
        <4>4. ends' = d
          <5>0. g[C!Rec] = rec.stream
            BY <3>2, HeldFacts, Distinct
          <5>1. \A n : n \in ending <=> (n = slot \/ n = rec.stream) /\ n # 0
            BY <2>5, <3>6
          <5> HIDE DEF ending
          <5>2. \A n \in 1..Len(ends) : ends'[n] = IF n = rec.stream THEN e[n] + 1 ELSE e[n]
            <6>1. \A n \in 1..Len(ends) : ends[n] \in {0, 1}
              BY HeldFacts
            <6> QED
              BY <2>1, <3>3, <3>4, <5>1, <6>1
          <5>3. d = [n \in 1..Len(ends) |-> IF n = rec.stream THEN e[n] + 1 ELSE e[n]]
            <6>1. e = [n \in 1..Len(ends) |-> e[n]]
              BY <3>4
            <6> QED
              BY <2>5, <5>0, <6>1 DEF Closed
          <5> QED
            BY <2>1, <5>2, <5>3
        <4> QED
          BY <4>1, <4>2, <4>3, <4>4, HeldBecomes
      <3> QED
        BY <3>5, <3>6
    <2> QED
      BY <2>3, <2>4, <2>5
  <1> QED
    BY <1>1, <1>2, <1>3, <1>4 DEF C!RecStep

(* The rest of Next leaves the streams where they are. *)
LEMMA StreamsKept ==
  ASSUME ChannelTypes, Protocol, Owned(Held, ends), C!Next
  PROVE  Owned(Held', ends')
  <1>1. ASSUME NEW w \in 1..MaxWarms, C!Preconnect(w) PROVE Owned(Held', ends')
    <2>1. /\ UNCHANGED <<ends, slot, warm, rec, user, conns>>
          /\ \A v \in 1..MaxWarms : warmers'[v].stream = warmers[v].stream
      BY <1>1 DEF C!Preconnect, ChannelTypes, Warmers
    <2> QED
      BY <2>1, StreamsStay
  <1>2. ASSUME NEW s \in Speakers, C!CallSpeak(s) \/ C!SpeakStep(s) PROVE Owned(Held', ends')
    <2>1. UNCHANGED <<ends, slot, warm, rec, user, conns, warmers>>
      BY <1>2 DEF C!CallSpeak, C!SpeakStep, C!TakeSpeakLock, C!CheckIdle, C!OpenPlayback,
                  C!SpeakAcquires, C!Played, C!SpeakReleases, C!recordVars, C!streamVars
    <2> QED
      BY <2>1, StreamsStay
  <1> QED
    BY <1>1, <1>2, UserStreams, RecStreams, ConnectStreams DEF C!Next
-----------------------------------------------------------------------------
(* The protocol of the channel. *)

(* What each step does to the threads and to what they share, field by      *)
(* field.                                                                    *)
ToUser(pc, n) == user' \in Users /\ user'.pc = pc /\ user'.stream = n
ToRec(pc, n) == rec' \in Recs /\ rec'.pc = pc /\ rec'.stream = n
othersStay == <<conns, warmers, talk, speakLock>>

LEMMA UserEffects ==
  ASSUME ChannelTypes
  PROVE  /\ C!CallStart \/ C!Recheck =>
              /\ UNCHANGED <<rec, refs, warm, othersStay>>
              /\ \/ C!CallStart /\ ToUser("waitSpeak", user.stream) /\ UNCHANGED <<state, cap, slot, sessions>>
                 \/ /\ ToUser("acquire", user.stream) /\ cap' = "open" /\ slot' = 0 /\ state' = "recording"
                    /\ sessions' = sessions + 1 /\ state = "idle"
                 \/ /\ ToUser("free", user.stream) /\ UNCHANGED <<state, sessions>>
                    /\ cap' \in {cap, "none"} /\ slot' \in {slot, 0}
         /\ C!CallStop => ToUser("release", user.stream)
         /\ C!WaitSpeak => ToUser("recheck", user.stream)
         /\ C!Acquire => ToUser("capture", user.stream) /\ ToRec("begin", 0)
         /\ C!StartCapture => ToUser("free", user.stream)
         /\ C!CaptureFails => ToUser("failed", user.stream)
         /\ C!FailedJoin => ToUser("free", user.stream)
         /\ C!Release => ToUser("join", user.stream) \/ ToUser("close", user.stream)
         /\ C!CloseCapture => ToUser("join", user.stream)
         /\ C!Join => ToUser("finish", slot)
         /\ C!Finish => ToUser("free", 0)
  <1>1. user \in Users /\ slot \in Nat /\ rec \in Recs
    BY DEF ChannelTypes
  <1>2. /\ \A pc \in UserPcs : C!Go(pc) => ToUser(pc, user.stream)
        /\ \A b \in BOOLEAN : user' = [user EXCEPT !.pc = "release", !.withText = b]
                              => ToUser("release", user.stream)
        /\ \A pc \in UserPcs, n \in Nat : user' = [user EXCEPT !.pc = pc, !.stream = n] => ToUser(pc, n)
        /\ rec' = [pc |-> "begin", stream |-> 0, abnormal |-> FALSE] => ToRec("begin", 0)
    <2>1. ASSUME NEW pc \in UserPcs, C!Go(pc) PROVE ToUser(pc, user.stream)
      <3>1. user' = [user EXCEPT !.pc = pc]
        BY <2>1 DEF C!Go
      <3> QED
        BY <1>1, <3>1 DEF Users, UserPcs, ToUser
    <2>2. ASSUME NEW b \in BOOLEAN, user' = [user EXCEPT !.pc = "release", !.withText = b]
          PROVE  ToUser("release", user.stream)
      BY <1>1, <2>2 DEF Users, UserPcs, ToUser
    <2>3. ASSUME NEW pc \in UserPcs, NEW n \in Nat, user' = [user EXCEPT !.pc = pc, !.stream = n]
          PROVE  ToUser(pc, n)
      BY <1>1, <2>3 DEF Users, UserPcs, ToUser
    <2>4. ASSUME rec' = [pc |-> "begin", stream |-> 0, abnormal |-> FALSE] PROVE ToRec("begin", 0)
      BY <1>1, <2>4 DEF Recs, RecPcs, ToRec
    <2> QED
      BY <2>1, <2>2, <2>3, <2>4
  <1>3. /\ "free" \in UserPcs /\ "waitSpeak" \in UserPcs /\ "recheck" \in UserPcs /\ "acquire" \in UserPcs
        /\ "capture" \in UserPcs /\ "failed" \in UserPcs /\ "release" \in UserPcs /\ "close" \in UserPcs
        /\ "join" \in UserPcs /\ "finish" \in UserPcs
    BY DEF UserPcs
  <1> HIDE DEF ToUser, ToRec, UserPcs
  <1>4. C!CallStart =>
          /\ UNCHANGED <<rec, refs, warm, othersStay>>
          /\ \/ C!CallStart /\ ToUser("waitSpeak", user.stream) /\ UNCHANGED <<state, cap, slot, sessions>>
             \/ /\ ToUser("acquire", user.stream) /\ cap' = "open" /\ slot' = 0 /\ state' = "recording"
                /\ sessions' = sessions + 1 /\ state = "idle"
             \/ /\ ToUser("free", user.stream) /\ UNCHANGED <<state, sessions>>
                /\ cap' \in {cap, "none"} /\ slot' \in {slot, 0}
    BY <1>2, <1>3 DEF C!CallStart, C!OpenCapture, C!streamVars, othersStay
  <1>5. C!Recheck =>
          /\ UNCHANGED <<rec, refs, warm, othersStay>>
          /\ \/ /\ ToUser("acquire", user.stream) /\ cap' = "open" /\ slot' = 0 /\ state' = "recording"
                /\ sessions' = sessions + 1 /\ state = "idle"
             \/ /\ ToUser("free", user.stream) /\ UNCHANGED <<state, sessions>>
                /\ cap' \in {cap, "none"} /\ slot' \in {slot, 0}
    BY <1>2, <1>3 DEF C!Recheck, C!OpenCapture, C!streamVars, C!speakVars, othersStay
  <1>6. C!CallStop => ToUser("release", user.stream)
    BY <1>2 DEF C!CallStop
  <1>7. /\ C!WaitSpeak => ToUser("recheck", user.stream)
        /\ C!Acquire => ToUser("capture", user.stream) /\ ToRec("begin", 0)
        /\ C!StartCapture => ToUser("free", user.stream)
        /\ C!CaptureFails => ToUser("failed", user.stream)
        /\ C!FailedJoin => ToUser("free", user.stream)
        /\ C!Release => ToUser("join", user.stream) \/ ToUser("close", user.stream)
        /\ C!CloseCapture => ToUser("join", user.stream)
    BY <1>2, <1>3 DEF C!WaitSpeak, C!Acquire, C!StartCapture, C!CaptureFails, C!FailedJoin,
       C!Release,
                      C!CloseCapture
  <1>8. (C!Join => ToUser("finish", slot)) /\ (C!Finish => ToUser("free", 0))
    BY <1>1, <1>2, <1>3 DEF C!Join, C!Finish
  <1> QED
    BY <1>4, <1>5, <1>6, <1>7, <1>8

LEMMA RecEffects ==
  ASSUME ChannelTypes
  PROVE  /\ C!Begin => ToRec("look", rec.stream)
         /\ C!Look => /\ ToRec("read", IF rec.stream = 0 THEN slot ELSE rec.stream)
                         \/ ToRec("leave", IF rec.stream = 0 THEN slot ELSE rec.stream)
         /\ C!Read => \/ ToRec("look", rec.stream) \/ ToRec("send", rec.stream)
                      \/ ToRec("leave", rec.stream)
         /\ C!Send => \/ ToRec("look", rec.stream) \/ ToRec("leave", rec.stream) \/ ToRec("look", 0)
         /\ C!Leave => ToRec("gone", 0)
  <1>1. slot \in Nat /\ rec \in Recs /\ rec.stream \in Nat
    BY DEF ChannelTypes, Recs
  <1>2. /\ \A pc \in RecPcs : rec' = [rec EXCEPT !.pc = pc] => ToRec(pc, rec.stream)
        /\ \A pc \in RecPcs : rec' = [rec EXCEPT !.pc = pc, !.abnormal = TRUE] => ToRec(pc, rec.stream)
        /\ \A pc \in RecPcs, n \in Nat : rec' = [rec EXCEPT !.pc = pc, !.stream = n] => ToRec(pc, n)
    <2>1. ASSUME NEW pc \in RecPcs, rec' = [rec EXCEPT !.pc = pc] PROVE ToRec(pc, rec.stream)
      BY <1>1, <2>1 DEF Recs, RecPcs, ToRec
    <2>2. ASSUME NEW pc \in RecPcs, rec' = [rec EXCEPT !.pc = pc, !.abnormal = TRUE]
          PROVE  ToRec(pc, rec.stream)
      BY <1>1, <2>2 DEF Recs, RecPcs, ToRec
    <2>3. ASSUME NEW pc \in RecPcs, NEW n \in Nat, rec' = [rec EXCEPT !.pc = pc, !.stream = n]
          PROVE  ToRec(pc, n)
      BY <1>1, <2>3 DEF Recs, RecPcs, ToRec
    <2> QED
      BY <2>1, <2>2, <2>3
  <1>3. /\ "look" \in RecPcs /\ "read" \in RecPcs /\ "send" \in RecPcs /\ "leave" \in RecPcs
        /\ "gone" \in RecPcs
    BY DEF RecPcs
  <1> HIDE DEF ToRec, RecPcs
  <1>4. (IF rec.stream = 0 THEN slot ELSE rec.stream) \in Nat
    BY <1>1
  <1>5. C!Begin => ToRec("look", rec.stream)
    BY <1>2, <1>3 DEF C!Begin
  <1>6. C!Look => \/ ToRec("read", IF rec.stream = 0 THEN slot ELSE rec.stream)
                  \/ ToRec("leave", IF rec.stream = 0 THEN slot ELSE rec.stream)
    BY <1>2, <1>3, <1>4 DEF C!Look
  <1>7. C!Read => \/ ToRec("look", rec.stream) \/ ToRec("send", rec.stream)
                  \/ ToRec("leave", rec.stream)
    BY <1>2, <1>3 DEF C!Read
  <1>8. C!Send => \/ ToRec("look", rec.stream) \/ ToRec("leave", rec.stream) \/ ToRec("look", 0)
    BY <1>2, <1>3 DEF C!Send
  <1>9. C!Leave => ToRec("gone", 0)
    BY <1>2, <1>3 DEF C!Leave
  <1> QED
    BY <1>5, <1>6, <1>7, <1>8, <1>9

(* The connectors do not touch the threads above; each keeps its own stream *)
(* until it has handed it on.                                                *)
LEMMA ConnectEffects ==
  ASSUME ChannelTypes
  PROVE  /\ \A s \in 1..MaxSessions : C!Connect(s) \/ C!Store(s) =>
              /\ conns' \in Conns /\ UNCHANGED <<state, cap, refs, user, rec, sessions, warmers, talk, speakLock>>
              /\ conns'[s].pc \in {"off", "store"} /\ (C!Store(s) => conns'[s].pc = "off")
              /\ conns'[s].pc = "store" => conns[s].pc = "connect"
              /\ conns'[s].pc = "off" => conns'[s].stream \in {0, conns[s].stream}
                                         /\ (conns[s].pc # "store" => conns'[s].stream = conns[s].stream)
                                         /\ (conns[s].pc = "store" => conns'[s].stream = 0)
              /\ \A c \in 1..MaxSessions : c # s => conns'[c] = conns[c]
              /\ slot' \in Nat /\ warm' \in Nat /\ (state = "idle" => slot' = slot)
         /\ \A w \in 1..MaxWarms : C!OpenWarm(w) \/ C!StoreWarm(w) \/ C!Preconnect(w) =>
              /\ warmers' \in Warmers /\ UNCHANGED <<state, cap, slot, refs, user, rec, sessions, conns, talk, speakLock>>
              /\ warmers'[w].pc # "store" => \/ warmers'[w].stream = 0
                                             \/ warmers'[w].stream = warmers[w].stream /\ warmers[w].pc # "store"
              /\ \A c \in 1..MaxWarms : c # w => warmers'[c] = warmers[c]
              /\ warm' \in Nat
  <1>1. conns \in Conns /\ warmers \in Warmers /\ slot \in Nat /\ warm \in Nat /\ Len(ends) + 1 \in Nat
    BY LenProperties DEF ChannelTypes
  <1> USE DEF C!speakVars
  <1>2. ASSUME NEW s \in 1..MaxSessions, C!Connect(s)
        PROVE  /\ UNCHANGED <<state, cap, slot, refs, user, rec, sessions, warmers, talk, speakLock>>
               /\ conns[s].pc = "connect" /\ warm' \in Nat
               /\ \/ \E n \in Nat : conns' = [conns EXCEPT ![s] = [pc |-> "store", stream |-> n]]
                  \/ conns' = [conns EXCEPT ![s].pc = "off"]
    BY <1>1, <1>2 DEF C!Connect, C!NewStream
  <1>3. ASSUME NEW s \in 1..MaxSessions, C!Store(s)
        PROVE  /\ UNCHANGED <<state, cap, refs, user, rec, sessions, warmers, talk, speakLock, warm>>
               /\ conns[s].pc = "store"
               /\ conns' = [conns EXCEPT ![s] = [pc |-> "off", stream |-> 0]]
               /\ slot' \in Nat /\ (state = "idle" => slot' = slot)
    <2>1. conns[s].stream \in Nat
      BY <1>1 DEF Conns
    <2> QED
      BY <1>1, <1>3, <2>1 DEF C!Store
  <1>4. ASSUME NEW w \in 1..MaxWarms, C!OpenWarm(w) \/ C!StoreWarm(w) \/ C!Preconnect(w)
        PROVE  /\ UNCHANGED <<state, cap, slot, refs, user, rec, sessions, conns, talk, speakLock>>
               /\ warm' \in Nat
               /\ \/ \E n \in Nat : warmers' = [warmers EXCEPT ![w] = [pc |-> "store", stream |-> n]]
                  \/ warmers' = [warmers EXCEPT ![w] = [pc |-> "gone", stream |-> 0]]
                  \/ /\ warmers[w].pc # "store"
                     /\ warmers' = [warmers EXCEPT ![w].pc = "gone"] \/ warmers' = [warmers EXCEPT ![w].pc = "open"]
    <2>1. warmers[w].stream \in Nat
      BY <1>1 DEF Warmers
    <2> QED
      BY <1>1, <1>4, <2>1 DEF C!OpenWarm, C!StoreWarm, C!Preconnect, C!NewStream
  <1> DEFINE ConnKeeps(s) ==
        /\ conns' \in Conns
        /\ conns'[s].pc \in {"off", "store"} /\ (C!Store(s) => conns'[s].pc = "off")
        /\ conns'[s].pc = "store" => conns[s].pc = "connect"
        /\ conns'[s].pc = "off" => conns'[s].stream \in {0, conns[s].stream}
                                   /\ (conns[s].pc # "store" => conns'[s].stream = conns[s].stream)
                                   /\ (conns[s].pc = "store" => conns'[s].stream = 0)
        /\ \A c \in 1..MaxSessions : c # s => conns'[c] = conns[c]
  <1>5. ASSUME NEW s \in 1..MaxSessions, C!Connect(s) PROVE ConnKeeps(s)
    <2>1. ASSUME NEW n \in Nat, conns' = [conns EXCEPT ![s] = [pc |-> "store", stream |-> n]]
          PROVE  ConnKeeps(s)
      BY <1>1, <1>2, <1>5, <2>1 DEF C!Store, Conns
    <2>2. CASE conns' = [conns EXCEPT ![s].pc = "off"]
      <3>1. /\ conns' \in Conns /\ conns'[s].pc = "off" /\ conns'[s].stream = conns[s].stream
            /\ \A c \in 1..MaxSessions : c # s => conns'[c] = conns[c]
        BY <1>1, <2>2 DEF Conns
      <3> QED
        BY <1>2, <1>5, <3>1
    <2> QED
      BY <1>2, <1>5, <2>1, <2>2
  <1>6. ASSUME NEW s \in 1..MaxSessions, C!Store(s) PROVE ConnKeeps(s)
    <2>1. /\ conns' \in Conns /\ conns'[s].pc = "off" /\ conns'[s].stream = 0
          /\ \A c \in 1..MaxSessions : c # s => conns'[c] = conns[c]
      <3>1. conns' = [conns EXCEPT ![s] = [pc |-> "off", stream |-> 0]]
        BY <1>3, <1>6
      <3> QED
        BY <1>1, <3>1 DEF Conns
    <2> QED
      BY <1>3, <1>6, <2>1
  <1> DEFINE WarmKeeps(w) ==
        /\ warmers' \in Warmers
        /\ warmers'[w].pc # "store" => \/ warmers'[w].stream = 0
                                       \/ warmers'[w].stream = warmers[w].stream /\ warmers[w].pc # "store"
        /\ \A c \in 1..MaxWarms : c # w => warmers'[c] = warmers[c]
  <1>7. ASSUME NEW w \in 1..MaxWarms, C!OpenWarm(w) \/ C!StoreWarm(w) \/ C!Preconnect(w) PROVE WarmKeeps(w)
    <2>1. ASSUME NEW n \in Nat, warmers' = [warmers EXCEPT ![w] = [pc |-> "store", stream |-> n]]
          PROVE  WarmKeeps(w)
      BY <1>1, <2>1 DEF Warmers
    <2>2. CASE warmers' = [warmers EXCEPT ![w] = [pc |-> "gone", stream |-> 0]]
      BY <1>1, <2>2 DEF Warmers
    <2>3. ASSUME NEW pc \in {"gone", "open"}, warmers[w].pc # "store",
                 warmers' = [warmers EXCEPT ![w].pc = pc]
          PROVE  WarmKeeps(w)
      BY <1>1, <2>3 DEF Warmers
    <2> QED
      BY <1>4, <1>7, <2>1, <2>2, <2>3
  <1> QED
    BY <1>1, <1>2, <1>3, <1>4, <1>5, <1>6, <1>7

LEMMA TalkEffects ==
  ASSUME ChannelTypes, NEW s \in Speakers, C!CallSpeak(s) \/ C!SpeakStep(s)
  PROVE  /\ talk' \in Talks /\ \A t \in Speakers : t # s => talk'[t] = talk[t]
         /\ speakLock' \in Speakers \cup {"none"} /\ refs' \in Nat
         /\ UNCHANGED <<state, cap, slot, warm, user, rec, conns, warmers, sessions, ends>>
  <1>1. \A pc \in {"free", "lock", "check", "open", "acquire", "play", "release"} :
          C!Says(s, pc) => talk' \in Talks /\ \A t \in Speakers : t # s => talk'[t] = talk[t]
    BY DEF ChannelTypes, Talks, C!Says
  <1>2. UNCHANGED <<state, cap, slot, warm, user, rec, conns, warmers, sessions, ends>>
    BY DEF C!CallSpeak, C!SpeakStep, C!TakeSpeakLock, C!CheckIdle, C!OpenPlayback,
           C!SpeakAcquires, C!Played, C!SpeakReleases, C!recordVars, C!streamVars
  <1>3. \E pc \in {"free", "lock", "check", "open", "acquire", "play", "release"} : C!Says(s, pc)
    BY DEF C!CallSpeak, C!SpeakStep, C!TakeSpeakLock, C!CheckIdle, C!OpenPlayback,
           C!SpeakAcquires, C!Played, C!SpeakReleases
  <1>4. speakLock' \in Speakers \cup {"none"} /\ refs' \in Nat
    BY DEF ChannelTypes, C!CallSpeak, C!SpeakStep, C!TakeSpeakLock, C!CheckIdle, C!OpenPlayback,
           C!SpeakAcquires, C!Played, C!SpeakReleases
  <1> QED
    BY <1>1, <1>2, <1>3, <1>4

LEMMA StartEffects ==
  ASSUME ChannelTypes, Protocol, C!StartCapture
  PROVE  /\ sessions \in 1..MaxSessions /\ conns[sessions].pc = "off" /\ conns[sessions].stream = 0
         /\ conns' \in Conns /\ conns'[sessions].pc = "connect" /\ conns'[sessions].stream = 0
         /\ \A c \in 1..MaxSessions : c # sessions => conns'[c] = conns[c]
  <1>1. sessions \in 1..MaxSessions /\ conns[sessions].pc = "off" /\ conns[sessions].stream = 0
    BY DEF C!StartCapture, ChannelTypes, Conns, Protocol, UserKnows, ConnsOfOld, Empty
  <1>2. conns \in Conns /\ conns' = [conns EXCEPT ![sessions] = [pc |-> "connect", stream |-> 0]]
    BY DEF C!StartCapture, ChannelTypes
  <1> QED
    BY <1>1, <1>2 DEF Conns

LEMMA ChannelTypesKept ==
  ASSUME ChannelAssumption, ChannelTypes, Protocol, ends' \in Seq({0, 1}), C!Next
  PROVE  ChannelTypes'
  <1> USE DEF C!streamVars, C!speakVars, ToUser, ToRec, othersStay
  <1>0. sessions \in Nat /\ MaxSessions \in Nat /\ sessions <= MaxSessions
    BY DEF ChannelTypes, ChannelAssumption
  <1>1. CASE C!CallStart \/ C!Recheck
    <2>1. sessions < MaxSessions
      BY <1>1 DEF C!CallStart, C!Recheck, Protocol, UserKnows
    <2> QED
      BY <1>0, <1>1, <2>1, UserEffects DEF ChannelTypes
  <1>2. CASE C!CallStop \/ C!WaitSpeak \/ C!CaptureFails \/ C!FailedJoin \/ C!Release \/ C!CloseCapture
             \/ C!Join \/ C!Finish
    <2>1. user' \in Users
      BY <1>2, UserEffects
    <2>2. UNCHANGED <<rec, warm, conns, warmers, talk, speakLock, sessions>>
      BY <1>2 DEF C!CallStop, C!WaitSpeak, C!CaptureFails, C!FailedJoin, C!Release, C!CloseCapture,
                  C!Join, C!Finish
    <2>3. /\ state' \in {state, "idle", "stopping"} /\ cap' \in {cap, "none", "freed"}
          /\ slot' \in {slot, 0} /\ refs' \in {refs, IF refs > 0 THEN refs - 1 ELSE 0}
      BY <1>2 DEF C!CallStop, C!WaitSpeak, C!CaptureFails, C!FailedJoin, C!Release, C!CloseCapture,
                  C!Join, C!Finish
    <2> QED
      BY <2>1, <2>2, <2>3 DEF ChannelTypes
  <1>3. CASE C!Acquire
    <2>1. user' \in Users /\ rec' \in Recs
      BY <1>3, UserEffects
    <2> QED
      BY <1>3, <2>1 DEF C!Acquire, ChannelTypes
  <1>4. CASE C!StartCapture
    <2>1. user' \in Users /\ conns' \in Conns
      BY <1>4, UserEffects, StartEffects
    <2> QED
      BY <1>4, <2>1 DEF C!StartCapture, ChannelTypes
  <1>5. CASE C!RecStep
    <2>1. rec' \in Recs /\ rec.stream \in Nat
      BY <1>5, RecEffects DEF C!RecStep, ChannelTypes, Recs
    <2>2. UNCHANGED <<refs, user, warm, conns, warmers, talk, speakLock, sessions>>
      BY <1>5 DEF C!RecStep, C!Begin, C!Look, C!Read, C!Send, C!Leave
    <2>3. /\ state' \in {state, "idle", "stopping"} /\ cap' \in {cap, "none"}
          /\ slot' \in {slot, 0, rec.stream}
      BY <1>5 DEF C!RecStep, C!Begin, C!Look, C!Read, C!Send, C!Leave
    <2> QED
      BY <2>1, <2>2, <2>3 DEF ChannelTypes
  <1>6. ASSUME NEW s \in 1..MaxSessions, C!Connect(s) \/ C!Store(s) PROVE ChannelTypes'
    BY <1>6, ConnectEffects DEF ChannelTypes
  <1>7. ASSUME NEW w \in 1..MaxWarms, C!OpenWarm(w) \/ C!StoreWarm(w) \/ C!Preconnect(w)
        PROVE  ChannelTypes'
    BY <1>7, ConnectEffects DEF ChannelTypes
  <1>8. ASSUME NEW s \in Speakers, C!CallSpeak(s) \/ C!SpeakStep(s) PROVE ChannelTypes'
    BY <1>8, TalkEffects DEF ChannelTypes
  <1> QED
    BY <1>1, <1>2, <1>3, <1>4, <1>5, <1>6, <1>7, <1>8 DEF C!Next, C!UserStep, C!ConnectStep

LEMMA UserProtocol ==
  ASSUME ChannelAssumption, ChannelTypes, Protocol, C!CallStart \/ C!CallStop \/ C!UserStep
  PROVE  Protocol'
  <1> USE DEF Protocol, UserKnows, Empty, ConnsOfOld, RecGone, C!streamVars, C!speakVars,
              ToUser, ToRec, othersStay
  <1>0. /\ sessions \in Nat /\ MaxSessions \in Nat
        /\ state \in {"idle", "recording", "stopping"} /\ cap \in {"none", "open", "freed"}
        /\ user.pc \in UserPcs /\ rec.pc \in RecPcs
    BY DEF ChannelAssumption, ChannelTypes, Users, Recs
  <1>1. CASE C!CallStart \/ C!Recheck
    <2>1. /\ user.pc \in {"free", "recheck"} /\ (state = "idle" => RecGone)
          /\ C!CallStart => user.pc = "free" /\ state = "idle" /\ sessions < MaxSessions
          /\ user.pc = "recheck" => state = "idle" /\ sessions < MaxSessions
      BY <1>1 DEF C!CallStart, C!Recheck
    <2>2. CASE C!CallStart /\ ToUser("waitSpeak", user.stream)
               /\ UNCHANGED <<rec, othersStay, state, cap, slot, sessions>>
      BY <1>0, <2>1, <2>2
    <2>3. CASE /\ ToUser("acquire", user.stream) /\ cap' = "open" /\ slot' = 0 /\ state' = "recording"
               /\ sessions' = sessions + 1 /\ state = "idle" /\ UNCHANGED <<rec, othersStay>>
      <3>1. UserKnows'
        BY <1>0, <2>1, <2>3
      <3>2. Empty'
        BY <1>0, <2>1, <2>3
      <3>3. ConnsOfOld'
        BY <1>0, <2>1, <2>3
      <3> QED
        BY <3>1, <3>2, <3>3
    <2>4. CASE /\ ToUser("free", user.stream) /\ UNCHANGED <<state, sessions, rec, othersStay>>
               /\ cap' \in {cap, "none"} /\ slot' \in {slot, 0}
      BY <1>0, <2>1, <2>4
    <2> QED
      BY <1>1, <2>2, <2>3, <2>4, UserEffects
  <1>2. CASE C!CallStop
    <2>1. ToUser("release", user.stream) /\ state' = "stopping" /\ user.pc = "free"
          /\ UNCHANGED <<rec, cap, slot, conns, warmers, sessions>>
      BY <1>2, UserEffects DEF C!CallStop
    <2> QED
      BY <1>0, <2>1
  <1>3. CASE C!WaitSpeak
    <2>1. ToUser("recheck", user.stream) /\ user.pc = "waitSpeak"
          /\ UNCHANGED <<rec, state, cap, slot, conns, warmers, sessions>>
      BY <1>3, UserEffects DEF C!WaitSpeak
    <2> QED
      BY <1>0, <2>1
  <1>4. CASE C!Acquire
    <2>1. ToUser("capture", user.stream) /\ ToRec("begin", 0) /\ user.pc = "acquire"
          /\ UNCHANGED <<state, cap, slot, conns, warmers, sessions>>
      BY <1>4, UserEffects DEF C!Acquire
    <2> QED
      BY <1>0, <2>1
  <1>5. CASE C!StartCapture
    <2>1. ToUser("free", user.stream) /\ user.pc = "capture" /\ cap = "open" /\ rec.pc # "begin"
          /\ UNCHANGED <<rec, state, cap, slot, warmers, sessions>>
      BY <1>5, UserEffects DEF C!StartCapture
    <2>2. UserKnows'
      BY <1>0, <2>1
    <2>3. Empty'
      BY <1>5, <2>1, StartEffects
    <2>4. ConnsOfOld'
      BY <1>0, <1>5, <2>1, StartEffects
    <2> QED
      BY <2>2, <2>3, <2>4
  <1>6. CASE C!CaptureFails
    <2>1. ToUser("failed", user.stream) /\ user.pc = "capture" /\ state' = "idle" /\ slot' = 0
          /\ rec.stream = 0 /\ UNCHANGED <<rec, cap, conns, warmers, sessions>>
      BY <1>6, UserEffects DEF C!CaptureFails
    <2> QED
      BY <1>0, <2>1
  <1>7. CASE C!FailedJoin
    <2>1. ToUser("free", user.stream) /\ user.pc = "failed" /\ rec.pc = "gone"
          /\ UNCHANGED <<rec, state, slot, conns, warmers, sessions>>
      BY <1>7, UserEffects DEF C!FailedJoin
    <2> QED
      BY <1>0, <2>1
  <1>8. CASE C!Release
    <2>1. (ToUser("join", user.stream) \/ ToUser("close", user.stream)) /\ user.pc = "release"
          /\ UNCHANGED <<rec, state, cap, slot, conns, warmers, sessions>>
      BY <1>8, UserEffects DEF C!Release
    <2> QED
      BY <1>0, <2>1
  <1>9. CASE C!CloseCapture
    <2>1. ToUser("join", user.stream) /\ user.pc = "close"
          /\ UNCHANGED <<rec, state, slot, conns, warmers, sessions>>
      BY <1>9, UserEffects DEF C!CloseCapture
    <2> QED
      BY <1>0, <2>1
  <1>10. CASE C!Join
    <2>1. ToUser("finish", slot) /\ user.pc = "join" /\ rec.pc = "gone" /\ state' = "idle" /\ slot' = 0
          /\ UNCHANGED <<rec, conns, warmers, sessions>>
      BY <1>10, UserEffects DEF C!Join
    <2> QED
      BY <1>0, <2>1
  <1>11. CASE C!Finish
    <2>1. ToUser("free", 0) /\ user.pc = "finish"
          /\ UNCHANGED <<rec, state, cap, slot, conns, warmers, sessions>>
      BY <1>11, UserEffects DEF C!Finish
    <2> QED
      BY <1>0, <2>1
  <1> QED
    BY <1>1, <1>2, <1>3, <1>4, <1>5, <1>6, <1>7, <1>8, <1>9, <1>10, <1>11 DEF C!UserStep

LEMMA ProtocolKept ==
  ASSUME ChannelAssumption, ChannelTypes, Protocol, C!Next
  PROVE  Protocol'
  <1> USE DEF Protocol, UserKnows, Empty, ConnsOfOld, RecGone, C!streamVars, C!speakVars, ToRec
  <1>0. /\ sessions \in Nat /\ MaxSessions \in Nat
        /\ state \in {"idle", "recording", "stopping"} /\ cap \in {"none", "open", "freed"}
        /\ user.pc \in UserPcs /\ rec.pc \in RecPcs /\ slot \in Nat
    BY DEF ChannelAssumption, ChannelTypes, Users, Recs
  <1>1. CASE C!CallStart \/ C!CallStop \/ C!UserStep
    BY <1>1, UserProtocol
  <1>2. CASE C!RecStep
    <2>0. UNCHANGED <<user, conns, warmers, sessions>>
      BY <1>2 DEF C!RecStep, C!Begin, C!Look, C!Read, C!Send, C!Leave
    <2>1. CASE C!Begin
      <3>1. ToRec("look", rec.stream) /\ rec.pc = "begin" /\ UNCHANGED <<state, cap, slot>>
        BY <2>1, RecEffects DEF C!Begin
      <3> QED
        BY <1>0, <2>0, <3>1
    <2>2. CASE C!Look
      <3>1. /\ rec' \in Recs /\ rec'.pc \in {"read", "leave"} /\ rec.pc = "look" /\ UNCHANGED <<state, cap>>
            /\ rec'.stream = (IF rec.stream = 0 THEN slot ELSE rec.stream)
            /\ slot' = (IF rec.stream = 0 THEN 0 ELSE slot)
        BY <2>2, RecEffects DEF C!Look
      <3> QED
        BY <1>0, <2>0, <3>1
    <2>3. CASE C!Read
      <3>1. /\ rec'.pc \in {"look", "send", "leave"} /\ rec'.stream = rec.stream /\ rec.pc = "read"
            /\ UNCHANGED <<state, cap, slot>>
        BY <2>3, RecEffects DEF C!Read
      <3> QED
        BY <1>0, <2>0, <3>1
    <2>4. CASE C!Send
      <3>1. /\ rec'.pc \in {"look", "leave"} /\ rec'.stream \in {rec.stream, 0} /\ rec.pc = "send"
            /\ UNCHANGED <<cap, slot>>
            /\ state' = state \/ (state = "recording" /\ state' = "stopping")
        BY <2>4, RecEffects DEF C!Send
      <3> QED
        BY <1>0, <2>0, <3>1
    <2>5. CASE C!Leave
      <3>1. /\ ToRec("gone", 0) /\ rec.pc = "leave"
            /\ \/ state = "recording" /\ state' = "idle" /\ slot' = 0
               \/ state' = state /\ cap' = cap /\ slot' = (IF rec.stream # 0 THEN rec.stream ELSE slot)
        BY <2>5, RecEffects DEF C!Leave
      <3> QED
        BY <1>0, <2>0, <3>1
    <2> QED
      BY <1>2, <2>1, <2>2, <2>3, <2>4, <2>5 DEF C!RecStep
  <1>3. ASSUME NEW s \in 1..MaxSessions, C!Connect(s) \/ C!Store(s) PROVE Protocol'
    <2>0. /\ UNCHANGED <<state, cap, user, rec, sessions, warmers>>
          /\ state = "idle" => slot' = slot
          /\ \A c \in 1..MaxSessions : c # s => conns'[c] = conns[c]
          /\ conns'[s].pc \in {"off", "store"} /\ (conns'[s].pc = "store" => conns[s].pc = "connect")
          /\ conns'[s].pc = "off" => /\ conns[s].pc # "store" => conns'[s].stream = conns[s].stream
                                     /\ conns[s].pc = "store" => conns'[s].stream = 0
      BY <1>3, ConnectEffects
    <2>1. UserKnows'
      BY <1>0, <2>0
    <2>2. Empty'
      BY <2>0
    <2>3. ConnsOfOld'
      BY <2>0
    <2> QED
      BY <2>1, <2>2, <2>3
  <1>4. ASSUME NEW w \in 1..MaxWarms, C!OpenWarm(w) \/ C!StoreWarm(w) \/ C!Preconnect(w)
        PROVE  Protocol'
    <2>0. /\ UNCHANGED <<state, cap, slot, user, rec, sessions, conns>>
          /\ warmers'[w].pc # "store" => \/ warmers'[w].stream = 0
                                         \/ warmers'[w].stream = warmers[w].stream /\ warmers[w].pc # "store"
          /\ \A c \in 1..MaxWarms : c # w => warmers'[c] = warmers[c]
      BY <1>4, ConnectEffects
    <2>1. UserKnows' /\ ConnsOfOld'
      BY <1>0, <2>0
    <2>2. Empty'
      BY <2>0
    <2> QED
      BY <2>1, <2>2
  <1>5. ASSUME NEW s \in Speakers, C!CallSpeak(s) \/ C!SpeakStep(s) PROVE Protocol'
    <2>1. UNCHANGED <<state, cap, slot, user, rec, conns, warmers, sessions>>
      BY <1>5, TalkEffects
    <2> QED
      BY <2>1
  <1> QED
    BY <1>1, <1>2, <1>3, <1>4, <1>5 DEF C!Next, C!ConnectStep

-----------------------------------------------------------------------------
(* The power saving of WiFi. *)

LEMMA PowerKept ==
  ASSUME ChannelAssumption, ChannelTypes, Protocol, LockHeld, RefsCover, C!Next
  PROVE  LockHeld' /\ RefsCover'
  <1> USE DEF C!streamVars, C!speakVars, C!recordVars, ToUser
  <1>0. refs \in Nat
    BY DEF ChannelTypes
  <1>1. ASSUME UNCHANGED <<talk, speakLock>>, refs' = refs, UserHolds' => UserHolds
        PROVE  LockHeld' /\ RefsCover'
    BY <1>0, <1>1 DEF LockHeld, RefsCover, SpeakerHolds
  <1>2. CASE C!RecStep \/ C!ConnectStep \/ (\E w \in 1..MaxWarms : C!Preconnect(w))
    <2>1. UNCHANGED <<talk, speakLock, refs, user>>
      BY <1>2 DEF C!RecStep, C!Begin, C!Look, C!Read, C!Send, C!Leave, C!ConnectStep, C!Connect,
         C!Store,
                  C!OpenWarm, C!StoreWarm, C!Preconnect
    <2>2. state' # "idle" => state # "idle"
      BY <1>2 DEF C!RecStep, C!Begin, C!Look, C!Read, C!Send, C!Leave, C!ConnectStep, C!Connect,
         C!Store,
                  C!OpenWarm, C!StoreWarm, C!Preconnect
    <2> QED
      BY <1>1, <2>1, <2>2 DEF UserHolds
  <1>3. CASE C!CallStart \/ C!CallStop \/ C!UserStep
    <2>0. UNCHANGED <<talk, speakLock>>
      BY <1>3 DEF C!CallStart, C!CallStop, C!UserStep, C!WaitSpeak, C!Recheck, C!Acquire,
         C!StartCapture,
                  C!CaptureFails, C!FailedJoin, C!Release, C!CloseCapture, C!Join, C!Finish
    <2>1. CASE C!CallStart \/ C!Recheck
      <3>1. /\ refs' = refs /\ user'.pc \in {"waitSpeak", "acquire", "free"}
            /\ user'.pc = "free" => state' = state
            /\ state = "idle" \/ user.pc = "recheck"
        BY <2>1, UserEffects DEF C!CallStart, C!Recheck
      <3>2. user.pc = "recheck" => state = "idle"
        BY DEF Protocol, UserKnows
      <3> QED
        BY <1>1, <2>0, <3>1, <3>2 DEF UserHolds
    <2>2. CASE C!CallStop \/ C!WaitSpeak \/ C!StartCapture \/ C!CaptureFails \/ C!CloseCapture \/ C!Join
               \/ C!Finish
      <3>1. refs' = refs /\ (UserHolds' => UserHolds)
        <4>1. CASE C!CallStop
          BY <4>1, UserEffects DEF C!CallStop, UserHolds
        <4>2. CASE C!WaitSpeak
          BY <4>2, UserEffects DEF C!WaitSpeak, UserHolds
        <4>3. CASE C!StartCapture
          BY <4>3, UserEffects DEF C!StartCapture, UserHolds
        <4>4. CASE C!CaptureFails
          BY <4>4, UserEffects DEF C!CaptureFails, UserHolds
        <4>5. CASE C!CloseCapture
          BY <4>5, UserEffects DEF C!CloseCapture, UserHolds
        <4>6. CASE C!Join
          BY <4>6, UserEffects DEF C!Join, UserHolds
        <4>7. CASE C!Finish
          <5>1. state' = state /\ user.pc = "finish" /\ user'.pc = "free" /\ refs' = refs
            BY <4>7, UserEffects DEF C!Finish
          <5>2. state = "idle"
            BY <5>1 DEF Protocol, UserKnows
          <5> QED
            BY <5>1, <5>2 DEF UserHolds
        <4> QED
          BY <2>2, <4>1, <4>2, <4>3, <4>4, <4>5, <4>6, <4>7
      <3> QED
        BY <1>1, <2>0, <3>1
    <2>3. CASE C!Acquire
      <3>1. refs' = refs + 1 /\ user.pc = "acquire"
        BY <2>3 DEF C!Acquire
      <3>2. ~UserHolds
        BY <3>1 DEF UserHolds
      <3> QED
        BY <1>0, <2>0, <3>1, <3>2 DEF LockHeld, RefsCover, SpeakerHolds
    <2>4. CASE C!FailedJoin \/ C!Release
      <3>1. refs' = (IF refs > 0 THEN refs - 1 ELSE 0) /\ UserHolds
        BY <2>4 DEF C!FailedJoin, C!Release, UserHolds
      <3>2. ~UserHolds'
        <4>1. CASE C!FailedJoin
          <5>1. user'.pc = "free" /\ state' = state /\ user.pc = "failed"
            BY <4>1, UserEffects DEF C!FailedJoin
          <5> QED
            BY <5>1 DEF Protocol, UserKnows, UserHolds
        <4>2. CASE C!Release
          BY <4>2, UserEffects DEF UserHolds
        <4> QED
          BY <2>4, <4>1, <4>2
      <3> QED
        BY <1>0, <2>0, <3>1, <3>2 DEF LockHeld, RefsCover, SpeakerHolds
    <2> QED
      BY <1>3, <2>1, <2>2, <2>3, <2>4 DEF C!UserStep
  <1>4. ASSUME NEW s \in Speakers, C!CallSpeak(s) \/ C!SpeakStep(s)
        PROVE  LockHeld' /\ RefsCover'
    <2> DEFINE Inside == {"check", "open", "acquire", "play", "release"}
    <2>0. /\ talk \in Talks /\ talk[s] \in {"free", "lock"} \cup Inside
          /\ \A t \in Speakers : t # s => talk'[t] = talk[t]
          /\ "none" \notin Speakers /\ (UserHolds' <=> UserHolds)
          /\ \A pc : C!Says(s, pc) => talk'[s] = pc
      BY <1>4, TalkEffects DEF ChannelTypes, Talks, ChannelAssumption, UserHolds, C!Says
    <2>a. \A t \in Speakers : talk[t] \in Inside <=> speakLock = t
      BY DEF LockHeld
    <2>b. speakLock = s => \A t \in Speakers : t # s => talk[t] \notin {"play", "release"}
      BY <2>a
    <2>c. \A t \in Speakers : t # s => (talk'[t] \in Inside <=> speakLock = t)
      BY <2>0, <2>a
    <2>d. ASSUME refs' = refs, talk'[s] \in {"play", "release"} => talk[s] \in {"play", "release"}
          PROVE  RefsCover'
      BY <1>0, <2>0, <2>d DEF RefsCover, SpeakerHolds
    <2>e. ASSUME speakLock' = speakLock, talk'[s] \in Inside <=> talk[s] \in Inside
          PROVE  LockHeld'
      BY <2>a, <2>c, <2>e DEF LockHeld
    <2>1. CASE C!CallSpeak(s)
      <3>1. talk[s] = "free" /\ talk'[s] = "lock" /\ refs' = refs /\ speakLock' = speakLock
        BY <2>0, <2>1 DEF C!CallSpeak
      <3> QED
        BY <2>d, <2>e, <3>1
    <2>2. CASE C!TakeSpeakLock(s)
      <3>1. talk[s] = "lock" /\ talk'[s] = "check" /\ refs' = refs /\ speakLock = "none" /\ speakLock' = s
        BY <2>0, <2>2 DEF C!TakeSpeakLock
      <3>2. LockHeld'
        BY <2>0, <2>c, <3>1 DEF LockHeld
      <3> QED
        BY <2>d, <3>1, <3>2
    <2>3. CASE C!CheckIdle(s) \/ C!OpenPlayback(s)
      <3>1. /\ talk[s] \in {"check", "open"} /\ refs' = refs
            /\ \/ talk'[s] \in {"open", "acquire"} /\ speakLock' = speakLock
               \/ talk'[s] = "free" /\ speakLock' = "none"
        BY <2>0, <2>3 DEF C!CheckIdle, C!OpenPlayback
      <3>2. CASE talk'[s] \in {"open", "acquire"} /\ speakLock' = speakLock
        BY <2>d, <2>e, <3>1, <3>2
      <3>3. CASE talk'[s] = "free" /\ speakLock' = "none"
        <4>1. LockHeld'
          BY <2>0, <2>a, <2>c, <3>1, <3>3 DEF LockHeld
        <4> QED
          BY <2>d, <3>1, <3>3, <4>1
      <3> QED
        BY <3>1, <3>2, <3>3
    <2>4. CASE C!SpeakAcquires(s)
      <3>1. talk[s] = "acquire" /\ talk'[s] = "play" /\ refs' = refs + 1 /\ speakLock' = speakLock
        BY <2>0, <2>4 DEF C!SpeakAcquires
      <3>2. ~SpeakerHolds
        BY <2>a, <2>b, <3>1 DEF SpeakerHolds
      <3>3. RefsCover'
        BY <1>0, <2>0, <3>1, <3>2 DEF RefsCover
      <3> QED
        BY <2>e, <3>1, <3>3
    <2>5. CASE C!Played(s)
      <3>1. talk[s] = "play" /\ talk'[s] = "release" /\ refs' = refs /\ speakLock' = speakLock
        BY <2>0, <2>5 DEF C!Played
      <3> QED
        BY <2>d, <2>e, <3>1
    <2>6. CASE C!SpeakReleases(s)
      <3>1. /\ talk[s] = "release" /\ talk'[s] = "free" /\ refs' = (IF refs > 0 THEN refs - 1 ELSE 0)
            /\ speakLock' = "none"
        BY <2>0, <2>6 DEF C!SpeakReleases
      <3>2. SpeakerHolds /\ ~SpeakerHolds'
        BY <2>0, <2>a, <2>b, <3>1 DEF SpeakerHolds
      <3>3. RefsCover'
        BY <1>0, <2>0, <3>1, <3>2 DEF RefsCover
      <3>4. LockHeld'
        BY <2>0, <2>a, <2>c, <3>1 DEF LockHeld
      <3> QED
        BY <3>3, <3>4
    <2> QED
      BY <1>4, <2>1, <2>2, <2>3, <2>4, <2>5, <2>6 DEF C!SpeakStep
  <1> QED
    BY <1>2, <1>3, <1>4 DEF C!Next

-----------------------------------------------------------------------------
(* The channel as a whole. *)

LEMMA ChannelInit == ASSUME ChannelAssumption, C!Init PROVE ChannelInv
  <1>1. ChannelTypes
    BY DEF C!Init, C!NoTts, ChannelTypes, ChannelAssumption, Users, UserPcs, Recs, RecPcs, Conns,
       Warmers,
           Talks
  <1>2. Protocol
    <2>1. UserKnows
      BY DEF C!Init, UserKnows, RecGone
    <2>2. Empty
      BY DEF C!Init, Empty
    <2>3. ConnsOfOld
      BY DEF C!Init, ConnsOfOld
    <2> QED
      BY <2>1, <2>2, <2>3 DEF Protocol
  <1>3. Owned(Held, ends)
    <2> DEFINE h == [p \in C!Places |-> 0]
    <2>1. /\ h \in [C!Places -> Nat] /\ \A p \in C!Places : h[p] = 0
      OBVIOUS
    <2> HIDE DEF h
    <2>2. /\ slot = 0 /\ warm = 0 /\ rec.stream = 0 /\ user.stream = 0
          /\ \A c \in 1..MaxSessions : conns[c].stream = 0
          /\ \A w \in 1..MaxWarms : warmers[w].stream = 0
      BY DEF C!Init
    <2>3. /\ h[C!Slot] = 0 /\ h[C!Warm] = 0 /\ h[C!Rec] = 0 /\ h[C!User] = 0
          /\ \A c \in 1..MaxSessions : h[<<"conn", c>>] = 0
          /\ \A w \in 1..MaxWarms : h[<<"warmer", w>>] = 0
      BY <2>1, Apart
    <2>4. Spread(slot, warm, rec.stream, user.stream, conns, warmers) = h
      BY <2>1, <2>2, <2>3, SpreadEqual
    <2>5. Held = h
      BY <1>1, <2>4, HeldIs
    <2>6. ends = <<>>
      BY DEF C!Init
    <2>7. h \in [C!Places -> 0..Len(ends)]
      <3>1. \A p \in C!Places : h[p] \in 0..Len(ends)
        BY <2>1, <2>6
      <3> QED
        BY <2>1, <3>1
    <2> QED
      BY <2>1, <2>5, <2>6, <2>7 DEF Owned
  <1>4. LockHeld /\ RefsCover
    BY DEF C!Init, ChannelAssumption, LockHeld, RefsCover, UserHolds, SpeakerHolds
  <1> QED
    BY <1>1, <1>2, <1>3, <1>4 DEF ChannelInv

LEMMA ChannelInvKept == ASSUME ChannelAssumption, ChannelInv, [C!Next]_channelVars PROVE ChannelInv'
  <1>1. CASE C!Next
    <2>1. Owned(Held', ends') /\ Protocol' /\ LockHeld' /\ RefsCover'
      BY <1>1, StreamsKept, ProtocolKept, PowerKept DEF ChannelInv
    <2>2. ChannelTypes'
      BY <1>1, <2>1, ChannelTypesKept DEF ChannelInv, Owned
    <2> QED
      BY <2>1, <2>2 DEF ChannelInv
  <1>2. CASE UNCHANGED channelVars
    <2>1. ChannelTypes' /\ Protocol' /\ LockHeld' /\ RefsCover'
      BY <1>2 DEF channelVars, ChannelInv, ChannelTypes, Protocol, UserKnows, Empty, ConnsOfOld,
         RecGone,
                  LockHeld, RefsCover, UserHolds, SpeakerHolds
    <2>2. Owned(Held', ends')
      BY <1>2, StreamsStay DEF channelVars, ChannelInv
    <2> QED
      BY <2>1, <2>2 DEF ChannelInv
  <1> QED
    BY <1>1, <1>2

LEMMA InvInOrder == ASSUME ChannelAssumption, ChannelInv PROVE ChannelInOrder
  <1>1. C!StreamsOwned
    <2>1. /\ \A p, q \in C!Places : p # q /\ Held[p] = Held[q] => Held[p] = 0
          /\ \A s \in 1..Len(ends) : ends[s] = 0 <=> \E p \in C!Places : Held[p] = s
          /\ \A s \in 1..Len(ends) : ends[s] \in {0, 1}
          /\ DOMAIN ends = 1..Len(ends)
      BY ElementOfSeq, LenProperties DEF ChannelInv, Owned
    <2>2. \A p \in C!Places : C!At(p) = Held[p]
      BY DEF Held
    <2>3. ASSUME NEW s \in C!Opened
          PROVE  \/ ends[s] = 0 /\ \E p \in C!Places : C!Owners(s) = {p}
                 \/ ends[s] = 1 /\ C!Owners(s) = {}
      <3>1. s \in 1..Len(ends) /\ s # 0 /\ C!Owners(s) = {p \in C!Places : Held[p] = s}
        BY <2>1, <2>2 DEF C!Opened, C!Owners
      <3>2. CASE ends[s] = 0
        <4>1. PICK p \in C!Places : Held[p] = s
          BY <2>1, <3>1, <3>2
        <4>2. \A q \in C!Places : Held[q] = s => q = p
          BY <2>1, <3>1, <4>1
        <4> QED
          BY <3>1, <3>2, <4>1, <4>2
      <3>3. CASE ends[s] = 1
        BY <2>1, <3>1, <3>3
      <3> QED
        BY <2>1, <3>1, <3>2, <3>3
    <2>4. state = "idle" /\ user.pc = "free" => slot = 0
      BY DEF ChannelInv, Protocol, Empty
    <2> QED
      BY <2>3, <2>4 DEF C!StreamsOwned
  <1>2. C!PowerSaveOff
    <2>1. C!Recording => UserHolds
      BY DEF C!Recording, ChannelInv, ChannelTypes, Users, UserPcs, Protocol, UserKnows, UserHolds
    <2>2. refs \in Nat /\ refs >= (IF UserHolds THEN 1 ELSE 0) + (IF SpeakerHolds THEN 1 ELSE 0)
      BY DEF ChannelInv, ChannelTypes, RefsCover
    <2>3. (\E s \in Speakers : C!Playing(s)) => SpeakerHolds
      BY DEF C!Playing, SpeakerHolds
    <2>4. refs >= (IF C!Recording THEN 1 ELSE 0)
                  + (IF \E s \in Speakers : C!Playing(s) THEN 1 ELSE 0)
      <3>1. CASE C!Recording /\ \E s \in Speakers : C!Playing(s)
        BY <2>1, <2>2, <2>3, <3>1
      <3>2. CASE C!Recording /\ ~\E s \in Speakers : C!Playing(s)
        BY <2>1, <2>2, <3>2
      <3>3. CASE ~C!Recording /\ \E s \in Speakers : C!Playing(s)
        BY <2>2, <2>3, <3>3
      <3>4. CASE ~C!Recording /\ ~\E s \in Speakers : C!Playing(s)
        BY <2>2, <3>4
      <3> QED
        BY <3>1, <3>2, <3>3, <3>4
    <2>5. \A s, t \in Speakers : C!Playing(s) /\ C!Playing(t) => s = t
      BY DEF C!Playing, ChannelInv, LockHeld
    <2> QED
      BY <2>4, <2>5 DEF C!PowerSaveOff
  <1> QED
    BY <1>1, <1>2 DEF ChannelInOrder

(* Every recognition stream of voice_channel.c is owned by one place until   *)
(* it is finished or aborted once, and power saving is off while a recording *)
(* or an answer is in progress, for any numbers of recordings, connectors    *)
(* and speakers and for every failure.                                       *)
THEOREM InOrder == Spec => []ChannelInOrder
  <1>1. Init => ChannelInv
    BY ChannelAssumption, ChannelInit DEF Init
  <1>2. ChannelInv /\ [Next]_vars => ChannelInv'
    <2> SUFFICES ASSUME ChannelInv, [Next]_vars PROVE ChannelInv'
      OBVIOUS
    <2>1. [C!Next]_channelVars
      BY DEF Next, vars, Playback, Pipeline, Channel, Camera, Recorder, Omni, pageVars, audioVars
    <2> QED
      BY <2>1, ChannelAssumption, ChannelInvKept
  <1>3. ChannelInv => ChannelInOrder
    BY ChannelAssumption, InvInOrder
  <1> QED
    BY <1>1, <1>2, <1>3, PTL DEF Spec

-----------------------------------------------------------------------------
(* How many streams and references the channel can have. *)

(* The sessions whose connector may have opened a stream, the preconnect     *)
(* threads that may, and that each opens at most one; every session and the  *)
(* one answer that is spoken hold a reference, which an ending session may   *)
(* leave behind.                                                             *)
ConnDone == {c \in 1..MaxSessions : /\ c <= sessions /\ conns[c].pc # "connect"
                                    /\ user.pc \in {"acquire", "capture"} => c # sessions}
WarmDone == {w \in 1..MaxWarms : warmers[w].pc \in {"store", "gone"}}
OpenedBound == Len(ends) <= Cardinality(ConnDone) + Cardinality(WarmDone)
RefsBound == refs <= (IF user.pc = "acquire" THEN sessions - 1 ELSE sessions)
                     + (IF SpeakerHolds THEN 1 ELSE 0)

(* The size of a set of numbers up to n. *)
LEMMA Counts ==
  ASSUME NEW n \in Nat, NEW S \in SUBSET (1..n), NEW T \in SUBSET (1..n), S \subseteq T
  PROVE  /\ Cardinality(S) \in Nat /\ Cardinality(S) <= n
         /\ Cardinality(S) <= Cardinality(T)
         /\ \A e \in T : e \notin S => Cardinality(S) + 1 <= Cardinality(T)
  <1>1. IsFiniteSet(1..n) /\ Cardinality(1..n) = n
    BY FS_Interval
  <1>2. IsFiniteSet(S) /\ Cardinality(S) <= n
    BY <1>1, FS_Subset
  <1>3. IsFiniteSet(T)
    BY <1>1, FS_Subset
  <1>4. Cardinality(S) \in Nat /\ Cardinality(S) <= Cardinality(T)
    BY <1>2, <1>3, FS_Subset, FS_CardinalityType
  <1>5. ASSUME NEW e \in T, e \notin S PROVE Cardinality(S) + 1 <= Cardinality(T)
    <2>1. Cardinality(S \cup {e}) = Cardinality(S) + 1
      BY <1>2, <1>5, FS_AddElement
    <2>2. S \cup {e} \in SUBSET T
      BY <1>5
    <2> QED
      BY <1>3, <2>1, <2>2, FS_Subset
  <1> QED
    BY <1>2, <1>4, <1>5

(* A step that opens nothing, and one that opens a stream. *)
LEMMA OpenedStay ==
  ASSUME ChannelAssumption, ChannelTypes, OpenedBound, Len(ends') = Len(ends),
         ConnDone \subseteq ConnDone', WarmDone \subseteq WarmDone'
  PROVE  OpenedBound'
  <1>1. MaxSessions \in Nat /\ MaxWarms \in Nat
    BY DEF ChannelAssumption
  <1>2. /\ ConnDone \in SUBSET (1..MaxSessions) /\ ConnDone' \in SUBSET (1..MaxSessions)
        /\ WarmDone \in SUBSET (1..MaxWarms) /\ WarmDone' \in SUBSET (1..MaxWarms)
    BY DEF ConnDone, WarmDone
  <1>3. /\ Cardinality(ConnDone) \in Nat /\ Cardinality(ConnDone') \in Nat
        /\ Cardinality(WarmDone) \in Nat /\ Cardinality(WarmDone') \in Nat
        /\ Cardinality(ConnDone) <= Cardinality(ConnDone')
        /\ Cardinality(WarmDone) <= Cardinality(WarmDone')
    <2>1. /\ Cardinality(ConnDone) \in Nat /\ Cardinality(ConnDone) <= Cardinality(ConnDone')
          /\ Cardinality(ConnDone') \in Nat
      BY <1>1, <1>2, Counts
    <2>2. /\ Cardinality(WarmDone) \in Nat /\ Cardinality(WarmDone) <= Cardinality(WarmDone')
          /\ Cardinality(WarmDone') \in Nat
      BY <1>1, <1>2, Counts
    <2> QED
      BY <2>1, <2>2
  <1>4. Len(ends) \in Nat /\ Len(ends') <= Cardinality(ConnDone) + Cardinality(WarmDone)
    BY LenProperties DEF OpenedBound, ChannelTypes
  <1>5. Len(ends') <= Cardinality(ConnDone') + Cardinality(WarmDone')
    BY <1>3, <1>4
  <1> QED
    BY <1>5 DEF OpenedBound

LEMMA OpenedGrow ==
  ASSUME ChannelAssumption, ChannelTypes, OpenedBound, Len(ends') = Len(ends) + 1,
         ConnDone \subseteq ConnDone', WarmDone \subseteq WarmDone',
         ConnDone # ConnDone' \/ WarmDone # WarmDone'
  PROVE  OpenedBound'
  <1>1. MaxSessions \in Nat /\ MaxWarms \in Nat
    BY DEF ChannelAssumption
  <1>2. /\ ConnDone \in SUBSET (1..MaxSessions) /\ ConnDone' \in SUBSET (1..MaxSessions)
        /\ WarmDone \in SUBSET (1..MaxWarms) /\ WarmDone' \in SUBSET (1..MaxWarms)
    BY DEF ConnDone, WarmDone
  <1>3. /\ Cardinality(ConnDone) \in Nat /\ Cardinality(ConnDone') \in Nat
        /\ Cardinality(ConnDone) <= Cardinality(ConnDone')
        /\ ConnDone # ConnDone' => Cardinality(ConnDone) + 1 <= Cardinality(ConnDone')
    <2>1. /\ Cardinality(ConnDone) \in Nat /\ Cardinality(ConnDone) <= Cardinality(ConnDone')
          /\ Cardinality(ConnDone') \in Nat
          /\ \A e \in ConnDone' : e \notin ConnDone => Cardinality(ConnDone) + 1 <= Cardinality(ConnDone')
      BY <1>1, <1>2, Counts
    <2>2. ConnDone # ConnDone' => \E e \in ConnDone' : e \notin ConnDone
      OBVIOUS
    <2> QED
      BY <2>1, <2>2
  <1>4. /\ Cardinality(WarmDone) \in Nat /\ Cardinality(WarmDone') \in Nat
        /\ Cardinality(WarmDone) <= Cardinality(WarmDone')
        /\ WarmDone # WarmDone' => Cardinality(WarmDone) + 1 <= Cardinality(WarmDone')
    <2>1. /\ Cardinality(WarmDone) \in Nat /\ Cardinality(WarmDone) <= Cardinality(WarmDone')
          /\ Cardinality(WarmDone') \in Nat
          /\ \A e \in WarmDone' : e \notin WarmDone => Cardinality(WarmDone) + 1 <= Cardinality(WarmDone')
      BY <1>1, <1>2, Counts
    <2>2. WarmDone # WarmDone' => \E e \in WarmDone' : e \notin WarmDone
      OBVIOUS
    <2> QED
      BY <2>1, <2>2
  <1>5. Len(ends) \in Nat /\ Len(ends) <= Cardinality(ConnDone) + Cardinality(WarmDone)
    BY LenProperties DEF OpenedBound, ChannelTypes
  <1>6. Len(ends') <= Cardinality(ConnDone') + Cardinality(WarmDone')
    <2>1. CASE ConnDone # ConnDone'
      BY <1>3, <1>4, <1>5, <2>1
    <2>2. CASE WarmDone # WarmDone'
      BY <1>3, <1>4, <1>5, <2>2
    <2> QED
      BY <2>1, <2>2
  <1> QED
    BY <1>6 DEF OpenedBound

(* Finishing or aborting a stream opens none. *)
LEMMA EndedLength ==
  ASSUME ChannelTypes
  PROVE  /\ \A s : Len(C!Ended(s)) = Len(ends)
         /\ \A ending : Len([s \in C!Opened |-> ends[s] + IF s \in ending THEN 1 ELSE 0]) = Len(ends)
  <1>1. ends \in Seq({0, 1}) /\ Len(ends) \in Nat /\ DOMAIN ends = 1..Len(ends)
    BY LenProperties DEF ChannelTypes
  <1>2. ASSUME NEW s PROVE Len([ends EXCEPT ![s] = @ + 1]) = Len(ends)
    <2>1. DOMAIN [ends EXCEPT ![s] = @ + 1] = 1..Len(ends)
      BY <1>1
    <2> QED
      BY <1>1, <2>1
  <1>3. ASSUME NEW ending
        PROVE  Len([s \in C!Opened |-> ends[s] + IF s \in ending THEN 1 ELSE 0]) = Len(ends)
    <2>1. DOMAIN [s \in C!Opened |-> ends[s] + IF s \in ending THEN 1 ELSE 0] = 1..Len(ends)
      BY <1>1 DEF C!Opened
    <2> QED
      BY <1>1, <2>1
  <1> QED
    BY <1>2, <1>3 DEF C!Ended

LEMMA OpenedKept ==
  ASSUME ChannelAssumption, ChannelTypes, Protocol, OpenedBound, C!Next
  PROVE  OpenedBound'
  <1> USE DEF C!streamVars, C!speakVars, C!recordVars, ToUser
  <1>0. sessions \in Nat /\ MaxSessions \in Nat /\ sessions <= MaxSessions
    BY DEF ChannelTypes, ChannelAssumption
  <1>1. CASE C!CallStart \/ C!Recheck
    <2>1. /\ UNCHANGED <<conns, warmers, ends>>
          /\ \/ user'.pc = "waitSpeak" /\ sessions' = sessions
             \/ user'.pc = "acquire" /\ sessions' = sessions + 1
             \/ user'.pc = "free" /\ sessions' = sessions
          /\ user.pc \in {"free", "recheck"}
      BY <1>1, UserEffects DEF C!CallStart, C!Recheck, othersStay
    <2>2. ConnDone \subseteq ConnDone'
      BY <1>0, <2>1 DEF ConnDone
    <2>3. WarmDone' = WarmDone
      BY <2>1 DEF WarmDone
    <2> QED
      BY <2>1, <2>2, <2>3, OpenedStay
  <1>2. CASE C!CallStop \/ C!WaitSpeak \/ C!Acquire \/ C!CaptureFails \/ C!FailedJoin \/ C!Release
             \/ C!CloseCapture \/ C!Join \/ C!Finish
    <2>1. UNCHANGED <<conns, warmers, sessions>>
      BY <1>2 DEF C!CallStop, C!WaitSpeak, C!Acquire, C!CaptureFails, C!FailedJoin, C!Release,
                  C!CloseCapture, C!Join, C!Finish
    <2>2. user'.pc \in {"acquire", "capture"} => user.pc \in {"acquire", "capture"}
      BY <1>2, UserEffects DEF C!Acquire
    <2>3. \/ ends' = ends
          \/ \E s : ends' = C!Ended(s)
      BY <1>2 DEF C!CallStop, C!WaitSpeak, C!Acquire, C!CaptureFails, C!FailedJoin, C!Release,
                  C!CloseCapture, C!Join, C!Finish
    <2>4. Len(ends') = Len(ends)
      BY <2>3, EndedLength
    <2>5. ConnDone \subseteq ConnDone' /\ WarmDone' = WarmDone
      BY <2>1, <2>2 DEF ConnDone, WarmDone
    <2> QED
      BY <2>4, <2>5, OpenedStay
  <1>3. CASE C!StartCapture
    <2>1. /\ UNCHANGED <<warmers, sessions, ends>> /\ user.pc = "capture" /\ user'.pc = "free"
          /\ \A c \in 1..MaxSessions : c # sessions => conns'[c] = conns[c]
      BY <1>3, UserEffects, StartEffects DEF C!StartCapture
    <2>2. ConnDone \subseteq ConnDone' /\ WarmDone' = WarmDone
      BY <2>1 DEF ConnDone, WarmDone
    <2> QED
      BY <2>1, <2>2, OpenedStay
  <1>4. CASE C!RecStep
    <2>1. UNCHANGED <<user, conns, warmers, sessions>>
      BY <1>4 DEF C!RecStep, C!Begin, C!Look, C!Read, C!Send, C!Leave
    <2>2. Len(ends') = Len(ends)
      <3>1. CASE C!Leave
        BY <3>1, EndedLength DEF C!Leave
      <3>2. CASE C!Begin \/ C!Look \/ C!Read \/ C!Send
        BY <3>2, EndedLength DEF C!Begin, C!Look, C!Read, C!Send
      <3> QED
        BY <1>4, <3>1, <3>2 DEF C!RecStep
    <2>3. ConnDone' = ConnDone /\ WarmDone' = WarmDone
      BY <2>1 DEF ConnDone, WarmDone
    <2> QED
      BY <2>2, <2>3, OpenedStay
  <1>5. ASSUME NEW s \in 1..MaxSessions, C!Connect(s) \/ C!Store(s) PROVE OpenedBound'
    <2>1. /\ UNCHANGED <<user, sessions, warmers>>
          /\ conns'[s].pc \in {"off", "store"}
          /\ \A c \in 1..MaxSessions : c # s => conns'[c] = conns[c]
      BY <1>5, ConnectEffects
    <2>2. ConnDone \subseteq ConnDone' /\ WarmDone' = WarmDone
      BY <2>1 DEF ConnDone, WarmDone
    <2>3. CASE C!Connect(s)
      <3>1. /\ conns[s].pc = "connect"
            /\ ends' = ends \/ ends' = Append(ends, 0)
        BY <2>3 DEF C!Connect, C!Open
      <3>2. s \notin ConnDone /\ s \in ConnDone'
        BY <2>1, <3>1 DEF ConnDone, Protocol, ConnsOfOld
      <3>3. Len(Append(ends, 0)) = Len(ends) + 1
        BY DEF ChannelTypes
      <3> QED
        BY <2>2, <3>1, <3>2, <3>3, OpenedStay, OpenedGrow
    <2>4. CASE C!Store(s)
      <3>1. Len(ends') = Len(ends)
        BY <2>4, EndedLength DEF C!Store
      <3> QED
        BY <2>2, <3>1, OpenedStay
    <2> QED
      BY <1>5, <2>3, <2>4
  <1>6. ASSUME NEW w \in 1..MaxWarms, C!OpenWarm(w) \/ C!StoreWarm(w) \/ C!Preconnect(w)
        PROVE  OpenedBound'
    <2>1. /\ UNCHANGED <<user, sessions, conns>>
          /\ \A c \in 1..MaxWarms : c # w => warmers'[c] = warmers[c]
      BY <1>6, ConnectEffects
    <2>2. /\ warmers[w].pc # "store" \/ C!StoreWarm(w)
          /\ warmers[w].pc # "gone"
          /\ (C!OpenWarm(w) \/ C!StoreWarm(w)) => warmers'[w].pc \in {"store", "gone"}
          /\ C!OpenWarm(w) => warmers[w].pc = "open"
      <3>1. warmers \in Warmers
        BY DEF ChannelTypes
      <3>2. warmers[w].pc = "off" \/ warmers[w].pc = "open" \/ (warmers[w].pc = "store" /\ C!StoreWarm(w))
        BY <1>6 DEF C!OpenWarm, C!StoreWarm, C!Preconnect
      <3>3. C!OpenWarm(w) \/ C!StoreWarm(w) =>
              \/ \E n : warmers' = [warmers EXCEPT ![w] = [pc |-> "store", stream |-> n]]
              \/ warmers' = [warmers EXCEPT ![w] = [pc |-> "gone", stream |-> 0]]
              \/ warmers' = [warmers EXCEPT ![w].pc = "gone"]
        BY DEF C!OpenWarm, C!StoreWarm
      <3>4. C!OpenWarm(w) \/ C!StoreWarm(w) => warmers'[w].pc \in {"store", "gone"}
        BY <3>1, <3>3 DEF Warmers
      <3> QED
        BY <3>2, <3>4 DEF C!OpenWarm
    <2>3. ConnDone' = ConnDone /\ WarmDone \subseteq WarmDone'
      BY <1>6, <2>1, <2>2 DEF ConnDone, WarmDone
    <2>4. CASE C!OpenWarm(w)
      <3>1. ends' = ends \/ ends' = Append(ends, 0)
        BY <2>4 DEF C!OpenWarm, C!Open
      <3>2. w \notin WarmDone /\ w \in WarmDone'
        BY <2>2, <2>4 DEF WarmDone
      <3>3. Len(Append(ends, 0)) = Len(ends) + 1
        BY DEF ChannelTypes
      <3> QED
        BY <2>3, <3>1, <3>2, <3>3, OpenedStay, OpenedGrow
    <2>5. CASE C!StoreWarm(w) \/ C!Preconnect(w)
      <3>1. Len(ends') = Len(ends)
        BY <2>5, EndedLength DEF C!StoreWarm, C!Preconnect
      <3> QED
        BY <2>3, <3>1, OpenedStay
    <2> QED
      BY <1>6, <2>4, <2>5
  <1>7. ASSUME NEW s \in Speakers, C!CallSpeak(s) \/ C!SpeakStep(s) PROVE OpenedBound'
    <2>1. UNCHANGED <<user, conns, warmers, sessions, ends>>
      BY <1>7, TalkEffects
    <2> QED
      BY <2>1 DEF OpenedBound, ConnDone, WarmDone
  <1> QED
    BY <1>1, <1>2, <1>3, <1>4, <1>5, <1>6, <1>7 DEF C!Next, C!UserStep, C!ConnectStep

LEMMA RefsKept ==
  ASSUME ChannelAssumption, ChannelTypes, Protocol, LockHeld, RefsBound, C!Next
  PROVE  RefsBound'
  <1> USE DEF C!streamVars, C!speakVars, C!recordVars, ToUser
  <1>0. refs \in Nat /\ sessions \in Nat /\ (user.pc = "acquire" => sessions # 0)
    BY DEF ChannelTypes, Protocol, UserKnows
  <1>1. CASE C!RecStep \/ C!ConnectStep \/ (\E w \in 1..MaxWarms : C!Preconnect(w))
    <2>1. UNCHANGED <<talk, refs, user, sessions>>
      BY <1>1 DEF C!RecStep, C!Begin, C!Look, C!Read, C!Send, C!Leave, C!ConnectStep, C!Connect,
         C!Store,
                  C!OpenWarm, C!StoreWarm, C!Preconnect
    <2> QED
      BY <2>1 DEF RefsBound, SpeakerHolds
  <1>2. CASE C!CallStart \/ C!CallStop \/ C!UserStep
    <2>0. UNCHANGED talk
      BY <1>2 DEF C!CallStart, C!CallStop, C!UserStep, C!WaitSpeak, C!Recheck, C!Acquire,
         C!StartCapture,
                  C!CaptureFails, C!FailedJoin, C!Release, C!CloseCapture, C!Join, C!Finish
    <2>a. SpeakerHolds' = SpeakerHolds
      BY <2>0 DEF SpeakerHolds
    <2>1. CASE C!CallStart \/ C!Recheck
      <3>1. /\ refs' = refs /\ user.pc # "acquire"
            /\ \/ user'.pc = "waitSpeak" /\ sessions' = sessions
               \/ user'.pc = "acquire" /\ sessions' = sessions + 1
               \/ user'.pc = "free" /\ sessions' = sessions
        BY <2>1, UserEffects DEF C!CallStart, C!Recheck
      <3> QED
        BY <1>0, <2>a, <3>1 DEF RefsBound
    <2>2. CASE C!CallStop \/ C!WaitSpeak \/ C!StartCapture \/ C!CaptureFails \/ C!CloseCapture \/ C!Join
               \/ C!Finish
      <3>1. refs' = refs /\ sessions' = sessions /\ user.pc # "acquire"
        BY <2>2 DEF C!CallStop, C!WaitSpeak, C!StartCapture, C!CaptureFails, C!CloseCapture, C!Join,
                    C!Finish
      <3>2. user'.pc # "acquire"
        BY <2>2, UserEffects
      <3> QED
        BY <1>0, <2>a, <3>1, <3>2 DEF RefsBound
    <2>3. CASE C!Acquire
      <3>1. refs' = refs + 1 /\ sessions' = sessions /\ user.pc = "acquire" /\ user'.pc = "capture"
        BY <2>3, UserEffects DEF C!Acquire
      <3> QED
        BY <1>0, <2>a, <3>1 DEF RefsBound
    <2>4. CASE C!FailedJoin \/ C!Release
      <3>1. /\ refs' = (IF refs > 0 THEN refs - 1 ELSE 0) /\ sessions' = sessions
            /\ user.pc # "acquire"
        BY <2>4 DEF C!FailedJoin, C!Release
      <3>2. user'.pc # "acquire"
        BY <2>4, UserEffects
      <3> QED
        BY <1>0, <2>a, <3>1, <3>2 DEF RefsBound
    <2> QED
      BY <1>2, <2>1, <2>2, <2>3, <2>4 DEF C!UserStep
  <1>3. ASSUME NEW s \in Speakers, C!CallSpeak(s) \/ C!SpeakStep(s)
        PROVE  RefsBound'
    <2>0. /\ UNCHANGED <<user, sessions>>
          /\ talk \in Talks
          /\ \A t \in Speakers : t # s => talk'[t] = talk[t]
          /\ \A pc : C!Says(s, pc) => talk'[s] = pc
      BY <1>3, TalkEffects DEF ChannelTypes, Talks, C!Says
    <2>a. talk[s] \in {"acquire", "release"} =>
            \A t \in Speakers : t # s => talk[t] \notin {"play", "release"}
      BY DEF LockHeld
    <2>1. ASSUME refs' = refs, talk'[s] \in {"play", "release"} <=> talk[s] \in {"play", "release"}
          PROVE  RefsBound'
      <3>1. SpeakerHolds' <=> SpeakerHolds
        BY <2>0, <2>1 DEF SpeakerHolds
      <3> QED
        BY <2>0, <2>1, <3>1 DEF RefsBound
    <2>2. CASE C!CallSpeak(s) \/ C!TakeSpeakLock(s) \/ C!CheckIdle(s) \/ C!OpenPlayback(s)
               \/ C!Played(s)
      <3>1. refs' = refs
        BY <2>2 DEF C!CallSpeak, C!TakeSpeakLock, C!CheckIdle, C!OpenPlayback, C!Played
      <3>2. talk'[s] \in {"play", "release"} <=> talk[s] \in {"play", "release"}
        BY <2>0, <2>2 DEF C!CallSpeak, C!TakeSpeakLock, C!CheckIdle, C!OpenPlayback, C!Played
      <3> QED
        BY <2>1, <3>1, <3>2
    <2>3. CASE C!SpeakAcquires(s)
      <3>1. talk[s] = "acquire" /\ talk'[s] = "play" /\ refs' = refs + 1
        BY <2>0, <2>3 DEF C!SpeakAcquires
      <3>2. ~SpeakerHolds /\ SpeakerHolds'
        BY <2>a, <3>1 DEF SpeakerHolds
      <3> QED
        BY <1>0, <2>0, <3>1, <3>2 DEF RefsBound
    <2>4. CASE C!SpeakReleases(s)
      <3>1. talk[s] = "release" /\ talk'[s] = "free" /\ refs' = (IF refs > 0 THEN refs - 1 ELSE 0)
        BY <2>0, <2>4 DEF C!SpeakReleases
      <3>2. SpeakerHolds /\ ~SpeakerHolds'
        BY <2>0, <2>a, <3>1 DEF SpeakerHolds
      <3> QED
        BY <1>0, <2>0, <3>1, <3>2 DEF RefsBound
    <2> QED
      BY <1>3, <2>2, <2>3, <2>4 DEF C!SpeakStep
  <1> QED
    BY <1>1, <1>2, <1>3 DEF C!Next

ChannelFull == ChannelInv /\ OpenedBound /\ RefsBound

LEMMA ChannelFullInit == ASSUME ChannelAssumption, C!Init PROVE ChannelFull
  <1>1. ChannelInv
    BY ChannelInit
  <1>2. OpenedBound
    <2>1. ends = <<>> /\ MaxSessions \in Nat /\ MaxWarms \in Nat
      BY DEF C!Init, ChannelAssumption
    <2>2. ConnDone \in SUBSET (1..MaxSessions) /\ WarmDone \in SUBSET (1..MaxWarms)
      BY DEF ConnDone, WarmDone
    <2>3. Cardinality(ConnDone) \in Nat /\ Cardinality(WarmDone) \in Nat
      BY <2>1, <2>2, Counts
    <2>4. Len(ends) = 0
      BY <2>1
    <2> QED
      BY <2>3, <2>4 DEF OpenedBound
  <1>3. RefsBound
    BY DEF C!Init, RefsBound, SpeakerHolds
  <1> QED
    BY <1>1, <1>2, <1>3 DEF ChannelFull

LEMMA ChannelFullKept ==
  ASSUME ChannelAssumption, ChannelFull, [C!Next]_channelVars PROVE ChannelFull'
  <1>1. ChannelInv'
    BY ChannelInvKept DEF ChannelFull
  <1>2. CASE C!Next
    BY <1>1, <1>2, OpenedKept, RefsKept DEF ChannelFull, ChannelInv
  <1>3. CASE UNCHANGED channelVars
    BY <1>1, <1>3 DEF channelVars, ChannelFull, OpenedBound, ConnDone, WarmDone, RefsBound,
       SpeakerHolds
  <1> QED
    BY <1>2, <1>3

LEMMA ChannelShows == ASSUME ChannelAssumption, ChannelFull PROVE C!TypeOK
  <1>1. /\ MaxSessions \in Nat /\ MaxWarms \in Nat /\ IsFiniteSet(Speakers)
        /\ Cardinality(Speakers) \in Nat
    BY FS_CardinalityType DEF ChannelAssumption
  <1>2. C!Cardinality(Speakers) = Cardinality(Speakers)
    BY DEF C!Cardinality, Cardinality
  <1>3. Len(ends) \in Nat /\ Len(ends) <= MaxSessions + MaxWarms
    <2>1. ConnDone \in SUBSET (1..MaxSessions) /\ WarmDone \in SUBSET (1..MaxWarms)
      BY DEF ConnDone, WarmDone
    <2>2. Cardinality(ConnDone) \in Nat /\ Cardinality(ConnDone) <= MaxSessions
      BY <1>1, <2>1, Counts
    <2>3. Cardinality(WarmDone) \in Nat /\ Cardinality(WarmDone) <= MaxWarms
      BY <1>1, <2>1, Counts
    <2>4. Len(ends) \in Nat /\ Len(ends) <= Cardinality(ConnDone) + Cardinality(WarmDone)
      BY LenProperties DEF ChannelFull, ChannelInv, ChannelTypes, OpenedBound
    <2> QED
      BY <1>1, <2>2, <2>3, <2>4
  <1>4. \A n \in 0..Len(ends) : n \in C!Stream
    BY <1>1, <1>3 DEF C!Stream, C!MaxStreams
  <1>5. /\ slot \in 0..Len(ends) /\ warm \in 0..Len(ends) /\ rec.stream \in 0..Len(ends)
        /\ user.stream \in 0..Len(ends)
    <2>1. ChannelTypes /\ Owned(Held, ends) /\ Held \in [C!Places -> 0..Len(ends)]
      BY DEF ChannelFull, ChannelInv, Owned
    <2> QED
      BY <2>1, HeldFacts
  <1>6. user \in [pc : UserPcs, stream : C!Stream, withText : BOOLEAN]
    BY <1>4, <1>5 DEF ChannelFull, ChannelInv, ChannelTypes, Users
  <1>7. refs \in 0..(MaxSessions + Cardinality(Speakers))
    <2>1. refs \in Nat /\ sessions \in 0..MaxSessions /\ (user.pc = "acquire" => sessions # 0)
      BY DEF ChannelFull, ChannelInv, ChannelTypes, Protocol, UserKnows
    <2>2. SpeakerHolds => Cardinality(Speakers) # 0
      BY <1>1, FS_EmptySet DEF SpeakerHolds
    <2>3. refs <= (IF user.pc = "acquire" THEN sessions - 1 ELSE sessions)
                     + (IF SpeakerHolds THEN 1 ELSE 0)
      BY DEF ChannelFull, RefsBound
    <2> QED
      BY <1>1, <2>1, <2>2, <2>3
  <1> QED
    BY <1>2, <1>4, <1>5, <1>6, <1>7 DEF C!TypeOK, ChannelFull, ChannelInv, ChannelTypes, UserPcs

-----------------------------------------------------------------------------
(* The page and the lines of the camera. *)

Callbacks == {"stopTimer", "startSpi", "stopSpi", "failed", "failedBig"}
PageFlags == /\ busy \in BOOLEAN /\ fd \in BOOLEAN /\ active \in BOOLEAN /\ isBig \in BOOLEAN
             /\ timer \in BOOLEAN /\ spiTimer \in BOOLEAN
PageFile == /\ name \in K!Photos \cup {0} /\ image \in [K!FrameNos -> K!Photos \cup {0}]
            /\ bitmap \subseteq K!FrameNos
PageThreads == /\ posted \in Seq(Callbacks)
               /\ upc \in {"read", "arm", "ready", "activate"} /\ spc \in {"read", "decode"}
LineFrames == \A j \in 1..Len(wire) : /\ wire[j].photo \in K!Photos
                                      /\ wire[j].no # K!End => wire[j].no \in K!FrameNos
HubRounds == /\ left \subseteq K!FrameNos
             /\ round <= MaxRetrans /\ (hpc = "wait" => round < MaxRetrans)
CamPage == PageFlags /\ PageFile /\ PageThreads /\ LineFrames /\ HubRounds

(* With a patient user one message at most goes between the boards, and a    *)
(* transfer has the page for itself.                                         *)
Has(c) == \E k \in 1..Len(posted) : posted[k] = c
Fails == Has("failed") \/ Has("failedBig")
Opened == upc \in {"ready", "activate"} \/ active
Receiving == upc = "activate" \/ active
Transfer == Opened \/ spc = "decode"
OneMessage ==
  /\ Len(cmds) <= 1 /\ Len(down) <= 1
  /\ down # <<>> => cmds = <<>> /\ hpc = "idle" /\ ~Fails
  /\ hpc = "capturing" => cmds = <<>>
  /\ cmds # <<>> => /\ hpc = "idle"
                    /\ cmds[1].cmd # "captureReq" => ~Fails
                    /\ cmds[1].cmd = "ready" => wire = <<>>
  /\ down # <<>> /\ down[1].cmd = "imageAck" => down[1].photo = photo
Alone ==
  /\ Transfer => /\ busy /\ ~Fails /\ down = <<>> /\ hpc # "capturing" /\ name # 0 /\ name = photo
                 /\ timer => Has("stopTimer")
  /\ Transfer /\ cmds # <<>> => Receiving /\ cmds[1].cmd = "ready"
  /\ cmds # <<>> /\ cmds[1].cmd = "ready" => Receiving
  /\ fd <=> Opened
  /\ active => isBig
  /\ active \/ spc = "decode" => upc = "read"
  /\ spc = "decode" => ~active
  /\ hpc = "sending" \/ wire # <<>> => Receiving
  /\ upc = "ready" => hpc = "idle"

(* END is the last frame of its round, and an acknowledgement comes behind   *)
(* it: the hub has nothing to send again to a page that has the photo.       *)
IsEnd(j) == wire[j].no = K!End
LastOfRound ==
  /\ \A j \in 1..Len(wire) : IsEnd(j) => j = Len(wire) /\ hpc # "sending"
  /\ hpc = "wait" /\ acks # <<>> => \A j \in 1..Len(wire) : ~IsEnd(j)
  /\ hpc = "wait" => \A a \in 1..Len(acks) : acks[a].missing # {} => active

(* The file holds the frames of its photo that are marked. *)
Whole == \A f \in 1..Frames[name] : image[f] = name
FileHolds ==
  /\ \A j \in 1..Len(wire) : wire[j].photo = photo
  /\ Opened => total = Frames[name] /\ \A f \in bitmap : image[f] = name
  /\ spc = "decode" => Whole
  /\ ~busy /\ name # 0 => Whole
CamPatient == OneMessage /\ Alone /\ LastOfRound /\ FileHolds

(* What is posted, and what is left when a callback has run. *)
LEMMA PostFacts ==
  ASSUME posted \in Seq(Callbacks), NEW cs \in Seq(Callbacks), posted' = posted \o cs
  PROVE  /\ posted' \in Seq(Callbacks)
         /\ \A c : Has(c)' <=> Has(c) \/ \E k \in 1..Len(cs) : cs[k] = c
  <1>1. /\ Len(posted) \in Nat /\ Len(cs) \in Nat /\ Len(posted') = Len(posted) + Len(cs)
        /\ posted' \in Seq(Callbacks)
        /\ \A k \in 1..Len(posted) + Len(cs) :
             posted'[k] = IF k <= Len(posted) THEN posted[k] ELSE cs[k - Len(posted)]
    BY ConcatProperties, LenProperties
  <1>2. ASSUME NEW c, NEW k \in 1..Len(posted), posted[k] = c PROVE Has(c)'
    <2>1. k \in 1..Len(posted') /\ posted'[k] = c
      BY <1>1, <1>2
    <2> QED
      BY <2>1 DEF Has
  <1>3. ASSUME NEW c, NEW k \in 1..Len(cs), cs[k] = c PROVE Has(c)'
    <2>1. k + Len(posted) \in 1..Len(posted') /\ posted'[k + Len(posted)] = c
      <3>1. k + Len(posted) \in 1..Len(posted) + Len(cs) /\ ~(k + Len(posted) <= Len(posted))
            /\ (k + Len(posted)) - Len(posted) = k
        BY <1>1
      <3> QED
        BY <1>1, <1>3, <3>1
    <2> QED
      BY <2>1 DEF Has
  <1>4. ASSUME NEW c, NEW k \in 1..Len(posted'), posted'[k] = c
        PROVE  Has(c) \/ \E i \in 1..Len(cs) : cs[i] = c
    <2>1. CASE k <= Len(posted)
      BY <1>1, <1>4, <2>1 DEF Has
    <2>2. CASE ~(k <= Len(posted))
      <3>1. k - Len(posted) \in 1..Len(cs) /\ cs[k - Len(posted)] = c
        BY <1>1, <1>4, <2>2
      <3> QED
        BY <3>1
    <2> QED
      BY <2>1, <2>2
  <1>5. ASSUME NEW c PROVE Has(c)' <=> Has(c) \/ \E k \in 1..Len(cs) : cs[k] = c
    BY <1>2, <1>3, <1>4 DEF Has
  <1> QED
    BY <1>1, <1>5

LEMMA Posting ==
  ASSUME posted \in Seq(Callbacks)
  PROVE  /\ \A x \in Callbacks :
              K!Post(<<x>>) => posted' \in Seq(Callbacks) /\ \A c : Has(c)' <=> Has(c) \/ c = x
         /\ K!Post(<<"stopTimer", "failed">>) =>
              posted' \in Seq(Callbacks) /\ \A c : Has(c)' <=> Has(c) \/ c \in {"stopTimer", "failed"}
         /\ posted # <<>> /\ posted' = Tail(posted) =>
              /\ posted' \in Seq(Callbacks) /\ Head(posted) \in Callbacks /\ Has(Head(posted))
              /\ \A c : Has(c)' => Has(c)
              /\ \A c : Has(c) /\ c # Head(posted) => Has(c)'
         /\ posted = <<>> => \A c : ~Has(c)
         /\ posted' = posted => \A c : Has(c)' <=> Has(c)
  <1>1. ASSUME NEW x \in Callbacks, K!Post(<<x>>)
        PROVE  posted' \in Seq(Callbacks) /\ \A c : Has(c)' <=> Has(c) \/ c = x
    <2>1. <<x>> \in Seq(Callbacks) /\ Len(<<x>>) = 1 /\ <<x>>[1] = x
      OBVIOUS
    <2>2. posted' = posted \o <<x>>
      BY <1>1 DEF K!Post
    <2> DEFINE cs == <<x>>
    <2>3. cs \in Seq(Callbacks) /\ \A c : (\E k \in 1..Len(cs) : cs[k] = c) <=> c = x
      BY <2>1
    <2> HIDE DEF cs
    <2>4. posted' = posted \o cs
      BY <2>2 DEF cs
    <2> QED
      BY <2>3, <2>4, PostFacts
  <1>2. ASSUME K!Post(<<"stopTimer", "failed">>)
        PROVE  posted' \in Seq(Callbacks) /\ \A c : Has(c)' <=> Has(c) \/ c \in {"stopTimer", "failed"}
    <2> DEFINE cs == <<"stopTimer", "failed">>
    <2>1. cs \in Seq(Callbacks) /\ Len(cs) = 2 /\ cs[1] = "stopTimer" /\ cs[2] = "failed"
      BY DEF Callbacks
    <2>2. posted' = posted \o cs
      BY <1>2 DEF K!Post
    <2> HIDE DEF cs
    <2>3. \A c : (\E k \in 1..Len(cs) : cs[k] = c) <=> c \in {"stopTimer", "failed"}
      BY <2>1
    <2> QED
      BY <2>1, <2>2, <2>3, PostFacts
  <1>3. ASSUME posted # <<>>, posted' = Tail(posted)
        PROVE  /\ posted' \in Seq(Callbacks) /\ Head(posted) \in Callbacks /\ Has(Head(posted))
               /\ \A c : Has(c)' => Has(c)
               /\ \A c : Has(c) /\ c # Head(posted) => Has(c)'
    <2>1. /\ Len(posted) \in Nat \ {0} /\ Head(posted) = posted[1] /\ posted[1] \in Callbacks
          /\ posted' \in Seq(Callbacks) /\ Len(posted') = Len(posted) - 1
          /\ \A k \in 1..Len(posted) - 1 : posted'[k] = posted[k + 1]
      BY <1>3, TailFacts
    <2>2. 1 \in 1..Len(posted)
      BY <2>1
    <2>3. ASSUME NEW k \in 1..Len(posted') PROVE k + 1 \in 1..Len(posted) /\ posted'[k] = posted[k + 1]
      BY <2>1
    <2>4. ASSUME NEW k \in 1..Len(posted), k # 1
          PROVE  k - 1 \in 1..Len(posted') /\ posted'[k - 1] = posted[k]
      <3>1. k - 1 \in 1..Len(posted) - 1 /\ (k - 1) + 1 = k
        BY <2>1, <2>4
      <3> QED
        BY <2>1, <3>1
    <2>5. \A c : Has(c)' => Has(c)
      BY <2>3 DEF Has
    <2>6. ASSUME NEW c, Has(c), c # Head(posted) PROVE Has(c)'
      <3>1. PICK k \in 1..Len(posted) : posted[k] = c
        BY <2>6 DEF Has
      <3>2. k # 1
        BY <2>1, <2>6, <3>1
      <3> QED
        BY <2>4, <3>1, <3>2 DEF Has
    <2> QED
      BY <2>1, <2>2, <2>5, <2>6 DEF Has
  <1>4. posted = <<>> => \A c : ~Has(c)
    BY DEF Has
  <1>5. posted' = posted => \A c : Has(c)' <=> Has(c)
    BY DEF Has
  <1> QED
    BY <1>1, <1>2, <1>3, <1>4, <1>5

(* The frames of each photo are among those of the longest. *)
LEMMA FramesIn ==
  ASSUME CameraAssumption, NEW p \in K!Photos
  PROVE  K!FramesOf(p) \subseteq K!FrameNos
  <1> DEFINE Bound(k, m) == m \in Nat /\ \A q \in 1..k : Frames[q] <= m
             Unbounded == {k \in 0..Len(Frames) : ~\E m : Bound(k, m)}
             Bounds == {m \in Nat : Bound(Len(Frames), m)}
  <1>1. Len(Frames) \in Nat /\ \A q \in 1..Len(Frames) : Frames[q] \in Nat \ {0}
    BY LenProperties, ElementOfSeq DEF CameraAssumption
  <1>2. Unbounded = {}
    <2> SUFFICES ASSUME Unbounded # {} PROVE FALSE
      OBVIOUS
    <2>1. PICK k \in Unbounded : \A n \in Unbounded : k <= n
      <3>1. Unbounded \in SUBSET Nat
        OBVIOUS
      <3> QED
        BY <3>1, HasLeast
    <2>2. k \in 0..Len(Frames) /\ ~\E m : Bound(k, m)
      OBVIOUS
    <2>3. Bound(0, 0)
      OBVIOUS
    <2>4. k # 0
      BY <2>2, <2>3
    <2>5. /\ k \in 1..Len(Frames) /\ k - 1 \in 0..Len(Frames) /\ Frames[k] \in Nat
          /\ ~(k <= k - 1)
      <3> HIDE DEF Bound, Unbounded
      <3>1. k \in 1..Len(Frames) /\ k - 1 \in 0..Len(Frames) /\ ~(k <= k - 1)
        BY <1>1, <2>2, <2>4
      <3> QED
        BY <1>1, <3>1
    <2>6. PICK m : Bound(k - 1, m)
      <3>1. k - 1 \notin Unbounded
        <4> HIDE DEF Bound, Unbounded
        <4> QED
          BY <2>1, <2>5
      <3> QED
        BY <2>5, <3>1
    <2>7. m \in Nat /\ \A q \in 1..k - 1 : Frames[q] <= m
      BY <2>6
    <2> HIDE DEF Bound, Unbounded
    <2>8. PICK n \in Nat : n >= m /\ n >= Frames[k]
      <3>1. m \in Nat /\ Frames[k] \in Nat
        BY <2>5, <2>7
      <3> QED
        BY <3>1
    <2>9. ASSUME NEW q \in 1..k PROVE Frames[q] <= n
      <3>1. q \in 1..Len(Frames) /\ (q = k \/ q \in 1..k - 1)
        BY <1>1, <2>5
      <3>2. CASE q = k
        BY <2>5, <2>8, <3>2
      <3>3. CASE q \in 1..k - 1
        <4>1. Frames[q] <= m /\ Frames[q] \in Nat
          BY <1>1, <2>7, <3>1, <3>3
        <4>2. m \in Nat
          BY <2>7
        <4> QED
          BY <2>8, <4>1, <4>2
      <3> QED
        BY <3>1, <3>2, <3>3
    <2>10. Bound(k, n)
      BY <2>9 DEF Bound
    <2> QED
      BY <2>2, <2>10
  <1>3. Bounds # {}
    <2>1. Len(Frames) \in 0..Len(Frames)
      BY <1>1
    <2>2. PICK m : Bound(Len(Frames), m)
      BY <1>2, <2>1
    <2> QED
      BY <2>2
  <1>4. PICK least \in Bounds : \A m \in Bounds : least <= m
    <2>1. Bounds \in SUBSET Nat
      OBVIOUS
    <2> QED
      BY <1>3, <2>1, HasLeast
  <1>5. least \in Nat /\ \A q \in 1..Len(Frames) : Frames[q] <= least
    OBVIOUS
  <1>6. p \in 1..Len(Frames) /\ Frames[p] \in Nat \ {0}
    BY <1>1 DEF K!Photos
  <1>7. \E q \in 1..Len(Frames) : Frames[q] = least
    <2> SUFFICES ASSUME \A q \in 1..Len(Frames) : Frames[q] # least PROVE FALSE
      OBVIOUS
    <2>1. Frames[p] <= least
      BY <1>5, <1>6
    <2>2. least - 1 \in Nat
      BY <1>5, <1>6, <2>1
    <2>3. ASSUME NEW q \in 1..Len(Frames) PROVE Frames[q] <= least - 1
      <3>1. Frames[q] \in Nat /\ Frames[q] # least /\ Frames[q] <= least
        BY <1>1, <1>5
      <3> QED
        BY <1>5, <3>1
    <2>4. least - 1 \in Bounds
      BY <2>2, <2>3
    <2>5. least <= least - 1
      BY <1>4, <2>4
    <2> QED
      BY <1>5, <2>5
  <1> HIDE DEF Bound, Unbounded, Bounds
  <1> DEFINE Sizes == {Frames[q] : q \in K!Photos}
             Largest == CHOOSE n \in Sizes : \A q \in K!Photos : Frames[q] <= n
  <1>8. Largest \in Sizes /\ \A q \in K!Photos : Frames[q] <= Largest
    <2>1. least \in Sizes /\ \A q \in K!Photos : Frames[q] <= least
      BY <1>5, <1>7 DEF K!Photos
    <2> QED
      BY <2>1
  <1>9. Largest \in Nat /\ Frames[p] <= Largest
    BY <1>1, <1>8 DEF K!Photos
  <1>10. K!FrameNos = 1..Largest
    BY DEF K!FrameNos
  <1> HIDE DEF Largest
  <1> QED
    BY <1>6, <1>9, <1>10 DEF K!FramesOf

-----------------------------------------------------------------------------
(* The types of the page. *)

LEMMA PageFlagsKept == ASSUME PageFlags, K!Next PROVE PageFlags'
  <1> USE DEF K!pageVars, K!transferVars, K!lineVars
  <1>1. CASE K!Press
    BY <1>1 DEF K!Press, PageFlags
  <1>2. CASE K!LvglStep
    <2>1. \A big \in BOOLEAN : K!Failure(big) =>
            /\ busy' \in BOOLEAN /\ fd' \in BOOLEAN /\ active' \in BOOLEAN /\ isBig' \in BOOLEAN
      BY DEF K!Failure, PageFlags
    <2>2. timer' \in BOOLEAN /\ spiTimer' \in BOOLEAN
      BY <1>2 DEF K!LvglStep, K!Callback, K!TimeOut, K!SpiTimeOut, PageFlags
    <2>3. (\E big \in BOOLEAN : K!Failure(big)) \/ UNCHANGED <<busy, fd, active, isBig>>
      BY <1>2 DEF K!LvglStep, K!Callback, K!TimeOut, K!SpiTimeOut, PageFlags
    <2> QED
      BY <2>1, <2>2, <2>3 DEF PageFlags
  <1>3. CASE K!UartStep
    BY <1>3 DEF K!UartStep, K!LateAnswer, K!CaptureAck, K!Arm, K!CaptureFail, K!ImageAck,
       K!OpenFails,
                K!Ready, K!Activate, PageFlags
  <1>4. CASE K!SpiStep
    BY <1>4 DEF K!SpiStep, K!Data, K!EndFrame, K!Decoded, PageFlags
  <1>5. CASE K!HubStep
    BY <1>5 DEF K!HubStep, K!CaptureReq, K!DoCapture, K!GetImage, K!ReadyBig, K!SendFrame, K!Drain,
                K!WaitAck, K!AckTimeOut, PageFlags
  <1> QED
    BY <1>1, <1>2, <1>3, <1>4, <1>5 DEF K!Next

LEMMA PageFileKept ==
  ASSUME CameraTypes, PageFile, LineFrames, K!Next
  PROVE  PageFile'
  <1> USE DEF K!pageVars, K!transferVars, K!lineVars
  <1>0. 0 \in K!Photos \cup {0}
    OBVIOUS
  <1>1. CASE K!Press
    BY <1>1 DEF K!Press, PageFile
  <1>2. CASE K!LvglStep
    <2>1. name' \in {name, 0} /\ UNCHANGED <<image, bitmap>>
      BY <1>2 DEF K!LvglStep, K!Callback, K!TimeOut, K!SpiTimeOut, K!Failure
    <2> QED
      BY <2>1 DEF PageFile
  <1>3. CASE K!LateAnswer \/ K!CaptureAck \/ K!Arm \/ K!CaptureFail \/ K!Ready \/ K!Activate
             \/ K!EndFrame \/ K!Decoded
    <2>1. UNCHANGED <<name, image, bitmap>>
      BY <1>3 DEF K!LateAnswer, K!CaptureAck, K!Arm, K!CaptureFail, K!Ready, K!Activate, K!EndFrame,
                  K!Decoded
    <2> QED
      BY <2>1 DEF PageFile
  <1>4. CASE K!ImageAck \/ K!OpenFails
    <2>1. down # <<>> /\ Head(down).cmd = "imageAck" /\ name' = Head(down).photo
      BY <1>4 DEF K!ImageAck, K!OpenFails, K!Received
    <2>2. Head(down) \in Answers
      BY <2>1, TailFacts DEF CameraTypes
    <2>3. name' \in K!Photos
      BY <2>1, <2>2 DEF Answers, K!Photos
    <2>4. \/ image' = [f \in K!FrameNos |-> 0] /\ bitmap' = {}
          \/ UNCHANGED <<image, bitmap>>
      BY <1>4 DEF K!ImageAck, K!OpenFails
    <2> QED
      BY <2>3, <2>4 DEF PageFile
  <1>5. CASE K!Data
    <2> DEFINE f == Head(wire)
    <2>1. /\ wire # <<>> /\ f.no # K!End /\ name' = name
          /\ \/ image' = [image EXCEPT ![f.no] = f.photo] /\ bitmap' = bitmap \cup {f.no}
             \/ UNCHANGED <<image, bitmap>>
      BY <1>5 DEF K!Data, K!Reading, K!NextFrame
    <2>2. f.photo \in K!Photos /\ f.no \in K!FrameNos
      <3>1. f = wire[1] /\ 1 \in 1..Len(wire)
        BY <2>1, TailFacts DEF CameraTypes
      <3> QED
        BY <2>1, <3>1 DEF LineFrames
    <2> HIDE DEF f
    <2> QED
      BY <2>1, <2>2 DEF PageFile
  <1>6. CASE K!HubStep
    <2>1. UNCHANGED <<name, image, bitmap>>
      BY <1>6 DEF K!HubStep, K!CaptureReq, K!DoCapture, K!GetImage, K!ReadyBig, K!SendFrame,
         K!Drain,
                  K!WaitAck, K!AckTimeOut
    <2> QED
      BY <2>1 DEF PageFile
  <1> QED
    BY <1>1, <1>2, <1>3, <1>4, <1>5, <1>6 DEF K!Next, K!UartStep, K!SpiStep

LEMMA PageThreadsKept == ASSUME PageThreads, K!Next PROVE PageThreads'
  <1> USE DEF K!pageVars, K!transferVars, K!lineVars
  <1>0. /\ posted \in Seq(Callbacks) /\ "stopTimer" \in Callbacks /\ "startSpi" \in Callbacks
        /\ "stopSpi" \in Callbacks /\ "failedBig" \in Callbacks
    BY DEF PageThreads, Callbacks
  <1>1. CASE K!Press \/ K!LvglStep
    <2>1. UNCHANGED <<upc, spc>>
      BY <1>1 DEF K!Press, K!LvglStep, K!Callback, K!TimeOut, K!SpiTimeOut
    <2>2. posted' = posted \/ (posted # <<>> /\ posted' = Tail(posted))
      BY <1>1 DEF K!Press, K!LvglStep, K!Callback, K!TimeOut, K!SpiTimeOut
    <2>3. posted' \in Seq(Callbacks)
      BY <1>0, <2>2, Posting
    <2> QED
      BY <2>1, <2>3 DEF PageThreads
  <1>2. CASE K!UartStep \/ K!SpiStep
    <2>1. upc' \in {"read", "arm", "ready", "activate"} /\ spc' \in {"read", "decode"}
      BY <1>2 DEF PageThreads, K!UartStep, K!LateAnswer, K!CaptureAck, K!Arm, K!CaptureFail,
         K!ImageAck,
                  K!OpenFails, K!Ready, K!Activate, K!SpiStep, K!Data, K!EndFrame, K!Decoded
    <2>2. \/ posted' = posted \/ K!Post(<<"stopTimer">>) \/ K!Post(<<"stopTimer", "failed">>)
          \/ K!Post(<<"startSpi">>) \/ K!Post(<<"stopSpi">>) \/ K!Post(<<"failedBig">>)
      BY <1>2 DEF K!UartStep, K!LateAnswer, K!CaptureAck, K!Arm, K!CaptureFail, K!ImageAck,
                  K!OpenFails, K!Ready, K!Activate, K!SpiStep, K!Data, K!EndFrame, K!Decoded
    <2>3. posted' \in Seq(Callbacks)
      BY <1>0, <2>2, Posting
    <2> QED
      BY <2>1, <2>3 DEF PageThreads
  <1>3. CASE K!HubStep
    <2>1. UNCHANGED <<posted, upc, spc>>
      BY <1>3 DEF K!HubStep, K!CaptureReq, K!DoCapture, K!GetImage, K!ReadyBig, K!SendFrame,
         K!Drain,
                  K!WaitAck, K!AckTimeOut
    <2> QED
      BY <2>1 DEF PageThreads
  <1> QED
    BY <1>1, <1>2, <1>3 DEF K!Next

(* What a step does to the line: nothing, or it is flushed, or the page      *)
(* reads the first frame, or the hub sends the next one.                     *)
LEMMA OnTheLine ==
  ASSUME K!Next
  PROVE  \/ wire' = wire
         \/ K!SpiTimeOut /\ wire' = <<>>
         \/ (K!Data \/ K!EndFrame) /\ wire # <<>> /\ wire' = Tail(wire)
         \/ K!SendFrame /\ wire' = Append(wire, [no |-> K!NextNo, photo |-> photo, sid |-> sid])
  <1> USE DEF K!pageVars, K!transferVars, K!lineVars
  <1>1. CASE K!Press \/ K!LvglStep
    BY <1>1 DEF K!Press, K!LvglStep, K!Callback, K!TimeOut, K!SpiTimeOut
  <1>2. CASE K!UartStep
    BY <1>2 DEF K!UartStep, K!LateAnswer, K!CaptureAck, K!Arm, K!CaptureFail, K!ImageAck,
       K!OpenFails,
                K!Ready, K!Activate
  <1>3. CASE K!SpiStep
    BY <1>3 DEF K!SpiStep, K!Data, K!EndFrame, K!Decoded, K!Reading
  <1>4. CASE K!HubStep
    BY <1>4 DEF K!HubStep, K!CaptureReq, K!DoCapture, K!GetImage, K!ReadyBig, K!SendFrame, K!Drain,
                K!WaitAck, K!AckTimeOut
  <1> QED
    BY <1>1, <1>2, <1>3, <1>4 DEF K!Next

(* The frames on the line then are those that were there, less the first,    *)
(* or with the one that is sent.                                             *)
LEMMA LineThen ==
  ASSUME CameraAssumption, CameraTypes, K!Next, NEW j \in 1..Len(wire')
  PROVE  \/ j \in 1..Len(wire) /\ wire'[j] = wire[j] /\ (wire' = wire \/ j # Len(wire'))
         \/ j + 1 \in 1..Len(wire) /\ wire'[j] = wire[j + 1] /\ Len(wire') = Len(wire) - 1
         \/ /\ K!SendFrame /\ j = Len(wire')
            /\ wire'[j] = [no |-> K!NextNo, photo |-> photo, sid |-> sid]
  <1> DEFINE f == [no |-> K!NextNo, photo |-> photo, sid |-> sid]
  <1>0. wire \in Seq(SpiFrames) /\ f \in SpiFrames
    BY Messages DEF CameraTypes
  <1> HIDE DEF f
  <1>1. CASE wire' = wire
    BY <1>1
  <1>2. CASE wire' = <<>>
    BY <1>2
  <1>3. CASE wire # <<>> /\ wire' = Tail(wire)
    <2>1. /\ Len(wire) \in Nat \ {0} /\ Len(wire') = Len(wire) - 1
          /\ \A k \in 1..Len(wire) - 1 : wire'[k] = wire[k + 1]
      BY <1>0, <1>3, TailFacts
    <2> QED
      BY <2>1
  <1>4. CASE K!SendFrame /\ wire' = Append(wire, f)
    <2>1. /\ Len(wire) \in Nat /\ Len(wire') = Len(wire) + 1
          /\ \A k \in 1..Len(wire) : wire'[k] = wire[k]
          /\ wire'[Len(wire) + 1] = f
      BY <1>0, <1>4, AppendFacts
    <2>2. (j \in 1..Len(wire) /\ j # Len(wire')) \/ j = Len(wire')
      BY <2>1
    <2> QED
      BY <1>4, <2>1, <2>2 DEF f
  <1> QED
    BY <1>1, <1>2, <1>3, <1>4, OnTheLine DEF f

LEMMA LineFramesKept ==
  ASSUME CameraAssumption, CameraTypes, LineFrames, HubRounds, K!Next
  PROVE  LineFrames'
  <1>1. ASSUME NEW j \in 1..Len(wire')
        PROVE  wire'[j].photo \in K!Photos /\ (wire'[j].no # K!End => wire'[j].no \in K!FrameNos)
    <2>1. CASE j \in 1..Len(wire) /\ wire'[j] = wire[j]
      BY <2>1 DEF LineFrames
    <2>2. CASE j + 1 \in 1..Len(wire) /\ wire'[j] = wire[j + 1]
      BY <2>2 DEF LineFrames
    <2>3. CASE K!SendFrame /\ wire'[j] = [no |-> K!NextNo, photo |-> photo, sid |-> sid]
      <3>1. photo # 0 /\ photo \in 0..Len(Frames) /\ Len(Frames) \in Nat
        BY <2>3, LenProperties DEF K!SendFrame, CameraTypes, CameraAssumption
      <3>2. K!NextNo # K!End => K!NextNo \in left
        BY HasLeast DEF CameraTypes, K!NextNo
      <3>3. wire'[j].photo = photo /\ wire'[j].no = K!NextNo
        BY <2>3
      <3>4. photo \in K!Photos
        BY <3>1 DEF K!Photos
      <3> QED
        BY <3>2, <3>3, <3>4 DEF HubRounds
    <2> QED
      BY <2>1, <2>2, <2>3, LineThen
  <1>2. K!Photos' = K!Photos /\ K!FrameNos' = K!FrameNos /\ K!End' = K!End
    BY DEF K!Photos, K!FrameNos, K!End
  <1> QED
    BY <1>1 DEF LineFrames

LEMMA HubRoundsKept ==
  ASSUME CameraAssumption, CameraTypes, HubRounds, K!Next
  PROVE  HubRounds'
  <1> USE DEF K!pageVars, K!transferVars, K!lineVars, K!hubVars
  <1>0. round \in Nat /\ MaxRetrans \in Nat
    BY DEF CameraTypes, CameraAssumption
  <1>1. CASE K!Press \/ K!LvglStep \/ K!UartStep \/ K!SpiStep
    <2>1. UNCHANGED <<left, round, hpc>>
      BY <1>1 DEF K!Press, K!LvglStep, K!Callback, K!TimeOut, K!SpiTimeOut, K!UartStep,
         K!LateAnswer,
                  K!CaptureAck, K!Arm, K!CaptureFail, K!ImageAck, K!OpenFails, K!Ready, K!Activate,
                  K!SpiStep, K!Data, K!EndFrame, K!Decoded
    <2> QED
      BY <2>1 DEF HubRounds
  <1>2. CASE K!CaptureReq \/ K!DoCapture \/ K!GetImage
    <2>1. UNCHANGED <<left, round>> /\ hpc' # "wait"
      BY <1>2 DEF K!CaptureReq, K!DoCapture, K!GetImage, K!Command
    <2> QED
      BY <2>1 DEF HubRounds
  <1>3. CASE K!ReadyBig
    <2>1. photo # 0 /\ left' = K!FramesOf(photo) /\ round' = 0 /\ hpc' = "sending"
      BY <1>3 DEF K!ReadyBig
    <2>2. photo \in K!Photos
      BY <2>1, LenProperties DEF CameraTypes, CameraAssumption, K!Photos
    <2> QED
      BY <1>0, <2>1, <2>2, FramesIn DEF HubRounds
  <1>4. CASE K!SendFrame \/ K!Drain
    <2>1. /\ left' \subseteq left /\ round' = round
          /\ hpc' = "wait" => round # MaxRetrans
      BY <1>4 DEF K!SendFrame, K!Drain
    <2> QED
      BY <1>0, <2>1 DEF HubRounds
  <1>5. CASE K!WaitAck \/ K!AckTimeOut
    <2>1. /\ hpc = "wait" /\ photo \in K!Photos
          /\ left' = left \/ left' \subseteq K!FramesOf(photo)
          /\ round' = round \/ (round' = round + 1 /\ hpc' # "wait")
      <3>1. hpc = "wait" /\ photo \in K!Photos
        BY <1>5, LenProperties DEF K!WaitAck, K!AckTimeOut, CameraTypes, CameraAssumption, K!Photos
      <3> QED
        BY <1>5, <3>1 DEF K!WaitAck, K!AckTimeOut
    <2>2. left' \subseteq K!FrameNos
      BY <2>1, FramesIn DEF HubRounds
    <2> QED
      BY <1>0, <2>1, <2>2 DEF HubRounds
  <1> QED
    BY <1>1, <1>2, <1>3, <1>4, <1>5 DEF K!Next, K!HubStep

LEMMA CamPageInit == ASSUME CameraAssumption, K!Init PROVE CamPage
  <1>1. PageFlags /\ PageThreads
    <2>1. posted = <<>> /\ upc = "read" /\ spc = "read"
      BY DEF K!Init
    <2>2. PageThreads
      BY <2>1 DEF PageThreads
    <2>3. PageFlags
      BY DEF K!Init, PageFlags
    <2> QED
      BY <2>2, <2>3
  <1>3. PageFile
    <2>1. name = 0 /\ bitmap = {} /\ image = [f \in K!FrameNos |-> 0]
      BY DEF K!Init
    <2> QED
      BY <2>1 DEF PageFile
  <1>2. LineFrames /\ HubRounds
    BY DEF K!Init, LineFrames, HubRounds, CameraAssumption
  <1> QED
    BY <1>1, <1>2, <1>3 DEF CamPage

LEMMA CamPageKept ==
  ASSUME CameraAssumption, CameraInv, CamPage, [K!Next]_cameraVars
  PROVE  CamPage'
  <1>1. CASE K!Next
    BY <1>1, PageFlagsKept, PageFileKept, PageThreadsKept, LineFramesKept, HubRoundsKept
       DEF CamPage, CameraInv
  <1>2. CASE UNCHANGED cameraVars
    BY <1>2 DEF cameraVars, CamPage, PageFlags, PageFile, PageThreads, LineFrames, HubRounds
  <1> QED
    BY <1>1, <1>2

LEMMA CamPageShows == ASSUME CameraAssumption, CameraInv, CamPage PROVE K!TypeOK
  <1>1. photo \in K!Photos \cup {0}
    BY LenProperties DEF CameraInv, CameraTypes, CameraAssumption, K!Photos
  <1>2. round \in 0..MaxRetrans
    BY DEF CameraInv, CameraTypes, CameraAssumption, CamPage, HubRounds
  <1>3. /\ nframes \in Nat /\ total \in Nat /\ session \in Nat
        /\ hpc \in {"idle", "capturing", "sending", "drain", "wait"}
    BY DEF CameraInv, CameraTypes
  <1>4. PageFlags /\ PageFile /\ PageThreads /\ left \subseteq K!FrameNos
    BY DEF CamPage, HubRounds
  <1> QED
    BY <1>1, <1>2, <1>3, <1>4 DEF K!TypeOK, PageFlags, PageFile, PageThreads, Callbacks

-----------------------------------------------------------------------------
(* One message at a time. *)

\* What a queue of one message is when it is read and when it is sent to.
LEMMA OneInLine ==
  ASSUME CameraTypes, OneMessage
  PROVE  /\ cmds # <<>> => Tail(cmds) = <<>> /\ Head(cmds) = cmds[1] /\ cmds[1] \in Commands
         /\ down # <<>> => Tail(down) = <<>> /\ Head(down) = down[1] /\ down[1] \in Answers
         /\ Len(<<>>) = 0
  <1>1. cmds # <<>> => Tail(cmds) = <<>> /\ Head(cmds) = cmds[1] /\ cmds[1] \in Commands
    <2>1. SUFFICES ASSUME cmds # <<>>
                   PROVE  Tail(cmds) = <<>> /\ Head(cmds) = cmds[1] /\ cmds[1] \in Commands
      OBVIOUS
    <2>2. /\ Len(cmds) \in Nat \ {0} /\ Head(cmds) = cmds[1] /\ cmds[1] \in Commands
          /\ Tail(cmds) \in Seq(Commands) /\ Len(Tail(cmds)) = Len(cmds) - 1
      BY <2>1, TailFacts DEF CameraTypes
    <2>3. Len(Tail(cmds)) = 0
      BY <2>2 DEF OneMessage
    <2> QED
      BY <2>2, <2>3, EmptySeq
  <1>2. down # <<>> => Tail(down) = <<>> /\ Head(down) = down[1] /\ down[1] \in Answers
    <2>1. SUFFICES ASSUME down # <<>>
                   PROVE  Tail(down) = <<>> /\ Head(down) = down[1] /\ down[1] \in Answers
      OBVIOUS
    <2>2. /\ Len(down) \in Nat \ {0} /\ Head(down) = down[1] /\ down[1] \in Answers
          /\ Tail(down) \in Seq(Answers) /\ Len(Tail(down)) = Len(down) - 1
      BY <2>1, TailFacts DEF CameraTypes
    <2>3. Len(Tail(down)) = 0
      BY <2>2 DEF OneMessage
    <2> QED
      BY <2>2, <2>3, EmptySeq
  <1> QED
    BY <1>1, <1>2

\* What is sent on a line that is free is the one message there, or is lost.
LEMMA OneSent ==
  ASSUME NEW q, NEW r, NEW m, q = <<>>, r = q \/ r = Append(q, m)
  PROVE  /\ Len(r) <= 1
         /\ r # <<>> => r[1] = m
  <1>1. Append(<<>>, m) # <<>> /\ Len(Append(<<>>, m)) = 1 /\ Append(<<>>, m)[1] = m
    OBVIOUS
  <1>2. CASE r = <<>>
    <2>1. Len(r) = 0
      BY <1>2
    <2> QED
      BY <1>2, <2>1
  <1>3. CASE r = Append(<<>>, m)
    BY <1>1, <1>3
  <1> QED
    BY <1>2, <1>3

LEMMA EmptyLen ==
  ASSUME NEW q, q = <<>>
  PROVE  Len(q) <= 1
  OBVIOUS

Calm == CameraTypes /\ CamPage /\ CamPatient

LEMMA PressCalm ==
  ASSUME PatientUser, CameraAssumption, Calm, K!Press
  PROVE  OneMessage' /\ Alone'
  <1>1. /\ ~busy /\ hpc = "idle" /\ cmds = <<>> /\ down' = <<>>
        /\ busy' = TRUE /\ name' = 0 /\ timer' = TRUE
        /\ UNCHANGED <<posted, upc, spc, active, isBig, fd, wire, hpc, photo>>
    BY DEF K!Press, K!HubAtRest, K!hubVars
  <1>2. Len(cmds') <= 1 /\ (cmds' # <<>> => cmds'[1].cmd = "captureReq")
    <2>1. cmds' = cmds \/ cmds' = Append(cmds, [cmd |-> "captureReq"])
      BY DEF K!Press, K!ToHub, K!Transmit
    <2>2. Len(cmds') <= 1
      BY <1>1, <2>1, OneSent
    <2>3. cmds' # <<>> => cmds'[1] = [cmd |-> "captureReq"]
      BY <1>1, <2>1, OneSent
    <2> QED
      BY <2>2, <2>3
  <1>3. ~Transfer /\ wire = <<>> /\ Len(<<>>) = 0
    BY <1>1 DEF Calm, CamPatient, Alone, Transfer, Opened, Receiving
  <1>4. ~Transfer' /\ ~Opened' /\ (Fails' <=> Fails)
    BY <1>1, <1>3 DEF Transfer, Opened, Fails, Has
  <1>5. OneMessage'
    <2>1. Len(cmds') <= 1 /\ Len(down') <= 1
      BY <1>1, <1>2, <1>3, EmptyLen
    <2>2. down' = <<>> /\ hpc' = "idle" /\ (cmds' # <<>> => cmds'[1].cmd = "captureReq")
      BY <1>1, <1>2
    <2> QED
      BY <2>1, <2>2 DEF OneMessage
  <1>6. Alone'
    BY <1>1, <1>2, <1>3, <1>4 DEF Calm, CamPatient, Alone, Opened, Transfer
  <1> QED
    BY <1>5, <1>6

LEMMA LvglCalm ==
  ASSUME CameraAssumption, Calm, K!LvglStep
  PROVE  OneMessage' /\ Alone'
  <1> USE DEF K!hubVars, K!transferVars
  <1>0. OneMessage /\ Alone /\ posted \in Seq(Callbacks)
    BY DEF Calm, CamPatient, CamPage, PageThreads
  <1>1. /\ UNCHANGED <<upc, spc, down, hpc, photo, cmds, acks>>
        /\ wire' = wire \/ wire' = <<>>
    BY DEF K!LvglStep, K!Callback, K!TimeOut, K!SpiTimeOut
  <1>2. \A c : Has(c)' => Has(c)
    <2>1. posted' = posted \/ (posted # <<>> /\ posted' = Tail(posted))
      BY DEF K!LvglStep, K!Callback, K!TimeOut, K!SpiTimeOut
    <2> QED
      BY <1>0, <2>1, Posting
  <1>3. OneMessage'
    BY <1>0, <1>1, <1>2 DEF OneMessage, Fails
  <1>4. ASSUME NEW big, K!Failure(big), ~fd \/ big, upc = "read", spc = "read", wire' = <<>>,
               hpc # "sending", cmds # <<>> => cmds[1].cmd # "ready"
        PROVE  Alone'
    <2>1. busy' = FALSE /\ name' = 0 /\ active' = FALSE /\ isBig' = FALSE /\ ~fd'
      BY <1>4 DEF K!Failure
    <2>2. ~Transfer' /\ ~Opened' /\ upc' # "ready"
      BY <1>1, <1>4, <2>1 DEF Transfer, Opened
    <2> QED
      BY <1>1, <1>4, <2>1, <2>2 DEF Alone
  <1>5. CASE K!Callback
    <2>1. posted # <<>> /\ posted' = Tail(posted) /\ wire' = wire
      BY <1>5 DEF K!Callback
    <2>2. Has(Head(posted)) /\ \A c : Has(c) /\ c # Head(posted) => Has(c)'
      BY <1>0, <2>1, Posting
    <2>3. CASE Head(posted) \in {"failed", "failedBig"}
      <3>1. Fails
        BY <2>2, <2>3 DEF Fails
      <3>2. ~Transfer /\ ~fd /\ wire = <<>> /\ hpc # "sending"
        BY <1>0, <3>1 DEF Alone, Transfer, Opened, Receiving
      <3>3. cmds # <<>> => cmds[1].cmd # "ready"
        BY <1>0, <3>1 DEF OneMessage
      <3>4. \E big \in BOOLEAN : K!Failure(big)
        BY <1>5, <2>3 DEF K!Callback
      <3>5. ~Transfer' /\ ~Opened' /\ ~fd' /\ busy' = FALSE /\ name' = 0 /\ active' = FALSE
        BY <1>1, <3>2, <3>4 DEF K!Failure, Transfer, Opened
      <3> QED
        BY <1>0, <1>1, <1>3, <2>1, <3>2, <3>3, <3>5 DEF Alone
    <2>4. CASE Head(posted) \notin {"failed", "failedBig"}
      <3>1. UNCHANGED <<busy, name, active, isBig, fd>>
        BY <1>5, <2>4 DEF K!Callback
      <3>2. timer' => timer /\ Head(posted) # "stopTimer"
        BY <1>5, <2>4 DEF K!Callback
      <3>3. timer' /\ Has("stopTimer") => Has("stopTimer")'
        BY <2>2, <3>2
      <3>4. Fails' => Fails
        BY <1>2 DEF Fails
      <3>5. (Transfer' <=> Transfer) /\ (Opened' <=> Opened) /\ (Receiving' <=> Receiving)
        BY <1>1, <3>1 DEF Transfer, Opened, Receiving
      <3> QED
        BY <1>0, <1>1, <1>3, <2>1, <3>1, <3>2, <3>3, <3>4, <3>5 DEF Alone
    <2> QED
      BY <2>3, <2>4
  <1>6. CASE K!TimeOut
    <2>1. timer /\ posted = <<>> /\ upc = "read" /\ spc = "read" /\ wire' = wire /\ K!Failure(FALSE)
      BY <1>6 DEF K!TimeOut, K!PageAtRest
    <2>2. ~Has("stopTimer")
      BY <1>0, <2>1, Posting
    <2>3. ~Transfer
      BY <1>0, <2>1, <2>2 DEF Alone
    <2>4. ~fd /\ wire = <<>> /\ hpc # "sending" /\ (cmds # <<>> => cmds[1].cmd # "ready")
      BY <1>0, <2>3 DEF Alone, Transfer, Opened, Receiving
    <2> QED
      BY <1>3, <1>4, <2>1, <2>4
  <1>7. CASE K!SpiTimeOut
    <2>1. /\ upc = "read" /\ spc = "read" /\ wire' = <<>> /\ K!Failure(isBig)
          /\ hpc = "capturing" \/ (hpc = "idle" /\ cmds = <<>>)
      BY <1>7 DEF K!SpiTimeOut, K!PageAtRest, K!HubAtRest
    <2>2. cmds = <<>> /\ hpc # "sending"
      BY <1>0, <2>1 DEF OneMessage
    <2>3. ~fd \/ isBig
      BY <1>0, <2>1 DEF Alone, Opened
    <2> QED
      BY <1>3, <1>4, <2>1, <2>2, <2>3
  <1> QED
    BY <1>3, <1>5, <1>6, <1>7 DEF K!LvglStep

LEMMA UartCalm ==
  ASSUME CameraAssumption, Calm, K!UartStep
  PROVE  OneMessage' /\ Alone'
  <1> USE DEF K!pageVars, K!transferVars, K!lineVars, K!hubVars
  <1>0. /\ OneMessage /\ Alone /\ posted \in Seq(Callbacks) /\ CameraTypes
        /\ "stopTimer" \in Callbacks /\ "startSpi" \in Callbacks
    BY DEF Calm, CamPatient, CamPage, PageThreads, Callbacks
  <1>a. /\ cmds # <<>> => Head(cmds) = cmds[1]
        /\ down # <<>> => Tail(down) = <<>> /\ Head(down) = down[1] /\ down[1] \in Answers
        /\ Len(<<>>) = 0
    BY <1>0, OneInLine
  <1>b. down # <<>> => /\ ~Transfer /\ ~Fails /\ cmds = <<>> /\ hpc = "idle" /\ ~fd /\ wire = <<>>
    BY <1>0 DEF OneMessage, Alone, Transfer, Opened, Receiving
  <1>1. CASE K!LateAnswer
    <2>1. /\ down # <<>> /\ down' = <<>>
          /\ UNCHANGED <<busy, name, fd, active, isBig, timer, posted, upc, spc, wire, hpc, photo, cmds>>
      BY <1>1, <1>a DEF K!LateAnswer
    <2>2. (Fails' <=> Fails) /\ (Transfer' <=> Transfer) /\ (Opened' <=> Opened)
      BY <2>1 DEF Fails, Has, Transfer, Opened
    <2> QED
      BY <1>0, <1>a, <1>b, <2>1, <2>2 DEF OneMessage, Alone
  <1>2. CASE K!CaptureAck
    <2>1. /\ down # <<>> /\ down' = <<>> /\ upc = "read" /\ upc' = "arm" /\ K!Post(<<"stopTimer">>)
          /\ UNCHANGED <<busy, name, fd, active, isBig, timer, spc, wire, hpc, photo>>
      BY <1>2 DEF K!CaptureAck, K!Received
    <2>2. Len(cmds') <= 1 /\ (cmds' # <<>> => cmds'[1].cmd = "getImage")
      <3>1. cmds' = cmds \/ cmds' = Append(cmds, [cmd |-> "getImage"])
        BY <1>2 DEF K!CaptureAck, K!ToHub, K!Transmit
      <3>2. Len(cmds') <= 1
        BY <1>b, <2>1, <3>1, OneSent
      <3>3. cmds' # <<>> => cmds'[1] = [cmd |-> "getImage"]
        BY <1>b, <2>1, <3>1, OneSent
      <3> QED
        BY <3>2, <3>3
    <2>3. ~Fails'
      BY <1>0, <1>b, <2>1, Posting DEF Fails
    <2>4. ~Transfer' /\ ~Opened'
      BY <1>b, <2>1 DEF Transfer, Opened
    <2>5. OneMessage'
      <3>1. Len(cmds') <= 1 /\ Len(down') <= 1
        BY <2>1, <2>2, EmptyLen
      <3>2. /\ down' = <<>> /\ hpc' = "idle" /\ ~Fails'
            /\ cmds' # <<>> => cmds'[1].cmd = "getImage"
        BY <1>b, <2>1, <2>2, <2>3
      <3> QED
        BY <3>1, <3>2 DEF OneMessage
    <2>6. Alone'
      BY <1>0, <1>b, <2>1, <2>2, <2>4 DEF Alone, Transfer, Opened
    <2> QED
      BY <2>5, <2>6
  <1>3. CASE K!Arm
    <2>1. /\ upc = "arm" /\ upc' = "read" /\ timer' = TRUE
          /\ UNCHANGED <<busy, name, fd, active, isBig, posted, spc, down, wire, hpc, photo, cmds>>
      BY <1>3 DEF K!Arm
    <2>2. ~Transfer /\ ~Opened /\ ~Receiving
      BY <1>0, <2>1 DEF Alone, Transfer, Opened, Receiving
    <2>3. ~Transfer' /\ ~Opened' /\ (Fails' <=> Fails)
      BY <2>1, <2>2 DEF Transfer, Opened, Fails, Has
    <2> QED
      BY <1>0, <2>1, <2>2, <2>3 DEF OneMessage, Alone
  <1>4. CASE K!CaptureFail \/ K!OpenFails
    <2>1. /\ down # <<>> /\ down' = <<>> /\ upc = "read" /\ K!Post(<<"stopTimer", "failed">>)
          /\ UNCHANGED <<busy, active, isBig, timer, upc, spc, wire, hpc, photo, cmds>>
          /\ fd' = fd \/ fd' = FALSE
      BY <1>4, <1>a DEF K!CaptureFail, K!OpenFails, K!Received
    <2>2. ~Transfer' /\ ~Opened' /\ ~fd'
      BY <1>b, <2>1 DEF Transfer, Opened
    <2> QED
      BY <1>0, <1>a, <1>b, <2>1, <2>2 DEF OneMessage, Alone
  <1>5. CASE K!ImageAck
    <2>1. /\ down # <<>> /\ down' = <<>> /\ upc = "read" /\ K!Post(<<"stopTimer">>) /\ busy
          /\ down[1].cmd = "imageAck" /\ name' = down[1].photo /\ fd' = TRUE /\ upc' = "ready"
          /\ UNCHANGED <<busy, active, isBig, timer, spc, wire, hpc, photo, cmds>>
      BY <1>5, <1>a DEF K!ImageAck, K!Received
    <2>2. name' = photo /\ name' # 0
      <3>1. name' \in 1..Len(Frames)
        BY <1>a, <2>1 DEF Answers
      <3>2. down[1].photo = photo
        BY <1>0, <2>1 DEF OneMessage
      <3> QED
        BY <2>1, <3>1, <3>2
    <2>3. Has("stopTimer")' /\ ~Fails'
      <3>1. \A c : Has(c)' <=> Has(c) \/ c = "stopTimer"
        BY <1>0, <2>1, Posting
      <3> QED
        BY <1>b, <2>1, <3>1 DEF Fails
    <2>4. ~active' /\ spc' # "decode" /\ Opened'
      BY <1>b, <2>1 DEF Transfer, Opened
    <2>5. OneMessage'
      BY <1>a, <1>b, <2>1 DEF OneMessage
    <2>6. Alone'
      BY <1>b, <2>1, <2>2, <2>3, <2>4 DEF Alone
    <2> QED
      BY <2>5, <2>6
  <1>6. CASE K!Ready
    <2>1. /\ upc = "ready" /\ upc' = "activate"
          /\ UNCHANGED <<busy, name, fd, active, isBig, timer, posted, spc, down, wire, hpc, photo>>
      BY <1>6 DEF K!Ready
    <2>2. /\ Transfer /\ Opened /\ ~Receiving /\ hpc = "idle" /\ wire = <<>>
      BY <1>0, <2>1 DEF Alone, Transfer, Opened, Receiving
    <2>3. cmds = <<>>
      BY <1>0, <2>2 DEF Alone
    <2>4. Len(cmds') <= 1 /\ (cmds' # <<>> => cmds'[1].cmd = "ready")
      <3>1. cmds' = cmds \/ cmds' = Append(cmds, [cmd |-> "ready", session |-> session])
        BY <1>6 DEF K!Ready, K!ToHub, K!Transmit
      <3>2. Len(cmds') <= 1
        BY <2>3, <3>1, OneSent
      <3>3. cmds' # <<>> => cmds'[1] = [cmd |-> "ready", session |-> session]
        BY <2>3, <3>1, OneSent
      <3> QED
        BY <3>2, <3>3
    <2>5. Transfer' /\ Opened' /\ Receiving' /\ (Fails' <=> Fails) /\ (\A c : Has(c)' <=> Has(c))
      BY <2>1 DEF Transfer, Opened, Receiving, Fails, Has
    <2>6. down = <<>> /\ ~Fails
      BY <1>0, <2>2 DEF Alone
    <2>7. OneMessage'
      <3>1. Len(cmds') <= 1 /\ Len(down') <= 1
        BY <2>1, <2>4, <2>6, EmptyLen
      <3>2. /\ down' = <<>> /\ hpc' = "idle" /\ ~Fails' /\ wire' = <<>>
            /\ cmds' # <<>> => cmds'[1].cmd = "ready"
        BY <2>1, <2>2, <2>4, <2>5, <2>6
      <3> QED
        BY <3>1, <3>2 DEF OneMessage
    <2>8. Alone'
      BY <1>0, <2>1, <2>2, <2>4, <2>5 DEF Alone
    <2> QED
      BY <2>7, <2>8
  <1>7. CASE K!Activate
    <2>1. /\ upc = "activate" /\ upc' = "read" /\ active' = TRUE /\ isBig' = TRUE /\ K!Post(<<"startSpi">>)
          /\ UNCHANGED <<busy, name, fd, timer, spc, down, wire, hpc, photo, cmds>>
      BY <1>7 DEF K!Activate
    <2>2. Transfer /\ Opened /\ Receiving /\ spc # "decode"
      BY <1>0, <2>1 DEF Alone, Transfer, Opened, Receiving
    <2>3. Transfer' /\ Opened' /\ Receiving'
      BY <2>1 DEF Transfer, Opened, Receiving
    <2>4. \A c : Has(c)' <=> Has(c) \/ c = "startSpi"
      BY <1>0, <2>1, Posting
    <2>5. (Fails' <=> Fails) /\ (Has("stopTimer")' <=> Has("stopTimer"))
      BY <2>4 DEF Fails
    <2>6. OneMessage'
      BY <1>0, <2>1, <2>5 DEF OneMessage
    <2>7. Alone'
      BY <1>0, <2>1, <2>2, <2>3, <2>5 DEF Alone
    <2> QED
      BY <2>6, <2>7
  <1> QED
    BY <1>1, <1>2, <1>3, <1>4, <1>5, <1>6, <1>7 DEF K!UartStep

LEMMA SpiCalm ==
  ASSUME CameraAssumption, Calm, K!SpiStep
  PROVE  OneMessage' /\ Alone'
  <1> USE DEF K!pageVars, K!transferVars, K!lineVars, K!hubVars
  <1>0. /\ OneMessage /\ Alone /\ posted \in Seq(Callbacks) /\ CameraTypes /\ LastOfRound
        /\ "stopSpi" \in Callbacks /\ "failedBig" \in Callbacks
    BY DEF Calm, CamPatient, CamPage, PageThreads, Callbacks
  <1>a. /\ wire # <<>> => /\ Len(wire) \in Nat \ {0} /\ Head(wire) = wire[1] /\ 1 \in 1..Len(wire)
                          /\ (Len(wire) = 1 => Tail(wire) = <<>>)
    <2>1. SUFFICES ASSUME wire # <<>>
                   PROVE  /\ Len(wire) \in Nat \ {0} /\ Head(wire) = wire[1] /\ 1 \in 1..Len(wire)
                          /\ (Len(wire) = 1 => Tail(wire) = <<>>)
      OBVIOUS
    <2>2. /\ Len(wire) \in Nat \ {0} /\ Head(wire) = wire[1] /\ Tail(wire) \in Seq(SpiFrames)
          /\ Len(Tail(wire)) = Len(wire) - 1
      BY <1>0, <2>1, TailFacts DEF CameraTypes
    <2> QED
      BY <2>2, EmptySeq
  <1>b. active => /\ Transfer /\ Opened /\ Receiving /\ spc # "decode" /\ upc = "read" /\ ~Fails
                  /\ down = <<>> /\ busy
    BY <1>0 DEF Alone, Transfer, Opened, Receiving
  <1>c. active /\ wire # <<>> => cmds = <<>>
    BY <1>0, <1>b DEF OneMessage, Alone
  <1>1. CASE K!Data \/ (K!EndFrame /\ UNCHANGED <<active, fd, posted, spc>>)
    <2>1. /\ active /\ wire # <<>>
          /\ UNCHANGED <<busy, name, fd, active, isBig, timer, posted, upc, spc, down, hpc, photo, cmds>>
      BY <1>1 DEF K!Data, K!EndFrame, K!Reading, K!AckToHub, K!Transmit
    <2>2. /\ Transfer' /\ Opened' /\ Receiving' /\ (Fails' <=> Fails)
          /\ (Has("stopTimer")' <=> Has("stopTimer"))
      BY <2>1 DEF Transfer, Opened, Receiving, Fails, Has
    <2>3. OneMessage'
      BY <1>0, <1>b, <1>c, <2>1 DEF OneMessage
    <2>4. Alone'
      BY <1>0, <1>b, <1>c, <2>1, <2>2 DEF Alone
    <2> QED
      BY <2>3, <2>4
  <1>2. CASE K!EndFrame /\ ~UNCHANGED <<active, fd, posted, spc>>
    <2>1. /\ active /\ spc = "read" /\ wire # <<>> /\ wire' = Tail(wire) /\ Head(wire).no = K!End
          /\ active' = FALSE /\ fd' = FALSE /\ K!Post(<<"stopSpi">>) /\ spc' = "decode"
          /\ UNCHANGED <<busy, name, isBig, timer, upc, down, hpc, photo, cmds>>
      BY <1>2 DEF K!EndFrame, K!Reading, K!NextFrame, K!AckToHub, K!Transmit
    <2>2. IsEnd(1)
      BY <1>a, <2>1 DEF IsEnd
    <2>3. Len(wire) = 1 /\ hpc # "sending"
      <3>1. 1 = Len(wire) /\ hpc # "sending"
        BY <1>0, <1>a, <2>1, <2>2 DEF LastOfRound
      <3> QED
        BY <3>1
    <2>4. wire' = <<>>
      BY <1>a, <2>1, <2>3
    <2>5. \A c : Has(c)' <=> Has(c) \/ c = "stopSpi"
      BY <1>0, <2>1, Posting
    <2>6. ~Fails' /\ (Has("stopTimer") => Has("stopTimer")')
      BY <1>b, <2>1, <2>5 DEF Fails
    <2>7. Transfer' /\ ~Opened' /\ cmds = <<>> /\ upc = "read"
      BY <1>b, <1>c, <2>1 DEF Transfer, Opened
    <2>8. OneMessage'
      BY <1>0, <1>b, <2>1, <2>7 DEF OneMessage
    <2>9. Alone'
      BY <1>0, <1>b, <2>1, <2>3, <2>4, <2>6, <2>7 DEF Alone
    <2> QED
      BY <2>8, <2>9
  <1>3. CASE K!Decoded
    <2>1. /\ spc = "decode" /\ spc' = "read"
          /\ \/ UNCHANGED posted
             \/ K!Post(<<"failedBig">>) /\ UNCHANGED busy
          /\ UNCHANGED <<name, fd, active, isBig, timer, upc, down, wire, hpc, photo, cmds>>
      BY <1>3 DEF K!Decoded
    <2>2. /\ ~active /\ upc = "read" /\ ~Opened /\ ~Receiving /\ Transfer /\ ~fd /\ down = <<>>
          /\ cmds = <<>>
      BY <1>0, <2>1 DEF Alone, Transfer, Opened, Receiving
    <2>3. ~Transfer' /\ ~Opened'
      BY <2>1, <2>2 DEF Transfer, Opened
    <2>4. OneMessage'
      BY <1>0, <2>1, <2>2 DEF OneMessage
    <2>5. Alone'
      BY <1>0, <2>1, <2>2, <2>3 DEF Alone
    <2> QED
      BY <2>4, <2>5
  <1> QED
    BY <1>1, <1>2, <1>3 DEF K!SpiStep

LEMMA HubCalm ==
  ASSUME CameraAssumption, Calm, K!HubStep
  PROVE  OneMessage' /\ Alone'
  <1> USE DEF K!pageVars, K!transferVars, K!lineVars, K!hubVars
  <1>0. /\ OneMessage /\ Alone /\ posted \in Seq(Callbacks) /\ CameraTypes /\ LastOfRound
    BY DEF Calm, CamPatient, CamPage, PageThreads
  <1>a. /\ cmds # <<>> => Tail(cmds) = <<>> /\ Head(cmds) = cmds[1] /\ cmds[1] \in Commands
        /\ Len(<<>>) = 0
    BY <1>0, OneInLine
  <1>b. /\ UNCHANGED <<busy, name, fd, active, isBig, timer, posted, upc, spc>>
        /\ hpc' \in {"idle", "capturing", "sending", "drain", "wait"}
    BY <1>0 DEF K!HubStep, K!CaptureReq, K!DoCapture, K!GetImage, K!ReadyBig, K!SendFrame, K!Drain,
                K!WaitAck, K!AckTimeOut, CameraTypes
  <1>c. /\ (Transfer' <=> Transfer) /\ (Opened' <=> Opened) /\ (Receiving' <=> Receiving)
        /\ (Fails' <=> Fails) /\ (Has("stopTimer")' <=> Has("stopTimer"))
    BY <1>b DEF Transfer, Opened, Receiving, Fails, Has
  <1>d. Receiving => Transfer /\ upc # "ready"
    BY <1>0 DEF Alone, Receiving, Transfer, Opened
  <1>1. CASE K!CaptureReq
    <2>1. /\ hpc = "idle" /\ cmds # <<>> /\ cmds[1].cmd = "captureReq" /\ cmds' = <<>>
          /\ hpc' = "capturing" /\ UNCHANGED <<down, wire, photo>>
      BY <1>1, <1>a DEF K!CaptureReq, K!Command
    <2>2. down = <<>> /\ ~Transfer
      BY <1>0, <2>1 DEF OneMessage, Alone
    <2>3. OneMessage'
      BY <1>0, <1>a, <2>1, <2>2 DEF OneMessage
    <2>4. Alone'
      BY <1>0, <1>b, <1>c, <2>1, <2>2 DEF Alone, Transfer, Opened
    <2> QED
      BY <2>3, <2>4
  <1>2. CASE K!DoCapture
    <2>1. hpc = "capturing" /\ posted = <<>> /\ hpc' = "idle" /\ UNCHANGED <<wire, cmds>>
      BY <1>2 DEF K!DoCapture
    <2>2. /\ down = <<>> /\ ~Transfer /\ cmds = <<>> /\ ~Fails /\ wire = <<>>
      <3>1. ~Transfer /\ down = <<>> /\ cmds = <<>>
        BY <1>0, <2>1 DEF OneMessage, Alone
      <3>2. ~Fails
        BY <1>0, <2>1, Posting DEF Fails
      <3> QED
        BY <1>0, <1>d, <3>1, <3>2 DEF Alone
    <2>3. /\ Len(down') <= 1
          /\ down' # <<>> => down'[1].cmd # "imageAck"
      <3>1. \/ down' = down \/ down' = Append(down, [cmd |-> "captureAck"])
            \/ down' = down \/ down' = Append(down, [cmd |-> "captureFail"])
        BY <1>2 DEF K!DoCapture, K!ToPage, K!Transmit
      <3>2. Len(down') <= 1
        BY <2>2, <3>1, OneSent
      <3>3. \/ down' # <<>> => down'[1] = [cmd |-> "captureAck"]
            \/ down' # <<>> => down'[1] = [cmd |-> "captureFail"]
        BY <2>2, <3>1, OneSent
      <3> QED
        BY <3>2, <3>3
    <2>4. OneMessage'
      BY <1>0, <1>a, <1>c, <2>1, <2>2, <2>3 DEF OneMessage
    <2>5. Alone'
      BY <1>0, <1>b, <1>c, <2>1, <2>2 DEF Alone
    <2> QED
      BY <2>4, <2>5
  <1>3. CASE K!GetImage
    <2> DEFINE m == IF photo = 0 THEN [cmd |-> "captureFail"]
                                 ELSE [cmd |-> "imageAck", photo |-> photo]
    <2>1. /\ hpc = "idle" /\ cmds # <<>> /\ cmds[1].cmd = "getImage" /\ cmds' = <<>> /\ K!ToPage(m)
          /\ UNCHANGED <<hpc, wire, photo>>
      BY <1>3, <1>a DEF K!GetImage, K!Command
    <2>2. m \in Answers /\ (m.cmd = "imageAck" => m.photo = photo)
      BY <1>0, Messages
    <2> HIDE DEF m
    <2>3. down = <<>> /\ ~Transfer /\ ~Fails
      BY <1>0, <2>1 DEF OneMessage, Alone
    <2>4. Len(down') <= 1 /\ (down' # <<>> => down'[1] = m)
      <3>1. down' = down \/ down' = Append(down, m)
        BY <2>1 DEF K!ToPage, K!Transmit
      <3> QED
        BY <2>3, <3>1, OneSent
    <2>5. OneMessage'
      <3>1. Len(cmds') <= 1 /\ Len(down') <= 1
        BY <2>1, <2>4, EmptyLen
      <3>2. /\ cmds' = <<>> /\ hpc' = "idle" /\ ~Fails'
            /\ down' # <<>> /\ down'[1].cmd = "imageAck" => down'[1].photo = photo'
        BY <1>c, <2>1, <2>2, <2>3, <2>4
      <3> QED
        BY <3>1, <3>2 DEF OneMessage
    <2>6. Alone'
      BY <1>0, <1>b, <1>c, <2>1, <2>3 DEF Alone
    <2> QED
      BY <2>5, <2>6
  <1>4. CASE K!ReadyBig
    <2>1. /\ hpc = "idle" /\ cmds # <<>> /\ cmds[1].cmd = "ready" /\ cmds' = <<>> /\ hpc' = "sending"
          /\ UNCHANGED <<down, wire, photo>>
      BY <1>4, <1>a DEF K!ReadyBig, K!Command
    <2>2. Receiving /\ down = <<>> /\ upc # "ready"
      BY <1>0, <1>d, <2>1 DEF OneMessage, Alone
    <2>3. OneMessage'
      BY <1>a, <2>1, <2>2 DEF OneMessage
    <2>4. Alone'
      BY <1>0, <1>b, <1>c, <2>1, <2>2 DEF Alone
    <2> QED
      BY <2>3, <2>4
  <1>5. CASE K!SendFrame \/ K!Drain \/ K!WaitAck \/ K!AckTimeOut
    <2>1. hpc \in {"sending", "drain", "wait"} /\ hpc' # "capturing" /\ UNCHANGED <<down, photo, cmds>>
      BY <1>5 DEF K!SendFrame, K!Drain, K!WaitAck, K!AckTimeOut
    <2>2. down = <<>> /\ cmds = <<>> /\ upc # "ready"
      BY <1>0, <2>1 DEF OneMessage, Alone
    <2>3. hpc' = "sending" => Receiving
      <3>1. CASE K!WaitAck
        <4>1. ASSUME hpc' = "sending" PROVE active
          <5>1. hpc = "wait" /\ acks # <<>> /\ Head(acks).missing # {}
            BY <3>1, <4>1 DEF K!WaitAck
          <5>2. Head(acks) = acks[1] /\ 1 \in 1..Len(acks)
            BY <1>0, <5>1, TailFacts DEF CameraTypes
          <5> QED
            BY <1>0, <5>1, <5>2 DEF LastOfRound
        <4> QED
          BY <4>1 DEF Receiving
      <3>2. CASE K!SendFrame
        BY <1>0, <3>2 DEF K!SendFrame, Alone
      <3>3. CASE K!Drain \/ K!AckTimeOut
        BY <3>3 DEF K!Drain, K!AckTimeOut
      <3> QED
        BY <1>5, <3>1, <3>2, <3>3
    <2>4. wire' # <<>> => Receiving
      <3>1. CASE K!SendFrame
        BY <1>0, <3>1 DEF K!SendFrame, Alone
      <3>2. CASE ~K!SendFrame
        BY <1>0, <1>5, <3>2 DEF K!Drain, K!WaitAck, K!AckTimeOut, Alone
      <3> QED
        BY <3>1, <3>2
    <2>5. OneMessage'
      BY <1>0, <2>1, <2>2 DEF OneMessage
    <2>6. Alone'
      BY <1>0, <1>b, <1>c, <2>1, <2>2, <2>3, <2>4 DEF Alone
    <2> QED
      BY <2>5, <2>6
  <1> QED
    BY <1>1, <1>2, <1>3, <1>4, <1>5 DEF K!HubStep

-----------------------------------------------------------------------------
(* END closes its round, and the file holds its photo. *)

\* A failure finds no transfer, but for the one that starves.
LEMMA FailsAlone ==
  ASSUME Calm, K!LvglStep
  PROVE  /\ UNCHANGED <<upc, spc, image, bitmap, total, hpc, photo, acks>>
         /\ \/ UNCHANGED <<name, busy, active>>
            \/ /\ name' = 0 /\ ~Transfer'
               /\ active => hpc \in {"idle", "capturing"}
  <1> USE DEF K!hubVars, K!transferVars
  <1>0. Alone /\ posted \in Seq(Callbacks)
    BY DEF Calm, CamPatient, CamPage, PageThreads
  <1>1. UNCHANGED <<upc, spc, image, bitmap, total, hpc, photo, acks>>
    BY DEF K!LvglStep, K!Callback, K!TimeOut, K!SpiTimeOut, K!Failure
  <1>2. CASE K!Callback
    <2>1. \/ UNCHANGED <<name, busy, active>>
          \/ /\ posted # <<>> /\ posted' = Tail(posted) /\ Head(posted) \in {"failed", "failedBig"}
             /\ name' = 0 /\ active' = FALSE
      BY <1>2 DEF K!Callback, K!Failure
    <2>2. ASSUME posted # <<>>, posted' = Tail(posted), Head(posted) \in {"failed", "failedBig"}
          PROVE  ~Transfer
      <3>1. Fails
        BY <1>0, <2>2, Posting DEF Fails
      <3> QED
        BY <1>0, <3>1 DEF Alone
    <2>3. ~Transfer /\ active' = FALSE => ~Transfer' /\ ~active
      BY <1>1 DEF Transfer, Opened
    <2> QED
      BY <1>1, <2>1, <2>2, <2>3
  <1>3. CASE K!TimeOut
    <2>1. timer /\ posted = <<>> /\ upc = "read" /\ spc = "read" /\ name' = 0 /\ active' = FALSE
      BY <1>3 DEF K!TimeOut, K!PageAtRest, K!Failure
    <2>2. ~Has("stopTimer")
      BY <1>0, <2>1, Posting
    <2>3. ~Transfer
      BY <1>0, <2>1, <2>2 DEF Alone
    <2>4. ~Transfer' /\ ~active
      BY <1>1, <2>1, <2>3 DEF Transfer, Opened
    <2> QED
      BY <1>1, <2>1, <2>4
  <1>4. CASE K!SpiTimeOut
    <2>1. /\ upc = "read" /\ spc = "read" /\ name' = 0 /\ active' = FALSE
          /\ hpc \in {"idle", "capturing"}
      BY <1>4 DEF K!SpiTimeOut, K!PageAtRest, K!HubAtRest, K!Failure
    <2>2. ~Transfer'
      BY <1>1, <2>1 DEF Transfer, Opened
    <2> QED
      BY <1>1, <2>1, <2>2
  <1> QED
    BY <1>2, <1>3, <1>4 DEF K!LvglStep

\* A frame that ends the round, at the head of the line, is alone there.
LEMMA EndAlone ==
  ASSUME Calm, K!EndFrame
  PROVE  /\ Len(wire) = 1 /\ wire' = <<>> /\ hpc # "sending"
         /\ hpc = "wait" => acks = <<>>
  <1>1. wire \in Seq(SpiFrames) /\ LastOfRound
    BY DEF Calm, CamPatient, CameraTypes
  <1>2. wire # <<>> /\ wire' = Tail(wire) /\ Head(wire).no = K!End
    BY DEF K!EndFrame, K!Reading, K!NextFrame
  <1>3. /\ Len(wire) \in Nat \ {0} /\ Head(wire) = wire[1] /\ Tail(wire) \in Seq(SpiFrames)
        /\ Len(Tail(wire)) = Len(wire) - 1
    BY <1>1, <1>2, TailFacts
  <1>4. 1 \in 1..Len(wire) /\ IsEnd(1)
    BY <1>2, <1>3 DEF IsEnd
  <1>5. 1 = Len(wire) /\ hpc # "sending" /\ (hpc = "wait" => acks = <<>>)
    BY <1>1, <1>4 DEF LastOfRound
  <1>6. Len(Tail(wire)) = 0
    <2>1. Len(wire) = 1
      BY <1>5
    <2> QED
      BY <1>3, <2>1
  <1>7. Tail(wire) = <<>>
    BY <1>3, <1>6, EmptySeq
  <1> QED
    BY <1>2, <1>5, <1>7

LEMMA EndIsLast ==
  ASSUME CameraAssumption, Calm, K!Next
  PROVE  \A j \in 1..Len(wire') : IsEnd(j)' => j = Len(wire') /\ hpc' # "sending"
  <1> USE DEF K!pageVars, K!transferVars, K!lineVars, K!hubVars
  <1>0. LastOfRound /\ OneMessage /\ CameraTypes
    BY DEF Calm, CamPatient
  <1>1. hpc' = "sending" =>
          \/ hpc = "sending"
          \/ wire = <<>> /\ wire' = wire
          \/ hpc = "wait" /\ acks # <<>> /\ wire' = wire
    <2>1. CASE K!Press \/ K!LvglStep \/ K!UartStep \/ K!SpiStep
      BY <2>1 DEF K!Press, K!LvglStep, K!Callback, K!TimeOut, K!SpiTimeOut, K!UartStep,
         K!LateAnswer,
                  K!CaptureAck, K!Arm, K!CaptureFail, K!ImageAck, K!OpenFails, K!Ready, K!Activate,
                  K!SpiStep, K!Data, K!EndFrame, K!Decoded
    <2>2. CASE K!ReadyBig
      <3>1. cmds # <<>> /\ Head(cmds).cmd = "ready" /\ wire' = wire
        BY <2>2 DEF K!ReadyBig, K!Command
      <3>2. Head(cmds) = cmds[1]
        BY <1>0, <3>1, OneInLine
      <3> QED
        BY <1>0, <3>1, <3>2 DEF OneMessage
    <2>3. CASE K!CaptureReq \/ K!DoCapture \/ K!GetImage \/ K!SendFrame \/ K!Drain \/ K!AckTimeOut
               \/ K!WaitAck
      BY <2>3 DEF K!CaptureReq, K!DoCapture, K!GetImage, K!SendFrame, K!Drain, K!AckTimeOut,
         K!WaitAck
    <2> QED
      BY <2>1, <2>2, <2>3 DEF K!Next, K!HubStep
  <1>2. K!SendFrame /\ left = {} => hpc = "sending" /\ hpc' = "drain"
    BY DEF K!SendFrame
  <1>3. K!NextNo = K!End <=> left = {}
    BY <1>0, Messages
  <1>4. SUFFICES ASSUME NEW j \in 1..Len(wire'), wire'[j].no = K!End
                 PROVE  j = Len(wire') /\ hpc' # "sending"
    BY DEF IsEnd, K!End
  <1>5. CASE j \in 1..Len(wire) /\ wire'[j] = wire[j] /\ (wire' = wire \/ j # Len(wire'))
    <2>1. IsEnd(j)
      BY <1>4, <1>5 DEF IsEnd
    <2>2. j = Len(wire) /\ hpc # "sending" /\ wire # <<>>
      BY <1>0, <1>5, <2>1 DEF LastOfRound
    <2>3. ~(hpc = "wait" /\ acks # <<>>)
      BY <1>0, <1>5, <2>1 DEF LastOfRound
    <2>4. hpc' # "sending"
      BY <1>1, <2>2, <2>3
    <2>5. wire' = wire
      <3>1. CASE K!SendFrame
        BY <2>2, <3>1 DEF K!SendFrame
      <3>2. CASE wire # <<>> /\ wire' = Tail(wire)
        <4>1. Len(wire) \in Nat /\ Len(wire') = Len(wire) - 1
          BY <1>0, <3>2, TailFacts DEF CameraTypes
        <4> QED
          BY <1>4, <2>2, <4>1
      <3>3. CASE wire' = <<>>
        BY <1>4, <3>3
      <3> QED
        BY <3>1, <3>2, <3>3, OnTheLine
    <2> QED
      BY <2>2, <2>4, <2>5
  <1>6. CASE j + 1 \in 1..Len(wire) /\ wire'[j] = wire[j + 1] /\ Len(wire') = Len(wire) - 1
    <2>1. IsEnd(j + 1)
      BY <1>4, <1>6 DEF IsEnd
    <2>2. j + 1 = Len(wire) /\ hpc # "sending"
      BY <1>0, <1>6, <2>1 DEF LastOfRound
    <2>3. ~(hpc = "wait" /\ acks # <<>>)
      BY <1>0, <1>6, <2>1 DEF LastOfRound
    <2>4. wire # <<>>
      BY <1>6
    <2>5. hpc' # "sending"
      BY <1>1, <2>2, <2>3, <2>4
    <2> QED
      BY <1>6, <2>2, <2>5
  <1>7. CASE /\ K!SendFrame /\ j = Len(wire')
             /\ wire'[j] = [no |-> K!NextNo, photo |-> photo, sid |-> sid]
    <2>1. K!NextNo = K!End
      BY <1>4, <1>7
    <2> QED
      BY <1>2, <1>3, <1>7, <2>1
  <1> QED
    BY <1>0, <1>5, <1>6, <1>7, LineThen

LEMMA AcksBehindEnd ==
  ASSUME CameraAssumption, Calm, K!Next, hpc' = "wait"
  PROVE  /\ acks' # <<>> => \A j \in 1..Len(wire') : ~IsEnd(j)'
         /\ \A a \in 1..Len(acks') : acks'[a].missing # {} => active'
  <1> USE DEF K!pageVars, K!transferVars, K!lineVars, K!hubVars
  <1>0. LastOfRound /\ OneMessage /\ CameraTypes /\ Alone
    BY DEF Calm, CamPatient
  <1>1. CASE K!EndFrame
    <2>1. wire' = <<>> /\ (hpc = "wait" => acks = <<>>)
      BY <1>1, EndAlone
    <2>2. hpc = "wait"
      BY <1>1 DEF K!EndFrame
    <2> DEFINE m == [sid |-> K!NextFrame.sid, ok |-> K!Complete(K!Expected),
                     missing |-> 1..K!Expected \ bitmap]
    <2>3. acks' = acks \/ acks' = Append(acks, m)
      BY <1>1 DEF K!EndFrame, K!AckToHub, K!Transmit
    <2>4. m.missing # {} => active'
      <3>1. m.missing # {} => ~K!Complete(K!Expected)
        BY DEF K!Complete
      <3>2. active
        BY <1>1 DEF K!EndFrame, K!Reading
      <3> HIDE DEF m
      <3> QED
        BY <1>1, <3>1, <3>2 DEF K!EndFrame
    <2> HIDE DEF m
    <2>5. acks' # <<>> => acks'[1] = m
      BY <2>1, <2>2, <2>3, OneSent
    <2>6. Len(acks') <= 1
      BY <2>1, <2>2, <2>3, OneSent
    <2>7. ASSUME NEW a \in 1..Len(acks') PROVE acks'[a] = m
      <3>1. acks' # <<>>
        BY <2>7
      <3>2. a = 1
        <4>1. acks' \in Seq(Acks)
          BY <1>0, CameraTypesKept DEF CameraTypes
        <4>2. Len(acks') \in Nat
          BY <4>1, LenProperties
        <4> QED
          BY <2>6, <2>7, <4>2
      <3> QED
        BY <2>5, <3>1, <3>2
    <2> QED
      BY <2>1, <2>4, <2>7
  <1>2. CASE K!Drain
    <2>1. acks' = <<>>
      BY <1>2 DEF K!Drain
    <2> QED
      BY <2>1
  <1>3. CASE ~K!EndFrame /\ ~K!Drain
    <2>1. hpc = "wait"
      BY <1>3 DEF K!Next, K!Press, K!LvglStep, K!Callback, K!TimeOut, K!SpiTimeOut, K!UartStep,
                  K!LateAnswer, K!CaptureAck, K!Arm, K!CaptureFail, K!ImageAck, K!OpenFails,
                  K!Ready,
                  K!Activate, K!SpiStep, K!Data, K!Decoded, K!HubStep, K!CaptureReq,
                  K!DoCapture, K!GetImage, K!ReadyBig, K!SendFrame, K!WaitAck, K!AckTimeOut,
                  K!Command
    <2>2. acks' = acks \/ (acks # <<>> /\ acks' = Tail(acks))
      BY <1>3, <2>1 DEF K!Next, K!Press, K!LvglStep, K!Callback, K!TimeOut, K!SpiTimeOut,
         K!UartStep,
                  K!LateAnswer, K!CaptureAck, K!Arm, K!CaptureFail, K!ImageAck, K!OpenFails,
                  K!Ready,
                  K!Activate, K!SpiStep, K!Data, K!Decoded, K!HubStep, K!CaptureReq, K!ToHub,
                  K!Transmit,
                  K!DoCapture, K!GetImage, K!ReadyBig, K!SendFrame, K!WaitAck, K!AckTimeOut,
                  K!Command
    <2>3. active => active'
      <3>1. CASE K!LvglStep
        BY <2>1, <3>1, FailsAlone
      <3>2. CASE ~K!LvglStep
        BY <1>3, <3>2 DEF K!Next, K!Press, K!UartStep, K!LateAnswer, K!CaptureAck, K!Arm,
                          K!CaptureFail, K!ImageAck, K!OpenFails, K!Ready, K!Activate, K!SpiStep,
                          K!Data, K!Decoded, K!HubStep, K!CaptureReq, K!DoCapture, K!GetImage,
                          K!ReadyBig, K!SendFrame, K!WaitAck, K!AckTimeOut
      <3> QED
        BY <3>1, <3>2
    <2>4. ASSUME acks' # <<>>, NEW j \in 1..Len(wire') PROVE wire'[j].no # K!End
      <3>1. acks # <<>>
        BY <2>2, <2>4
      <3>2. \A k \in 1..Len(wire) : wire[k].no # K!End
        BY <1>0, <2>1, <3>1 DEF LastOfRound, IsEnd
      <3>3. ~K!SendFrame
        BY <2>1 DEF K!SendFrame
      <3> QED
        BY <1>0, <3>2, <3>3, LineThen
    <2>5. ASSUME NEW a \in 1..Len(acks'), acks'[a].missing # {} PROVE active'
      <3>1. PICK k \in 1..Len(acks) : acks'[a] = acks[k]
        <4>1. CASE acks' = acks
          BY <2>5, <4>1
        <4>2. CASE acks # <<>> /\ acks' = Tail(acks)
          <5>1. /\ Len(acks) \in Nat \ {0} /\ Len(acks') = Len(acks) - 1
                /\ \A k \in 1..Len(acks) - 1 : acks'[k] = acks[k + 1]
            BY <1>0, <4>2, TailFacts DEF CameraTypes
          <5>2. a + 1 \in 1..Len(acks) /\ a \in 1..Len(acks) - 1
            BY <2>5, <5>1
          <5> QED
            BY <5>1, <5>2
        <4> QED
          BY <2>2, <4>1, <4>2
      <3>2. active
        BY <1>0, <2>1, <2>5, <3>1 DEF LastOfRound
      <3> QED
        BY <2>3, <3>2
    <2>6. \A j \in 1..Len(wire') : IsEnd(j)' <=> wire'[j].no = K!End
      BY DEF IsEnd, K!End
    <2> QED
      BY <2>4, <2>5, <2>6
  <1> QED
    BY <1>1, <1>2, <1>3

LEMMA LastOfRoundKept == ASSUME CameraAssumption, Calm, K!Next PROVE LastOfRound'
  <1>1. \A j \in 1..Len(wire') : IsEnd(j)' => j = Len(wire') /\ hpc' # "sending"
    BY EndIsLast
  <1>2. hpc' = "wait" => /\ acks' # <<>> => \A j \in 1..Len(wire') : ~IsEnd(j)'
                         /\ \A a \in 1..Len(acks') : acks'[a].missing # {} => active'
    BY AcksBehindEnd
  <1> QED
    BY <1>1, <1>2 DEF LastOfRound

LEMMA LineOfPhoto ==
  ASSUME CameraAssumption, Calm, K!Next
  PROVE  \A j \in 1..Len(wire') : wire'[j].photo = photo'
  <1> USE DEF K!pageVars, K!transferVars, K!lineVars, K!hubVars
  <1>0. Alone /\ CameraTypes /\ \A j \in 1..Len(wire) : wire[j].photo = photo
    BY DEF Calm, CamPatient, FileHolds
  <1>1. photo' = photo \/ (wire = <<>> /\ wire' = wire)
    <2>1. CASE K!DoCapture
      <3>1. hpc = "capturing" /\ wire' = wire
        BY <2>1 DEF K!DoCapture
      <3> QED
        BY <1>0, <3>1 DEF Alone, Transfer, Opened, Receiving
    <2>2. CASE ~K!DoCapture
      BY <2>2 DEF K!Next, K!Press, K!LvglStep, K!Callback, K!TimeOut, K!SpiTimeOut, K!UartStep,
                  K!LateAnswer, K!CaptureAck, K!Arm, K!CaptureFail, K!ImageAck, K!OpenFails,
                  K!Ready,
                  K!Activate, K!SpiStep, K!Data, K!EndFrame, K!Decoded, K!HubStep, K!CaptureReq,
                  K!GetImage, K!ReadyBig, K!SendFrame, K!Drain, K!WaitAck, K!AckTimeOut
    <2> QED
      BY <2>1, <2>2
  <1>2. ASSUME NEW j \in 1..Len(wire') PROVE wire'[j].photo = photo
    <2>1. CASE j \in 1..Len(wire) /\ wire'[j] = wire[j]
      BY <1>0, <2>1
    <2>2. CASE j + 1 \in 1..Len(wire) /\ wire'[j] = wire[j + 1]
      BY <1>0, <2>2
    <2>3. CASE wire'[j] = [no |-> K!NextNo, photo |-> photo, sid |-> sid]
      BY <2>3
    <2> QED
      BY <1>0, <2>1, <2>2, <2>3, LineThen
  <1>3. wire' = <<>> => \A j \in 1..Len(wire') : FALSE
    OBVIOUS
  <1> QED
    BY <1>1, <1>2, <1>3

\* The file of a photo that is all there.
LEMMA AllThere ==
  ASSUME CameraAssumption, CameraTypes, CamPage, name # 0, total = Frames[name],
         \A f \in bitmap : image[f] = name, K!Complete(K!Expected)
  PROVE  Whole
  <1>1. name \in 1..Len(Frames) /\ Frames[name] \in Nat
    BY LenProperties, ElementOfSeq DEF CameraAssumption, CamPage, PageFile, K!Photos
  <1>2. K!Expected \in Nat /\ total \in Nat /\ total <= K!Expected /\ 1..K!Expected \subseteq bitmap
    BY DEF CameraTypes, K!Expected, K!Complete
  <1> HIDE DEF K!Expected
  <1>3. 1..Frames[name] \subseteq bitmap
    BY <1>1, <1>2
  <1> QED
    BY <1>3 DEF Whole

\* What a step does to the file: nothing, or it fails, begins or grows.
LEMMA FileSteps ==
  ASSUME CameraAssumption, Calm, K!Next
  PROVE  \/ /\ UNCHANGED <<name, total, image, bitmap>>
            /\ Opened' => Opened
            /\ spc' = "decode" => spc = "decode" \/ (K!EndFrame /\ K!Complete(K!Expected))
            /\ ~busy' => ~busy \/ spc = "decode"
         \/ name' = 0 /\ ~Transfer'
         \/ busy' /\ spc' # "decode" /\ K!ImageAck
         \/ busy' /\ ~Transfer' /\ K!OpenFails
         \/ busy' /\ spc' # "decode" /\ Opened /\ fd /\ K!Data
  <1> USE DEF K!pageVars, K!transferVars, K!lineVars, K!hubVars
  <1>0. Alone /\ CameraTypes /\ OneMessage
    BY DEF Calm, CamPatient
  <1>1. CASE K!Press
    <2>1. name' = 0 /\ ~busy /\ UNCHANGED <<upc, active, spc>>
      BY <1>1 DEF K!Press
    <2>2. ~Transfer
      BY <1>0, <2>1 DEF Alone
    <2> QED
      BY <2>1, <2>2 DEF Transfer, Opened
  <1>2. CASE K!LvglStep
    <2>1. UNCHANGED <<name, busy, active>> => (Opened' <=> Opened) /\ (spc' = spc)
      BY <1>2, FailsAlone DEF Opened
    <2> QED
      BY <1>2, <2>1, FailsAlone
  <1>3. CASE K!LateAnswer \/ K!CaptureAck \/ K!Arm \/ K!CaptureFail \/ K!Ready \/ K!Activate
    <2>1. /\ UNCHANGED <<name, total, image, bitmap, spc, busy>>
          /\ active' = active \/ upc = "activate"
          /\ upc' \in {"ready", "activate"} => upc \in {"ready", "activate"}
      BY <1>3 DEF K!LateAnswer, K!CaptureAck, K!Arm, K!CaptureFail, K!Ready, K!Activate
    <2>2. Opened' => Opened
      BY <2>1 DEF Opened
    <2> QED
      BY <2>1, <2>2
  <1>4. CASE K!ImageAck \/ K!OpenFails
    <2>1. busy /\ down # <<>> /\ UNCHANGED <<busy, spc, active>>
      BY <1>4 DEF K!ImageAck, K!OpenFails, K!Received
    <2>2. ~Transfer
      BY <1>0, <2>1 DEF Alone
    <2>3. spc' # "decode"
      BY <2>1, <2>2 DEF Transfer
    <2>4. K!OpenFails => ~Transfer'
      BY <2>1, <2>2 DEF Transfer, Opened, K!OpenFails
    <2> QED
      BY <1>4, <2>1, <2>3, <2>4
  <1>5. CASE K!Data
    <2>1. active /\ UNCHANGED <<busy, spc>>
      BY <1>5 DEF K!Data, K!Reading
    <2>2. Opened /\ fd /\ busy /\ spc # "decode"
      BY <1>0, <2>1 DEF Alone, Opened, Transfer
    <2> QED
      BY <1>5, <2>1, <2>2
  <1>6. CASE K!EndFrame
    <2>1. /\ UNCHANGED <<name, total, image, bitmap, busy, upc>>
          /\ active /\ spc' = "decode" => spc = "decode" \/ K!Complete(K!Expected)
          /\ active
      BY <1>6 DEF K!EndFrame, K!Reading
    <2>2. Opened
      BY <2>1 DEF Opened
    <2> QED
      BY <1>6, <2>1, <2>2
  <1>7. CASE K!Decoded
    <2>1. UNCHANGED <<name, total, image, bitmap, upc, active>> /\ spc = "decode" /\ spc' = "read"
      BY <1>7 DEF K!Decoded
    <2>2. Opened' <=> Opened
      BY <2>1 DEF Opened
    <2> QED
      BY <2>1, <2>2
  <1>8. CASE K!HubStep
    <2>1. UNCHANGED <<name, total, image, bitmap, upc, active, spc, busy>>
      BY <1>8 DEF K!HubStep, K!CaptureReq, K!DoCapture, K!GetImage, K!ReadyBig, K!SendFrame,
         K!Drain,
                  K!WaitAck, K!AckTimeOut
    <2>2. Opened' <=> Opened
      BY <2>1 DEF Opened
    <2> QED
      BY <2>1, <2>2
  <1> QED
    BY <1>1, <1>2, <1>3, <1>4, <1>5, <1>6, <1>7, <1>8 DEF K!Next, K!UartStep, K!SpiStep

LEMMA FileHoldsKept == ASSUME CameraAssumption, Calm, K!Next PROVE FileHolds'
  <1> USE DEF K!pageVars, K!transferVars, K!lineVars, K!hubVars
  <1> DEFINE Inside == Opened => total = Frames[name] /\ \A f \in bitmap : image[f] = name
             Decoding == spc = "decode" => Whole
             Shown == ~busy /\ name # 0 => Whole
  <1>0. Inside /\ Decoding /\ Shown /\ Alone /\ OneMessage
    BY DEF Calm, CamPatient, FileHolds
  <1>1. SUFFICES Inside' /\ Decoding' /\ Shown'
    BY LineOfPhoto DEF FileHolds
  <1>2. CASE /\ UNCHANGED <<name, total, image, bitmap>>
             /\ Opened' => Opened
             /\ spc' = "decode" => spc = "decode" \/ (K!EndFrame /\ K!Complete(K!Expected))
             /\ ~busy' => ~busy \/ spc = "decode"
    <2>1. Inside'
      BY <1>0, <1>2
    <2>2. K!EndFrame /\ K!Complete(K!Expected) => Whole
      <3>1. SUFFICES ASSUME K!EndFrame, K!Complete(K!Expected) PROVE Whole
        OBVIOUS
      <3>2. active
        BY <3>1 DEF K!EndFrame, K!Reading
      <3>3. Opened /\ name # 0
        BY <1>0, <3>2 DEF Alone, Transfer, Opened
      <3> QED
        BY <1>0, <3>1, <3>3, AllThere DEF Calm
    <2>3. Whole => Whole'
      BY <1>2 DEF Whole
    <2> QED
      BY <1>0, <1>2, <2>1, <2>2, <2>3
  <1>3. CASE name' = 0 /\ ~Transfer'
    BY <1>3 DEF Transfer
  <1>4. CASE busy' /\ ~Transfer'
    BY <1>4 DEF Transfer
  <1>5. CASE busy' /\ spc' # "decode" /\ K!ImageAck
    <2>1. total' = Frames[name'] /\ bitmap' = {}
      BY <1>5 DEF K!ImageAck
    <2> QED
      BY <1>5, <2>1
  <1>6. CASE busy' /\ spc' # "decode" /\ Opened /\ fd /\ K!Data
    <2> DEFINE f == Head(wire)
    <2>1. /\ wire # <<>> /\ UNCHANGED <<name, total>> /\ f.no # K!End
          /\ image' = [image EXCEPT ![f.no] = f.photo] /\ bitmap' = bitmap \cup {f.no}
      BY <1>6 DEF K!Data, K!Reading, K!NextFrame
    <2>2. f.photo = name /\ f.no \in K!FrameNos
      <3>1. f = wire[1] /\ 1 \in 1..Len(wire)
        BY <2>1, TailFacts DEF Calm, CameraTypes
      <3>2. f.photo = photo /\ f.no \in K!FrameNos
        BY <2>1, <3>1 DEF Calm, CamPatient, FileHolds, CamPage, LineFrames
      <3>3. name = photo
        BY <1>0, <1>6 DEF Alone, Transfer
      <3> QED
        BY <3>2, <3>3
    <2> HIDE DEF f
    <2>3. image \in [K!FrameNos -> K!Photos \cup {0}] /\ bitmap \subseteq K!FrameNos
      BY DEF Calm, CamPage, PageFile
    <2>4. ASSUME NEW g \in bitmap' PROVE image'[g] = name
      <3>1. CASE g = f.no
        BY <2>1, <2>2, <2>3, <3>1
      <3>2. CASE g # f.no /\ g \in bitmap
        <4>1. image'[g] = image[g]
          BY <2>1, <2>3, <3>2
        <4> QED
          BY <1>0, <1>6, <3>2, <4>1
      <3> QED
        BY <2>1, <2>4, <3>1, <3>2
    <2>5. Inside'
      BY <1>0, <1>6, <2>1, <2>4
    <2> QED
      BY <1>6, <2>5
  <1> HIDE DEF Inside, Decoding, Shown
  <1> QED
    BY <1>2, <1>3, <1>4, <1>5, <1>6, FileSteps

-----------------------------------------------------------------------------
(* What a patient user sees. *)

LEMMA CamPatientInit == ASSUME CameraAssumption, K!Init PROVE CamPatient
  <1>1. /\ posted = <<>> /\ cmds = <<>> /\ down = <<>> /\ wire = <<>> /\ acks = <<>>
        /\ ~busy /\ ~active /\ ~fd /\ upc = "read" /\ spc = "read" /\ hpc = "idle" /\ name = 0
    BY DEF K!Init
  <1>2. ~Transfer /\ ~Opened /\ ~Receiving
    BY <1>1 DEF Transfer, Opened, Receiving
  <1>3. OneMessage
    <2>1. Len(cmds) <= 1 /\ Len(down) <= 1
      BY <1>1, EmptyLen
    <2> QED
      BY <1>1, <2>1 DEF OneMessage
  <1>4. Alone
    BY <1>1, <1>2 DEF Alone
  <1>5. LastOfRound
    BY <1>1 DEF LastOfRound
  <1>6. FileHolds
    BY <1>1, <1>2 DEF FileHolds
  <1> QED
    BY <1>3, <1>4, <1>5, <1>6 DEF CamPatient

LEMMA CamPatientKept ==
  ASSUME PatientUser, CameraAssumption, CameraInv, CamPage, CamPatient, [K!Next]_cameraVars
  PROVE  CamPatient'
  <1>1. CASE K!Next
    <2>1. Calm
      BY DEF Calm, CameraInv
    <2>2. OneMessage' /\ Alone'
      BY <1>1, <2>1, PressCalm, LvglCalm, UartCalm, SpiCalm, HubCalm DEF K!Next
    <2> QED
      BY <1>1, <2>1, <2>2, LastOfRoundKept, FileHoldsKept DEF CamPatient
  <1>2. CASE UNCHANGED cameraVars
    <2>1. OneMessage' /\ Alone'
      BY <1>2 DEF cameraVars, CamPatient, OneMessage, Alone, Transfer, Opened, Receiving, Fails, Has
    <2>2. LastOfRound'
      BY <1>2 DEF cameraVars, CamPatient, LastOfRound, IsEnd, K!End
    <2>3. FileHolds'
      BY <1>2 DEF cameraVars, CamPatient, FileHolds, Opened, Whole
    <2> QED
      BY <2>1, <2>2, <2>3 DEF CamPatient
  <1> QED
    BY <1>1, <1>2

LEMMA CamPatientShows == ASSUME CamPatient PROVE K!PhotoIsWhole /\ K!IdleIsClosed
  <1>1. K!PhotoIsWhole
    BY DEF CamPatient, FileHolds, Whole, K!PhotoIsWhole
  <1>2. K!IdleIsClosed
    BY DEF CamPatient, Alone, Transfer, Opened, K!IdleIsClosed
  <1> QED
    BY <1>1, <1>2

-----------------------------------------------------------------------------
\* A set of numbers that is not empty has a greatest one, ...
LEMMA HasGreatest ==
  ASSUME NEW n \in Nat, NEW S \in SUBSET (1..n), S # {}
  PROVE  \E f \in S : \A g \in S : g <= f
  <1> DEFINE Down == {n - f : f \in S}
  <1>1. Down \in SUBSET Nat /\ Down # {}
    <2>1. ASSUME NEW f \in S PROVE n - f \in Nat
      <3>1. f \in Nat /\ f <= n
        OBVIOUS
      <3> QED
        BY <3>1
    <2> QED
      BY <2>1
  <1>2. PICK d \in Down : \A e \in Down : d <= e
    <2> HIDE DEF Down
    <2> QED
      BY <1>1, HasLeast
  <1>3. PICK f \in S : d = n - f
    BY <1>2
  <1>4. ASSUME NEW g \in S PROVE g <= f
    <2>1. n - g \in Down
      OBVIOUS
    <2>2. n - f <= n - g
      BY <1>2, <1>3, <2>1
    <2> QED
      BY <2>2
  <1> QED
    BY <1>4

\* ... and, for every count below its size, one that so many are greater than.
LEMMA HasRank ==
  ASSUME NEW n \in Nat, NEW S \in SUBSET (1..n), NEW k \in Nat, k < Cardinality(S)
  PROVE  \E f \in S : Cardinality({g \in S : f < g}) = k
  <1> DEFINE Newer(f) == {g \in S : f < g}
             Missing == {m \in Nat : m < Cardinality(S) /\ ~\E f \in S : Cardinality(Newer(f)) = m}
  <1>0. \A f \in S : f \in Nat
    OBVIOUS
  <1>1. IsFiniteSet(S) /\ Cardinality(S) \in Nat
    <2>1. IsFiniteSet(1..n)
      BY FS_Interval
    <2> QED
      BY <2>1, FS_Subset, FS_CardinalityType
  <1>2. \A f \in S : IsFiniteSet(Newer(f)) /\ Cardinality(Newer(f)) \in Nat
    <2>1. \A f \in S : Newer(f) \subseteq S
      OBVIOUS
    <2> HIDE DEF Newer
    <2> QED
      BY <1>1, <2>1, FS_Subset, FS_CardinalityType
  <1>3. ASSUME Missing # {} PROVE FALSE
    <2>1. PICK m \in Missing : \A o \in Missing : m <= o
      <3>1. Missing \in SUBSET Nat
        OBVIOUS
      <3> HIDE DEF Missing
      <3> QED
        BY <1>3, <3>1, HasLeast
    <2>2. m \in Nat /\ m < Cardinality(S) /\ \A f \in S : Cardinality(Newer(f)) # m
      BY <2>1
    <2>3. CASE m = 0
      <3>1. S # {}
        BY <1>1, <2>2, <2>3, FS_EmptySet
      <3>2. PICK f \in S : \A g \in S : g <= f
        BY <3>1, HasGreatest
      <3>3. Newer(f) = {}
        <4>1. ASSUME NEW g \in S PROVE ~(f < g)
          BY <1>0, <3>2
        <4> QED
          BY <4>1
      <3> QED
        BY <2>2, <2>3, <3>3, FS_EmptySet
    <2>4. CASE m # 0
      <3>1. m - 1 \in Nat /\ m - 1 < Cardinality(S) /\ m - 1 \notin Missing
        <4>1. m - 1 \in Nat /\ m - 1 < Cardinality(S) /\ ~(m <= m - 1)
          BY <1>1, <2>2, <2>4
        <4> HIDE DEF Missing
        <4> QED
          BY <2>1, <4>1
      <3>2. PICK f \in S : Cardinality(Newer(f)) = m - 1
        BY <3>1
      <3>3. Cardinality(Newer(f) \cup {f}) = m
        <4>1. f \notin Newer(f)
          OBVIOUS
        <4> HIDE DEF Newer
        <4>2. Cardinality(Newer(f) \cup {f}) = Cardinality(Newer(f)) + 1
          BY <1>2, <4>1, FS_AddElement
        <4> QED
          BY <2>2, <3>2, <4>2
      <3>4. {g \in S : g < f} # {}
        <4>1. S # Newer(f) \cup {f}
          <5> HIDE DEF Newer
          <5> QED
            BY <2>2, <3>3
        <4>2. PICK h \in S : h \notin Newer(f) \cup {f}
          BY <4>1
        <4>3. h < f
          BY <1>0, <4>2
        <4> QED
          BY <4>3
      <3>5. PICK h \in {g \in S : g < f} : \A g \in {x \in S : x < f} : g <= h
        <4>1. {g \in S : g < f} \in SUBSET (1..n)
          OBVIOUS
        <4> QED
          BY <3>4, <4>1, HasGreatest
      <3>6. Newer(h) = Newer(f) \cup {f}
        <4>1. h \in S /\ h < f /\ \A g \in S : g < f => g <= h
          BY <3>5
        <4>2. ASSUME NEW g \in S PROVE h < g <=> f < g \/ g = f
          BY <1>0, <4>1
        <4> QED
          BY <4>2
      <3> QED
        BY <2>2, <3>3, <3>5, <3>6
    <2> QED
      BY <2>3, <2>4
  <1> QED
    BY <1>3

\* A function on the first numbers is a sequence.
LEMMA FirstNumbers ==
  ASSUME NEW S, NEW n \in Nat, NEW f \in [1..n -> S]
  PROVE  f \in Seq(S) /\ Len(f) = n
  OBVIOUS

\* The page counts files as everybody does.
LEMMA SameSize ==
  \A T : R!Cardinality(T) = Cardinality(T)
  BY DEF R!Cardinality, Cardinality

\* recorder_scan_files lists files that are there, and no more than fit.
LEMMA ListedThere ==
  ASSUME NEW n \in Nat, NEW S \in SUBSET (1..n), RecorderAssumption
  PROVE  /\ Len(R!Listed(S)) \in 0..MaxListed
         /\ R!Listed(S) \in [1..Len(R!Listed(S)) -> S]
  <1> DEFINE Size(T) == R!Cardinality(T)
             count == IF Size(S) < MaxListed THEN Size(S) ELSE MaxListed
             Newer(f) == {g \in S : f < g}
             pick == [i \in 1..count |-> CHOOSE f \in S : Size(Newer(f)) = i - 1]
  <1>1. Cardinality(S) \in Nat /\ MaxListed \in Nat
    <2>1. IsFiniteSet(1..n)
      BY FS_Interval
    <2> QED
      BY <2>1, FS_Subset, FS_CardinalityType DEF RecorderAssumption
  <1>2. R!Listed(S) = pick
    BY DEF R!Listed
  <1>3. count \in 0..MaxListed /\ count <= Cardinality(S)
    <2>1. Size(S) = Cardinality(S)
      BY SameSize
    <2> HIDE DEF Size
    <2> QED
      BY <1>1, <2>1
  <1>4. ASSUME NEW i \in 1..count PROVE pick[i] \in S
    <2>1. i - 1 \in Nat /\ i - 1 < Cardinality(S)
      <3> HIDE DEF count
      <3> QED
        BY <1>1, <1>3
    <2>2. PICK f \in S : Cardinality(Newer(f)) = i - 1
      BY <2>1, HasRank
    <2>4. Size(Newer(f)) = i - 1
      BY <2>2, SameSize
    <2>3. (CHOOSE g \in S : Size(Newer(g)) = i - 1) \in S
      <3> HIDE DEF Newer, Size
      <3> QED
        BY <2>2, <2>4
    <2> QED
      BY <2>3
  <1>5. pick \in [1..count -> S]
    <2>1. pick = [i \in 1..count |-> pick[i]]
      <3> HIDE DEF count, Newer
      <3> QED
        OBVIOUS
    <2> HIDE DEF pick
    <2> QED
      BY <1>4, <2>1
  <1>6. Len(pick) = count
    <2> HIDE DEF pick, count
    <2> QED
      BY <1>3, <1>5, FirstNumbers
  <1> QED
    BY <1>2, <1>3, <1>5, <1>6

-----------------------------------------------------------------------------
(* RecorderPlayer. *)

InPage(where) == page = where /\ calls = <<>>

\* What the page dispatched and has not done yet, and where it may stand then.
RecorderCalls ==
  /\ calls \in {<<>>, <<"open">>, <<"leave">>, <<"quit">>, <<"open", "quit">>}
  /\ (calls \in {<<"open">>, <<"open", "quit">>}) => page = "recorder"
  /\ calls = <<"quit">> => page # "player"
  /\ calls = <<"leave">> => page # "recorder"
  /\ calls = <<"leave">> /\ page = "player" => player = "open"

ListedType == Len(listed) \in 0..MaxListed /\ listed \in [1..Len(listed) -> 1..path]
DialogType == dialog \in [index : 0..MaxListed, name : 0..MaxFiles]
PlaceTypes ==
  /\ page \in {"menu", "recorder", "player"}
  /\ held \in {"none", "open", "recording", "stopped"}
  /\ forgotten \subseteq {"open", "recording", "stopped"}
  /\ player \in {"none", "open", "prepared", "started", "paused", "done"}
  /\ playing \in {"idle", "playing", "paused"}
FlagTypes == recording \in BOOLEAN /\ scan \in BOOLEAN /\ finger \in BOOLEAN
NumberTypes ==
  /\ path \in 0..MaxFiles /\ disk \subseteq 1..path
  /\ press \in 0..MaxListed /\ going \in 0..MaxFiles
  /\ visits \in 0..MaxVisits /\ plays \in 0..MaxPlays
RecorderTypes == PlaceTypes /\ FlagTypes /\ NumberTypes /\ ListedType /\ DialogType

\* The capture: who records is on the page, or has just left it.
CaptureOnce ==
  /\ recording <=> held = "recording"
  /\ "recording" \notin forgotten
  /\ recording => /\ InPage("recorder") \/ calls = <<"leave">>
                  /\ player \in {"none", "open"} /\ ~scan /\ dialog = R!Nobody
                  /\ \A i \in 1..Len(listed) : listed[i] # path
  /\ scan => page = "recorder" \/ calls = <<"leave">>
  /\ page = "recorder" /\ calls \in {<<>>, <<"quit">>} => held # "none"
  
\* The player: it holds the pipeline on its page only.
PlayerAlone ==
  /\ player \in {"prepared", "started", "paused", "done"} =>
       InPage("player") \/ calls \in {<<"quit">>, <<"open", "quit">>}
  /\ player = "open" => page = "player" \/ calls \in {<<"quit">>, <<"open", "quit">>}
  /\ going # 0 => InPage("player") /\ held = "none"
  /\ player \in {"prepared", "started", "paused"} /\ InPage("player") => held = "none"

\* The dialog shows the file that its number names.
DialogNames ==
  /\ dialog # R!Nobody => /\ calls = <<>> /\ ~scan /\ ~recording
                          /\ dialog.index \in 1..Len(listed)
                          /\ listed[dialog.index] = dialog.name
  /\ removed \subseteq {r \in R!Files \X R!Files : r[1] = r[2]}

RecorderInv == RecorderTypes /\ RecorderCalls /\ CaptureOnce /\ PlayerAlone /\ DialogNames

LEMMA RecorderInit == ASSUME RecorderAssumption, R!Init PROVE RecorderInv
  <1>1. ListedType /\ DialogType
    BY DEF RecorderAssumption, R!Init, R!Nobody, ListedType, DialogType
  <1>2. PlaceTypes
    BY DEF R!Init, PlaceTypes
  <1>4. FlagTypes /\ NumberTypes
    <2>1. FlagTypes
      BY DEF R!Init, FlagTypes
    <2>2. path = 0 /\ disk = {} /\ press = 0 /\ going = 0 /\ visits = 0 /\ plays = 0
      BY DEF R!Init
    <2> QED
      BY <2>1, <2>2 DEF RecorderAssumption, NumberTypes
  <1>3. RecorderCalls /\ CaptureOnce /\ PlayerAlone /\ DialogNames
    BY DEF R!Init, R!Nobody, RecorderCalls, CaptureOnce, PlayerAlone, DialogNames, InPage
  <1> QED
    BY <1>1, <1>2, <1>3, <1>4 DEF RecorderInv, RecorderTypes

\* What LVGL dispatches, as sequences.
LEMMA CallFacts ==
  /\ Append(<<>>, "open") = <<"open">> /\ Append(<<>>, "leave") = <<"leave">>
  /\ Append(<<>>, "quit") = <<"quit">> /\ <<>> \o <<"open", "quit">> = <<"open", "quit">>
  /\ Tail(<<"open">>) = <<>> /\ Tail(<<"leave">>) = <<>> /\ Tail(<<"quit">>) = <<>>
  /\ Tail(<<"open", "quit">>) = <<"quit">>
  /\ Head(<<"open">>) = "open" /\ Head(<<"leave">>) = "leave" /\ Head(<<"quit">>) = "quit"
  /\ Head(<<"open", "quit">>) = "open"
  /\ <<"open">> # <<>> /\ <<"leave">> # <<>> /\ <<"quit">> # <<>> /\ <<"open", "quit">> # <<>>
  /\ <<"open">> # <<"leave">> /\ <<"open">> # <<"quit">> /\ <<"leave">> # <<"quit">>
  /\ <<"open", "quit">> # <<"open">> /\ <<"open", "quit">> # <<"leave">>
  /\ <<"open", "quit">> # <<"quit">>
  OBVIOUS

\* A number of a file in the list.
LEMMA ListedFits ==
  ASSUME RecorderTypes, RecorderAssumption, NEW i \in DOMAIN listed PROVE i \in 0..MaxListed
  BY DEF RecorderTypes, ListedType, RecorderAssumption

\* The list and the dialog, where nothing touches them.
LEMMA ListStays ==
  ASSUME RecorderTypes, UNCHANGED <<listed, path, dialog>> PROVE ListedType' /\ DialogType'
  BY DEF RecorderTypes, ListedType, DialogType

LEMMA RecorderEnter ==
  ASSUME RecorderInv, RecorderAssumption, R!Enter PROVE RecorderInv'
  <1>0. RecorderTypes /\ RecorderCalls /\ CaptureOnce /\ PlayerAlone /\ DialogNames
    BY DEF RecorderInv
  <1>1. ListedType' /\ DialogType'
    BY <1>0, ListStays DEF R!Enter, R!Input, R!Shown, R!fileVars, R!playerVars, InPage
  <1>7. PlaceTypes' /\ FlagTypes'
    BY <1>0 DEF RecorderTypes, PlaceTypes, FlagTypes, R!Enter, R!Input, R!Shown, R!fileVars,
       R!playerVars, InPage
  <1>8. NumberTypes'
    BY <1>0 DEF RecorderTypes, NumberTypes, RecorderAssumption, R!Enter, R!Files, R!Input, R!Shown,
       R!fileVars, R!playerVars, InPage
  <1>2. RecorderCalls'
    BY <1>0, CallFacts DEF RecorderTypes, PlaceTypes, RecorderCalls, PlayerAlone, R!Enter, R!Input,
       R!Shown, R!fileVars, R!playerVars, InPage
  <1>3. CaptureOnce'
    BY <1>0 DEF RecorderTypes, PlaceTypes, FlagTypes, RecorderCalls, CaptureOnce, PlayerAlone,
       DialogNames, R!Enter, R!Input, R!Shown, R!fileVars, R!playerVars, InPage
  <1>4. PlayerAlone'
    BY <1>0 DEF RecorderTypes, PlaceTypes, RecorderCalls, CaptureOnce, PlayerAlone, R!Enter,
       R!Input, R!Shown, R!fileVars, R!playerVars, InPage
  <1>5. DialogNames'
    BY <1>0 DEF RecorderTypes, RecorderCalls, CaptureOnce, DialogNames, R!Enter, R!Input, R!Shown,
       R!fileVars, R!playerVars, InPage
  <1> QED
    BY <1>1, <1>2, <1>3, <1>4, <1>5, <1>7, <1>8 DEF RecorderInv, RecorderTypes

LEMMA RecorderSwipe ==
  ASSUME RecorderInv, RecorderAssumption, R!Swipe PROVE RecorderInv'
  <1>0. RecorderTypes /\ RecorderCalls /\ CaptureOnce /\ PlayerAlone /\ DialogNames
    BY DEF RecorderInv
  <1>6. /\ calls = <<>> /\ page' = "menu" /\ page # "menu" /\ going = 0
        /\ (calls' = <<"leave">> /\ page = "recorder") \/ (calls' = <<"quit">> /\ page = "player")
    BY DEF R!Swipe, R!Shown
  <1>1. ListedType' /\ DialogType'
    BY <1>0, ListStays DEF R!Swipe, R!Shown, R!fileVars, R!playerVars, InPage
  <1>7. PlaceTypes' /\ FlagTypes'
    BY <1>0 DEF RecorderTypes, PlaceTypes, FlagTypes, R!Swipe, R!Shown, R!fileVars, R!playerVars,
       InPage
  <1>8. NumberTypes'
    BY <1>0 DEF RecorderTypes, NumberTypes, RecorderAssumption, R!Swipe, R!Files, R!Shown,
       R!fileVars, R!playerVars, InPage
  <1>2. RecorderCalls'
    BY <1>0, <1>6, CallFacts DEF RecorderTypes, PlaceTypes, RecorderCalls, PlayerAlone, R!Swipe,
       R!Shown, R!fileVars, R!playerVars, InPage
  <1>3. CaptureOnce'
    BY <1>0, <1>6 DEF RecorderTypes, PlaceTypes, FlagTypes, RecorderCalls, CaptureOnce,
       PlayerAlone, DialogNames, R!Swipe, R!Shown, R!fileVars, R!playerVars, InPage
  <1>4. PlayerAlone'
    BY <1>0, <1>6 DEF RecorderTypes, PlaceTypes, RecorderCalls, CaptureOnce, PlayerAlone, R!Swipe,
       R!Shown, R!fileVars, R!playerVars, InPage
  <1>5. DialogNames'
    BY <1>0, <1>6 DEF RecorderTypes, RecorderCalls, CaptureOnce, DialogNames, R!Swipe, R!Shown,
       R!fileVars, R!playerVars, InPage
  <1> QED
    BY <1>1, <1>2, <1>3, <1>4, <1>5, <1>7, <1>8 DEF RecorderInv, RecorderTypes

LEMMA RecorderClickFile ==
  ASSUME RecorderInv, RecorderAssumption, R!ClickFile PROVE RecorderInv'
  <1>0. RecorderTypes /\ RecorderCalls /\ CaptureOnce /\ PlayerAlone /\ DialogNames
    BY DEF RecorderInv
  <1>1. ListedType' /\ DialogType'
    BY <1>0, ListStays DEF R!ClickFile, R!Input, R!Shown, InPage
  <1>7. PlaceTypes' /\ FlagTypes'
    BY <1>0 DEF RecorderTypes, PlaceTypes, FlagTypes, R!ClickFile, R!Input, R!Shown, InPage
  <1>8. NumberTypes'
    BY <1>0 DEF RecorderTypes, NumberTypes, RecorderAssumption, R!ClickFile, R!Files, R!Input,
       R!Shown, InPage
  <1>2. RecorderCalls'
    BY <1>0, CallFacts DEF RecorderTypes, PlaceTypes, RecorderCalls, PlayerAlone, R!ClickFile,
       R!Input, R!Shown, InPage
  <1>3. CaptureOnce'
    BY <1>0 DEF RecorderTypes, PlaceTypes, FlagTypes, RecorderCalls, CaptureOnce, PlayerAlone,
       DialogNames, R!ClickFile, R!Input, R!Shown, InPage
  <1>4. PlayerAlone'
    BY <1>0 DEF RecorderTypes, PlaceTypes, RecorderCalls, CaptureOnce, PlayerAlone, R!ClickFile,
       R!Input, R!Shown, InPage
  <1>5. DialogNames'
    BY <1>0 DEF RecorderTypes, RecorderCalls, CaptureOnce, DialogNames, R!ClickFile, R!Input,
       R!Shown, InPage
  <1> QED
    BY <1>1, <1>2, <1>3, <1>4, <1>5, <1>7, <1>8 DEF RecorderInv, RecorderTypes

LEMMA RecorderBack ==
  ASSUME RecorderInv, RecorderAssumption, R!Back PROVE RecorderInv'
  <1>0. RecorderTypes /\ RecorderCalls /\ CaptureOnce /\ PlayerAlone /\ DialogNames
    BY DEF RecorderInv
  <1>1. ListedType' /\ DialogType'
    BY <1>0, ListStays DEF R!Back, R!Input, R!Shown, R!fileVars, R!playerVars, InPage
  <1>7. PlaceTypes' /\ FlagTypes'
    BY <1>0 DEF RecorderTypes, PlaceTypes, FlagTypes, R!Back, R!Input, R!Shown, R!fileVars,
       R!playerVars, InPage
  <1>8. NumberTypes'
    BY <1>0 DEF RecorderTypes, NumberTypes, RecorderAssumption, R!Back, R!Files, R!Input, R!Shown,
       R!fileVars, R!playerVars, InPage
  <1>2. RecorderCalls'
    BY <1>0, CallFacts DEF RecorderTypes, PlaceTypes, RecorderCalls, PlayerAlone, R!Back, R!Input,
       R!Shown, R!fileVars, R!playerVars, InPage
  <1>3. CaptureOnce'
    BY <1>0 DEF RecorderTypes, PlaceTypes, FlagTypes, RecorderCalls, CaptureOnce, PlayerAlone,
       DialogNames, R!Back, R!Input, R!Shown, R!fileVars, R!playerVars, InPage
  <1>4. PlayerAlone'
    BY <1>0 DEF RecorderTypes, PlaceTypes, RecorderCalls, CaptureOnce, PlayerAlone, R!Back,
       R!Input, R!Shown, R!fileVars, R!playerVars, InPage
  <1>5. DialogNames'
    BY <1>0 DEF RecorderTypes, RecorderCalls, CaptureOnce, DialogNames, R!Back, R!Input, R!Shown,
       R!fileVars, R!playerVars, InPage
  <1> QED
    BY <1>1, <1>2, <1>3, <1>4, <1>5, <1>7, <1>8 DEF RecorderInv, RecorderTypes

LEMMA RecorderStart ==
  ASSUME RecorderInv, RecorderAssumption, R!Start PROVE RecorderInv'
  <1>0. RecorderTypes /\ RecorderCalls /\ CaptureOnce /\ PlayerAlone /\ DialogNames
    BY DEF RecorderInv
  <1>1. ListedType' /\ DialogType'
    <2>1. UNCHANGED <<listed, dialog>> /\ path' = path + 1 /\ path \in Nat
      BY <1>0 DEF R!Start, RecorderTypes, NumberTypes, RecorderAssumption
    <2>2. 1..path \subseteq 1..path'
      BY <2>1
    <2> QED
      BY <1>0, <2>1, <2>2 DEF RecorderTypes, ListedType, DialogType
  <1>7. PlaceTypes' /\ FlagTypes'
    BY <1>0 DEF RecorderTypes, PlaceTypes, FlagTypes, R!Start, R!Input, R!Shown, R!playerVars,
       InPage
  <1>8. NumberTypes'
    <2>1. /\ path \in Nat /\ path < MaxFiles /\ path' = path + 1 /\ MaxFiles \in Nat
          /\ UNCHANGED <<press, going, visits, plays>>
      BY <1>0 DEF RecorderTypes, NumberTypes, RecorderAssumption, R!Start, R!playerVars
    <2>2. disk \subseteq 1..path /\ disk' \subseteq disk \cup {path + 1}
      BY <1>0 DEF RecorderTypes, NumberTypes, R!Start
    <2>3. disk' \subseteq 1..path + 1
      BY <2>1, <2>2
    <2> QED
      BY <1>0, <2>1, <2>3 DEF RecorderTypes, NumberTypes
  <1>2. RecorderCalls'
    BY <1>0, CallFacts DEF RecorderTypes, PlaceTypes, RecorderCalls, PlayerAlone, R!Start, R!Input,
       R!Shown, R!playerVars, InPage
  <1>3. CaptureOnce'
    <2>1. /\ page = "recorder" /\ calls = <<>> /\ ~scan /\ dialog = R!Nobody /\ held # "none"
          /\ held' = "recording" /\ recording' = TRUE /\ path' = path + 1 /\ path \in Nat
          /\ UNCHANGED <<page, calls, scan, dialog, forgotten, listed, player>>
      BY <1>0 DEF RecorderTypes, NumberTypes, CaptureOnce, RecorderAssumption, R!Start, R!Input,
         R!Shown,
           R!playerVars
    <2>2. player \in {"none", "open"}
      BY <1>0, <2>1 DEF RecorderTypes, PlaceTypes, PlayerAlone, InPage
    <2>3. \A i \in 1..Len(listed) : listed[i] # path + 1
      BY <1>0, <2>1 DEF RecorderTypes, ListedType
    <2> QED
      BY <1>0, <2>1, <2>2, <2>3 DEF CaptureOnce, InPage
  <1>4. PlayerAlone'
    BY <1>0 DEF RecorderTypes, PlaceTypes, RecorderCalls, CaptureOnce, PlayerAlone, R!Start,
       R!Input, R!Shown, R!playerVars, InPage
  <1>5. DialogNames'
    BY <1>0 DEF RecorderTypes, RecorderCalls, CaptureOnce, DialogNames, R!Start, R!Input, R!Shown,
       R!playerVars, InPage
  <1> QED
    BY <1>1, <1>2, <1>3, <1>4, <1>5, <1>7, <1>8 DEF RecorderInv, RecorderTypes

LEMMA RecorderStop ==
  ASSUME RecorderInv, RecorderAssumption, R!Stop PROVE RecorderInv'
  <1>0. RecorderTypes /\ RecorderCalls /\ CaptureOnce /\ PlayerAlone /\ DialogNames
    BY DEF RecorderInv
  <1>1. ListedType' /\ DialogType'
    BY <1>0, ListStays DEF R!Stop, R!Input, R!Shown, R!fileVars, R!playerVars, InPage
  <1>7. PlaceTypes' /\ FlagTypes'
    BY <1>0 DEF RecorderTypes, PlaceTypes, FlagTypes, R!Stop, R!Input, R!Shown, R!fileVars,
       R!playerVars, InPage
  <1>8. NumberTypes'
    BY <1>0 DEF RecorderTypes, NumberTypes, RecorderAssumption, R!Stop, R!Files, R!Input, R!Shown,
       R!fileVars, R!playerVars, InPage
  <1>2. RecorderCalls'
    BY <1>0, CallFacts DEF RecorderTypes, PlaceTypes, RecorderCalls, PlayerAlone, R!Stop, R!Input,
       R!Shown, R!fileVars, R!playerVars, InPage
  <1>3. CaptureOnce'
    BY <1>0 DEF RecorderTypes, PlaceTypes, FlagTypes, RecorderCalls, CaptureOnce, PlayerAlone,
       DialogNames, R!Stop, R!Input, R!Shown, R!fileVars, R!playerVars, InPage
  <1>4. PlayerAlone'
    BY <1>0 DEF RecorderTypes, PlaceTypes, RecorderCalls, CaptureOnce, PlayerAlone, R!Stop,
       R!Input, R!Shown, R!fileVars, R!playerVars, InPage
  <1>5. DialogNames'
    BY <1>0 DEF RecorderTypes, RecorderCalls, CaptureOnce, DialogNames, R!Stop, R!Input, R!Shown,
       R!fileVars, R!playerVars, InPage
  <1> QED
    BY <1>1, <1>2, <1>3, <1>4, <1>5, <1>7, <1>8 DEF RecorderInv, RecorderTypes

LEMMA RecorderScanTimer ==
  ASSUME RecorderInv, RecorderAssumption, R!ScanTimer PROVE RecorderInv'
  <1>0. RecorderTypes /\ RecorderCalls /\ CaptureOnce /\ PlayerAlone /\ DialogNames
    BY DEF RecorderInv
  <1>1. ListedType' /\ DialogType'
    <2>1. listed' = R!Listed(disk) /\ UNCHANGED <<path, dialog>> /\ path \in Nat /\ disk \in SUBSET (1..path)
      BY <1>0 DEF R!ScanTimer, R!Scanned, RecorderTypes, NumberTypes, RecorderAssumption
    <2>2. /\ Len(R!Listed(disk)) \in 0..MaxListed
          /\ R!Listed(disk) \in [1..Len(R!Listed(disk)) -> disk]
      BY <2>1, ListedThere
    <2> HIDE DEF R!Listed
    <2> QED
      BY <1>0, <2>1, <2>2 DEF RecorderTypes, ListedType, DialogType
  <1>7. PlaceTypes' /\ FlagTypes'
    BY <1>0 DEF RecorderTypes, PlaceTypes, FlagTypes, R!ScanTimer, R!Scanned, R!playerVars, InPage
  <1>8. NumberTypes'
    BY <1>0 DEF RecorderTypes, NumberTypes, RecorderAssumption, R!ScanTimer, R!Files, R!Scanned,
       R!playerVars, InPage
  <1>2. RecorderCalls'
    BY <1>0, CallFacts DEF RecorderTypes, PlaceTypes, RecorderCalls, PlayerAlone, R!ScanTimer,
       R!Scanned, R!playerVars, InPage
  <1>3. CaptureOnce'
    BY <1>0 DEF RecorderTypes, PlaceTypes, FlagTypes, RecorderCalls, CaptureOnce, PlayerAlone,
       DialogNames, R!ScanTimer, R!Scanned, R!playerVars, InPage
  <1>4. PlayerAlone'
    BY <1>0 DEF RecorderTypes, PlaceTypes, RecorderCalls, CaptureOnce, PlayerAlone, R!ScanTimer,
       R!Scanned, R!playerVars, InPage
  <1>5. DialogNames'
    BY <1>0 DEF RecorderTypes, RecorderCalls, CaptureOnce, DialogNames, R!ScanTimer, R!Scanned,
       R!playerVars, InPage
  <1> QED
    BY <1>1, <1>2, <1>3, <1>4, <1>5, <1>7, <1>8 DEF RecorderInv, RecorderTypes

LEMMA RecorderPress ==
  ASSUME RecorderInv, RecorderAssumption, R!Press PROVE RecorderInv'
  <1>0. RecorderTypes /\ RecorderCalls /\ CaptureOnce /\ PlayerAlone /\ DialogNames
    BY DEF RecorderInv
  <1>1. ListedType' /\ DialogType'
    BY <1>0, ListStays DEF R!Press, R!Input, R!Shown, R!playerVars, InPage
  <1>7. PlaceTypes' /\ FlagTypes'
    BY <1>0 DEF RecorderTypes, PlaceTypes, FlagTypes, R!Press, R!Input, R!Shown, R!playerVars,
       InPage
  <1>8. NumberTypes'
    BY <1>0, ListedFits DEF RecorderTypes, NumberTypes, RecorderAssumption, R!Press, R!Files,
       R!Input, R!Shown, R!playerVars, InPage
  <1>2. RecorderCalls'
    BY <1>0, CallFacts DEF RecorderTypes, PlaceTypes, RecorderCalls, PlayerAlone, R!Press, R!Input,
       R!Shown, R!playerVars, InPage
  <1>3. CaptureOnce'
    BY <1>0 DEF RecorderTypes, PlaceTypes, FlagTypes, RecorderCalls, CaptureOnce, PlayerAlone,
       DialogNames, R!Press, R!Input, R!Shown, R!playerVars, InPage
  <1>4. PlayerAlone'
    BY <1>0 DEF RecorderTypes, PlaceTypes, RecorderCalls, CaptureOnce, PlayerAlone, R!Press,
       R!Input, R!Shown, R!playerVars, InPage
  <1>5. DialogNames'
    BY <1>0 DEF RecorderTypes, RecorderCalls, CaptureOnce, DialogNames, R!Press, R!Input, R!Shown,
       R!playerVars, InPage
  <1> QED
    BY <1>1, <1>2, <1>3, <1>4, <1>5, <1>7, <1>8 DEF RecorderInv, RecorderTypes

LEMMA RecorderRelease ==
  ASSUME RecorderInv, RecorderAssumption, R!Release PROVE RecorderInv'
  <1>0. RecorderTypes /\ RecorderCalls /\ CaptureOnce /\ PlayerAlone /\ DialogNames
    BY DEF RecorderInv
  <1>1. ListedType' /\ DialogType'
    BY <1>0, ListStays DEF R!Release, R!playerVars, InPage
  <1>7. PlaceTypes' /\ FlagTypes'
    BY <1>0 DEF RecorderTypes, PlaceTypes, FlagTypes, R!Release, R!playerVars, InPage
  <1>8. NumberTypes'
    BY <1>0 DEF RecorderTypes, NumberTypes, RecorderAssumption, R!Release, R!Files, R!playerVars,
       InPage
  <1>2. RecorderCalls'
    BY <1>0, CallFacts DEF RecorderTypes, PlaceTypes, RecorderCalls, PlayerAlone, R!Release,
       R!playerVars, InPage
  <1>3. CaptureOnce'
    BY <1>0 DEF RecorderTypes, PlaceTypes, FlagTypes, RecorderCalls, CaptureOnce, PlayerAlone,
       DialogNames, R!Release, R!playerVars, InPage
  <1>4. PlayerAlone'
    BY <1>0 DEF RecorderTypes, PlaceTypes, RecorderCalls, CaptureOnce, PlayerAlone, R!Release,
       R!playerVars, InPage
  <1>5. DialogNames'
    BY <1>0 DEF RecorderTypes, RecorderCalls, CaptureOnce, DialogNames, R!Release, R!playerVars,
       InPage
  <1> QED
    BY <1>1, <1>2, <1>3, <1>4, <1>5, <1>7, <1>8 DEF RecorderInv, RecorderTypes

LEMMA RecorderLongPress ==
  ASSUME RecorderInv, RecorderAssumption, R!LongPress PROVE RecorderInv'
  <1>0. RecorderTypes /\ RecorderCalls /\ CaptureOnce /\ PlayerAlone /\ DialogNames
    BY DEF RecorderInv
  <1>1. ListedType' /\ DialogType'
    BY <1>0 DEF R!LongPress, RecorderTypes, NumberTypes, ListedType, DialogType, RecorderAssumption
  <1>7. PlaceTypes' /\ FlagTypes'
    BY <1>0 DEF RecorderTypes, PlaceTypes, FlagTypes, R!LongPress, R!playerVars, InPage
  <1>8. NumberTypes'
    BY <1>0 DEF RecorderTypes, NumberTypes, RecorderAssumption, R!LongPress, R!Files, R!playerVars,
       InPage
  <1>2. RecorderCalls'
    BY <1>0, CallFacts DEF RecorderTypes, PlaceTypes, RecorderCalls, PlayerAlone, R!LongPress,
       R!playerVars, InPage
  <1>3. CaptureOnce'
    BY <1>0 DEF RecorderTypes, PlaceTypes, FlagTypes, RecorderCalls, CaptureOnce, PlayerAlone,
       DialogNames, R!LongPress, R!playerVars, InPage
  <1>4. PlayerAlone'
    BY <1>0 DEF RecorderTypes, PlaceTypes, RecorderCalls, CaptureOnce, PlayerAlone, R!LongPress,
       R!playerVars, InPage
  <1>5. DialogNames'
    <2>1. calls = <<>> /\ press # 0 /\ ~scan /\ ~recording
      BY DEF R!LongPress
    <2>2. UNCHANGED <<calls, scan, recording, listed, removed>>
      BY DEF R!LongPress, R!playerVars
    <2>3. CASE press <= Len(listed) /\ dialog' = [index |-> press, name |-> listed[press]]
      <3>1. press \in 1..Len(listed)
        BY <1>0, <2>1, <2>3 DEF RecorderTypes, NumberTypes, ListedType, RecorderAssumption
      <3>2. dialog'.index = press /\ dialog'.name = listed[press]
        BY <2>3
      <3> QED
        BY <1>0, <2>1, <2>2, <3>1, <3>2 DEF DialogNames
    <2>4. CASE UNCHANGED dialog
      BY <1>0, <2>2, <2>4 DEF DialogNames
    <2> QED
      BY <2>3, <2>4 DEF R!LongPress
  <1> QED
    BY <1>1, <1>2, <1>3, <1>4, <1>5, <1>7, <1>8 DEF RecorderInv, RecorderTypes

LEMMA RecorderCancel ==
  ASSUME RecorderInv, RecorderAssumption, R!Cancel PROVE RecorderInv'
  <1>0. RecorderTypes /\ RecorderCalls /\ CaptureOnce /\ PlayerAlone /\ DialogNames
    BY DEF RecorderInv
  <1>1. ListedType' /\ DialogType'
    BY <1>0 DEF R!Cancel, R!Nobody, RecorderTypes, NumberTypes, ListedType, DialogType,
       RecorderAssumption
  <1>7. PlaceTypes' /\ FlagTypes'
    BY <1>0 DEF RecorderTypes, PlaceTypes, FlagTypes, R!Cancel, R!playerVars, InPage
  <1>8. NumberTypes'
    BY <1>0 DEF RecorderTypes, NumberTypes, RecorderAssumption, R!Cancel, R!Files, R!playerVars,
       InPage
  <1>2. RecorderCalls'
    BY <1>0, CallFacts DEF RecorderTypes, PlaceTypes, RecorderCalls, PlayerAlone, R!Cancel,
       R!playerVars, InPage
  <1>3. CaptureOnce'
    BY <1>0 DEF RecorderTypes, PlaceTypes, FlagTypes, RecorderCalls, CaptureOnce, PlayerAlone,
       DialogNames, R!Cancel, R!playerVars, InPage
  <1>4. PlayerAlone'
    BY <1>0 DEF RecorderTypes, PlaceTypes, RecorderCalls, CaptureOnce, PlayerAlone, R!Cancel,
       R!playerVars, InPage
  <1>5. DialogNames'
    BY <1>0 DEF RecorderTypes, RecorderCalls, CaptureOnce, DialogNames, R!Cancel, R!playerVars,
       InPage
  <1> QED
    BY <1>1, <1>2, <1>3, <1>4, <1>5, <1>7, <1>8 DEF RecorderInv, RecorderTypes

LEMMA RecorderConfirm ==
  ASSUME RecorderInv, RecorderAssumption, R!Confirm PROVE RecorderInv'
  <1>0. RecorderTypes /\ RecorderCalls /\ CaptureOnce /\ PlayerAlone /\ DialogNames
    BY DEF RecorderInv
  <1>1. ListedType' /\ DialogType'
    <2>1. DialogType' /\ UNCHANGED path /\ path \in Nat /\ disk \in SUBSET (1..path)
      BY <1>0 DEF R!Confirm, R!Nobody, RecorderTypes, NumberTypes, DialogType, RecorderAssumption
    <2>2. CASE UNCHANGED listed
      BY <1>0, <2>1, <2>2 DEF RecorderTypes, ListedType
    <2>3. ASSUME NEW gone, listed' = R!Listed(disk \ {gone}) PROVE ListedType'
      <3> DEFINE rest == disk \ {gone}
      <3>1. rest \in SUBSET (1..path)
        BY <2>1
      <3> HIDE DEF rest
      <3>2. Len(R!Listed(rest)) \in 0..MaxListed /\ R!Listed(rest) \in [1..Len(R!Listed(rest)) -> rest]
        BY <2>1, <3>1, ListedThere
      <3>3. listed' = R!Listed(rest)
        BY <2>3 DEF rest
      <3> QED
        BY <2>1, <3>1, <3>2, <3>3 DEF ListedType
    <2> QED
      BY <2>1, <2>2, <2>3 DEF R!Confirm, R!Scanned
  <1>7. PlaceTypes' /\ FlagTypes'
    BY <1>0 DEF RecorderTypes, PlaceTypes, FlagTypes, R!Confirm, R!Scanned, R!playerVars, InPage
  <1>8. NumberTypes'
    BY <1>0 DEF RecorderTypes, NumberTypes, RecorderAssumption, R!Confirm, R!Files, R!Scanned,
       R!playerVars, InPage
  <1>2. RecorderCalls'
    BY <1>0, CallFacts DEF RecorderTypes, PlaceTypes, RecorderCalls, PlayerAlone, R!Confirm,
       R!Scanned, R!playerVars, InPage
  <1>3. CaptureOnce'
    BY <1>0 DEF RecorderTypes, PlaceTypes, FlagTypes, RecorderCalls, CaptureOnce, PlayerAlone,
       DialogNames, R!Confirm, R!Scanned, R!playerVars, InPage
  <1>4. PlayerAlone'
    BY <1>0 DEF RecorderTypes, PlaceTypes, RecorderCalls, CaptureOnce, PlayerAlone, R!Confirm,
       R!Scanned, R!playerVars, InPage
  <1>5. DialogNames'
    <2>1. dialog # R!Nobody /\ dialog' = R!Nobody
      BY DEF R!Confirm
    <2>2. dialog.index \in 1..Len(listed) /\ listed[dialog.index] = dialog.name
      BY <1>0, <2>1 DEF DialogNames
    <2>3. dialog.name \in R!Files
      BY <1>0, <2>2 DEF RecorderTypes, NumberTypes, ListedType, R!Files, RecorderAssumption
    <2>4. \/ removed' = removed
          \/ removed' = removed \cup {<<dialog.name, dialog.name>>}
      BY <2>2 DEF R!Confirm
    <2> QED
      BY <1>0, <2>1, <2>3, <2>4 DEF DialogNames
  <1> QED
    BY <1>1, <1>2, <1>3, <1>4, <1>5, <1>7, <1>8 DEF RecorderInv, RecorderTypes

LEMMA RecorderPlay ==
  ASSUME RecorderInv, RecorderAssumption, R!Play PROVE RecorderInv'
  <1>0. RecorderTypes /\ RecorderCalls /\ CaptureOnce /\ PlayerAlone /\ DialogNames
    BY DEF RecorderInv
  <1>1. ListedType' /\ DialogType'
    BY <1>0, ListStays DEF R!Play, R!Input, R!Shown, R!fileVars, InPage
  <1>7. PlaceTypes' /\ FlagTypes'
    BY <1>0 DEF RecorderTypes, PlaceTypes, FlagTypes, R!Play, R!Input, R!Shown, R!fileVars, InPage
  <1>8. NumberTypes'
    BY <1>0 DEF RecorderTypes, NumberTypes, RecorderAssumption, R!Play, R!Files, R!Input, R!Shown,
       R!fileVars, InPage
  <1>2. RecorderCalls'
    BY <1>0, CallFacts DEF RecorderTypes, PlaceTypes, RecorderCalls, PlayerAlone, R!Play, R!Input,
       R!Shown, R!fileVars, InPage
  <1>3. CaptureOnce'
    BY <1>0 DEF RecorderTypes, PlaceTypes, FlagTypes, RecorderCalls, CaptureOnce, PlayerAlone,
       DialogNames, R!Play, R!Input, R!Shown, R!fileVars, InPage
  <1>4. PlayerAlone'
    BY <1>0 DEF RecorderTypes, PlaceTypes, RecorderCalls, CaptureOnce, PlayerAlone, R!Play,
       R!Input, R!Shown, R!fileVars, InPage
  <1>5. DialogNames'
    BY <1>0 DEF RecorderTypes, RecorderCalls, CaptureOnce, DialogNames, R!Play, R!Input, R!Shown,
       R!fileVars, InPage
  <1> QED
    BY <1>1, <1>2, <1>3, <1>4, <1>5, <1>7, <1>8 DEF RecorderInv, RecorderTypes

LEMMA RecorderPrepare ==
  ASSUME RecorderInv, RecorderAssumption, R!Prepare PROVE RecorderInv'
  <1>0. RecorderTypes /\ RecorderCalls /\ CaptureOnce /\ PlayerAlone /\ DialogNames
    BY DEF RecorderInv
  <1>1. ListedType' /\ DialogType'
    BY <1>0, ListStays DEF R!Prepare, R!Opened, R!Sounding, R!fileVars, InPage
  <1>7. PlaceTypes' /\ FlagTypes'
    BY <1>0 DEF RecorderTypes, PlaceTypes, FlagTypes, R!Prepare, R!Opened, R!Sounding, R!fileVars,
       InPage
  <1>8. NumberTypes'
    BY <1>0 DEF RecorderTypes, NumberTypes, RecorderAssumption, R!Prepare, R!Files, R!Opened,
       R!Sounding, R!fileVars, InPage
  <1>2. RecorderCalls'
    BY <1>0, CallFacts DEF RecorderTypes, PlaceTypes, RecorderCalls, PlayerAlone, R!Prepare,
       R!Opened, R!Sounding, R!fileVars, InPage
  <1>3. CaptureOnce'
    BY <1>0 DEF RecorderTypes, PlaceTypes, FlagTypes, RecorderCalls, CaptureOnce, PlayerAlone,
       DialogNames, R!Prepare, R!Opened, R!Sounding, R!fileVars, InPage
  <1>4. PlayerAlone'
    BY <1>0 DEF RecorderTypes, PlaceTypes, RecorderCalls, CaptureOnce, PlayerAlone, R!Prepare,
       R!Opened, R!Sounding, R!fileVars, InPage
  <1>5. DialogNames'
    BY <1>0 DEF RecorderTypes, RecorderCalls, CaptureOnce, DialogNames, R!Prepare, R!Opened,
       R!Sounding, R!fileVars, InPage
  <1> QED
    BY <1>1, <1>2, <1>3, <1>4, <1>5, <1>7, <1>8 DEF RecorderInv, RecorderTypes

LEMMA RecorderStarted ==
  ASSUME RecorderInv, RecorderAssumption, R!Started PROVE RecorderInv'
  <1>0. RecorderTypes /\ RecorderCalls /\ CaptureOnce /\ PlayerAlone /\ DialogNames
    BY DEF RecorderInv
  <1>1. ListedType' /\ DialogType'
    BY <1>0, ListStays DEF R!Started, R!fileVars, InPage
  <1>7. PlaceTypes' /\ FlagTypes'
    BY <1>0 DEF RecorderTypes, PlaceTypes, FlagTypes, R!Started, R!fileVars, InPage
  <1>8. NumberTypes'
    BY <1>0 DEF RecorderTypes, NumberTypes, RecorderAssumption, R!Started, R!Files, R!fileVars,
       InPage
  <1>2. RecorderCalls'
    BY <1>0, CallFacts DEF RecorderTypes, PlaceTypes, RecorderCalls, PlayerAlone, R!Started,
       R!fileVars, InPage
  <1>3. CaptureOnce'
    BY <1>0 DEF RecorderTypes, PlaceTypes, FlagTypes, RecorderCalls, CaptureOnce, PlayerAlone,
       DialogNames, R!Started, R!fileVars, InPage
  <1>4. PlayerAlone'
    BY <1>0 DEF RecorderTypes, PlaceTypes, RecorderCalls, CaptureOnce, PlayerAlone, R!Started,
       R!fileVars, InPage
  <1>5. DialogNames'
    BY <1>0 DEF RecorderTypes, RecorderCalls, CaptureOnce, DialogNames, R!Started, R!fileVars,
       InPage
  <1> QED
    BY <1>1, <1>2, <1>3, <1>4, <1>5, <1>7, <1>8 DEF RecorderInv, RecorderTypes

LEMMA RecorderCompleted ==
  ASSUME RecorderInv, RecorderAssumption, R!Completed PROVE RecorderInv'
  <1>0. RecorderTypes /\ RecorderCalls /\ CaptureOnce /\ PlayerAlone /\ DialogNames
    BY DEF RecorderInv
  <1>1. ListedType' /\ DialogType'
    BY <1>0, ListStays DEF R!Completed, R!Opened, R!fileVars, InPage
  <1>7. PlaceTypes' /\ FlagTypes'
    BY <1>0 DEF RecorderTypes, PlaceTypes, FlagTypes, R!Completed, R!Opened, R!fileVars, InPage
  <1>8. NumberTypes'
    BY <1>0 DEF RecorderTypes, NumberTypes, RecorderAssumption, R!Completed, R!Files, R!Opened,
       R!fileVars, InPage
  <1>2. RecorderCalls'
    BY <1>0, CallFacts DEF RecorderTypes, PlaceTypes, RecorderCalls, PlayerAlone, R!Completed,
       R!Opened, R!fileVars, InPage
  <1>3. CaptureOnce'
    BY <1>0 DEF RecorderTypes, PlaceTypes, FlagTypes, RecorderCalls, CaptureOnce, PlayerAlone,
       DialogNames, R!Completed, R!Opened, R!fileVars, InPage
  <1>4. PlayerAlone'
    BY <1>0 DEF RecorderTypes, PlaceTypes, RecorderCalls, CaptureOnce, PlayerAlone, R!Completed,
       R!Opened, R!fileVars, InPage
  <1>5. DialogNames'
    BY <1>0 DEF RecorderTypes, RecorderCalls, CaptureOnce, DialogNames, R!Completed, R!Opened,
       R!fileVars, InPage
  <1> QED
    BY <1>1, <1>2, <1>3, <1>4, <1>5, <1>7, <1>8 DEF RecorderInv, RecorderTypes

LEMMA RecorderPauseOrResume ==
  ASSUME RecorderInv, RecorderAssumption, R!PauseOrResume PROVE RecorderInv'
  <1>0. RecorderTypes /\ RecorderCalls /\ CaptureOnce /\ PlayerAlone /\ DialogNames
    BY DEF RecorderInv
  <1>1. ListedType' /\ DialogType'
    BY <1>0, ListStays DEF R!PauseOrResume, R!Input, R!Shown, R!fileVars, InPage
  <1>7. PlaceTypes' /\ FlagTypes'
    BY <1>0 DEF RecorderTypes, PlaceTypes, FlagTypes, R!PauseOrResume, R!Input, R!Shown,
       R!fileVars, InPage
  <1>8. NumberTypes'
    BY <1>0 DEF RecorderTypes, NumberTypes, RecorderAssumption, R!PauseOrResume, R!Files, R!Input,
       R!Shown, R!fileVars, InPage
  <1>2. RecorderCalls'
    BY <1>0, CallFacts DEF RecorderTypes, PlaceTypes, RecorderCalls, PlayerAlone, R!PauseOrResume,
       R!Input, R!Shown, R!fileVars, InPage
  <1>3. CaptureOnce'
    BY <1>0 DEF RecorderTypes, PlaceTypes, FlagTypes, RecorderCalls, CaptureOnce, PlayerAlone,
       DialogNames, R!PauseOrResume, R!Input, R!Shown, R!fileVars, InPage
  <1>4. PlayerAlone'
    BY <1>0 DEF RecorderTypes, PlaceTypes, RecorderCalls, CaptureOnce, PlayerAlone,
       R!PauseOrResume, R!Input, R!Shown, R!fileVars, InPage
  <1>5. DialogNames'
    BY <1>0 DEF RecorderTypes, RecorderCalls, CaptureOnce, DialogNames, R!PauseOrResume, R!Input,
       R!Shown, R!fileVars, InPage
  <1> QED
    BY <1>1, <1>2, <1>3, <1>4, <1>5, <1>7, <1>8 DEF RecorderInv, RecorderTypes

\* What was dispatched: the recorder opens and lists, closes, or the player goes.
LEMMA RecorderDrain ==
  ASSUME RecorderInv, RecorderAssumption, R!Drain PROVE RecorderInv'
  <1>0. RecorderTypes /\ RecorderCalls /\ CaptureOnce /\ PlayerAlone /\ DialogNames
    BY DEF RecorderInv
  <1>1. calls # <<>> /\ UNCHANGED page /\ calls' = Tail(calls)
    BY DEF R!Drain
  <1>2. \/ calls \in {<<"open">>, <<"open", "quit">>} /\ R!Loaded
        \/ calls = <<"leave">> /\ R!Deinit
        \/ calls = <<"quit">> /\ R!PlayerDeinit
    <2>1. calls \in {<<"open">>, <<"leave">>, <<"quit">>, <<"open", "quit">>}
      BY <1>0, <1>1 DEF RecorderCalls
    <2>2. CASE calls = <<"open">>
      BY <2>2, CallFacts DEF R!Drain
    <2>3. CASE calls = <<"leave">>
      BY <2>3, CallFacts DEF R!Drain
    <2>4. CASE calls = <<"quit">>
      BY <2>4, CallFacts DEF R!Drain
    <2>5. CASE calls = <<"open", "quit">>
      BY <2>5, CallFacts DEF R!Drain
    <2> QED
      BY <2>1, <2>2, <2>3, <2>4, <2>5
  <1>3. CASE calls \in {<<"open">>, <<"open", "quit">>} /\ R!Loaded
    <2>1. /\ (calls = <<"open">> /\ calls' = <<>>) \/ (calls = <<"open", "quit">> /\ calls' = <<"quit">>)
          /\ page = "recorder" /\ held \in {"none", "open", "stopped"} /\ ~recording /\ dialog = R!Nobody
          /\ going = 0
      <3>1. page = "recorder" /\ calls # <<>> /\ calls # <<"leave">>
        BY <1>0, <1>3, CallFacts DEF RecorderCalls
      <3>2. held \in {"none", "open", "stopped"} /\ ~recording /\ dialog = R!Nobody /\ going = 0
        BY <1>0, <3>1 DEF RecorderTypes, PlaceTypes, FlagTypes, CaptureOnce, PlayerAlone,
           DialogNames, InPage
      <3>3. (calls = <<"open">> /\ calls' = <<>>) \/ (calls = <<"open", "quit">> /\ calls' = <<"quit">>)
        <4>1. CASE calls = <<"open">>
          <5>1. Tail(<<"open">>) = <<>>
            BY CallFacts
          <5> QED
            BY <1>1, <4>1, <5>1
        <4>2. CASE calls = <<"open", "quit">>
          BY <1>1, <4>2, CallFacts
        <4> QED
          BY <1>3, <4>1, <4>2
      <3> QED
        BY <3>1, <3>2, <3>3
    <2>2. /\ listed' = R!Listed(disk) /\ UNCHANGED <<path, dialog>> /\ path \in Nat
          /\ disk \in SUBSET (1..path)
      BY <1>0, <1>3 DEF R!Loaded, R!Scanned, RecorderTypes, NumberTypes, RecorderAssumption
    <2>3. /\ Len(R!Listed(disk)) \in 0..MaxListed
          /\ R!Listed(disk) \in [1..Len(R!Listed(disk)) -> disk]
      BY <2>2, ListedThere
    <2> HIDE DEF R!Listed
    <2>4. ListedType' /\ DialogType'
      BY <1>0, <2>2, <2>3 DEF RecorderTypes, ListedType, DialogType
    <2>9. PlaceTypes' /\ FlagTypes' /\ NumberTypes'
      BY <1>0, <1>1, <1>3, <2>1 DEF RecorderTypes, PlaceTypes, FlagTypes, NumberTypes,
           R!Drain, R!Loaded, R!Opened, R!Scanned, R!playerVars
    <2>5. RecorderTypes' /\ RecorderCalls'
      BY <1>1, <2>1, <2>4, <2>9, CallFacts DEF RecorderTypes, RecorderCalls
    <2>6. CaptureOnce'
      BY <1>0, <1>1, <1>3, <2>1 DEF CaptureOnce, InPage, R!Loaded, R!Opened, R!Scanned, R!playerVars
    <2>7. PlayerAlone'
      BY <1>0, <1>1, <1>3, <2>1 DEF PlayerAlone, InPage, R!Loaded, R!Opened, R!Scanned, R!playerVars
    <2>8. DialogNames'
      BY <1>0, <1>3, <2>1 DEF DialogNames, R!Loaded, R!Opened, R!Scanned, R!playerVars
    <2> QED
      BY <2>5, <2>6, <2>7, <2>8 DEF RecorderInv
  <1>4. CASE calls = <<"leave">> /\ R!Deinit
    <2>1. calls' = <<>> /\ page # "recorder" /\ page \in {"menu", "recorder", "player"}
          /\ going = 0 /\ (page = "player" => player = "open") /\ player \in {"none", "open"}
      BY <1>0, <1>1, <1>4, CallFacts DEF RecorderTypes, PlaceTypes, RecorderCalls, PlayerAlone,
         InPage
    <2>2. ListedType' /\ DialogType'
      BY <1>0, <1>4 DEF R!Deinit, R!Nobody, RecorderTypes, ListedType, DialogType,
         RecorderAssumption
    <2>8. PlaceTypes' /\ FlagTypes'
      BY <1>0, <1>1, <1>4 DEF RecorderTypes, PlaceTypes, FlagTypes, R!Deinit, R!playerVars
    <2>9. UNCHANGED <<path, disk, going, visits, plays>> /\ press' = 0
      BY <1>4 DEF R!Drain, R!Deinit, R!playerVars
    <2>7. PlaceTypes' /\ FlagTypes' /\ NumberTypes'
      BY <1>0, <2>8, <2>9 DEF RecorderTypes, NumberTypes, RecorderAssumption
    <2>3. RecorderTypes' /\ RecorderCalls'
      BY <1>1, <2>1, <2>2, <2>7, CallFacts DEF RecorderTypes, RecorderCalls
    <2>4. CaptureOnce'
      BY <1>0, <1>1, <1>4, <2>1 DEF CaptureOnce, R!Deinit, R!playerVars
    <2>5. PlayerAlone'
      BY <1>0, <1>1, <1>4, <2>1 DEF PlayerAlone, InPage, R!Deinit, R!playerVars
    <2>6. DialogNames'
      BY <1>0, <1>4 DEF DialogNames, R!Deinit, R!playerVars
    <2> QED
      BY <2>3, <2>4, <2>5, <2>6 DEF RecorderInv
  <1>5. CASE calls = <<"quit">> /\ R!PlayerDeinit
    <2>1. /\ calls' = <<>> /\ page # "player" /\ page \in {"menu", "recorder", "player"}
          /\ going = 0 /\ ~recording /\ held # "recording"
      BY <1>0, <1>1, <1>5, CallFacts DEF RecorderTypes, PlaceTypes, RecorderCalls, CaptureOnce,
         PlayerAlone, InPage
    <2>2. ListedType' /\ DialogType'
      BY <1>0, <1>5, ListStays DEF R!PlayerDeinit, R!fileVars
    <2>7. PlaceTypes' /\ FlagTypes' /\ NumberTypes'
      BY <1>0, <1>1, <1>5 DEF RecorderTypes, PlaceTypes, FlagTypes, NumberTypes, R!Drain,
         R!PlayerDeinit,
           R!Opened, R!fileVars
    <2>3. RecorderTypes' /\ RecorderCalls'
      BY <1>1, <2>1, <2>2, <2>7, CallFacts DEF RecorderTypes, RecorderCalls
    <2>4. CaptureOnce'
      BY <1>0, <1>1, <1>5, <2>1 DEF RecorderTypes, PlaceTypes, CaptureOnce, R!PlayerDeinit,
         R!Opened, R!fileVars
    <2>5. PlayerAlone'
      BY <1>0, <1>1, <1>5, <2>1 DEF PlayerAlone, InPage, R!PlayerDeinit
    <2>6. DialogNames'
      BY <1>0, <1>5, <2>1 DEF DialogNames, R!PlayerDeinit, R!fileVars
    <2> QED
      BY <2>3, <2>4, <2>5, <2>6 DEF RecorderInv
  <1> QED
    BY <1>2, <1>3, <1>4, <1>5

LEMMA RecorderInvKept ==
  ASSUME RecorderInv, RecorderAssumption, [R!Next]_recorderVars PROVE RecorderInv'
  <1>1. CASE UNCHANGED recorderVars
    BY <1>1 DEF RecorderInv, RecorderTypes, RecorderCalls, CaptureOnce, PlayerAlone, DialogNames,
         PlaceTypes, FlagTypes, NumberTypes, ListedType, DialogType, InPage,
         recorderVars
  <1>2. CASE R!Next
    BY <1>2, RecorderEnter, RecorderSwipe, RecorderClickFile, RecorderBack, RecorderStart,
       RecorderStop, RecorderScanTimer, RecorderPress, RecorderRelease, RecorderLongPress,
       RecorderCancel, RecorderConfirm, RecorderPlay, RecorderPrepare, RecorderStarted,
       RecorderCompleted, RecorderPauseOrResume, RecorderDrain
       DEF R!Next
  <1> QED
    BY <1>1, <1>2

LEMMA RecorderShows ==
  ASSUME RecorderInv, RecorderAssumption
  PROVE  R!TypeOK /\ R!RecordingHeld /\ R!PipelineFree /\ R!DeletesShown /\ R!ListedIsWhole
  <1>0. RecorderTypes /\ RecorderCalls /\ CaptureOnce /\ PlayerAlone /\ DialogNames
    BY DEF RecorderInv
  <1>1. R!RecordingHeld /\ R!PipelineFree /\ R!DeletesShown
    BY <1>0 DEF CaptureOnce, PlayerAlone, DialogNames, InPage, R!RecordingHeld, R!PipelineFree,
         R!DeletesShown
  <1>2. R!ListedIsWhole
    BY <1>0 DEF CaptureOnce, RecorderTypes, ListedType, R!ListedIsWhole
  <1>3. calls \in Seq({"open", "leave", "quit"}) /\ Len(calls) <= 4
    <2>1. CASE calls = <<>>
      BY <2>1
    <2>2. CASE calls \in {<<"open">>, <<"leave">>, <<"quit">>}
      BY <2>2
    <2>3. CASE calls = <<"open", "quit">>
      BY <2>3
    <2> QED
      BY <1>0, <2>1, <2>2, <2>3 DEF RecorderCalls
  <1>4. listed \in Seq(R!Files) /\ Len(listed) <= MaxListed
    <2>1. 1..path \subseteq R!Files
      BY <1>0 DEF RecorderTypes, NumberTypes, R!Files, RecorderAssumption
    <2>2. listed \in [1..Len(listed) -> R!Files] /\ Len(listed) \in Nat /\ Len(listed) <= MaxListed
      BY <1>0, <2>1 DEF RecorderTypes, ListedType, RecorderAssumption
    <2> QED
      BY <2>2
  <1>5. /\ disk \subseteq R!Files
        /\ removed \subseteq R!Files \X R!Files
    BY <1>0 DEF RecorderTypes, NumberTypes, DialogNames, R!Files, RecorderAssumption
  <1> QED
    BY <1>0, <1>1, <1>2, <1>3, <1>4, <1>5 DEF RecorderTypes, PlaceTypes, FlagTypes, NumberTypes,
       DialogType,
         R!TypeOK

-----------------------------------------------------------------------------
(* The pages of the camera and of the recorder. *)

PagesInv == CameraInv /\ CamPage /\ RecorderInv

\* A step of the device is a step of a component or leaves it alone.
LEMMA PageSteps ==
  ASSUME [Next]_vars
  PROVE  [K!Next]_cameraVars /\ [R!Next]_recorderVars
  BY DEF Next, vars, Playback, Pipeline, Channel, Camera, Recorder, Omni, pageVars, audioVars

LEMMA PagesInit == Init => PagesInv
  <1> SUFFICES ASSUME Init PROVE PagesInv
    OBVIOUS
  <1>1. K!Init /\ R!Init
    BY DEF Init
  <1> QED
    BY <1>1, CameraAssumption, RecorderAssumption, CameraInit, CamPageInit, RecorderInit
       DEF PagesInv

LEMMA PagesInvKept == PagesInv /\ [Next]_vars => PagesInv'
  <1> SUFFICES ASSUME PagesInv, [Next]_vars PROVE PagesInv'
    OBVIOUS
  <1>1. CameraInv' /\ CamPage'
    BY PageSteps, CameraAssumption, CameraInvKept, CamPageKept DEF PagesInv
  <1>2. RecorderInv'
    BY PageSteps, RecorderAssumption, RecorderInvKept DEF PagesInv
  <1> QED
    BY <1>1, <1>2 DEF PagesInv

LEMMA PatientAlways == ASSUME PatientUser PROVE Spec => [](PagesInv /\ CamPatient)
  <1>1. Init => PagesInv /\ CamPatient
    BY PagesInit, CameraAssumption, CamPatientInit DEF Init
  <1>2. PagesInv /\ CamPatient /\ [Next]_vars => (PagesInv /\ CamPatient)'
    <2> SUFFICES ASSUME PagesInv, CamPatient, [Next]_vars PROVE PagesInv' /\ CamPatient'
      OBVIOUS
    <2> QED
      BY PagesInvKept, PageSteps, CameraAssumption, CamPatientKept DEF PagesInv
  <1> QED
    BY <1>1, <1>2, PTL DEF Spec

(* With a user who leaves the button alone while the hub works, the photo    *)
(* that camera_page.c shows is whole and of one capture, whatever is lost on *)
(* either line; the recording that is deleted is the one that the dialog     *)
(* named, and one that goes on is not listed.                                *)
THEOREM FilesShown == ASSUME PatientUser PROVE Spec => []FilesAsShown
  <1>1. PagesInv /\ CamPatient => FilesAsShown
    BY RecorderAssumption, RecorderShows, CamPatientShows DEF PagesInv, FilesAsShown
  <1> QED
    BY <1>1, PatientAlways, PTL

(* With such a user, an idle camera page neither receives nor holds its file *)
(* open; the recorder page, once left, holds no capture, also beside a       *)
(* player.                                                                   *)
THEOREM ClosedWhenIdle == ASSUME PatientUser PROVE Spec => []IdleIsClosed
  <1>1. PagesInv /\ CamPatient => IdleIsClosed
    BY RecorderAssumption, RecorderShows, CamPatientShows DEF PagesInv, IdleIsClosed
  <1> QED
    BY <1>1, PatientAlways, PTL
=============================================================================
