--------------------------- MODULE CameraTransfer ---------------------------
(***************************************************************************)
(* Taking a photo with the camera of the other board.  The page            *)
(* (camera_page.c: the LVGL thread, the UART thread and the SPI thread)    *)
(* sends commands over the UART; the hub (camera_hub_2n.py) captures,      *)
(* sends the image as SPI frames and, from the bitmap that answers an END  *)
(* frame, sends the missing ones again.                                    *)
(*                                                                         *)
(* A frame that fails its CRC16 is skipped by either side, and one that    *)
(* cannot be written is not marked: both are loss.  Frames of 256 bytes    *)
(* are numbered from 1.  The AI pages, leaving the page, and a UART that   *)
(* cannot be written are left out.                                         *)
(***************************************************************************)
EXTENDS Naturals, Sequences, FiniteSets

CONSTANTS
    Frames,         \* the number of frames of each photo, a sequence
    MaxRetrans,     \* max_retrans
    MaxPresses,     \* bound on the use of the capture button
    MaxLost,        \* bound on the SPI frames lost
    MaxUartLost,    \* bound on the UART frames lost
    PatientUser     \* does the user leave the button alone while the hub still works for an earlier press?

VARIABLES
    (* the page *)
    busy, name,     \* cam_busy, cam_big_filename (a photo or 0)
    fd, file,       \* cam_big_fd, and whose data each frame of the file holds
    bitmap, nframes, total,  \* cam_recv_bitmap, cam_recv_nframes, the frames of cam_big_total
    session, active, isBig,  \* cam_big_session, cam_spi_recv_active, cam_spi_is_big_image
    timer, spiTimer, \* is cam_timeout_timer, cam_spi_timeout_timer running?
    posted,         \* lvgl_dispatch_async
    upc, spc,       \* the UART thread and the SPI thread
    (* the lines *)
    down, wire,     \* UART from the hub, SPI
    lost, uartLost, presses,
    (* the hub *)
    hpc, photo, taken, left, sid, round,  \* last_photo_path; the frames to send before END; session_id; r
    cmds, acks      \* cmd_queue, ack_queue

pageVars == <<busy, name, fd, file, bitmap, nframes, total, session, active, isBig,
              timer, spiTimer, posted, upc, spc>>
transferVars == <<fd, file, bitmap, nframes, total, session>>
hubVars == <<hpc, photo, taken, left, sid, round>>
vars == <<pageVars, down, wire, lost, uartLost, presses, hubVars, cmds, acks>>

Photos == 1..Len(Frames)
FrameNos == 1..(CHOOSE n \in {Frames[p] : p \in Photos} : \A p \in Photos : Frames[p] <= n)
End == 0

Init ==
    /\ busy = FALSE /\ name = 0 /\ fd = FALSE /\ file = [f \in FrameNos |-> 0]
    /\ bitmap = {} /\ nframes = 0 /\ total = 0 /\ session = 0 /\ active = FALSE /\ isBig = FALSE
    /\ timer = FALSE /\ spiTimer = FALSE /\ posted = <<>> /\ upc = "read" /\ spc = "read"
    /\ down = <<>> /\ wire = <<>> /\ lost = 0 /\ uartLost = 0 /\ presses = 0
    /\ hpc = "idle" /\ photo = 0 /\ taken = 0 /\ left = {} /\ sid = 0 /\ round = 0
    /\ cmds = <<>> /\ acks = <<>>

(* The UART: what is sent arrives, or its CRC fails and it is dropped. *)
Transmit(queue, others, m) ==
    \/ queue' = Append(queue, m) /\ UNCHANGED <<others, uartLost>>
    \/ uartLost < MaxUartLost /\ uartLost' = uartLost + 1 /\ UNCHANGED <<queue, others>>
ToHub(m) == Transmit(cmds, acks, m)      \* ack_reader_thread sorts what arrives
AckToHub(m) == Transmit(acks, cmds, m)
ToPage(m) == Transmit(down, <<>>, m)

Post(callbacks) == posted' = posted \o callbacks

----------------------------------------------------------------------------
(* The LVGL thread. *)

HubAtRest == hpc = "idle" /\ cmds = <<>>

(* cam_capture_btn_cb; tcflush drops what the hub had sent. *)
Press ==
    /\ ~busy /\ presses < MaxPresses /\ (PatientUser => HubAtRest)
    /\ presses' = presses + 1
    /\ busy' = TRUE /\ name' = 0 /\ timer' = TRUE
    /\ down' = <<>> /\ ToHub([cmd |-> "captureReq"])
    /\ UNCHANGED <<fd, file, bitmap, nframes, total, session, active, isBig, spiTimer, posted, upc,
                   spc, wire, lost, hubVars>>

(* A bug: the half-written file stays open. *)
Failure_Mut(big) ==
    /\ busy' = FALSE /\ name' = 0 /\ active' = FALSE /\ isBig' = FALSE
    /\ UNCHANGED transferVars

(* cam_handle_capture_failure; at the last stage it closes and deletes the file. *)
Failure(big) ==
    /\ busy' = FALSE /\ name' = 0 /\ active' = FALSE /\ isBig' = FALSE
    /\ fd' = (fd /\ ~big)
    /\ UNCHANGED <<file, bitmap, nframes, total, session>>

(* lvgl_dispatch_drain runs one posted callback. *)
Callback ==
    /\ posted /= <<>>
    /\ posted' = Tail(posted)
    /\ \/ /\ Head(posted) = "stopTimer" /\ timer' = FALSE
          /\ UNCHANGED <<spiTimer, busy, name, active, isBig, transferVars>>
       \/ /\ Head(posted) = "startSpi" /\ spiTimer' = TRUE
          /\ UNCHANGED <<timer, busy, name, active, isBig, transferVars>>
       \/ /\ Head(posted) = "stopSpi" /\ spiTimer' = FALSE
          /\ UNCHANGED <<timer, busy, name, active, isBig, transferVars>>
       \/ Head(posted) = "failed" /\ Failure(FALSE) /\ UNCHANGED <<timer, spiTimer>>
       \/ Head(posted) = "failedBig" /\ Failure(TRUE) /\ UNCHANGED <<timer, spiTimer>>
    /\ UNCHANGED <<upc, spc, down, wire, lost, uartLost, presses, hubVars, cmds, acks>>

(* Ten seconds and more are long for the page's own threads and for what    *)
(* has arrived, not for the hub: its commands and captures take their time. *)
PageAtRest == posted = <<>> /\ upc = "read" /\ spc = "read" /\ down = <<>>

(* cam_timeout_cb: the GET_IMAGE or the capture answer is late. *)
TimeOut ==
    /\ timer /\ PageAtRest
    /\ timer' = FALSE /\ Failure(FALSE)
    /\ UNCHANGED <<spiTimer, posted, upc, spc, down, wire, lost, uartLost, presses, hubVars, cmds,
                   acks>>

(* cam_spi_timeout_cb: no frame for 20 s; the hub gives up a transfer in    *)
(* less.  Reopening the device drops what was not read.                     *)
SpiTimeOut ==
    /\ spiTimer /\ PageAtRest /\ (wire = <<>> \/ ~active)
    /\ hpc = "capturing" \/ HubAtRest
    /\ spiTimer' = FALSE /\ Failure(isBig) /\ wire' = <<>>
    /\ UNCHANGED <<timer, posted, upc, spc, down, lost, uartLost, presses, hubVars, cmds, acks>>

LvglStep == Callback \/ TimeOut \/ SpiTimeOut

----------------------------------------------------------------------------
(* The UART thread: cam_uart_rx_thread_func. *)

lineVars == <<wire, lost, presses>>
Received(c) == upc = "read" /\ down /= <<>> /\ Head(down).cmd = c

(* An answer that comes when nobody waits for one is dropped. *)
LateAnswer ==
    /\ upc = "read" /\ down /= <<>> /\ Head(down).cmd /= "captureFail" /\ ~busy
    /\ down' = Tail(down)
    /\ UNCHANGED <<pageVars, lineVars, uartLost, hubVars, cmds, acks>>

(* tcflush again; the request waits in cmd_queue while the thread goes on. *)
CaptureAck ==
    /\ Received("captureAck") /\ busy
    /\ down' = <<>> /\ ToHub([cmd |-> "getImage"])
    /\ Post(<<"stopTimer">>)
    /\ upc' = "arm"
    /\ UNCHANGED <<busy, name, transferVars, active, isBig, timer, spiTimer, spc, lineVars, hubVars>>

(* cam_start_timeout runs here, and not in the LVGL thread. *)
Arm ==
    /\ upc = "arm"
    /\ timer' = TRUE /\ upc' = "read"
    /\ UNCHANGED <<busy, name, transferVars, active, isBig, spiTimer, posted, spc, down, lineVars,
                   uartLost, hubVars, cmds, acks>>

CaptureFail ==
    /\ Received("captureFail")
    /\ down' = Tail(down)
    /\ Post(<<"stopTimer", "failed">>)
    /\ UNCHANGED <<busy, name, transferVars, active, isBig, timer, spiTimer, upc, spc, lineVars,
                   uartLost, hubVars, cmds, acks>>

(* A bug: the bitmap of the last photo is kept. *)
ImageAck_Mut ==
    /\ Received("imageAck") /\ busy
    /\ down' = Tail(down)
    /\ Post(<<"stopTimer">>)
    /\ session' = session + 1 /\ name' = Head(down).photo
    /\ fd' = TRUE /\ file' = [f \in FrameNos |-> 0]
    /\ total' = Frames[Head(down).photo] /\ nframes' = 0 /\ bitmap' = bitmap
    /\ upc' = "ready"
    /\ UNCHANGED <<busy, active, isBig, timer, spiTimer, spc, lineVars, uartLost, hubVars, cmds, acks>>

(* open truncates; a descriptor that is still open is overwritten. *)
ImageAck ==
    /\ Received("imageAck") /\ busy
    /\ down' = Tail(down)
    /\ Post(<<"stopTimer">>)
    /\ session' = session + 1 /\ name' = Head(down).photo
    /\ fd' = TRUE /\ file' = [f \in FrameNos |-> 0]
    /\ total' = Frames[Head(down).photo] /\ nframes' = 0 /\ bitmap' = {}
    /\ upc' = "ready"
    /\ UNCHANGED <<busy, active, isBig, timer, spiTimer, spc, lineVars, uartLost, hubVars, cmds, acks>>

OpenFails ==
    /\ Received("imageAck") /\ busy
    /\ down' = Tail(down)
    /\ Post(<<"stopTimer", "failed">>)
    /\ session' = session + 1 /\ name' = Head(down).photo /\ fd' = FALSE
    /\ UNCHANGED <<busy, file, total, nframes, bitmap, active, isBig, timer, spiTimer, upc, spc,
                   lineVars, uartLost, hubVars, cmds, acks>>

Ready ==
    /\ upc = "ready"
    /\ ToHub([cmd |-> "ready", session |-> session])
    /\ upc' = "activate"
    /\ UNCHANGED <<busy, name, transferVars, active, isBig, timer, spiTimer, posted, spc, down,
                   lineVars, hubVars>>

Activate ==
    /\ upc = "activate"
    /\ active' = TRUE /\ isBig' = TRUE
    /\ Post(<<"startSpi">>)
    /\ upc' = "read"
    /\ UNCHANGED <<busy, name, transferVars, timer, spiTimer, spc, down, lineVars, uartLost, hubVars,
                   cmds, acks>>

UartStep ==
    LateAnswer \/ CaptureAck \/ Arm \/ CaptureFail \/ ImageAck \/ OpenFails \/ Ready \/ Activate

----------------------------------------------------------------------------
(* The SPI thread: cam_spi_rx_thread_func.  It looks at neither the session *)
(* nor the total of a frame.                                                *)

NextFrame == Head(wire)
Reading == spc = "read" /\ active /\ wire /= <<>>

Data ==
    /\ Reading /\ NextFrame.no /= End
    /\ wire' = Tail(wire)
    /\ IF fd THEN /\ file' = [file EXCEPT ![NextFrame.no] = NextFrame.photo]
                  /\ bitmap' = bitmap \cup {NextFrame.no}
                  /\ nframes' = IF NextFrame.no > nframes THEN NextFrame.no ELSE nframes
             ELSE UNCHANGED <<file, bitmap, nframes>>
    /\ UNCHANGED <<busy, name, fd, total, session, active, isBig, timer, spiTimer, posted, upc, spc,
                   down, lost, uartLost, presses, hubVars, cmds, acks>>

Expected == IF total > nframes THEN total ELSE nframes
Complete(n) == n > 0 /\ 1..n \subseteq bitmap

(* The acknowledgement names the session of the END frame. *)
EndFrame ==
    /\ Reading /\ NextFrame.no = End
    /\ wire' = Tail(wire)
    /\ nframes' = Expected
    /\ AckToHub([sid |-> NextFrame.sid, ok |-> Complete(Expected),
                 missing |-> 1..Expected \ bitmap])
    /\ IF Complete(Expected)
         THEN active' = FALSE /\ fd' = FALSE /\ Post(<<"stopSpi">>) /\ spc' = "decode"
         ELSE UNCHANGED <<active, fd, posted, spc>>
    /\ UNCHANGED <<busy, name, file, bitmap, total, session, isBig, timer, spiTimer, upc, down, lost,
                   presses, hubVars>>

(* The JPEG is decoded and shown, or it does not decode. *)
Decoded ==
    /\ spc = "decode"
    /\ spc' = "read"
    /\ \/ busy' = FALSE /\ UNCHANGED posted
       \/ Post(<<"failedBig">>) /\ UNCHANGED busy
    /\ UNCHANGED <<name, transferVars, active, isBig, timer, spiTimer, upc, down, lineVars, uartLost,
                   hubVars, cmds, acks>>

SpiStep == Data \/ EndFrame \/ Decoded

----------------------------------------------------------------------------
(* The hub: main, do_capture and spi_send_image. *)

Command(c) == hpc = "idle" /\ cmds /= <<>> /\ Head(cmds).cmd = c

CaptureReq ==
    /\ Command("captureReq")
    /\ cmds' = Tail(cmds)
    /\ hpc' = "capturing"
    /\ UNCHANGED <<pageVars, down, lineVars, uartLost, photo, taken, left, sid, round, acks>>

(* A capture takes seconds, in which the page runs what was posted. *)
DoCapture ==
    /\ hpc = "capturing" /\ posted = <<>>
    /\ hpc' = "idle"
    /\ \/ /\ taken < Len(Frames)
          /\ taken' = taken + 1 /\ photo' = taken + 1
          /\ ToPage([cmd |-> "captureAck"])
       \/ UNCHANGED <<taken, photo>> /\ ToPage([cmd |-> "captureFail"])
    /\ UNCHANGED <<pageVars, lineVars, left, sid, round, cmds, acks>>

GetImage ==
    /\ Command("getImage")
    /\ cmds' = Tail(cmds)
    /\ ToPage(IF photo = 0 THEN [cmd |-> "captureFail"] ELSE [cmd |-> "imageAck", photo |-> photo])
    /\ UNCHANGED <<pageVars, lineVars, hubVars, acks>>

FramesOf(p) == 1..Frames[p]

ReadyBig ==
    /\ Command("ready") /\ photo /= 0
    /\ cmds' = Tail(cmds)
    /\ sid' = Head(cmds).session /\ round' = 0
    /\ left' = FramesOf(photo)
    /\ hpc' = "sending"
    /\ UNCHANGED <<pageVars, down, lineVars, uartLost, photo, taken, acks>>

(* In the order of their numbers, and END behind them. *)
NextNo == IF left = {} THEN End ELSE CHOOSE f \in left : \A g \in left : f <= g

SendFrame ==
    /\ hpc = "sending"
    /\ \/ wire' = Append(wire, [no |-> NextNo, photo |-> photo, sid |-> sid]) /\ UNCHANGED lost
       \/ lost < MaxLost /\ lost' = lost + 1 /\ UNCHANGED wire
    /\ left' = left \ {NextNo}
    /\ hpc' = IF left = {} THEN "drain" ELSE "sending"
    /\ UNCHANGED <<pageVars, down, uartLost, presses, photo, taken, sid, round, cmds, acks>>

(* One more round: _drain_ack_queue, or the end of the loop. *)
Drain ==
    /\ hpc = "drain"
    /\ IF round = MaxRetrans THEN hpc' = "idle" /\ UNCHANGED acks
                             ELSE hpc' = "wait" /\ acks' = <<>>
    /\ UNCHANGED <<pageVars, down, lineVars, uartLost, photo, taken, left, sid, round, cmds>>

(* A bug: the whole image again. *)
WaitAck_Mut ==
    /\ hpc = "wait" /\ acks /= <<>>
    /\ acks' = Tail(acks)
    /\ LET ack == Head(acks) IN
       IF ack.sid = sid /\ ack.missing = {}
         THEN hpc' = "idle" /\ UNCHANGED <<left, round>>
         ELSE left' = FramesOf(photo) /\ round' = round + 1 /\ hpc' = "sending"
    /\ UNCHANGED <<pageVars, down, lineVars, uartLost, photo, taken, sid, cmds>>

WaitAck ==
    /\ hpc = "wait" /\ acks /= <<>>
    /\ acks' = Tail(acks)
    /\ LET ack == Head(acks) IN
       CASE ack.sid /= sid -> UNCHANGED <<hpc, left, round>>
         [] ack.sid = sid /\ ack.missing = {} -> hpc' = "idle" /\ UNCHANGED <<left, round>>
         (* Frames past the end would be sent empty, which marks nothing. *)
         [] OTHER -> /\ left' = ack.missing \cap FramesOf(photo)
                     /\ round' = round + 1 /\ hpc' = "sending"
    /\ UNCHANGED <<pageVars, down, lineVars, uartLost, photo, taken, sid, cmds>>

(* No acknowledgement for three seconds: the next round waits again. *)
AckTimeOut ==
    /\ hpc = "wait" /\ acks = <<>>
    /\ round' = round + 1 /\ hpc' = "drain"
    /\ UNCHANGED <<pageVars, down, lineVars, uartLost, photo, taken, left, sid, cmds, acks>>

HubStep ==
    \/ CaptureReq \/ DoCapture \/ GetImage \/ ReadyBig \/ SendFrame \/ Drain \/ WaitAck \/ AckTimeOut

----------------------------------------------------------------------------
Next == Press \/ LvglStep \/ UartStep \/ SpiStep \/ HubStep

(* Every thread of both boards runs, and timers expire. *)
Spec == /\ Init /\ [][Next]_vars
        /\ WF_vars(LvglStep) /\ WF_vars(UartStep) /\ WF_vars(SpiStep) /\ WF_vars(HubStep)

TypeOK ==
    /\ busy \in BOOLEAN /\ name \in Photos \cup {0} /\ fd \in BOOLEAN
    /\ file \in [FrameNos -> Photos \cup {0}] /\ bitmap \subseteq FrameNos
    /\ nframes \in Nat /\ total \in Nat /\ session \in Nat /\ active \in BOOLEAN /\ isBig \in BOOLEAN
    /\ timer \in BOOLEAN /\ spiTimer \in BOOLEAN
    /\ posted \in Seq({"stopTimer", "startSpi", "stopSpi", "failed", "failedBig"})
    /\ upc \in {"read", "arm", "ready", "activate"} /\ spc \in {"read", "decode"}
    /\ hpc \in {"idle", "capturing", "sending", "drain", "wait"}
    /\ photo \in Photos \cup {0} /\ left \subseteq FrameNos /\ round \in 0..MaxRetrans

(* The photo that the AI button hands on is whole and of one capture: when  *)
(* the page is idle and has a name, every frame of that file is that        *)
(* photo's (cam_ai_btn_cb looks at cam_busy and the name only).             *)
PhotoIsWhole == ~busy /\ name /= 0 => \A f \in 1..Frames[name] : file[f] = name

(* A retransmission never carries a frame that the page has of this         *)
(* session: only the missing ones are sent again (spi_send_image promises   *)
(* no more full retransmissions).                                           *)
OnlyMissingAgain ==
    hpc = "sending" /\ round > 0 /\ sid = session => left \cap bitmap = {}

(* An idle page neither receives nor holds a file open: no failure, at any  *)
(* stage, and no late answer leaves the transfer half alive.                *)
IdleIsClosed == ~busy => ~active /\ ~fd

(* A capture ends, with a photo or without: one of the time-outs is always  *)
(* left to end it.                                                          *)
CaptureEnds == busy ~> ~busy

(* The same while no UART frame is lost: lost SPI frames, a lost END among  *)
(* them, and slow or failing captures cannot keep the page busy.            *)
Waiting == busy /\ uartLost = 0

(* The value of the TLC run: one photo. *)
OnePhoto == <<2>>
=============================================================================
