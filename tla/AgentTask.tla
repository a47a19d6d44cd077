------------------------------ MODULE AgentTask ------------------------------
(***************************************************************************)
(* The way of a request through the program: a channel pushes it on the    *)
(* inbound queue, agent_loop_task answers it (core/agent_loop.c), the      *)
(* answer is spoken at once or pushed on the outbound queue, and           *)
(* outbound_dispatch_task delivers it (agent_main.c), until the main       *)
(* thread shuts both down.                                                 *)
(*                                                                         *)
(* The queues are FIFOs, which is what MsgQueue implements; a push on a    *)
(* full queue may wait or give up.  What ReactLoop decides appears here as *)
(* a text or none.  A heap text is <<kind, request>>.                      *)
(***************************************************************************)
EXTENDS Naturals, Sequences, FiniteSets

CONSTANTS Requests,
          Channel,    \* Channel[r]: "voice", "feishu" or "websocket"
          Careless,   \* requests of senders that ignore a failed push
          MaxSends,   \* bound on the requests sent
          InLen, OutLen,   \* AGENT_BUS_QUEUE_LEN, for each queue
          GraceIsEnough,   \* both tasks end in the 500 ms before the cleanup
          NoRequest

VARIABLES accepted,   \* the requests pushed, in order
          rejected,   \* requests whose push failed
          inq, outq,  \* the queues; outq holds texts
          pc, cur,    \* agent_loop_task and its msg
          answer,     \* final_text: "none" or the kind of the text
          dpc, out,   \* outbound_dispatch_task and its msg
          said,       \* texts delivered, in order
          history,    \* what session_append recorded
          heap,       \* allocated texts
          stage       \* shutdown: "running", "requested", "woken", "destroyed"

agentVars == <<pc, cur, answer, history>>
dispatchVars == <<dpc, out>>
senderVars == <<accepted, rejected>>
vars == <<accepted, rejected, inq, outq, pc, cur, answer, dpc, out,
          said, history, heap, stage>>

NoText == <<"none", NoRequest>>
Ask(r) == <<"ask", r>>
Status(r) == <<"status", r>>
Note(r) == <<"note", r>>   \* any reply that is not the model's
Texts == {"ask", "status", "answer", "note"} \X Requests
InSeq(s) == {s[k] : k \in DOMAIN s}
Stopping == stage # "running"   \* g_shutdown_requested
Closed == stage \in {"woken", "destroyed"}   \* g_bus_shutdown

Init ==
  /\ accepted = <<>> /\ rejected = {}
  /\ inq = <<>> /\ outq = <<>>
  /\ pc = "loop" /\ cur = NoRequest /\ answer = "none"
  /\ dpc = "loop" /\ out = NoText
  /\ said = <<>> /\ history = <<>> /\ heap = {}
  /\ stage = "running"

-----------------------------------------------------------------------------
(* A channel thread pushes a request; when the queue stays full the push   *)
(* fails, and the sender frees the text (or forgets to).                   *)
Send(r) ==
  /\ r \notin InSeq(accepted) \cup rejected
  /\ Len(accepted) + Cardinality(rejected) < MaxSends
  /\ ~Closed
  /\ \/ /\ Len(inq) < InLen
        /\ inq' = Append(inq, r)
        /\ accepted' = Append(accepted, r)
        /\ heap' = heap \cup {Ask(r)}
        /\ UNCHANGED rejected
     \/ /\ Len(inq) = InLen
        /\ rejected' = rejected \cup {r}
        /\ heap' = IF r \in Careless THEN heap \cup {Ask(r)} ELSE heap
        /\ UNCHANGED <<inq, accepted>>
  /\ UNCHANGED <<agentVars, dispatchVars, outq, said, stage>>

LoopTest ==
  /\ pc = "loop"
  /\ pc' = IF Stopping THEN "exit" ELSE "pop"
  /\ UNCHANGED <<senderVars, inq, outq, cur, answer, dispatchVars, said, history, heap, stage>>

PopFails ==
  /\ pc = "pop" /\ inq = <<>> /\ Closed
  /\ pc' = "loop"
  /\ UNCHANGED <<senderVars, inq, outq, cur, answer, dispatchVars, said, history, heap, stage>>

PopRequest ==
  /\ pc = "pop" /\ inq # <<>>
  /\ cur' = Head(inq) /\ inq' = Tail(inq)
  /\ pc' = "got"
  /\ UNCHANGED <<senderVars, outq, answer, dispatchVars, said, history, heap, stage>>

KeepsAsk_Mut(keep) ==
  /\ heap' = (heap \ {<<answer, cur>>}) \cup keep
  /\ cur' = NoRequest /\ answer' = "none" /\ pc' = "loop"

LosesAnswer_Mut(keep) ==
  /\ heap' = (heap \ {Ask(cur)}) \cup keep
  /\ cur' = NoRequest /\ answer' = "none" /\ pc' = "loop"

(* free final_text and msg.content, and on to the next message; what was   *)
(* pushed, keep, belongs to the bus now                                    *)
EndTurn(keep) ==
  /\ heap' = (heap \ {Ask(cur), <<answer, cur>>}) \cup keep
  /\ cur' = NoRequest /\ answer' = "none" /\ pc' = "loop"

GotShutdown ==
  /\ pc = "got" /\ Stopping
  /\ heap' = heap \ {Ask(cur)}
  /\ cur' = NoRequest /\ pc' = "exit"
  /\ UNCHANGED <<senderVars, inq, outq, answer, dispatchVars, said, history, stage>>

PushAnyway_Mut(t) == outq' = Append(outq, t) /\ EndTurn({t})

(* Allocate t and push it outbound; a text that cannot be pushed is freed. *)
PushOut(t) ==
  \/ /\ Len(outq) < OutLen
     /\ outq' = Append(outq, t)
     /\ EndTurn({t})
  \/ /\ Len(outq) = OutLen
     /\ UNCHANGED outq
     /\ EndTurn({})

(* agent_mem_get_status reports too little memory *)
LowMemory ==
  /\ pc = "got" /\ ~Stopping
  /\ \/ PushOut(Note(cur))
     \/ EndTurn({}) /\ UNCHANGED outq   \* strdup fails
  /\ UNCHANGED <<senderVars, inq, dispatchVars, said, history, stage>>

(* A slash command, a blocked prompt or a phrase answered without the LLM *)
FastReply ==
  /\ pc = "got" /\ ~Stopping
  /\ IF Channel[cur] = "voice"
     THEN /\ \/ said' = Append(said, Note(cur))
             \/ UNCHANGED said   \* voice_channel_speak fails
          /\ EndTurn({}) /\ UNCHANGED outq
     ELSE PushOut(Note(cur)) /\ UNCHANGED said
  /\ UNCHANGED <<senderVars, inq, dispatchVars, history, stage>>

(* A blocked prompt whose refusal cannot be allocated is dropped *)
BlockedNoMemory ==
  /\ pc = "got" /\ ~Stopping
  /\ EndTurn({})
  /\ UNCHANGED <<senderVars, inq, outq, dispatchVars, said, history, stage>>

Exchange(r) == <<<<"user", r>>, <<"assistant", r>>>>

(* voice_quick_path_match_text; dispatch_response will record it again *)
QuickPath ==
  /\ pc = "got" /\ ~Stopping /\ Channel[cur] = "voice"
  /\ history' = history \o Exchange(cur)
  /\ answer' = "answer" /\ pc' = "dispatch"
  /\ heap' = heap \cup {<<"answer", cur>>}
  /\ UNCHANGED <<senderVars, inq, outq, cur, dispatchVars, said, stage>>

(* run_voice_stream_path speaks sentence by sentence; goto voice_done.  When *)
(* it fails the turn goes on with Think.                                     *)
VoiceStream ==
  /\ pc = "got" /\ ~Stopping /\ Channel[cur] = "voice"
  /\ said' = Append(said, <<"answer", cur>>)
  /\ history' = history \o Exchange(cur)
  /\ EndTurn({})
  /\ UNCHANGED <<senderVars, inq, outq, dispatchVars, stage>>

(* run_react_loop begins; send_working_status for channels that show one *)
Think ==
  /\ pc = "got" /\ ~Stopping
  /\ pc' = "llm"
  /\ \/ UNCHANGED <<outq, heap>>
     \/ /\ Channel[cur] = "websocket" /\ Len(outq) < OutLen
        /\ outq' = Append(outq, Status(cur))
        /\ heap' = heap \cup {Status(cur)}
  /\ UNCHANGED <<senderVars, inq, cur, answer, dispatchVars, said, history, stage>>

LlmEnds ==
  /\ pc = "llm"
  /\ \/ answer' = "answer" /\ heap' = heap \cup {<<"answer", cur>>}
     \/ answer' = "empty" /\ UNCHANGED heap   \* NULL or ""
  /\ pc' = "dispatch"
  /\ UNCHANGED <<senderVars, inq, outq, cur, dispatchVars, said, history, stage>>

NotRecorded_Mut(r) == history' = history

(* session_append of the question and the answer *)
Record(r) == history' = history \o Exchange(r)

(* dispatch_response; for the voice channel the answer is spoken at once *)
Dispatch ==
  /\ pc = "dispatch"
  /\ IF answer = "empty"
     THEN /\ \/ PushOut(Note(cur))
             \/ EndTurn({}) /\ UNCHANGED outq   \* strdup fails
          /\ UNCHANGED <<history, said>>
     ELSE /\ Record(cur)
          /\ IF Channel[cur] = "voice"
             THEN /\ \/ said' = Append(said, <<"answer", cur>>)
                     \/ UNCHANGED said
                  /\ EndTurn({}) /\ UNCHANGED outq
             ELSE PushOut(<<"answer", cur>>) /\ UNCHANGED said
  /\ UNCHANGED <<senderVars, inq, dispatchVars, stage>>

-----------------------------------------------------------------------------
(* outbound_dispatch_task *)
DispatcherTest ==
  /\ dpc = "loop"
  /\ dpc' = IF Stopping THEN "exit" ELSE "pop"
  /\ UNCHANGED <<senderVars, inq, outq, agentVars, out, said, heap, stage>>

(* No message within a second, or the bus is closed *)
DispatcherIdle ==
  /\ dpc = "pop" /\ outq = <<>>
  /\ dpc' = "loop"
  /\ UNCHANGED <<senderVars, inq, outq, agentVars, out, said, heap, stage>>

DispatcherPopsNewest_Mut ==
  /\ dpc = "pop" /\ outq # <<>>
  /\ out' = outq[Len(outq)] /\ outq' = SubSeq(outq, 1, Len(outq) - 1)
  /\ dpc' = "got"
  /\ UNCHANGED <<senderVars, inq, agentVars, said, heap, stage>>

DispatcherPops ==
  /\ dpc = "pop" /\ outq # <<>>
  /\ out' = Head(outq) /\ outq' = Tail(outq)
  /\ dpc' = "got"
  /\ UNCHANGED <<senderVars, inq, agentVars, said, heap, stage>>

(* free(msg.content) at the end of the switch over the channels *)
FreeSent(t) == heap' = heap \ {t}

(* The switch over the channels: sent, or dropped when the channel is not  *)
(* configured, fails, or is the voice channel within 5 s of a failure.     *)
Deliver ==
  /\ dpc = "got"
  /\ said' \in {Append(said, out), said}
  /\ FreeSent(out)
  /\ out' = NoText /\ dpc' = "loop"
  /\ UNCHANGED <<senderVars, inq, outq, agentVars, stage>>

-----------------------------------------------------------------------------
(* The shell's quit, then the main thread: wake-up, services stopped, 500 ms *)
Quit ==
  /\ stage = "running"
  /\ stage' = "requested"
  /\ UNCHANGED <<senderVars, inq, outq, agentVars, dispatchVars, said, heap>>

Wakeup ==
  /\ stage = "requested"
  /\ stage' = "woken"
  /\ UNCHANGED <<senderVars, inq, outq, agentVars, dispatchVars, said, heap>>

(* message_bus_destroy forgets what is still queued *)
Destroy ==
  /\ stage = "woken"
  /\ GraceIsEnough => pc = "exit" /\ dpc = "exit"
  /\ stage' = "destroyed"
  /\ inq' = <<>> /\ outq' = <<>>
  /\ UNCHANGED <<senderVars, agentVars, dispatchVars, said, heap>>

AgentStep == LoopTest \/ PopFails \/ PopRequest \/ GotShutdown \/ LowMemory \/ FastReply
             \/ BlockedNoMemory \/ QuickPath \/ VoiceStream \/ Think \/ LlmEnds \/ Dispatch
DispatcherStep == DispatcherTest \/ DispatcherIdle \/ DispatcherPops \/ Deliver
MainStep == Wakeup \/ Destroy
Done == stage = "destroyed" /\ UNCHANGED vars
Next == (\E r \in Requests : Send(r)) \/ AgentStep \/ DispatcherStep \/ Quit \/ MainStep \/ Done


-----------------------------------------------------------------------------
TypeOK ==
  /\ accepted \in Seq(Requests) /\ rejected \subseteq Requests
  /\ inq \in Seq(Requests) /\ Len(inq) <= InLen
  /\ outq \in Seq(Texts) /\ Len(outq) <= OutLen
  /\ pc \in {"loop", "pop", "got", "llm", "dispatch", "exit"}
  /\ cur \in Requests \cup {NoRequest}
  /\ answer \in {"none", "answer", "empty"}
  /\ dpc \in {"loop", "pop", "got", "exit"}
  /\ out \in Texts \cup {NoText}
  /\ said \in Seq(Texts) /\ heap \subseteq Texts
  /\ history \in Seq({"user", "assistant"} \X Requests)
  /\ stage \in {"running", "requested", "woken", "destroyed"}

(* message_bus.h: on success the bus owns a text, on failure the caller    *)
(* does.  Until the bus is destroyed every allocated text is therefore in  *)
(* exactly one hand: nothing leaks on any of the early returns, and        *)
(* nothing is used after it was freed.                                     *)
InAgent == IF cur = NoRequest THEN {}
           ELSE {Ask(cur)} \cup (IF answer = "answer" THEN {<<"answer", cur>>} ELSE {})
TextsOwnedOnce ==
  stage # "destroyed" =>
    /\ heap = {Ask(r) : r \in InSeq(inq)} \cup InSeq(outq) \cup InAgent \cup ({out} \ {NoText})
    /\ Cardinality(InSeq(outq)) = Len(outq)
    /\ out \notin InSeq(outq)
    /\ InAgent \cap ({out} \cup InSeq(outq)) = {}

(* On a channel other than the voice channel the answers come in the order *)
(* of the requests, and the status line of a turn before its answer.       *)
Before(s, x, y) == \E j, k \in DOMAIN s : j < k /\ s[j] = x /\ s[k] = y
AnswersInOrder ==
  \A j, k \in DOMAIN said :
    LET r == said[j][2]  q == said[k][2]
    IN  j < k /\ Channel[r] = Channel[q] /\ Channel[r] # "voice" =>
          \/ Before(accepted, r, q)
          \/ r = q /\ said[j] = Status(r) /\ said[k] # Status(r)

(* An answer of the model that a user gets is in the session history, next *)
(* to its question, so that the model knows it in the next turn.           *)
SaidIsRemembered ==
  \A k \in DOMAIN said :
    said[k][1] = "answer" =>
      \E h \in DOMAIN history : /\ h > 1
                                /\ history[h] = <<"assistant", said[k][2]>>
                                /\ history[h - 1] = <<"user", said[k][2]>>

(* Whatever path a request takes, its turn ends: its text is freed, unless *)
(* the program is shut down.  (With the fairness of the scheduler, an LLM  *)
(* call that times out and pushes that give up after 5 s.)                 *)
Unfinished == stage # "destroyed" /\ \E r \in Requests : r \in InSeq(accepted) /\ Ask(r) \in heap
RequestEnds == Unfinished ~> ~Unfinished
=============================================================================
