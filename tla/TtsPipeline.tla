----------------------------- MODULE TtsPipeline -----------------------------
(***************************************************************************)
(* The sentence pipeline of voice_channel.c as run_voice_stream_path of    *)
(* agent_loop.c drives it: sentences of an answer that still streams in    *)
(* from the model are queued for the pipeline thread, which synthesises    *)
(* and plays them; what cannot be queued goes to the outbound bus.  A      *)
(* barge-in (voice_channel_start or voice_channel_abort_tts) aborts the    *)
(* pipeline from another thread at any moment, the agent's own abort       *)
(* follows a tool call or a failed stream.                                 *)
(***************************************************************************)
EXTENDS Naturals, Sequences

CONSTANTS Sentences,   \* sentences of the answer
          PipeLen      \* PIPELINE_QUEUE_SIZE

VARIABLES
    pq,        \* s_pipeline.queue; 0 is the final signal
    pipe,      \* s_pipeline: [active, running, abort, pb], pb in "none", "open", "stopped"
    feeder,    \* the agent task: [pc, next, started]
    aborter,   \* where each aborting thread is: "agent" and "barge"
    worker,    \* pipeline_thread: [pc, item]
    heard,     \* sentences written to the playback
    bus        \* sentences pushed to the outbound bus

vars == <<pq, pipe, feeder, aborter, worker, heard, bus>>

Final == 0
Off == [active |-> FALSE, running |-> FALSE, abort |-> FALSE, pb |-> "none"]

Init ==
    /\ pq = <<>> /\ pipe = Off
    /\ feeder = [pc |-> "idle", next |-> 1, started |-> FALSE]
    /\ aborter = [t \in {"agent", "barge"} |-> "away"]
    /\ worker = [pc |-> "off", item |-> Final]
    /\ heard = <<>> /\ bus = <<>>

Barged == aborter["barge"] # "away"
Goes(pc) == feeder' = [feeder EXCEPT !.pc = pc]

----------------------------------------------------------------------------
(* voice_pipeline_start; active is set after the thread was created. *)

Start ==
    /\ feeder.pc = "idle"
    /\ \/ /\ pq' = <<>> /\ pipe' = [Off EXCEPT !.running = TRUE, !.pb = "open"]
          /\ worker' = [worker EXCEPT !.pc = "test"]
          /\ feeder' = [feeder EXCEPT !.pc = "activate", !.started = TRUE]
       \/ /\ Goes("stream") /\ UNCHANGED <<pq, pipe, worker>>      \* no playback
    /\ UNCHANGED <<aborter, heard, bus>>

Activate ==
    /\ feeder.pc = "activate"
    /\ pipe' = [pipe EXCEPT !.active = TRUE] /\ Goes("stream")
    /\ UNCHANGED <<pq, aborter, worker, heard, bus>>

----------------------------------------------------------------------------
(* voice_stream_flush_sentence, voice_pipeline_push, voice_pipeline_finish. *)

\* The pipeline is asked first, and pushed to afterwards.
Flush ==
    /\ feeder.pc = "stream" /\ feeder.next <= Sentences
    /\ IF pipe.active
       THEN Goes("push") /\ UNCHANGED bus
       ELSE /\ bus' = Append(bus, feeder.next)
            /\ feeder' = [feeder EXCEPT !.next = @ + 1]
    /\ UNCHANGED <<pq, pipe, aborter, worker, heard>>

\* After the sentences comes finish, which queues the final signal, or abort.
\* A tool call or an error may end the stream before the last sentence.
EndStream ==
    /\ feeder.pc = "stream"
    /\ IF ~feeder.started THEN feeder.next > Sentences /\ Goes("done") /\ UNCHANGED aborter
       ELSE \/ feeder.next > Sentences /\ Goes("push") /\ UNCHANGED aborter
            \/ Goes("abort") /\ aborter' = [aborter EXCEPT !["agent"] = "flag"]
    /\ UNCHANGED <<pq, pipe, worker, heard, bus>>

Finishing == feeder.next > Sentences
Item == IF Finishing THEN Final ELSE feeder.next
AfterPush == IF Finishing THEN [feeder EXCEPT !.pc = "join"]
                          ELSE [feeder EXCEPT !.pc = "stream", !.next = @ + 1]

Put_Mut == pq' = Append(pq, Item) /\ feeder' = AfterPush

\* Queueing, s_pipeline.lock held; active is not tested again after a wait.
Put ==
    IF Len(pq) < PipeLen
    THEN pq' = Append(pq, Item) /\ feeder' = AfterPush
    ELSE Goes("full") /\ UNCHANGED pq

Push ==
    /\ feeder.pc = "push"
    /\ IF pipe.active THEN Put
       ELSE /\ feeder' = IF Finishing THEN [feeder EXCEPT !.pc = "done"] ELSE AfterPush
            /\ UNCHANGED pq
    /\ UNCHANGED <<pipe, aborter, worker, heard, bus>>

PushAfterWait ==
    /\ feeder.pc = "woken"
    /\ Put
    /\ UNCHANGED <<pipe, aborter, worker, heard, bus>>

FinishJoin ==
    /\ feeder.pc = "join" /\ worker.pc = "gone"
    /\ pipe' = [pipe EXCEPT !.active = FALSE, !.running = FALSE, !.pb = "none"]
    /\ pq' = <<>> /\ Goes("done")
    /\ UNCHANGED <<aborter, worker, heard, bus>>

AgentAborted ==
    /\ feeder.pc = "abort" /\ aborter["agent"] = "back"
    /\ Goes("done")
    /\ UNCHANGED <<pq, pipe, aborter, worker, heard, bus>>

FeederStep == Start \/ Activate \/ Flush \/ EndStream \/ Push \/ PushAfterWait \/ FinishJoin
              \/ AgentAborted

----------------------------------------------------------------------------
(* voice_pipeline_abort, by the agent or by the thread that barges in. *)

BargeIn ==
    /\ aborter["barge"] = "away" /\ pipe.active
    /\ aborter' = [aborter EXCEPT !["barge"] = "flag"]
    /\ UNCHANGED <<pq, pipe, feeder, worker, heard, bus>>

AbortFlag(t) ==
    /\ aborter[t] = "flag"
    /\ IF pipe.active
       THEN /\ pipe' = [pipe EXCEPT !.abort = TRUE, !.running = FALSE,
                                    !.pb = IF @ = "open" THEN "stopped" ELSE @]
            /\ aborter' = [aborter EXCEPT ![t] = "join"]
       ELSE aborter' = [aborter EXCEPT ![t] = "back"] /\ UNCHANGED pipe
    /\ UNCHANGED <<pq, feeder, worker, heard, bus>>

AbortJoin(t) ==
    /\ aborter[t] = "join" /\ worker.pc = "gone"
    /\ aborter' = [aborter EXCEPT ![t] = "back"]
    /\ pipe' = [pipe EXCEPT !.active = FALSE, !.pb = "none"]
    /\ pq' = <<>>
    /\ UNCHANGED <<feeder, worker, heard, bus>>

AbortStep == \E t \in {"agent", "barge"} : AbortFlag(t) \/ AbortJoin(t)

----------------------------------------------------------------------------
(* pipeline_thread. *)

Test ==
    /\ worker.pc = "test"
    /\ worker' = [worker EXCEPT !.pc = IF pipe.running THEN "pop" ELSE "gone"]
    /\ UNCHANGED <<pq, pipe, feeder, aborter, heard, bus>>

\* The thread waits for an item or the end; popping signals not_full.
Pop ==
    /\ worker.pc = "pop" /\ (pq # <<>> \/ ~pipe.running)
    /\ IF pq = <<>>
       THEN worker' = [worker EXCEPT !.pc = "gone"] /\ UNCHANGED <<pq, feeder>>
       ELSE /\ worker' = [pc |-> "popped", item |-> Head(pq)]
            /\ pq' = Tail(pq)
            /\ feeder' = IF feeder.pc = "full" THEN [feeder EXCEPT !.pc = "woken"] ELSE feeder
    /\ UNCHANGED <<pipe, aborter, heard, bus>>

Popped ==
    /\ worker.pc = "popped"
    /\ worker' = [worker EXCEPT !.pc = IF pipe.abort \/ worker.item = Final THEN "gone" ELSE "say"]
    /\ UNCHANGED <<pq, pipe, feeder, aborter, heard, bus>>

\* pipeline_process_sentence: after an abort its audio is dropped, wholly or from then on.
Say ==
    /\ worker.pc = "say"
    /\ worker' = [worker EXCEPT !.pc = "test"]
    /\ heard' = IF pipe.abort \/ pipe.pb # "open" THEN heard ELSE Append(heard, worker.item)
    /\ UNCHANGED <<pq, pipe, feeder, aborter, bus>>

WorkerStep == Test \/ Pop \/ Popped \/ Say

Next == FeederStep \/ BargeIn \/ AbortStep \/ WorkerStep

\* The model's stream and each synthesis end by a time-out; nobody need barge in.
Fairness == WF_vars(FeederStep) /\ WF_vars(AbortStep) /\ WF_vars(WorkerStep)

Spec == Init /\ [][Next]_vars /\ Fairness

----------------------------------------------------------------------------
TypeOK ==
    /\ pq \in UNION {[1..n -> 0..Sentences] : n \in 0..PipeLen}
    /\ pipe \in [active : BOOLEAN, running : BOOLEAN, abort : BOOLEAN, pb : {"none", "open", "stopped"}]
    /\ feeder.pc \in {"idle", "activate", "stream", "push", "full", "woken", "join", "abort", "done"}
    /\ feeder.next \in 1..(Sentences + 1)
    /\ worker.pc \in {"off", "test", "pop", "popped", "say", "gone"}

\* A sentence is spoken once, by the pipeline or by the dispatcher, in the order
\* of the answer; an answer that is not interrupted is spoken whole, also when
\* the queue was full on the way or the pipeline did not start.
SentencesInOrder ==
    /\ LET all == heard \o bus IN \A i, j \in 1..Len(all) : i < j => all[i] < all[j]
    /\ feeder.pc = "done" /\ ~Barged /\ aborter["agent"] = "away"
         => heard \o bus = [i \in 1..Sentences |-> i]

\* The pipeline thread ends, however the pipeline was left, and the agent task
\* gets through unless somebody barged in.
Waiting == \/ worker.pc \notin {"off", "gone"}
           \/ feeder.pc \notin {"idle", "done"} /\ ~Barged
PipelineEnds == Waiting ~> ~Waiting
=============================================================================
