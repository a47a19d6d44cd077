----------------------------- MODULE ToolRound -----------------------------
(***************************************************************************)
(* The parallel path of add_tool_result_messages (core/agent_loop.c) over  *)
(* the pool of output buffers (core/agent_mem.h): the tool calls of one    *)
(* response run in threads of their own, are joined in the order of the    *)
(* response, and their outputs become the tool messages of the next        *)
(* request.  The pool outlives the round.                                  *)
(***************************************************************************)
EXTENDS Naturals, Sequences, FiniteSets

CONSTANTS Slots,       \* pool buffers (AGENT_POOL_SLOTS), empty if the pool is not ready
          MaxCalls,    \* AGENT_MAX_TOOL_CALLS
          ShortIds,    \* tool_call_ids of at most 30 characters
          LongIds,     \* longer ones: seen_ids keeps 31 characters, unterminated
          NoBuf

Ids == ShortIds \cup LongIds
Tasks == 1 .. MaxCalls
HeapBufs == {<<"heap", i>> : i \in Tasks}
Bufs == Slots \cup HeapBufs

VARIABLES pc,       \* "idle", "spawn", "join"
          ids,      \* resp->calls[i].id
          i,        \* the loop counter of either loop
          inUse,    \* pool->in_use
          text,     \* contents of each buffer: "" or the task that wrote it
          output,   \* tasks[i].output
          thread,   \* thread of task i
          seen,     \* seen_ids
          results,  \* the tool messages added to the request
          runs      \* history: how often call i was executed in this round

vars == <<pc, ids, i, inUse, text, output, thread, seen, results, runs>>

Init ==
  /\ pc = "idle" /\ ids = <<>> /\ i = 1
  /\ inUse = {} /\ text = [b \in Bufs |-> 0]
  /\ output = [t \in Tasks |-> NoBuf]
  /\ thread = [t \in Tasks |-> "none"]
  /\ seen = {} /\ results = <<>>
  /\ runs = [t \in Tasks |-> 0]

-----------------------------------------------------------------------------
(* A response with several calls arrives *)
Round ==
  /\ pc = "idle"
  /\ \E n \in 2 .. MaxCalls : ids' \in [1 .. n -> Ids]
  /\ pc' = "spawn" /\ i' = 1
  /\ seen' = {} /\ results' = <<>>
  /\ runs' = [t \in Tasks |-> 0]
  /\ UNCHANGED <<inUse, text, output, thread>>

AcquireAny_Mut(b) == b \in Slots /\ inUse' = inUse \cup {b}

(* agent_pool_acquire *)
Acquire(b) == b \in Slots \ inUse /\ inUse' = inUse \cup {b}

(* pthread_create succeeds or the call is left without a thread *)
CreateThread ==
  \/ thread' = [thread EXCEPT ![i] = "started"]
  \/ UNCHANGED thread

MoreCalls == i <= Len(ids)

ClearText(b) == text' = [text EXCEPT ![b] = 0]

(* A buffer of the pool, or of the heap when the pool has none left; without *)
(* a buffer the call gets no thread either.                                  *)
Spawn ==
  /\ pc = "spawn" /\ MoreCalls
  /\ \/ \E b \in Slots : /\ Acquire(b)
                         /\ output' = [output EXCEPT ![i] = b]
                         /\ ClearText(b)
                         /\ CreateThread
     \/ /\ Slots \subseteq inUse
        /\ output' = [output EXCEPT ![i] = <<"heap", i>>]
        /\ ClearText(<<"heap", i>>)
        /\ CreateThread
        /\ UNCHANGED inUse
     \/ /\ Slots \subseteq inUse  \* calloc fails
        /\ UNCHANGED <<output, text, thread, inUse>>
  /\ i' = i + 1
  /\ UNCHANGED <<pc, ids, seen, results, runs>>

SpawnDone ==
  /\ pc = "spawn" /\ ~MoreCalls
  /\ pc' = "join" /\ i' = 1
  /\ UNCHANGED <<ids, inUse, text, output, thread, seen, results, runs>>

(* tool_exec_thread clears the buffer ... *)
ThreadStarts(t) ==
  /\ thread[t] = "started"
  /\ ClearText(output[t])
  /\ thread' = [thread EXCEPT ![t] = "running"]
  /\ UNCHANGED <<pc, ids, i, inUse, output, seen, results, runs>>

(* ... and executes the tool, which may leave it empty *)
ThreadRunsTool(t) ==
  /\ thread[t] = "running"
  /\ text' \in {text, [text EXCEPT ![output[t]] = t]}
  /\ runs' = [runs EXCEPT ![t] = @ + 1]
  /\ thread' = [thread EXCEPT ![t] = "done"]
  /\ UNCHANGED <<pc, ids, i, inUse, output, seen, results>>

(* pthread_join, skipped for a call without a thread *)
Joined(t) == thread[t] \in {"none", "done"}

RememberNothing_Mut(id) == UNCHANGED seen

(* strncpy fills 31 of the 32 bytes of seen_ids: for a long id the last one *)
(* is whatever the stack held, and the entry may or may not equal the id.   *)
Remember(id) == \/ seen' = seen \cup {id}
                \/ id \in LongIds /\ UNCHANGED seen

Message(t) == [id |-> ids[t],
               from |-> IF output[t] = NoBuf THEN 0 ELSE text[output[t]]]

(* agent_pool_release; a heap buffer is freed *)
Release(b) == inUse' = inUse \ {b}

RepeatDup_Mut == i' = IF ids[i] \in seen THEN i ELSE i + 1
Advance == i' = i + 1

(* An empty output is sent as "{}" (from = 0) *)
JoinNext ==
  /\ pc = "join" /\ MoreCalls
  /\ Joined(i)
  /\ IF ids[i] \in seen
     THEN UNCHANGED <<seen, results>>
     ELSE Remember(ids[i]) /\ results' = Append(results, Message(i))
  /\ Release(output[i])
  /\ output' = [output EXCEPT ![i] = NoBuf]
  /\ thread' = [thread EXCEPT ![i] = "none"]
  /\ Advance
  /\ UNCHANGED <<pc, ids, text, runs>>

JoinDone ==
  /\ pc = "join" /\ ~MoreCalls
  /\ pc' = "idle" /\ i' = 1
  /\ UNCHANGED <<ids, inUse, text, output, thread, seen, results, runs>>

LoopStep == Spawn \/ SpawnDone \/ JoinNext \/ JoinDone
ThreadStep(t) == ThreadStarts(t) \/ ThreadRunsTool(t)
Next == Round \/ LoopStep \/ \E t \in Tasks : ThreadStep(t)

(* A tool returns (each has its own timeout) and the agent thread goes on *)
Spec == /\ Init /\ [][Next]_vars
        /\ WF_vars(LoopStep)
        /\ \A t \in Tasks : WF_vars(ThreadStep(t))
-----------------------------------------------------------------------------
TypeOK ==
  /\ pc \in {"idle", "spawn", "join"}
  /\ ids \in UNION {[1 .. n -> Ids] : n \in 0 .. MaxCalls}
  /\ i \in 1 .. MaxCalls + 1
  /\ inUse \subseteq Slots
  /\ text \in [Bufs -> 0 .. MaxCalls]
  /\ output \in [Tasks -> Bufs \cup {NoBuf}]
  /\ thread \in [Tasks -> {"none", "started", "running", "done"}]
  /\ seen \subseteq Ids
  /\ results \in Seq([id : Ids, from : 0 .. MaxCalls])
  /\ runs \in [Tasks -> Nat]

(* A pool buffer in use belongs to exactly one call and is not handed out a *)
(* second time while that call's thread may still write to it; outside a    *)
(* round the pool is complete again (agent_mem.h acquire and release).      *)
BuffersPrivate ==
  /\ \A t, u \in Tasks : t # u /\ output[t] # NoBuf => output[t] # output[u]
  /\ inUse = {output[t] : t \in Tasks} \cap Slots
  /\ pc = "idle" => inUse = {}

(* What the LLM is told is the result of a call is the output of a call with *)
(* that id, complete (a thread that is still at work has not been read), and *)
(* the tool ran at most once for it (agent_mem.h: executed exactly ONCE).    *)
ResultsAreTheirOwn ==
  /\ \A r \in {results[k] : k \in DOMAIN results} :
       r.from # 0 => ids[r.from] = r.id /\ runs[r.from] = 1
  /\ \A t \in Tasks : runs[t] <= 1
  /\ pc = "idle" => \A t \in Tasks : thread[t] = "none"

(* Every call of the response is answered (an assistant message with an      *)
(* unanswered call is refused by the API), and no id of at most 30           *)
(* characters is answered twice (agent_loop.c:291-332).                      *)
EachIdAnsweredOnce ==
  /\ pc = "idle" => \A t \in DOMAIN ids : \E k \in DOMAIN results : results[k].id = ids[t]
  /\ \A j, k \in DOMAIN results :
       results[j].id = results[k].id /\ results[j].id \in ShortIds => j = k

(* A round ends, whichever threads could not be created.                    *)
RoundEnds == pc # "idle" ~> pc = "idle"
=============================================================================
