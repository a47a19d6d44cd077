------------------------------ MODULE LlmCache ------------------------------
(***************************************************************************)
(* llm/llm_cache.c as run_react_loop uses it (core/agent_loop.c): a simple *)
(* question is looked up, answered by the LLM on a miss, and the reply is  *)
(* put back, from the LLM or from the cache alike.  The wall clock may     *)
(* jump when the network sets it.                                          *)
(***************************************************************************)
EXTENDS Naturals

CONSTANTS Slots,      \* 0 .. LLM_CACHE_SLOTS - 1
          Prompts,
          Hash,       \* the djb2 hash of a prompt's first 64 characters
          TTL,        \* LLM_CACHE_TTL_SEC
          MaxTime     \* bound: the clock

Hashes == {Hash[p] : p \in Prompts}

VARIABLES slots,   \* s_slots: hash, response, ts, 
          now,     \* time(NULL)
          pc,      \* the agent loop: "idle", "answered"
          prompt,  \* the question at hand
          reply,   \* final_text
          stored   \* history: the response last stored for each hash, and when

vars == <<slots, now, pc, prompt, reply, stored>>

NoReply == [to |-> 0, at |-> 0]  \* a response: what it answers and when it was made
Responses == {NoReply} \cup [to : Prompts, at : 0 .. MaxTime]
EmptySlot == [hash |-> 0, response |-> NoReply, ts |-> 0]
Never == [response |-> NoReply, ts |-> 0]

Init ==
  /\ slots = [i \in Slots |-> EmptySlot]
  /\ now \in 0 .. MaxTime
  /\ pc = "idle" /\ prompt \in Prompts /\ reply = NoReply
  /\ stored = [h \in Hashes |-> Never]

-----------------------------------------------------------------------------
Holds(i, h) == slots[i].hash = h /\ slots[i].response # NoReply
Least(S) == CHOOSE i \in S : \A j \in S : i <= j

(* now - ts is unsigned: an entry from the future has expired too *)
Expired(i) == slots[i].ts > now \/ now - slots[i].ts > TTL

(* llm_cache_get, and the LLM call on a miss; strdup may fail on a hit *)
Ask ==
  /\ pc = "idle"
  /\ prompt' \in Prompts
  /\ LET hits == {i \in Slots : Holds(i, Hash[prompt'])}
         i == Least(hits)
         answer == [to |-> prompt', at |-> now]
     IN IF hits = {} THEN reply' = answer /\ UNCHANGED <<slots, stored>>
        ELSE IF Expired(i)
        THEN /\ slots' = [slots EXCEPT ![i].response = NoReply, ![i].hash = 0]
             /\ stored' = [stored EXCEPT ![Hash[prompt']] = Never]
             /\ reply' = answer
        ELSE reply' \in {slots[i].response, answer} /\ UNCHANGED <<slots, stored>>
  /\ pc' = "answered"
  /\ UNCHANGED now

OldestOnly_Mut(h) ==
  Least({i \in Slots : \A j \in Slots : slots[i].ts <= slots[j].ts})

(* The slot llm_cache_put overwrites: one with the hash, else the oldest *)
Target(h) ==
  LET same == {i \in Slots : slots[i].hash = h}
  IN IF same # {} THEN Least(same)
     ELSE Least({i \in Slots : \A j \in Slots : slots[i].ts <= slots[j].ts})

(* strdup fails: the old response is gone, its hash and time stay *)
PutFails(t, new) == slots' = [slots EXCEPT ![t].response = NoReply]

(* llm_cache_put of the reply at send_reply *)
Put ==
  /\ pc = "answered"
  /\ LET h == Hash[prompt]
         t == Target(h)
         evicted == slots[t].hash
         new == [hash |-> h, response |-> reply, ts |-> now]
         forget(k) == IF k \in Hashes THEN [stored EXCEPT ![k] = Never] ELSE stored
     IN \/ /\ slots' = [slots EXCEPT ![t] = new]
           /\ stored' = [forget(evicted) EXCEPT ![h] = [response |-> reply, ts |-> now]]
        \/ /\ PutFails(t, new)
           /\ stored' = forget(evicted)
  /\ pc' = "idle" /\ reply' = NoReply
  /\ UNCHANGED <<now, prompt>>

Tick == now < MaxTime /\ now' = now + 1 /\ UNCHANGED <<slots, pc, prompt, reply, stored>>

(* The network sets the clock *)
SetClock == now' \in 0 .. MaxTime /\ UNCHANGED <<slots, pc, prompt, reply, stored>>

Next == Ask \/ Put \/ Tick \/ SetClock
Spec == Init /\ [][Next]_vars
-----------------------------------------------------------------------------
TypeOK ==
  /\ slots \in [Slots -> [hash : Hashes \cup {0}, response : Responses, ts : 0 .. MaxTime]]
  /\ now \in 0 .. MaxTime
  /\ pc \in {"idle", "answered"} /\ prompt \in Prompts /\ reply \in Responses

(* However entries expire, are evicted or fail to be stored and however the *)
(* clock jumps, a question is answered from at most one slot, and that slot *)
(* holds what was last put under its hash (llm_cache.c:105-150).            *)
LastPutWins ==
  /\ \A i, j \in Slots, h \in Hashes : Holds(i, h) /\ Holds(j, h) => i = j
  /\ \A i \in Slots : slots[i].response # NoReply =>
       stored[slots[i].hash] = [response |-> slots[i].response, ts |-> slots[i].ts]
  /\ \A h \in Hashes : stored[h] # Never => \E i \in Slots : Holds(i, h)

=============================================================================
