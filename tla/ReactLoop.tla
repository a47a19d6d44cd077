----------------------------- MODULE ReactLoop -----------------------------
(***************************************************************************)
(* run_react_loop of core/agent_loop.c: one request after another is       *)
(* answered by calling the LLM, running the tools it asks for and calling  *)
(* it again, with failover to another backend, a watchdog on slow calls, a *)
(* retry on a better backend, a guard against repeated tool calls and a    *)
(* response cache.                                                         *)
(*                                                                         *)
(* Every decision of the router, the LLM and the tools is a choice of the  *)
(* environment.  A text is represented by where it comes from.             *)
(***************************************************************************)
EXTENDS Naturals, Sequences, FiniteSets, SequenceTheorems, TLAPS

CONSTANTS Backends,       \* indices of configured LLM backends
          NoBackend,      \* the router's -1
          Names, Args,    \* tool names and tool inputs
          JointArgs,      \* the inputs tried in responses with two tool calls
          LocalTools,     \* read_file, write_file, edit_file, list_dir
          MaxIter,        \* AGENT_AI_AGENT_MAX_TOOL_ITER
          NameRepeatMax,  \* AGENT_TOOL_NAME_REPEAT_MAX
          NoSig           \* an empty prev_sig or prev_name

ASSUME ReactAssumption ==
  /\ MaxIter \in Nat \ {0}
  /\ NameRepeatMax \in Nat \ {0}
  /\ LocalTools \subseteq Names
  /\ JointArgs \subseteq Args
  /\ NoBackend \notin Backends
  /\ NoSig \notin Names \cup (Names \X Args)

VARIABLES pc,          \* where run_react_loop is
          simple,      \* complexity == LLM_COMPLEXITY_SIMPLE
          idx,         \* router_idx
          iteration,
          resp,        \* the LLM response under consideration
          failedOver,  \* this iteration has tried the router's second choice
          prevSig, dupCount, prevName, nameRepeat,
          toolOutput,  \* what the tool_output buffer holds, and since which round
          finalText,   \* final_text
          watchdog,    \* watchdog_fired
          trace,       \* status of the structured trace
          cache,       \* cached answer to the question at hand
          last,        \* history: the calls of the last tool round
          sameCall,    \* history: rounds in a row of one and the same call
          sameTool,    \* history: rounds in a row of one call of the same tool
          llmCalls     \* history: LLM calls of this turn

guard == <<prevSig, dupCount, prevName, nameRepeat>>
history == <<last, sameCall, sameTool>>
vars == <<pc, simple, idx, iteration, resp, failedOver, guard, toolOutput,
          finalText, watchdog, trace, cache, history, llmCalls>>

Calls == Names \X Args
MultiCalls == (Names \X JointArgs) \X (Names \X JointArgs)
CallSeqs == {<<>>} \cup {<<c>> : c \in Calls} \cup MultiCalls

(* What llm_chat_tools may come back with.  Late: after the watchdog limit. *)
Responses ==
  [kind : {"failed", "failed_late", "late", "answer", "poor", "empty"}, calls : {<<>>}]
    \cup [kind : {"tools"}, calls : CallSeqs]
NoResp == [kind |-> "empty", calls |-> <<>>]

Failed == resp.kind \in {"failed", "failed_late"}

(* A text that did not come from the tools carries round 0.                 *)
Text(from) == [from |-> from, round |-> 0]
NoText == Text("none")
TimeoutMsg == Text("timeout_msg")            \* LLM_TIMEOUT_MSG
TaskTimeoutMsg == Text("task_timeout_msg")   \* LLM_TIMEOUT_TASK_COMPLETE_MSG
IsAnswer(t) == t.from \in {"llm", "tool"}

NoOutput == [text |-> "", round |-> 0]

Init ==
  /\ pc = "idle" /\ simple = FALSE /\ idx = NoBackend /\ iteration = 0
  /\ resp = NoResp /\ failedOver = FALSE
  /\ prevSig = NoSig /\ dupCount = 0 /\ prevName = NoSig /\ nameRepeat = 0
  /\ toolOutput = NoOutput
  /\ finalText = NoText /\ watchdog = FALSE /\ trace = "none"
  /\ cache = NoText
  /\ last = <<>> /\ sameCall = 0 /\ sameTool = 0 /\ llmCalls = 0

-----------------------------------------------------------------------------
(* Route, open the trace, and look the question up in the cache *)
Begin ==
  /\ pc = "idle"
  /\ simple' \in BOOLEAN
  /\ idx' \in Backends \cup {NoBackend}
  /\ LET hit == simple' /\ cache # NoText
     IN /\ finalText' = IF hit THEN cache ELSE NoText
        /\ trace' = IF hit THEN "ok" ELSE "running"
        /\ pc' = IF hit THEN "send" ELSE "call"
  /\ UNCHANGED <<iteration, resp, failedOver, guard, toolOutput, watchdog,
                 cache, history, llmCalls>>

MoreIterationsByOne_Mut(n) == n <= MaxIter
MoreIterations(n) == n < MaxIter

CallLlm ==
  /\ pc = "call"
  /\ MoreIterations(iteration)
  /\ resp' \in Responses
  /\ llmCalls' = llmCalls + 1
  /\ failedOver' = FALSE
  /\ pc' = "judge"
  /\ UNCHANGED <<simple, idx, iteration, guard, toolOutput, finalText,
                 watchdog, trace, cache, history>>

FailoverUncounted_Mut ==
  /\ pc = "judge" /\ Failed
  /\ idx # NoBackend
  /\ \E next \in Backends \ {idx} : idx' = next /\ resp' \in Responses
  /\ UNCHANGED <<pc, simple, iteration, failedOver, guard, toolOutput, finalText,
                 watchdog, trace, cache, history, llmCalls>>

(* The failed backend is reported; another choice of the router is called *)
Failover ==
  /\ pc = "judge" /\ Failed
  /\ idx # NoBackend
  /\ ~failedOver
  /\ failedOver' = TRUE
  /\ \/ \E next \in Backends \ {idx} : /\ idx' = next
                                       /\ resp' \in Responses
                                       /\ llmCalls' = llmCalls + 1
     \/ UNCHANGED <<idx, resp, llmCalls>>
  /\ UNCHANGED <<pc, simple, iteration, guard, toolOutput, finalText,
                 watchdog, trace, cache, history>>

GiveUp ==
  /\ pc = "judge" /\ Failed
  /\ failedOver \/ idx = NoBackend
  /\ finalText' = IF resp.kind = "failed_late" THEN TimeoutMsg ELSE finalText
  /\ watchdog' = (resp.kind = "failed_late")
  /\ pc' = "close"
  /\ resp' = NoResp /\ failedOver' = FALSE  \* llm_response_free
  /\ UNCHANGED <<simple, idx, iteration, guard, toolOutput,
                 trace, cache, history, llmCalls>>

(* A successful call past the limit counts as a timeout *)
TooLate ==
  /\ pc = "judge" /\ resp.kind = "late"
  /\ finalText' = TimeoutMsg
  /\ watchdog' = TRUE
  /\ pc' = "close"
  /\ resp' = NoResp /\ failedOver' = FALSE  \* llm_response_free
  /\ UNCHANGED <<simple, idx, iteration, guard, toolOutput,
                 trace, cache, history, llmCalls>>

Answer ==
  /\ pc = "judge" /\ resp.kind \in {"answer", "poor", "empty"}
  /\ finalText' = IF resp.kind = "empty" THEN finalText ELSE Text("llm")
  /\ pc' = "close"
  /\ resp' = NoResp /\ failedOver' = FALSE  \* llm_response_free
  /\ UNCHANGED <<simple, idx, iteration, guard, toolOutput,
                 watchdog, trace, cache, history, llmCalls>>

(* Cascade (AUTO profile): a poor answer to a simple question is retried on *)
(* a premium backend; if that fails the poor answer stands.                 *)
Cascade ==
  /\ pc = "judge" /\ resp.kind = "poor"
  /\ simple /\ idx # NoBackend
  /\ \E premium \in Backends \ {idx} :
       /\ idx' = premium
       /\ llmCalls' = llmCalls + 1
       /\ \E again \in Responses :
            LET slow == again.kind \in {"late", "failed_late"}
            IN /\ finalText' = IF slow THEN TimeoutMsg ELSE Text("llm")
               /\ watchdog' = slow
  /\ pc' = "close"
  /\ resp' = NoResp /\ failedOver' = FALSE  \* llm_response_free
  /\ UNCHANGED <<simple, iteration, guard, toolOutput,
                 trace, cache, history>>

-----------------------------------------------------------------------------
(* check_tool_dup: the loop breaks on the third identical single call in a  *)
(* row, and on a tool called NameRepeatMax times more in a row.  Each break *)
(* returns before the state that follows it is saved.                       *)
SameSig == resp.calls[1] = prevSig
SameName == resp.calls[1][1] = prevName
StuckOnFourth_Mut == Len(resp.calls) = 1 /\ SameSig /\ dupCount + 1 >= 3
StuckOnCall == Len(resp.calls) = 1 /\ SameSig /\ dupCount + 1 >= 2
StuckOnName == /\ Len(resp.calls) = 1
               /\ ~StuckOnCall
               /\ SameName /\ nameRepeat + 1 >= NameRepeatMax
Stuck == StuckOnCall \/ StuckOnName

NoteCalls ==
  IF Len(resp.calls) # 1
  THEN prevSig' = NoSig /\ dupCount' = 0 /\ prevName' = NoSig /\ nameRepeat' = 0
  ELSE /\ dupCount' = IF SameSig THEN dupCount + 1 ELSE 0
       /\ prevSig' = resp.calls[1]
       /\ IF StuckOnCall THEN UNCHANGED <<prevName, nameRepeat>>
          ELSE /\ nameRepeat' = IF SameName THEN nameRepeat + 1 ELSE 0
               /\ prevName' = resp.calls[1][1]

(* Only a round of one call goes through the tool_output buffer: calls that *)
(* run in parallel have buffers of their own.                               *)
ToolTexts == {"", "text", "task_complete"}
RunTools ==
  IF Len(resp.calls) = 1
  THEN \E text \in ToolTexts :
         toolOutput' = [text |-> text, round |-> iteration + 1]
  ELSE UNCHANGED toolOutput

ShortcutAnyRound_Mut(out) == /\ \E i \in 1 .. Len(resp.calls) :
                                  resp.calls[i][1] \in LocalTools
                             /\ out.text # ""

(* A single local file operation answers the request by itself, except for *)
(* reading a skill file.                                                    *)
Shortcut(out) == /\ Len(resp.calls) = 1
                 /\ resp.calls[1][1] \in LocalTools
                 /\ out.text # ""
TaskComplete(out) == Len(resp.calls) = 1 /\ out.text = "task_complete"

ConfirmForgetsTimeout_Mut ==
  /\ llmCalls' = llmCalls + 1
  /\ \E r \in Responses :
       finalText' = IF r.kind \in {"late", "failed_late"} THEN TaskTimeoutMsg
                    ELSE IF r.kind \in {"answer", "poor"} THEN Text("llm")
                    ELSE NoText
  /\ UNCHANGED watchdog

(* One final call without tools confirms the task (handle_task_complete)   *)
ConfirmTask ==
  /\ llmCalls' = llmCalls + 1
  /\ \E r \in Responses :
       LET slow == r.kind \in {"late", "failed_late"}
       IN /\ finalText' = IF slow THEN TaskTimeoutMsg
                          ELSE IF r.kind \in {"answer", "poor"} THEN Text("llm")
                          ELSE NoText
          /\ watchdog' = slow

RecordRound ==
  /\ last' = resp.calls
  /\ IF Len(resp.calls) # 1 THEN sameCall' = 0 /\ sameTool' = 0
     ELSE /\ sameCall' = IF resp.calls = last THEN sameCall + 1 ELSE 1
          /\ sameTool' = IF Len(last) = 1 /\ last[1][1] = resp.calls[1][1]
                         THEN sameTool + 1 ELSE 1

ToolRound ==
  /\ pc = "judge" /\ resp.kind = "tools"
  /\ NoteCalls
  /\ RunTools
  /\ RecordRound
  /\ \E skillFile \in BOOLEAN :
       \/ /\ Stuck
          /\ pc' = "close"
          /\ UNCHANGED <<iteration, finalText, watchdog, llmCalls>>
       \/ /\ ~Stuck /\ Shortcut(toolOutput') /\ ~skillFile
          /\ finalText' = [from |-> "tool", round |-> toolOutput'.round]
          /\ pc' = "close"
          /\ UNCHANGED <<iteration, watchdog, llmCalls>>
       \/ /\ ~Stuck /\ ~(Shortcut(toolOutput') /\ ~skillFile)
          /\ TaskComplete(toolOutput')
          /\ ConfirmTask
          /\ pc' = "close"
          /\ UNCHANGED iteration
       \/ /\ ~Stuck /\ ~(Shortcut(toolOutput') /\ ~skillFile)
          /\ ~TaskComplete(toolOutput')
          /\ iteration' = iteration + 1
          /\ pc' = IF MoreIterations(iteration') THEN "call" ELSE "close"
          /\ UNCHANGED <<finalText, watchdog, llmCalls>>
  /\ resp' = NoResp /\ failedOver' = FALSE  \* llm_response_free
  /\ UNCHANGED <<simple, idx, trace, cache>>

-----------------------------------------------------------------------------
(* The limit is reached: one last call without tools (force_finish_reply)   *)
ForceFinish ==
  /\ pc = "close"
  /\ finalText = NoText /\ iteration >= MaxIter
  /\ llmCalls' = llmCalls + 1
  /\ \E r \in Responses :
       finalText' = IF r.kind \in {"late", "failed_late"} THEN TimeoutMsg
                    ELSE IF r.kind \in {"answer", "poor"} THEN Text("llm")
                    ELSE NoText
  /\ trace' = "timeout"
  /\ pc' = "send"
  /\ UNCHANGED <<simple, idx, iteration, resp, failedOver, guard, toolOutput,
                 watchdog, cache, history>>

Close ==
  /\ pc = "close"
  /\ ~(finalText = NoText /\ iteration >= MaxIter)
  /\ trace' = IF watchdog THEN "timeout"
              ELSE IF finalText # NoText THEN "ok" ELSE "fail"
  /\ pc' = "send"
  /\ UNCHANGED <<simple, idx, iteration, resp, failedOver, guard, toolOutput,
                 finalText, watchdog, cache, history, llmCalls>>

(* Any reply to a simple question goes into the cache; the reply is         *)
(* dispatched, an apology if there is none (dispatch_response).  The locals *)
(* of run_react_loop are gone; the tool_output buffer keeps its contents.   *)
SendReply ==
  /\ pc = "send"
  /\ cache' = IF simple /\ finalText # NoText THEN Text(finalText.from) ELSE cache
  /\ toolOutput' = [toolOutput EXCEPT !.round = 0]
  /\ pc' = "idle"
  /\ simple' = FALSE /\ idx' = NoBackend /\ iteration' = 0
  /\ resp' = NoResp /\ failedOver' = FALSE
  /\ prevSig' = NoSig /\ dupCount' = 0 /\ prevName' = NoSig /\ nameRepeat' = 0
  /\ finalText' = NoText /\ watchdog' = FALSE /\ trace' = "none"
  /\ last' = <<>> /\ sameCall' = 0 /\ sameTool' = 0 /\ llmCalls' = 0

(* The entry expires or is evicted (llm_cache.c) *)
CacheExpires ==
  /\ pc = "idle" /\ cache # NoText
  /\ cache' = NoText
  /\ UNCHANGED <<pc, simple, idx, iteration, resp, failedOver, guard, toolOutput,
                 finalText, watchdog, trace, history, llmCalls>>

TurnStep == CallLlm \/ Failover \/ GiveUp \/ TooLate \/ Answer \/ Cascade
            \/ ToolRound \/ ForceFinish \/ Close \/ SendReply

Next == Begin \/ TurnStep \/ CacheExpires

(* llm_chat_tools always returns (the socket has a receive timeout), and    *)
(* the agent thread goes on.                                                *)
Spec == Init /\ [][Next]_vars /\ WF_vars(TurnStep)
-----------------------------------------------------------------------------
Texts == [from : {"none", "llm", "tool", "timeout_msg", "task_timeout_msg"},
          round : 0 .. MaxIter]
Outputs == [text : ToolTexts, round : 0 .. MaxIter]

TypeOK ==
  /\ pc \in {"idle", "call", "judge", "close", "send"}
  /\ simple \in BOOLEAN /\ failedOver \in BOOLEAN /\ watchdog \in BOOLEAN
  /\ idx \in Backends \cup {NoBackend}
  /\ iteration \in 0 .. MaxIter
  /\ resp \in Responses
  /\ prevSig \in Calls \cup {NoSig} /\ prevName \in Names \cup {NoSig}
  /\ dupCount \in 0 .. 2 /\ nameRepeat \in 0 .. NameRepeatMax
  /\ toolOutput \in Outputs /\ finalText \in Texts /\ cache \in Texts
  /\ trace \in {"none", "running", "ok", "fail", "timeout"}
  /\ llmCalls \in Nat

(* A request costs at most two LLM calls an iteration and one more, however *)
(* often backends fail, cascade or ask for tools (agent_loop.c:2408-2437).  *)
CallsBounded == llmCalls <= 2 * MaxIter + 1

(* The turn does not go on after the same call was executed three times in  *)
(* a row, nor after NameRepeatMax + 1 single calls of one tool in a row,    *)
(* whatever mix of inputs the LLM tries (agent_loop.c:2017-2067).           *)
NoEndlessRepeat == pc = "call" => sameCall < 3 /\ sameTool <= NameRepeatMax

(* What bounds a turn: its calls of the LLM and its repetitions.           *)
TurnIsBounded == CallsBounded /\ NoEndlessRepeat

(* A reply taken from tool_output is the output of the last round, and that *)
(* round was one call of a local tool: the buffer is never stale            *)
(* (the comment at agent_loop.c:2612-2618).                                 *)
ShortcutIsFresh ==
  pc \in {"close", "send"} /\ finalText.from = "tool" /\ llmCalls > 0 =>
    /\ finalText.round = iteration + 1
    /\ Len(last) = 1 /\ last[1][1] \in LocalTools

(* The trace is closed before the reply leaves; it says "ok" only for a     *)
(* turn that ends with an answer of the LLM or of a tool (or of the cache), *)
(* never for one that ends with a timeout message, and "fail" only for one  *)
(* that ends with nothing (agent_loop.c:2685-2695).                         *)
TraceMatchesReply ==
  pc = "send" =>
    /\ trace # "running"
    /\ trace = "ok" /\ llmCalls > 0 => IsAnswer(finalText)
    /\ trace = "ok" => finalText # NoText
    /\ trace = "fail" => finalText = NoText
    /\ watchdog => trace = "timeout" /\ finalText # NoText

(* Every request is answered or given up.                                   *)
TurnEnds == pc # "idle" ~> pc = "idle"
-----------------------------------------------------------------------------
(* Proofs, for any backends, tools, inputs and limits.                      *)

Working == pc \in {"call", "judge"}

(* What is set while the request is worked on: no reply yet and the trace   *)
(* open; outside of a turn nothing is left of the last one.                 *)
PhaseInv ==
  /\ pc = "idle" => llmCalls = 0 /\ iteration = 0
  /\ pc \in {"idle", "call", "judge"} => finalText = NoText /\ ~watchdog
  /\ Working => iteration < MaxIter
  /\ pc \in {"call", "judge", "close"} => trace = "running"
  /\ pc # "judge" => ~failedOver

(* Each iteration pays for at most two calls; the one beyond them is paid   *)
(* by a turn that ends before the limit or by the forced reply at it.       *)
CostInv ==
  /\ pc = "call" => llmCalls <= 2 * iteration
  /\ pc = "judge" => llmCalls \in 1 .. 2 * iteration + (IF failedOver THEN 2 ELSE 1)
  /\ pc = "close" => \/ iteration < MaxIter /\ llmCalls \in 1 .. 2 * iteration + 3
                     \/ iteration = MaxIter /\ llmCalls \in 1 .. 2 * MaxIter
  /\ pc = "send" => llmCalls <= 2 * MaxIter + 1

(* The guard of check_tool_dup counts exactly the rounds that ran, whenever *)
(* another one may follow.                                                  *)
GuardInv ==
  /\ last \in CallSeqs
  /\ pc \in {"idle", "call", "judge"} =>
       IF Len(last) = 1
       THEN /\ prevSig = last[1] /\ prevName = last[1][1]
            /\ dupCount \in 0 .. 1 /\ sameCall = dupCount + 1
            /\ nameRepeat \in 0 .. NameRepeatMax - 1 /\ sameTool = nameRepeat + 1
       ELSE /\ prevSig = NoSig /\ prevName = NoSig
            /\ dupCount = 0 /\ sameCall = 0
            /\ nameRepeat = 0 /\ sameTool = 0

(* A reply at the end of a turn: of a tool only from the last round, and a  *)
(* timeout message exactly when the watchdog has fired.                     *)
ReplyInv ==
  pc = "close" =>
    /\ IF watchdog THEN finalText.from \in {"timeout_msg", "task_timeout_msg"}
       ELSE finalText = NoText \/ IsAnswer(finalText)
    /\ finalText.from = "tool" => /\ finalText.round = iteration + 1
                                  /\ Len(last) = 1 /\ last[1][1] \in LocalTools

TurnInv == /\ TypeOK /\ PhaseInv /\ CostInv /\ GuardInv /\ ReplyInv
           /\ ShortcutIsFresh /\ TraceMatchesReply

-----------------------------------------------------------------------------
(* A round of one call is that call, and every other round has no first    *)
(* call that the guard looks at.                                           *)
LEMMA OneCall ==
  ASSUME NEW cs \in CallSeqs, Len(cs) = 1
  PROVE  cs[1] \in Calls /\ cs = <<cs[1]>> /\ cs[1][1] \in Names /\ cs[1] # NoSig /\ cs[1][1] # NoSig
  <1>1. cs \notin MultiCalls
    <2> SUFFICES ASSUME cs \in MultiCalls PROVE FALSE
      OBVIOUS
    <2>1. PICK a, b \in Calls : cs = <<a, b>>
      BY ReactAssumption DEF Calls, MultiCalls
    <2> QED
      BY <2>1
  <1>2. cs # <<>>
    OBVIOUS
  <1>3. PICK c \in Calls : cs = <<c>>
    BY <1>1, <1>2 DEF CallSeqs
  <1> QED
    BY <1>3, ReactAssumption DEF Calls

LEMMA TextsAreTexts ==
  /\ NoText \in Texts /\ TimeoutMsg \in Texts /\ TaskTimeoutMsg \in Texts
  /\ Text("llm") \in Texts
  /\ \A t \in Texts : Text(t.from) \in Texts
  /\ \A n \in 1 .. MaxIter : [from |-> "tool", round |-> n] \in Texts
  BY ReactAssumption DEF NoText, TimeoutMsg, TaskTimeoutMsg, Text, Texts

LEMMA OutputsAreOutputs ==
  /\ NoOutput \in Outputs
  /\ \A text \in ToolTexts, n \in 0 .. MaxIter : [text |-> text, round |-> n] \in Outputs
  /\ \A o \in Outputs : o.round \in 0 .. MaxIter /\ [o EXCEPT !.round = 0] \in Outputs
  <1>1. NoOutput \in Outputs
    BY ReactAssumption DEF NoOutput, ToolTexts, Outputs
  <1>2. \A text \in ToolTexts, n \in 0 .. MaxIter : [text |-> text, round |-> n] \in Outputs
    BY DEF Outputs
  <1>3. ASSUME NEW o \in Outputs
        PROVE  o.round \in 0 .. MaxIter /\ [o EXCEPT !.round = 0] \in Outputs
    BY ReactAssumption DEF Outputs
  <1> QED
    BY <1>1, <1>2, <1>3

LEMMA RespsAreResponses ==
  /\ NoResp \in Responses
  /\ \A r \in Responses : r.kind = "tools" => r.calls \in CallSeqs
  <1>1. NoResp \in Responses
    BY DEF NoResp, Responses
  <1>2. \A r \in Responses : r.kind = "tools" => r.calls \in CallSeqs
    BY DEF Responses
  <1> QED
    BY <1>1, <1>2

ToolText == [from |-> "tool", round |-> iteration + 1]

(* The part of TypeOK that is arithmetic. *)
NumbersOK == /\ iteration \in 0 .. MaxIter /\ dupCount \in 0 .. 2
             /\ nameRepeat \in 0 .. NameRepeatMax /\ llmCalls \in Nat

LEMMA InitTurn == Init => TurnInv
  <1> SUFFICES ASSUME Init PROVE TurnInv
    OBVIOUS
  <1>1. TypeOK
    <2>1. NumbersOK
      BY ReactAssumption DEF Init, NumbersOK
    <2> QED
      BY <2>1, TextsAreTexts, OutputsAreOutputs, RespsAreResponses, Zenon
      DEF Init, TypeOK, NumbersOK
  <1>2. PhaseInv /\ CostInv /\ GuardInv
    BY DEF Init, PhaseInv, Working, CostInv, GuardInv, CallSeqs
  <1>3. ReplyInv /\ ShortcutIsFresh /\ TraceMatchesReply
    BY DEF Init, ReplyInv, ShortcutIsFresh, TraceMatchesReply
  <1> QED
    BY <1>1, <1>2, <1>3 DEF TurnInv

LEMMA CallLlmKeeps == TurnInv /\ CallLlm => TurnInv'
  <1> SUFFICES ASSUME TurnInv, CallLlm PROVE TurnInv'
    OBVIOUS
  <1> USE DEF TurnInv, CallLlm, guard, history
  <1>1. TypeOK'
    <2>1. llmCalls' \in Nat
      BY DEF TypeOK
    <2> QED
      BY <2>1, Zenon DEF TypeOK
  <1>2. PhaseInv' /\ CostInv'
    BY DEF PhaseInv, Working, CostInv, TypeOK, MoreIterations
  <1>3. GuardInv'
    BY DEF GuardInv
  <1>4. ReplyInv' /\ ShortcutIsFresh' /\ TraceMatchesReply'
    BY DEF ReplyInv, ShortcutIsFresh, TraceMatchesReply
  <1> QED
    BY <1>1, <1>2, <1>3, <1>4

LEMMA BeginKeeps == TurnInv /\ Begin => TurnInv'
  <1> SUFFICES ASSUME TurnInv, Begin PROVE TurnInv'
    OBVIOUS
  <1> USE DEF TurnInv, Begin, guard, history
  <1>1. TypeOK'
    BY TextsAreTexts, Zenon DEF TypeOK
  <1>2. PhaseInv' /\ CostInv'
    BY ReactAssumption DEF PhaseInv, Working, CostInv, TypeOK
  <1>3. GuardInv'
    BY DEF GuardInv
  <1>4. ReplyInv' /\ ShortcutIsFresh' /\ TraceMatchesReply'
    BY DEF ReplyInv, ShortcutIsFresh, TraceMatchesReply, PhaseInv
  <1> QED
    BY <1>1, <1>2, <1>3, <1>4

LEMMA FailoverKeeps == TurnInv /\ Failover => TurnInv'
  <1> SUFFICES ASSUME TurnInv, Failover PROVE TurnInv'
    OBVIOUS
  <1> USE DEF TurnInv, Failover, guard, history
  <1>1. TypeOK'
    <2>1. llmCalls' \in Nat
      BY DEF TypeOK
    <2> QED
      BY <2>1, Zenon DEF TypeOK
  <1>2. PhaseInv' /\ CostInv'
    BY DEF PhaseInv, Working, CostInv, TypeOK
  <1>3. GuardInv'
    BY DEF GuardInv
  <1>4. ReplyInv' /\ ShortcutIsFresh' /\ TraceMatchesReply'
    BY DEF ReplyInv, ShortcutIsFresh, TraceMatchesReply
  <1> QED
    BY <1>1, <1>2, <1>3, <1>4

(* The three ways an iteration ends the turn without another call. *)
LEMMA EndsKeep == TurnInv /\ (GiveUp \/ TooLate \/ Answer) => TurnInv'
  <1> SUFFICES ASSUME TurnInv, GiveUp \/ TooLate \/ Answer PROVE TurnInv'
    OBVIOUS
  <1> USE DEF TurnInv, GiveUp, TooLate, Answer, guard, history
  <1>1. TypeOK'
    BY TextsAreTexts, RespsAreResponses, Zenon DEF TypeOK
  <1>2. PhaseInv' /\ CostInv'
    BY DEF PhaseInv, Working, CostInv, TypeOK
  <1>3. GuardInv'
    BY DEF GuardInv
  <1>4. /\ watchdog' => finalText'.from = "timeout_msg"
        /\ ~watchdog' => finalText' = NoText \/ finalText' = Text("llm")
    <2>1. CASE GiveUp
      BY <2>1 DEF PhaseInv, Working, NoText, TimeoutMsg, Text
    <2>2. CASE TooLate
      BY <2>2 DEF TimeoutMsg, Text
    <2>3. CASE Answer
      BY <2>3 DEF PhaseInv, Working, NoText, Text
    <2> QED
      BY <2>1, <2>2, <2>3
  <1>5. ReplyInv' /\ ShortcutIsFresh'
    BY <1>4 DEF ReplyInv, ShortcutIsFresh, IsAnswer, NoText, Text
  <1>6. TraceMatchesReply'
    BY DEF TraceMatchesReply
  <1> QED
    BY <1>1, <1>2, <1>3, <1>4, <1>5, <1>6

LEMMA CascadeKeeps == TurnInv /\ Cascade => TurnInv'
  <1> SUFFICES ASSUME TurnInv, Cascade PROVE TurnInv'
    OBVIOUS
  <1> USE DEF TurnInv, Cascade, guard, history
  <1>0. /\ watchdog' \in BOOLEAN
        /\ watchdog' => finalText' = TimeoutMsg
        /\ ~watchdog' => finalText' = Text("llm")
    <2>1. PICK again \in Responses :
            /\ finalText' = IF again.kind \in {"late", "failed_late"} THEN TimeoutMsg
                            ELSE Text("llm")
            /\ watchdog' = (again.kind \in {"late", "failed_late"})
      BY Zenon
    <2>2. watchdog' \in BOOLEAN
      BY <2>1, SMT
    <2>3. watchdog' => finalText' = TimeoutMsg
      BY <2>1, Zenon
    <2>4. ~watchdog' => finalText' = Text("llm")
      BY <2>1, Zenon
    <2> QED
      BY <2>2, <2>3, <2>4
  <1>1. TypeOK'
    <2>1. llmCalls' \in Nat
      BY DEF TypeOK
    <2> QED
      BY <2>1, <1>0, TextsAreTexts, RespsAreResponses, Zenon DEF TypeOK
  <1>2. PhaseInv' /\ CostInv'
    BY DEF PhaseInv, Working, CostInv, TypeOK
  <1>3. GuardInv'
    BY DEF GuardInv
  <1>4. ReplyInv'
    BY <1>0 DEF ReplyInv, IsAnswer, TimeoutMsg, Text
  <1>5. ShortcutIsFresh' /\ TraceMatchesReply'
    BY DEF ShortcutIsFresh, TraceMatchesReply, TimeoutMsg, Text
  <1> QED
    BY <1>1, <1>2, <1>3, <1>4, <1>5

LEMMA ForceFinishKeeps == TurnInv /\ ForceFinish => TurnInv'
  <1> SUFFICES ASSUME TurnInv, ForceFinish PROVE TurnInv'
    OBVIOUS
  <1> USE DEF TurnInv, ForceFinish, guard, history
  <1>1. TypeOK'
    <2>1. llmCalls' \in Nat
      BY DEF TypeOK
    <2> QED
      BY <2>1, TextsAreTexts, Zenon DEF TypeOK
  <1>2. PhaseInv' /\ CostInv'
    BY ReactAssumption DEF PhaseInv, Working, CostInv, TypeOK
  <1>3. GuardInv'
    BY DEF GuardInv
  <1>4. ReplyInv' /\ ShortcutIsFresh'
    BY DEF ReplyInv, ShortcutIsFresh, NoText, TimeoutMsg, Text
  <1>5. TraceMatchesReply'
    BY DEF TraceMatchesReply, ReplyInv, NoText, Text
  <1> QED
    BY <1>1, <1>2, <1>3, <1>4, <1>5

LEMMA CloseKeeps == TurnInv /\ Close => TurnInv'
  <1> SUFFICES ASSUME TurnInv, Close PROVE TurnInv'
    OBVIOUS
  <1> USE DEF TurnInv, Close, guard, history
  <1>1. TypeOK'
    BY Zenon DEF TypeOK
  <1>2. PhaseInv' /\ CostInv'
    BY ReactAssumption DEF PhaseInv, Working, CostInv, TypeOK
  <1>3. GuardInv'
    BY DEF GuardInv
  <1>4. ReplyInv' /\ ShortcutIsFresh'
    BY DEF ReplyInv, ShortcutIsFresh
  <1>5. TraceMatchesReply'
    BY DEF TraceMatchesReply, ReplyInv, NoText, Text
  <1> QED
    BY <1>1, <1>2, <1>3, <1>4, <1>5

LEMMA SendReplyKeeps == TurnInv /\ SendReply => TurnInv'
  <1> SUFFICES ASSUME TurnInv, SendReply PROVE TurnInv'
    OBVIOUS
  <1> USE DEF TurnInv, SendReply, guard, history
  <1>1. TypeOK'
    <2>1. NumbersOK'
      BY ReactAssumption DEF NumbersOK
    <2> QED
      BY <2>1, TextsAreTexts, OutputsAreOutputs, RespsAreResponses, Zenon DEF TypeOK, NumbersOK
  <1>2. PhaseInv' /\ CostInv' /\ GuardInv'
    BY DEF PhaseInv, Working, CostInv, GuardInv, CallSeqs
  <1>3. ReplyInv' /\ ShortcutIsFresh' /\ TraceMatchesReply'
    BY DEF ReplyInv, ShortcutIsFresh, TraceMatchesReply
  <1> QED
    BY <1>1, <1>2, <1>3

LEMMA CacheExpiresKeeps == TurnInv /\ CacheExpires => TurnInv'
  <1> SUFFICES ASSUME TurnInv, CacheExpires PROVE TurnInv'
    OBVIOUS
  <1> USE DEF TurnInv, CacheExpires, guard, history
  <1>1. TypeOK'
    BY TextsAreTexts, Zenon DEF TypeOK
  <1>2. PhaseInv' /\ CostInv' /\ GuardInv'
    BY DEF PhaseInv, Working, CostInv, GuardInv
  <1>3. ReplyInv' /\ ShortcutIsFresh' /\ TraceMatchesReply'
    BY DEF ReplyInv, ShortcutIsFresh, TraceMatchesReply
  <1> QED
    BY <1>1, <1>2, <1>3

-----------------------------------------------------------------------------
(* After a round of tools that does not stop the turn the guard has counted *)
(* it; whether or not it stops, the counters are in their ranges.           *)
LEMMA RoundCounted ==
  ASSUME TurnInv, ToolRound
  PROVE  /\ resp.calls \in CallSeqs /\ last' = resp.calls
         /\ prevSig' \in Calls \cup {NoSig} /\ prevName' \in Names \cup {NoSig}
         /\ dupCount' \in 0 .. 2 /\ nameRepeat' \in 0 .. NameRepeatMax
         /\ ~Stuck => IF Len(last') = 1
                      THEN /\ prevSig' = last'[1] /\ prevName' = last'[1][1]
                           /\ dupCount' \in 0 .. 1 /\ sameCall' = dupCount' + 1
                           /\ nameRepeat' \in 0 .. NameRepeatMax - 1
                           /\ sameTool' = nameRepeat' + 1
                      ELSE /\ prevSig' = NoSig /\ prevName' = NoSig
                           /\ dupCount' = 0 /\ sameCall' = 0
                           /\ nameRepeat' = 0 /\ sameTool' = 0
  <1>1. resp.calls \in CallSeqs
    BY RespsAreResponses DEF TurnInv, TypeOK, ToolRound
  <1>2. NoteCalls /\ RecordRound /\ last' = resp.calls
    BY DEF ToolRound, RecordRound
  <1>3. GuardInv /\ pc = "judge"
    BY DEF TurnInv, ToolRound
  <1>4. CASE Len(resp.calls) # 1
    BY <1>1, <1>2, <1>4, ReactAssumption DEF NoteCalls, RecordRound
  <1>5. CASE Len(resp.calls) = 1
    <2> DEFINE call == resp.calls[1]
    <2>1. call \in Calls /\ resp.calls = <<call>> /\ call[1] \in Names
          /\ call # NoSig /\ call[1] # NoSig
      BY <1>1, <1>5, OneCall
    <2>2. CASE Len(last) = 1
      <3>1. last = <<last[1]>> /\ last[1] \in Calls /\ last[1][1] \in Names
        BY <1>3, <2>2, OneCall DEF GuardInv
      <3>2. /\ prevSig = last[1] /\ prevName = last[1][1]
            /\ dupCount \in 0 .. 1 /\ sameCall = dupCount + 1
            /\ nameRepeat \in 0 .. NameRepeatMax - 1 /\ sameTool = nameRepeat + 1
        BY <1>3, <2>2 DEF GuardInv
      <3>3. resp.calls = last <=> SameSig
        BY <2>1, <3>1, <3>2 DEF SameSig
      <3>4. last[1][1] = call[1] <=> SameName
        BY <3>2 DEF SameName
      <3>5. CASE StuckOnCall
        BY <1>1, <1>2, <1>5, <2>1, <3>1, <3>2, <3>5, ReactAssumption
        DEF NoteCalls, Stuck, StuckOnCall
      <3>6. CASE ~StuckOnCall
        <4>1. /\ dupCount' = IF SameSig THEN dupCount + 1 ELSE 0
              /\ prevSig' = call /\ prevName' = call[1]
              /\ nameRepeat' = IF SameName THEN nameRepeat + 1 ELSE 0
              /\ sameCall' = IF SameSig THEN sameCall + 1 ELSE 1
              /\ sameTool' = IF SameName THEN sameTool + 1 ELSE 1
          BY <1>2, <1>5, <2>2, <3>3, <3>4, <3>6 DEF NoteCalls, RecordRound
        <4>2. SameSig => dupCount + 1 < 2
          BY <1>5, <3>2, <3>6 DEF StuckOnCall
        <4>3. ~Stuck /\ SameName => nameRepeat + 1 < NameRepeatMax
          BY <1>5, <3>2, <3>6, ReactAssumption DEF Stuck, StuckOnName
        <4> QED
          BY <1>1, <1>2, <1>5, <2>1, <3>2, <4>1, <4>2, <4>3, ReactAssumption
      <3> QED
        BY <3>5, <3>6
    <2>3. CASE Len(last) # 1
      <3>1. prevSig = NoSig /\ prevName = NoSig /\ dupCount = 0 /\ nameRepeat = 0
        BY <1>3, <2>3 DEF GuardInv
      <3>2. ~SameSig /\ ~SameName
        BY <2>1, <3>1 DEF SameSig, SameName
      <3>3. /\ dupCount' = 0 /\ prevSig' = call /\ prevName' = call[1] /\ nameRepeat' = 0
            /\ sameCall' = 1 /\ sameTool' = 1
        <4>1. resp.calls # last
          BY <1>5, <2>3
        <4> QED
          BY <1>2, <1>5, <2>3, <3>2, <4>1 DEF NoteCalls, RecordRound, StuckOnCall
      <3> QED
        BY <1>1, <1>2, <1>5, <2>1, <3>3, ReactAssumption
    <2> QED
      BY <2>2, <2>3
  <1> QED
    BY <1>4, <1>5

(* What the confirming call of a finished task leaves. *)
LEMMA Confirmed ==
  ASSUME TurnInv, pc = "judge", ConfirmTask
  PROVE  /\ watchdog' \in BOOLEAN
         /\ llmCalls' = llmCalls + 1
         /\ watchdog' => finalText' = TaskTimeoutMsg
         /\ ~watchdog' => finalText' = NoText \/ finalText' = Text("llm")
  <1>1. PICK r \in Responses :
          /\ finalText' = IF r.kind \in {"late", "failed_late"} THEN TaskTimeoutMsg
                          ELSE IF r.kind \in {"answer", "poor"} THEN Text("llm")
                          ELSE NoText
          /\ watchdog' = (r.kind \in {"late", "failed_late"})
    BY Zenon DEF ConfirmTask
  <1>2. watchdog' \in BOOLEAN
    BY <1>1, SMT
  <1>3. watchdog' => finalText' = TaskTimeoutMsg
    BY <1>1, Zenon
  <1>4. ~watchdog' => finalText' = NoText \/ finalText' = Text("llm")
    BY <1>1, Zenon
  <1> QED
    BY <1>2, <1>3, <1>4 DEF ConfirmTask

LEMMA ToolRoundKeeps == TurnInv /\ ToolRound => TurnInv'
  <1> SUFFICES ASSUME TurnInv, ToolRound PROVE TurnInv'
    OBVIOUS
  <1>1. /\ iteration \in 0 .. MaxIter - 1 /\ llmCalls \in 1 .. 2 * iteration + 2
        /\ finalText = NoText /\ watchdog = FALSE /\ trace = "running"
    BY ReactAssumption DEF TurnInv, TypeOK, PhaseInv, Working, CostInv, ToolRound
  <1>2. toolOutput' \in Outputs
    BY <1>1, OutputsAreOutputs, ReactAssumption DEF TurnInv, TypeOK, ToolRound, RunTools
  <1>3. Len(resp.calls) = 1 => toolOutput'.round = iteration + 1
    BY DEF ToolRound, RunTools
  <1>4. /\ simple' = simple /\ idx' = idx /\ trace' = trace /\ cache' = cache
        /\ resp' = NoResp /\ failedOver' = FALSE
    BY DEF ToolRound
  <1>5. \/ /\ Stuck /\ pc' = "close" /\ iteration' = iteration
           /\ finalText' = NoText /\ watchdog' = FALSE /\ llmCalls' = llmCalls
        \/ /\ ~Stuck /\ Shortcut(toolOutput') /\ pc' = "close" /\ iteration' = iteration
           /\ finalText' = ToolText
           /\ watchdog' = FALSE /\ llmCalls' = llmCalls
        \/ /\ ~Stuck /\ ConfirmTask /\ pc' = "close" /\ iteration' = iteration
        \/ /\ ~Stuck /\ iteration' = iteration + 1 /\ finalText' = NoText
           /\ watchdog' = FALSE /\ llmCalls' = llmCalls
           /\ pc' = IF iteration' < MaxIter THEN "call" ELSE "close"
    BY <1>1, <1>3 DEF ToolRound, Shortcut, MoreIterations, ToolText
  <1>6. TypeOK'
    <2>1. iteration' \in 0 .. MaxIter /\ llmCalls' \in Nat
      BY <1>1, <1>5, ReactAssumption DEF ConfirmTask
    <2>2. finalText' \in Texts /\ watchdog' \in BOOLEAN
      <3>1. ToolText \in Texts
        <4>1. iteration + 1 \in 1 .. MaxIter
          BY <1>1, ReactAssumption
        <4> QED
          BY <4>1, TextsAreTexts, Zenon DEF ToolText
      <3>2. NoText \in Texts /\ TaskTimeoutMsg \in Texts /\ Text("llm") \in Texts
        BY TextsAreTexts
      <3> QED
        BY <1>5, <3>1, <3>2, Confirmed, Zenon DEF ToolRound
    <2>3. pc' \in {"idle", "call", "judge", "close", "send"}
      BY <1>5
    <2> QED
      BY <1>2, <1>4, <2>1, <2>2, <2>3, RoundCounted, RespsAreResponses, Zenon
      DEF TurnInv, TypeOK
  <1>7. PhaseInv' /\ CostInv'
    <2>1. llmCalls' \in 1 .. 2 * iteration + 3
      BY <1>1, <1>5 DEF ConfirmTask
    <2> QED
      BY <1>1, <1>4, <1>5, <2>1, ReactAssumption DEF PhaseInv, Working, CostInv
  <1>8. GuardInv'
    BY <1>5, RoundCounted DEF GuardInv
  <1>9. ReplyInv'
    <2>1. CASE finalText' = NoText /\ watchdog' = FALSE
      BY <2>1 DEF ReplyInv, NoText, Text
    <2>2. CASE iteration' = iteration /\ Shortcut(toolOutput') /\ finalText' = ToolText
               /\ watchdog' = FALSE
      <3>1. Len(last') = 1 /\ last'[1][1] \in LocalTools
        BY <2>2, RoundCounted DEF Shortcut
      <3> QED
        BY <2>2, <3>1 DEF ReplyInv, ToolText, IsAnswer
    <2>3. CASE ConfirmTask
      <3>1. /\ watchdog' => finalText' = TaskTimeoutMsg
            /\ ~watchdog' => finalText' = NoText \/ finalText' = Text("llm")
        BY <2>3, Confirmed DEF ToolRound
      <3> QED
        BY <3>1 DEF ReplyInv, IsAnswer, NoText, TaskTimeoutMsg, Text
    <2> QED
      BY <1>5, <2>1, <2>2, <2>3
  <1>10. ShortcutIsFresh' /\ TraceMatchesReply'
    BY <1>5, <1>9 DEF ShortcutIsFresh, ReplyInv, TraceMatchesReply
  <1> QED
    BY <1>6, <1>7, <1>8, <1>9, <1>10 DEF TurnInv

-----------------------------------------------------------------------------
LEMMA TurnStepKeeps == TurnInv /\ [Next]_vars => TurnInv'
  <1> SUFFICES ASSUME TurnInv, [Next]_vars PROVE TurnInv'
    OBVIOUS
  <1>1. CASE UNCHANGED vars
    <2>1. TypeOK'
      BY <1>1, Zenon DEF TurnInv, TypeOK, vars, guard, history
    <2>2. PhaseInv' /\ CostInv' /\ GuardInv'
      BY <1>1 DEF TurnInv, PhaseInv, Working, CostInv, GuardInv, vars, guard, history
    <2>3. ReplyInv' /\ ShortcutIsFresh' /\ TraceMatchesReply'
      BY <1>1 DEF TurnInv, ReplyInv, ShortcutIsFresh, TraceMatchesReply, vars, guard, history
    <2> QED
      BY <2>1, <2>2, <2>3 DEF TurnInv
  <1> QED
    BY <1>1, BeginKeeps, CallLlmKeeps, FailoverKeeps, EndsKeep, CascadeKeeps, ToolRoundKeeps,
       ForceFinishKeeps, CloseKeeps, SendReplyKeeps, CacheExpiresKeeps DEF Next, TurnStep

LEMMA TurnCorrect == Spec => []TurnInv
  BY InitTurn, TurnStepKeeps, PTL DEF Spec

(* Every variable of a turn keeps to its type, the counters of the guard    *)
(* below the limits at which check_tool_dup stops the turn.                 *)
THEOREM TypeCorrect == Spec => []TypeOK
  <1>1. TurnInv => TypeOK
    BY DEF TurnInv
  <1> QED
    BY <1>1, TurnCorrect, PTL

(* A turn makes at most two calls of the LLM an iteration and one more, and *)
(* does not go on after three equal calls or NameRepeatMax + 1 calls of one *)
(* tool in a row (agent_loop.c:2017-2067 and 2408-2437).                    *)
THEOREM TurnsAreBounded == Spec => []TurnIsBounded
  <1>1. TurnInv => TurnIsBounded
    <2> SUFFICES ASSUME TurnInv PROVE CallsBounded /\ NoEndlessRepeat
      BY DEF TurnIsBounded
    <2>1. CallsBounded
      BY ReactAssumption DEF TurnInv, TypeOK, PhaseInv, Working, CostInv, CallsBounded
    <2>2. NoEndlessRepeat
      BY ReactAssumption DEF TurnInv, GuardInv, NoEndlessRepeat
    <2> QED
      BY <2>1, <2>2
  <1> QED
    BY <1>1, TurnCorrect, PTL

(* A reply taken from the tool_output buffer is the output of the turn's    *)
(* last round, one call of a local tool (agent_loop.c:2612-2618).           *)
THEOREM ShortcutsAreFresh == Spec => []ShortcutIsFresh
  <1>1. TurnInv => ShortcutIsFresh
    BY DEF TurnInv
  <1> QED
    BY <1>1, TurnCorrect, PTL

(* The trace of a turn is closed before its reply leaves, and its status is *)
(* that of the reply (agent_loop.c:2685-2695).                              *)
THEOREM TracesMatchReplies == Spec => []TraceMatchesReply
  <1>1. TurnInv => TraceMatchesReply
    BY DEF TurnInv
  <1> QED
    BY <1>1, TurnCorrect, PTL
=============================================================================
