----------------------------- MODULE LlmRouter -----------------------------
(***************************************************************************)
(* llm/llm_router.c together with its two users: the agent loop, which     *)
(* selects a backend, calls it and reports how that went                   *)
(* (core/agent_loop.c), and the shell commands that replace, clear and     *)
(* edit backends at any time (channels/cmd_llm.c).                         *)
(*                                                                         *)
(* The counters that only the status report reads are left out.  Epoch     *)
(* seconds are kept as distances from now: the age of the last failure and *)
(* the time a backoff has left.                                            *)
(***************************************************************************)
EXTENDS Integers, Sequences, FiniteSets

CONSTANTS Count,       \* LLM_ROUTER_MAX_BACKENDS
          Tiers,       \* cost tiers of the presets in use, within 0..3
          Profiles,    \* llm_route_profile_t in use
          MaxFailures, \* MAX_CONSECUTIVE_FAILURES
          RecoverySec, \* RECOVERY_INTERVAL_SEC
          DebounceSec, \* BACKOFF_DEBOUNCE_SEC
          MaxBackoff,  \* 60
          Bonuses,     \* bound: latency bonuses followed, within 0..9
          EditSlots,   \* bound: slots whose model is edited
          FailCap      \* bound: fail_count is not followed further

Slots == 0 .. Count - 1
None == -1
Complexities == {"simple", "medium", "complex"}

VARIABLES backends,   \* s_backends
          profile,    \* s_profile
          pc,         \* the agent loop: "idle", "called", "retried"
          complexity, \* of the request being answered
          idx,        \* router_idx
          edit        \* router_model's copy of a backend, and its slot

vars == <<backends, profile, pc, complexity, idx, edit>>

Cap(n, cap) == IF n > cap THEN cap ELSE n

(* enabled stands for enabled with a host; since is capped at RecoverySec, *)
(* an age at which nothing more depends on it; fast for avg_latency_ms     *)
(* (0: none or slow).                                                      *)
Fresh(tier) == [enabled |-> TRUE, tier |-> tier, fail |-> 0, since |-> RecoverySec,
                backoff |-> 0, fast |-> 0]
Empty == [Fresh(0) EXCEPT !.enabled = FALSE]
NoEdit == [slot |-> None, copy |-> Empty]

Init ==
  /\ backends \in [Slots -> {Empty} \cup {Fresh(t) : t \in Tiers}]
  /\ profile \in Profiles
  /\ pc = "idle" /\ complexity = "simple" /\ idx = None
  /\ edit = NoEdit

-----------------------------------------------------------------------------
(* router_select_internal *)
Score(b, i, c, p) ==
  100 - i * 10
    + (IF p = "eco" THEN (3 - b.tier) * 30
       ELSE IF p = "premium" THEN b.tier * 30
       ELSE IF \/ c = "simple" /\ b.tier <= 1
               \/ c = "medium" /\ b.tier = 1
               \/ c = "complex" /\ b.tier >= 2 THEN 20 ELSE 0)
    - b.fail * 15 + b.fast

RecoversNever_Mut(b) == FALSE

(* Auto-recovery: disabled long enough *)
Recovers(b) == b.fail >= MaxFailures /\ b.since >= RecoverySec

Scanned(b) == b.enabled /\ b.backoff = 0
AfterScan(b) == IF Scanned(b) /\ Recovers(b) THEN [b EXCEPT !.fail = 0] ELSE b

SkipBackoff_Mut(b) == b.enabled /\ (Recovers(b) \/ b.fail < MaxFailures)
Eligible(b) == Scanned(b) /\ (Recovers(b) \/ b.fail < MaxFailures)

(* One turn of the loop over the slots, with the best eligible backend and  *)
(* the backed off one that recovers soonest so far.                         *)
ScanStart == [best |-> None, score |-> -1, fallback |-> None, until |-> MaxBackoff + 1]
ScanSlot(bs, c, p, i, s) ==
  LET b == bs[i]
      sc == Score(AfterScan(b), i, c, p)
  IN IF b.enabled /\ b.backoff > 0 /\ b.backoff < s.until
       THEN [s EXCEPT !.fallback = i, !.until = b.backoff]
     ELSE IF Eligible(b) /\ sc > s.score
       THEN [s EXCEPT !.best = i, !.score = sc]
     ELSE s

Scan(bs, c, p) ==
  LET upTo[n \in 0 .. Count] ==
        IF n = 0 THEN ScanStart ELSE ScanSlot(bs, c, p, n - 1, upTo[n - 1])
  IN upTo[Count]

Pick(bs, c, p) ==
  LET s == Scan(bs, c, p) IN IF s.best # None THEN s.best ELSE s.fallback

(* Selection recovers every scanned backend that is due, chosen or not.     *)
Select(bs, c, p) == [i \in Slots |-> AfterScan(bs[i])]

-----------------------------------------------------------------------------
Shifted == <<1, 2, 4, 8, 16, 32>>  \* 1u << shift
Delay(fail) == 2 * Shifted[Cap(fail - 2, 5) + 1]

NoLimit_Mut(fail) == IF fail < 2 THEN 0 ELSE Delay(fail)

(* 2 s after the second failure in a row, doubling up to a limit *)
Backoff(fail) == IF fail < 2 THEN 0 ELSE Cap(Delay(fail), MaxBackoff)

(* Failures close together count once *)
Counts(b) == b.since >= DebounceSec

Failed(b) ==
  LET n == IF Counts(b) THEN Cap(b.fail + 1, FailCap) ELSE b.fail
  IN [b EXCEPT !.fail = n, !.since = 0, !.backoff = Backoff(n)]

(* report_success and report_latency *)
Succeeded(b, fast) ==
  [b EXCEPT !.fail = 0, !.backoff = 0, !.fast = fast]

Done == pc' = "idle" /\ idx' = None /\ complexity' = "simple"

(* A request arrives and is routed *)
Begin ==
  /\ pc = "idle"
  /\ complexity' \in Complexities
  /\ idx' = Pick(backends, complexity', profile)
  /\ backends' = Select(backends, complexity', profile)
  /\ pc' = "called"
  /\ UNCHANGED <<profile, edit>>

(* The call fails: the failure is reported and the router asked again *)
CallFails ==
  /\ pc = "called" /\ idx # None
  /\ LET bs == [backends EXCEPT ![idx] = Failed(@)]
         next == Pick(bs, complexity, profile)
     IN /\ backends' = Select(bs, complexity, profile)
        /\ IF next # None /\ next # idx
           THEN pc' = "retried" /\ idx' = next /\ UNCHANGED complexity
           ELSE Done
  /\ UNCHANGED <<profile, edit>>

(* An unrouted call, and the failure of the second choice, report nothing *)
Unreported ==
  /\ pc \in {"retried", "called"}
  /\ pc = "called" => idx = None
  /\ Done
  /\ UNCHANGED <<backends, profile, edit>>

(* A successful call ends the request, or asks for tools and another call, *)
(* or its answer is poor and a premium backend is tried.                   *)
CallSucceeds ==
  /\ pc \in {"called", "retried"} /\ idx # None
  /\ \E fast \in Bonuses :
       LET bs == [backends EXCEPT ![idx] = Succeeded(@, fast)]
       IN \/ backends' = bs /\ Done
          \/ backends' = bs /\ pc' = "called" /\ UNCHANGED <<idx, complexity>>
          \/ /\ profile = "auto" /\ complexity = "simple"
             /\ backends' = Select(bs, "medium", "premium")
             /\ Done  \* the outcome of the premium call is not reported
  /\ UNCHANGED <<profile, edit>>

-----------------------------------------------------------------------------
(* The shell: router_set, router_clear, router_model, router profile.       *)
(* set_backend stores what it is given and clears the failure count.        *)
SetBackend(i, b) == backends' = [backends EXCEPT ![i] = [b EXCEPT !.fail = 0]]

RouterSet ==
  /\ \E i \in Slots, t \in Tiers :
       /\ \A j \in 0 .. i - 1 : backends[j].enabled
       /\ SetBackend(i, Fresh(t))
  /\ UNCHANGED <<profile, pc, complexity, idx, edit>>

RouterClear ==
  /\ \E i \in Slots : SetBackend(i, Empty)
  /\ UNCHANGED <<profile, pc, complexity, idx, edit>>

(* router_model reads a backend and writes it back with another model *)
ModelReads ==
  /\ edit = NoEdit
  /\ \E i \in EditSlots : backends[i].enabled /\ edit' = [slot |-> i, copy |-> backends[i]]
  /\ UNCHANGED <<backends, profile, pc, complexity, idx>>

ModelWrites ==
  /\ edit # NoEdit
  /\ SetBackend(edit.slot, edit.copy)
  /\ edit' = NoEdit
  /\ UNCHANGED <<profile, pc, complexity, idx>>

SetProfile ==
  /\ profile' \in Profiles
  /\ UNCHANGED <<backends, pc, complexity, idx, edit>>

Later(b) == [b EXCEPT !.since = Cap(@ + 1, RecoverySec),
                      !.backoff = IF @ = 0 THEN 0 ELSE @ - 1]

(* A second passes.  The copy holds epoch times too and ages with the rest. *)
Tick ==
  /\ backends' = [i \in Slots |-> Later(backends[i])]
  /\ edit' = [edit EXCEPT !.copy = Later(@)]
  /\ UNCHANGED <<profile, pc, complexity, idx>>

Shell == RouterSet \/ RouterClear \/ ModelReads \/ ModelWrites \/ SetProfile
Request == Begin \/ CallFails \/ Unreported \/ CallSucceeds
Next == Request \/ Shell \/ Tick

(* Time passes *)
Spec == Init /\ [][Next]_vars /\ WF_vars(Tick)
-----------------------------------------------------------------------------
BackendType ==
  [enabled : BOOLEAN, tier : 0 .. 3, fail : 0 .. FailCap, since : 0 .. RecoverySec,
   backoff : 0 .. MaxBackoff, fast : Bonuses]

TypeOK ==
  /\ backends \in [Slots -> BackendType]
  /\ profile \in Profiles
  /\ pc \in {"idle", "called", "retried"}
  /\ complexity \in Complexities
  /\ idx \in Slots \cup {None}
  /\ edit \in [slot : Slots \cup {None}, copy : BackendType]

(* What the loop of router_select_internal picks, stated without a loop: an *)
(* eligible backend no other one beats, earlier slots winning ties; without *)
(* one, the backed off backend that recovers soonest; else none.            *)
IsPick(i, c, p) ==
  LET el == {j \in Slots : /\ backends[j].enabled /\ backends[j].backoff = 0
                           /\ \/ backends[j].fail < MaxFailures
                              \/ backends[j].since >= RecoverySec}
      backedOff == {j \in Slots : backends[j].enabled /\ backends[j].backoff > 0}
      sc(j) == Score(AfterScan(backends[j]), j, c, p)
      wait(j) == backends[j].backoff
  IN IF el # {}
     THEN i \in el /\ \A j \in el : sc(j) < sc(i) \/ (sc(j) = sc(i) /\ j >= i)
     ELSE IF backedOff # {}
     THEN i \in backedOff /\ \A j \in backedOff : wait(j) > wait(i) \/ (wait(j) = wait(i) /\ j >= i)
     ELSE i = None
PickIsBest ==
  \A c \in Complexities, p \in {"auto", "eco", "premium"} : IsPick(Pick(backends, c, p), c, p)

(* However a backend failed, RecoverySec after its last failure the router  *)
(* has a backend to offer again (llm_router.c:351-360).                     *)
RecoversInTime ==
  (\E i \in Slots : backends[i].enabled /\ backends[i].since = RecoverySec
                      /\ backends[i].backoff = 0)
    => Pick(backends, complexity, profile) # None
=============================================================================
