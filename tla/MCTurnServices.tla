--------------------------- MODULE MCTurnServices ---------------------------
(***************************************************************************)
(* The TLC instance of what a turn of the agent uses: the router, the      *)
(* response cache and the threads of a tool round.  They share no state,   *)
(* so a behaviour follows the one of them that focus names; the variables  *)
(* of the others are Off.                                                  *)
(***************************************************************************)
EXTENDS Integers, Sequences, FiniteSets

CONSTANTS Count, Tiers, Profiles, MaxFailures, RecoverySec, DebounceSec, MaxBackoff,
          Bonuses, EditSlots, FailCap,            \* of LlmRouter
          CacheSlots, Prompts, Hash, TTL, MaxTime, \* of LlmCache
          PoolSlots, MaxCalls, ShortIds, LongIds, NoBuf \* of ToolRound

VARIABLES focus,
          backends, profile, rpc, complexity, idx, edit,
          slots, now, cpc, prompt, reply, stored,
          tpc, ids, i, inUse, text, output, thread, seen, results, runs

routerVars == <<backends, profile, rpc, complexity, idx, edit>>
cacheVars == <<slots, now, cpc, prompt, reply, stored>>
toolVars == <<tpc, ids, i, inUse, text, output, thread, seen, results, runs>>
vars == <<focus, routerVars, cacheVars, toolVars>>

R == INSTANCE LlmRouter WITH pc <- rpc
C == INSTANCE LlmCache WITH pc <- cpc, Slots <- CacheSlots
T == INSTANCE ToolRound WITH pc <- tpc, Slots <- PoolSlots

(* The scores of the router are at least 0 with the limits of llm_router.c: *)
(* four backends, failures up to the third; tiers are 0 to 3.               *)
ASSUME RouterAssumption ==
  /\ Count \in Nat /\ MaxFailures \in Nat \ {0}
  /\ 10 * (Count - 1) + 15 * (MaxFailures - 1) <= 100
  /\ Tiers \subseteq 0 .. 3 /\ 0 \in Tiers
  /\ Profiles \subseteq {"auto", "eco", "premium"}
  /\ RecoverySec \in Nat /\ DebounceSec \in Nat /\ MaxBackoff \in Nat /\ FailCap \in Nat
  /\ Bonuses \subseteq Nat /\ 0 \in Bonuses
  /\ EditSlots \subseteq 0 .. Count - 1

(* A hash of 0 stands for an empty slot: no prompt is taken to have it.     *)
ASSUME CacheAssumption ==
  /\ CacheSlots \subseteq Nat /\ CacheSlots # {}
  /\ 0 \notin Prompts /\ Hash \in [Prompts -> Nat \ {0}]
  /\ TTL \in Nat /\ MaxTime \in Nat

ASSUME PoolAssumption ==
  /\ MaxCalls \in Nat /\ ShortIds \cap LongIds = {}
  /\ NoBuf \notin T!Bufs /\ PoolSlots \cap T!HeapBufs = {}

Off == "off"
RouterOff == /\ backends = Off /\ profile = Off /\ rpc = Off
             /\ complexity = Off /\ idx = Off /\ edit = Off
CacheOff == /\ slots = Off /\ now = Off /\ cpc = Off
            /\ prompt = Off /\ reply = Off /\ stored = Off
ToolOff == /\ tpc = Off /\ ids = Off /\ i = Off /\ inUse = Off /\ text = Off
           /\ output = Off /\ thread = Off /\ seen = Off /\ results = Off /\ runs = Off

Init == \/ focus = "router" /\ R!Init /\ CacheOff /\ ToolOff
        \/ focus = "cache" /\ C!Init /\ RouterOff /\ ToolOff
        \/ focus = "tools" /\ T!Init /\ RouterOff /\ CacheOff

RouterStep == focus = "router" /\ R!Next /\ UNCHANGED <<focus, cacheVars, toolVars>>
CacheStep == focus = "cache" /\ C!Next /\ UNCHANGED <<focus, routerVars, toolVars>>
ToolStep(A) == focus = "tools" /\ A /\ UNCHANGED <<focus, routerVars, cacheVars>>

Next == RouterStep \/ CacheStep \/ ToolStep(T!Next)
Spec == /\ Init /\ [][Next]_vars
        /\ WF_vars(ToolStep(T!LoopStep))
        /\ \A t \in T!Tasks : WF_vars(ToolStep(T!ThreadStep(t)))

(* Each component keeps to its types. *)
TypesOK == /\ focus = "router" => R!TypeOK
           /\ focus = "cache" => C!TypeOK
           /\ focus = "tools" => T!TypeOK

(* The properties of the components, stated in their modules. *)
PickIsBest == focus = "router" => R!PickIsBest
RecoversInTime == focus = "router" => R!RecoversInTime
LastPutWins == focus = "cache" => C!LastPutWins
OutputsApart == focus = "tools" => T!BuffersPrivate /\ T!ResultsAreTheirOwn
EachIdAnsweredOnce == focus = "tools" => T!EachIdAnsweredOnce
RoundEnds == focus = "tools" => T!RoundEnds
-----------------------------------------------------------------------------
(* The values of the TLC run.  Seconds are scaled down; two backends reach  *)
(* every branch of the selection.  Two prompts collide, and there are more  *)
(* hashes than slots.  Three calls over two buffers of the pool take the    *)
(* heap fallback too.                                                       *)
CONSTANTS q1, q2, q3, q4
TwoCollide == [q \in {q1, q2, q3, q4} |-> IF q = q3 THEN 2 ELSE IF q = q4 THEN 3 ELSE 1]
=============================================================================
