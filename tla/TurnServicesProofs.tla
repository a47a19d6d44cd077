------------------------- MODULE TurnServicesProofs -------------------------
(***************************************************************************)
(* Proofs about the router, the response cache and the threads of a tool   *)
(* round, as they are composed in MCTurnServices, for any values of their  *)
(* constants.                                                              *)
(***************************************************************************)
EXTENDS MCTurnServices, FiniteSetTheorems, SequenceTheorems, WellFoundedInduction, TLAPS

(* The least element of a set of numbers: the one induction that the proofs *)
(* below need.                                                             *)
LEMMA HasLeast ==
  ASSUME NEW S \in SUBSET Nat, S # {}
  PROVE  \E n \in S : \A m \in S : n <= m
  <1> DEFINE Below == {p \in Nat \X Nat : p[1] < p[2]}
  <1>1. IsWellFoundedOn(Below, Nat)
    <2>1. OpToRel(<, Nat) = Below
      BY DEF OpToRel
    <2> QED
      BY <2>1, NatLessThanWellFounded
  <1>0. \A m, n \in Nat : <<m, n>> \in Below <=> m < n
    OBVIOUS
  <1> HIDE DEF Below
  <1>2. \E n \in S : \A m \in S : <<m, n>> \notin Below
    BY <1>1, WFMin
  <1>3. PICK least \in S : \A m \in S : <<m, least>> \notin Below
    BY <1>2
  <1>4. least \in Nat
    OBVIOUS
  <1>5. ASSUME NEW m \in S PROVE least <= m
    <2>1. m \in Nat /\ ~(m < least)
      BY <1>0, <1>3, <1>4
    <2> QED
      BY <1>4, <2>1
  <1> QED
    BY <1>5

-----------------------------------------------------------------------------
(* The cache *)
LEMMA LeastIs ==
  ASSUME NEW S \in SUBSET CacheSlots, S # {}
  PROVE  C!Least(S) \in S /\ \A j \in S : C!Least(S) <= j
  BY HasLeast, CacheAssumption DEF C!Least

HashesApart ==
  \A k, j \in CacheSlots : slots[k].hash = slots[j].hash /\ slots[k].hash # 0 => k = j
HeldIsStored ==
  \A k \in CacheSlots : slots[k].response # C!NoReply =>
    /\ slots[k].hash \in C!Hashes
    /\ stored[slots[k].hash] = [response |-> slots[k].response, ts |-> slots[k].ts]
StoredIsHeld ==
  \A h \in C!Hashes : stored[h] # C!Never => \E k \in CacheSlots : C!Holds(k, h)

(* No two slots have a hash in common, a full slot holds what was last      *)
(* stored under its hash, and what is stored is in a slot.                  *)
CacheInv ==
  /\ C!TypeOK
  /\ stored \in [C!Hashes -> [response : C!Responses, ts : 0 .. MaxTime]]
  /\ cpc = "answered" => reply # C!NoReply
  /\ HashesApart /\ HeldIsStored /\ StoredIsHeld

(* The slot that llm_cache_put overwrites is the one with the hash, if      *)
(* there is one.                                                            *)
LEMMA TargetIs ==
  ASSUME CacheInv, NEW h \in C!Hashes
  PROVE  /\ C!Target(h) \in CacheSlots
         /\ \A k \in CacheSlots : slots[k].hash = h => k = C!Target(h)
  <1>1. h # 0 /\ slots \in [CacheSlots -> [hash : C!Hashes \cup {0}, response : C!Responses, ts : 0 .. MaxTime]]
    BY CacheAssumption DEF C!Hashes, CacheInv, C!TypeOK
  <1> DEFINE same == {k \in CacheSlots : slots[k].hash = h}
             oldest == {k \in CacheSlots : \A j \in CacheSlots : slots[k].ts <= slots[j].ts}
  <1>2. CASE same # {}
    <2>1. C!Target(h) = C!Least(same)
      BY <1>2 DEF C!Target
    <2>2. C!Least(same) \in same
      BY <1>2, LeastIs
    <2> QED
      BY <1>1, <2>1, <2>2 DEF CacheInv, HashesApart
  <1>3. CASE same = {}
    <2>1. C!Target(h) = C!Least(oldest)
      BY <1>3 DEF C!Target
    <2>2. oldest # {}
      <3> DEFINE times == {slots[k].ts : k \in CacheSlots}
      <3>1. times \in SUBSET Nat /\ times # {}
        <4>1. \A k \in CacheSlots : slots[k].ts \in Nat
          BY <1>1, CacheAssumption
        <4> QED
          BY <4>1, CacheAssumption
      <3>2. PICK t \in times : \A u \in times : t <= u
        BY <3>1, HasLeast
      <3> QED
        BY <3>2
    <2>3. C!Least(oldest) \in oldest
      BY <2>2, LeastIs
    <2> QED
      BY <1>3, <2>1, <2>3
  <1> QED
    BY <1>2, <1>3

CacheTypes ==
  /\ slots \in [CacheSlots -> [hash : C!Hashes \cup {0}, response : C!Responses, ts : 0 .. MaxTime]]
  /\ stored \in [C!Hashes -> [response : C!Responses, ts : 0 .. MaxTime]]
  /\ now \in 0 .. MaxTime /\ prompt \in Prompts /\ reply \in C!Responses

LEMMA CacheTyped ==
  ASSUME CacheInv
  PROVE  CacheTypes /\ cpc \in {"idle", "answered"}
  BY DEF CacheInv, C!TypeOK, CacheTypes

LEMMA HashIs ==
  ASSUME NEW p \in Prompts
  PROVE  Hash[p] \in C!Hashes /\ Hash[p] # 0 /\ 0 \notin C!Hashes
  BY CacheAssumption DEF C!Hashes

LEMMA AnswerIs ==
  ASSUME NEW p \in Prompts, NEW t \in 0 .. MaxTime
  PROVE  [to |-> p, at |-> t] \in C!Responses /\ [to |-> p, at |-> t] # C!NoReply
  BY CacheAssumption DEF C!Responses, C!NoReply

LEMMA NoReplyIs == C!NoReply \in C!Responses
  BY DEF C!Responses

LEMMA InitCache == C!Init => CacheInv
  <1> SUFFICES ASSUME C!Init PROVE CacheInv
    OBVIOUS
  <1>1. CacheTypes /\ cpc = "idle"
    BY NoReplyIs, CacheAssumption DEF C!Init, CacheTypes, C!EmptySlot, C!Never
  <1>2. /\ \A k \in CacheSlots : slots[k].hash = 0 /\ slots[k].response = C!NoReply
        /\ \A h \in C!Hashes : stored[h] = C!Never
    BY DEF C!Init, C!EmptySlot
  <1> QED
    BY <1>1, <1>2 DEF CacheInv, C!TypeOK, CacheTypes, HashesApart, HeldIsStored, StoredIsHeld

LEMMA AskKeeps == CacheInv /\ C!Ask => CacheInv'
  <1> SUFFICES ASSUME CacheInv, C!Ask PROVE CacheInv'
    OBVIOUS
  <1> DEFINE h == Hash[prompt']
             hits == {k \in CacheSlots : C!Holds(k, h)}
             at == C!Least(hits)
             answer == [to |-> prompt', at |-> now]
  <1>1. /\ CacheTypes /\ prompt' \in Prompts /\ now' = now /\ cpc' = "answered"
        /\ h \in C!Hashes /\ h # 0 /\ 0 \notin C!Hashes
        /\ answer \in C!Responses /\ answer # C!NoReply
    BY CacheTyped, HashIs, AnswerIs DEF C!Ask, CacheTypes
  <1>2. CASE slots' = slots /\ stored' = stored /\ reply' \in C!Responses /\ reply' # C!NoReply
    BY <1>1, <1>2 DEF CacheInv, CacheTypes, C!TypeOK, HashesApart, HeldIsStored, StoredIsHeld, C!Holds
  <1>3. CASE hits = {}
    BY <1>1, <1>2, <1>3 DEF C!Ask
  <1>4. CASE hits # {}
    <2>1. at \in CacheSlots /\ slots[at].hash = h /\ slots[at].response # C!NoReply
      BY <1>4, LeastIs DEF C!Holds
    <2>2. CASE ~C!Expired(at)
      <3>1. reply' \in {slots[at].response, answer} /\ slots' = slots /\ stored' = stored
        BY <1>4, <2>2 DEF C!Ask
      <3> QED
        BY <1>1, <1>2, <2>1, <3>1 DEF CacheTypes
    <2>3. CASE C!Expired(at)
      <3>1. /\ slots' = [slots EXCEPT ![at].response = C!NoReply, ![at].hash = 0]
            /\ stored' = [stored EXCEPT ![h] = C!Never]
            /\ reply' = answer
        BY <1>4, <2>3 DEF C!Ask
      <3>2. /\ slots'[at].response = C!NoReply /\ slots'[at].hash = 0
            /\ \A k \in CacheSlots \ {at} : slots'[k] = slots[k]
            /\ stored'[h] = C!Never
            /\ \A g \in C!Hashes \ {h} : stored'[g] = stored[g]
        BY <1>1, <2>1, <3>1 DEF CacheTypes
      <3>3. CacheTypes'
        <4>1. C!Never \in [response : C!Responses, ts : 0 .. MaxTime]
          BY NoReplyIs, CacheAssumption DEF C!Never
        <4>2. stored' \in [C!Hashes -> [response : C!Responses, ts : 0 .. MaxTime]]
          BY <1>1, <3>1, <4>1 DEF CacheTypes
        <4>3. slots' \in [CacheSlots ->
                           [hash : C!Hashes \cup {0}, response : C!Responses, ts : 0 .. MaxTime]]
          BY <1>1, <2>1, <3>1, NoReplyIs DEF CacheTypes
        <4> QED
          BY <1>1, <3>1, <4>2, <4>3 DEF CacheTypes
      <3>4. HashesApart'
        <4> SUFFICES ASSUME NEW k \in CacheSlots, NEW j \in CacheSlots,
                            slots'[k].hash = slots'[j].hash, slots'[k].hash # 0
                     PROVE  k = j
          BY DEF HashesApart
        <4>1. slots'[k] = slots[k] /\ slots'[j] = slots[j]
          BY <3>2
        <4> QED
          BY <4>1 DEF CacheInv, HashesApart
      <3>5. HeldIsStored'
        <4> SUFFICES ASSUME NEW k \in CacheSlots, slots'[k].response # C!NoReply
                     PROVE  /\ slots'[k].hash \in C!Hashes
                            /\ stored'[slots'[k].hash] = [response |-> slots'[k].response, ts |-> slots'[k].ts]
          BY DEF HeldIsStored
        <4>1. k # at /\ slots'[k] = slots[k]
          BY <3>2
        <4>2. slots[k].hash # h
          BY <1>1, <2>1, <4>1 DEF CacheInv, HashesApart
        <4> QED
          BY <3>2, <4>1, <4>2 DEF CacheInv, HeldIsStored
      <3>6. StoredIsHeld'
        <4> SUFFICES ASSUME NEW g \in C!Hashes, stored'[g] # C!Never
                     PROVE  \E k \in CacheSlots : slots'[k].hash = g /\ slots'[k].response # C!NoReply
          BY DEF StoredIsHeld, C!Holds
        <4>1. g # h /\ stored[g] # C!Never
          BY <3>2
        <4>2. PICK k \in CacheSlots : slots[k].hash = g /\ slots[k].response # C!NoReply
          BY <4>1 DEF CacheInv, StoredIsHeld, C!Holds
        <4> QED
          BY <2>1, <3>2, <4>1, <4>2
      <3> QED
        BY <1>1, <3>1, <3>3, <3>4, <3>5, <3>6 DEF CacheInv, CacheTypes, C!TypeOK
    <2> QED
      BY <2>2, <2>3
  <1> QED
    BY <1>3, <1>4

(* What a put that succeeds, and one whose strdup fails, do to the slots    *)
(* and to what counts as stored.                                            *)
LEMMA PutKeeps == CacheInv /\ C!Put => CacheInv'
  <1> SUFFICES ASSUME CacheInv, C!Put PROVE CacheInv'
    OBVIOUS
  <1> DEFINE h == Hash[prompt]
             t == C!Target(h)
             evicted == slots[t].hash
             forget == IF evicted \in C!Hashes THEN [stored EXCEPT ![evicted] = C!Never] ELSE stored
  <1>1. /\ CacheTypes /\ h \in C!Hashes /\ h # 0 /\ 0 \notin C!Hashes
        /\ t \in CacheSlots /\ \A k \in CacheSlots : slots[k].hash = h => k = t
        /\ now' = now /\ prompt' = prompt /\ cpc' = "idle" /\ reply' = C!NoReply
        /\ reply \in C!Responses /\ reply # C!NoReply
    BY CacheTyped, HashIs, TargetIs DEF C!Put, CacheTypes, CacheInv
  <1>2. /\ forget \in [C!Hashes -> [response : C!Responses, ts : 0 .. MaxTime]]
        /\ \A g \in C!Hashes : forget[g] = IF g = evicted THEN C!Never ELSE stored[g]
    <2>1. C!Never \in [response : C!Responses, ts : 0 .. MaxTime]
      BY NoReplyIs, CacheAssumption DEF C!Never
    <2> QED
      BY <1>1, <2>1 DEF CacheTypes
  <1>3. \A k \in CacheSlots \ {t} : slots[k].hash # 0 => slots[k].hash # evicted
    BY <1>1 DEF CacheInv, HashesApart
  <1> HIDE DEF forget
  <1>4. ASSUME slots' = [slots EXCEPT ![t] = [hash |-> h, response |-> reply, ts |-> now]],
               stored' = [forget EXCEPT ![h] = [response |-> reply, ts |-> now]]
        PROVE  CacheInv'
    <2>1. /\ slots'[t] = [hash |-> h, response |-> reply, ts |-> now]
          /\ \A k \in CacheSlots \ {t} : slots'[k] = slots[k]
          /\ stored'[h] = [response |-> reply, ts |-> now]
          /\ \A g \in C!Hashes \ {h} : stored'[g] = forget[g]
      BY <1>1, <1>2, <1>4 DEF CacheTypes
    <2>2. CacheTypes'
      <3>1. [response |-> reply, ts |-> now] \in [response : C!Responses, ts : 0 .. MaxTime]
        BY <1>1 DEF CacheTypes
      <3>2. [hash |-> h, response |-> reply, ts |-> now]
              \in [hash : C!Hashes \cup {0}, response : C!Responses, ts : 0 .. MaxTime]
        BY <1>1 DEF CacheTypes
      <3> QED
        BY <1>1, <1>2, <1>4, <3>1, <3>2, NoReplyIs DEF CacheTypes
    <2>3. HashesApart'
      <3> SUFFICES ASSUME NEW k \in CacheSlots, NEW j \in CacheSlots,
                          slots'[k].hash = slots'[j].hash, slots'[k].hash # 0
                   PROVE  k = j
        BY DEF HashesApart
      <3>1. CASE k # t /\ j # t
        BY <2>1, <3>1 DEF CacheInv, HashesApart
      <3>2. CASE k = t \/ j = t
        BY <1>1, <2>1, <3>2
      <3> QED
        BY <3>1, <3>2
    <2>4. HeldIsStored'
      <3> SUFFICES ASSUME NEW k \in CacheSlots, slots'[k].response # C!NoReply
                   PROVE  /\ slots'[k].hash \in C!Hashes
                          /\ stored'[slots'[k].hash] = [response |-> slots'[k].response, ts |-> slots'[k].ts]
        BY DEF HeldIsStored
      <3>1. CASE k = t
        BY <1>1, <2>1, <3>1
      <3>2. CASE k # t
        <4>1. slots'[k] = slots[k]
          BY <2>1, <3>2
        <4>2. slots[k].hash \in C!Hashes /\ slots[k].hash # h /\ slots[k].hash # evicted
              /\ stored[slots[k].hash] = [response |-> slots[k].response, ts |-> slots[k].ts]
          BY <1>1, <1>3, <3>2, <4>1 DEF CacheInv, HeldIsStored
        <4> QED
          BY <1>2, <2>1, <4>1, <4>2
      <3> QED
        BY <3>1, <3>2
    <2>5. StoredIsHeld'
      <3> SUFFICES ASSUME NEW g \in C!Hashes, stored'[g] # C!Never
                   PROVE  \E k \in CacheSlots : slots'[k].hash = g /\ slots'[k].response # C!NoReply
        BY DEF StoredIsHeld, C!Holds
      <3>1. CASE g = h
        BY <1>1, <2>1, <3>1
      <3>2. CASE g # h
        <4>1. g # evicted /\ stored[g] # C!Never
          BY <1>2, <2>1, <3>2
        <4>2. PICK k \in CacheSlots : slots[k].hash = g /\ slots[k].response # C!NoReply
          BY <4>1 DEF CacheInv, StoredIsHeld, C!Holds
        <4> QED
          BY <2>1, <4>1, <4>2
      <3> QED
        BY <3>1, <3>2
    <2> QED
      BY <1>1, <2>2, <2>3, <2>4, <2>5 DEF CacheInv, CacheTypes, C!TypeOK
  <1>5. ASSUME slots' = [slots EXCEPT ![t].response = C!NoReply], stored' = forget
        PROVE  CacheInv'
    <2>1. /\ slots'[t].response = C!NoReply /\ slots'[t].hash = evicted
          /\ \A k \in CacheSlots \ {t} : slots'[k] = slots[k]
      BY <1>1, <1>5 DEF CacheTypes
    <2>2. CacheTypes'
      <3>1. slots' \in [CacheSlots ->
                         [hash : C!Hashes \cup {0}, response : C!Responses, ts : 0 .. MaxTime]]
        BY <1>1, <1>5, NoReplyIs DEF CacheTypes
      <3> QED
        BY <1>1, <1>2, <1>5, <3>1, NoReplyIs DEF CacheTypes
    <2>3. HashesApart'
      <3>1. \A k \in CacheSlots : slots'[k].hash = slots[k].hash
        BY <2>1
      <3> QED
        BY <3>1 DEF CacheInv, HashesApart
    <2>4. HeldIsStored'
      <3> SUFFICES ASSUME NEW k \in CacheSlots, slots'[k].response # C!NoReply
                   PROVE  /\ slots'[k].hash \in C!Hashes
                          /\ stored'[slots'[k].hash] = [response |-> slots'[k].response, ts |-> slots'[k].ts]
        BY DEF HeldIsStored
      <3>1. k # t /\ slots'[k] = slots[k]
        BY <2>1
      <3>2. slots[k].hash \in C!Hashes /\ slots[k].hash # evicted
            /\ stored[slots[k].hash] = [response |-> slots[k].response, ts |-> slots[k].ts]
        BY <1>1, <1>3, <3>1 DEF CacheInv, HeldIsStored
      <3> QED
        BY <1>2, <1>5, <3>1, <3>2
    <2>5. StoredIsHeld'
      <3> SUFFICES ASSUME NEW g \in C!Hashes, stored'[g] # C!Never
                   PROVE  \E k \in CacheSlots : slots'[k].hash = g /\ slots'[k].response # C!NoReply
        BY DEF StoredIsHeld, C!Holds
      <3>1. g # evicted /\ stored[g] # C!Never
        BY <1>2, <1>5
      <3>2. PICK k \in CacheSlots : slots[k].hash = g /\ slots[k].response # C!NoReply
        BY <3>1 DEF CacheInv, StoredIsHeld, C!Holds
      <3> QED
        BY <2>1, <3>1, <3>2
    <2> QED
      BY <1>1, <2>2, <2>3, <2>4, <2>5 DEF CacheInv, CacheTypes, C!TypeOK
  <1> QED
    BY <1>4, <1>5 DEF C!Put, C!PutFails, forget

LEMMA CacheStepKeeps == CacheInv /\ [C!Next]_(C!vars) => CacheInv'
  <1> SUFFICES ASSUME CacheInv, [C!Next]_(C!vars) PROVE CacheInv'
    OBVIOUS
  <1>1. ASSUME UNCHANGED <<slots, cpc, prompt, reply, stored>>, now' \in 0 .. MaxTime
        PROVE  CacheInv'
    BY <1>1 DEF CacheInv, C!TypeOK, HashesApart, HeldIsStored, StoredIsHeld, C!Holds
  <1>2. CASE C!Tick
    <2>1. now' \in 0 .. MaxTime
      BY <1>2, CacheTyped, CacheAssumption DEF CacheTypes, C!Tick
    <2> QED
      BY <1>1, <1>2, <2>1 DEF C!Tick
  <1>3. CASE C!SetClock
    BY <1>1, <1>3 DEF C!SetClock
  <1>4. CASE UNCHANGED C!vars
    BY <1>1, <1>4, CacheTyped DEF CacheTypes, C!vars
  <1> QED
    BY <1>2, <1>3, <1>4, AskKeeps, PutKeeps DEF C!Next

LEMMA CacheKeepsPromise == CacheInv => C!LastPutWins
  <1> SUFFICES ASSUME CacheInv PROVE C!LastPutWins
    OBVIOUS
  <1>1. \A k, j \in CacheSlots, h \in C!Hashes : C!Holds(k, h) /\ C!Holds(j, h) => k = j
    BY CacheAssumption DEF CacheInv, HashesApart, C!Holds, C!Hashes
  <1>2. \A k \in CacheSlots : slots[k].response # C!NoReply =>
          stored[slots[k].hash] = [response |-> slots[k].response, ts |-> slots[k].ts]
    BY DEF CacheInv, HeldIsStored
  <1>3. \A h \in C!Hashes : stored[h] # C!Never => \E k \in CacheSlots : C!Holds(k, h)
    BY DEF CacheInv, StoredIsHeld
  <1> QED
    BY <1>1, <1>2, <1>3, Zenon DEF C!LastPutWins

CacheFocusInv == focus = "cache" => CacheInv

LEMMA CacheFocusKeeps == CacheFocusInv /\ [Next]_vars => CacheFocusInv'
  <1> SUFFICES ASSUME CacheFocusInv, [Next]_vars, focus' = "cache" PROVE CacheInv'
    BY DEF CacheFocusInv
  <1>1. focus = "cache"
    BY DEF Next, RouterStep, CacheStep, ToolStep, vars
  <1>2. [C!Next]_(C!vars)
    BY <1>1 DEF Next, RouterStep, CacheStep, ToolStep, vars, cacheVars, C!vars
  <1> QED
    BY <1>1, <1>2, CacheStepKeeps DEF CacheFocusInv

LEMMA CacheCorrect == Spec => []CacheFocusInv
  <1>1. Init => CacheFocusInv
    BY InitCache DEF Init, CacheFocusInv
  <1> QED
    BY <1>1, CacheFocusKeeps, PTL DEF Spec

(* However entries expire, are evicted or fail to be stored and however the *)
(* clock jumps, a question is answered from at most one slot, and that slot *)
(* holds what was last put under its hash (llm_cache.c:105-150).            *)
THEOREM LastPutsWin == Spec => []LastPutWins
  <1>1. CacheFocusInv => LastPutWins
    BY CacheKeepsPromise DEF CacheFocusInv, LastPutWins
  <1> QED
    BY <1>1, CacheCorrect, PTL

-----------------------------------------------------------------------------
(* The router.  First, the loop of router_select_internal is what Scan      *)
(* says: a function that satisfies the recursion over the slots exists.     *)
LEMMA ScanUnfolds ==
  ASSUME NEW bs, NEW c, NEW p
  PROVE  \E f : /\ R!Scan(bs, c, p) = f[Count]
                /\ f[0] = R!ScanStart
                /\ \A n \in 1 .. Count : f[n] = R!ScanSlot(bs, c, p, n - 1, f[n - 1])
  <1> DEFINE Turn(n, f) == IF n = 0 THEN R!ScanStart ELSE R!ScanSlot(bs, c, p, n - 1, f[n - 1])
             Upto(m, f) == f = [n \in 0 .. m |-> Turn(n, f)]
             missing == {m \in 0 .. Count : ~ \E f : Upto(m, f)}
  <1>1. missing = {}
    <2> SUFFICES ASSUME missing # {} PROVE FALSE
      OBVIOUS
    <2>1. PICK m \in missing : \A k \in missing : m <= k
      <3>1. missing \in SUBSET Nat
        BY RouterAssumption
      <3> QED
        BY <3>1, HasLeast
    <2>2. CASE m = 0
      <3> DEFINE f == [n \in 0 .. 0 |-> R!ScanStart]
      <3>1. Upto(0, f)
        OBVIOUS
      <3> QED
        BY <2>2, <3>1
    <2>3. CASE m # 0
      <3>1. m \in 1 .. Count /\ m - 1 \in 0 .. Count /\ m - 1 \notin missing
        BY <2>1, <2>3, RouterAssumption
      <3>2. PICK g : Upto(m - 1, g)
        BY <3>1
      <3> DEFINE f == [n \in 0 .. m |-> IF n = m THEN R!ScanSlot(bs, c, p, m - 1, g[m - 1]) ELSE g[n]]
      <3>3. ASSUME NEW n \in 0 .. m PROVE f[n] = Turn(n, f)
        <4>1. CASE n = m
          BY <2>3, <3>1, <4>1
        <4>2. CASE n # m
          <5>1. n \in 0 .. m - 1 /\ f[n] = g[n] /\ (n # 0 => n - 1 \in 0 .. m - 1 /\ f[n - 1] = g[n - 1])
            BY <3>1, <4>2
          <5>2. g[n] = Turn(n, g)
            BY <3>2, <5>1
          <5> QED
            BY <5>1, <5>2
        <4> QED
          BY <4>1, <4>2
      <3>4. Upto(m, f)
        BY <3>3
      <3> QED
        BY <2>1, <3>4
    <2> QED
      BY <2>2, <2>3
  <1>2. \E f : Upto(Count, f)
    BY <1>1, RouterAssumption
  <1> DEFINE scan == CHOOSE f : Upto(Count, f)
  <1>3. Upto(Count, scan)
    BY <1>2
  <1>4. R!Scan(bs, c, p) = scan[Count]
    BY DEF R!Scan
  <1> HIDE DEF scan
  <1>5. scan[0] = R!ScanStart
    BY <1>3, RouterAssumption
  <1>6. \A n \in 1 .. Count : scan[n] = R!ScanSlot(bs, c, p, n - 1, scan[n - 1])
    BY <1>3, RouterAssumption
  <1> QED
    BY <1>4, <1>5, <1>6

AllProfiles == {"auto", "eco", "premium"}
Backends == [R!Slots -> R!BackendType]

LEMMA BackendFields ==
  ASSUME NEW b \in R!BackendType
  PROVE  /\ b.enabled \in BOOLEAN /\ b.tier \in 0 .. 3 /\ b.fail \in 0 .. FailCap
         /\ b.since \in 0 .. RecoverySec /\ b.backoff \in 0 .. MaxBackoff /\ b.fast \in Bonuses
  BY DEF R!BackendType

(* An eligible backend never scores below 0, so any one beats the start     *)
(* value of the loop.                                                       *)
LEMMA ScoreIs ==
  ASSUME NEW b \in R!BackendType, NEW k \in R!Slots, NEW c \in R!Complexities, NEW p \in AllProfiles
  PROVE  /\ R!Score(R!AfterScan(b), k, c, p) \in Int
         /\ R!Eligible(b) => R!Score(R!AfterScan(b), k, c, p) >= 0
  <1> DEFINE a == R!AfterScan(b)
             bonus == IF p = "eco" THEN (3 - a.tier) * 30
                      ELSE IF p = "premium" THEN a.tier * 30
                      ELSE IF \/ c = "simple" /\ a.tier <= 1
                              \/ c = "medium" /\ a.tier = 1
                              \/ c = "complex" /\ a.tier >= 2 THEN 20 ELSE 0
  <1>1. b.fail \in Nat /\ b.tier \in 0 .. 3 /\ b.fast \in Nat /\ b.backoff \in Nat /\ b.since \in Nat
    <2>1. FailCap \in Nat /\ RecoverySec \in Nat /\ MaxBackoff \in Nat /\ Bonuses \subseteq Nat
      BY RouterAssumption
    <2>2. \A m \in Nat : \A x \in 0 .. m : x \in Nat
      OBVIOUS
    <2>3. b.fail \in Nat /\ b.since \in Nat /\ b.backoff \in Nat
      BY <2>1, <2>2, BackendFields
    <2>4. b.tier \in 0 .. 3 /\ b.fast \in Nat
      BY <2>1, BackendFields, Zenon
    <2> QED
      BY <2>3, <2>4
  <1>2. /\ a.fail \in Nat /\ a.tier \in 0 .. 3 /\ a.fast \in Nat
        /\ R!Eligible(b) => a.fail <= MaxFailures - 1
    BY <1>1, RouterAssumption DEF R!AfterScan, R!Eligible, R!Scanned, R!Recovers, R!BackendType
  <1> HIDE DEF a
  <1>3. bonus \in Nat
    BY <1>2
  <1>4. R!Score(a, k, c, p) = 100 - k * 10 + bonus - a.fail * 15 + a.fast
    BY DEF R!Score
  <1> HIDE DEF bonus
  <1>5. k \in 0 .. Count - 1
    BY DEF R!Slots
  <1>6. R!Score(a, k, c, p) \in Int
    BY <1>2, <1>3, <1>4, <1>5, RouterAssumption
  <1>7. ASSUME R!Eligible(b) PROVE R!Score(a, k, c, p) >= 0
    BY <1>2, <1>3, <1>4, <1>5, <1>7, RouterAssumption
  <1> QED
    BY <1>6, <1>7 DEF a

(* What is known of the slots below n when the loop gets to slot n.         *)
EligibleBelow(bs, n) == {k \in R!Slots : k < n /\ R!Eligible(bs[k])}
BackedOffBelow(bs, n) == {k \in R!Slots : k < n /\ bs[k].enabled /\ bs[k].backoff > 0}
ScoreOf(bs, c, p, k) == R!Score(R!AfterScan(bs[k]), k, c, p)

BestSoFar(bs, c, p, n, s) ==
  IF EligibleBelow(bs, n) = {} THEN s.best = R!None /\ s.score = -1
  ELSE /\ s.best \in EligibleBelow(bs, n) /\ s.score = ScoreOf(bs, c, p, s.best)
       /\ \A k \in EligibleBelow(bs, n) :
            \/ ScoreOf(bs, c, p, k) < s.score
            \/ ScoreOf(bs, c, p, k) = s.score /\ k >= s.best
SoonestSoFar(bs, n, s) ==
  IF BackedOffBelow(bs, n) = {} THEN s.fallback = R!None /\ s.until = MaxBackoff + 1
  ELSE /\ s.fallback \in BackedOffBelow(bs, n) /\ s.until = bs[s.fallback].backoff
       /\ \A k \in BackedOffBelow(bs, n) :
            \/ bs[k].backoff > s.until
            \/ bs[k].backoff = s.until /\ k >= s.fallback
Scanning == [best : Int, score : Int, fallback : Int, until : Int]

LEMMA ScanSlotKeeps ==
  ASSUME NEW bs \in Backends, NEW c \in R!Complexities, NEW p \in AllProfiles,
         NEW n \in R!Slots, NEW s \in Scanning,
         BestSoFar(bs, c, p, n, s), SoonestSoFar(bs, n, s)
  PROVE  LET t == R!ScanSlot(bs, c, p, n, s)
         IN  t \in Scanning /\ BestSoFar(bs, c, p, n + 1, t) /\ SoonestSoFar(bs, n + 1, t)
  <1> DEFINE b == bs[n]
             sc == ScoreOf(bs, c, p, n)
             t == R!ScanSlot(bs, c, p, n, s)
             soonest == b.enabled /\ b.backoff > 0 /\ b.backoff < s.until
             best == R!Eligible(b) /\ sc > s.score
  <1>1. b \in R!BackendType /\ b.backoff \in Nat /\ b.backoff <= MaxBackoff
    BY RouterAssumption DEF Backends, R!BackendType
  <1>2. sc \in Int /\ (R!Eligible(b) => sc >= 0)
    BY <1>1, ScoreIs DEF ScoreOf
  <1>3. \A k \in R!Slots : k \in Int /\ (k < n + 1 <=> k < n \/ k = n) /\ ~(n < n)
    BY DEF R!Slots
  <1>4. R!Eligible(b) => ~(b.backoff > 0)
    BY <1>1 DEF R!Eligible, R!Scanned
  <1>5. t = IF soonest THEN [s EXCEPT !.fallback = n, !.until = b.backoff]
            ELSE IF best THEN [s EXCEPT !.best = n, !.score = sc] ELSE s
    BY DEF R!ScanSlot, ScoreOf
  <1>6. /\ EligibleBelow(bs, n + 1) = EligibleBelow(bs, n) \cup (IF R!Eligible(b) THEN {n} ELSE {})
        /\ BackedOffBelow(bs, n + 1) =
             BackedOffBelow(bs, n) \cup (IF b.enabled /\ b.backoff > 0 THEN {n} ELSE {})
    BY <1>3 DEF EligibleBelow, BackedOffBelow
  <1>7. /\ \A k \in EligibleBelow(bs, n) : k \in Int /\ k < n /\ ScoreOf(bs, c, p, k) \in Int
        /\ \A k \in BackedOffBelow(bs, n) : k \in Int /\ k < n /\ bs[k].backoff \in Nat
                                            /\ bs[k].backoff <= MaxBackoff
    BY <1>3, ScoreIs, RouterAssumption DEF EligibleBelow, BackedOffBelow, ScoreOf, Backends, R!BackendType
  <1> HIDE DEF sc, b
  <1>8. t \in Scanning
    <2>1. n \in Int /\ b.backoff \in Int /\ sc \in Int
      BY <1>1, <1>2, <1>3
    <2>2. CASE soonest
      BY <1>5, <2>1, <2>2 DEF Scanning
    <2>3. CASE ~soonest /\ best
      BY <1>5, <2>1, <2>3 DEF Scanning
    <2>4. CASE ~soonest /\ ~best
      BY <1>5, <2>4
    <2> QED
      BY <2>2, <2>3, <2>4
  <1>9. t.best = (IF best THEN n ELSE s.best) /\ t.score = (IF best THEN sc ELSE s.score)
    BY <1>4, <1>5 DEF Scanning
  <1>10. /\ t.fallback = (IF soonest THEN n ELSE s.fallback)
         /\ t.until = (IF soonest THEN b.backoff ELSE s.until)
    BY <1>5 DEF Scanning
  <1> HIDE DEF t
  <1>11. BestSoFar(bs, c, p, n + 1, t)
    <2>1. CASE EligibleBelow(bs, n) = {} /\ ~R!Eligible(b)
      BY <1>6, <1>9, <2>1 DEF BestSoFar
    <2>2. CASE EligibleBelow(bs, n) = {} /\ R!Eligible(b)
      BY <1>2, <1>3, <1>6, <1>9, <2>2 DEF BestSoFar, sc
    <2>3. CASE EligibleBelow(bs, n) # {} /\ ~best
      BY <1>2, <1>3, <1>6, <1>7, <1>9, <2>3 DEF BestSoFar, sc
    <2>4. CASE EligibleBelow(bs, n) # {} /\ best
      BY <1>2, <1>3, <1>6, <1>7, <1>9, <2>4 DEF BestSoFar, sc
    <2> QED
      BY <2>1, <2>2, <2>3, <2>4 DEF BestSoFar
  <1>12. SoonestSoFar(bs, n + 1, t)
    <2>1. CASE BackedOffBelow(bs, n) = {} /\ ~(b.enabled /\ b.backoff > 0)
      BY <1>6, <1>10, <2>1 DEF SoonestSoFar
    <2>2. CASE BackedOffBelow(bs, n) = {} /\ b.enabled /\ b.backoff > 0
      BY <1>1, <1>3, <1>6, <1>10, <2>2, RouterAssumption DEF SoonestSoFar, b
    <2>3. CASE BackedOffBelow(bs, n) # {} /\ ~soonest
      BY <1>1, <1>3, <1>6, <1>7, <1>10, <2>3 DEF SoonestSoFar, b
    <2>4. CASE BackedOffBelow(bs, n) # {} /\ soonest
      BY <1>1, <1>3, <1>6, <1>7, <1>10, <2>4 DEF SoonestSoFar, b
    <2> QED
      BY <2>1, <2>2, <2>3, <2>4
  <1> QED
    BY <1>8, <1>11, <1>12 DEF t

LEMMA ScanIs ==
  ASSUME NEW bs \in Backends, NEW c \in R!Complexities, NEW p \in AllProfiles
  PROVE  /\ BestSoFar(bs, c, p, Count, R!Scan(bs, c, p))
         /\ SoonestSoFar(bs, Count, R!Scan(bs, c, p))
  <1>1. PICK f : /\ R!Scan(bs, c, p) = f[Count]
                 /\ f[0] = R!ScanStart
                 /\ \A n \in 1 .. Count : f[n] = R!ScanSlot(bs, c, p, n - 1, f[n - 1])
    BY ScanUnfolds
  <1> DEFINE Good(n) == f[n] \in Scanning /\ BestSoFar(bs, c, p, n, f[n]) /\ SoonestSoFar(bs, n, f[n])
             bad == {n \in 0 .. Count : ~Good(n)}
  <1>2. Good(0)
    <2>1. EligibleBelow(bs, 0) = {} /\ BackedOffBelow(bs, 0) = {}
      BY DEF EligibleBelow, BackedOffBelow, R!Slots
    <2> QED
      BY <1>1, <2>1, RouterAssumption
      DEF BestSoFar, SoonestSoFar, Scanning, R!ScanStart, R!None
  <1>3. ASSUME NEW n \in 1 .. Count, Good(n - 1) PROVE Good(n)
    <2>1. n - 1 \in R!Slots /\ (n - 1) + 1 = n
      BY RouterAssumption DEF R!Slots
    <2> QED
      BY <1>1, <1>3, <2>1, ScanSlotKeeps
  <1> HIDE DEF Good
  <1>4. bad = {}
    <2> SUFFICES ASSUME bad # {} PROVE FALSE
      OBVIOUS
    <2>1. PICK m \in bad : \A k \in bad : m <= k
      <3>1. bad \in SUBSET Nat
        BY RouterAssumption
      <3> QED
        BY <3>1, HasLeast
    <2>2. m \in 1 .. Count /\ m - 1 \in 0 .. Count /\ m - 1 \notin bad
      BY <1>2, <2>1, RouterAssumption
    <2> QED
      BY <1>3, <2>1, <2>2
  <1>5. Good(Count)
    BY <1>4, RouterAssumption
  <1> QED
    BY <1>1, <1>5 DEF Good

(* router_select_internal picks what IsPick says.                           *)
LEMMA PickIs ==
  ASSUME backends \in Backends, NEW c \in R!Complexities, NEW p \in AllProfiles
  PROVE  R!IsPick(R!Pick(backends, c, p), c, p)
  <1> DEFINE s == R!Scan(backends, c, p)
             el == {k \in R!Slots : /\ backends[k].enabled /\ backends[k].backoff = 0
                                    /\ \/ backends[k].fail < MaxFailures
                                       \/ backends[k].since >= RecoverySec}
             backedOff == {k \in R!Slots : backends[k].enabled /\ backends[k].backoff > 0}
             picked == R!Pick(backends, c, p)
  <1> SUFFICES R!IsPick(picked, c, p)
    OBVIOUS
  <1>1. BestSoFar(backends, c, p, Count, s) /\ SoonestSoFar(backends, Count, s)
    BY ScanIs
  <1>2. el = EligibleBelow(backends, Count) /\ backedOff = BackedOffBelow(backends, Count)
    <2>1. ASSUME NEW k \in R!Slots
          PROVE  /\ k < Count
                 /\ R!Eligible(backends[k]) <=>
                      /\ backends[k].enabled /\ backends[k].backoff = 0
                      /\ \/ backends[k].fail < MaxFailures
                         \/ backends[k].since >= RecoverySec
      <3>1. backends[k] \in R!BackendType
        BY DEF Backends
      <3>2. backends[k].fail \in 0 .. FailCap
        BY <3>1, BackendFields
      <3>3. backends[k].fail \in Int /\ MaxFailures \in Int /\ k < Count
        BY <3>2, RouterAssumption DEF R!Slots
      <3> QED
        BY <3>3 DEF R!Eligible, R!Scanned, R!Recovers
    <2> QED
      BY <2>1 DEF EligibleBelow, BackedOffBelow
  <1>3. picked = IF s.best # R!None THEN s.best ELSE s.fallback
    BY DEF R!Pick
  <1>4. R!None \notin R!Slots
    BY DEF R!None, R!Slots
  <1>5. R!IsPick(picked, c, p) =
          IF el # {}
          THEN picked \in el /\ \A k \in el :
                 \/ ScoreOf(backends, c, p, k) < ScoreOf(backends, c, p, picked)
                 \/ ScoreOf(backends, c, p, k) = ScoreOf(backends, c, p, picked) /\ k >= picked
          ELSE IF backedOff # {}
          THEN picked \in backedOff /\ \A k \in backedOff :
                 \/ backends[k].backoff > backends[picked].backoff
                 \/ backends[k].backoff = backends[picked].backoff /\ k >= picked
          ELSE picked = R!None
    BY Zenon DEF R!IsPick, ScoreOf
  <1> HIDE DEF s, picked
  <1>6. ASSUME el # {}
        PROVE  /\ picked = s.best /\ picked \in el /\ s.score = ScoreOf(backends, c, p, picked)
               /\ \A k \in el : \/ ScoreOf(backends, c, p, k) < s.score
                                \/ ScoreOf(backends, c, p, k) = s.score /\ k >= picked
    <2>1. /\ s.best \in el /\ s.score = ScoreOf(backends, c, p, s.best)
          /\ \A k \in el : \/ ScoreOf(backends, c, p, k) < s.score
                           \/ ScoreOf(backends, c, p, k) = s.score /\ k >= s.best
      <3> HIDE DEF el
      <3> QED
        BY <1>1, <1>2, <1>6 DEF BestSoFar
    <2>2. picked = s.best
      BY <1>3, <1>4, <2>1
    <2> HIDE DEF el
    <2> QED
      BY <2>1, <2>2
  <1>7. ASSUME el = {}, backedOff # {}
        PROVE  /\ picked = s.fallback /\ picked \in backedOff
               /\ s.until = backends[picked].backoff
               /\ \A k \in backedOff : \/ backends[k].backoff > s.until
                                       \/ backends[k].backoff = s.until /\ k >= picked
    <2> HIDE DEF el, backedOff
    <2>1. s.best = R!None
      BY <1>1, <1>2, <1>7 DEF BestSoFar
    <2>2. picked = s.fallback
      BY <1>3, <2>1
    <2>3. /\ s.fallback \in backedOff /\ s.until = backends[s.fallback].backoff
          /\ \A k \in backedOff : \/ backends[k].backoff > s.until
                                  \/ backends[k].backoff = s.until /\ k >= s.fallback
      BY <1>1, <1>2, <1>7 DEF SoonestSoFar
    <2> QED
      BY <2>2, <2>3
  <1>8. ASSUME el = {}, backedOff = {} PROVE picked = R!None
    <2> HIDE DEF el, backedOff
    <2> QED
      BY <1>1, <1>2, <1>3, <1>8 DEF BestSoFar, SoonestSoFar
  <1> HIDE DEF el, backedOff
  <1>9. CASE el # {}
    <2>1. /\ picked \in el
          /\ \A k \in el :
               \/ ScoreOf(backends, c, p, k) < ScoreOf(backends, c, p, picked)
               \/ ScoreOf(backends, c, p, k) = ScoreOf(backends, c, p, picked) /\ k >= picked
      BY <1>6, <1>9
    <2> QED
      BY <1>5, <1>9, <2>1, Zenon
  <1>10. CASE el = {} /\ backedOff # {}
    <2>1. /\ picked \in backedOff
          /\ \A k \in backedOff :
               \/ backends[k].backoff > backends[picked].backoff
               \/ backends[k].backoff = backends[picked].backoff /\ k >= picked
      BY <1>7, <1>10
    <2> QED
      BY <1>5, <1>10, <2>1, Zenon
  <1>11. CASE el = {} /\ backedOff = {}
    BY <1>5, <1>8, <1>11, Zenon
  <1> QED
    BY <1>9, <1>10, <1>11

-----------------------------------------------------------------------------
(* What each operation makes of a backend is a backend again.               *)
LEMMA NewBackends ==
  /\ \A t \in Tiers : R!Fresh(t) \in R!BackendType
  /\ R!Empty \in R!BackendType
  <1>1. ASSUME NEW t \in 0 .. 3, NEW e \in BOOLEAN
        PROVE  [enabled |-> e, tier |-> t, fail |-> 0, since |-> RecoverySec,
                backoff |-> 0, fast |-> 0] \in R!BackendType
    BY RouterAssumption DEF R!BackendType
  <1>2. ASSUME NEW t \in 0 .. 3 PROVE R!Fresh(t) \in R!BackendType
    <2>1. R!Fresh(t) = [enabled |-> TRUE, tier |-> t, fail |-> 0, since |-> RecoverySec,
                        backoff |-> 0, fast |-> 0]
      BY Zenon DEF R!Fresh
    <2> QED
      BY <1>1, <2>1, Zenon
  <1>3. R!Empty \in R!BackendType
    <2>1. 0 \in 0 .. 3 /\ R!Fresh(0) \in R!BackendType
      BY <1>2
    <2> QED
      BY <2>1, Zenon DEF R!Empty, R!BackendType
  <1> QED
    BY <1>2, <1>3, RouterAssumption

LEMMA BackoffIs == \A n \in Nat : R!Backoff(n) \in 0 .. MaxBackoff
  <1> SUFFICES ASSUME NEW n \in Nat, n >= 2 PROVE R!Cap(R!Delay(n), MaxBackoff) \in 0 .. MaxBackoff
    BY RouterAssumption DEF R!Backoff
  <1> DEFINE k == R!Cap(n - 2, 5) + 1
  <1>1. k \in 1 .. 6
    BY DEF R!Cap
  <1>2. R!Delay(n) = 2 * R!Shifted[k]
    BY DEF R!Delay
  <1> HIDE DEF k
  <1>3. R!Shifted[k] \in Nat
    BY <1>1 DEF R!Shifted
  <1> QED
    BY <1>2, <1>3, RouterAssumption DEF R!Cap

LEMMA BackendKept ==
  ASSUME NEW b \in R!BackendType
  PROVE  /\ R!AfterScan(b) \in R!BackendType
         /\ R!Failed(b) \in R!BackendType
         /\ \A f \in Bonuses : R!Succeeded(b, f) \in R!BackendType
         /\ R!Later(b) \in R!BackendType
         /\ [b EXCEPT !.fail = 0] \in R!BackendType
  <1>1. /\ FailCap \in Nat /\ RecoverySec \in Nat /\ MaxBackoff \in Nat
        /\ 0 \in 0 .. FailCap /\ 0 \in 0 .. RecoverySec /\ 0 \in 0 .. MaxBackoff
    BY RouterAssumption
  <1>2. [b EXCEPT !.fail = 0] \in R!BackendType
    BY <1>1 DEF R!BackendType
  <1>3. R!AfterScan(b) \in R!BackendType
    BY <1>2 DEF R!AfterScan
  <1>4. R!Failed(b) \in R!BackendType
    <2> DEFINE n == IF R!Counts(b) THEN R!Cap(b.fail + 1, FailCap) ELSE b.fail
    <2>1. n \in 0 .. FailCap
      BY <1>1, BackendFields DEF R!Cap
    <2>2. R!Backoff(n) \in 0 .. MaxBackoff
      BY <1>1, <2>1, BackoffIs
    <2>3. R!Failed(b) = [b EXCEPT !.fail = n, !.since = 0, !.backoff = R!Backoff(n)]
      BY DEF R!Failed
    <2> HIDE DEF n
    <2> QED
      BY <1>1, <2>1, <2>2, <2>3 DEF R!BackendType
  <1>5. ASSUME NEW f \in Bonuses PROVE R!Succeeded(b, f) \in R!BackendType
    BY <1>1 DEF R!Succeeded, R!BackendType
  <1>6. R!Later(b) \in R!BackendType
    <2> DEFINE since == R!Cap(b.since + 1, RecoverySec)
               backoff == IF b.backoff = 0 THEN 0 ELSE b.backoff - 1
    <2>1. since \in 0 .. RecoverySec /\ backoff \in 0 .. MaxBackoff
      BY <1>1, BackendFields DEF R!Cap
    <2>2. R!Later(b) = [b EXCEPT !.since = since, !.backoff = backoff]
      BY DEF R!Later
    <2> HIDE DEF since, backoff
    <2> QED
      BY <2>1, <2>2 DEF R!BackendType
  <1> QED
    BY <1>2, <1>3, <1>4, <1>5, <1>6

LEMMA SelectKeeps ==
  ASSUME NEW bs \in Backends, NEW c, NEW p
  PROVE  R!Select(bs, c, p) \in Backends
  BY BackendKept DEF R!Select, Backends

LEMMA PickTyped ==
  ASSUME NEW bs \in Backends, NEW c \in R!Complexities, NEW p \in AllProfiles
  PROVE  R!Pick(bs, c, p) \in R!Slots \cup {R!None}
  <1> DEFINE s == R!Scan(bs, c, p)
  <1>1. BestSoFar(bs, c, p, Count, s) /\ SoonestSoFar(bs, Count, s)
    BY ScanIs
  <1>2. R!Pick(bs, c, p) = IF s.best # R!None THEN s.best ELSE s.fallback
    BY DEF R!Pick
  <1> HIDE DEF s
  <1>3. s.best \in R!Slots \cup {R!None}
    BY <1>1 DEF BestSoFar, EligibleBelow
  <1>4. s.fallback \in R!Slots \cup {R!None}
    BY <1>1 DEF SoonestSoFar, BackedOffBelow
  <1> QED
    BY <1>2, <1>3, <1>4

(* The backends and the copy router_model edits keep to their type through  *)
(* every step; nothing more is needed for what the router promises, since   *)
(* PickIs holds of any backends.                                            *)
Edits == [slot : R!Slots \cup {R!None}, copy : R!BackendType]

LEMMA RouterTyped ==
  R!TypeOK <=> /\ backends \in Backends /\ profile \in Profiles
               /\ rpc \in {"idle", "called", "retried"}
               /\ complexity \in R!Complexities
               /\ idx \in R!Slots \cup {R!None} /\ edit \in Edits
  BY DEF R!TypeOK, Backends, Edits

LEMMA RouterTypedNext ==
  R!TypeOK' <=> /\ backends' \in Backends /\ profile' \in Profiles
                /\ rpc' \in {"idle", "called", "retried"}
                /\ complexity' \in R!Complexities
                /\ idx' \in R!Slots \cup {R!None} /\ edit' \in Edits
  BY DEF R!TypeOK, Backends, Edits

LEMMA SetBackendKeeps ==
  ASSUME backends \in Backends, NEW k, NEW b \in R!BackendType, R!SetBackend(k, b)
  PROVE  backends' \in Backends
  <1>1. [b EXCEPT !.fail = 0] \in R!BackendType
    BY BackendKept
  <1> DEFINE b0 == [b EXCEPT !.fail = 0]
  <1>2. backends' = [backends EXCEPT ![k] = b0]
    BY DEF R!SetBackend
  <1> HIDE DEF b0
  <1> QED
    BY <1>1, <1>2 DEF Backends, b0

LEMMA RouterStepKeeps == R!TypeOK /\ [R!Next]_(R!vars) => R!TypeOK'
  <1> SUFFICES ASSUME R!TypeOK, [R!Next]_(R!vars) PROVE R!TypeOK'
    OBVIOUS
  <1> USE DEF AllProfiles
  <1>1. /\ backends \in Backends /\ profile \in Profiles /\ profile \in AllProfiles
        /\ rpc \in {"idle", "called", "retried"}
        /\ complexity \in R!Complexities
        /\ idx \in R!Slots \cup {R!None} /\ edit \in Edits
    BY RouterTyped, RouterAssumption
  <1>2. CASE R!Begin
    <2>1. complexity' \in R!Complexities
      BY <1>2 DEF R!Begin
    <2>2. idx' \in R!Slots \cup {R!None} /\ backends' \in Backends
      BY <1>1, <1>2, <2>1, PickTyped, SelectKeeps DEF R!Begin
    <2> QED
      BY <1>1, <1>2, <2>1, <2>2, RouterTypedNext DEF R!Begin
  <1>3. CASE R!CallFails
    <2> DEFINE b == R!Failed(backends[idx])
               bs == [backends EXCEPT ![idx] = b]
               next == R!Pick(bs, complexity, profile)
    <2>1. idx \in R!Slots
      BY <1>1, <1>3 DEF R!CallFails
    <2>2. b \in R!BackendType
      BY <1>1, <2>1, BackendKept DEF Backends
    <2>3. /\ backends' = R!Select(bs, complexity, profile)
          /\ \/ rpc' = "retried" /\ idx' = next /\ UNCHANGED complexity
             \/ R!Done
          /\ UNCHANGED <<profile, edit>>
      BY <1>3 DEF R!CallFails
    <2> HIDE DEF b
    <2>4. bs \in Backends
      BY <1>1, <2>2 DEF Backends
    <2> HIDE DEF bs
    <2>5. next \in R!Slots \cup {R!None} /\ backends' \in Backends
      BY <1>1, <2>3, <2>4, PickTyped, SelectKeeps
    <2> HIDE DEF next
    <2> QED
      BY <1>1, <2>3, <2>5, RouterTypedNext DEF R!Done, R!Complexities
  <1>4. CASE R!Unreported
    BY <1>1, <1>4, RouterTypedNext DEF R!Unreported, R!Done, R!Complexities
  <1>5. CASE R!CallSucceeds
    <2>1. idx \in R!Slots
      BY <1>1, <1>5 DEF R!CallSucceeds
    <2>2. PICK fast \in Bonuses :
            LET bs == [backends EXCEPT ![idx] = R!Succeeded(@, fast)]
            IN  \/ backends' = bs /\ R!Done
                \/ backends' = bs /\ rpc' = "called" /\ UNCHANGED <<idx, complexity>>
                \/ /\ profile = "auto" /\ complexity = "simple"
                   /\ backends' = R!Select(bs, "medium", "premium")
                   /\ R!Done
      BY <1>5 DEF R!CallSucceeds
    <2> DEFINE b == R!Succeeded(backends[idx], fast)
               bs == [backends EXCEPT ![idx] = b]
    <2>3. b \in R!BackendType
      BY <1>1, <2>1, BackendKept DEF Backends
    <2> HIDE DEF b
    <2>4. bs \in Backends
      BY <1>1, <2>3 DEF Backends
    <2>5. /\ backends' = bs \/ backends' = R!Select(bs, "medium", "premium")
          /\ R!Done \/ (rpc' = "called" /\ UNCHANGED <<idx, complexity>>)
      BY <2>2 DEF b
    <2> HIDE DEF bs
    <2>6. backends' \in Backends
      BY <2>4, <2>5, SelectKeeps
    <2>7. UNCHANGED <<profile, edit>>
      BY <1>5 DEF R!CallSucceeds
    <2> QED
      BY <1>1, <2>5, <2>6, <2>7, RouterTypedNext DEF R!Done, R!Complexities
  <1>6. CASE R!RouterSet
    <2>1. backends' \in Backends
      BY <1>1, <1>6, NewBackends, SetBackendKeeps DEF R!RouterSet
    <2> QED
      BY <1>1, <1>6, <2>1, RouterTypedNext DEF R!RouterSet
  <1>7. CASE R!RouterClear
    <2>1. backends' \in Backends
      BY <1>1, <1>7, NewBackends, SetBackendKeeps DEF R!RouterClear
    <2> QED
      BY <1>1, <1>7, <2>1, RouterTypedNext DEF R!RouterClear
  <1>8. CASE R!ModelReads
    <2>1. edit' \in Edits
      BY <1>1, <1>8, RouterAssumption DEF R!ModelReads, Edits, Backends, R!Slots
    <2> QED
      BY <1>1, <1>8, <2>1, RouterTypedNext DEF R!ModelReads
  <1>9. CASE R!ModelWrites
    <2>1. edit.copy \in R!BackendType
      BY <1>1 DEF Edits
    <2>2. backends' \in Backends
      BY <1>1, <1>9, <2>1, SetBackendKeeps DEF R!ModelWrites
    <2>3. edit' \in Edits
      BY <1>9, NewBackends DEF R!ModelWrites, R!NoEdit, Edits
    <2> QED
      BY <1>1, <1>9, <2>2, <2>3, RouterTypedNext DEF R!ModelWrites
  <1>10. CASE R!SetProfile
    BY <1>1, <1>10, RouterTypedNext DEF R!SetProfile
  <1>11. CASE R!Tick
    <2>1. backends' \in Backends
      BY <1>1, <1>11, BackendKept DEF R!Tick, Backends
    <2>2. edit.copy \in R!BackendType /\ R!Later(edit.copy) \in R!BackendType
      BY <1>1, BackendKept DEF Edits
    <2>3. edit' \in Edits
      BY <1>1, <1>11, <2>2 DEF R!Tick, Edits
    <2> QED
      BY <1>1, <1>11, <2>1, <2>3, RouterTypedNext DEF R!Tick
  <1>12. CASE UNCHANGED R!vars
    BY <1>1, <1>12, RouterTypedNext DEF R!vars
  <1> QED
    BY <1>2, <1>3, <1>4, <1>5, <1>6, <1>7, <1>8, <1>9, <1>10, <1>11, <1>12
    DEF R!Next, R!Request, R!Shell

RouterFocusInv == focus = "router" => R!TypeOK

LEMMA RouterFocusKeeps == RouterFocusInv /\ [Next]_vars => RouterFocusInv'
  <1> SUFFICES ASSUME RouterFocusInv, [Next]_vars, focus' = "router" PROVE R!TypeOK'
    BY DEF RouterFocusInv
  <1>1. focus = "router"
    BY DEF Next, RouterStep, CacheStep, ToolStep, vars
  <1>2. [R!Next]_(R!vars)
    BY <1>1 DEF Next, RouterStep, CacheStep, ToolStep, vars, routerVars, R!vars
  <1> QED
    BY <1>1, <1>2, RouterStepKeeps DEF RouterFocusInv

LEMMA InitRouter == R!Init => R!TypeOK
  <1> SUFFICES ASSUME R!Init PROVE R!TypeOK
    OBVIOUS
  <1>1. backends \in Backends
    BY NewBackends DEF R!Init, Backends
  <1>2. edit \in Edits
    BY NewBackends DEF R!Init, R!NoEdit, Edits
  <1> QED
    BY <1>1, <1>2, RouterTyped DEF R!Init, R!Complexities

LEMMA RouterCorrect == Spec => []RouterFocusInv
  <1>1. Init => RouterFocusInv
    BY InitRouter DEF Init, RouterFocusInv
  <1> QED
    BY <1>1, RouterFocusKeeps, PTL DEF Spec

(* Whatever failures, recoveries and edits came before, the loop of         *)
(* router_select_internal picks the best eligible backend for any question  *)
(* and profile, else the one whose backoff ends first                       *)
(* (llm_router.c:310-395).                                                  *)
THEOREM PicksTheBest == Spec => []PickIsBest
  <1>1. RouterFocusInv => PickIsBest
    <2> SUFFICES ASSUME RouterFocusInv, focus = "router" PROVE R!PickIsBest
      BY DEF PickIsBest
    <2>1. backends \in Backends
      BY RouterTyped DEF RouterFocusInv
    <2>2. \A c \in R!Complexities, p \in AllProfiles : R!IsPick(R!Pick(backends, c, p), c, p)
      BY <2>1, PickIs
    <2> QED
      BY <2>2 DEF R!PickIsBest, AllProfiles
  <1> QED
    BY <1>1, RouterCorrect, PTL

(* A backend is not lost for good: once RecoverySec have passed since its   *)
(* last failure and its backoff is over, the router has an answer for every *)
(* request (llm_router.c:351-360).                                          *)
THEOREM RecoverInTime == Spec => []RecoversInTime
  <1>1. RouterFocusInv => RecoversInTime
    <2> SUFFICES ASSUME RouterFocusInv, focus = "router",
                        NEW k \in R!Slots, backends[k].enabled,
                        backends[k].since = RecoverySec, backends[k].backoff = 0
                 PROVE  R!Pick(backends, complexity, profile) # R!None
      BY DEF RecoversInTime, R!RecoversInTime
    <2> DEFINE s == R!Scan(backends, complexity, profile)
    <2>1. /\ backends \in Backends /\ complexity \in R!Complexities
          /\ profile \in AllProfiles
      BY RouterTyped, RouterAssumption DEF RouterFocusInv, AllProfiles
    <2>2. BestSoFar(backends, complexity, profile, Count, s)
      BY <2>1, ScanIs
    <2>3. backends[k].fail \in 0 .. FailCap
      BY <2>1, BackendFields DEF Backends
    <2>4. k \in EligibleBelow(backends, Count)
      BY <2>3, RouterAssumption
      DEF EligibleBelow, R!Eligible, R!Scanned, R!Recovers, R!Slots
    <2>5. R!Pick(backends, complexity, profile) = IF s.best # R!None THEN s.best ELSE s.fallback
      BY DEF R!Pick
    <2> HIDE DEF s
    <2>6. s.best \in R!Slots
      BY <2>2, <2>4 DEF BestSoFar, EligibleBelow
    <2> QED
      BY <2>5, <2>6 DEF R!None, R!Slots
  <1> QED
    BY <1>1, RouterCorrect, PTL

-----------------------------------------------------------------------------
(* The threads of a tool round.  A call holds a buffer and a thread from    *)
(* its turn in the spawning loop to its turn in the joining one.            *)
Heap(t) == <<"heap", t>>
Msgs == [id : T!Ids, from : 0 .. MaxCalls]
HoldsBuffer(t) == \/ tpc = "spawn" /\ t < i
                  \/ tpc = "join" /\ i <= t /\ t <= Len(ids)

ToolTypes ==
  /\ tpc \in {"idle", "spawn", "join"}
  /\ ids \in Seq(T!Ids) /\ Len(ids) \in 0 .. MaxCalls
  /\ i \in 1 .. Len(ids) + 1
  /\ text \in [T!Bufs -> 0 .. MaxCalls]
  /\ output \in [T!Tasks -> T!Bufs \cup {NoBuf}]
  /\ thread \in [T!Tasks -> {"none", "started", "running", "done"}]
  /\ seen \subseteq T!Ids
  /\ results \in Seq(Msgs)
  /\ runs \in [T!Tasks -> {0, 1}]

(* Before and after that it holds neither, and it runs once in between.     *)
CallsInTurn ==
  \A t \in T!Tasks :
    /\ ~HoldsBuffer(t) => output[t] = NoBuf /\ thread[t] = "none"
    /\ tpc = "spawn" /\ t >= i => runs[t] = 0
    /\ thread[t] # "none" => output[t] # NoBuf
    /\ thread[t] \in {"started", "running"} => runs[t] = 0

(* A buffer of the pool is in use by one call, a heap buffer by its own.    *)
BuffersApart ==
  /\ \A t \in T!Tasks : output[t] \in PoolSlots \cup {Heap(t), NoBuf}
  /\ \A t, u \in T!Tasks : t # u /\ output[t] \in PoolSlots => output[t] # output[u]
  /\ \A b : b \in inUse <=> b \in PoolSlots /\ \E t \in T!Tasks : output[t] = b

(* What stands in a call's buffer, the call wrote.                          *)
OutputsOwn ==
  \A t \in T!Tasks : output[t] # NoBuf /\ text[output[t]] # 0 =>
    text[output[t]] = t /\ runs[t] = 1

ResultsOwn ==
  \A k \in 1 .. Len(results) : results[k].from # 0 =>
    /\ results[k].from \in 1 .. Len(ids)
    /\ ids[results[k].from] = results[k].id /\ runs[results[k].from] = 1

(* The joining loop has answered the calls it has passed, each short id     *)
(* once, because it is in seen_ids.                                         *)
Passed(t) == tpc = "idle" \/ (tpc = "join" /\ t < i)
AnsweredInTurn ==
  /\ tpc = "spawn" => results = <<>> /\ seen = {}
  /\ \A t \in 1 .. Len(ids) : Passed(t) => \E k \in 1 .. Len(results) : results[k].id = ids[t]
  /\ \A d \in seen : \E k \in 1 .. Len(results) : results[k].id = d
  /\ \A k \in 1 .. Len(results) : results[k].id \in ShortIds => results[k].id \in seen
  /\ \A k, m \in 1 .. Len(results) :
       results[k].id = results[m].id /\ results[k].id \in ShortIds => k = m

ToolInv == /\ ToolTypes /\ CallsInTurn /\ BuffersApart /\ OutputsOwn
           /\ ResultsOwn /\ AnsweredInTurn

LEMMA HeapApart ==
  \A t, u \in T!Tasks :
    /\ Heap(t) \in T!Bufs /\ Heap(t) \notin PoolSlots /\ Heap(t) # NoBuf
    /\ t # u => Heap(t) # Heap(u)
  BY PoolAssumption DEF Heap, T!Bufs, T!HeapBufs

LEMMA PoolApart == PoolSlots \subseteq T!Bufs /\ NoBuf \notin PoolSlots
  BY PoolAssumption DEF T!Bufs

LEMMA TaskBounds ==
  /\ MaxCalls \in Nat
  /\ \A t : t \in T!Tasks <=> t \in Int /\ 1 <= t /\ t <= MaxCalls
  BY PoolAssumption DEF T!Tasks

LEMMA InitTools == T!Init => ToolInv
  <1> SUFFICES ASSUME T!Init PROVE ToolInv
    OBVIOUS
  <1> USE PoolAssumption DEF T!Init
  <1>1. ToolTypes
    BY DEF ToolTypes, T!Tasks
  <1>2. CallsInTurn /\ OutputsOwn /\ ResultsOwn /\ AnsweredInTurn
    BY DEF CallsInTurn, OutputsOwn, ResultsOwn, AnsweredInTurn, HoldsBuffer
  <1>3. BuffersApart
    BY PoolApart DEF BuffersApart
  <1> QED
    BY <1>1, <1>2, <1>3 DEF ToolInv

(* A round starts with nothing in use.                                      *)
LEMMA RoundKeeps == ToolInv /\ T!Round => ToolInv'
  <1> SUFFICES ASSUME ToolInv, T!Round PROVE ToolInv'
    OBVIOUS
  <1>1. PICK n \in 2 .. MaxCalls : ids' \in [1 .. n -> T!Ids]
    BY DEF T!Round
  <1>2. ids' \in Seq(T!Ids) /\ Len(ids') = n
    BY <1>1
  <1>3. /\ tpc = "idle" /\ tpc' = "spawn" /\ i' = 1 /\ seen' = {} /\ results' = <<>>
        /\ runs' = [t \in T!Tasks |-> 0]
        /\ UNCHANGED <<inUse, text, output, thread>>
    BY DEF T!Round
  <1>4. \A t \in T!Tasks : output[t] = NoBuf /\ thread[t] = "none"
    BY <1>3 DEF ToolInv, CallsInTurn, HoldsBuffer
  <1>5. ToolTypes'
    BY <1>1, <1>2, <1>3, TaskBounds DEF ToolInv, ToolTypes
  <1>6. CallsInTurn' /\ OutputsOwn'
    BY <1>3, <1>4, TaskBounds DEF CallsInTurn, OutputsOwn, HoldsBuffer
  <1>7. BuffersApart'
    BY <1>3 DEF ToolInv, BuffersApart
  <1>8. ResultsOwn' /\ AnsweredInTurn'
    BY <1>3 DEF ResultsOwn, AnsweredInTurn, Passed
  <1> QED
    BY <1>5, <1>6, <1>7, <1>8 DEF ToolInv

(* A call gets a buffer nobody holds, cleared, or none.                     *)
LEMMA SpawnKeeps == ToolInv /\ T!Spawn => ToolInv'
  <1> SUFFICES ASSUME ToolInv, T!Spawn PROVE ToolInv'
    OBVIOUS
  <1>1. /\ tpc = "spawn" /\ i <= Len(ids) /\ i' = i + 1
        /\ UNCHANGED <<tpc, ids, seen, results, runs>>
    BY DEF T!Spawn, T!MoreCalls
  <1>2. i \in T!Tasks /\ i + 1 \in 1 .. Len(ids) + 1 /\ i \in Int
    BY <1>1, TaskBounds DEF ToolInv, ToolTypes
  <1>3. output[i] = NoBuf /\ thread[i] = "none" /\ runs[i] = 0
    BY <1>1, <1>2 DEF ToolInv, CallsInTurn, HoldsBuffer
  <1>4. ASSUME NEW b \in PoolSlots \cup {Heap(i)},
               output' = [output EXCEPT ![i] = b], text' = [text EXCEPT ![b] = 0],
               thread' \in {thread, [thread EXCEPT ![i] = "started"]},
               \/ b \in PoolSlots /\ b \notin inUse /\ inUse' = inUse \cup {b}
               \/ b = Heap(i) /\ UNCHANGED inUse
        PROVE  ToolInv'
    <2>1. b \in T!Bufs /\ b # NoBuf
      BY <1>2, HeapApart, PoolApart
    <2>2. \A t \in T!Tasks : output[t] # b
      BY <1>2, <1>3, <1>4, <2>1, HeapApart DEF ToolInv, BuffersApart
    <2>3. /\ output'[i] = b
          /\ \A t \in T!Tasks : t # i => output'[t] = output[t] /\ thread'[t] = thread[t]
          /\ thread'[i] \in {"none", "started"}
          /\ text'[b] = 0 /\ \A d \in T!Bufs : d # b => text'[d] = text[d]
      BY <1>2, <1>3, <1>4, <2>1 DEF ToolInv, ToolTypes
    <2>4. /\ output' \in [T!Tasks -> T!Bufs \cup {NoBuf}] /\ text' \in [T!Bufs -> 0 .. MaxCalls]
          /\ thread' \in [T!Tasks -> {"none", "started", "running", "done"}]
      <3>1. output' \in [T!Tasks -> T!Bufs \cup {NoBuf}]
        BY <1>4, <2>1 DEF ToolInv, ToolTypes
      <3>2. text' \in [T!Bufs -> 0 .. MaxCalls]
        <4>1. 0 \in 0 .. MaxCalls /\ text \in [T!Bufs -> 0 .. MaxCalls]
          BY TaskBounds DEF ToolInv, ToolTypes
        <4> QED
          BY <1>4, <4>1
      <3>3. thread' \in [T!Tasks -> {"none", "started", "running", "done"}]
        BY <1>4 DEF ToolInv, ToolTypes
      <3> QED
        BY <3>1, <3>2, <3>3
    <2>5. ToolTypes'
      BY <1>1, <1>2, <2>4 DEF ToolInv, ToolTypes
    <2>6. CallsInTurn'
      <3> SUFFICES ASSUME NEW t \in T!Tasks
                   PROVE  /\ ~HoldsBuffer(t)' => output'[t] = NoBuf /\ thread'[t] = "none"
                          /\ tpc' = "spawn" /\ t >= i' => runs'[t] = 0
                          /\ thread'[t] # "none" => output'[t] # NoBuf
                          /\ thread'[t] \in {"started", "running"} => runs'[t] = 0
        BY DEF CallsInTurn
      <3>1. CASE t = i
        BY <1>1, <1>2, <1>3, <2>1, <2>3, <3>1 DEF HoldsBuffer
      <3>2. CASE t # i
        BY <1>1, <1>2, <2>3, <3>2, TaskBounds DEF ToolInv, CallsInTurn, HoldsBuffer
      <3> QED
        BY <3>1, <3>2
    <2>7. BuffersApart'
      <3>1. \A t \in T!Tasks : output'[t] \in PoolSlots \cup {Heap(t), NoBuf}
        BY <1>4, <2>3 DEF ToolInv, BuffersApart
      <3>2. \A t, u \in T!Tasks : t # u /\ output'[t] \in PoolSlots => output'[t] # output'[u]
        BY <2>2, <2>3 DEF ToolInv, BuffersApart
      <3>3. \A d : d \in inUse' <=> d \in PoolSlots /\ \E t \in T!Tasks : output'[t] = d
        <4> SUFFICES ASSUME NEW d
                     PROVE  d \in inUse' <=> d \in PoolSlots /\ \E t \in T!Tasks : output'[t] = d
          OBVIOUS
        <4>1. d \in inUse <=> d \in PoolSlots /\ \E t \in T!Tasks : output[t] = d
          BY DEF ToolInv, BuffersApart
        <4>2. CASE d = b
          BY <1>2, <1>4, <2>2, <2>3, <4>1, <4>2, HeapApart
        <4>3. CASE d # b
          <5>1. d \in inUse' <=> d \in inUse
            BY <1>4, <4>3
          <5>2. CASE d = NoBuf
            BY <4>1, <5>1, <5>2, PoolApart
          <5>3. CASE d # NoBuf
            BY <1>2, <1>3, <2>3, <4>1, <4>3, <5>1, <5>3
          <5> QED
            BY <5>2, <5>3
        <4> QED
          BY <4>2, <4>3
      <3> QED
        BY <3>1, <3>2, <3>3 DEF BuffersApart
    <2>8. OutputsOwn'
      <3> SUFFICES ASSUME NEW t \in T!Tasks, output'[t] # NoBuf, text'[output'[t]] # 0
                   PROVE  text'[output'[t]] = t /\ runs'[t] = 1
        BY DEF OutputsOwn
      <3>1. t # i
        BY <2>3
      <3>2. output'[t] = output[t] /\ output[t] \in T!Bufs /\ output[t] # b
        BY <2>2, <2>3, <3>1 DEF ToolInv, ToolTypes
      <3> QED
        BY <1>1, <2>3, <3>2 DEF ToolInv, OutputsOwn
    <2>9. ResultsOwn' /\ AnsweredInTurn'
      BY <1>1 DEF ToolInv, ResultsOwn, AnsweredInTurn, Passed
    <2> QED
      BY <2>5, <2>6, <2>7, <2>8, <2>9 DEF ToolInv
  <1>5. ASSUME UNCHANGED <<output, text, thread, inUse>> PROVE ToolInv'
    <2>1. ToolTypes'
      BY <1>1, <1>2, <1>5 DEF ToolInv, ToolTypes
    <2>2. CallsInTurn'
      BY <1>1, <1>2, <1>3, <1>5, TaskBounds DEF ToolInv, CallsInTurn, HoldsBuffer
    <2>3. BuffersApart' /\ OutputsOwn' /\ ResultsOwn' /\ AnsweredInTurn'
      BY <1>1, <1>5 DEF ToolInv, BuffersApart, OutputsOwn, ResultsOwn, AnsweredInTurn, Passed
    <2> QED
      BY <2>1, <2>2, <2>3 DEF ToolInv
  <1>6. T!CreateThread => thread' \in {thread, [thread EXCEPT ![i] = "started"]}
    BY DEF T!CreateThread
  <1>7. \/ \E b \in PoolSlots : /\ T!Acquire(b) /\ output' = [output EXCEPT ![i] = b]
                                /\ T!ClearText(b) /\ T!CreateThread
        \/ /\ output' = [output EXCEPT ![i] = Heap(i)] /\ T!ClearText(Heap(i))
           /\ T!CreateThread /\ UNCHANGED inUse
        \/ UNCHANGED <<output, text, thread, inUse>>
    BY DEF T!Spawn, Heap
  <1>8. CASE \E b \in PoolSlots : /\ T!Acquire(b) /\ output' = [output EXCEPT ![i] = b]
                                  /\ T!ClearText(b) /\ T!CreateThread
    BY <1>4, <1>6, <1>8 DEF T!Acquire, T!ClearText
  <1>9. CASE /\ output' = [output EXCEPT ![i] = Heap(i)] /\ T!ClearText(Heap(i))
             /\ T!CreateThread /\ UNCHANGED inUse
    BY <1>4, <1>6, <1>9 DEF T!ClearText
  <1> QED
    BY <1>5, <1>7, <1>8, <1>9

LEMMA ThreadKeeps == ASSUME NEW t \in T!Tasks, ToolInv, T!ThreadStep(t) PROVE ToolInv'
  <1>1. /\ UNCHANGED <<tpc, ids, i, inUse, output, seen, results>>
        /\ thread[t] \in {"started", "running"} /\ runs[t] = 0
        /\ output[t] # NoBuf /\ output[t] \in T!Bufs
    BY DEF T!ThreadStep, T!ThreadStarts, T!ThreadRunsTool, ToolInv, ToolTypes, CallsInTurn
  <1>2. HoldsBuffer(t)
    BY <1>1 DEF ToolInv, CallsInTurn
  <1>3. \/ /\ text' = [text EXCEPT ![output[t]] = 0] /\ runs' = runs
           /\ thread' = [thread EXCEPT ![t] = "running"]
        \/ /\ text' \in {text, [text EXCEPT ![output[t]] = t]}
           /\ runs' = [runs EXCEPT ![t] = 1]
           /\ thread' = [thread EXCEPT ![t] = "done"]
    <2>1. runs[t] + 1 = 1
      BY <1>1
    <2> QED
      BY <2>1 DEF T!ThreadStep, T!ThreadStarts, T!ThreadRunsTool, T!ClearText
  <1>4. /\ \A u \in T!Tasks : u # t => runs'[u] = runs[u] /\ thread'[u] = thread[u]
        /\ thread'[t] # "none" /\ (thread'[t] \in {"started", "running"} => runs'[t] = 0)
        /\ runs' \in [T!Tasks -> {0, 1}]
        /\ thread' \in [T!Tasks -> {"none", "started", "running", "done"}]
    <2>1. \A u \in T!Tasks : u # t => runs'[u] = runs[u] /\ thread'[u] = thread[u]
      BY <1>3 DEF ToolInv, ToolTypes
    <2>2. thread'[t] # "none" /\ (thread'[t] \in {"started", "running"} => runs'[t] = 0)
      BY <1>1, <1>3 DEF ToolInv, ToolTypes
    <2>3. runs' \in [T!Tasks -> {0, 1}]
      BY <1>3 DEF ToolInv, ToolTypes
    <2>4. thread' \in [T!Tasks -> {"none", "started", "running", "done"}]
      BY <1>3 DEF ToolInv, ToolTypes
    <2> QED
      BY <2>1, <2>2, <2>3, <2>4
  <1>5. /\ text' \in [T!Bufs -> 0 .. MaxCalls]
        /\ \A d \in T!Bufs : d # output[t] => text'[d] = text[d]
    <2>1. /\ 0 \in 0 .. MaxCalls /\ t \in 0 .. MaxCalls
          /\ text \in [T!Bufs -> 0 .. MaxCalls]
      BY TaskBounds DEF ToolInv, ToolTypes
    <2>2. \E v \in 0 .. MaxCalls : text' \in {text, [text EXCEPT ![output[t]] = v]}
      BY <1>3, <2>1
    <2> QED
      BY <2>1, <2>2
  <1>6. text'[output[t]] # 0 => text'[output[t]] = t /\ runs'[t] = 1
    BY <1>1, <1>3 DEF ToolInv, ToolTypes, OutputsOwn
  <1>7. ToolTypes'
    BY <1>1, <1>4, <1>5 DEF ToolInv, ToolTypes
  <1>8. CallsInTurn'
    <2> SUFFICES ASSUME NEW u \in T!Tasks
                 PROVE  /\ ~HoldsBuffer(u)' => output'[u] = NoBuf /\ thread'[u] = "none"
                        /\ tpc' = "spawn" /\ u >= i' => runs'[u] = 0
                        /\ thread'[u] # "none" => output'[u] # NoBuf
                        /\ thread'[u] \in {"started", "running"} => runs'[u] = 0
      BY DEF CallsInTurn
    <2>1. CASE u = t
      BY <1>1, <1>2, <1>4, <2>1, TaskBounds DEF HoldsBuffer, ToolInv, ToolTypes
    <2>2. CASE u # t
      BY <1>1, <1>4, <2>2 DEF ToolInv, CallsInTurn, HoldsBuffer
    <2> QED
      BY <2>1, <2>2
  <1>9. BuffersApart'
    BY <1>1 DEF ToolInv, BuffersApart
  <1>10. OutputsOwn'
    <2> SUFFICES ASSUME NEW u \in T!Tasks, output'[u] # NoBuf, text'[output'[u]] # 0
                 PROVE  text'[output'[u]] = u /\ runs'[u] = 1
      BY DEF OutputsOwn
    <2>1. CASE u = t
      BY <1>1, <1>6, <2>1
    <2>2. CASE u # t
      <3>1. output[u] # output[t]
        BY <1>1, <2>2, HeapApart DEF ToolInv, BuffersApart
      <3>2. output[u] \in T!Bufs
        BY <1>1 DEF ToolInv, ToolTypes
      <3> QED
        BY <1>1, <1>4, <1>5, <2>2, <3>1, <3>2 DEF ToolInv, OutputsOwn
    <2> QED
      BY <2>1, <2>2
  <1>11. ResultsOwn'
    <2> SUFFICES ASSUME NEW k \in 1 .. Len(results), results[k].from # 0
                 PROVE  /\ results[k].from \in 1 .. Len(ids)
                        /\ ids[results[k].from] = results[k].id /\ runs'[results[k].from] = 1
      BY <1>1 DEF ResultsOwn
    <2>1. /\ results[k].from \in 1 .. Len(ids)
          /\ ids[results[k].from] = results[k].id /\ runs[results[k].from] = 1
      BY DEF ToolInv, ResultsOwn
    <2>2. results[k].from \in T!Tasks /\ results[k].from # t
      BY <1>1, <2>1, TaskBounds DEF ToolInv, ToolTypes
    <2> QED
      BY <1>4, <2>1, <2>2
  <1>12. AnsweredInTurn'
    BY <1>1 DEF ToolInv, AnsweredInTurn, Passed
  <1> QED
    BY <1>7, <1>8, <1>9, <1>10, <1>11, <1>12 DEF ToolInv

LEMMA LoopEndsKeep == ToolInv /\ (T!SpawnDone \/ T!JoinDone) => ToolInv'
  <1> SUFFICES ASSUME ToolInv, T!SpawnDone \/ T!JoinDone PROVE ToolInv'
    OBVIOUS
  <1>1. UNCHANGED <<ids, inUse, text, output, thread, seen, results, runs>> /\ i' = 1
    BY DEF T!SpawnDone, T!JoinDone
  <1>2. \/ tpc = "spawn" /\ tpc' = "join"
        \/ tpc = "join" /\ tpc' = "idle"
    BY DEF T!SpawnDone, T!JoinDone
  <1>3. ~(i <= Len(ids)) /\ Len(ids) \in Nat /\ i = Len(ids) + 1
    BY DEF T!SpawnDone, T!JoinDone, T!MoreCalls, ToolInv, ToolTypes
  <1>4. ToolTypes'
    BY <1>1, <1>2, <1>3 DEF ToolInv, ToolTypes
  <1>5. CallsInTurn'
    <2> SUFFICES ASSUME NEW t \in T!Tasks
                 PROVE  /\ ~HoldsBuffer(t)' => output[t] = NoBuf /\ thread[t] = "none"
                        /\ tpc' # "spawn"
                        /\ thread[t] # "none" => output[t] # NoBuf
                        /\ thread[t] \in {"started", "running"} => runs[t] = 0
      BY <1>1 DEF CallsInTurn
    <2>1. HoldsBuffer(t) /\ tpc = "spawn" => HoldsBuffer(t)'
      BY <1>1, <1>2, <1>3, TaskBounds DEF HoldsBuffer
    <2>2. tpc = "join" => ~HoldsBuffer(t)
      BY <1>3, TaskBounds DEF HoldsBuffer
    <2> QED
      BY <1>2, <2>1, <2>2 DEF ToolInv, CallsInTurn
  <1>6. BuffersApart' /\ OutputsOwn' /\ ResultsOwn'
    BY <1>1 DEF ToolInv, BuffersApart, OutputsOwn, ResultsOwn
  <1>7. AnsweredInTurn'
    <2>1. CASE tpc = "spawn"
      BY <1>1, <1>2, <2>1 DEF ToolInv, AnsweredInTurn, Passed
    <2>2. CASE tpc = "join"
      <3>1. \A t \in 1 .. Len(ids) : Passed(t)
        BY <1>3, <2>2 DEF Passed
      <3> QED
        BY <1>1, <1>2, <2>2, <3>1 DEF ToolInv, AnsweredInTurn
    <2> QED
      BY <1>2, <2>1, <2>2
  <1> QED
    BY <1>4, <1>5, <1>6, <1>7 DEF ToolInv

(* A joined call gives its buffer back and is answered, unless a call with  *)
(* its id was.                                                              *)
LEMMA JoinKeeps == ToolInv /\ T!JoinNext => ToolInv'
  <1> SUFFICES ASSUME ToolInv, T!JoinNext PROVE ToolInv'
    OBVIOUS
  <1> DEFINE msg == T!Message(i)
  <1>1. /\ tpc = "join" /\ i <= Len(ids) /\ i' = i + 1
        /\ inUse' = inUse \ {output[i]} /\ output' = [output EXCEPT ![i] = NoBuf]
        /\ thread' = [thread EXCEPT ![i] = "none"]
        /\ UNCHANGED <<tpc, ids, text, runs>>
        /\ thread[i] \in {"none", "done"}
    BY DEF T!JoinNext, T!MoreCalls, T!Joined, T!Release, T!Advance
  <1>2. \/ ids[i] \in seen /\ UNCHANGED <<seen, results>>
        \/ /\ ids[i] \notin seen /\ results' = Append(results, msg)
           /\ \/ seen' = seen \cup {ids[i]}
              \/ ids[i] \in LongIds /\ UNCHANGED seen
    BY DEF T!JoinNext, T!Remember
  <1>3. /\ i \in T!Tasks /\ i \in 1 .. Len(ids) /\ i + 1 \in 1 .. Len(ids) + 1 /\ i \in Int
        /\ ids[i] \in T!Ids /\ output[i] \in T!Bufs \cup {NoBuf}
    <2>1. /\ Len(ids) \in 0 .. MaxCalls /\ i \in 1 .. Len(ids) + 1 /\ MaxCalls \in Nat
          /\ ids \in Seq(T!Ids) /\ output \in [T!Tasks -> T!Bufs \cup {NoBuf}]
      BY TaskBounds DEF ToolInv, ToolTypes
    <2>2. i \in T!Tasks /\ i \in 1 .. Len(ids) /\ i + 1 \in 1 .. Len(ids) + 1 /\ i \in Int
      BY <1>1, <2>1, TaskBounds
    <2>3. ids[i] \in T!Ids
      BY <2>1, <2>2, ElementOfSeq
    <2> QED
      BY <2>1, <2>2, <2>3
  <1>4. /\ output'[i] = NoBuf /\ thread'[i] = "none"
        /\ \A t \in T!Tasks : t # i => output'[t] = output[t] /\ thread'[t] = thread[t]
    BY <1>1, <1>3 DEF ToolInv, ToolTypes
  <1>5. /\ msg.id = ids[i] /\ msg \in Msgs
        /\ msg.from # 0 => msg.from = i /\ runs[i] = 1
    <2>1. msg = [id |-> ids[i], from |-> IF output[i] = NoBuf THEN 0 ELSE text[output[i]]]
      BY DEF T!Message
    <2>2. 0 \in 0 .. MaxCalls /\ (output[i] # NoBuf => text[output[i]] \in 0 .. MaxCalls)
      BY <1>3, TaskBounds DEF ToolInv, ToolTypes
    <2>3. msg \in Msgs
      BY <1>3, <2>1, <2>2 DEF Msgs
    <2>4. msg.from # 0 => msg.from = i /\ runs[i] = 1
      BY <1>3, <2>1 DEF ToolInv, OutputsOwn
    <2> QED
      BY <2>1, <2>3, <2>4
  <1> HIDE DEF msg
  <1>6. /\ results \in Seq(Msgs) /\ Len(results) \in Nat
        /\ Append(results, msg) \in Seq(Msgs)
        /\ Len(Append(results, msg)) = Len(results) + 1
        /\ \A k \in 1 .. Len(results) : Append(results, msg)[k] = results[k]
        /\ Append(results, msg)[Len(results) + 1] = msg
    BY <1>5, AppendProperties, LenProperties DEF ToolInv, ToolTypes
  <1>7. ToolTypes'
    <2>1. output' \in [T!Tasks -> T!Bufs \cup {NoBuf}]
      BY <1>1 DEF ToolInv, ToolTypes
    <2>2. thread' \in [T!Tasks -> {"none", "started", "running", "done"}]
      BY <1>1 DEF ToolInv, ToolTypes
    <2>3. results' \in Seq(Msgs) /\ seen' \subseteq T!Ids
      BY <1>2, <1>3, <1>6 DEF ToolInv, ToolTypes
    <2> QED
      BY <1>1, <1>3, <2>1, <2>2, <2>3 DEF ToolInv, ToolTypes
  <1>8. CallsInTurn'
    <2> SUFFICES ASSUME NEW t \in T!Tasks
                 PROVE  /\ ~HoldsBuffer(t)' => output'[t] = NoBuf /\ thread'[t] = "none"
                        /\ thread'[t] # "none" => output'[t] # NoBuf
                        /\ thread'[t] \in {"started", "running"} => runs'[t] = 0
      BY <1>1 DEF CallsInTurn
    <2>1. CASE t = i
      BY <1>4, <2>1
    <2>2. CASE t # i
      <3>1. HoldsBuffer(t) => HoldsBuffer(t)'
        BY <1>1, <1>3, <2>2, TaskBounds DEF HoldsBuffer
      <3> QED
        BY <1>1, <1>4, <2>2, <3>1 DEF ToolInv, CallsInTurn
    <2> QED
      BY <2>1, <2>2
  <1>9. BuffersApart'
    <2>1. \A t \in T!Tasks : output'[t] \in PoolSlots \cup {Heap(t), NoBuf}
      BY <1>4 DEF ToolInv, BuffersApart
    <2>2. \A t, u \in T!Tasks : t # u /\ output'[t] \in PoolSlots => output'[t] # output'[u]
      BY <1>4, PoolApart DEF ToolInv, BuffersApart
    <2>3. \A d : d \in inUse' <=> d \in PoolSlots /\ \E t \in T!Tasks : output'[t] = d
      <3> SUFFICES ASSUME NEW d
                   PROVE  d \in inUse' <=> d \in PoolSlots /\ \E t \in T!Tasks : output'[t] = d
        OBVIOUS
      <3>1. d \in inUse <=> d \in PoolSlots /\ \E t \in T!Tasks : output[t] = d
        BY DEF ToolInv, BuffersApart
      <3>2. CASE d = output[i]
        <4>1. d \notin inUse'
          BY <1>1, <3>2
        <4>2. ASSUME d \in PoolSlots, NEW t \in T!Tasks, output'[t] = d PROVE FALSE
          <5>1. t # i
            BY <1>4, <4>2, PoolApart
          <5> QED
            BY <1>3, <1>4, <3>2, <4>2, <5>1 DEF ToolInv, BuffersApart
        <4> QED
          BY <4>1, <4>2
      <3>3. CASE d # output[i]
        <4>1. d \in inUse' <=> d \in inUse
          BY <1>1, <3>3
        <4>2. d \in PoolSlots => d # NoBuf
          BY PoolApart
        <4> QED
          BY <1>4, <3>1, <3>3, <4>1, <4>2
      <3> QED
        BY <3>2, <3>3
    <2> QED
      BY <2>1, <2>2, <2>3 DEF BuffersApart
  <1>10. OutputsOwn'
    BY <1>1, <1>4 DEF ToolInv, OutputsOwn
  <1>11. ASSUME NEW k \in 1 .. Len(results')
         PROVE  \/ k \in 1 .. Len(results) /\ results'[k] = results[k]
                \/ /\ k = Len(results) + 1 /\ results'[k] = msg
                   /\ ids[i] \notin seen /\ results' = Append(results, msg)
    BY <1>2, <1>6
  <1>12. \A k \in 1 .. Len(results) : k \in 1 .. Len(results') /\ results'[k] = results[k]
    BY <1>2, <1>6
  <1>13. \E k \in 1 .. Len(results') : results'[k].id = ids[i]
    <2>1. CASE ids[i] \in seen
      <3>1. PICK k \in 1 .. Len(results) : results[k].id = ids[i]
        BY <2>1 DEF ToolInv, AnsweredInTurn
      <3> QED
        BY <1>12, <3>1
    <2>2. CASE ids[i] \notin seen
      <3>1. results' = Append(results, msg)
        BY <1>2, <2>2
      <3>2. Len(results) + 1 \in 1 .. Len(results') /\ results'[Len(results) + 1] = msg
        BY <1>6, <3>1
      <3> QED
        BY <1>5, <3>2
    <2> QED
      BY <2>1, <2>2
  <1>14. ResultsOwn'
    <2> SUFFICES ASSUME NEW k \in 1 .. Len(results'), results'[k].from # 0
                 PROVE  /\ results'[k].from \in 1 .. Len(ids)
                        /\ ids[results'[k].from] = results'[k].id
                        /\ runs[results'[k].from] = 1
      BY <1>1 DEF ResultsOwn
    <2>1. CASE k \in 1 .. Len(results) /\ results'[k] = results[k]
      BY <2>1 DEF ToolInv, ResultsOwn
    <2>2. CASE results'[k] = msg
      BY <1>3, <1>5, <2>2
    <2> QED
      BY <1>11, <2>1, <2>2
  <1>15. AnsweredInTurn'
    <2>1. tpc' # "spawn"
      BY <1>1
    <2>2. ASSUME NEW t \in 1 .. Len(ids), Passed(t)'
          PROVE  \E k \in 1 .. Len(results') : results'[k].id = ids[t]
      <3>1. t = i \/ Passed(t)
        BY <1>1, <1>3, <2>2 DEF Passed
      <3>2. CASE Passed(t)
        <4>1. PICK k \in 1 .. Len(results) : results[k].id = ids[t]
          BY <3>2 DEF ToolInv, AnsweredInTurn
        <4> QED
          BY <1>12, <4>1
      <3> QED
        BY <1>13, <3>1, <3>2
    <2>3. ASSUME NEW d \in seen'
          PROVE  \E k \in 1 .. Len(results') : results'[k].id = d
      <3>1. CASE d \in seen
        <4>1. PICK k \in 1 .. Len(results) : results[k].id = d
          BY <3>1 DEF ToolInv, AnsweredInTurn
        <4> QED
          BY <1>12, <4>1
      <3>2. CASE d \notin seen
        <4>1. d = ids[i]
          BY <1>2, <2>3, <3>2
        <4> QED
          BY <1>13, <4>1
      <3> QED
        BY <3>1, <3>2
    <2>4. ASSUME NEW k \in 1 .. Len(results'), results'[k].id \in ShortIds
          PROVE  results'[k].id \in seen'
      <3>1. seen \subseteq seen'
        BY <1>2
      <3>2. CASE k \in 1 .. Len(results) /\ results'[k] = results[k]
        BY <2>4, <3>1, <3>2 DEF ToolInv, AnsweredInTurn
      <3>3. CASE results'[k] = msg /\ ids[i] \notin seen
        BY <1>2, <1>5, <2>4, <3>3, PoolAssumption
      <3> QED
        BY <1>11, <3>2, <3>3
    <2>5. ASSUME NEW k \in 1 .. Len(results'), NEW m \in 1 .. Len(results'),
                 results'[k].id = results'[m].id, results'[k].id \in ShortIds
          PROVE  k = m
      <3>1. \A n \in 1 .. Len(results) : results[n].id \in ShortIds => results[n].id \in seen
        BY DEF ToolInv, AnsweredInTurn
      <3>2. CASE results'[k] = results[k] /\ results'[m] = results[m]
                 /\ k \in 1 .. Len(results) /\ m \in 1 .. Len(results)
        BY <2>5, <3>2 DEF ToolInv, AnsweredInTurn
      <3>3. CASE k \in 1 .. Len(results) /\ results'[k] = results[k]
                 /\ results'[m] = msg /\ ids[i] \notin seen
        BY <1>5, <2>5, <3>1, <3>3
      <3>4. CASE m \in 1 .. Len(results) /\ results'[m] = results[m]
                 /\ results'[k] = msg /\ ids[i] \notin seen
        BY <1>5, <2>5, <3>1, <3>4
      <3>5. CASE k = Len(results) + 1 /\ m = Len(results) + 1
        BY <3>5
      <3> QED
        BY <1>11, <3>2, <3>3, <3>4, <3>5
    <2> QED
      BY <1>1, <2>1, <2>2, <2>3, <2>4, <2>5 DEF AnsweredInTurn
  <1> QED
    BY <1>7, <1>8, <1>9, <1>10, <1>14, <1>15 DEF ToolInv

LEMMA ToolStepKeeps == ToolInv /\ [T!Next]_(T!vars) => ToolInv'
  <1> SUFFICES ASSUME ToolInv, UNCHANGED T!vars PROVE ToolInv'
    BY RoundKeeps, SpawnKeeps, LoopEndsKeep, JoinKeeps, ThreadKeeps DEF T!Next, T!LoopStep
  <1>1. UNCHANGED <<tpc, ids, i, inUse, text, output, thread, seen, results, runs>>
    BY DEF T!vars
  <1> QED
    BY <1>1 DEF ToolInv, ToolTypes, CallsInTurn, BuffersApart, OutputsOwn, ResultsOwn,
                AnsweredInTurn, Passed, HoldsBuffer

ToolFocusInv == focus = "tools" => ToolInv

LEMMA ToolFocusKeeps == ToolFocusInv /\ [Next]_vars => ToolFocusInv'
  <1> SUFFICES ASSUME ToolFocusInv, [Next]_vars, focus' = "tools" PROVE ToolInv'
    BY DEF ToolFocusInv
  <1>1. focus = "tools"
    BY DEF Next, RouterStep, CacheStep, ToolStep, vars
  <1>2. [T!Next]_(T!vars)
    BY <1>1 DEF Next, RouterStep, CacheStep, ToolStep, vars, toolVars, T!vars
  <1> QED
    BY <1>1, <1>2, ToolStepKeeps DEF ToolFocusInv

LEMMA ToolsCorrect == Spec => []ToolFocusInv
  <1>1. Init => ToolFocusInv
    BY InitTools DEF Init, ToolFocusInv
  <1> QED
    BY <1>1, ToolFocusKeeps, PTL DEF Spec

(* No two calls of a round ever share an output buffer, a buffer of the     *)
(* pool is free exactly when no call holds it, and what is reported as the  *)
(* result of a call is what a call with that id wrote, having run once      *)
(* (core/agent_loop.c add_tool_result_messages, core/agent_mem.h).          *)
THEOREM OutputsKeptApart == Spec => []OutputsApart
  <1>1. ToolFocusInv => OutputsApart
    <2> SUFFICES ASSUME ToolInv PROVE T!BuffersPrivate /\ T!ResultsAreTheirOwn
      BY DEF ToolFocusInv, OutputsApart
    <2>1. T!BuffersPrivate
      <3>1. \A t, u \in T!Tasks : t # u /\ output[t] # NoBuf => output[t] # output[u]
        BY HeapApart DEF ToolInv, BuffersApart
      <3>2. inUse = {output[t] : t \in T!Tasks} \cap PoolSlots
        BY DEF ToolInv, BuffersApart
      <3>3. tpc = "idle" => inUse = {}
        <4>1. tpc = "idle" => \A t \in T!Tasks : output[t] = NoBuf
          BY DEF ToolInv, CallsInTurn, HoldsBuffer
        <4> QED
          BY <3>2, <4>1, PoolApart
      <3> QED
        BY <3>1, <3>2, <3>3 DEF T!BuffersPrivate
    <2>2. T!ResultsAreTheirOwn
      <3>1. DOMAIN results = 1 .. Len(results)
        BY LenProperties DEF ToolInv, ToolTypes
      <3>2. \A r \in {results[k] : k \in DOMAIN results} :
              r.from # 0 => ids[r.from] = r.id /\ runs[r.from] = 1
        BY <3>1 DEF ToolInv, ResultsOwn
      <3>3. \A t \in T!Tasks : runs[t] <= 1
        BY DEF ToolInv, ToolTypes
      <3>4. tpc = "idle" => \A t \in T!Tasks : thread[t] = "none"
        BY DEF ToolInv, CallsInTurn, HoldsBuffer
      <3> QED
        BY <3>2, <3>3, <3>4 DEF T!ResultsAreTheirOwn
    <2> QED
      BY <2>1, <2>2
  <1> QED
    BY <1>1, ToolsCorrect, PTL

(* When a round is over every call of the response has been answered, and   *)
(* no id of at most 30 characters twice (core/agent_loop.c:291-332).        *)
THEOREM AnsweredOnce == Spec => []EachIdAnsweredOnce
  <1>1. ToolFocusInv => EachIdAnsweredOnce
    <2> SUFFICES ASSUME ToolInv PROVE T!EachIdAnsweredOnce
      BY DEF ToolFocusInv, EachIdAnsweredOnce
    <2>1. DOMAIN results = 1 .. Len(results) /\ DOMAIN ids = 1 .. Len(ids)
      BY LenProperties DEF ToolInv, ToolTypes
    <2> QED
      BY <2>1 DEF T!EachIdAnsweredOnce, ToolInv, AnsweredInTurn, Passed
  <1> QED
    BY <1>1, ToolsCorrect, PTL

(* The router, the cache and the tool round keep to their types.            *)
THEOREM TypesCorrect == Spec => []TypesOK
  <1>1. RouterFocusInv /\ CacheFocusInv /\ ToolFocusInv => TypesOK
    <2>1. CacheInv => C!TypeOK
      BY DEF CacheInv
    <2>2. ToolInv => T!TypeOK
      <3> SUFFICES ASSUME ToolInv PROVE T!TypeOK
        OBVIOUS
      <3>1. ids \in UNION {[1 .. n -> T!Ids] : n \in 0 .. MaxCalls}
        BY LenProperties DEF ToolInv, ToolTypes
      <3>2. i \in 1 .. MaxCalls + 1
        BY TaskBounds DEF ToolInv, ToolTypes
      <3>3. inUse \subseteq PoolSlots
        BY DEF ToolInv, BuffersApart
      <3>4. runs \in [T!Tasks -> Nat]
        BY DEF ToolInv, ToolTypes
      <3> QED
        BY <3>1, <3>2, <3>3, <3>4 DEF T!TypeOK, ToolInv, ToolTypes, Msgs
    <2> QED
      BY <2>1, <2>2 DEF RouterFocusInv, CacheFocusInv, ToolFocusInv, TypesOK
  <1> QED
    BY <1>1, RouterCorrect, CacheCorrect, ToolsCorrect, PTL
=============================================================================
