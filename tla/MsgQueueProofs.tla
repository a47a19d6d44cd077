-------------------------- MODULE MsgQueueProofs --------------------------
(***************************************************************************)
(* Proofs about MsgQueue, for any sets of threads and messages and any     *)
(* positive queue length.                                                  *)
(***************************************************************************)
EXTENDS MsgQueue, FiniteSetTheorems, SequenceTheorems, TLAPS

(* A cursor of the ring, advanced by one, stays a slot index.              *)
LEMMA NextSlot ==
  ASSUME NEW x \in Slots
  PROVE  /\ (x + 1) % QueueLen = IF x + 1 = QueueLen THEN 0 ELSE x + 1
         /\ (x + 1) % QueueLen \in Slots
  <1>1. (x + 1) % QueueLen = IF x + 1 < QueueLen THEN x + 1 ELSE x + 1 - QueueLen
    BY QueueAssumption DEF Slots
  <1> QED
    BY <1>1, QueueAssumption DEF Slots

(* k places after a slot, for a k of at most QueueLen.                     *)
LEMMA SlotAfter ==
  ASSUME NEW h \in Slots, NEW k \in 0 .. QueueLen
  PROVE  /\ (h + k) % QueueLen = IF h + k < QueueLen THEN h + k ELSE h + k - QueueLen
         /\ (h + k) % QueueLen \in Slots
  <1>1. (h + k) % QueueLen = IF h + k < QueueLen THEN h + k ELSE h + k - QueueLen
    BY QueueAssumption DEF Slots
  <1> QED
    BY <1>1, QueueAssumption DEF Slots

-----------------------------------------------------------------------------
(* Type correctness: every step of every thread keeps the cursors inside   *)
(* the ring, the counter between 0 and QueueLen, and the wait sets and the  *)
(* owners within their ranges.                                             *)
LEMMA StoreType ==
  ASSUME TypeOK, NEW m \in Msgs \cup {NoMsg}, Store(m)
  PROVE  /\ items' \in [Slots -> Msgs \cup {NoMsg}]
         /\ head' \in Slots /\ tail' \in Slots
         /\ count' \in 0 .. QueueLen
         /\ owner' \in [Msgs -> Owners]
         /\ notEmptyWait' \in SUBSET Consumers
         /\ notEmptyWoken' \in SUBSET Consumers
  <1>1. tail' \in Slots
    BY NextSlot DEF TypeOK, Store
  <1>2. count' \in 0 .. QueueLen
    BY QueueAssumption DEF TypeOK, Store
  <1>3. owner' \in [Msgs -> Owners]
    BY DEF TypeOK, Store, Owners
  <1>4. notEmptyWait' \in SUBSET Consumers /\ notEmptyWoken' \in SUBSET Consumers
    BY DEF TypeOK, Store, SignalNotEmpty, poppers
  <1> QED
    BY <1>1, <1>2, <1>3, <1>4 DEF TypeOK, Store

LEMMA FetchType ==
  ASSUME TypeOK, NEW c \in Consumers, Fetch(c)
  PROVE  /\ items' \in [Slots -> Msgs \cup {NoMsg}]
         /\ head' \in Slots /\ tail' \in Slots
         /\ count' \in 0 .. QueueLen
         /\ owner' \in [Msgs -> Owners]
         /\ pushing' \in [Producers -> Msgs \cup {NoMsg}]
         /\ notFullWait' \in SUBSET Producers
         /\ notFullWoken' \in SUBSET Producers
  <1>1. head' \in Slots
    BY NextSlot DEF TypeOK, Fetch
  <1>2. count' \in 0 .. QueueLen
    BY QueueAssumption DEF TypeOK, Fetch
  <1>3. owner' \in [Msgs -> Owners]
    BY DEF TypeOK, Fetch, Owners
  <1>4. notFullWait' \in SUBSET Producers /\ notFullWoken' \in SUBSET Producers
    BY DEF TypeOK, Fetch, SignalNotFull
  <1> QED
    BY <1>1, <1>2, <1>3, <1>4 DEF TypeOK, Fetch

LEMMA InitType == Init => TypeOK
  <1> SUFFICES ASSUME Init PROVE TypeOK
    OBVIOUS
  <1>1. 0 \in Slots /\ 0 \in 0 .. QueueLen
    BY QueueAssumption DEF Slots
  <1> QED
    BY <1>1 DEF Init, TypeOK, Owners

LEMMA TypeStep == TypeOK /\ [Next]_vars => TypeOK'
  <1> SUFFICES ASSUME TypeOK, [Next]_vars PROVE TypeOK'
    OBVIOUS
  <1>1. ASSUME NEW p \in Producers, NEW m \in Msgs, Push(p, m) PROVE TypeOK'
    BY <1>1, StoreType DEF TypeOK, Push, pushers, shutdown
  <1>2. ASSUME NEW p \in Producers, NEW m \in Msgs, PushBlocks(p, m) PROVE TypeOK'
    BY <1>2 DEF TypeOK, PushBlocks, ring, poppers, shutdown
  <1>3. ASSUME NEW p \in Producers, PushResumes(p) PROVE TypeOK'
    <2>1. pushing[p] \in Msgs \cup {NoMsg} /\ Store(pushing[p])
      BY <1>3 DEF TypeOK, PushResumes
    <2> QED
      BY <1>3, <2>1, StoreType DEF TypeOK, PushResumes, shutdown
  <1>4. ASSUME NEW p \in Producers, PushWaitsAgain(p) PROVE TypeOK'
    BY <1>4 DEF TypeOK, PushWaitsAgain, ring, poppers, shutdown
  <1>5. ASSUME NEW p \in Producers, PushTimesOut(p) PROVE TypeOK'
    BY <1>5 DEF TypeOK, PushTimesOut, ring, poppers, shutdown
  <1>6. ASSUME NEW p \in Producers, NEW m \in Msgs, Allocate(p, m) PROVE TypeOK'
    BY <1>6 DEF TypeOK, Allocate, ring, pushers, poppers, shutdown, Owners
  <1>7. ASSUME NEW c \in Consumers, Pop(c) PROVE TypeOK'
    BY <1>7, FetchType DEF TypeOK, Pop, poppers, shutdown
  <1>8. ASSUME NEW c \in Consumers, PopBlocks(c) PROVE TypeOK'
    BY <1>8 DEF TypeOK, PopBlocks, ring, pushers, shutdown
  <1>9. ASSUME NEW c \in Consumers, PopResumes(c) PROVE TypeOK'
    BY <1>9, FetchType DEF TypeOK, PopResumes, shutdown
  <1>10. ASSUME NEW c \in Consumers, PopWaitsAgain(c) PROVE TypeOK'
    BY <1>10 DEF TypeOK, PopWaitsAgain, ring, pushers, shutdown
  <1>11. ASSUME NEW c \in Consumers, PopSeesShutdown(c) PROVE TypeOK'
    BY <1>11 DEF TypeOK, PopSeesShutdown, ring, pushers, shutdown
  <1>12. ASSUME NEW c \in Consumers, PopTimesOut(c) PROVE TypeOK'
    BY <1>12 DEF TypeOK, PopTimesOut, ring, pushers, shutdown
  <1>13. ASSUME NEW t \in Producers \cup Consumers, NEW m \in Msgs, Free(t, m)
         PROVE  TypeOK'
    BY <1>13 DEF TypeOK, Free, ring, pushers, poppers, shutdown, Owners
  <1>14. CASE SpuriousWakeup
    BY <1>14 DEF TypeOK, SpuriousWakeup, ring, pushers, poppers, shutdown
  <1>15. CASE WakeupSetsFlag
    BY <1>15 DEF TypeOK, WakeupSetsFlag, ring, pushers, poppers
  <1>16. CASE WakeupBroadcasts
    BY <1>16 DEF TypeOK, WakeupBroadcasts, ring, pushers
  <1>17. CASE UNCHANGED vars
    BY <1>17 DEF TypeOK, vars
  <1> QED
    BY <1>1, <1>2, <1>3, <1>4, <1>5, <1>6, <1>7, <1>8, <1>9, <1>10, <1>11,
       <1>12, <1>13, <1>14, <1>15, <1>16, <1>17 DEF Next, PushStep, PopStep

THEOREM TypeCorrect == Spec => []TypeOK
  BY InitType, TypeStep, PTL DEF Spec

-----------------------------------------------------------------------------
(* The contents of the ring across a store and across a fetch.             *)
LEMMA ContentsAt ==
  ASSUME NEW i \in 1 .. count
  PROVE  Contents[i] = items[(head + (i - 1)) % QueueLen]
  BY DEF Contents

LEMMA StoreContents ==
  ASSUME TypeOK, CursorsAgree, NEW m \in Msgs, Store(m)
  PROVE  /\ count' = count + 1
         /\ \A i \in 1 .. count : Contents'[i] = Contents[i]
         /\ Contents'[count + 1] = m
         /\ CursorsAgree'
  <1> DEFINE Pos(i) == (head + (i - 1)) % QueueLen
  <1>0. /\ head \in Slots /\ tail \in Slots /\ count \in 0 .. QueueLen - 1
        /\ count \in Nat
        /\ items \in [Slots -> Msgs \cup {NoMsg}]
        /\ head' = head /\ count' = count + 1
        /\ tail' = (tail + 1) % QueueLen
        /\ items' = [items EXCEPT ![tail] = m]
    BY QueueAssumption DEF TypeOK, Store
  <1>1. tail = Pos(count + 1)
    BY <1>0 DEF CursorsAgree
  <1>2. ASSUME NEW i \in 1 .. count PROVE Pos(i) \in Slots /\ Pos(i) # tail
    <2>1. /\ i - 1 \in 0 .. QueueLen /\ count \in 0 .. QueueLen
          /\ i - 1 < count
      BY <1>0, QueueAssumption
    <2>2. /\ Pos(i) = IF head + (i - 1) < QueueLen THEN head + (i - 1)
                      ELSE head + (i - 1) - QueueLen
          /\ Pos(i) \in Slots
      BY <1>0, <2>1, SlotAfter
    <2>3. tail = IF head + count < QueueLen THEN head + count
                 ELSE head + count - QueueLen
      BY <1>0, <2>1, SlotAfter DEF CursorsAgree
    <2> QED
      BY <1>0, <2>1, <2>2, <2>3, QueueAssumption DEF Slots
  <1>3. Contents' = [i \in 1 .. count + 1 |-> items'[Pos(i)]]
    BY <1>0 DEF Contents
  <1>4. ASSUME NEW i \in 1 .. count PROVE Contents'[i] = Contents[i]
    <2>1. i \in 1 .. count + 1 /\ Contents'[i] = items'[Pos(i)]
      BY <1>0, <1>3
    <2>2. items'[Pos(i)] = items[Pos(i)]
      BY <1>0, <1>2
    <2> QED
      BY <2>1, <2>2, ContentsAt
  <1>5. Contents'[count + 1] = m
    <2>1. count + 1 \in 1 .. count + 1
      BY <1>0
    <2>2. Contents'[count + 1] = items'[Pos(count + 1)]
      BY <2>1, <1>3
    <2> QED
      BY <2>2, <1>0, <1>1
  <1>6. CursorsAgree'
    <2>0. count \in 0 .. QueueLen
      BY <1>0, QueueAssumption
    <2>1. tail' = IF tail + 1 = QueueLen THEN 0 ELSE tail + 1
      BY <1>0, NextSlot
    <2>2. tail = IF head + count < QueueLen THEN head + count
                 ELSE head + count - QueueLen
      BY <1>0, <2>0, SlotAfter DEF CursorsAgree
    <2>3. (head + (count + 1)) % QueueLen
            = IF head + (count + 1) < QueueLen THEN head + (count + 1)
              ELSE head + (count + 1) - QueueLen
      <3>1. count + 1 \in 0 .. QueueLen
        BY <1>0, QueueAssumption
      <3> QED
        BY <1>0, <3>1, SlotAfter
    <2> QED
      BY <1>0, <2>1, <2>2, <2>3, QueueAssumption DEF CursorsAgree, Slots
  <1> QED
    BY <1>0, <1>4, <1>5, <1>6

LEMMA FetchContents ==
  ASSUME TypeOK, CursorsAgree, NEW c \in Consumers, Fetch(c)
  PROVE  /\ count \in 1 .. QueueLen
         /\ count' = count - 1
         /\ items[head] = Contents[1]
         /\ \A i \in 1 .. count - 1 : Contents'[i] = Contents[i + 1]
         /\ CursorsAgree'
  <1> DEFINE Pos(i) == (head + (i - 1)) % QueueLen
             Pos2(i) == (head' + (i - 1)) % QueueLen
  <1>0. /\ head \in Slots /\ tail \in Slots /\ count \in 1 .. QueueLen
        /\ head' = (head + 1) % QueueLen /\ head' \in Slots
        /\ count' = count - 1 /\ tail' = tail /\ items' = items
    BY NextSlot, QueueAssumption DEF TypeOK, Fetch
  <1>1. head' = IF head + 1 = QueueLen THEN 0 ELSE head + 1
    BY <1>0, NextSlot
  <1>2. items[head] = Contents[1]
    <2>1. Pos(1) = head
      BY <1>0, QueueAssumption DEF Slots
    <2>2. 1 \in 1 .. count
      BY <1>0
    <2> QED
      BY <2>1, <2>2, ContentsAt
  <1>3. ASSUME NEW i \in 1 .. count - 1 PROVE Contents'[i] = Contents[i + 1]
    <2>1. i + 1 \in 1 .. count /\ i - 1 \in 0 .. QueueLen /\ i \in 0 .. QueueLen
      BY <1>0, QueueAssumption
    <2>2. Pos2(i) = IF head' + (i - 1) < QueueLen THEN head' + (i - 1)
                    ELSE head' + (i - 1) - QueueLen
      BY <1>0, <2>1, SlotAfter
    <2>3. (head + i) % QueueLen = IF head + i < QueueLen THEN head + i
                                  ELSE head + i - QueueLen
      BY <1>0, <2>1, SlotAfter
    <2>4. (head + i) % QueueLen = Pos2(i)
      BY <1>0, <1>1, <2>1, <2>2, <2>3, QueueAssumption DEF Slots
    <2>5. Contents'[i] = items'[Pos2(i)]
      BY <1>0 DEF Contents
    <2>6. Contents[i + 1] = items[(head + ((i + 1) - 1)) % QueueLen]
      BY <2>1, ContentsAt
    <2>7. (i + 1) - 1 = i
      BY <2>1
    <2> QED
      BY <1>0, <2>4, <2>5, <2>6, <2>7
  <1>4. CursorsAgree'
    <2>1. count \in 0 .. QueueLen /\ count - 1 \in 0 .. QueueLen
      BY <1>0, QueueAssumption
    <2>2. tail = IF head + count < QueueLen THEN head + count
                 ELSE head + count - QueueLen
      BY <1>0, <2>1, SlotAfter DEF CursorsAgree
    <2>3. (head' + (count - 1)) % QueueLen
            = IF head' + (count - 1) < QueueLen THEN head' + (count - 1)
              ELSE head' + (count - 1) - QueueLen
      BY <1>0, <2>1, SlotAfter
    <2> QED
      BY <1>0, <1>1, <2>1, <2>2, <2>3, QueueAssumption DEF CursorsAgree, Slots
  <1> QED
    BY <1>0, <1>2, <1>3, <1>4

(* A step that does not touch the ring leaves its contents alone.          *)
LEMMA RingUnchanged ==
  ASSUME UNCHANGED ring
  PROVE  /\ Contents' = Contents
         /\ CursorsAgree => CursorsAgree'
  BY DEF ring, Contents, CursorsAgree

-----------------------------------------------------------------------------
(* No thread is in two wait sets of one condition variable at a time: a    *)
(* thread enters one only by going to sleep, when it is in neither.        *)
LEMMA DisjointStep == TypeOK /\ WaitersDisjoint /\ [Next]_vars => WaitersDisjoint'
  <1> SUFFICES ASSUME TypeOK, WaitersDisjoint, [Next]_vars PROVE WaitersDisjoint'
    OBVIOUS
  <1> USE DEF WaitersDisjoint
  <1>1. ASSUME NEW p \in Producers, PushStep(p) PROVE WaitersDisjoint'
    <2>1. ASSUME NEW m \in Msgs, Push(p, m) PROVE WaitersDisjoint'
      BY <2>1 DEF Push, Store, SignalNotEmpty, pushers, poppers
    <2>2. ASSUME NEW m \in Msgs, PushBlocks(p, m) PROVE WaitersDisjoint'
      BY <2>2 DEF PushBlocks, InPush, poppers
    <2>3. CASE PushResumes(p)
      BY <2>3 DEF PushResumes, Store, SignalNotEmpty, poppers
    <2>4. CASE PushWaitsAgain(p)
      BY <2>4 DEF PushWaitsAgain, poppers
    <2>5. CASE PushTimesOut(p)
      BY <2>5 DEF PushTimesOut, poppers
    <2> QED
      BY <1>1, <2>1, <2>2, <2>3, <2>4, <2>5 DEF PushStep
  <1>2. ASSUME NEW c \in Consumers, PopStep(c) PROVE WaitersDisjoint'
    <2>1. CASE Pop(c)
      BY <2>1 DEF Pop, Fetch, SignalNotFull, poppers
    <2>2. CASE PopBlocks(c)
      BY <2>2 DEF PopBlocks, InPop, pushers
    <2>3. CASE PopResumes(c)
      BY <2>3 DEF PopResumes, Fetch, SignalNotFull
    <2>4. CASE PopWaitsAgain(c)
      BY <2>4 DEF PopWaitsAgain, pushers
    <2>5. CASE PopSeesShutdown(c)
      BY <2>5 DEF PopSeesShutdown, pushers
    <2>6. CASE PopTimesOut(c)
      BY <2>6 DEF PopTimesOut, pushers
    <2> QED
      BY <1>2, <2>1, <2>2, <2>3, <2>4, <2>5, <2>6 DEF PopStep
  <1>3. ASSUME NEW p \in Producers, NEW m \in Msgs, Allocate(p, m) PROVE WaitersDisjoint'
    BY <1>3 DEF Allocate, pushers, poppers
  <1>4. ASSUME NEW t \in Producers \cup Consumers, NEW m \in Msgs, Free(t, m)
        PROVE  WaitersDisjoint'
    BY <1>4 DEF Free, pushers, poppers
  <1>5. CASE SpuriousWakeup
    BY <1>5 DEF SpuriousWakeup, pushers, poppers
  <1>6. CASE WakeupSetsFlag
    BY <1>6 DEF WakeupSetsFlag, pushers, poppers
  <1>7. CASE WakeupBroadcasts
    BY <1>7 DEF WakeupBroadcasts, pushers
  <1>8. CASE UNCHANGED vars
    BY <1>8 DEF vars
  <1> QED
    BY <1>1, <1>2, <1>3, <1>4, <1>5, <1>6, <1>7, <1>8 DEF Next

(* Ownership.  CursorsAgree is what makes a store and a fetch act on the   *)
(* ends of Contents; with the types it makes OneOwner inductive.           *)
OwnershipInv == TypeOK /\ WaitersDisjoint /\ CursorsAgree /\ OneOwner

LEMMA StoreOwner ==
  ASSUME TypeOK, CursorsAgree, BusOwnsContents,
         NEW p \in Producers, NEW m \in Msgs, owner[m] = p, Store(m)
  PROVE  /\ BusOwnsContents'
         /\ \A n \in Msgs \ {m} : owner'[n] = owner[n]
  <1>0. /\ count' = count + 1 /\ count \in Nat
        /\ owner \in [Msgs -> Owners] /\ owner' = [owner EXCEPT ![m] = Bus]
        /\ p # Bus
    BY QueueAssumption DEF Store, TypeOK
  <1>1. /\ \A i \in 1 .. count : Contents'[i] = Contents[i]
        /\ Contents'[count + 1] = m
    BY StoreContents
  <1>2. \A i \in 1 .. count + 1 : i \in 1 .. count \/ i = count + 1
    BY <1>0
  <1>3. \A i \in 1 .. count : Contents[i] # m
    BY <1>0 DEF BusOwnsContents
  <1>4. \A i \in 1 .. count' : Contents'[i] \in Msgs /\ owner'[Contents'[i]] = Bus
    BY <1>0, <1>1, <1>2, <1>3 DEF BusOwnsContents
  <1>5. \A i, j \in 1 .. count' : Contents'[i] = Contents'[j] => i = j
    BY <1>0, <1>1, <1>2, <1>3 DEF BusOwnsContents
  <1>6. ASSUME NEW n \in Msgs, owner'[n] = Bus
        PROVE  \E i \in 1 .. count' : Contents'[i] = n
    <2>1. CASE n = m
      BY <2>1, <1>0, <1>1
    <2>2. CASE n # m
      <3>1. PICK i \in 1 .. count : Contents[i] = n
        BY <1>0, <1>6, <2>2 DEF BusOwnsContents
      <3>2. i \in 1 .. count'
        BY <1>0
      <3> QED
        BY <3>1, <3>2, <1>1
    <2> QED
      BY <2>1, <2>2
  <1> QED
    BY <1>0, <1>4, <1>5, <1>6 DEF BusOwnsContents

LEMMA FetchOwner ==
  ASSUME TypeOK, CursorsAgree, OneOwner, NEW c \in Consumers, Fetch(c)
  PROVE  OneOwner' /\ CursorsAgree'
  <1>0. /\ count \in 1 .. QueueLen /\ count' = count - 1
        /\ items[head] = Contents[1]
        /\ \A i \in 1 .. count - 1 : Contents'[i] = Contents[i + 1]
        /\ CursorsAgree'
    BY FetchContents
  <1>1. /\ owner \in [Msgs -> Owners]
        /\ owner' = [owner EXCEPT ![Contents[1]] = c]
        /\ c # Bus /\ QueueLen \in Nat
        /\ pushing' = pushing
        /\ notFullWait' \cup notFullWoken' = notFullWait \cup notFullWoken
        /\ notFullWait \cup notFullWoken \subseteq Producers
    BY <1>0, QueueAssumption DEF Fetch, TypeOK, SignalNotFull
  <1>2. 1 \in 1 .. count /\ \A i \in 1 .. count - 1 : i + 1 \in 1 .. count /\ i + 1 # 1
    BY <1>0, <1>1
  <1>3. Contents[1] \in Msgs /\ owner[Contents[1]] = Bus
    BY <1>2 DEF OneOwner, BusOwnsContents
  <1>4. \A i \in 1 .. count - 1 :
          /\ Contents[i + 1] \in Msgs /\ owner[Contents[i + 1]] = Bus
          /\ Contents[i + 1] # Contents[1]
    BY <1>2 DEF OneOwner, BusOwnsContents
  <1>5. \A i \in 1 .. count' : Contents'[i] \in Msgs /\ owner'[Contents'[i]] = Bus
    BY <1>0, <1>1, <1>4
  <1>6. ASSUME NEW i \in 1 .. count', NEW j \in 1 .. count', Contents'[i] = Contents'[j]
        PROVE  i = j
    <2>1. Contents[i + 1] = Contents[j + 1]
      BY <1>0, <1>6
    <2>2. i + 1 = j + 1
      BY <1>0, <1>2, <2>1 DEF OneOwner, BusOwnsContents
    <2> QED
      BY <2>2, <1>0
  <1>7. ASSUME NEW n \in Msgs, owner'[n] = Bus
        PROVE  \E i \in 1 .. count' : Contents'[i] = n
    <2>1. n # Contents[1] /\ owner[n] = Bus
      BY <1>1, <1>3, <1>7
    <2>2. PICK k \in 1 .. count : Contents[k] = n
      BY <2>1 DEF OneOwner, BusOwnsContents
    <2>3. k # 1
      BY <2>1, <2>2
    <2>4. k - 1 \in 1 .. count - 1 /\ (k - 1) + 1 = k
      BY <1>0, <1>1, <2>3
    <2>5. Contents'[k - 1] = n
      BY <1>0, <2>2, <2>4
    <2> QED
      BY <1>0, <2>4, <2>5
  <1>8. PushersOwnTheirs'
    <2>1. ASSUME NEW p \in notFullWait \cup notFullWoken
          PROVE  pushing[p] \in Msgs /\ owner'[pushing[p]] = p
      <3>1. pushing[p] \in Msgs /\ owner[pushing[p]] = p /\ p # Bus
        BY <1>1, QueueAssumption DEF OneOwner, PushersOwnTheirs
      <3> QED
        BY <3>1, <1>1, <1>3
    <2> QED
      BY <2>1, <1>1 DEF PushersOwnTheirs
  <1> QED
    BY <1>0, <1>5, <1>6, <1>7, <1>8 DEF OneOwner, BusOwnsContents

(* A step that leaves the ring alone keeps the bus's part of OneOwner if   *)
(* it neither gives a message to the bus nor takes one from it.            *)
LEMMA RingStaysOwned ==
  ASSUME BusOwnsContents, UNCHANGED ring,
         \A n \in Msgs : (owner'[n] = Bus) <=> (owner[n] = Bus)
  PROVE  BusOwnsContents'
  <1>1. Contents' = Contents /\ count' = count
    BY RingUnchanged DEF ring
  <1> QED
    BY <1>1 DEF BusOwnsContents

LEMMA OwnershipInit == Init => OwnershipInv
  <1> SUFFICES ASSUME Init PROVE OwnershipInv
    OBVIOUS
  <1>1. TypeOK
    BY InitType
  <1>2. CursorsAgree
    BY QueueAssumption DEF Init, CursorsAgree
  <1>3. BusOwnsContents
    BY QueueAssumption DEF Init, BusOwnsContents
  <1>4. PushersOwnTheirs
    BY DEF Init, PushersOwnTheirs
  <1>5. WaitersDisjoint
    BY DEF Init, WaitersDisjoint
  <1> QED
    BY <1>1, <1>2, <1>3, <1>4, <1>5 DEF OwnershipInv, OneOwner

LEMMA OwnershipStep == OwnershipInv /\ [Next]_vars => OwnershipInv'
  <1> SUFFICES ASSUME OwnershipInv, [Next]_vars PROVE OwnershipInv'
    OBVIOUS
  <1> USE DEF OwnershipInv
  <1>0. TypeOK' /\ WaitersDisjoint'
    BY TypeStep, DisjointStep
  <1>1. ASSUME NEW p \in Producers, NEW m \in Msgs, Push(p, m)
        PROVE  OneOwner' /\ CursorsAgree'
    <2>1. owner[m] = p /\ Store(m) /\ UNCHANGED pushers /\ ~InPush(p)
      BY <1>1 DEF Push
    <2>2. BusOwnsContents' /\ \A n \in Msgs \ {m} : owner'[n] = owner[n]
      BY <2>1, StoreOwner DEF OneOwner
    <2>3. CursorsAgree'
      BY <2>1, StoreContents
    <2>4. PushersOwnTheirs'
      BY <2>1, <2>2 DEF OneOwner, PushersOwnTheirs, pushers, InPush
    <2> QED
      BY <2>2, <2>3, <2>4 DEF OneOwner
  <1>2. ASSUME NEW p \in Producers, NEW m \in Msgs, PushBlocks(p, m)
        PROVE  OneOwner' /\ CursorsAgree'
    <2>1. BusOwnsContents' /\ CursorsAgree'
      BY <1>2, RingStaysOwned, RingUnchanged DEF PushBlocks, OneOwner
    <2>2. PushersOwnTheirs'
      BY <1>2 DEF PushBlocks, OneOwner, PushersOwnTheirs, TypeOK
    <2> QED
      BY <2>1, <2>2 DEF OneOwner
  <1>3. ASSUME NEW p \in Producers, PushResumes(p)
        PROVE  OneOwner' /\ CursorsAgree'
    <2> DEFINE m == pushing[p]
    <2>1. m \in Msgs /\ owner[m] = p /\ Store(m)
      BY <1>3 DEF PushResumes, OneOwner, PushersOwnTheirs
    <2>2. BusOwnsContents' /\ \A n \in Msgs \ {m} : owner'[n] = owner[n]
      BY <2>1, StoreOwner DEF OneOwner
    <2>3. CursorsAgree'
      BY <2>1, StoreContents
    <2>4. ASSUME NEW q \in notFullWait' \cup notFullWoken', q # p
          PROVE  pushing'[q] \in Msgs /\ owner'[pushing'[q]] = q
      <3>1. q \in notFullWait \cup notFullWoken /\ q \in Producers
        BY <1>3, <2>4 DEF PushResumes, TypeOK
      <3>2. pushing'[q] = pushing[q]
        BY <1>3, <2>4, <3>1 DEF PushResumes, TypeOK
      <3>3. pushing[q] \in Msgs /\ owner[pushing[q]] = q
        BY <3>1 DEF OneOwner, PushersOwnTheirs
      <3>4. pushing[q] # m
        BY <2>1, <2>4, <3>3
      <3> QED
        BY <2>2, <3>2, <3>3, <3>4
    <2>5. p \notin notFullWait' \cup notFullWoken'
      BY <1>3 DEF PushResumes, WaitersDisjoint
    <2> QED
      BY <2>2, <2>3, <2>4, <2>5 DEF OneOwner, PushersOwnTheirs
  <1>4. ASSUME NEW p \in Producers, PushWaitsAgain(p) PROVE OneOwner' /\ CursorsAgree'
    <2>1. BusOwnsContents' /\ CursorsAgree'
      BY <1>4, RingStaysOwned, RingUnchanged DEF PushWaitsAgain, OneOwner
    <2> QED
      BY <1>4, <2>1 DEF PushWaitsAgain, OneOwner, PushersOwnTheirs
  <1>5. ASSUME NEW p \in Producers, PushTimesOut(p) PROVE OneOwner' /\ CursorsAgree'
    <2>1. BusOwnsContents' /\ CursorsAgree'
      BY <1>5, RingStaysOwned, RingUnchanged DEF PushTimesOut, OneOwner
    <2>2. PushersOwnTheirs'
      BY <1>5 DEF PushTimesOut, OneOwner, PushersOwnTheirs, WaitersDisjoint, TypeOK
    <2> QED
      BY <2>1, <2>2 DEF OneOwner
  <1>6. ASSUME NEW p \in Producers, NEW m \in Msgs, Allocate(p, m)
        PROVE  OneOwner' /\ CursorsAgree'
    <2>1. /\ owner[m] = Nobody /\ owner' = [owner EXCEPT ![m] = p]
          /\ Nobody # Bus /\ p # Bus /\ UNCHANGED ring
      BY <1>6, QueueAssumption DEF Allocate
    <2>2. \A n \in Msgs : (owner'[n] = Bus) <=> (owner[n] = Bus)
      BY <2>1 DEF TypeOK
    <2>3. BusOwnsContents' /\ CursorsAgree'
      BY <2>1, <2>2, RingStaysOwned, RingUnchanged DEF OneOwner
    <2>4. PushersOwnTheirs'
      <3>1. ASSUME NEW q \in notFullWait \cup notFullWoken
            PROVE  pushing[q] \in Msgs /\ owner'[pushing[q]] = q
        <4>1. /\ pushing[q] \in Msgs /\ owner[pushing[q]] = q
              /\ q \in Producers /\ q # Nobody
          BY QueueAssumption DEF OneOwner, PushersOwnTheirs, TypeOK
        <4> QED
          BY <4>1, <2>1 DEF TypeOK
      <3> QED
        BY <3>1, <1>6 DEF Allocate, pushers, PushersOwnTheirs
    <2> QED
      BY <2>3, <2>4 DEF OneOwner
  <1>7. ASSUME NEW c \in Consumers, Pop(c) PROVE OneOwner' /\ CursorsAgree'
    BY <1>7, FetchOwner DEF Pop
  <1>8. ASSUME NEW c \in Consumers, PopResumes(c) PROVE OneOwner' /\ CursorsAgree'
    BY <1>8, FetchOwner DEF PopResumes
  <1>9. ASSUME NEW c \in Consumers,
               PopBlocks(c) \/ PopWaitsAgain(c) \/ PopSeesShutdown(c) \/ PopTimesOut(c)
        PROVE  OneOwner' /\ CursorsAgree'
    <2>1. UNCHANGED <<ring, owner, pushers>>
      BY <1>9 DEF PopBlocks, PopWaitsAgain, PopSeesShutdown, PopTimesOut
    <2>2. BusOwnsContents' /\ CursorsAgree'
      BY <2>1, RingStaysOwned, RingUnchanged DEF OneOwner
    <2> QED
      BY <2>1, <2>2 DEF OneOwner, PushersOwnTheirs, pushers
  <1>10. ASSUME NEW t \in Producers \cup Consumers, NEW m \in Msgs, Free(t, m)
         PROVE  OneOwner' /\ CursorsAgree'
    <2>1. /\ owner[m] = t /\ owner' = [owner EXCEPT ![m] = Nobody]
          /\ Nobody # Bus /\ t # Bus /\ ~InPush(t) /\ UNCHANGED <<ring, pushers>>
      BY <1>10, QueueAssumption DEF Free
    <2>2. \A n \in Msgs : (owner'[n] = Bus) <=> (owner[n] = Bus)
      BY <2>1 DEF TypeOK
    <2>3. BusOwnsContents' /\ CursorsAgree'
      BY <2>1, <2>2, RingStaysOwned, RingUnchanged DEF OneOwner
    <2>4. PushersOwnTheirs'
      <3>1. ASSUME NEW q \in notFullWait \cup notFullWoken
            PROVE  pushing[q] \in Msgs /\ owner'[pushing[q]] = q
        <4>1. pushing[q] \in Msgs /\ owner[pushing[q]] = q /\ q # t
          BY <2>1 DEF OneOwner, PushersOwnTheirs, InPush
        <4> QED
          BY <4>1, <2>1 DEF TypeOK
      <3> QED
        BY <3>1, <2>1 DEF pushers, PushersOwnTheirs
    <2> QED
      BY <2>3, <2>4 DEF OneOwner
  <1>11. ASSUME SpuriousWakeup PROVE OneOwner' /\ CursorsAgree'
    <2>1. /\ UNCHANGED <<ring, owner, pushing>>
          /\ notFullWait' \cup notFullWoken' = notFullWait \cup notFullWoken
      <3>1. CASE \E p \in notFullWait : /\ notFullWait' = notFullWait \ {p}
                                        /\ notFullWoken' = notFullWoken \cup {p}
                                        /\ UNCHANGED <<ring, owner, pushing>>
        BY <3>1
      <3>2. CASE UNCHANGED <<ring, owner, pushers>>
        BY <3>2 DEF pushers
      <3> QED
        BY <1>11, <3>1, <3>2 DEF SpuriousWakeup
    <2>2. BusOwnsContents' /\ CursorsAgree'
      BY <2>1, RingStaysOwned, RingUnchanged DEF OneOwner
    <2>3. PushersOwnTheirs'
      <3>1. ASSUME NEW q \in notFullWait' \cup notFullWoken'
            PROVE  pushing'[q] \in Msgs /\ owner'[pushing'[q]] = q
        BY <2>1 DEF OneOwner, PushersOwnTheirs
      <3> QED
        BY <3>1 DEF PushersOwnTheirs
    <2> QED
      BY <2>2, <2>3 DEF OneOwner
  <1>12. ASSUME WakeupSetsFlag \/ WakeupBroadcasts \/ UNCHANGED vars
         PROVE  OneOwner' /\ CursorsAgree'
    <2>1. UNCHANGED <<ring, owner, pushers>>
      BY <1>12 DEF WakeupSetsFlag, WakeupBroadcasts, vars, ring, pushers
    <2>2. BusOwnsContents' /\ CursorsAgree'
      BY <2>1, RingStaysOwned, RingUnchanged DEF OneOwner
    <2> QED
      BY <2>1, <2>2 DEF OneOwner, PushersOwnTheirs, pushers
  <1>13. OneOwner' /\ CursorsAgree'
    BY <1>1, <1>2, <1>3, <1>4, <1>5, <1>6, <1>7, <1>8, <1>9, <1>10, <1>11,
       <1>12 DEF Next, PushStep, PopStep
  <1> QED
    BY <1>0, <1>13

(* message_bus.h:56-64, for any number of threads, messages and slots: a   *)
(* queued message belongs to the bus alone, is queued once, and a pusher    *)
(* whose call has not returned still owns what it carries.                  *)
THEOREM Ownership == Spec => [](OneOwner /\ CursorsAgree)
  <1>1. OwnershipInv => OneOwner /\ CursorsAgree
    BY DEF OwnershipInv
  <1> QED
    BY <1>1, OwnershipInit, OwnershipStep, PTL DEF Spec

-----------------------------------------------------------------------------
(* The refinement: the ring is the FIFO of message_bus.h.  A store is an   *)
(* Accept, a fetch is a Deliver, everything else on the ring stutters.     *)
LEMMA ContentsIsSeq ==
  OwnershipInv => Contents \in Seq(Msgs) /\ Len(Contents) = count
  <1> SUFFICES ASSUME OwnershipInv
               PROVE  Contents \in Seq(Msgs) /\ Len(Contents) = count
    OBVIOUS
  <1>1. count \in Nat
    BY QueueAssumption DEF OwnershipInv, TypeOK
  <1>2. \A i \in 1 .. count : Contents[i] \in Msgs
    BY DEF OwnershipInv, OneOwner, BusOwnsContents
  <1>3. Contents \in [1 .. count -> Msgs]
    BY <1>2 DEF Contents
  <1> QED
    BY <1>1, <1>3

LEMMA StoreAppends ==
  ASSUME OwnershipInv, OwnershipInv', NEW m \in Msgs, Store(m)
  PROVE  Contents' = Append(Contents, m)
  <1>1. Contents \in Seq(Msgs) /\ Len(Contents) = count
    BY ContentsIsSeq
  <1>2. (Contents \in Seq(Msgs) /\ Len(Contents) = count)'
    BY ContentsIsSeq, PTL
  <1>3. /\ count' = count + 1 /\ count \in Nat
        /\ \A i \in 1 .. count : Contents'[i] = Contents[i]
        /\ Contents'[count + 1] = m
    BY StoreContents, <1>1 DEF OwnershipInv
  <1>4. /\ Append(Contents, m) \in Seq(Msgs)
        /\ Len(Append(Contents, m)) = count + 1
        /\ \A i \in 1 .. count : Append(Contents, m)[i] = Contents[i]
        /\ Append(Contents, m)[count + 1] = m
    BY <1>1, <1>3, AppendProperties
  <1>5. \A i \in 1 .. count + 1 : i \in 1 .. count \/ i = count + 1
    BY <1>3
  <1>6. \A i \in 1 .. Len(Contents') : Contents'[i] = Append(Contents, m)[i]
    BY <1>2, <1>3, <1>4, <1>5
  <1> QED
    BY <1>2, <1>3, <1>4, <1>6, SeqEqual

LEMMA FetchDelivers ==
  ASSUME OwnershipInv, OwnershipInv', NEW c \in Consumers, Fetch(c)
  PROVE  /\ Contents # <<>>
         /\ items[head] = Head(Contents)
         /\ Contents' = Tail(Contents)
  <1>1. Contents \in Seq(Msgs) /\ Len(Contents) = count
    BY ContentsIsSeq
  <1>2. (Contents \in Seq(Msgs) /\ Len(Contents) = count)'
    BY ContentsIsSeq, PTL
  <1>3. /\ count' = count - 1 /\ count \in Nat /\ count > 0
        /\ \A i \in 1 .. count - 1 : Contents'[i] = Contents[i + 1]
        /\ items[head] = Contents[1]
    BY FetchContents, <1>1, QueueAssumption DEF OwnershipInv
  <1>4. Contents # <<>>
    BY <1>1, <1>3
  <1>5. /\ Tail(Contents) \in Seq(Msgs)
        /\ Len(Tail(Contents)) = count - 1
        /\ \A i \in 1 .. count - 1 : Tail(Contents)[i] = Contents[i + 1]
        /\ Head(Contents) = Contents[1]
    BY <1>1, <1>4, HeadTailProperties
  <1>6. \A i \in 1 .. Len(Contents') : Contents'[i] = Tail(Contents)[i]
    BY <1>2, <1>3, <1>5
  <1>7. Contents' = Tail(Contents)
    BY <1>2, <1>3, <1>5, <1>6, SeqEqual
  <1> QED
    BY <1>3, <1>4, <1>5, <1>7

LEMMA RefinesInit == Init => Fifo!Init
  <1> SUFFICES ASSUME Init PROVE Fifo!Init
    OBVIOUS
  <1>1. Contents = <<>>
    BY DEF Init, Contents
  <1> QED
    BY <1>1 DEF Init, Fifo!Init

LEMMA RefinesStep ==
  OwnershipInv /\ OwnershipInv' /\ [Next]_vars => [Fifo!Next]_(Fifo!vars)
  <1> SUFFICES ASSUME OwnershipInv, OwnershipInv', [Next]_vars
               PROVE  Fifo!Next \/ UNCHANGED Fifo!vars
    BY DEF Fifo!vars
  <1>0. Len(Contents) = count
    BY ContentsIsSeq
  <1>1. ASSUME NEW p \in Producers, NEW m \in Msgs, owner[m] = p, Store(m)
        PROVE  Fifo!Accept(p, m)
    BY <1>0, <1>1, StoreAppends DEF Fifo!Accept, Store
  <1>2. ASSUME NEW c \in Consumers, Fetch(c) PROVE Fifo!Deliver(c)
    BY <1>2, FetchDelivers DEF Fifo!Deliver, Fetch
  <1>3. ASSUME UNCHANGED <<ring, owner>> PROVE UNCHANGED Fifo!vars
    BY <1>3, RingUnchanged DEF Fifo!vars
  <1>4. ASSUME NEW p \in Producers, PushStep(p) PROVE Fifo!Next \/ UNCHANGED Fifo!vars
    <2>1. ASSUME NEW m \in Msgs, Push(p, m) PROVE Fifo!Next
      BY <2>1, <1>1 DEF Push, Fifo!Next
    <2>2. ASSUME NEW m \in Msgs, PushBlocks(p, m) PROVE UNCHANGED Fifo!vars
      BY <2>2, <1>3 DEF PushBlocks
    <2>3. CASE PushResumes(p)
      <3>1. pushing[p] \in Msgs /\ owner[pushing[p]] = p /\ Store(pushing[p])
        BY <2>3 DEF PushResumes, OwnershipInv, OneOwner, PushersOwnTheirs
      <3> QED
        BY <3>1, <1>1 DEF Fifo!Next
    <2>4. CASE PushWaitsAgain(p) \/ PushTimesOut(p)
      BY <2>4, <1>3 DEF PushWaitsAgain, PushTimesOut
    <2> QED
      BY <1>4, <2>1, <2>2, <2>3, <2>4 DEF PushStep
  <1>5. ASSUME NEW c \in Consumers, PopStep(c) PROVE Fifo!Next \/ UNCHANGED Fifo!vars
    <2>1. CASE Pop(c) \/ PopResumes(c)
      BY <2>1, <1>2 DEF Pop, PopResumes, Fifo!Next
    <2>2. CASE PopBlocks(c) \/ PopWaitsAgain(c) \/ PopSeesShutdown(c) \/ PopTimesOut(c)
      BY <2>2, <1>3 DEF PopBlocks, PopWaitsAgain, PopSeesShutdown, PopTimesOut
    <2> QED
      BY <1>5, <2>1, <2>2 DEF PopStep
  <1>6. ASSUME NEW p \in Producers, NEW m \in Msgs, Allocate(p, m) PROVE Fifo!Next
    <2>1. Fifo!Allocate(p, m)
      BY <1>6, RingUnchanged DEF Allocate, Fifo!Allocate
    <2> QED
      BY <2>1 DEF Fifo!Next
  <1>7. ASSUME NEW t \in Producers \cup Consumers, NEW m \in Msgs, Free(t, m)
        PROVE  Fifo!Next
    <2>1. Fifo!Free(t, m)
      BY <1>7, RingUnchanged DEF Free, Fifo!Free
    <2> QED
      BY <2>1 DEF Fifo!Next
  <1>8. CASE SpuriousWakeup \/ WakeupSetsFlag \/ WakeupBroadcasts \/ UNCHANGED vars
    <2>1. UNCHANGED <<ring, owner>>
      BY <1>8 DEF SpuriousWakeup, WakeupSetsFlag, WakeupBroadcasts, vars, ring
    <2> QED
      BY <2>1, <1>3
  <1> QED
    BY <1>4, <1>5, <1>6, <1>7, <1>8 DEF Next

(* Whatever the threads do, messages leave a queue in the order in which   *)
(* pushes succeeded, each of them once, and change owner only where        *)
(* message_bus.h says so: the ring implements the abstract FIFO.           *)
THEOREM ImplementsFifo == Spec => FifoSpec
  BY OwnershipInit, OwnershipStep, RefinesInit, RefinesStep, PTL
  DEF Spec, FifoSpec, Fifo!Spec

-----------------------------------------------------------------------------
(* Lost wakeups.                                                           *)
WakeupInv == TypeOK /\ WaitersDisjoint /\ NoLostWakeup

LEMMA AddOne ==
  ASSUME NEW S, IsFiniteSet(S), NEW x, x \notin S
  PROVE  /\ Cardinality(S \cup {x}) = Cardinality(S) + 1
         /\ Cardinality(S) \in Nat
  BY FS_AddElement, FS_CardinalityType

LEMMA RemoveOne ==
  ASSUME NEW S, IsFiniteSet(S), NEW x \in S
  PROVE  /\ Cardinality(S \ {x}) = Cardinality(S) - 1
         /\ Cardinality(S) \in Nat /\ Cardinality(S \ {x}) \in Nat
  BY FS_RemoveElement, FS_CardinalityType

LEMMA WokenFinite ==
  ASSUME TypeOK
  PROVE  /\ IsFiniteSet(notFullWoken) /\ Cardinality(notFullWoken) \in Nat
         /\ IsFiniteSet(notEmptyWoken) /\ Cardinality(notEmptyWoken) \in Nat
  BY FiniteThreads, FS_Subset, FS_CardinalityType DEF TypeOK

(* What each half of NoLostWakeup says of one condition variable.          *)
PoppersServed == notEmptyWait # {} => Cardinality(notEmptyWoken) >= count
PushersServed == notFullWait # {} => Cardinality(notFullWoken) >= QueueLen - count

(* A store raises count by one and wakes a popper if any sleeps.           *)
LEMMA StoreServes ==
  ASSUME WakeupInv, NEW m, Store(m)
  PROVE  PoppersServed' /\ count' = count + 1 /\ count \in Nat
  <1>1. count' = count + 1 /\ count \in Nat
    BY QueueAssumption DEF WakeupInv, TypeOK, Store
  <1>2. CASE notEmptyWait = {}
    BY <1>1, <1>2 DEF Store, SignalNotEmpty, poppers, PoppersServed
  <1>3. CASE notEmptyWait # {}
    <2>1. PICK c \in notEmptyWait : notEmptyWoken' = notEmptyWoken \cup {c}
      BY <1>3 DEF Store, SignalNotEmpty
    <2>2. c \notin notEmptyWoken
      BY DEF WakeupInv, WaitersDisjoint
    <2>3. /\ Cardinality(notEmptyWoken') = Cardinality(notEmptyWoken) + 1
          /\ Cardinality(notEmptyWoken) \in Nat
      BY <2>1, <2>2, WokenFinite, AddOne DEF WakeupInv
    <2>4. Cardinality(notEmptyWoken) >= count
      BY <1>3 DEF WakeupInv, NoLostWakeup
    <2> QED
      BY <1>1, <2>3, <2>4 DEF PoppersServed
  <1> QED
    BY <1>1, <1>2, <1>3

(* A fetch frees one slot and wakes a pusher if any sleeps.                *)
LEMMA FetchServes ==
  ASSUME WakeupInv, NEW c, Fetch(c)
  PROVE  PushersServed' /\ count' = count - 1 /\ count \in Nat /\ count > 0
  <1>1. count' = count - 1 /\ count \in Nat /\ count > 0 /\ QueueLen \in Nat
    BY QueueAssumption DEF WakeupInv, TypeOK, Fetch
  <1>2. CASE notFullWait = {}
    BY <1>1, <1>2 DEF Fetch, SignalNotFull, PushersServed
  <1>3. CASE notFullWait # {}
    <2>1. PICK p \in notFullWait : notFullWoken' = notFullWoken \cup {p}
      BY <1>3 DEF Fetch, SignalNotFull
    <2>2. p \notin notFullWoken
      BY DEF WakeupInv, WaitersDisjoint
    <2>3. /\ Cardinality(notFullWoken') = Cardinality(notFullWoken) + 1
          /\ Cardinality(notFullWoken) \in Nat
      BY <2>1, <2>2, WokenFinite, AddOne DEF WakeupInv
    <2>4. Cardinality(notFullWoken) >= QueueLen - count
      BY <1>3 DEF WakeupInv, NoLostWakeup
    <2> QED
      BY <1>1, <2>3, <2>4 DEF PushersServed
  <1> QED
    BY <1>1, <1>2, <1>3

LEMMA WakeupStep == WakeupInv /\ [Next]_vars => WakeupInv'
  <1> SUFFICES ASSUME WakeupInv, [Next]_vars PROVE WakeupInv'
    OBVIOUS
  <1>0. /\ TypeOK' /\ WaitersDisjoint'
        /\ TypeOK /\ WaitersDisjoint /\ PoppersServed /\ PushersServed
        /\ QueueLen \in Nat /\ count \in Nat /\ count <= QueueLen
    BY TypeStep, DisjointStep, QueueAssumption
    DEF WakeupInv, NoLostWakeup, PoppersServed, PushersServed, TypeOK
  <1>1. /\ IsFiniteSet(notFullWoken) /\ Cardinality(notFullWoken) \in Nat
        /\ IsFiniteSet(notEmptyWoken) /\ Cardinality(notEmptyWoken) \in Nat
    BY <1>0, WokenFinite
  <1>2. ASSUME NEW p \in Producers, PushStep(p) PROVE PoppersServed' /\ PushersServed'
    <2>1. ASSUME NEW m \in Msgs, Push(p, m) PROVE PoppersServed' /\ PushersServed'
      <3>1. Store(m) /\ UNCHANGED pushers
        BY <2>1 DEF Push
      <3>2. PoppersServed' /\ count' = count + 1
        BY <3>1, StoreServes
      <3> QED
        BY <3>1, <3>2, <1>0, <1>1 DEF pushers, PushersServed
    <2>2. ASSUME NEW m \in Msgs, PushBlocks(p, m) PROVE PoppersServed' /\ PushersServed'
      BY <2>2, <1>0, <1>1 DEF PushBlocks, ring, poppers, PoppersServed, PushersServed
    <2>3. CASE PushResumes(p)
      <3>1. /\ p \in notFullWoken /\ Store(pushing[p])
            /\ notFullWoken' = notFullWoken \ {p} /\ notFullWait' = notFullWait
        BY <2>3 DEF PushResumes
      <3>2. PoppersServed' /\ count' = count + 1
        BY <3>1, StoreServes
      <3>3. /\ Cardinality(notFullWoken') = Cardinality(notFullWoken) - 1
            /\ Cardinality(notFullWoken') \in Nat
        BY <3>1, <1>1, RemoveOne
      <3> QED
        BY <3>1, <3>2, <3>3, <1>0, <1>1 DEF PushersServed
    <2>4. CASE PushWaitsAgain(p)
      <3>1. /\ p \in notFullWoken /\ count >= QueueLen
            /\ notFullWoken' = notFullWoken \ {p}
            /\ UNCHANGED <<ring, poppers>>
        BY <2>4 DEF PushWaitsAgain
      <3>2. Cardinality(notFullWoken') \in Nat
        BY <3>1, <1>1, RemoveOne
      <3> QED
        BY <3>1, <3>2, <1>0, <1>1 DEF ring, poppers, PoppersServed, PushersServed
    <2>5. CASE PushTimesOut(p)
      BY <2>5, <1>0, <1>1 DEF PushTimesOut, ring, poppers, PoppersServed, PushersServed
    <2> QED
      BY <1>2, <2>1, <2>2, <2>3, <2>4, <2>5 DEF PushStep
  <1>3. ASSUME NEW c \in Consumers, PopStep(c) PROVE PoppersServed' /\ PushersServed'
    <2>1. CASE Pop(c)
      <3>1. Fetch(c) /\ UNCHANGED poppers
        BY <2>1 DEF Pop
      <3>2. PushersServed' /\ count' = count - 1
        BY <3>1, FetchServes
      <3> QED
        BY <3>1, <3>2, <1>0, <1>1 DEF poppers, PoppersServed
    <2>2. CASE PopBlocks(c)
      BY <2>2, <1>0, <1>1 DEF PopBlocks, ring, pushers, PoppersServed, PushersServed
    <2>3. CASE PopResumes(c)
      <3>1. /\ c \in notEmptyWoken /\ Fetch(c)
            /\ notEmptyWoken' = notEmptyWoken \ {c} /\ notEmptyWait' = notEmptyWait
        BY <2>3 DEF PopResumes
      <3>2. PushersServed' /\ count' = count - 1
        BY <3>1, FetchServes
      <3>3. Cardinality(notEmptyWoken') = Cardinality(notEmptyWoken) - 1
        BY <3>1, <1>1, RemoveOne
      <3> QED
        BY <3>1, <3>2, <3>3, <1>0, <1>1 DEF PoppersServed
    <2>4. CASE PopWaitsAgain(c) \/ PopSeesShutdown(c)
      <3>1. /\ c \in notEmptyWoken /\ count = 0
            /\ notEmptyWoken' = notEmptyWoken \ {c}
            /\ UNCHANGED <<ring, pushers>>
        BY <2>4 DEF PopWaitsAgain, PopSeesShutdown
      <3>2. Cardinality(notEmptyWoken') \in Nat
        BY <3>1, <1>1, RemoveOne
      <3> QED
        BY <3>1, <3>2, <1>0, <1>1 DEF ring, pushers, PoppersServed, PushersServed
    <2>5. CASE PopTimesOut(c)
      BY <2>5, <1>0, <1>1 DEF PopTimesOut, ring, pushers, PoppersServed, PushersServed
    <2> QED
      BY <1>3, <2>1, <2>2, <2>3, <2>4, <2>5 DEF PopStep
  <1>4. ASSUME UNCHANGED <<ring, pushers, poppers>> PROVE PoppersServed' /\ PushersServed'
    BY <1>4, <1>0 DEF ring, pushers, poppers, PoppersServed, PushersServed
  <1>5. ASSUME SpuriousWakeup PROVE PoppersServed' /\ PushersServed'
    <2>1. ASSUME NEW p \in notFullWait,
                 notFullWoken' = notFullWoken \cup {p}, UNCHANGED <<ring, poppers>>
          PROVE  PoppersServed' /\ PushersServed'
      <3>1. Cardinality(notFullWoken') = Cardinality(notFullWoken) + 1
        BY <2>1, <1>0, <1>1, AddOne DEF WaitersDisjoint
      <3> QED
        BY <2>1, <3>1, <1>0, <1>1 DEF ring, poppers, PoppersServed, PushersServed
    <2>2. ASSUME NEW c \in notEmptyWait,
                 notEmptyWoken' = notEmptyWoken \cup {c}, UNCHANGED <<ring, pushers>>
          PROVE  PoppersServed' /\ PushersServed'
      <3>1. Cardinality(notEmptyWoken') = Cardinality(notEmptyWoken) + 1
        BY <2>2, <1>0, <1>1, AddOne DEF WaitersDisjoint
      <3> QED
        BY <2>2, <3>1, <1>0, <1>1 DEF ring, pushers, PoppersServed, PushersServed
    <2> QED
      BY <1>5, <2>1, <2>2 DEF SpuriousWakeup
  <1>6. ASSUME WakeupBroadcasts PROVE PoppersServed' /\ PushersServed'
    BY <1>6, <1>0 DEF WakeupBroadcasts, ring, pushers, PoppersServed, PushersServed
  <1>7. PoppersServed' /\ PushersServed'
    <2>1. CASE UNCHANGED <<ring, pushers, poppers>>
      BY <2>1, <1>4
    <2>2. CASE WakeupSetsFlag \/ UNCHANGED vars
               \/ (\E p \in Producers, m \in Msgs : Allocate(p, m))
               \/ (\E t \in Producers \cup Consumers, m \in Msgs : Free(t, m))
      BY <2>2, <1>4 DEF WakeupSetsFlag, Allocate, Free, vars, ring, pushers, poppers
    <2> QED
      BY <2>2, <1>2, <1>3, <1>5, <1>6 DEF Next
  <1> QED
    BY <1>0, <1>7 DEF WakeupInv, NoLostWakeup, PoppersServed, PushersServed

(* No signal is lost, however many threads push and pop: while a popper     *)
(* sleeps every queued message has a popper on its way to it, and while a   *)
(* pusher sleeps every free slot has a pusher on its way to it.             *)
THEOREM NoWakeupIsLost == Spec => []NoLostWakeup
  <1>1. Init => WakeupInv
    BY InitType, QueueAssumption DEF Init, WakeupInv, WaitersDisjoint, NoLostWakeup
  <1>2. WakeupInv => NoLostWakeup
    BY DEF WakeupInv
  <1> QED
    BY <1>1, <1>2, WakeupStep, PTL DEF Spec

-----------------------------------------------------------------------------
(* Shutdown.  The flag is set before the broadcast, and a popper looks at   *)
(* it, under the mutex, before every wait.                                  *)
ShutdownInv == /\ wakeup # "not_called" => busShutdown
               /\ NobodySleepsAfterWakeup

LEMMA ShutdownStep == ShutdownInv /\ [Next]_vars => ShutdownInv'
  <1> SUFFICES ASSUME ShutdownInv, [Next]_vars PROVE ShutdownInv'
    OBVIOUS
  <1> USE DEF ShutdownInv, NobodySleepsAfterWakeup
  <1>1. ASSUME UNCHANGED shutdown, notEmptyWait' \subseteq notEmptyWait
        PROVE  ShutdownInv'
    BY <1>1 DEF shutdown
  <1>2. ASSUME NEW p \in Producers, PushStep(p) PROVE ShutdownInv'
    <2>1. UNCHANGED shutdown
      BY <1>2 DEF PushStep, Push, PushBlocks, PushResumes, PushWaitsAgain, PushTimesOut
    <2>2. notEmptyWait' \subseteq notEmptyWait
      BY <1>2 DEF PushStep, Push, PushBlocks, PushResumes, PushWaitsAgain,
                  PushTimesOut, Store, SignalNotEmpty, poppers
    <2> QED
      BY <2>1, <2>2, <1>1
  <1>3. ASSUME NEW c \in Consumers, PopStep(c) PROVE ShutdownInv'
    <2>1. CASE PopBlocks(c) \/ PopWaitsAgain(c)
      BY <2>1 DEF PopBlocks, PopWaitsAgain, shutdown
    <2>2. CASE Pop(c) \/ PopResumes(c) \/ PopSeesShutdown(c) \/ PopTimesOut(c)
      BY <2>2, <1>1 DEF Pop, PopResumes, PopSeesShutdown, PopTimesOut, poppers
    <2> QED
      BY <1>3, <2>1, <2>2 DEF PopStep
  <1>4. ASSUME NEW p \in Producers, NEW m \in Msgs, Allocate(p, m) PROVE ShutdownInv'
    BY <1>4, <1>1 DEF Allocate, poppers
  <1>5. ASSUME NEW t \in Producers \cup Consumers, NEW m \in Msgs, Free(t, m)
        PROVE  ShutdownInv'
    BY <1>5, <1>1 DEF Free, poppers
  <1>6. CASE SpuriousWakeup
    BY <1>6, <1>1 DEF SpuriousWakeup, poppers
  <1>7. CASE WakeupSetsFlag
    BY <1>7 DEF WakeupSetsFlag, poppers
  <1>8. CASE WakeupBroadcasts
    BY <1>8 DEF WakeupBroadcasts
  <1>9. CASE UNCHANGED vars
    BY <1>9 DEF vars
  <1> QED
    BY <1>2, <1>3, <1>4, <1>5, <1>6, <1>7, <1>8, <1>9 DEF Next

(* Once message_bus_wakeup has returned no popper is asleep, and none goes  *)
(* to sleep again (message_bus.c:130, 209-220).                             *)
THEOREM ShutdownReachesPoppers == Spec => []NobodySleepsAfterWakeup
  <1>1. Init => ShutdownInv
    BY DEF Init, ShutdownInv, NobodySleepsAfterWakeup
  <1>2. ShutdownInv => NobodySleepsAfterWakeup
    BY DEF ShutdownInv
  <1> QED
    BY <1>1, <1>2, ShutdownStep, PTL DEF Spec
=============================================================================
