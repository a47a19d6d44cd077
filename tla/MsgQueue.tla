------------------------------ MODULE MsgQueue ------------------------------
(***************************************************************************)
(* One queue of core/message_bus.c: the ring buffer msg_queue_t, its mutex *)
(* and its two condition variables, and the shutdown flag the poppers read.*)
(*                                                                         *)
(* Everything a thread does between pthread_mutex_lock and the matching    *)
(* unlock, or a pthread_cond_timedwait (which gives the mutex up), is one  *)
(* action.  A thread that waits is in a wait set; a signal moves one       *)
(* waiting thread to the woken set, where it must win the mutex again and  *)
(* may find that another thread was faster.                                *)
(***************************************************************************)
EXTENDS Naturals, Sequences, FiniteSets

CONSTANTS Producers,       \* threads that call message_bus_push_*
          Consumers,       \* threads that call message_bus_pop_*
          TimedConsumers,  \* those whose timeout_ms is not UINT32_MAX
          Msgs,            \* heap messages that can exist at one time
          QueueLen,        \* AGENT_BUS_QUEUE_LEN
          Bus, Nobody,     \* owners of a queued and of an unallocated message
          NoMsg            \* content of a ring slot never written

ASSUME QueueAssumption ==
  /\ QueueLen \in Nat \ {0}
  /\ TimedConsumers \subseteq Consumers
  /\ Producers \cap Consumers = {}
  /\ Bus \notin Producers \cup Consumers
  /\ Nobody \notin Producers \cup Consumers
  /\ Bus # Nobody
  /\ NoMsg \notin Msgs

ASSUME FiniteThreads == IsFiniteSet(Producers) /\ IsFiniteSet(Consumers)

VARIABLES items,     \* queue->items, indexed from 0 as in C
          head,      \* queue->head
          tail,      \* queue->tail
          count,     \* queue->count
          owner,     \* owner[m]: who must free m
          pushing,   \* pushing[p]: the message p's blocked push call carries
          notFullWait, notFullWoken,    \* pushers in / leaving the wait
          notEmptyWait, notEmptyWoken,  \* poppers in / leaving the wait
          busShutdown,  \* g_bus_shutdown
          wakeup        \* progress of message_bus_wakeup

ring == <<items, head, tail, count>>
pushers == <<pushing, notFullWait, notFullWoken>>
poppers == <<notEmptyWait, notEmptyWoken>>
shutdown == <<busShutdown, wakeup>>
vars == <<items, head, tail, count, owner, pushing, notFullWait, notFullWoken,
          notEmptyWait, notEmptyWoken, busShutdown, wakeup>>

Slots == 0 .. QueueLen - 1
Owners == Producers \cup Consumers \cup {Bus, Nobody}

-----------------------------------------------------------------------------
(* msg_queue_init and message_bus_init *)
Init ==
  /\ items = [i \in Slots |-> NoMsg]
  /\ head = 0 /\ tail = 0 /\ count = 0
  /\ owner = [m \in Msgs |-> Nobody]
  /\ pushing = [p \in Producers |-> NoMsg]
  /\ notFullWait = {} /\ notFullWoken = {}
  /\ notEmptyWait = {} /\ notEmptyWoken = {}
  /\ busShutdown = FALSE
  /\ wakeup = "not_called"

(* Variants with a plausible mistake carry a name ending in _Mut.         *)
SignalOnlyWhenEmpty_Mut ==
  \/ (notEmptyWait = {} \/ count > 0) /\ UNCHANGED poppers
  \/ \E c \in notEmptyWait : /\ count = 0
                             /\ notEmptyWait' = notEmptyWait \ {c}
                             /\ notEmptyWoken' = notEmptyWoken \cup {c}

(* pthread_cond_signal: one waiting thread, if there is one, is woken *)
SignalNotEmpty ==
  \/ notEmptyWait = {} /\ UNCHANGED poppers
  \/ \E c \in notEmptyWait : /\ notEmptyWait' = notEmptyWait \ {c}
                             /\ notEmptyWoken' = notEmptyWoken \cup {c}

SignalNotFull ==
  \/ notFullWait = {} /\ UNCHANGED <<notFullWait, notFullWoken>>
  \/ \E p \in notFullWait : /\ notFullWait' = notFullWait \ {p}
                            /\ notFullWoken' = notFullWoken \cup {p}

StoreNoWrap_Mut(m) ==
  /\ count < QueueLen
  /\ items' = [items EXCEPT ![tail] = m]
  /\ tail' = tail + 1
  /\ count' = count + 1
  /\ owner' = [owner EXCEPT ![m] = Bus]
  /\ SignalNotEmpty
  /\ UNCHANGED head

StoreOverFull_Mut(m) ==
  /\ count <= QueueLen
  /\ items' = [items EXCEPT ![tail] = m]
  /\ tail' = (tail + 1) % QueueLen
  /\ count' = count + 1
  /\ owner' = [owner EXCEPT ![m] = Bus]
  /\ SignalNotEmpty
  /\ UNCHANGED head

(* The tail of msg_queue_push: store, advance, signal, unlock, return OK *)
Store(m) ==
  /\ count < QueueLen
  /\ items' = [items EXCEPT ![tail] = m]
  /\ tail' = (tail + 1) % QueueLen
  /\ count' = count + 1
  /\ owner' = [owner EXCEPT ![m] = Bus]
  /\ SignalNotEmpty
  /\ UNCHANGED head

FetchNewest_Mut(c) ==
  /\ count > 0
  /\ tail' = (tail + QueueLen - 1) % QueueLen
  /\ count' = count - 1
  /\ owner' = [owner EXCEPT ![items[tail']] = c]
  /\ SignalNotFull
  /\ UNCHANGED <<items, head, pushing>>

(* The tail of msg_queue_pop: fetch, advance, signal, unlock, return OK *)
Fetch(c) ==
  /\ count > 0
  /\ head' = (head + 1) % QueueLen
  /\ count' = count - 1
  /\ owner' = [owner EXCEPT ![items[head]] = c]
  /\ SignalNotFull
  /\ UNCHANGED <<items, tail, pushing>>

-----------------------------------------------------------------------------
(* Callers: a pusher strdup()s what it pushes, a failed pusher and every   *)
(* popper free what they own.                                              *)
InPush(p) == p \in notFullWait \cup notFullWoken
InPop(c) == c \in notEmptyWait \cup notEmptyWoken

Allocate(p, m) ==
  /\ ~InPush(p)
  /\ owner[m] = Nobody
  /\ owner' = [owner EXCEPT ![m] = p]
  /\ UNCHANGED <<ring, pushers, poppers, shutdown>>

Free(t, m) ==
  /\ ~InPush(t) /\ ~InPop(t)
  /\ owner[m] = t
  /\ owner' = [owner EXCEPT ![m] = Nobody]
  /\ UNCHANGED <<ring, pushers, poppers, shutdown>>

(* msg_queue_push with room in the ring *)
Push(p, m) ==
  /\ ~InPush(p)
  /\ owner[m] = p
  /\ Store(m)
  /\ UNCHANGED <<pushers, shutdown>>

(* msg_queue_push on a full ring: the deadline is fixed, then the first wait *)
PushBlocks(p, m) ==
  /\ ~InPush(p)
  /\ owner[m] = p
  /\ count >= QueueLen
  /\ pushing' = [pushing EXCEPT ![p] = m]
  /\ notFullWait' = notFullWait \cup {p}
  /\ UNCHANGED <<ring, owner, notFullWoken, poppers, shutdown>>

(* A woken pusher has the mutex again and finds room... *)
PushResumes(p) ==
  /\ p \in notFullWoken
  /\ Store(pushing[p])
  /\ notFullWoken' = notFullWoken \ {p}
  /\ pushing' = [pushing EXCEPT ![p] = NoMsg]
  /\ UNCHANGED <<notFullWait, shutdown>>

(* ... or finds the slot taken by another pusher, and waits again *)
PushWaitsAgain(p) ==
  /\ p \in notFullWoken
  /\ count >= QueueLen
  /\ notFullWoken' = notFullWoken \ {p}
  /\ notFullWait' = notFullWait \cup {p}
  /\ UNCHANGED <<ring, owner, pushing, poppers, shutdown>>

(* ETIMEDOUT: ERROR without another look at count; p still owns the message *)
PushTimesOut(p) ==
  /\ p \in notFullWait
  /\ notFullWait' = notFullWait \ {p}
  /\ pushing' = [pushing EXCEPT ![p] = NoMsg]
  /\ UNCHANGED <<ring, owner, notFullWoken, poppers, shutdown>>

-----------------------------------------------------------------------------
Pop(c) ==
  /\ ~InPop(c)
  /\ Fetch(c)
  /\ UNCHANGED <<poppers, shutdown>>

PopBlocks(c) ==
  /\ ~InPop(c)
  /\ count = 0
  /\ ~busShutdown
  /\ notEmptyWait' = notEmptyWait \cup {c}
  /\ UNCHANGED <<ring, owner, pushers, notEmptyWoken, shutdown>>

PopResumes(c) ==
  /\ c \in notEmptyWoken
  /\ Fetch(c)
  /\ notEmptyWoken' = notEmptyWoken \ {c}
  /\ UNCHANGED <<notEmptyWait, shutdown>>

PopWaitsAgain(c) ==
  /\ c \in notEmptyWoken
  /\ count = 0
  /\ ~busShutdown
  /\ notEmptyWoken' = notEmptyWoken \ {c}
  /\ notEmptyWait' = notEmptyWait \cup {c}
  /\ UNCHANGED <<ring, owner, pushers, shutdown>>

(* The woken popper sees an empty queue and the flag: ERROR.  (A fresh call *)
(* that sees them returns at once and changes nothing.)                     *)
PopSeesShutdown(c) ==
  /\ c \in notEmptyWoken
  /\ count = 0
  /\ busShutdown
  /\ notEmptyWoken' = notEmptyWoken \ {c}
  /\ UNCHANGED <<ring, owner, pushers, notEmptyWait, shutdown>>

PopTimesOut(c) ==
  /\ c \in TimedConsumers \cap notEmptyWait
  /\ notEmptyWait' = notEmptyWait \ {c}
  /\ UNCHANGED <<ring, owner, pushers, notEmptyWoken, shutdown>>

(* POSIX lets a condition wait return without a signal *)
SpuriousWakeup ==
  \/ \E p \in notFullWait : /\ notFullWait' = notFullWait \ {p}
                            /\ notFullWoken' = notFullWoken \cup {p}
                            /\ UNCHANGED <<ring, owner, pushing, poppers, shutdown>>
  \/ \E c \in notEmptyWait : /\ notEmptyWait' = notEmptyWait \ {c}
                             /\ notEmptyWoken' = notEmptyWoken \cup {c}
                             /\ UNCHANGED <<ring, owner, pushers, shutdown>>

-----------------------------------------------------------------------------
(* message_bus_wakeup: the flag is set outside the mutex, then the poppers *)
(* are woken under it.                                                     *)
WakeupSetsFlag ==
  /\ wakeup = "not_called"
  /\ busShutdown' = TRUE
  /\ wakeup' = "flag_set"
  /\ UNCHANGED <<ring, owner, pushers, poppers>>

WakeupSignalsOne_Mut ==
  /\ wakeup = "flag_set"
  /\ SignalNotEmpty
  /\ wakeup' = "done"
  /\ UNCHANGED <<ring, owner, pushers, busShutdown>>

WakeupBroadcasts ==
  /\ wakeup = "flag_set"
  /\ notEmptyWoken' = notEmptyWoken \cup notEmptyWait
  /\ notEmptyWait' = {}
  /\ wakeup' = "done"
  /\ UNCHANGED <<ring, owner, pushers, busShutdown>>

PushStep(p) == \/ \E m \in Msgs : Push(p, m) \/ PushBlocks(p, m)
               \/ PushResumes(p) \/ PushWaitsAgain(p) \/ PushTimesOut(p)

PopStep(c) == \/ Pop(c) \/ PopBlocks(c) \/ PopResumes(c) \/ PopWaitsAgain(c)
              \/ PopSeesShutdown(c) \/ PopTimesOut(c)

Next ==
  \/ \E p \in Producers : PushStep(p) \/ \E m \in Msgs : Allocate(p, m)
  \/ \E c \in Consumers : PopStep(c)
  \/ \E t \in Producers \cup Consumers, m \in Msgs : Free(t, m)
  \/ SpuriousWakeup
  \/ WakeupSetsFlag
  \/ WakeupBroadcasts

(* The scheduler runs a woken thread and the thread that called wakeup; a  *)
(* finite timeout expires.  A pusher's deadline is absolute (computed once *)
(* before the loop), so a pusher that keeps coming back to the wait still  *)
(* times out: strong fairness.  Nobody is obliged to push or to pop.       *)
Fairness ==
  /\ \A p \in Producers : /\ WF_vars(PushResumes(p) \/ PushWaitsAgain(p))
                          /\ SF_vars(PushTimesOut(p))
  /\ \A c \in Consumers : WF_vars(PopResumes(c) \/ PopWaitsAgain(c) \/ PopSeesShutdown(c))
  /\ WF_vars(WakeupBroadcasts)

Spec == Init /\ [][Next]_vars

FairSpec == Spec /\ Fairness

-----------------------------------------------------------------------------
(* The contents of the ring, oldest first *)
Contents == [i \in 1 .. count |-> items[(head + (i - 1)) % QueueLen]]

TypeOK ==
  /\ items \in [Slots -> Msgs \cup {NoMsg}]
  /\ head \in Slots
  /\ tail \in Slots
  /\ count \in 0 .. QueueLen
  /\ owner \in [Msgs -> Owners]
  /\ pushing \in [Producers -> Msgs \cup {NoMsg}]
  /\ notFullWait \in SUBSET Producers
  /\ notFullWoken \in SUBSET Producers
  /\ notEmptyWait \in SUBSET Consumers
  /\ notEmptyWoken \in SUBSET Consumers
  /\ busShutdown \in BOOLEAN
  /\ wakeup \in {"not_called", "flag_set", "done"}

(* The cursors agree with the counter: the next free slot is count slots   *)
(* after the oldest message (message_bus.c:116-118, 151-153).              *)
CursorsAgree == tail = (head + count) % QueueLen

(* A waiting thread is either asleep or on its way back to the mutex.      *)
WaitersDisjoint ==
  /\ notFullWait \cap notFullWoken = {}
  /\ notEmptyWait \cap notEmptyWoken = {}

(* Ownership (message_bus.h:56-64): the bus owns exactly the messages in   *)
(* the ring, and a pusher blocked in push still owns the one it carries.   *)
BusOwnsContents ==
  /\ \A i \in 1 .. count : Contents[i] \in Msgs /\ owner[Contents[i]] = Bus
  /\ \A i, j \in 1 .. count : Contents[i] = Contents[j] => i = j
  /\ \A m \in Msgs : owner[m] = Bus => \E i \in 1 .. count : Contents[i] = m

PushersOwnTheirs ==
  \A p \in notFullWait \cup notFullWoken :
    pushing[p] \in Msgs /\ owner[pushing[p]] = p

OneOwner == BusOwnsContents /\ PushersOwnTheirs

(* No signal is lost (message_bus.c:120, 155): while a popper sleeps, every *)
(* queued message has a woken popper on its way to it, and while a pusher   *)
(* sleeps, every free slot has a woken pusher on its way to it.             *)
NoLostWakeup ==
  /\ notEmptyWait # {} => Cardinality(notEmptyWoken) >= count
  /\ notFullWait # {} => Cardinality(notFullWoken) >= QueueLen - count

(* Setting the flag before the broadcast is what makes shutdown reach every *)
(* popper: once the broadcast is done nobody goes to sleep again.           *)
NobodySleepsAfterWakeup == wakeup = "done" => notEmptyWait = {}

(* A popper that waits without a timeout is released by shutdown (the agent *)
(* loop pops with UINT32_MAX: agent_loop.c:2832).                           *)
ShutdownReleasesPoppers ==
  \A c \in Consumers : [](busShutdown => <>(c \notin notEmptyWait))

(* A push call returns: with OK, or with ERROR after its timeout.          *)
PushReturns == \A p \in Producers : [](InPush(p) => <>(~InPush(p)))

(* No call of the bus lasts for ever.                                      *)
CallsReturn == ShutdownReleasesPoppers /\ PushReturns

(* The ring buffer implements the FIFO that message_bus.h promises.        *)
Fifo == INSTANCE MsgFifo WITH fifo <- Contents
FifoSpec == Fifo!Spec
=============================================================================
