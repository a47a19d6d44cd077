------------------------------ MODULE MsgFifo ------------------------------
(***************************************************************************)
(* What core/message_bus.h promises of one bus queue, without saying how:  *)
(* messages come out in the order in which they were accepted, at most     *)
(* QueueLen of them are held, and every heap-allocated message has exactly *)
(* one owner.  A push that succeeds hands the message to the bus, a push   *)
(* that fails leaves it with its caller, and a pop hands it to the popper, *)
(* who frees it (message_bus.h:56-69).                                     *)
(***************************************************************************)
EXTENDS Naturals, Sequences

CONSTANTS Producers,  \* threads that push
          Consumers,  \* threads that pop
          Msgs,       \* heap messages (content and image_b64 together)
          QueueLen,   \* AGENT_BUS_QUEUE_LEN
          Bus,        \* the owner of a queued message
          Nobody      \* the owner of memory that is not allocated

VARIABLES fifo,   \* the accepted messages not yet delivered, oldest first
          owner   \* owner[m]: who must free m

vars == <<fifo, owner>>

Owners == Producers \cup Consumers \cup {Bus, Nobody}

Init == /\ fifo = <<>>
        /\ owner = [m \in Msgs |-> Nobody]

Allocate(p, m) == /\ owner[m] = Nobody
                  /\ owner' = [owner EXCEPT ![m] = p]
                  /\ UNCHANGED fifo

Accept(p, m) == /\ owner[m] = p
                /\ Len(fifo) < QueueLen
                /\ fifo' = Append(fifo, m)
                /\ owner' = [owner EXCEPT ![m] = Bus]

Deliver(c) == /\ fifo # <<>>
              /\ owner' = [owner EXCEPT ![Head(fifo)] = c]
              /\ fifo' = Tail(fifo)

Free(t, m) == /\ owner[m] = t
              /\ owner' = [owner EXCEPT ![m] = Nobody]
              /\ UNCHANGED fifo

Next == \/ \E p \in Producers, m \in Msgs : Allocate(p, m) \/ Accept(p, m)
        \/ \E c \in Consumers : Deliver(c)
        \/ \E t \in Producers \cup Consumers, m \in Msgs : Free(t, m)

Spec == Init /\ [][Next]_vars
=============================================================================
