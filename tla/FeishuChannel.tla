---------------------------- MODULE FeishuChannel ----------------------------
(***************************************************************************)
(* The Feishu channel: one thread that holds an event stream and hands the *)
(* messages it brings to the agent or to the conversation page, and the    *)
(* sending of a reply in pieces.                                           *)
(*   - channels/feishu_bot.c, feishu_ws.c, feishu_recv.c, feishu_send.c    *)
(*     and feishu_http.c                                                   *)
(* The service repeats an event that was not acknowledged, on the next     *)
(* stream if need be; the code acknowledges before it looks at the message.*)
(***************************************************************************)
EXTENDS Naturals, Sequences, SequencesExt

CONSTANTS Messages,  \* what users and bots write: a sequence of [kind, words]; the kinds are
                     \* "text", "group" (not addressed to the bot), "image", "bot", "own"
          RingSize,  \* DEDUP_RING_SIZE
          MaxDrops,  \* streams that are lost
          MaxVisits, \* times the conversation page is opened
          MaxApps,   \* calls of feishu_set_app
          Chunks,    \* pieces of a reply: AGENT_FEISHU_MAX_MSG_LEN characters each
          Faults     \* "refused": no token, endpoint or stream; "ack": an acknowledgement
                     \* that is lost with the stream; "token": a token the service rejects;
                     \* "late": a message of more than 60 s; "event": repeated under another
                     \* event_id; "download", "full": no image, no room on the bus; "http": a
                     \* piece that is lost; "payload": a line lost within a frame

VARIABLES app,      \* s_app_id and s_app_secret are set
          token,    \* s_access_token: "none", "good" or "expired"
          poll,     \* feishu_poll_task
          open,     \* s_ws.connected
          line,     \* the stream is alive
          written,  \* messages written so far
          flight,   \* events the service has put on the stream
          acked,    \* events it will not repeat
          events,   \* s_dedup_ring
          ids,      \* s_msgid_ring
          said,     \* s_content_dedup
          talk,     \* s_conversation_cb is set
          before,   \* messages from before the page was opened
          handing,  \* the message in the hands of the thread
          handed,   \* what the agent or the page was given
          refused,  \* what the filters dropped
          sending,  \* the next piece of a reply
          arrived,  \* the pieces the service took
          drops, visits, apps

pollVars == <<poll, open, line, flight, acked, events, ids, said, handing, handed, refused>>
pageVars == <<talk, before, visits>>
vars == <<app, token, pollVars, written, pageVars, sending, arrived, drops, apps>>

Ids == 1..Len(Messages)
Kind(m) == Messages[m].kind

TypeOK ==
    /\ app \in BOOLEAN /\ token \in {"none", "good", "expired"}
    /\ poll \in {"token", "endpoint", "connect", "listen", "fetch", "hand", "stuck"}
    /\ open \in BOOLEAN /\ line \in BOOLEAN /\ talk \in BOOLEAN
    /\ written \in 0..Len(Messages)
    /\ flight \in Seq(Ids) /\ events \in Seq(Ids) /\ ids \in Seq(Ids) /\ handed \in Seq(Ids)
    /\ Len(events) <= RingSize /\ Len(ids) <= RingSize
    /\ acked \subseteq Ids /\ before \subseteq Ids /\ refused \subseteq Ids
    /\ said \subseteq {Messages[m].words : m \in Ids}
    /\ handing \in Ids \cup {0}
    /\ sending \in 0..Chunks + 1 /\ arrived \in Seq(1..Chunks)
    /\ drops \in 0..MaxDrops /\ visits \in 0..MaxVisits /\ apps \in 0..MaxApps

Init ==
    /\ app = FALSE /\ token = "none"
    /\ poll = "token" /\ open = FALSE /\ line = FALSE
    /\ written = 0 /\ flight = <<>> /\ acked = {}
    /\ events = <<>> /\ ids = <<>> /\ said = {}
    /\ talk = FALSE /\ before = {}
    /\ handing = 0 /\ handed = <<>> /\ refused = {}
    /\ sending = 0 /\ arrived = <<>>
    /\ drops = 0 /\ visits = 0 /\ apps = 0

-----------------------------------------------------------------------------
(* feishu_set_app clears the token.  A token grows old: the code counts it *)
(* as expired 300 s before the service does.                               *)
SetApp ==
    /\ apps < MaxApps
    /\ apps' = apps + 1
    /\ app' = TRUE /\ token' = "none"
    /\ UNCHANGED <<pollVars, written, pageVars, sending, arrived, drops>>

Expire ==
    /\ token = "good"
    /\ token' = "expired"
    /\ UNCHANGED <<app, pollVars, written, pageVars, sending, arrived, drops, apps>>

Refreshed == token' = "good"
Refused == "refused" \in Faults

(* The head of the loop: credentials, a token, an endpoint, a stream.      *)
Token ==
    /\ poll = "token" /\ app
    /\ IF token = "good" THEN UNCHANGED token ELSE Refreshed
    /\ poll' = "endpoint"
    /\ UNCHANGED <<app, open, line, flight, acked, events, ids, said, handing, handed, refused,
                   written, pageVars, sending, arrived, drops, apps>>

Endpoint ==
    /\ poll = "endpoint"
    /\ poll' = "connect" \/ (Refused /\ poll' = "token")
    /\ UNCHANGED <<app, token, open, line, flight, acked, events, ids, said, handing, handed,
                   refused, written, pageVars, sending, arrived, drops, apps>>

(* What was on the old stream is lost with it. *)
Connect ==
    /\ poll = "connect"
    /\ flight' = <<>>
    /\ \/ poll' = "listen" /\ open' = TRUE /\ line' = TRUE
       \/ Refused /\ poll' = "token" /\ open' = FALSE /\ line' = FALSE
    /\ UNCHANGED <<app, token, acked, events, ids, said, handing, handed, refused, written,
                   pageVars, sending, arrived, drops, apps>>

Connected == Connect /\ line'

-----------------------------------------------------------------------------
(* The service: a message is written, an event put on the stream, at first *)
(* and again as long as nothing acknowledged it.                           *)
Write ==
    /\ written < Len(Messages)
    /\ written' = written + 1
    /\ UNCHANGED <<app, token, pollVars, pageVars, sending, arrived, drops, apps>>

Put ==
    /\ line
    /\ \E m \in 1..written :
          /\ m \notin acked /\ m \notin ToSet(flight) /\ m # handing
          /\ flight' = Append(flight, m)
    /\ UNCHANGED <<app, token, poll, open, line, acked, events, ids, said, handing, handed, refused,
                   written, pageVars, sending, arrived, drops, apps>>

Drop ==
    /\ line /\ drops < MaxDrops
    /\ drops' = drops + 1
    /\ line' = FALSE
    /\ \/ UNCHANGED <<open, poll>>
       \/ poll = "listen" /\ open' = FALSE /\ UNCHANGED poll     \* the service closes the stream
       \/ "payload" \in Faults /\ poll = "listen" /\ poll' = "stuck" /\ UNCHANGED open
    /\ UNCHANGED <<app, token, flight, acked, events, ids, said, handing, handed, refused, written,
                   pageVars, sending, arrived, apps>>

(* A stream that was closed is opened again at once; on one that is dead   *)
(* without a word ws_recv_frame fails again and again, a ping in between,  *)
(* until the token expires.                                                *)
Leave ==
    /\ poll = "listen"
    /\ ~open \/ (~line /\ token # "good")
    /\ open' = FALSE /\ line' = FALSE
    /\ poll' = "token"
    /\ UNCHANGED <<app, token, flight, acked, events, ids, said, handing, handed, refused, written,
                   pageVars, sending, arrived, drops, apps>>

-----------------------------------------------------------------------------
Record(ring, m) ==
    LET longer == Append(ring, m)
    IN IF Len(longer) > RingSize THEN Tail(longer) ELSE longer

KnownEvent(m) == m \in ToSet(events)
KnownId(m) == m \in ToSet(ids)

(* filter_sender, bot_rate_limited and filter_stale_message come first for *)
(* every message, the mentions and the repetition only for a text.         *)
Unwanted(m) == Kind(m) = "own" \/ (talk /\ m \in before)
Limited(m) == Kind(m) = "bot"
Unaddressed(m) == Kind(m) = "group" /\ ~talk
Repeated(m) == ~talk /\ Messages[m].words \in said

Refuse(m) ==
    /\ refused' = refused \cup {m}
    /\ UNCHANGED <<poll, handing, ids, said>>

Take(m) ==
    \/ Unwanted(m) /\ Refuse(m)
    \/ Limited(m) /\ Refuse(m)
    \/ /\ "late" \in Faults
       /\ UNCHANGED <<refused, poll, handing, ids, said>>
    \/ /\ ~Unwanted(m) /\ Kind(m) = "image"
       /\ poll' = "fetch" /\ handing' = m
       /\ UNCHANGED <<refused, ids, said>>
    \/ /\ ~Unwanted(m) /\ Kind(m) # "image"
       /\ IF Unaddressed(m) THEN Refuse(m)
          ELSE IF KnownId(m) THEN UNCHANGED <<refused, poll, handing, ids, said>>
          ELSE /\ ids' = Record(ids, m)
               /\ IF Repeated(m)
                  THEN refused' = refused \cup {m} /\ UNCHANGED <<poll, handing, said>>
                  ELSE /\ said' = IF talk THEN said ELSE said \cup {Messages[m].words}
                       /\ poll' = "hand" /\ handing' = m
                       /\ UNCHANGED refused

(* feishu_process_binary_frame: the acknowledgement, the event ring, the   *)
(* filters.                                                                *)
Acknowledge(m) ==
    \/ acked' = acked \cup {m} /\ UNCHANGED <<line, drops>>
    \/ /\ "ack" \in Faults /\ drops < MaxDrops
       /\ line' = FALSE /\ drops' = drops + 1
       /\ UNCHANGED acked

Receive ==
    /\ poll = "listen" /\ open /\ line /\ flight # <<>>
    /\ LET m == Head(flight)
       IN /\ flight' = Tail(flight)
          /\ Acknowledge(m)
          /\ \/ KnownEvent(m) /\ UNCHANGED <<events, refused, poll, handing, ids, said>>
             \/ ~KnownEvent(m) /\ events' = Record(events, m) /\ Take(m)
             \/ KnownEvent(m) /\ "event" \in Faults /\ UNCHANGED events /\ Take(m)
    /\ UNCHANGED <<app, token, open, handed, written, pageVars, sending, arrived, apps>>

(* The picture is fetched by the thread itself, with a new token if need   *)
(* be; then the message goes to the bus, to the page otherwise.            *)
Fetch ==
    /\ poll = "fetch"
    /\ IF token = "good" THEN UNCHANGED token ELSE Refreshed
    /\ \/ poll' = "hand" /\ UNCHANGED handing
       \/ "download" \in Faults /\ poll' = "listen" /\ handing' = 0
    /\ UNCHANGED <<app, open, line, flight, acked, events, ids, said, handed, refused, written,
                   pageVars, sending, arrived, drops, apps>>

Hand ==
    /\ poll = "hand"
    /\ handed' = Append(handed, handing) \/ ("full" \in Faults /\ UNCHANGED handed)
    /\ handing' = 0 /\ poll' = "listen"
    /\ UNCHANGED <<app, token, open, line, flight, acked, events, ids, said, refused, written,
                   pageVars, sending, arrived, drops, apps>>

PollStep == Token \/ Endpoint \/ Connect \/ Leave \/ Receive \/ Fetch \/ Hand

-----------------------------------------------------------------------------
(* feishu_recv_set_conversation_callback, as the page opens and closes.    *)
OpenPage ==
    /\ ~talk /\ visits < MaxVisits
    /\ visits' = visits + 1
    /\ talk' = TRUE /\ before' = 1..written
    /\ UNCHANGED <<app, token, pollVars, written, sending, arrived, drops, apps>>

ClosePage ==
    /\ talk
    /\ talk' = FALSE
    /\ UNCHANGED <<app, token, pollVars, written, before, visits, sending, arrived, drops, apps>>

-----------------------------------------------------------------------------
(* feishu_send_message: a token first, then piece after piece, each posted *)
(* a second time when the token was rejected.                              *)
Send ==
    /\ sending = 0 /\ app
    /\ IF token = "good" THEN UNCHANGED token ELSE Refreshed
    /\ sending' = 1
    /\ UNCHANGED <<app, pollVars, written, pageVars, arrived, drops, apps>>

Posted == arrived' = Append(arrived, sending)

SendPiece ==
    /\ sending \in 1..Chunks
    /\ sending' = sending + 1
    /\ \/ Posted /\ UNCHANGED token
       \/ "token" \in Faults /\ Refreshed /\ Posted
       \/ "http" \in Faults /\ UNCHANGED <<token, arrived>>
    /\ UNCHANGED <<app, pollVars, written, pageVars, drops, apps>>

Next ==
    \/ SetApp \/ Expire
    \/ Write \/ Put \/ Drop
    \/ PollStep
    \/ OpenPage \/ ClosePage
    \/ Send \/ SendPiece

(* Time passes, the threads run, the service repeats, and who connects     *)
(* again and again is let in.                                              *)
Spec ==
    /\ Init /\ [][Next]_vars
    /\ WF_vars(PollStep) /\ SF_vars(Connected) /\ SF_vars(Endpoint /\ poll' = "connect")
    /\ WF_vars(Expire) /\ WF_vars(Put) /\ WF_vars(SendPiece)

-----------------------------------------------------------------------------
(* A message that the service repeats is handed over once, and one that    *)
(* was acknowledged has been handed over or refused, or is about to be.    *)
HandedOnce == IsInjective(handed) /\ ToSet(handed) \cap refused = {}
AckedIsHandled == acked \subseteq ToSet(handed) \cup refused \cup {handing}

(* A reply that was sent arrived whole and in order. *)
ReplyWhole == sending = Chunks + 1 => arrived = [i \in 1..Chunks |-> i]

(* Every message is seen in the end, whatever streams are lost before. *)
Waiting ==
    \/ \E m \in 1..written : app /\ m \notin ToSet(handed) \cup refused
    \/ sending \in 1..Chunks
MessagesSeen == Waiting ~> ~Waiting
=============================================================================
