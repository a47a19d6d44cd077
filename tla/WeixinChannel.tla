---------------------------- MODULE WeixinChannel ----------------------------
(***************************************************************************)
(* The WeChat channel: a thread asks the service again and again for what  *)
(* came after its cursor and hands it to the agent, the outbound           *)
(* dispatcher sends the answers, and the shell logs in and sets the token. *)
(*   - src/channels/weixin_channel.c, cmd_channel.c; what agent_main.c     *)
(*     starts, stops and dispatches                                        *)
(* Messages are numbers in the order they were written; a token is the     *)
(* number of the login it came from, 0 when there is none.                 *)
(***************************************************************************)
EXTENDS Naturals, Sequences, SequencesExt

CONSTANTS MaxMessages, \* messages written to the bot
          Other,       \* those that are no finished text of a user
          RingSize,    \* DEDUP_RING_SIZE
          PerPoll,     \* WEIXIN_MAX_MSGS_PER_POLL
          PerAnswer,   \* messages the service gives in an answer
          Kept,        \* messages the service gives to an empty cursor
          MaxLogins,   \* logins
          MaxStarts,   \* times the channel is started
          Faults       \* of "http", "full", "late"

VARIABLES running, \* s_running
          poll,    \* where the polling thread is
          joining, \* weixin_channel_stop waits for the thread
          token,   \* s_token, and what is saved of it
          cursor,  \* the cursor of the thread, 0 for ""
          asked,   \* the token of the request in flight
          given,   \* messages of the answer that are still to be dispatched
          ring,    \* s_dedup_ring, the oldest first
          handed,  \* what the agent was given
          written, \* messages at the service
          valid,   \* the login that the service accepts, 0 for none
          logins, starts

weixinVars == <<running, poll, joining, token, cursor, asked, given, ring, handed, written, valid,
                logins, starts>>

Messages == 1..MaxMessages

TypeOK ==
    /\ running \in BOOLEAN /\ joining \in BOOLEAN
    /\ poll \in {"none", "top", "asking", "handing"}
    /\ token \in 0..MaxLogins /\ asked \in 0..MaxLogins /\ valid \in 0..MaxLogins
    /\ cursor \in 0..MaxMessages /\ written \in 0..MaxMessages
    /\ given \in Seq(Messages) /\ handed \in Seq(Messages)
    /\ ring \in BoundedSeq(Messages, RingSize)
    /\ logins \in 0..MaxLogins /\ starts \in 0..MaxStarts

Init ==
    /\ running = FALSE /\ poll = "none" /\ joining = FALSE
    /\ token = 0 /\ cursor = 0 /\ asked = 0
    /\ given = <<>> /\ ring = <<>> /\ handed = <<>>
    /\ written = 0 /\ valid = 0 /\ logins = 0 /\ starts = 0

serviceVars == <<written, valid, logins>>

-----------------------------------------------------------------------------
(* weixin_channel_start, weixin_channel_stop.                              *)
Start ==
    /\ ~running /\ ~joining /\ starts < MaxStarts
    /\ starts' = starts + 1
    /\ running' = TRUE
    /\ poll' = "top" /\ cursor' = 0
    /\ UNCHANGED <<joining, token, asked, given, ring, handed, serviceVars>>

Stop ==
    /\ running
    /\ running' = FALSE /\ joining' = TRUE
    /\ UNCHANGED <<poll, token, cursor, asked, given, ring, handed, serviceVars, starts>>

Joined ==
    /\ joining /\ poll = "none"
    /\ joining' = FALSE
    /\ UNCHANGED <<running, poll, token, cursor, asked, given, ring, handed, serviceVars, starts>>

(* The shell: a login that the user confirmed, or a token that was typed.  *)
(* A login comes when the session is over, and the thread has seen that    *)
(* unless it does so late.                                                 *)
Login ==
    /\ valid = 0 /\ logins < MaxLogins
    /\ token # 0 => "late" \in Faults
    /\ logins' = logins + 1
    /\ valid' = logins + 1 /\ token' = logins + 1
    /\ UNCHANGED <<running, poll, joining, cursor, asked, given, ring, handed, written, starts>>

-----------------------------------------------------------------------------
(* The service: somebody writes to the bot, a session ends.                *)
Post ==
    /\ written < MaxMessages
    /\ written' = written + 1
    /\ UNCHANGED <<running, poll, joining, token, cursor, asked, given, ring, handed, valid, logins,
                   starts>>

Expire ==
    /\ valid # 0 /\ logins < MaxLogins
    /\ valid' = 0
    /\ UNCHANGED <<running, poll, joining, token, cursor, asked, given, ring, handed, written,
                   logins, starts>>

-----------------------------------------------------------------------------
(* The thread: weixin_poll_task.                                           *)
Ask ==
    /\ poll = "top" /\ running /\ token # 0
    /\ poll' = "asking" /\ asked' = token
    /\ UNCHANGED <<running, joining, token, cursor, given, ring, handed, serviceVars, starts>>

Quit ==
    /\ poll = "top" /\ ~running
    /\ poll' = "none"
    /\ UNCHANGED <<running, joining, token, cursor, asked, given, ring, handed, serviceVars, starts>>

(* The cursor is that of the answer before its messages are dispatched,    *)
(* and no more than PerPoll of them are.                                   *)
After(c) == IF c = 0 /\ written > Kept THEN written - Kept ELSE c
Least(a, b) == IF a < b THEN a ELSE b

Answered ==
    /\ poll = "asking" /\ asked = valid
    /\ LET from == After(cursor)
           last == Least(written, from + PerAnswer)
       IN /\ cursor' = last
          /\ given' = [i \in 1..Least(last - from, PerPoll) |-> from + i]
    /\ poll' = "handing"
    /\ UNCHANGED <<running, joining, token, asked, ring, handed, serviceVars, starts>>

(* The session is over: ret is -14.                                        *)
SessionExpired ==
    /\ poll = "asking" /\ asked # valid
    /\ cursor' = 0 /\ token' = 0
    /\ poll' = "top"
    /\ UNCHANGED <<running, joining, asked, given, ring, handed, serviceVars, starts>>

(* No answer, another status or another ret: the thread sleeps.            *)
Failed ==
    /\ poll = "asking" /\ "http" \in Faults
    /\ poll' = "top"
    /\ UNCHANGED <<running, joining, token, cursor, asked, given, ring, handed, serviceVars, starts>>

(* weixin_dispatch_message: what is no text of a user and what was seen is *)
(* skipped, the rest is recorded and pushed, which may fail.               *)
Recorded(id) == LET r == Append(ring, id) IN IF Len(r) > RingSize THEN Tail(r) ELSE r
Wanted(id) == id \notin Other /\ ~Contains(ring, id)

Dispatch ==
    /\ poll = "handing" /\ given # <<>>
    /\ LET id == Head(given)
       IN \/ ~Wanted(id) /\ UNCHANGED <<ring, handed>>
          \/ Wanted(id) /\ ring' = Recorded(id) /\ handed' = Append(handed, id)
          \/ Wanted(id) /\ "full" \in Faults /\ ring' = Recorded(id) /\ UNCHANGED handed
    /\ given' = Tail(given)
    /\ UNCHANGED <<running, poll, joining, token, cursor, asked, serviceVars, starts>>

Again ==
    /\ poll = "handing" /\ given = <<>>
    /\ poll' = "top"
    /\ UNCHANGED <<running, joining, token, cursor, asked, given, ring, handed, serviceVars, starts>>

Next ==
    \/ Start \/ Stop \/ Joined \/ Login
    \/ Post \/ Expire
    \/ Ask \/ Quit \/ Answered \/ SessionExpired \/ Failed \/ Dispatch \/ Again

PollStep == Ask \/ Quit \/ Answered \/ SessionExpired \/ Failed \/ Dispatch \/ Again

(* Of the requests that are made again and again some are answered.        *)
Spec == Init /\ [][Next]_weixinVars
        /\ WF_weixinVars(PollStep) /\ WF_weixinVars(Joined)
        /\ SF_weixinVars(Answered \/ SessionExpired)

-----------------------------------------------------------------------------
(* The agent gets each message once and in order, whatever was asked for   *)
(* again after a lost answer, a new session or a restart.                  *)
HandedOnce == \A i, j \in DOMAIN handed : i < j => handed[i] < handed[j]

(* What was dispatched or is to be is all that the cursor has passed.      *)
NoneSkipped ==
    \A m \in 1..cursor : m \in Other \cup ToSet(handed) \cup ToSet(given)

(* A login is not undone: the token is erased only with its session.       *)
LoginKept == token = 0 => valid = 0

(* While the session lasts the agent gets what was written, and a stop     *)
(* returns.                                                                *)
Missing == \E m \in 1..written : m \notin Other \cup ToSet(handed)
Waiting == joining \/ (running /\ valid # 0 /\ Missing)
MessagesSeen == Waiting ~> ~Waiting
=============================================================================
