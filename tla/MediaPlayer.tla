---------------------------- MODULE MediaPlayer ----------------------------
(***************************************************************************)
(* The music tools: one player of the media framework under a mutex that   *)
(* is let go while a call waits for the player's answer, and for 50 ms     *)
(* between stopping and closing.  The answers come in the framework's      *)
(* thread, in order.                                                       *)
(*   - tools/tool_media.c                                                  *)
(* Volume and status change nothing that the other tools read;             *)
(* tool_media_cleanup is never called.                                     *)
(***************************************************************************)
EXTENDS Naturals, Sequences

CONSTANTS Callers,   \* threads that run tools
          MaxPlays,  \* calls of music_play
          MaxCalls,  \* other calls
          Faults     \* "refused": the framework takes no command
                     \* "error": preparing, pausing or seeking fails after it was taken
                     \* "start": so does starting
                     \* "skip": the answer to preparing or starting is never given
                     \* "late": an answer comes after its time-out
                     \* "cross": the end of a track is heard while a call closes it
                     \* "overtake": of two sleeps the longer ends first

Sessions == 0..(2 * MaxPlays)

VARIABLES state,    \* g_media.state
          handle,   \* g_media.handle: the session it was opened for, 0 for none
          session,  \* g_media.session_id
          posts,    \* g_media.sem
          bad,      \* g_media.last_result < 0
          player,   \* what each player of the framework does
          events,   \* answers on their way, with the cookie of their player
          cb,       \* where media_event_cb is
          call,     \* where each call is, and its wait on the semaphore
          how,      \* what its music_play asked for
          sleepers, \* who sleeps for 50 ms, the first in first
          told,     \* the sessions the agent was told the end of
          plays, calls

vars == <<state, handle, session, posts, bad, player, events, cb, call, how, sleepers, told,
          plays, calls>>
bounds == <<plays, calls>>

Waits == {"preparing", "placing", "starting", "moving", "stopping"}
Sleeps == {"cutting", "giving up", "closing"}

TypeOK ==
    /\ state \in {"idle", "prepared", "playing", "paused", "error"}
    /\ handle \in Sessions /\ session \in Sessions
    /\ posts \in Nat /\ bad \in BOOLEAN
    /\ player \in [Sessions -> {"none", "ready", "playing", "paused", "over", "closed"}]
    /\ events \in Seq([of : Sessions, ok : BOOLEAN,
                       what : {"ready", "playing", "paused", "placed", "stopped", "completed"}])
    /\ cb \in [pc : {"idle", "posting", "sleeping"}, of : Sessions]
    /\ call \in [Callers -> [pc : {"idle"} \cup Waits \cup Sleeps,
                             sem : {"waits", "taken", "expired"}]]
    /\ how \in [Callers -> {"held", "begin", "middle"}]
    /\ sleepers \in Seq(Callers \cup {"cb"})
    /\ told \in [Sessions -> 0..2]
    /\ plays \in 0..MaxPlays /\ calls \in 0..MaxCalls

Init ==
    /\ state = "idle" /\ handle = 0 /\ session = 0 /\ posts = 0 /\ bad = FALSE
    /\ player = [s \in Sessions |-> "none"]
    /\ events = <<>> /\ cb = [pc |-> "idle", of |-> 0]
    /\ call = [c \in Callers |-> [pc |-> "idle", sem |-> "waits"]]
    /\ how = [c \in Callers |-> "begin"]
    /\ sleepers = <<>> /\ told = [s \in Sessions |-> 0]
    /\ plays = 0 /\ calls = 0

Goto(c, pc) == call' = [call EXCEPT ![c] = [pc |-> pc, sem |-> "waits"]]
Return(c) == Goto(c, "idle")

-----------------------------------------------------------------------------
(* The framework takes a command, which changes the player at once, and    *)
(* queues its answer; a command that does not fit is answered with an      *)
(* error.                                                                  *)
Legal(what) == {"ready", "playing", "paused"}
                 \cup (IF what \in {"playing", "paused"} THEN {} ELSE {"over"})
CanFail(what) == \/ what \in {"ready", "paused", "placed"} /\ "error" \in Faults
                 \/ what = "playing" /\ "start" \in Faults
Answer(queue, h, what, ok) == Append(queue, [of |-> h, what |-> what, ok |-> ok])

Send(queue, h, what) ==
    \/ /\ player[h] \in Legal(what)
       /\ player' = [player EXCEPT ![h] = CASE what = "placed" -> @
                                             [] what = "stopped" -> "over"
                                             [] OTHER -> what]
       /\ \/ events' = Answer(queue, h, what, TRUE)
          \/ "skip" \in Faults /\ what = "playing" /\ events' = queue
    \/ /\ player[h] \notin Legal(what) \/ CanFail(what)
       /\ UNCHANGED player /\ events' = Answer(queue, h, what, FALSE)

Refused == handle = 0 \/ "refused" \in Faults
Taken == handle # 0

(* wait_event forgets the last result and sleeps on the semaphore, without *)
(* the lock; an answer may come between its waking and its getting it.     *)
Wait(c, pc) == bad' = FALSE /\ Goto(c, pc)

Take(c) ==
    /\ call[c].pc \in Waits /\ call[c].sem = "waits" /\ posts > 0
    /\ posts' = posts - 1 /\ call' = [call EXCEPT ![c].sem = "taken"]
    /\ UNCHANGED <<state, handle, session, bad, player, events, cb, how, sleepers, told, bounds>>

Expire(c) ==
    /\ call[c].pc \in Waits /\ call[c].sem = "waits" /\ posts = 0
    /\ "late" \in Faults \/ (events = <<>> /\ cb.pc = "idle")
    /\ call' = [call EXCEPT ![c].sem = "expired"]
    /\ UNCHANGED <<state, handle, session, posts, bad, player, events, cb, how, sleepers, told,
                   bounds>>

Woken(c, pc) == call[c].pc = pc /\ call[c].sem # "waits"
Confirmed(c) == call[c].sem = "taken" /\ ~bad

(* force_close_locked: stop, let the lock go for 50 ms, close what is open *)
(* by then.                                                                *)
Stop(queue, who) == Send(queue, handle, "stopped") /\ sleepers' = Append(sleepers, who)

Closed == [player EXCEPT ![handle] = IF handle = 0 THEN @ ELSE "closed"]

Wakes(who) ==
    \E i \in 1..Len(sleepers) :
        /\ sleepers[i] = who /\ (i = 1 \/ "overtake" \in Faults)
        /\ sleepers' = SubSeq(sleepers, 1, i - 1) \o SubSeq(sleepers, i + 1, Len(sleepers))

ForceClose(c, pc) ==
    \/ /\ handle # 0
       /\ Stop(events, c) /\ Goto(c, pc) /\ UNCHANGED state
    \/ /\ handle = 0
       /\ state' = "idle" /\ Return(c) /\ UNCHANGED <<player, events, sleepers>>

CloseEnds(c) ==
    /\ call[c].pc \in {"giving up", "closing"}
    /\ Wakes(c)
    /\ player' = Closed /\ handle' = 0 /\ state' = "idle" /\ Return(c)
    /\ UNCHANGED <<session, posts, bad, events, cb, how, told, bounds>>

-----------------------------------------------------------------------------
(* music_play: whatever plays is closed; a player is opened and prepared,  *)
(* for the next session.                                                   *)
Open(c, now) ==
    /\ posts' = 0 /\ session' = session + 1
    /\ \/ /\ "refused" \in Faults
          /\ handle' = 0 /\ player' = now /\ Return(c) /\ UNCHANGED <<bad, events>>
       \/ /\ handle' = session' /\ player' = [now EXCEPT ![session'] = "ready"]
          /\ Wait(c, "preparing")
          /\ \/ \E ok \in {TRUE} \cup (IF CanFail("ready") THEN {FALSE} ELSE {}) :
                   events' = Answer(events, session', "ready", ok)
             \/ "skip" \in Faults /\ UNCHANGED events

Play(c) ==
    /\ call[c].pc = "idle" /\ plays < MaxPlays
    /\ plays' = plays + 1 /\ UNCHANGED calls
    /\ \E h \in {"held", "begin", "middle"} : how' = [how EXCEPT ![c] = h]
    /\ \/ /\ state # "idle" /\ handle # 0
          /\ Stop(events, c) /\ Goto(c, "cutting")
          /\ UNCHANGED <<state, handle, session, posts, bad>>
       \/ /\ state = "idle" \/ handle = 0
          /\ state' = "idle" /\ Open(c, player) /\ UNCHANGED sleepers
    /\ UNCHANGED <<cb, told>>

CutEnds(c) ==
    /\ call[c].pc = "cutting"
    /\ Wakes(c)
    /\ state' = "idle" /\ Open(c, Closed)
    /\ UNCHANGED <<cb, how, told, bounds>>

(* Its last part; now is the state as the waiting left it.                 *)
StartIt(c, now) ==
    \/ /\ how[c] = "held"
       /\ state' = now /\ Return(c) /\ UNCHANGED <<bad, player, events, sleepers>>
    \/ /\ how[c] # "held" /\ Taken
       /\ state' = now /\ Send(events, handle, "playing") /\ Wait(c, "starting")
       /\ UNCHANGED sleepers
    \/ /\ how[c] # "held" /\ Refused
       /\ \/ /\ handle # 0 /\ Stop(events, c) /\ Goto(c, "giving up") /\ state' = now
          \/ /\ handle = 0 /\ state' = "idle" /\ Return(c)
             /\ UNCHANGED <<player, events, sleepers>>
       /\ UNCHANGED bad

Prepared(c) ==
    /\ Woken(c, "preparing")
    /\ LET now == IF Confirmed(c) THEN state ELSE "prepared"
       IN \/ /\ ~Confirmed(c) /\ state = "error"
             /\ ForceClose(c, "giving up") /\ UNCHANGED bad
          \/ /\ Confirmed(c) \/ state # "error"
             /\ \/ /\ how[c] = "middle" /\ Taken
                   /\ state' = now /\ Send(events, handle, "placed") /\ Wait(c, "placing")
                   /\ UNCHANGED sleepers
                \/ /\ how[c] # "middle" \/ Refused
                   /\ StartIt(c, now)
    /\ UNCHANGED <<handle, session, posts, cb, how, told, bounds>>

Placed(c) ==
    /\ Woken(c, "placing") /\ StartIt(c, state)
    /\ UNCHANGED <<handle, session, posts, cb, how, told, bounds>>

Started(c) ==
    /\ Woken(c, "starting")
    /\ state' = IF Confirmed(c) THEN state ELSE "playing"
    /\ \/ /\ how[c] = "middle" /\ Taken
          /\ Send(events, handle, "placed") /\ Wait(c, "moving")
       \/ /\ how[c] # "middle" \/ Refused
          /\ Return(c) /\ UNCHANGED <<bad, player, events>>
    /\ UNCHANGED <<handle, session, posts, cb, how, sleepers, told, bounds>>

-----------------------------------------------------------------------------
(* music_pause, music_resume and music_seek send a command and wait; what  *)
(* comes of it is the callback's to record.                                *)
Command(c, what) ==
    /\ call[c].pc = "idle" /\ calls < MaxCalls /\ Taken
    /\ calls' = calls + 1
    /\ Send(events, handle, what) /\ Wait(c, "moving")
    /\ UNCHANGED <<state, handle, session, posts, cb, how, sleepers, told, plays>>

Pause(c) == state = "playing" /\ Command(c, "paused")
Resume(c) == state \in {"paused", "prepared"} /\ Command(c, "playing")
Seek(c) == state \in {"prepared", "playing", "paused"} /\ Command(c, "placed")

Moved(c) ==
    /\ Woken(c, "moving") /\ Return(c)
    /\ UNCHANGED <<state, handle, session, posts, bad, player, events, cb, how, sleepers, told,
                   bounds>>

(* music_stop waits for the answer, unless the player is in error, and     *)
(* closes in any case.                                                     *)
MusicStop(c) ==
    /\ call[c].pc = "idle" /\ calls < MaxCalls /\ state # "idle"
    /\ calls' = calls + 1
    /\ \/ /\ Taken /\ state # "error"
          /\ Send(events, handle, "stopped") /\ Wait(c, "stopping")
          /\ UNCHANGED <<state, sleepers>>
       \/ /\ Refused \/ state = "error"
          /\ ForceClose(c, "closing") /\ UNCHANGED bad
    /\ UNCHANGED <<handle, session, posts, cb, how, told, plays>>

Stopped(c) ==
    /\ Woken(c, "stopping") /\ ForceClose(c, "closing")
    /\ UNCHANGED <<handle, session, posts, bad, cb, how, told, bounds>>

CallStep(c) == \/ Take(c) \/ Expire(c) \/ CloseEnds(c) \/ CutEnds(c) \/ Prepared(c)
               \/ Placed(c) \/ Started(c) \/ Moved(c) \/ Stopped(c)

-----------------------------------------------------------------------------
(* media_event_cb: answers of older sessions, and those that come after a  *)
(* close, are dropped; the end of a track closes the player and is told to *)
(* the agent; any other answer is recorded, and posted without the lock.   *)
StateBy(e) == IF ~e.ok THEN "error"
              ELSE IF e.what = "ready" THEN "prepared"
              ELSE IF e.what \in {"playing", "paused"} THEN e.what ELSE state

Ignored(e) == e.of # session \/ (state = "idle" /\ handle = 0)
Tell(s) == told' = [told EXCEPT ![s] = @ + 1]

Drop ==
    /\ cb.pc = "idle" /\ events # <<>> /\ Ignored(Head(events))
    /\ events' = Tail(events)
    /\ UNCHANGED <<state, handle, session, posts, bad, player, cb, call, how, sleepers, told,
                   bounds>>

Hear ==
    /\ cb.pc = "idle" /\ events # <<>> /\ ~Ignored(Head(events))
    /\ Head(events).what # "completed"
    /\ bad' = ~Head(events).ok /\ state' = StateBy(Head(events))
    /\ cb' = [cb EXCEPT !.pc = "posting"]
    /\ events' = Tail(events)
    /\ UNCHANGED <<handle, session, posts, player, call, how, sleepers, told, bounds>>

Post ==
    /\ cb.pc = "posting"
    /\ posts' = posts + 1 /\ cb' = [cb EXCEPT !.pc = "idle"]
    /\ UNCHANGED <<state, handle, session, bad, player, events, call, how, sleepers, told, bounds>>

Completed ==
    /\ cb.pc = "idle" /\ events # <<>> /\ ~Ignored(Head(events))
    /\ Head(events).what = "completed"
    /\ "cross" \in Faults \/ sleepers = <<>>
    /\ session' = session + 1
    /\ \/ /\ handle # 0
          /\ Stop(Tail(events), "cb") /\ cb' = [pc |-> "sleeping", of |-> session]
          /\ UNCHANGED <<state, told>>
       \/ /\ handle = 0
          /\ state' = "idle" /\ Tell(session) /\ events' = Tail(events)
          /\ UNCHANGED <<player, sleepers, cb>>
    /\ UNCHANGED <<handle, posts, bad, call, how, bounds>>

Finished ==
    /\ cb.pc = "sleeping" /\ Wakes("cb")
    /\ player' = Closed /\ handle' = 0 /\ state' = "idle"
    /\ Tell(cb.of) /\ cb' = [cb EXCEPT !.pc = "idle"]
    /\ UNCHANGED <<session, posts, bad, events, call, how, bounds>>

CbStep == Drop \/ Hear \/ Post \/ Completed \/ Finished

(* A track comes to its end, or breaks off.                                *)
TrackEnds ==
    \E s \in Sessions :
        /\ player[s] = "playing"
        /\ player' = [player EXCEPT ![s] = "over"]
        /\ events' = Answer(events, s, "completed", TRUE)
        /\ UNCHANGED <<state, handle, session, posts, bad, cb, call, how, sleepers, told, bounds>>

Next ==
    \/ \E c \in Callers : \/ Play(c) \/ Pause(c) \/ Resume(c) \/ Seek(c) \/ MusicStop(c)
                          \/ CallStep(c)
    \/ CbStep \/ TrackEnds

Spec == /\ Init /\ [][Next]_vars
        /\ \A c \in Callers : WF_vars(CallStep(c))
        /\ WF_vars(CbStep)

-----------------------------------------------------------------------------
(* No player is left open that nobody can close.                           *)
PlayerKept == \A s \in Sessions : player[s] \notin {"none", "closed"} => s = handle

(* When nothing is under way, the state that the tools tell the model, and *)
(* go by, is what the player does, or says that it broke.                  *)
Quiet == events = <<>> /\ cb.pc = "idle" /\ \A c \in Callers : call[c].pc = "idle"
StateIsTrue ==
    Quiet => CASE state = "idle" -> handle = 0
               [] state = "prepared" -> player[handle] = "ready"
               [] state \in {"playing", "paused"} -> player[handle] = state
               [] state = "error" -> handle # 0

(* The agent is told once that a track ended, and never of the one that    *)
(* plays.                                                                  *)
ToldOnce == \A s \in Sessions : told[s] <= 1 /\ (told[s] = 1 => s # handle)

(* Calls return, and answers are heard.                                    *)
Waiting == ~Quiet
CallsReturn == Waiting ~> ~Waiting
=============================================================================
